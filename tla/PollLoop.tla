------------------------------ MODULE PollLoop ------------------------------
(***************************************************************************)
(* The daemon's main loop (main.rs, run_daemon): every poll reads each     *)
(* GPU, checks the power limits that are due, drives each fan of each      *)
(* cooling group and classifies its tachometer, slams every fan to full    *)
(* when a fault was declared, feeds the hardware watchdog unless a fault   *)
(* stands, and sleeps.  Between any two steps the machine may change under *)
(* the daemon: a chip falls back to firmware mode, a rotor seizes, a PWM   *)
(* register stops taking writes, a GPU stops answering, SIGTERM arrives.   *)
(*                                                                         *)
(* GPUs and fans are numbered in the order in which the loop visits them.  *)
(* Time passes in Sleep.  SIGHUP replaces the live configuration at the    *)
(* top of a poll by any other that was accepted (see Config); what start-  *)
(* up copied out of it into the fans and the tracker stays as it was.      *)
(***************************************************************************)
EXTENDS Fan

CONSTANTS
    NumGpus, NumFans,   \* how many the configuration lists
    GpuThreshold,       \* the tracker's, copied at start-up
    FanThreshold,
    GpuGroup, FanGroup, \* gpu -> cooling group, fan -> cooling group
    Configs,            \* the configurations validate accepts
    MaxPowerInterval,   \* the longest powerInterval (P4)
    Timeout,            \* watchdog.timeout_s
    Accepted,           \* what the driver made of it (it may round)
    Temps,              \* temperatures a GPU reports
    Rpms,               \* readings of a turning rotor; may hold NoRpm
    NoRpm,              \* the tachometer could not be read
    Hazards             \* which adverse events this instance includes

Gpus == 1..NumGpus
Fans == 1..NumFans

Adversities == {"flaky_read", "flaky_sysfs", "flaky_feed", "power", "blind",
                "seized", "deaf", "drift", "sigterm", "reload"}

VARIABLES
    gpuCounter, powerCounter, fanCounter, anyFault,   \* fault_tracker
    pc,          \* the step of the loop that comes next
    at,          \* the GPU or fan that step is for
    live,        \* cfg, the fields the loop reads in every poll
    temps,       \* this poll's temps map
    shouldSlam,  \* should_slam
    fan,         \* fans, each with the channel it drives
    lastSetPct,  \* last_set_pct of the loop (not the fan's own)
    spinAge,     \* time since the fan's entry in spin_up_entries
    powerAge,    \* time since the GPU's entry in last_power_check
    shutdown,    \* shutdown_flag
    wdAge,       \* time since the kernel last saw a feed
    blind,       \* GPUs that will never answer again
    condition    \* fan -> "fine", "seized" (no rotation) or "deaf" (no PWM writes)

Tracker == INSTANCE FaultTracker

trackerVars == <<gpuCounter, powerCounter, fanCounter, anyFault>>
world == <<blind, condition>>
vars == <<trackerVars, pc, at, live, temps, shouldSlam, fan, lastSetPct, spinAge,
          powerAge, shutdown, wdAge, world>>

(* The main loop ends by leaving it or by the kernel's reboot.             *)
Over == pc \in {"exited", "rebooted"}
Steps == {"top", "read", "power", "drive", "slam", "feed", "sleep"}

ASSUME LoopAssumption ==
    /\ NumGpus \in Nat \ {0} /\ NumFans \in Nat \ {0}
    /\ GpuThreshold \in Nat \ {0} /\ FanThreshold \in Nat \ {0}
    /\ Timeout \in Nat /\ Accepted \in Nat \ {0} /\ MaxPowerInterval \in Nat \ {0}
    /\ Temps \subseteq Int
    /\ NoRpm \notin Nat /\ Rpms \subseteq Nat \cup {NoRpm}
    /\ Hazards \subseteq Adversities

(* What an accepted configuration says of each GPU (view, and whether its  *)
(* power limit is checked), of the times and of the thresholds, the fans'  *)
(* taken together: G1 to G8, W3, W4, F2, P4, and W5 for its own thresholds.*)
ConfigFields == {"view", "powerGpus", "powerInterval", "poll", "gpuThreshold", "fanThreshold"}
ASSUME ConfigAssumption ==
    \A c \in Configs :
        /\ DOMAIN c = ConfigFields
        /\ \A g \in Gpus : ValidView(c.view[g])
        /\ c.powerInterval \in 0..MaxPowerInterval
        /\ c.poll \in Nat \ {0} /\ c.gpuThreshold \in Nat \ {0} /\ c.fanThreshold \in Nat \ {0}
        /\ 2 * c.poll * c.gpuThreshold < Timeout
        /\ 2 * c.poll * c.fanThreshold < Timeout

-----------------------------------------------------------------------------
TypeOK ==
    /\ Tracker!TypeOK
    /\ pc \in Steps \cup {"exited", "rebooted"}
    /\ at \in Gpus \cup Fans
    /\ pc \in {"read", "power"} => at \in Gpus
    /\ pc = "drive" => at \in Fans
    /\ live \in Configs
    /\ temps \in [Gpus -> Temps \cup {NoTemp}]
    /\ shouldSlam \in BOOLEAN
    /\ fan \in [Fans -> FanState]
    /\ lastSetPct \in [Fans -> Percent \cup {NoPct}]
    /\ spinAge \in [Fans -> 0..Grace]
    /\ powerAge \in [Gpus -> 0..MaxPowerInterval]
    /\ shutdown \in BOOLEAN
    /\ wdAge \in 0..Accepted
    /\ blind \subseteq Gpus
    /\ condition \in [Fans -> {"fine", "seized", "deaf"}]

(* Every fan was taken over, in manual mode and in its spin-up grace, and  *)
(* the watchdog was armed just before.                                     *)
Init ==
    /\ Tracker!Init
    /\ pc = "top" /\ at = 1
    /\ live \in Configs
    /\ live.gpuThreshold = GpuThreshold /\ live.fanThreshold = FanThreshold
    /\ temps = [g \in Gpus |-> NoTemp]
    /\ shouldSlam = FALSE
    /\ fan = [f \in Fans |-> TakeManualControl(Open(BiosMode, 255), "none").fan]
    /\ lastSetPct = [f \in Fans |-> NoPct]
    /\ spinAge = [f \in Fans |-> 0]
    /\ powerAge = [g \in Gpus |-> MaxPowerInterval]   \* None: due at once
    /\ shutdown = FALSE
    /\ wdAge = 0
    /\ blind = {}
    /\ condition = [f \in Fans |-> "fine"]

-----------------------------------------------------------------------------
(* Mutants.                                                                *)

TargetOfOwnGpu(f) ==
    TargetPct({g \in Gpus : g = f /\ GpuGroup[g] = FanGroup[f]}, temps, live.view)

NextFanPastTheEnd == pc' = "drive" /\ at' = at + 1

ReadTempLastWins ==
    /\ pc = "read"
    /\ \E t \in Temps \cup {NoTemp} :
          /\ temps' = [temps EXCEPT ![at] = t]
          /\ Tracker!TickGpu(at, t # NoTemp)
          /\ shouldSlam' = Tracker!GpuTickDeclares(at)
    /\ IF at + 1 \in Gpus THEN pc' = "read" /\ at' = at + 1
                          ELSE pc' = "drive" /\ at' = 1
    /\ UNCHANGED <<live, fan, lastSetPct, spinAge, powerAge, shutdown, wdAge, world>>

FeedUnless(silent) ==
    /\ pc = "feed"
    /\ wdAge' = IF silent THEN wdAge ELSE 0
    /\ pc' = "sleep"
    /\ UNCHANGED <<trackerVars, at, live, temps, shouldSlam, fan, lastSetPct, spinAge,
                   powerAge, shutdown, world>>

FeedUnlessSlamming == FeedUnless(shouldSlam)
FeedOnlyOnReads == FeedUnless(anyFault \/ \E g \in Gpus : temps[g] = NoTemp)

-----------------------------------------------------------------------------
GpusOf(group) == {g \in Gpus : GpuGroup[g] = group}
Target(f) == TargetPct(GpusOf(FanGroup[f]), temps, live.view)

(* What can come of a sysfs operation on f, and of reading its tachometer. *)
Failing(f) ==
    IF condition[f] = "deaf" THEN {"write_duty"}
    ELSE IF "flaky_sysfs" \in Hazards THEN Access
    ELSE {"none"}
Readings(f) == IF condition[f] = "seized" THEN {0, NoRpm} \cap (Rpms \cup {0}) ELSE Rpms

(* What can come of reading g's temperature.                               *)
Answers(g) ==
    IF g \in blind THEN {NoTemp}
    ELSE IF "flaky_read" \in Hazards THEN Temps \cup {NoTemp}
    ELSE Temps

(* The loops over the GPUs and over the fans.                              *)
NextGpu ==
    IF at + 1 \in Gpus THEN pc' = "read" /\ at' = at + 1
                       ELSE pc' = "drive" /\ at' = 1
NextFan ==
    IF at + 1 \in Fans THEN pc' = "drive" /\ at' = at + 1
                       ELSE pc' = "slam" /\ at' = 1

-----------------------------------------------------------------------------
(* `while !shutdown_flag`, a reload when SIGHUP came (a file that is not   *)
(* accepted changes nothing), and a poll's fresh temps and should_slam.    *)
LoopTop ==
    /\ pc = "top"
    /\ IF shutdown
       THEN /\ pc' = "exited"
            /\ UNCHANGED <<live, temps, shouldSlam>>
       ELSE /\ pc' = "read"
            /\ live' \in IF "reload" \in Hazards THEN Configs ELSE {live}
            /\ temps' = [g \in Gpus |-> NoTemp]
            /\ shouldSlam' = FALSE
    /\ at' = 1
    /\ UNCHANGED <<trackerVars, fan, lastSetPct, spinAge, powerAge, shutdown,
                   wdAge, world>>

ReadTemp ==
    /\ pc = "read"
    /\ \E t \in Answers(at) :
          /\ temps' = [temps EXCEPT ![at] = t]
          /\ Tracker!TickGpu(at, t # NoTemp)
          /\ shouldSlam' = (shouldSlam \/ Tracker!GpuTickDeclares(at))
    /\ IF at \in live.powerGpus THEN pc' = "power" /\ UNCHANGED at ELSE NextGpu
    /\ UNCHANGED <<live, fan, lastSetPct, spinAge, powerAge, shutdown, wdAge, world>>

(* The drift check: when due, one read and at most one write, whose joint  *)
(* outcome is ticked.                                                      *)
CheckPower ==
    /\ pc = "power"
    /\ IF powerAge[at] >= live.powerInterval
       THEN \E ok \in (IF "power" \in Hazards THEN BOOLEAN ELSE {TRUE}) :
               /\ Tracker!TickGpuPower(at, ok)
               /\ shouldSlam' = (shouldSlam \/ Tracker!PowerTickDeclares(at))
               /\ powerAge' = [powerAge EXCEPT ![at] = 0]
       ELSE UNCHANGED <<trackerVars, shouldSlam, powerAge>>
    /\ NextGpu
    /\ UNCHANGED <<live, temps, fan, lastSetPct, spinAge, shutdown, wdAge, world>>

(* The tachometer part of a fan's turn: a reading advances the spin-up     *)
(* state and is then classified; no reading counts as Stalled, unmasked.   *)
Classify(x, rpm, age) ==
    IF rpm = NoRpm THEN [fan |-> x, health |-> "Stalled"]
    ELSE LET y == TickSpinUp(x, rpm, age)
         IN  [fan |-> y, health |-> CheckHealth(rpm, y.spin)]

(* A fan's turn.  The loop decides on its own lastSetPct whether the grace *)
(* window restarts, and records the target even when the set failed.       *)
DriveFan ==
    /\ pc = "drive"
    /\ \E fails \in Failing(at), rpm \in Readings(at) :
          LET target  == Target(at)
              age     == IF Jump(lastSetPct[at], target) THEN 0 ELSE spinAge[at]
              set     == Set(fan[at], target, fails)
              verdict == Classify(set.fan, rpm, age)
          IN  /\ fan' = [fan EXCEPT ![at] = verdict.fan]
              /\ lastSetPct' = [lastSetPct EXCEPT ![at] = target]
              /\ spinAge' = [spinAge EXCEPT ![at] = age]
              /\ Tracker!TickFan(at, verdict.health)
              /\ shouldSlam' = (shouldSlam \/ Tracker!FanTickDeclares(at, verdict.health))
    /\ NextFan
    /\ UNCHANGED <<live, temps, powerAge, shutdown, wdAge, world>>

(* slam_all_fans_to_max: failures are logged, the window restarts for all. *)
Slam ==
    /\ pc = "slam"
    /\ IF shouldSlam
       THEN /\ \E fails \in [Fans -> Access] :
                  /\ \A f \in Fans : fails[f] \in Failing(f)
                  /\ fan' = [f \in Fans |-> SetMax(fan[f], fails[f]).fan]
            /\ spinAge' = [f \in Fans |-> 0]
       ELSE UNCHANGED <<fan, spinAge>>
    /\ pc' = "feed"
    /\ UNCHANGED <<trackerVars, at, live, temps, shouldSlam, lastSetPct, powerAge,
                   shutdown, wdAge, world>>

(* Feed gating (ADR-0001); a feed that fails is logged.                    *)
Feed ==
    /\ pc = "feed"
    /\ IF anyFault THEN UNCHANGED wdAge
       ELSE \/ wdAge' = 0
            \/ "flaky_feed" \in Hazards /\ UNCHANGED wdAge
    /\ pc' = "sleep"
    /\ UNCHANGED <<trackerVars, at, live, temps, shouldSlam, fan, lastSetPct, spinAge,
                   powerAge, shutdown, world>>

Older(age, limit) == IF age + live.poll < limit THEN age + live.poll ELSE limit

(* One poll interval passes; a watchdog unfed for the timeout its driver   *)
(* accepted reboots.                                                       *)
Sleep ==
    /\ pc = "sleep"
    /\ wdAge' = Older(wdAge, Accepted)
    /\ pc' = IF wdAge' = Accepted THEN "rebooted" ELSE "top"
    /\ spinAge' = [f \in Fans |-> Older(spinAge[f], Grace)]
    /\ powerAge' = [g \in Gpus |-> Older(powerAge[g], MaxPowerInterval)]
    /\ UNCHANGED <<trackerVars, at, live, temps, shouldSlam, fan, lastSetPct,
                   shutdown, world>>

Loop == LoopTop \/ ReadTemp \/ CheckPower \/ DriveFan \/ Slam \/ Feed \/ Sleep

-----------------------------------------------------------------------------
(* The machine around the daemon.                                          *)
loopVars == <<trackerVars, pc, at, live, temps, shouldSlam, lastSetPct, spinAge,
              powerAge, wdAge>>

(* The driver re-initialises the chip (resume): firmware mode again.       *)
Drift(f) ==
    /\ "drift" \in Hazards /\ ~Over
    /\ fan[f].enable = Manual
    /\ fan' = [fan EXCEPT ![f].enable = BiosMode]
    /\ UNCHANGED <<loopVars, shutdown, world>>

Break(f, how) ==
    /\ how \in Hazards /\ ~Over
    /\ condition[f] = "fine"
    /\ condition' = [condition EXCEPT ![f] = how]
    /\ UNCHANGED <<loopVars, fan, shutdown, blind>>

GoBlind(g) ==
    /\ "blind" \in Hazards /\ ~Over
    /\ g \notin blind
    /\ blind' = blind \cup {g}
    /\ UNCHANGED <<loopVars, fan, shutdown, condition>>

Sigterm ==
    /\ "sigterm" \in Hazards /\ ~Over
    /\ ~shutdown
    /\ shutdown' = TRUE
    /\ UNCHANGED <<loopVars, fan, world>>

World ==
    \/ \E f \in Fans : Drift(f) \/ Break(f, "seized") \/ Break(f, "deaf")
    \/ \E g \in Gpus : GoBlind(g)
    \/ Sigterm

(* After the loop: shutdown is the business of Lifecycle.                  *)
Stopped == Over /\ UNCHANGED vars

Next == Loop \/ World \/ Stopped

Spec == Init /\ [][Next]_vars
(* The loop runs on as long as it can: a thread that only ever sleeps for  *)
(* a bounded time.  Nothing is promised about the machine around it.       *)
FairSpec == Spec /\ WF_vars(Loop)
-----------------------------------------------------------------------------
(* Safety.  A sysfs write that fails is only logged, so the duties below   *)
(* are those of fans whose writes work.                                    *)
Obeys(f) == condition[f] # "deaf" /\ "flaky_sysfs" \notin Hazards
FullDuty(f) == fan[f].duty = 255 \/ fan[f].enable = BiosMode

(* A GPU's counter stands beyond its threshold after a tick in this poll.  *)
GpuFaultNow ==
    \E g \in Gpus : \/ gpuCounter[g] > GpuThreshold
                    \/ powerCounter[g] > GpuThreshold /\ powerAge[g] = 0

(* The fault response is system-wide: when a fault of any GPU, power limit *)
(* or fan was declared in this poll, every fan of every group runs at full *)
(* duty before the feed is decided, also one that drifted meanwhile (a     *)
(* drifted channel is under the firmware's full-speed policy).             *)
FaultPollMaxesAll ==
    pc = "feed" /\ (shouldSlam \/ GpuFaultNow)
        => \A f \in Fans : Obeys(f) => FullDuty(f)

(* The fans of a cooling group run at one duty once the loop has driven    *)
(* them, however they were drifted or slammed before.                      *)
GroupMovesTogether ==
    pc = "slam" =>
        \A f, h \in Fans :
            FanGroup[f] = FanGroup[h] /\ Obeys(f) /\ Obeys(h) => fan[f].duty = fan[h].duty

(* No fan runs a poll below the floor of a GPU of its group that was read. *)
ReadableFloor ==
    pc \in {"slam", "feed", "sleep"} =>
        \A f \in Fans : \A g \in GpusOf(FanGroup[f]) :
            Obeys(f) /\ temps[g] # NoTemp => fan[f].duty >= PwmOf(live.view[g].min)

(* A counter beyond its threshold has set the latch.                       *)
CountersLatched == Tracker!CountersLatched

(* Rule W5 leaves room for a whole poll, also when the driver rounds the   *)
(* timeout down to half, which open only logs: without a fault, and with a *)
(* watchdog device that takes its feeds, the box is never rebooted.        *)
FeedsInTime == "flaky_feed" \notin Hazards /\ Timeout <= 2 * Accepted
HealthyNeverRebooted == pc = "rebooted" /\ FeedsInTime => anyFault

(* Once a fault stands, no step of the daemon feeds the watchdog again,    *)
(* whatever recovers: every fault path ends in silence (ADR-0001).         *)
FaultSilencesForGood == [][anyFault => anyFault' /\ wdAge' >= wdAge]_vars

(* Liveness.  A fault ends in the kernel's reboot unless the operator      *)
(* stops the daemon first.                                                 *)
FaultEndsInReboot == anyFault ~> (pc = "rebooted" \/ shutdown)

(* A GPU that no longer answers is declared, or the daemon stops.          *)
BlindIsDetected == \A g \in Gpus : g \in blind ~> (anyFault \/ Over)

(* A fan that no longer turns is declared, or the daemon stops: the        *)
(* spin-up grace, re-entered by drift, by slams and by jumps of the duty,  *)
(* must not hide it for ever.                                              *)
SeizedIsDetected ==
    \A f \in Fans : condition[f] = "seized" ~> (anyFault \/ Over)

-----------------------------------------------------------------------------
(* What documents and comments say and the code does not do; each is       *)
(* refuted by a run of its own.                                            *)

(* PLAN.md:657-662 lists gpu_fail_threshold and fan_fail_threshold as      *)
(* "hot-reloadable (data-only swap, applied next poll iteration)": a       *)
(* source that was ticked beyond the threshold in force is declared.       *)
ThresholdsInForce ==
    pc = "feed" =>
        /\ \A g \in Gpus : gpuCounter[g] > live.gpuThreshold => anyFault
        /\ \A f \in Fans : fanCounter[f] > live.fanThreshold => anyFault

(* fan.rs:111-113: after a re-arm "the next RPM read must not be           *)
(* classified as Stalled".                                                 *)
RearmGrantsGrace ==
    [][\A f \in Fans :
          pc = "drive" /\ at = f /\ fan[f].enable # Manual /\ fan'[f].enable = Manual
              => fanCounter'[f] <= fanCounter[f]]_vars
=============================================================================
