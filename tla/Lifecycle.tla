----------------------------- MODULE Lifecycle -----------------------------
(***************************************************************************)
(* The life of the daemon's process (main.rs, run_daemon, outside the main *)
(* loop's details) between the kernel's hardware watchdog and systemd:     *)
(* start-up in the order of ADR-0003, signals, the ways to die, the        *)
(* shutdown, and the restart.  Time passes in Tick, in units of systemd's  *)
(* RestartSec or a divisor of it.                                          *)
(*                                                                         *)
(* External, modelled from how the code uses them: the watchdog device     *)
(* (open starts its timer; closing it without the magic 'V' leaves the     *)
(* timer running, watchdog.rs:231-233, or stops it, which is what          *)
(* docs/PLAN.md:696 expects: the adversity "close_disarms") and systemd    *)
(* (Restart=always, RestartSec, WatchdogSec of the unit file).             *)
(***************************************************************************)
EXTENDS Fan

CONSTANTS
    NumFans,
    Timeouts,        \* what the driver makes of the timeout_s a file may have, in ticks
    DriverTimeout,   \* the timeout the driver has after a boot
    SystemdTimeout,  \* WatchdogSec
    RestartDelay,    \* RestartSec
    Hazards          \* which adverse events this instance includes

Fans == 1..NumFans

Adversities == {"refused", "crash", "takeover_fails", "restore_fails",
                "disarm_fails", "fault", "signal", "drift", "close_disarms"}

ASSUME LifecycleAssumption ==
    /\ NumFans \in Nat \ {0}
    /\ Timeouts \subseteq Nat \ {0} /\ DriverTimeout \in Nat \ {0}
    /\ SystemdTimeout \in Nat \ {0} /\ RestartDelay \in Nat
    /\ Hazards \subseteq Adversities

VARIABLES
    phase,      \* where the process is in run_daemon; "down" without a process
    at,         \* the fan to take over next
    left,       \* the fans still to restore (a HashMap: any order)
    fan,        \* the fans and their channels
    fault,      \* any_fault of this process
    shutdown,   \* shutdown_flag of this process
    wd,         \* "running" or "idle": the kernel's timer
    limit,      \* the driver's timeout
    wdAge,      \* ticks since the timer was started or fed
    sdAge,      \* ticks since READY=1 or WATCHDOG=1
    downAge,    \* ticks since the last process ended, as far as RestartDelay
    lost,       \* history: the fans this life of the box cannot give back
    ended       \* history: "crash" from a crash to the next start, else "other"

process == <<phase, at, left, fault, shutdown>>
watchdog == <<wd, limit, wdAge>>
history == <<lost, ended>>
vars == <<process, fan, watchdog, sdAge, downAge, history>>

Phases == {"down", "starting", "taking", "ready", "loop", "restoring", "disarming"}
Alive == phase # "down"
InManual == {f \in Fans : fan[f].enable = Manual}

TypeOK ==
    /\ phase \in Phases
    /\ at \in Fans
    /\ left \subseteq Fans
    /\ fan \in [Fans -> FanState]
    /\ fault \in BOOLEAN /\ shutdown \in BOOLEAN
    /\ wd \in {"running", "idle"}
    /\ limit \in Timeouts \cup {DriverTimeout}
    /\ wdAge \in 0..(limit - 1)
    /\ sdAge \in 0..(SystemdTimeout - 1)
    /\ downAge \in 0..RestartDelay
    /\ lost \subseteq Fans
    /\ ended \in {"crash", "other"}

(* A freshly booted box: every channel under the firmware's policy.        *)
Booted == [f \in Fans |-> Open(BiosMode, 255)]

Init ==
    /\ phase = "down" /\ at = 1 /\ left = {}
    /\ fan = Booted
    /\ fault = FALSE /\ shutdown = FALSE
    /\ wd = "idle" /\ limit = DriverTimeout /\ wdAge = 0
    /\ sdAge = 0 /\ downAge = RestartDelay
    /\ lost = {} /\ ended = "other"

(* The process is gone, its memory with it; the kernel closes the device   *)
(* without a 'V', and the timer, if it runs, goes on.                      *)
Die(how) ==
    /\ phase' = "down" /\ at' = 1 /\ left' = {}
    /\ fault' = FALSE /\ shutdown' = FALSE
    /\ sdAge' = 0 /\ downAge' = 0
    /\ ended' = how
    /\ UNCHANGED lost

AfterClose(timer) == IF "close_disarms" \in Hazards THEN "idle" ELSE timer

(* A death that comes from outside or ends a step that only looked.        *)
DieAsIs(how) ==
    /\ Die(how)
    /\ wd' = AfterClose(wd)
    /\ UNCHANGED <<limit, wdAge, fan>>

-----------------------------------------------------------------------------
(* Mutants.                                                                *)

NextTakePastTheEnd == at' = at + 1 /\ UNCHANGED phase

ArmAfterTakeOver ==
    /\ phase = "starting"
    /\ phase' = "taking" /\ at' = 1
    /\ UNCHANGED <<left, fan, fault, shutdown, watchdog, sdAge, downAge, history>>

PollFeedingAnyway ==
    /\ phase = "loop" /\ ~shutdown
    /\ fault' \in {fault, TRUE}
    /\ wdAge' = 0 /\ sdAge' = 0
    /\ UNCHANGED <<phase, at, left, fan, shutdown, wd, limit, downAge, history>>

PollNotifyingLate ==
    /\ phase = "loop" /\ ~shutdown
    /\ wdAge' = 0
    /\ UNCHANGED <<process, fan, wd, limit, sdAge, downAge, history>>

LeaveDisarmingFirst ==
    /\ phase = "loop" /\ shutdown
    /\ phase' = "disarming"
    /\ UNCHANGED <<at, left, fan, fault, shutdown, watchdog, sdAge, downAge, history>>

-----------------------------------------------------------------------------
(* systemd starts the unit, at boot or RestartSec after its last end.  The *)
(* new process cannot know what a channel it finds in manual mode was in   *)
(* before.                                                                 *)
Start ==
    /\ phase = "down" /\ downAge >= RestartDelay
    /\ phase' = "starting"
    /\ lost' = InManual /\ ended' = "other"
    /\ UNCHANGED <<at, left, fan, fault, shutdown, watchdog, sdAge, downAge>>

(* Steps 1 to 3 and R6 only observe the box (and set power limits): any of *)
(* them may refuse, and the watchdog may fail to open.                     *)
Refuse ==
    /\ "refused" \in Hazards
    /\ phase = "starting"
    /\ DieAsIs("other")

(* HardwareWatchdog::open: opening the device starts its timer, then       *)
(* WDIOC_SETTIMEOUT sets the timeout of the file there is now; or it fails *)
(* and the process ends, with the timer running as the driver had it.      *)
Arm ==
    /\ phase = "starting"
    /\ wdAge' = 0
    /\ \/ /\ phase' = "taking" /\ at' = 1
          /\ wd' = "running" /\ limit' \in Timeouts
          /\ UNCHANGED <<left, fault, shutdown, sdAge, downAge, history>>
       \/ /\ "refused" \in Hazards
          /\ Die("other")
          /\ wd' = AfterClose("running") /\ UNCHANGED limit
    /\ UNCHANGED fan

(* The takeover goes through the fans in the order of the configuration.   *)
NextTake ==
    IF at + 1 \in Fans THEN at' = at + 1 /\ UNCHANGED phase
                       ELSE at' = 1 /\ phase' = "ready"

(* take_manual_control of one fan; an error ends run_daemon on the spot,   *)
(* with the fans taken so far in manual mode.                              *)
TakeFan ==
    /\ phase = "taking"
    /\ \E fails \in (IF "takeover_fails" \in Hazards THEN Access ELSE {"none"}) :
          LET taken == TakeManualControl(Open(fan[at].enable, fan[at].duty), fails)
          IN  /\ fan' = [fan EXCEPT ![at] = taken.fan]
              /\ IF ~taken.ok THEN Die("other") /\ wd' = AfterClose(wd)
                 ELSE /\ NextTake
                      /\ UNCHANGED <<left, fault, shutdown, wd, sdAge, downAge, history>>
    /\ UNCHANGED <<limit, wdAge>>

(* READY=1 is out; now the signal flags are registered.                    *)
Register ==
    /\ phase = "ready"
    /\ phase' = "loop"
    /\ UNCHANGED <<at, left, fan, fault, shutdown, watchdog, sdAge, downAge, history>>

(* One iteration of the main loop: PollLoop has its steps.  The fans are   *)
(* re-armed where they drifted; without a fault both watchdogs are fed.    *)
Poll ==
    /\ phase = "loop" /\ ~shutdown
    /\ fan' = [f \in Fans |-> EnsureManual(fan[f], "none").fan]
    /\ fault' \in (IF "fault" \in Hazards THEN {fault, TRUE} ELSE {fault})
    /\ IF fault' THEN UNCHANGED <<wdAge, sdAge>> ELSE wdAge' = 0 /\ sdAge' = 0
    /\ UNCHANGED <<phase, at, left, shutdown, wd, limit, downAge, history>>

Leave ==
    /\ phase = "loop" /\ shutdown
    /\ phase' = "restoring" /\ left' = Fans
    /\ UNCHANGED <<at, fan, fault, shutdown, watchdog, sdAge, downAge, history>>

(* An error is logged and the next fan is tried: the process that knew the *)
(* fan's mode is about to end.                                             *)
RestoreFan(f) ==
    /\ phase = "restoring" /\ f \in left
    /\ \E fails \in (IF "restore_fails" \in Hazards THEN Access ELSE {"none"}) :
          LET back == Restore(fan[f], fails)
          IN  /\ fan' = [fan EXCEPT ![f] = back.fan]
              /\ lost' = IF back.ok THEN lost ELSE lost \cup {f}
    /\ left' = left \ {f}
    /\ phase' = IF left' = {} THEN "disarming" ELSE "restoring"
    /\ UNCHANGED <<at, fault, shutdown, watchdog, sdAge, downAge, ended>>

(* disarm_and_close, whatever became of the restores, and exit.            *)
Disarm ==
    /\ phase = "disarming"
    /\ Die("other")
    /\ \/ wd' = "idle" /\ wdAge' = 0
       \/ "disarm_fails" \in Hazards /\ wd' = AfterClose(wd) /\ UNCHANGED wdAge
    /\ UNCHANGED <<fan, limit>>

Daemon ==
    \/ Arm \/ TakeFan \/ Register \/ Poll \/ Leave \/ Disarm
    \/ \E f \in Fans : RestoreFan(f)

-----------------------------------------------------------------------------
(* SIGKILL, the OOM killer, a panic (which aborts).                        *)
Crash ==
    /\ "crash" \in Hazards
    /\ Alive
    /\ DieAsIs("crash")

(* A SIGTERM kills a process that has not registered its flags yet; after  *)
(* that it sets a flag.                                                    *)
Sigterm ==
    /\ "signal" \in Hazards
    /\ Alive
    /\ IF phase \in {"starting", "taking", "ready"}
       THEN DieAsIs("other")
       ELSE /\ shutdown' = TRUE
            /\ UNCHANGED <<phase, at, left, fan, fault, watchdog, sdAge, downAge, history>>

(* The driver resets a channel to the firmware's mode.                     *)
Drift(f) ==
    /\ "drift" \in Hazards
    /\ fan[f].enable = Manual
    /\ fan' = [fan EXCEPT ![f].enable = BiosMode]
    /\ UNCHANGED <<process, watchdog, sdAge, downAge, history>>

(* A tick: the kernel reboots, or systemd aborts a silent service, or only *)
(* time passes.  The kernel was fed before systemd (main.rs:408, 412), so  *)
(* it is first when both are due, and a box that reboots does not get to   *)
(* the second.                                                             *)
KernelExpires == wd = "running" /\ wdAge + 1 = limit
Supervised == phase \in {"ready", "loop"}
SystemdExpires == Supervised /\ sdAge + 1 = SystemdTimeout
WatchdogAges == wdAge' = IF wd = "running" THEN wdAge + 1 ELSE wdAge

Reboot ==
    /\ KernelExpires
    /\ phase' = "down" /\ at' = 1 /\ left' = {}
    /\ fan' = Booted
    /\ fault' = FALSE /\ shutdown' = FALSE
    /\ wd' = "idle" /\ limit' = DriverTimeout /\ wdAge' = 0
    /\ sdAge' = 0 /\ downAge' = RestartDelay
    /\ lost' = {} /\ ended' = "other"

SystemdAborts ==
    /\ SystemdExpires /\ ~KernelExpires
    /\ Die("other")
    /\ wd' = AfterClose(wd) /\ WatchdogAges
    /\ UNCHANGED <<fan, limit>>

Pass ==
    /\ ~KernelExpires /\ ~SystemdExpires
    /\ WatchdogAges
    /\ sdAge' = IF Supervised THEN sdAge + 1 ELSE sdAge
    /\ downAge' = IF ~Alive /\ downAge < RestartDelay THEN downAge + 1 ELSE downAge
    /\ UNCHANGED <<process, fan, wd, limit, history>>

Tick == Reboot \/ SystemdAborts \/ Pass

Next ==
    \/ Start \/ Refuse \/ Daemon \/ Crash \/ Sigterm \/ Tick
    \/ \E f \in Fans : Drift(f)

Spec == Init /\ [][Next]_vars
(* Time passes; a process that is alive goes on.                           *)
FairSpec == Spec /\ WF_vars(Tick) /\ WF_vars(Daemon)

-----------------------------------------------------------------------------
(* ADR-0003's window, word for word: no fan is in manual mode without the  *)
(* kernel's timer running.                                                 *)
NoWindow == InManual # {} => wd = "running"

(* What is left of it with the shipped RestartSec, below the timeout: over *)
(* every start, death, early restart and shutdown the timer runs while any *)
(* fan is in manual mode, but for the ones a start found in it (as a crash *)
(* leaves them) and the ones whose restore failed.                         *)
Guarded == InManual \subseteq lost \/ wd = "running"

(* The life cycle implements the fail-safe of its ADRs.                    *)
Abstract == INSTANCE FailSafe WITH
    held <- InManual \ lost,
    timer <- wd,
    alive <- Alive

FailSafeSpec == Abstract!Spec

(* A process past its takeover holds the firmware's own mode in every      *)
(* snapshot of a channel that was not in manual mode when it started, so   *)
(* that a shutdown gives that fan back (ADR-0002).                         *)
SnapshotsAreFirmware ==
    phase \in {"ready", "loop", "restoring", "disarming"} =>
        \A f \in Fans \ lost : fan[f].snapshot = BiosMode

(* systemd's abort and restart of a silent daemon, which would wipe a      *)
(* fault out, never comes before the kernel's reboot while the kernel's    *)
(* timeout is no longer than WatchdogSec, as shipped.                      *)
KernelBeforeSystemd == [][SystemdAborts => limit > SystemdTimeout]_vars

(* After a declared fault the box reboots, unless the operator stops the   *)
(* daemon or it crashes, if the kernel's timeout is no longer than         *)
(* WatchdogSec.                                                            *)
FaultStopsTheTimer ==
    (fault /\ limit <= SystemdTimeout) ~> (wd = "idle" \/ shutdown \/ ended = "crash")
=============================================================================
