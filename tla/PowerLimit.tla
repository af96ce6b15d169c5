----------------------------- MODULE PowerLimit -----------------------------
(***************************************************************************)
(* Power limits (ADR-0008, ADR-0009): applied at start-up under R6,        *)
(* compared with the driver's value when a check is due, re-asserted,      *)
(* changed by SIGHUP, left in place or given back at shutdown (main.rs,    *)
(* power.rs, nvml.rs).  Around the daemon the operator edits the file and  *)
(* sends signals, other tools write limits, the process dies, the box      *)
(* reboots.                                                                *)
(*                                                                         *)
(* The driver keeps milliwatts, the configuration watts.  Time is counted  *)
(* in polls.  A read and the set it leads to are one step: a write by      *)
(* another tool in between is overwritten, as if it came before the read.  *)
(* Watts stay below the 10000 of rules P2 and P5, so the saturating        *)
(* multiplication never saturates.                                         *)
(***************************************************************************)
EXTENDS Integers

CONSTANTS
    NumGpus,
    GpuThreshold,        \* as in FaultTracker: copied at start-up
    Structures,          \* what structurally_identical compares, taken together
    Configs,             \* valid contents of the file
    Rejected,            \* content that does not load
    MaxInterval,         \* the longest check interval among Configs
    MinLimit, MaxLimit,  \* the driver's constraints, in milliwatts
    DefaultLimit,        \* the driver's default, in milliwatts
    Foreign,             \* milliwatts that other tools write
    Hazards              \* which adverse events this instance includes

Gpus == 1..NumGpus
Adversities == {"read_fails", "set_fails", "foreign", "crash", "reboot"}

(* The fields of the configuration that concern power limits, per GPU and  *)
(* global.  P1: an enabled limit has its watts.  P2 and P5 bound them.     *)
MaxWatts == 10000
Config == [enabled : [Gpus -> BOOLEAN], watts : [Gpus -> 25..MaxWatts],
           interval : 1..MaxInterval, restore : BOOLEAN, structure : Structures]

ASSUME PowerAssumption ==
    /\ NumGpus \in Nat \ {0} /\ GpuThreshold \in Nat \ {0} /\ MaxInterval \in Nat \ {0}
    /\ Configs \subseteq Config /\ Rejected \notin Configs
    /\ MinLimit \in Nat /\ MaxLimit \in Nat
    /\ DefaultLimit \in MinLimit..MaxLimit
    /\ Foreign \subseteq MinLimit..MaxLimit
    /\ Hazards \subseteq Adversities

VARIABLES
    phase,         \* where the process is; "down" without a process
    at,            \* the GPU whose turn it is
    live,          \* cfg, as far as it concerns power limits
    file,          \* the configuration file
    limit,         \* gpu -> power_management_limit, in milliwatts
    powerAge,      \* polls since last_power_check, up to MaxInterval
    powerCounter,  \* gpu_power_counters
    anyFault,      \* any_fault, as far as power limits set it
    reload,        \* reload_flag
    shutdown       \* shutdown_flag

process == <<phase, at, live, powerAge, powerCounter, anyFault, reload, shutdown>>
vars == <<process, file, limit>>

(* The tracker's other counters have no part in this.                      *)
Tracker == INSTANCE FaultTracker WITH
    Fans <- {}, FanThreshold <- 1,
    gpuCounter <- [g \in Gpus |-> 0], fanCounter <- [f \in {} |-> 0]

Looping == phase \in {"top", "check", "sleep"}

TypeOK ==
    /\ phase \in {"down", "starting", "top", "check", "sleep", "stopping"}
    /\ at \in Gpus
    /\ live \in Configs /\ file \in Configs \cup {Rejected}
    /\ limit \in [Gpus -> MinLimit..MaxLimit]
    /\ powerAge \in [Gpus -> 0..MaxInterval]
    /\ Tracker!TypeOK
    /\ reload \in BOOLEAN /\ shutdown \in BOOLEAN

Init ==
    /\ phase = "down" /\ at = 1
    /\ live \in Configs /\ file = live
    /\ limit = [g \in Gpus |-> DefaultLimit]
    /\ powerAge = [g \in Gpus |-> MaxInterval]
    /\ Tracker!Init
    /\ reload = FALSE /\ shutdown = FALSE

-----------------------------------------------------------------------------
(* read_power_limit_w rounds down; set_power_limit_w is refused out of the *)
(* driver's constraints.                                                   *)
Watts(mw) == mw \div 1000
Settable(watts) == 1000 * watts \in MinLimit..MaxLimit
SetLimit(g, watts) == limit' = [limit EXCEPT ![g] = 1000 * watts]

-----------------------------------------------------------------------------
(* Mutants.                                                                *)

AttemptUnnoticed(g, watts, ok) ==
    /\ ok
    /\ \/ Settable(watts) /\ SetLimit(g, watts)
       \/ UNCHANGED limit

DueWhenOlder(g) == powerAge[g] > live.interval

GivesBackAll(g) == live.restore

NextGpuPastTheEnd(after) == at' = at + 1 /\ UNCHANGED phase

-----------------------------------------------------------------------------
(* A set, and whether the driver took it.                                  *)
Attempt(g, watts, ok) ==
    \/ ok /\ Settable(watts) /\ SetLimit(g, watts)
    \/ ~ok /\ (~Settable(watts) \/ "set_fails" \in Hazards) /\ UNCHANGED limit

(* due() of a GPU that opted in.                                           *)
Due(g) == live.enabled[g] /\ powerAge[g] >= live.interval

(* Whether the shutdown writes the driver's default to g.                  *)
GivesBack(g) == live.restore /\ live.enabled[g]

(* The loops over the GPUs, and what follows them.                         *)
NextGpu(after) ==
    IF at + 1 \in Gpus THEN at' = at + 1 /\ UNCHANGED phase
                       ELSE at' = 1 /\ phase' = after

(* The process is gone, its memory with it; the limits stay.               *)
Die ==
    /\ phase' = "down" /\ at' = 1
    /\ powerAge' = [g \in Gpus |-> MaxInterval]
    /\ powerCounter' = [g \in Gpus |-> 0]
    /\ anyFault' = FALSE /\ reload' = FALSE /\ shutdown' = FALSE

(* What handle_sighup takes over: only a file of the running structure.    *)
Reloadable == file # Rejected /\ file.structure = live.structure

-----------------------------------------------------------------------------
(* A start with a file that loads; no check was ever made, so each is due. *)
Start ==
    /\ phase = "down" /\ file # Rejected
    /\ live' = file
    /\ phase' = "starting" /\ at' = 1
    /\ UNCHANGED <<file, limit, powerAge, powerCounter, anyFault, reload, shutdown>>

(* R6 for one GPU: constraints that cannot be read or do not admit the     *)
(* limit, or a set that fails, end the process; the GPUs before keep what  *)
(* was set.                                                                *)
Apply ==
    /\ phase = "starting"
    /\ LET watts == live.watts[at]
           admitted == watts \in Watts(MinLimit)..Watts(MaxLimit)
           goOn == NextGpu("top")
                   /\ UNCHANGED <<powerAge, powerCounter, anyFault, reload, shutdown>>
       IN  \/ ~live.enabled[at] /\ goOn /\ UNCHANGED limit
           \/ live.enabled[at] /\ admitted /\ Attempt(at, watts, TRUE) /\ goOn
           \/ live.enabled[at] /\ admitted /\ Attempt(at, watts, FALSE) /\ Die
           \/ /\ live.enabled[at] /\ (~admitted \/ "read_fails" \in Hazards)
              /\ Die /\ UNCHANGED limit
    /\ UNCHANGED <<live, file>>

(* The loop's head: the shutdown flag first, then the reload, which swaps  *)
(* the fields unless the file does not load or differs in structure.       *)
(* Neither R6 nor last_power_check is touched.                             *)
LoopTop ==
    /\ phase = "top"
    /\ at' = 1
    /\ IF shutdown
       THEN phase' = "stopping" /\ UNCHANGED <<live, reload>>
       ELSE /\ phase' = "check"
            /\ reload' = FALSE
            /\ live' = IF reload /\ Reloadable THEN file ELSE live
    /\ UNCHANGED <<file, limit, powerAge, powerCounter, anyFault, shutdown>>

(* The drift check of one GPU: what was read decides whether to set, and   *)
(* the outcome of both is one tick.                                        *)
CheckPower ==
    /\ phase = "check"
    /\ IF Due(at)
       THEN /\ \/ /\ "read_fails" \in Hazards
                  /\ Tracker!TickGpuPower(at, FALSE)
                  /\ UNCHANGED limit
               \/ /\ Watts(limit[at]) = live.watts[at]
                  /\ Tracker!TickGpuPower(at, TRUE)
                  /\ UNCHANGED limit
               \/ /\ Watts(limit[at]) # live.watts[at]
                  /\ \E ok \in BOOLEAN :
                        Attempt(at, live.watts[at], ok) /\ Tracker!TickGpuPower(at, ok)
            /\ powerAge' = [powerAge EXCEPT ![at] = 0]
       ELSE UNCHANGED <<limit, powerAge, powerCounter, anyFault>>
    /\ NextGpu("sleep")
    /\ UNCHANGED <<live, file, reload, shutdown>>

Sleep ==
    /\ phase = "sleep"
    /\ phase' = "top"
    /\ powerAge' = [g \in Gpus |->
                       IF powerAge[g] < MaxInterval THEN powerAge[g] + 1 ELSE powerAge[g]]
    /\ UNCHANGED <<at, live, file, limit, powerCounter, anyFault, reload, shutdown>>

(* restore_power_limits_to_default, one GPU; errors are logged.  After the *)
(* last the fans and the watchdog are released and the process ends.       *)
Restore ==
    /\ phase = "stopping"
    /\ \/ ~GivesBack(at) /\ UNCHANGED limit
       \/ GivesBack(at) /\ "read_fails" \in Hazards /\ UNCHANGED limit
       \/ GivesBack(at) /\ \E ok \in BOOLEAN : Attempt(at, Watts(DefaultLimit), ok)
    /\ IF at + 1 \in Gpus
       THEN /\ NextGpu("down")
            /\ UNCHANGED <<powerAge, powerCounter, anyFault, reload, shutdown>>
       ELSE Die
    /\ UNCHANGED <<live, file>>

Loop == LoopTop \/ CheckPower \/ Sleep
Daemon == Start \/ Apply \/ Loop \/ Restore

-----------------------------------------------------------------------------
(* The operator and the machine.                                           *)

Edit ==
    /\ file' \in Configs \cup {Rejected}
    /\ file' # file
    /\ UNCHANGED <<process, limit>>

(* Both flags are registered before the loop; before that a signal kills   *)
(* (Crash).  A SIGHUP after a SIGTERM is never looked at and left out.     *)
Sighup ==
    /\ Looping /\ ~shutdown /\ ~reload
    /\ reload' = TRUE
    /\ UNCHANGED <<phase, at, live, powerAge, powerCounter, anyFault, shutdown, file, limit>>

Sigterm ==
    /\ Looping /\ ~shutdown
    /\ shutdown' = TRUE
    /\ UNCHANGED <<phase, at, live, powerAge, powerCounter, anyFault, reload, file, limit>>

(* nvidia-smi -pl, another tool.                                           *)
ForeignWrite(g) ==
    /\ "foreign" \in Hazards
    /\ \E mw \in Foreign : mw # limit[g] /\ limit' = [limit EXCEPT ![g] = mw]
    /\ UNCHANGED <<process, file>>

Crash ==
    /\ "crash" \in Hazards
    /\ phase # "down"
    /\ Die
    /\ UNCHANGED <<live, file, limit>>

(* The box comes back with the driver's defaults.                          *)
Reboot ==
    /\ "reboot" \in Hazards
    /\ Die
    /\ limit' = [g \in Gpus |-> DefaultLimit]
    /\ UNCHANGED <<live, file>>

World ==
    \/ Edit \/ Sighup \/ Sigterm \/ Crash \/ Reboot
    \/ \E g \in Gpus : ForeignWrite(g)

Next == Daemon \/ World

Spec == Init /\ [][Next]_vars
(* The loop goes on: as in PollLoop.                                       *)
FairSpec == Spec /\ WF_vars(Loop)

-----------------------------------------------------------------------------
(* The daemon writes the limits of GPUs that opted in and of no other, and *)
(* only two values: the configured one, and at a shutdown that asks for it *)
(* the default.  What it does not write survives crash and stop (ADR-0009).*)
WritesOnlyWhatWasAsked ==
    [][\A g \in Gpus : Daemon /\ limit'[g] # limit[g] =>
          \/ live.enabled[g] /\ limit'[g] = 1000 * live.watts[g]
          \/ /\ phase = "stopping" /\ live.enabled[g] /\ live.restore
             /\ limit'[g] = 1000 * Watts(DefaultLimit)]_vars

(* A reload is not checked against the driver's constraints (R6 is for the *)
(* start): a limit that cannot be set must end in a fault, or be withdrawn,*)
(* rather than be attempted for ever in silence.                           *)
Unmeetable(g) == Looping /\ live.enabled[g] /\ ~Settable(live.watts[g])
UnmeetableIsDeclared == \A g \in Gpus : Unmeetable(g) ~> (anyFault \/ ~Unmeetable(g))
=============================================================================
