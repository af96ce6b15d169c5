------------------------------ MODULE FailSafe ------------------------------
(***************************************************************************)
(* What the daemon's life cycle promises (ADR-0002, ADR-0003), without the *)
(* daemon's steps: a fan is held in manual mode only while the hardware    *)
(* watchdog's timer runs, and the timer stops only when no fan is held, or *)
(* by the reboot that gives them all back.  A fan is lost, and no longer   *)
(* held, when nobody knows the firmware's mode of its channel any more:    *)
(* because a process found it in manual mode when it started, or because   *)
(* the attempt to give it back failed.                                     *)
(***************************************************************************)
CONSTANT Fans

VARIABLES
    held,    \* the fans in manual mode that their process can give back
    lost,    \* the fans nobody can give back until the box reboots
    timer,   \* "running" or "idle": the kernel's watchdog
    alive    \* a process is up

vars == <<held, lost, timer, alive>>

Init == held = {} /\ lost = {} /\ timer = "idle" /\ alive = FALSE

(* A process starts: it can give back nothing of what is in manual mode.   *)
(* A lost fan that the firmware took back by itself is lost no longer.     *)
Begin ==
    /\ ~alive /\ alive' = TRUE
    /\ held' = {} /\ held \subseteq lost' /\ lost' \subseteq held \cup lost
    /\ UNCHANGED timer

(* The timer starts, and the process goes on or ends on the spot.          *)
StartTimer ==
    /\ alive /\ alive' \in BOOLEAN
    /\ timer' = "running"
    /\ UNCHANGED <<held, lost>>

TakeOver ==
    /\ alive /\ timer = "running"
    /\ held \subseteq held' /\ held' \subseteq Fans \ lost
    /\ UNCHANGED <<lost, timer, alive>>

(* A fan goes back to the firmware, at any time.                           *)
Release ==
    /\ held' \subseteq held
    /\ UNCHANGED <<lost, timer, alive>>

GiveUp(f) ==
    /\ alive
    /\ held' = held \ {f} /\ lost' = lost \cup {f}
    /\ UNCHANGED <<timer, alive>>

(* However a process ends, the timer goes on,                              *)
End ==
    /\ alive /\ alive' = FALSE
    /\ UNCHANGED <<held, lost, timer>>

(* unless it stops it in its last step.                                    *)
StopTimer ==
    /\ alive /\ alive' = FALSE
    /\ held = {}
    /\ timer' = "idle"
    /\ UNCHANGED <<held, lost>>

Reboot ==
    /\ timer = "running" /\ timer' = "idle"
    /\ held' = {} /\ lost' = {} /\ alive' = FALSE

Next ==
    \/ Begin \/ StartTimer \/ TakeOver \/ Release \/ End \/ StopTimer \/ Reboot
    \/ \E f \in Fans : GiveUp(f)

Spec == Init /\ [][Next]_vars
=============================================================================
