----------------------------- MODULE MCPollLoop -----------------------------
(***************************************************************************)
(* Small instances of PollLoop.  The curve is flat up to 40 degrees and    *)
(* reaches full duty at 80, so that the temperatures 40, 50 and 80 give    *)
(* 30, 50 and 100 percent: from 40 to 50 is no jump, from either to 80 is. *)
(***************************************************************************)
EXTENDS PollLoop

Curve == <<<<40, 30>>, <<60, 70>>, <<80, 100>>>>

(* Two GPUs; the second has a higher floor and a lower ceiling.            *)
MCView == <<[curve |-> Curve, min |-> 20, max |-> 100],
            [curve |-> Curve, min |-> 40, max |-> 60]>>

AtStart == [view |-> MCView, powerGpus |-> {1}, powerInterval |-> 2, poll |-> 1,
            gpuThreshold |-> 1, fanThreshold |-> 1]
NoPower == [AtStart EXCEPT !.powerGpus = {}]

(* Reloads: a longer poll without power limits and with another floor; and *)
(* thresholds that differ from the ones at start.                          *)
Slower == [NoPower EXCEPT !.poll = 2, !.view[1].min = 40, !.view[2].max = 80]
Laxer  == [AtStart EXCEPT !.gpuThreshold = 2, !.powerInterval = 1]

Fixed == {AtStart}
FixedNoPower == {NoPower}
SlowerOrNot == {AtStart, Slower}
UnpoweredSlowerOrNot == {NoPower, Slower}
LaxerOrNot == {AtStart, Laxer}

(* One cooling group; or two, the first with two fans.                     *)
OneGroup == <<1, 1>>
TwoGroups == <<1, 2>>
ThreeFans == <<1, 1, 2>>
=============================================================================
