--------------------------- MODULE MCFaultTracker ---------------------------
(***************************************************************************)
(* Runs FaultTracker beside a history of what every source's ticks found,  *)
(* and compares what it declares with what the history says it should.     *)
(***************************************************************************)
EXTENDS FaultTracker, Sequences

CONSTANT MaxTicks   \* bound on the length of a source's history

VARIABLE outcomes   \* source -> its outcomes; one a spin-up masks is none

vars == <<gpuCounter, powerCounter, fanCounter, anyFault, outcomes>>

Sources == ({"temp", "power"} \X Gpus) \cup ({"fan"} \X Fans)
Threshold(source) == IF source[1] = "fan" THEN FanThreshold ELSE GpuThreshold

Found(good) == IF good THEN "good" ELSE "bad"

Record(source, outcome) ==
    /\ Len(outcomes[source]) < MaxTicks
    /\ outcomes' = [outcomes EXCEPT ![source] = Append(@, outcome)]

MCInit == Init /\ outcomes = [s \in Sources |-> <<>>]

MCNext ==
    \/ \E g \in Gpus, ok \in BOOLEAN :
          \/ TickGpu(g, ok) /\ Record(<<"temp", g>>, Found(ok))
          \/ TickGpuPower(g, ok) /\ Record(<<"power", g>>, Found(ok))
    \/ \E f \in Fans, health \in Health \ {"SpinUp"} :
          TickFan(f, health) /\ Record(<<"fan", f>>, Found(health = "Ok"))
    \/ \E f \in Fans : TickFan(f, "SpinUp") /\ UNCHANGED outcomes

MCSpec == MCInit /\ [][MCNext]_vars

-----------------------------------------------------------------------------
(* Some threshold + 1 successive outcomes were all bad.                    *)
TooLong(threshold, seen) ==
    \E i \in 0..(Len(seen) - threshold - 1) :
        \A j \in (i + 1)..(i + threshold + 1) : seen[j] = "bad"

(* A fault stands exactly when some source, at some time, failed more than *)
(* its threshold of times in a row: the sources do not dilute or feed each *)
(* other, a spin-up neither forgives nor counts, and the latch holds.      *)
(* This is the code, its test and watchdog.rs:69-71 ("strictly above");    *)
(* docs/PLAN.md:178-179 and :795-796 and CONTEXT.md:30 have the fault one  *)
(* failure earlier, on threshold failures in a row.                        *)
FaultExactlyOnRun ==
    anyFault <=> \E s \in Sources : TooLong(Threshold(s), outcomes[s])
=============================================================================
