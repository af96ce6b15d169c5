---------------------------- MODULE FaultTracker ----------------------------
(***************************************************************************)
(* The internal failure logic (watchdog.rs, struct FaultTracker): a        *)
(* counter of consecutive failures for every GPU's temperature reads, for  *)
(* every GPU's power-limit operations and for every fan, and one latch     *)
(* that the first counter to exceed its threshold sets for good.           *)
(*                                                                         *)
(* A counter is only ever reset to 0, incremented and compared with its    *)
(* threshold, so one that has passed the threshold stays at threshold + 1  *)
(* here: the u32 goes on counting and every comparison has the same        *)
(* answer.                                                                 *)
(***************************************************************************)
EXTENDS Naturals

CONSTANTS
    Gpus,           \* ids of the [gpu:*] sections
    Fans,           \* ids of the [fan:*] sections
    GpuThreshold,   \* watchdog.gpu_fail_threshold
    FanThreshold    \* the largest fan_fail_threshold of the configuration

ASSUME ThresholdAssumption ==
    /\ GpuThreshold \in Nat \ {0}
    /\ FanThreshold \in Nat \ {0}

VARIABLES
    gpuCounter,     \* gpu_counters: temperature reads
    powerCounter,   \* gpu_power_counters: power-limit reads and writes
    fanCounter,     \* fan_counters
    anyFault        \* any_fault

trackerVars == <<gpuCounter, powerCounter, fanCounter, anyFault>>

Health == {"Ok", "SpinUp", "Stalled", "Overspeed"}
Faulty == {"Stalled", "Overspeed"}

-----------------------------------------------------------------------------
(* Mutants.                                                                *)

BumpTooFew(counter, threshold) ==
    IF counter + 1 > threshold THEN counter ELSE counter + 1

TickGpuUnlatched(g, readOk) ==
    /\ gpuCounter' = [gpuCounter EXCEPT ![g] = IF readOk THEN 0 ELSE @ + 1]
    /\ anyFault' = (gpuCounter'[g] > GpuThreshold)
    /\ UNCHANGED <<powerCounter, fanCounter>>

TickGpuPowerShared(g, opOk) ==
    /\ gpuCounter' = [gpuCounter EXCEPT ![g] = IF opOk THEN 0 ELSE @ + 1]
    /\ anyFault' = (anyFault \/ gpuCounter'[g] > GpuThreshold)
    /\ UNCHANGED <<powerCounter, fanCounter>>

-----------------------------------------------------------------------------
TypeOK ==
    /\ gpuCounter \in [Gpus -> 0..(GpuThreshold + 1)]
    /\ powerCounter \in [Gpus -> 0..(GpuThreshold + 1)]
    /\ fanCounter \in [Fans -> 0..(FanThreshold + 1)]
    /\ anyFault \in BOOLEAN

(* A counter beyond its threshold has set the latch.                       *)
CountersLatched ==
    /\ \A g \in Gpus : gpuCounter[g] > GpuThreshold => anyFault
    /\ \A g \in Gpus : powerCounter[g] > GpuThreshold => anyFault
    /\ \A f \in Fans : fanCounter[f] > FanThreshold => anyFault

(* FaultTracker::new *)
Init ==
    /\ gpuCounter = [g \in Gpus |-> 0]
    /\ powerCounter = [g \in Gpus |-> 0]
    /\ fanCounter = [f \in Fans |-> 0]
    /\ anyFault = FALSE

(* `*counter += 1`, see the remark on the top of the module. *)
Bump(counter, threshold) ==
    IF counter > threshold THEN counter ELSE counter + 1

(* A temperature read succeeded or failed. *)
TickGpu(g, readOk) ==
    /\ gpuCounter' = [gpuCounter EXCEPT ![g] =
                         IF readOk THEN 0 ELSE Bump(@, GpuThreshold)]
    /\ anyFault' = (anyFault \/ gpuCounter'[g] > GpuThreshold)
    /\ UNCHANGED <<powerCounter, fanCounter>>

(* A power-limit check succeeded or failed: a counter of its own. *)
TickGpuPower(g, opOk) ==
    /\ powerCounter' = [powerCounter EXCEPT ![g] =
                           IF opOk THEN 0 ELSE Bump(@, GpuThreshold)]
    /\ anyFault' = (anyFault \/ powerCounter'[g] > GpuThreshold)
    /\ UNCHANGED <<gpuCounter, fanCounter>>

(* A fan was classified: Ok resets, SpinUp leaves the counter alone. *)
TickFan(f, health) ==
    /\ fanCounter' = [fanCounter EXCEPT ![f] =
                         CASE health = "Ok"     -> 0
                           [] health = "SpinUp" -> @
                           [] OTHER             -> Bump(@, FanThreshold)]
    /\ anyFault' = (anyFault \/ (health \in Faulty /\ fanCounter'[f] > FanThreshold))
    /\ UNCHANGED <<gpuCounter, powerCounter>>

(* The ticks above answer Some(fault), not only on the crossing but on     *)
(* every later failure of the same source.                                 *)
GpuTickDeclares(g) == gpuCounter'[g] > GpuThreshold
PowerTickDeclares(g) == powerCounter'[g] > GpuThreshold
FanTickDeclares(f, health) == health \in Faulty /\ fanCounter'[f] > FanThreshold

Next ==
    \/ \E g \in Gpus, ok \in BOOLEAN : TickGpu(g, ok) \/ TickGpuPower(g, ok)
    \/ \E f \in Fans, health \in Health : TickFan(f, health)

Spec == Init /\ [][Next]_trackerVars
=============================================================================
