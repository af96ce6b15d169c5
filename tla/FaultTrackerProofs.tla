------------------------- MODULE FaultTrackerProofs -------------------------
(***************************************************************************)
(* The fault tracker for any number of GPUs and fans and any thresholds.   *)
(***************************************************************************)
EXTENDS FaultTracker, TLAPS

(* What each tick does to a well-typed tracker whose latch covers its      *)
(* counters: the types and the cover are kept and the latch never opens.   *)
LEMMA TickGpuStep ==
    ASSUME TypeOK, CountersLatched, NEW g \in Gpus, NEW ok \in BOOLEAN, TickGpu(g, ok)
    PROVE  TypeOK' /\ CountersLatched' /\ (anyFault => anyFault')
<1> USE ThresholdAssumption DEF TypeOK
<1>1. gpuCounter' \in [Gpus -> 0..(GpuThreshold + 1)]
  BY DEF TickGpu, Bump
<1>2. \A x \in Gpus \ {g} : gpuCounter'[x] = gpuCounter[x]
  BY DEF TickGpu
<1>3. anyFault' \in BOOLEAN /\ (anyFault => anyFault')
  BY Zenon DEF TickGpu
<1>4. gpuCounter'[g] > GpuThreshold => anyFault'
  BY <1>1, <1>2, <1>3 DEF TickGpu, CountersLatched
<1>5. UNCHANGED <<powerCounter, fanCounter>>
  BY DEF TickGpu
<1>6. TypeOK'
  BY <1>1, <1>3, <1>5
<1>7. CountersLatched'
  BY <1>2, <1>3, <1>4, <1>5 DEF CountersLatched
<1>8. QED
  BY <1>3, <1>6, <1>7

LEMMA TickGpuPowerStep ==
    ASSUME TypeOK, CountersLatched, NEW g \in Gpus, NEW ok \in BOOLEAN, TickGpuPower(g, ok)
    PROVE  TypeOK' /\ CountersLatched' /\ (anyFault => anyFault')
<1> USE ThresholdAssumption DEF TypeOK
<1>1. powerCounter' \in [Gpus -> 0..(GpuThreshold + 1)]
  BY DEF TickGpuPower, Bump
<1>2. \A x \in Gpus \ {g} : powerCounter'[x] = powerCounter[x]
  BY DEF TickGpuPower
<1>3. anyFault' \in BOOLEAN /\ (anyFault => anyFault')
  BY Zenon DEF TickGpuPower
<1>4. powerCounter'[g] > GpuThreshold => anyFault'
  BY <1>1, <1>2, <1>3 DEF TickGpuPower, CountersLatched
<1>5. UNCHANGED <<gpuCounter, fanCounter>>
  BY DEF TickGpuPower
<1>6. TypeOK'
  BY <1>1, <1>3, <1>5
<1>7. CountersLatched'
  BY <1>2, <1>3, <1>4, <1>5 DEF CountersLatched
<1>8. QED
  BY <1>3, <1>6, <1>7

LEMMA TickFanStep ==
    ASSUME TypeOK, CountersLatched, NEW f \in Fans, NEW health \in Health, TickFan(f, health)
    PROVE  TypeOK' /\ CountersLatched' /\ (anyFault => anyFault')
<1> USE ThresholdAssumption DEF TypeOK
<1>1. fanCounter' \in [Fans -> 0..(FanThreshold + 1)]
  BY DEF TickFan, Bump, Health
<1>2. \A x \in Fans \ {f} : fanCounter'[x] = fanCounter[x]
  BY DEF TickFan
<1>3. anyFault' \in BOOLEAN /\ (anyFault => anyFault')
  BY Zenon DEF TickFan
<1>4. fanCounter'[f] > FanThreshold => anyFault'
  <2>1. CASE health = "Ok"
    <3>1. fanCounter'[f] = 0
      BY <2>1 DEF TickFan
    <3>2. QED
      BY <3>1
  <2>2. CASE health = "SpinUp"
    <3>1. fanCounter'[f] = fanCounter[f]
      BY <2>2 DEF TickFan
    <3>2. QED
      BY <3>1, <1>3 DEF CountersLatched
  <2>3. CASE health \in Faulty
    BY <2>3, Zenon DEF TickFan
  <2>4. QED
    BY <2>1, <2>2, <2>3 DEF Health, Faulty
<1>5. UNCHANGED <<gpuCounter, powerCounter>>
  BY DEF TickFan
<1>6. TypeOK'
  BY <1>1, <1>3, <1>5
<1>7. CountersLatched'
  BY <1>2, <1>3, <1>4, <1>5 DEF CountersLatched
<1>8. QED
  BY <1>3, <1>6, <1>7

LEMMA TrackerStep ==
    ASSUME TypeOK, CountersLatched, [Next]_trackerVars
    PROVE  TypeOK' /\ CountersLatched' /\ (anyFault => anyFault')
<1>1. CASE UNCHANGED trackerVars
  BY <1>1 DEF TypeOK, CountersLatched, trackerVars
<1>2. ASSUME NEW g \in Gpus, NEW ok \in BOOLEAN, TickGpu(g, ok) \/ TickGpuPower(g, ok)
      PROVE  TypeOK' /\ CountersLatched' /\ (anyFault => anyFault')
  BY <1>2, TickGpuStep, TickGpuPowerStep
<1>3. ASSUME NEW f \in Fans, NEW health \in Health, TickFan(f, health)
      PROVE  TypeOK' /\ CountersLatched' /\ (anyFault => anyFault')
  BY <1>3, TickFanStep
<1>4. QED
  BY <1>1, <1>2, <1>3 DEF Next

LEMMA TrackerInit == Init => TypeOK /\ CountersLatched
<1> SUFFICES ASSUME Init PROVE TypeOK /\ CountersLatched
  OBVIOUS
<1>1. TypeOK
  <2>1. /\ gpuCounter \in [Gpus -> 0..(GpuThreshold + 1)]
        /\ powerCounter \in [Gpus -> 0..(GpuThreshold + 1)]
        /\ fanCounter \in [Fans -> 0..(FanThreshold + 1)]
    BY ThresholdAssumption DEF Init
  <2>2. anyFault \in BOOLEAN
    BY Zenon DEF Init
  <2>3. QED
    BY <2>1, <2>2, Zenon DEF TypeOK
<1>2. /\ \A g \in Gpus : ~(gpuCounter[g] > GpuThreshold)
      /\ \A g \in Gpus : ~(powerCounter[g] > GpuThreshold)
      /\ \A f \in Fans : ~(fanCounter[f] > FanThreshold)
  BY ThresholdAssumption DEF Init
<1>3. QED
  BY <1>1, <1>2 DEF CountersLatched

(* The tracker's variables keep their types and a counter beyond its       *)
(* threshold always has the latch set.                                     *)
THEOREM TrackerCorrect == Spec => [](TypeOK /\ CountersLatched)
<1>1. TypeOK /\ CountersLatched /\ [Next]_trackerVars => (TypeOK /\ CountersLatched)'
  BY TrackerStep
<1>2. QED
  BY <1>1, TrackerInit, PTL DEF Spec

(* No sequence of ticks opens the latch: FaultTracker::any_fault, "never   *)
(* resets to false".                                                       *)
THEOREM LatchHolds == Spec => [][anyFault => anyFault']_trackerVars
<1>1. TypeOK /\ CountersLatched /\ [Next]_trackerVars => [anyFault => anyFault']_trackerVars
  BY TrackerStep
<1>2. QED
  BY <1>1, TrackerCorrect, PTL DEF Spec
=============================================================================
