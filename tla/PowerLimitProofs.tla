-------------------------- MODULE PowerLimitProofs --------------------------
(***************************************************************************)
(* Proofs about power limits.  The bound on the time above a limit rests   *)
(* on Owed: what a GPU has been exposed is paid for by its failed checks,  *)
(* a full interval each, and the polls since the last one.                 *)
(***************************************************************************)
EXTENDS MCPowerLimit, TLAPS

USE DEF Gpus

(* The tracker's tick, without its other counters.                         *)
LEMMA TickIs ==
    ASSUME NEW g \in Gpus, NEW ok \in BOOLEAN,
           Tracker!TickGpuPower(g, ok)
    PROVE  /\ powerCounter' = [powerCounter EXCEPT ![g] =
                  IF ok THEN 0
                  ELSE IF powerCounter[g] > GpuThreshold THEN powerCounter[g]
                       ELSE powerCounter[g] + 1]
           /\ anyFault' = (anyFault \/ powerCounter'[g] > GpuThreshold)
  BY DEF Tracker!TickGpuPower, Tracker!Bump

LEMMA TrackerTypes ==
    Tracker!TypeOK <=> /\ powerCounter \in [Gpus -> 0..(GpuThreshold + 1)]
                       /\ anyFault \in BOOLEAN
  BY PowerAssumption DEF Tracker!TypeOK

LEMMA TrackerTypesNext ==
    Tracker!TypeOK' <=> /\ powerCounter' \in [Gpus -> 0..(GpuThreshold + 1)]
                        /\ anyFault' \in BOOLEAN
  BY PowerAssumption DEF Tracker!TypeOK

-----------------------------------------------------------------------------
(* Types.                                                                  *)

LEMMA Turns ==
    ASSUME TypeOK, NEW after, after \in {"top", "sleep", "down"}, NextGpu(after)
    PROVE  at' \in Gpus /\ phase' \in {phase, after}
  BY PowerAssumption DEF TypeOK, NextGpu

LEMMA SetsKeepTheRange ==
    ASSUME TypeOK, NEW g \in Gpus, NEW watts \in Nat, NEW ok \in BOOLEAN,
           Attempt(g, watts, ok)
    PROVE  limit' \in [Gpus -> MinLimit..MaxLimit]
  BY DEF TypeOK, Attempt, SetLimit, Settable

LEMMA LiveIsConfig ==
    ASSUME TypeOK
    PROVE  /\ live \in Config
           /\ live.interval \in 1..MaxInterval
           /\ live.enabled \in [Gpus -> BOOLEAN]
           /\ \A g \in Gpus : live.watts[g] \in 25..MaxWatts
           /\ live.restore \in BOOLEAN
<1>1. live \in Config
  BY PowerAssumption DEF TypeOK
<1>2. /\ live.interval \in 1..MaxInterval
      /\ live.enabled \in [Gpus -> BOOLEAN]
      /\ live.watts \in [Gpus -> 25..MaxWatts]
      /\ live.restore \in BOOLEAN
  BY <1>1 DEF Config
<1>3. \A g \in Gpus : live.watts[g] \in 25..MaxWatts
  BY <1>2
<1>4. QED
  BY <1>1, <1>2, <1>3

LEMMA DeathTypes ==
    ASSUME TypeOK, Die
    PROVE  /\ phase' = "down" /\ at' \in Gpus
           /\ powerAge' \in [Gpus -> 0..MaxInterval]
           /\ Tracker!TypeOK'
           /\ reload' \in BOOLEAN /\ shutdown' \in BOOLEAN
<1>1. powerCounter' \in [Gpus -> 0..(GpuThreshold + 1)]
  BY PowerAssumption DEF Die
<1>2. powerAge' \in [Gpus -> 0..MaxInterval]
  BY PowerAssumption DEF Die
<1>3. Tracker!TypeOK'
  BY <1>1, TrackerTypesNext DEF Die
<1>4. at' \in Gpus
  BY PowerAssumption DEF Die
<1>5. QED
  BY <1>2, <1>3, <1>4 DEF Die

LEMMA StepTypes ==
    ASSUME TypeOK, [Next]_vars
    PROVE  TypeOK'
<1> USE PowerAssumption
<1>1. CASE Start
  <2>1. live' \in Configs
    BY <1>1 DEF TypeOK, Start
  <2>2. Tracker!TypeOK'
    BY <1>1, TrackerTypes, TrackerTypesNext DEF TypeOK, Start
  <2>3. QED
    BY <1>1, <2>1, <2>2 DEF TypeOK, Start
<1>2. CASE Apply
  <2> DEFINE watts == live.watts[at]
             goOn == NextGpu("top")
                     /\ UNCHANGED <<powerAge, powerCounter, anyFault, reload, shutdown>>
  <2>1. watts \in Nat
    <3>1. at \in Gpus
      BY DEF TypeOK
    <3>2. watts \in 25..MaxWatts
      BY <3>1, LiveIsConfig
    <3>3. QED
      BY <3>2
  <2>2. limit' \in [Gpus -> MinLimit..MaxLimit]
    <3>1. UNCHANGED limit \/ \E ok \in BOOLEAN : Attempt(at, watts, ok)
      BY <1>2 DEF Apply
    <3>2. QED
      BY <2>1, <3>1, SetsKeepTheRange DEF TypeOK
  <2>3. goOn \/ Die
    BY <1>2 DEF Apply
  <2>4. CASE goOn
    <3>1. Tracker!TypeOK'
      BY <2>4, TrackerTypes, TrackerTypesNext DEF TypeOK
    <3>2. at' \in Gpus /\ phase' \in {phase, "top"}
      BY <2>4, Turns
    <3>3. QED
      BY <1>2, <2>2, <2>4, <3>1, <3>2 DEF TypeOK, Apply
  <2>5. CASE Die
    BY <1>2, <2>2, <2>5, DeathTypes DEF TypeOK, Apply
  <2>6. QED
    BY <2>3, <2>4, <2>5
<1>3. CASE LoopTop
  <2>1. Tracker!TypeOK'
    BY <1>3, TrackerTypes, TrackerTypesNext DEF TypeOK, LoopTop
  <2>2. live' \in Configs
    <3>1. live' = live \/ (live' = file /\ file # Rejected)
      BY <1>3 DEF LoopTop, Reloadable
    <3>2. QED
      BY <3>1 DEF TypeOK
  <2>3. phase' \in {"stopping", "check"} /\ at' \in Gpus
    BY <1>3 DEF LoopTop
  <2>4. reload' \in BOOLEAN
    BY <1>3 DEF TypeOK, LoopTop
  <2>5. UNCHANGED <<file, limit, powerAge, shutdown>>
    BY <1>3 DEF LoopTop
  <2>6. QED
    BY <2>1, <2>2, <2>3, <2>4, <2>5 DEF TypeOK
<1>4. CASE CheckPower
  <2>1. limit' \in [Gpus -> MinLimit..MaxLimit] /\ Tracker!TypeOK'
    <3>1. CASE UNCHANGED <<limit, powerCounter, anyFault>>
      BY <3>1, TrackerTypes, TrackerTypesNext DEF TypeOK
    <3>2. CASE \E ok \in BOOLEAN : /\ Tracker!TickGpuPower(at, ok)
                                   /\ \/ UNCHANGED limit
                                      \/ Attempt(at, live.watts[at], ok)
      <4>1. PICK ok \in BOOLEAN : /\ Tracker!TickGpuPower(at, ok)
                                  /\ \/ UNCHANGED limit
                                     \/ Attempt(at, live.watts[at], ok)
        BY <3>2
      <4>2. at \in Gpus /\ live.watts[at] \in Nat
        <5>1. at \in Gpus
          BY DEF TypeOK
        <5>2. live.watts[at] \in 25..MaxWatts
          BY <5>1, LiveIsConfig
        <5>3. QED
          BY <5>1, <5>2
      <4>3. limit' \in [Gpus -> MinLimit..MaxLimit]
        BY <4>1, <4>2, SetsKeepTheRange DEF TypeOK
      <4>4. /\ powerCounter' = [powerCounter EXCEPT ![at] =
                  IF ok THEN 0
                  ELSE IF powerCounter[at] > GpuThreshold THEN powerCounter[at]
                       ELSE powerCounter[at] + 1]
            /\ anyFault' = (anyFault \/ powerCounter'[at] > GpuThreshold)
        BY <4>1, <4>2, TickIs
      <4>5. powerCounter' \in [Gpus -> 0..(GpuThreshold + 1)] /\ anyFault' \in BOOLEAN
        <5>1. powerCounter \in [Gpus -> 0..(GpuThreshold + 1)]
          BY TrackerTypes DEF TypeOK
        <5>2. powerCounter' \in [Gpus -> 0..(GpuThreshold + 1)]
          BY <4>2, <4>4, <5>1
        <5>3. anyFault' \in BOOLEAN
          BY <4>4
        <5>4. QED
          BY <5>2, <5>3
      <4>6. QED
        BY <4>3, <4>5, TrackerTypesNext
    <3>3. QED
      BY <1>4, <3>1, <3>2 DEF CheckPower
  <2>2. powerAge' \in [Gpus -> 0..MaxInterval]
    <3>1. UNCHANGED powerAge \/ powerAge' = [powerAge EXCEPT ![at] = 0]
      BY <1>4 DEF CheckPower
    <3>2. 0 \in 0..MaxInterval
      OBVIOUS
    <3>3. QED
      BY <3>1, <3>2 DEF TypeOK
  <2>3. at' \in Gpus /\ phase' \in {phase, "sleep"}
    BY <1>4, Turns DEF CheckPower
  <2>4. UNCHANGED <<live, file, reload, shutdown>>
    BY <1>4 DEF CheckPower
  <2>5. QED
    BY <2>1, <2>2, <2>3, <2>4 DEF TypeOK
<1>5. CASE Sleep
  <2>1. Tracker!TypeOK'
    BY <1>5, TrackerTypes, TrackerTypesNext DEF TypeOK, Sleep
  <2>2. powerAge' \in [Gpus -> 0..MaxInterval]
    BY <1>5 DEF TypeOK, Sleep
  <2>3. QED
    BY <1>5, <2>1, <2>2 DEF TypeOK, Sleep
<1>6. CASE Restore
  <2>1. limit' \in [Gpus -> MinLimit..MaxLimit]
    <3>1. UNCHANGED limit \/ \E ok \in BOOLEAN : Attempt(at, Watts(DefaultLimit), ok)
      BY <1>6 DEF Restore
    <3>2. Watts(DefaultLimit) \in Nat
      BY DEF Watts
    <3>3. QED
      BY <3>1, <3>2, SetsKeepTheRange DEF TypeOK
  <2>2. CASE Die
    BY <1>6, <2>1, <2>2, DeathTypes DEF TypeOK, Restore
  <2>3. CASE NextGpu("down") /\ UNCHANGED <<powerAge, powerCounter, anyFault, reload, shutdown>>
    <3>1. Tracker!TypeOK'
      BY <2>3, TrackerTypes, TrackerTypesNext DEF TypeOK
    <3>2. QED
      BY <1>6, <2>1, <2>3, <3>1, Turns DEF TypeOK, Restore
  <2>4. QED
    BY <1>6, <2>2, <2>3 DEF Restore
<1>7. CASE Crash
  BY <1>7, DeathTypes DEF TypeOK, Crash
<1>8. CASE Reboot
  BY <1>8, DeathTypes DEF TypeOK, Reboot
<1>9. CASE Edit \/ Sighup \/ Sigterm \/ (\E g \in Gpus : ForeignWrite(g)) \/ UNCHANGED vars
  <2>1. Tracker!TypeOK'
    BY <1>9, TrackerTypes, TrackerTypesNext
    DEF TypeOK, Edit, Sighup, Sigterm, ForeignWrite, vars, process
  <2>2. CASE Edit \/ Sighup \/ Sigterm \/ UNCHANGED vars
    BY <2>1, <2>2 DEF TypeOK, Edit, Sighup, Sigterm, vars, process
  <2>3. CASE \E g \in Gpus : ForeignWrite(g)
    BY <2>1, <2>3 DEF TypeOK, ForeignWrite, process
  <2>4. QED
    BY <1>9, <2>2, <2>3
<1>10. QED
  BY <1>1, <1>2, <1>3, <1>4, <1>5, <1>6, <1>7, <1>8, <1>9
  DEF Next, Daemon, Loop, World

LEMMA InitTypes ==
    ASSUME Init
    PROVE  TypeOK
<1>1. powerCounter = [g \in Gpus |-> 0] /\ anyFault = FALSE
  BY DEF Init, Tracker!Init
<1>2. powerCounter \in [Gpus -> 0..(GpuThreshold + 1)]
  BY <1>1, PowerAssumption
<1>3. Tracker!TypeOK
  BY <1>1, <1>2, TrackerTypes
<1>4. limit \in [Gpus -> MinLimit..MaxLimit] /\ powerAge \in [Gpus -> 0..MaxInterval]
  BY PowerAssumption DEF Init
<1>5. phase = "down" /\ at \in Gpus /\ live \in Configs /\ file = live
  BY PowerAssumption DEF Init
<1>6. reload \in BOOLEAN /\ shutdown \in BOOLEAN
  BY DEF Init
<1>7. QED
  BY <1>3, <1>4, <1>5, <1>6 DEF TypeOK

(* Every variable keeps its type, for any number of GPUs and any set of    *)
(* configurations: in particular no reload, restore or foreign write takes *)
(* a limit out of the driver's constraints (set_power_limit_w).            *)
THEOREM PowerTypes == Spec => []TypeOK
<1>1. Init => TypeOK
  BY InitTypes
<1>2. TypeOK /\ [Next]_vars => TypeOK'
  BY StepTypes
<1>3. QED
  BY <1>1, <1>2, PTL DEF Spec

-----------------------------------------------------------------------------
(* Writes.                                                                 *)

(* A set touches the limit of one GPU, and sets it to the watts asked for. *)
LEMMA AttemptWrites ==
    ASSUME TypeOK, NEW g \in Gpus, NEW watts \in Int, NEW ok \in BOOLEAN, Attempt(g, watts, ok),
           NEW h \in Gpus, limit'[h] # limit[h]
    PROVE  h = g /\ limit'[h] = 1000 * watts
<1>1. limit' = [limit EXCEPT ![g] = 1000 * watts]
  BY DEF Attempt, SetLimit
<1>2. QED
  BY <1>1 DEF TypeOK

MayWrite(g) ==
    \/ live.enabled[g] /\ limit'[g] = 1000 * live.watts[g]
    \/ /\ phase = "stopping" /\ live.enabled[g] /\ live.restore
       /\ limit'[g] = 1000 * Watts(DefaultLimit)

LEMMA DaemonWrites ==
    ASSUME TypeOK, Daemon, NEW g \in Gpus, limit'[g] # limit[g]
    PROVE  MayWrite(g)
<1>1. at \in Gpus /\ live.watts[at] \in Int /\ Watts(DefaultLimit) \in Int
  <2>1. at \in Gpus
    BY DEF TypeOK
  <2>2. live.watts[at] \in Int
    <3>1. \A w \in 25..MaxWatts : w \in Int
      BY DEF MaxWatts
    <3>2. \A h \in Gpus : live.watts[h] \in 25..MaxWatts
      BY LiveIsConfig
    <3>3. QED
      BY <2>1, <3>1, <3>2, Zenon
  <2>3. Watts(DefaultLimit) \in Int
    BY PowerAssumption DEF Watts
  <2>4. QED
    BY <2>1, <2>2, <2>3
<1>2. CASE Apply \/ CheckPower
  <2>1. PICK ok \in BOOLEAN : live.enabled[at] /\ Attempt(at, live.watts[at], ok)
    <3>1. CASE Apply
      <4>1. \/ live.enabled[at] /\ Attempt(at, live.watts[at], TRUE)
            \/ live.enabled[at] /\ Attempt(at, live.watts[at], FALSE)
        BY <3>1 DEF Apply
      <4>2. QED
        BY <4>1, Zenon
    <3>2. CASE CheckPower
      BY <3>2 DEF CheckPower, Due
    <3>3. QED
      BY <1>2, <3>1, <3>2
  <2>2. g = at /\ limit'[g] = 1000 * live.watts[at]
    BY <1>1, <2>1, AttemptWrites
  <2>3. QED
    BY <2>1, <2>2, Zenon DEF MayWrite
<1>3. CASE Restore
  <2>1. PICK ok \in BOOLEAN : /\ phase = "stopping" /\ live.restore /\ live.enabled[at]
                              /\ Attempt(at, Watts(DefaultLimit), ok)
    BY <1>3 DEF Restore, GivesBack
  <2>2. g = at /\ limit'[g] = 1000 * Watts(DefaultLimit)
    BY <1>1, <2>1, AttemptWrites
  <2>3. QED
    BY <2>1, <2>2, Zenon DEF MayWrite
<1>4. CASE Start \/ LoopTop \/ Sleep
  BY <1>4 DEF Start, LoopTop, Sleep
<1>5. QED
  BY <1>2, <1>3, <1>4 DEF Daemon, Loop

(* ADR-0008, ADR-0009: whatever fails, drifts or is reloaded, the daemon   *)
(* writes to GPUs that opted in and nothing but what it was asked to.      *)
THEOREM OnlyAskedWrites == Spec => WritesOnlyWhatWasAsked
<1>1. TypeOK /\ [Next]_vars =>
          [\A g \in Gpus : Daemon /\ limit'[g] # limit[g] =>
              \/ live.enabled[g] /\ limit'[g] = 1000 * live.watts[g]
              \/ /\ phase = "stopping" /\ live.enabled[g] /\ live.restore
                 /\ limit'[g] = 1000 * Watts(DefaultLimit)]_vars
  BY DaemonWrites DEF MayWrite
<1>2. QED
  BY <1>1, PowerTypes, PTL DEF Spec, WritesOnlyWhatWasAsked

-----------------------------------------------------------------------------
(* Exposure.                                                               *)

LEMMA OneMore ==
    ASSUME NEW c \in Nat, NEW m \in Nat
    PROVE  c * m \in Nat /\ (c + 1) * m = c * m + m
  OBVIOUS

LEMMA NoMoreThan ==
    ASSUME NEW c \in Nat, NEW d \in Nat, NEW m \in Nat, c <= d
    PROVE  c * m <= d * m
  OBVIOUS

(* Between its turn in a poll and the end of the poll.                     *)
Checked(g) == phase = "sleep" \/ (phase = "check" /\ g < at)

Owed(g) == powerCounter[g] * MaxInterval + powerAge[g]

ExposureInv ==
    /\ TypeOK
    /\ exposed \in [Gpus -> Nat]
    /\ \A g \in Gpus :
          /\ ~Above(g) => exposed[g] = 0
          /\ ~anyFault => powerCounter[g] <= GpuThreshold /\ exposed[g] <= Owed(g)
          /\ Checked(g) /\ live.enabled[g] => powerAge[g] < live.interval

LEMMA Ranges ==
    ASSUME TypeOK, NEW g \in Gpus
    PROVE  /\ powerAge[g] \in 0..MaxInterval /\ powerCounter[g] \in Nat
           /\ MaxInterval \in Nat /\ GpuThreshold \in Nat
           /\ live.interval \in 1..MaxInterval
<1>1. powerCounter \in [Gpus -> 0..(GpuThreshold + 1)]
  BY TrackerTypes DEF TypeOK
<1>2. powerCounter[g] \in Nat /\ MaxInterval \in Nat /\ GpuThreshold \in Nat
  BY <1>1, PowerAssumption
<1>3. powerAge[g] \in 0..MaxInterval
  BY DEF TypeOK
<1>4. live.interval \in 1..MaxInterval
  BY LiveIsConfig
<1>5. QED
  BY <1>2, <1>3, <1>4

LEMMA RangesNext ==
    ASSUME TypeOK', NEW g \in Gpus
    PROVE  powerAge'[g] \in 0..MaxInterval /\ powerCounter'[g] \in Nat
<1>1. powerCounter' \in [Gpus -> 0..(GpuThreshold + 1)]
  BY TrackerTypesNext DEF TypeOK
<1>2. powerCounter'[g] \in Nat
  BY <1>1, PowerAssumption
<1>3. powerAge'[g] \in 0..MaxInterval
  BY DEF TypeOK
<1>4. QED
  BY <1>2, <1>3

(* What Track does to the count.                                           *)
LEMMA Counts ==
    ASSUME ExposureInv, Track
    PROVE  /\ exposed' \in [Gpus -> Nat]
           /\ \A g \in Gpus :
                 /\ ~Above(g)' => exposed'[g] = 0
                 /\ exposed'[g] <= exposed[g] + 1
                 /\ phase # "sleep" => exposed'[g] <= exposed[g]
  BY DEF ExposureInv, Track

LEMMA QuietKeeps ==
    ASSUME ExposureInv, TypeOK', Track, phase' # "top" \/ phase # "sleep",
           UNCHANGED <<powerAge, powerCounter, anyFault>>,
           \A g \in Gpus : Checked(g)' => Checked(g) /\ live' = live
    PROVE  ExposureInv'
<1>1. exposed' \in [Gpus -> Nat]
  BY Counts
<1>2. ASSUME NEW g \in Gpus
      PROVE  exposed'[g] <= exposed[g] /\ Owed(g)' = Owed(g)
  BY DEF ExposureInv, Track, Owed
<1>3. ASSUME NEW g \in Gpus
      PROVE  ~anyFault' => powerCounter'[g] <= GpuThreshold /\ exposed'[g] <= Owed(g)'
  <2>1. Owed(g) \in Nat
    BY Ranges, OneMore DEF Owed, ExposureInv
  <2>2. exposed[g] \in Nat /\ exposed'[g] \in Nat
    BY <1>1 DEF ExposureInv
  <2>3. QED
    BY <1>2, <2>1, <2>2 DEF ExposureInv
<1>4. ASSUME NEW g \in Gpus
      PROVE  Checked(g)' /\ live'.enabled[g] => powerAge'[g] < live'.interval
  BY DEF ExposureInv
<1>5. QED
  BY <1>1, <1>3, <1>4, Counts DEF ExposureInv

LEMMA DeathKeeps ==
    ASSUME ExposureInv, TypeOK', Track, Die
    PROVE  ExposureInv'
<1>1. \A g \in Gpus : ~Above(g)' /\ ~Checked(g)'
  BY DEF Die, Above, Looping, Checked
<1>2. exposed' \in [Gpus -> Nat] /\ \A g \in Gpus : exposed'[g] = 0
  BY <1>1, Counts
<1>3. ASSUME NEW g \in Gpus
      PROVE  powerCounter'[g] <= GpuThreshold /\ exposed'[g] <= Owed(g)'
  <2>1. powerCounter'[g] = 0 /\ GpuThreshold \in Nat
    BY PowerAssumption DEF Die
  <2>2. powerAge'[g] \in Nat
    BY RangesNext
  <2>3. Owed(g)' = powerAge'[g]
    BY <2>1, PowerAssumption, <2>2 DEF Owed
  <2>4. QED
    BY <1>2, <2>1, <2>2, <2>3
<1>4. QED
  BY <1>1, <1>2, <1>3 DEF ExposureInv

(* A successful check leaves the limit as configured.                      *)
LEMMA GoodCheckMeetsLimit ==
    ASSUME TypeOK, NEW g \in Gpus,
           \/ Watts(limit[g]) = live.watts[g] /\ UNCHANGED limit
           \/ Attempt(g, live.watts[g], TRUE)
    PROVE  Watts(limit'[g]) = live.watts[g]
<1>1. live.watts[g] \in Int /\ limit \in [Gpus -> MinLimit..MaxLimit]
  <2>1. live.watts[g] \in 25..MaxWatts
    BY LiveIsConfig
  <2>2. QED
    BY <2>1 DEF TypeOK
<1>2. CASE Watts(limit[g]) = live.watts[g] /\ UNCHANGED limit
  BY <1>2
<1>3. CASE Attempt(g, live.watts[g], TRUE)
  <2>1. limit'[g] = 1000 * live.watts[g]
    <3>1. limit' = [limit EXCEPT ![g] = 1000 * live.watts[g]]
      BY <1>3 DEF Attempt, SetLimit
    <3>2. QED
      BY <1>1, <3>1
  <2>2. QED
    BY <1>1, <2>1 DEF Watts
<1>4. QED
  BY <1>2, <1>3

LEMMA CheckKeeps ==
    ASSUME ExposureInv, TypeOK', CheckPower, Track
    PROVE  ExposureInv'
<1>1. TypeOK /\ at \in Gpus /\ phase = "check" /\ UNCHANGED live
  BY DEF ExposureInv, TypeOK, CheckPower
<1>2. exposed' \in [Gpus -> Nat] /\ \A g \in Gpus : exposed'[g] <= exposed[g]
  BY <1>1, Counts
<1>3. ASSUME NEW g \in Gpus, Checked(g)'
      PROVE  Checked(g) \/ g = at
  BY <1>1, <1>3, PowerAssumption DEF CheckPower, NextGpu, Checked
<1>4. CASE ~Due(at)
  <2>1. UNCHANGED <<limit, powerAge, powerCounter, anyFault>>
    BY <1>4 DEF CheckPower
  <2>2. ASSUME NEW g \in Gpus
        PROVE  ~anyFault' => powerCounter'[g] <= GpuThreshold /\ exposed'[g] <= Owed(g)'
    <3>1. Owed(g)' = Owed(g) /\ Owed(g) \in Nat
      BY <1>1, <2>1, Ranges, OneMore DEF Owed
    <3>2. exposed[g] \in Nat /\ exposed'[g] \in Nat /\ exposed'[g] <= exposed[g]
      BY <1>2 DEF ExposureInv
    <3>3. QED
      BY <2>1, <3>1, <3>2 DEF ExposureInv
  <2>3. ASSUME NEW g \in Gpus, Checked(g)', live'.enabled[g]
        PROVE  powerAge'[g] < live'.interval
    <3>1. CASE Checked(g)
      BY <1>1, <2>1, <2>3, <3>1 DEF ExposureInv
    <3>2. CASE g = at
      <4>1. powerAge[at] \in Int /\ live.interval \in Int
        BY <1>1, Ranges
      <4>2. QED
        BY <1>1, <1>4, <2>1, <2>3, <3>2, <4>1 DEF Due
    <3>3. QED
      BY <1>3, <2>3, <3>1, <3>2
  <2>4. QED
    BY <1>2, <2>2, <2>3, Counts DEF ExposureInv
<1>5. CASE Due(at)
  <2>1. powerAge' = [powerAge EXCEPT ![at] = 0]
    BY <1>5 DEF CheckPower
  <2>2. PICK ok \in BOOLEAN :
           /\ Tracker!TickGpuPower(at, ok)
           /\ ok => \/ Watts(limit[at]) = live.watts[at] /\ UNCHANGED limit
                    \/ Attempt(at, live.watts[at], TRUE)
    BY <1>5 DEF CheckPower
  <2>3. /\ powerCounter' = [powerCounter EXCEPT ![at] =
               IF ok THEN 0
               ELSE IF powerCounter[at] > GpuThreshold THEN powerCounter[at]
                    ELSE powerCounter[at] + 1]
        /\ anyFault' = (anyFault \/ powerCounter'[at] > GpuThreshold)
    BY <1>1, <2>2, TickIs
  <2>4. powerCounter \in [Gpus -> 0..(GpuThreshold + 1)] /\ powerAge \in [Gpus -> 0..MaxInterval]
    BY <1>1, TrackerTypes DEF TypeOK
  <2>5. ASSUME NEW g \in Gpus, ~anyFault'
        PROVE  powerCounter'[g] <= GpuThreshold /\ exposed'[g] <= Owed(g)'
    <3>1. ~anyFault /\ ~(powerCounter'[at] > GpuThreshold)
      BY <2>3, <2>5
    <3>2. powerCounter[g] <= GpuThreshold /\ exposed[g] <= Owed(g)
      BY <3>1 DEF ExposureInv
    <3>3. exposed[g] \in Nat /\ exposed'[g] \in Nat /\ exposed'[g] <= exposed[g]
      BY <1>2 DEF ExposureInv
    <3>4. /\ powerAge[g] \in 0..MaxInterval /\ powerCounter[g] \in Nat
          /\ MaxInterval \in Nat /\ GpuThreshold \in Nat
      BY <1>1, Ranges
    <3>5. powerCounter[g] * MaxInterval \in Nat
      BY <3>4, OneMore
    <3>6. CASE g # at
      <4>1. powerCounter'[g] = powerCounter[g] /\ powerAge'[g] = powerAge[g]
        BY <2>1, <2>3, <2>4, <3>6
      <4>2. QED
        BY <3>2, <3>3, <3>4, <3>5, <4>1 DEF Owed
    <3>7. CASE g = at /\ ok
      <4>1. Watts(limit'[at]) = live.watts[at]
        BY <1>1, <2>2, <3>7, GoodCheckMeetsLimit
      <4>2. live.watts[at] \in Int
        <5>1. live.watts[at] \in 25..MaxWatts
          BY <1>1, LiveIsConfig
        <5>2. QED
          BY <5>1
      <4>3. ~Above(g)'
        BY <1>1, <3>7, <4>1, <4>2 DEF Above, Watts
      <4>4. exposed'[g] = 0
        BY <4>3, Counts
      <4>5. powerCounter'[g] = 0 /\ powerAge'[g] = 0
        BY <1>1, <2>1, <2>3, <2>4, <3>7
      <4>6. QED
        BY <3>4, <4>4, <4>5 DEF Owed
    <3>8. CASE g = at /\ ~ok
      <4>1. powerCounter'[g] = powerCounter[g] + 1 /\ powerAge'[g] = 0
        BY <1>1, <2>1, <2>3, <2>4, <3>2, <3>4, <3>8
      <4>2. Owed(g)' = powerCounter[g] * MaxInterval + MaxInterval
        BY <3>4, <4>1, OneMore DEF Owed
      <4>3. exposed'[g] <= Owed(g)'
        BY <3>2, <3>3, <3>4, <3>5, <4>2 DEF Owed
      <4>4. powerCounter'[g] <= GpuThreshold
        BY <3>1, <3>4, <3>8, <4>1
      <4>5. QED
        BY <4>3, <4>4
    <3>9. QED
      BY <3>6, <3>7, <3>8
  <2>6. ASSUME NEW g \in Gpus, Checked(g)', live'.enabled[g]
        PROVE  powerAge'[g] < live'.interval
    <3>1. CASE g = at
      <4>1. powerAge'[g] = 0 /\ live.interval \in 1..MaxInterval
        BY <1>1, <2>1, <2>4, <3>1, Ranges
      <4>2. QED
        BY <1>1, <4>1
    <3>2. CASE g # at
      <4>1. Checked(g) /\ powerAge'[g] = powerAge[g]
        BY <1>3, <2>1, <2>4, <2>6, <3>2
      <4>2. QED
        BY <1>1, <2>6, <4>1 DEF ExposureInv
    <3>3. QED
      BY <3>1, <3>2
  <2>7. QED
    BY <1>2, <2>5, <2>6, Counts DEF ExposureInv
<1>6. QED
  BY <1>4, <1>5

LEMMA SleepKeeps ==
    ASSUME ExposureInv, TypeOK', Sleep, Track
    PROVE  ExposureInv'
<1>1. TypeOK /\ phase = "sleep" /\ phase' = "top"
  BY DEF ExposureInv, Sleep
<1>2. UNCHANGED <<live, limit, powerCounter, anyFault>>
  BY DEF Sleep
<1>3. \A g \in Gpus : ~Checked(g)'
  BY <1>1 DEF Checked
<1>4. ASSUME NEW g \in Gpus, ~anyFault'
      PROVE  powerCounter'[g] <= GpuThreshold /\ exposed'[g] <= Owed(g)'
  <2>1. powerCounter[g] <= GpuThreshold /\ exposed[g] <= Owed(g)
    BY <1>2, <1>4 DEF ExposureInv
  <2>2. /\ powerAge[g] \in 0..MaxInterval /\ powerCounter[g] \in Nat
        /\ MaxInterval \in Nat /\ live.interval \in 1..MaxInterval
    BY <1>1, Ranges
  <2>3. powerCounter[g] * MaxInterval \in Nat
    BY <2>2, OneMore
  <2>4. exposed[g] \in Nat /\ exposed'[g] \in Nat /\ exposed'[g] <= exposed[g] + 1
    BY Counts DEF ExposureInv
  <2>5. powerAge'[g] = IF powerAge[g] < MaxInterval THEN powerAge[g] + 1 ELSE powerAge[g]
    BY DEF Sleep
  <2>6. CASE ~Above(g)'
    <3>1. exposed'[g] = 0
      BY <2>6, Counts
    <3>2. QED
      BY <1>2, <2>1, <2>2, <2>3, <2>5, <3>1 DEF Owed
  <2>7. CASE Above(g)'
    <3>1. Checked(g) /\ live.enabled[g]
      BY <1>1, <1>2, <2>7 DEF Above, Checked
    <3>2. powerAge[g] < live.interval
      BY <3>1 DEF ExposureInv
    <3>3. powerAge'[g] = powerAge[g] + 1
      BY <2>2, <2>5, <3>2
    <3>4. QED
      BY <1>2, <2>1, <2>2, <2>3, <2>4, <3>3 DEF Owed
  <2>8. QED
    BY <2>6, <2>7
<1>5. QED
  BY <1>3, <1>4, Counts DEF ExposureInv

LEMMA ExposureStep ==
    ASSUME ExposureInv, [MCNext]_<<vars, exposed>>
    PROVE  ExposureInv'
<1>1. [Next]_vars
  BY DEF MCNext, Next, Daemon, Loop, World
<1>2. TypeOK /\ TypeOK'
  BY <1>1, StepTypes DEF ExposureInv
<1>3. CASE CheckPower /\ Track
  BY <1>2, <1>3, CheckKeeps
<1>4. CASE Sleep /\ Track
  BY <1>2, <1>4, SleepKeeps
<1>5. CASE Track /\ Die
  BY <1>2, <1>5, DeathKeeps
<1>6. CASE /\ Track
           /\ \/ Start \/ LoopTop \/ Edit \/ Sighup \/ Sigterm
              \/ \E g \in Gpus : ForeignWrite(g)
  <2>1. UNCHANGED <<powerAge, powerCounter, anyFault>>
    BY <1>6 DEF Start, LoopTop, Edit, Sighup, Sigterm, ForeignWrite, process
  <2>2. phase' # "top" \/ phase # "sleep"
    BY <1>6 DEF Start, LoopTop, Edit, Sighup, Sigterm, ForeignWrite, process
  <2>3. ASSUME NEW g \in Gpus, Checked(g)'
        PROVE  Checked(g) /\ live' = live
    BY <1>6, <2>3 DEF Start, LoopTop, Edit, Sighup, Sigterm, ForeignWrite, process, Checked
  <2>4. QED
    BY <1>2, <1>6, <2>1, <2>2, <2>3, QuietKeeps
<1>7. CASE (Apply \/ Restore) /\ ~Die /\ Track
  <2>1. /\ UNCHANGED <<powerAge, powerCounter, anyFault, live>>
        /\ phase' \in {phase, "top", "down"} /\ phase \in {"starting", "stopping"}
    BY <1>7 DEF Apply, Restore, NextGpu
  <2>2. \A g \in Gpus : ~Checked(g)'
    BY <2>1 DEF Checked
  <2>3. QED
    BY <1>2, <1>7, <2>1, <2>2, QuietKeeps
<1>8. CASE UNCHANGED <<vars, exposed>>
  BY <1>8 DEF ExposureInv, TypeOK, vars, process, Above, Looping, Owed, Checked,
              Tracker!TypeOK
<1>9. QED
  BY <1>3, <1>4, <1>5, <1>6, <1>7, <1>8 DEF MCNext, Crash, Reboot

(* However accesses fail, other tools write and configurations change, a   *)
(* GPU is above its limit for at most threshold + 1 of the longest check   *)
(* intervals unless a fault was declared (main.rs:270-334).                *)
THEOREM ExposureHolds == MCSpec => []ExposureBounded
<1>1. MCInit => ExposureInv
  <2> SUFFICES ASSUME MCInit PROVE ExposureInv
    OBVIOUS
  <2>1. TypeOK
    BY InitTypes DEF MCInit
  <2>2. ASSUME NEW g \in Gpus
        PROVE  powerCounter[g] <= GpuThreshold /\ exposed[g] = 0 /\ 0 <= Owed(g)
    <3>1. powerCounter[g] = 0 /\ exposed[g] = 0 /\ powerAge[g] = MaxInterval
      BY DEF MCInit, Init, Tracker!Init
    <3>2. QED
      BY <3>1, PowerAssumption DEF Owed
  <2>3. \A g \in Gpus : ~Checked(g)
    BY DEF MCInit, Init, Checked
  <2>4. exposed \in [Gpus -> Nat]
    BY DEF MCInit
  <2>5. QED
    BY <2>1, <2>2, <2>3, <2>4 DEF ExposureInv
<1>2. ExposureInv /\ [MCNext]_<<vars, exposed>> => ExposureInv'
  BY ExposureStep
<1>3. ExposureInv => ExposureBounded
  <2> SUFFICES ASSUME ExposureInv, NEW g \in Gpus, ~anyFault
               PROVE  ~(exposed[g] > Longest)
    BY DEF ExposureBounded
  <2>1. powerCounter[g] <= GpuThreshold /\ exposed[g] <= Owed(g)
    BY DEF ExposureInv
  <2>2. /\ powerAge[g] \in 0..MaxInterval /\ powerCounter[g] \in Nat
        /\ MaxInterval \in Nat /\ GpuThreshold \in Nat
    BY Ranges DEF ExposureInv
  <2>3. powerCounter[g] * MaxInterval <= GpuThreshold * MaxInterval
    BY <2>1, <2>2, NoMoreThan
  <2>4. /\ powerCounter[g] * MaxInterval \in Nat /\ GpuThreshold * MaxInterval \in Nat
        /\ Longest = GpuThreshold * MaxInterval + MaxInterval
    BY <2>2, OneMore DEF Longest
  <2>5. exposed[g] \in Nat
    BY DEF ExposureInv
  <2>6. QED
    BY <2>1, <2>2, <2>3, <2>4, <2>5 DEF Owed
<1>4. QED
  BY <1>1, <1>2, <1>3, PTL DEF MCSpec

=============================================================================
