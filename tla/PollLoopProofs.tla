--------------------------- MODULE PollLoopProofs ---------------------------
(***************************************************************************)
(* The main loop for any number of GPUs and fans, any thresholds, grace,   *)
(* intervals and readings, and any set of hazards.                         *)
(***************************************************************************)
EXTENDS PollLoop, CoolingProofs, TLAPS

TrackerFacts == INSTANCE FaultTrackerProofs

-----------------------------------------------------------------------------
(* The fan operations keep a fan a fan.                                    *)
LEMMA EnsureManualTyped ==
    ASSUME NEW x \in FanState, NEW fails
    PROVE  EnsureManual(x, fails).fan \in FanState
BY DEF EnsureManual, Done, Failed, FanState

LEMMA SetTyped ==
    ASSUME NEW x \in FanState, NEW pct \in Percent, NEW fails
    PROVE  Set(x, pct, fails).fan \in FanState
<1> DEFINE armed == EnsureManual(x, fails)
<1>1. armed.fan \in FanState
  BY EnsureManualTyped
<1> HIDE DEF armed
<1>2. Failed(armed.fan).fan \in FanState
  BY <1>1 DEF Failed
<1>3. [armed.fan EXCEPT !.duty = PwmOf(pct), !.spin = @ \/ Jump(armed.fan.last, pct),
                        !.last = pct] \in FanState
  <2>1. PwmOf(pct) \in Byte
    BY PwmIsFaithful
  <2>2. (armed.fan.spin \/ Jump(armed.fan.last, pct)) \in BOOLEAN
    BY Zenon
  <2>3. QED
    BY <1>1, <2>1, <2>2 DEF FanState
<1>4. QED
  BY <1>2, <1>3 DEF Set, Done, Failed, armed

LEMMA SetMaxTyped ==
    ASSUME NEW x \in FanState, NEW fails
    PROVE  SetMax(x, fails).fan \in FanState
<1> DEFINE armed == EnsureManual(x, fails)
<1>1. armed.fan \in FanState
  BY EnsureManualTyped
<1> HIDE DEF armed
<1>2. [armed.fan EXCEPT !.duty = 255, !.last = 100, !.spin = TRUE] \in FanState
  <2>1. 255 \in Byte /\ 100 \in Percent
    BY DEF Byte, Percent
  <2>2. QED
    BY <1>1, <2>1 DEF FanState
<1>3. QED
  BY <1>1, <1>2 DEF SetMax, Done, Failed, armed

LEMMA ClassifyTyped ==
    ASSUME NEW x \in FanState, NEW rpm, NEW age
    PROVE  /\ Classify(x, rpm, age).fan \in FanState
           /\ Classify(x, rpm, age).health \in Tracker!Health
<1>1. TickSpinUp(x, rpm, age) \in FanState
  <2>1. (x.spin /\ rpm <= MinRpm /\ age < Grace) \in BOOLEAN
    BY Zenon
  <2>2. QED
    BY <2>1 DEF TickSpinUp, FanState
<1>2. CheckHealth(rpm, TickSpinUp(x, rpm, age).spin) \in Tracker!Health
  BY DEF CheckHealth, Tracker!Health
<1>3. QED
  BY <1>1, <1>2 DEF Classify, Tracker!Health

LEMMA TakeManualTyped ==
    ASSUME NEW x \in FanState, NEW fails
    PROVE  TakeManualControl(x, fails).fan \in FanState
<1>1. ASSUME NEW e \in {BiosMode, Manual}
      PROVE  [x EXCEPT !.snapshot = e, !.enable = Manual, !.spin = TRUE] \in FanState
  <2>1. e \in {BiosMode, Manual, NoSnapshot} /\ Manual \in {BiosMode, Manual}
    OBVIOUS
  <2>2. QED
    BY <2>1 DEF FanState
<1>2. x.enable \in {BiosMode, Manual}
  BY DEF FanState
<1>3. [x EXCEPT !.snapshot = x.enable, !.enable = Manual, !.spin = TRUE] \in FanState
  BY <1>1, <1>2, Zenon
<1>4. QED
  BY <1>3 DEF TakeManualControl, Done, Failed

LEMMA OpenTyped == Open(BiosMode, 255) \in FanState
BY DEF Open, FanState, Byte

(* The duty a fan is driven with is a percentage.                          *)
LEMMA TargetPercent ==
    ASSUME temps \in [Gpus -> Temps \cup {NoTemp}], live \in Configs, NEW f \in Fans
    PROVE  Target(f) \in Percent
<1>1. \A g \in GpusOf(FanGroup[f]) :
         ValidView(live.view[g]) /\ temps[g] \in Int \cup {NoTemp}
  BY ConfigAssumption, LoopAssumption DEF GpusOf
<1>2. QED
  <2>1. TargetPct(GpusOf(FanGroup[f]), temps, live.view) \in Percent
    BY <1>1, TargetInBand
  <2>2. QED
    BY <2>1 DEF Target

(* What an accepted configuration leaves the loop for a poll: half of the  *)
(* watchdog's timeout, whatever the thresholds (W5).                       *)
LEMMA LivePoll ==
    ASSUME live \in Configs
    PROVE  live.poll \in Nat \ {0} /\ 2 * live.poll < Timeout
<1>1. /\ live.poll \in Nat \ {0} /\ live.gpuThreshold \in Nat \ {0}
      /\ 2 * live.poll * live.gpuThreshold < Timeout
  BY ConfigAssumption
<1>2. ASSUME NEW p \in Nat \ {0}, NEW k \in Nat \ {0} PROVE 2 * p <= 2 * p * k
  <2>1. PICK m \in Nat : k = m + 1
    OBVIOUS
  <2>2. p * m \in Nat /\ 2 * p * k = 2 * (p * m) + 2 * p
    BY <2>1
  <2>3. QED
    BY <2>2
<1>3. 2 * live.poll * live.gpuThreshold \in Int
  BY <1>1
<1>4. QED
  BY <1>1, <1>2, <1>3, LoopAssumption

-----------------------------------------------------------------------------
(* The tracker's own facts, for its instance in the loop.                  *)
LEMMA TickGpuFacts ==
    ASSUME Tracker!TypeOK, Tracker!CountersLatched, NEW g \in Gpus, NEW ok \in BOOLEAN,
           Tracker!TickGpu(g, ok)
    PROVE  Tracker!TypeOK' /\ Tracker!CountersLatched' /\ (anyFault => anyFault')
BY TrackerFacts!TickGpuStep, LoopAssumption, Zenon
   DEF Tracker!TypeOK, TrackerFacts!TypeOK, Tracker!CountersLatched,
       TrackerFacts!CountersLatched, Tracker!TickGpu, TrackerFacts!TickGpu,
       Tracker!Bump, TrackerFacts!Bump

LEMMA TickGpuPowerFacts ==
    ASSUME Tracker!TypeOK, Tracker!CountersLatched, NEW g \in Gpus, NEW ok \in BOOLEAN,
           Tracker!TickGpuPower(g, ok)
    PROVE  Tracker!TypeOK' /\ Tracker!CountersLatched' /\ (anyFault => anyFault')
BY TrackerFacts!TickGpuPowerStep, LoopAssumption, Zenon
   DEF Tracker!TypeOK, TrackerFacts!TypeOK, Tracker!CountersLatched,
       TrackerFacts!CountersLatched, Tracker!TickGpuPower, TrackerFacts!TickGpuPower,
       Tracker!Bump, TrackerFacts!Bump

LEMMA TickFanFacts ==
    ASSUME Tracker!TypeOK, Tracker!CountersLatched, NEW f \in Fans,
           NEW health \in Tracker!Health, Tracker!TickFan(f, health)
    PROVE  Tracker!TypeOK' /\ Tracker!CountersLatched' /\ (anyFault => anyFault')
BY TrackerFacts!TickFanStep, LoopAssumption, Zenon
   DEF Tracker!TypeOK, TrackerFacts!TypeOK, Tracker!CountersLatched,
       TrackerFacts!CountersLatched, Tracker!TickFan, TrackerFacts!TickFan,
       Tracker!Bump, TrackerFacts!Bump, Tracker!Health, TrackerFacts!Health,
       Tracker!Faulty, TrackerFacts!Faulty

LEMMA TrackerIdle ==
    ASSUME Tracker!TypeOK, Tracker!CountersLatched, UNCHANGED trackerVars
    PROVE  Tracker!TypeOK' /\ Tracker!CountersLatched' /\ (anyFault => anyFault')
BY DEF Tracker!TypeOK, Tracker!CountersLatched, trackerVars

LEMMA TrackerStarts == Tracker!Init => Tracker!TypeOK /\ Tracker!CountersLatched
BY TrackerFacts!TrackerInit, LoopAssumption, Zenon
   DEF Tracker!TypeOK, TrackerFacts!TypeOK, Tracker!CountersLatched,
       TrackerFacts!CountersLatched, Tracker!Init, TrackerFacts!Init

-----------------------------------------------------------------------------
(* The type invariant in three parts: the tracker, the place in the loop,  *)
(* and the rest.                                                           *)
Place ==
    /\ pc \in Steps \cup {"exited", "rebooted"}
    /\ at \in Gpus \cup Fans
    /\ pc \in {"read", "power"} => at \in Gpus
    /\ pc = "drive" => at \in Fans

Flags == shouldSlam \in BOOLEAN /\ shutdown \in BOOLEAN

Data ==
    /\ live \in Configs
    /\ temps \in [Gpus -> Temps \cup {NoTemp}]
    /\ fan \in [Fans -> FanState]
    /\ lastSetPct \in [Fans -> Percent \cup {NoPct}]
    /\ spinAge \in [Fans -> 0..Grace]
    /\ powerAge \in [Gpus -> 0..MaxPowerInterval]
    /\ blind \subseteq Gpus
    /\ condition \in [Fans -> {"fine", "seized", "deaf"}]

(* The watchdog expires in a Sleep and nowhere else.                       *)
Ticking == wdAge \in 0..Accepted /\ (pc # "rebooted" => wdAge < Accepted)

(* Without a fault every feed reaches the kernel, so that the watchdog is  *)
(* never older than one poll, and W5 makes that half of its timeout under  *)
(* whichever configuration the poll began.                                 *)
Fed ==
    FeedsInTime /\ ~anyFault =>
        2 * wdAge < Timeout /\ (pc = "sleep" => wdAge = 0) /\ pc # "rebooted"

LoopInv ==
    Tracker!TypeOK /\ Tracker!CountersLatched /\ Place /\ Flags /\ Data /\ Ticking /\ Fed

LEMMA TypeParts == LoopInv => TypeOK
BY Zenon DEF LoopInv, TypeOK, Place, Flags, Data, Ticking

LEMMA IndexSets == 1 \in Gpus /\ 1 \in Fans
BY LoopAssumption DEF Gpus, Fans

LEMMA NextGpuPlace ==
    ASSUME NextGpu
    PROVE  Place' /\ pc' \in {"read", "drive"}
BY IndexSets DEF NextGpu, Place, Steps

LEMMA NextFanPlace ==
    ASSUME NextFan
    PROVE  Place' /\ pc' \in {"drive", "slam"}
BY IndexSets DEF NextFan, Place, Steps

(* A step that neither feeds nor lets time pass.                           *)
LEMMA ClockIdle ==
    ASSUME Ticking, Fed, UNCHANGED wdAge, anyFault => anyFault', pc # "rebooted",
           pc' \notin {"sleep", "rebooted"}
    PROVE  Ticking' /\ Fed'
BY DEF Ticking, Fed

LEMMA LoopInit == Init => LoopInv
<1> SUFFICES ASSUME Init PROVE LoopInv
  OBVIOUS
<1>1. Tracker!TypeOK /\ Tracker!CountersLatched
  BY TrackerStarts, Zenon DEF Init
<1>2. Place
  BY IndexSets DEF Init, Place, Steps
<1>3. Flags
  BY Zenon DEF Init, Flags
<1>4. Data
  <2>1. fan \in [Fans -> FanState]
    BY OpenTyped, TakeManualTyped DEF Init
  <2>2. /\ live \in Configs
        /\ temps \in [Gpus -> Temps \cup {NoTemp}]
        /\ lastSetPct \in [Fans -> Percent \cup {NoPct}]
        /\ spinAge \in [Fans -> 0..Grace]
        /\ powerAge \in [Gpus -> 0..MaxPowerInterval]
    BY LoopAssumption, FanAssumption DEF Init
  <2>3. blind \subseteq Gpus /\ condition \in [Fans -> {"fine", "seized", "deaf"}]
    BY DEF Init
  <2>4. QED
    BY <2>1, <2>2, <2>3, Zenon DEF Data
<1>5. Ticking /\ Fed
  <2>1. live \in Configs
    BY DEF Init
  <2>2. 0 < Timeout /\ Timeout \in Nat /\ 0 < Accepted /\ Accepted \in Nat
    BY <2>1, LivePoll, LoopAssumption
  <2>3. QED
    BY <2>2 DEF Init, Ticking, Fed
<1>6. QED
  BY <1>1, <1>2, <1>3, <1>4, <1>5, Zenon DEF LoopInv

-----------------------------------------------------------------------------
(* Every step of the loop keeps the invariant, never opens the latch, and  *)
(* never makes the watchdog younger under a fault.                         *)
Kept == LoopInv' /\ (anyFault => anyFault' /\ wdAge' >= wdAge)

LEMMA StepKeeps ==
    ASSUME LoopInv, Tracker!TypeOK', Tracker!CountersLatched', anyFault => anyFault',
           Place', Flags', Data', Ticking', Fed', anyFault => wdAge' >= wdAge
    PROVE  Kept
BY Zenon DEF Kept, LoopInv

(* A step that does not touch the watchdog.                                *)
LEMMA QuietStepKeeps ==
    ASSUME LoopInv, Tracker!TypeOK', Tracker!CountersLatched', anyFault => anyFault',
           Place', Flags', Data', UNCHANGED wdAge, pc # "rebooted",
           pc' \notin {"sleep", "rebooted"}
    PROVE  Kept
<1>1. Ticking' /\ Fed'
  BY ClockIdle, Zenon DEF LoopInv
<1>2. wdAge' >= wdAge
  BY DEF LoopInv, Ticking
<1>3. QED
  BY <1>1, <1>2, StepKeeps, Zenon

LEMMA LoopTopKeeps ==
    ASSUME LoopInv, LoopTop
    PROVE  Kept
<1>1. Tracker!TypeOK' /\ Tracker!CountersLatched' /\ (anyFault => anyFault')
  BY TrackerIdle, Zenon DEF LoopTop, LoopInv
<1>2. Place'
  BY IndexSets DEF LoopTop, Place, Steps
<1>3. Flags'
  BY Zenon DEF LoopTop, LoopInv, Flags
<1>4. Data'
  <2>1. live' \in Configs
    BY DEF LoopTop, LoopInv, Data
  <2>2. temps' \in [Gpus -> Temps \cup {NoTemp}]
    BY DEF LoopTop, LoopInv, Data
  <2>3. QED
    BY <2>1, <2>2 DEF LoopTop, LoopInv, Data, world
<1>5. UNCHANGED wdAge /\ pc # "rebooted" /\ pc' \notin {"sleep", "rebooted"}
  BY DEF LoopTop
<1>6. QED
  BY <1>1, <1>2, <1>3, <1>4, <1>5, QuietStepKeeps, Zenon

LEMMA ReadTempKeeps ==
    ASSUME LoopInv, ReadTemp
    PROVE  Kept
<1>1. PICK t \in Answers(at) :
         /\ temps' = [temps EXCEPT ![at] = t]
         /\ Tracker!TickGpu(at, t # NoTemp)
         /\ shouldSlam' = (shouldSlam \/ Tracker!GpuTickDeclares(at))
  BY Zenon DEF ReadTemp
<1>2. pc = "read" /\ at \in Gpus
  BY DEF ReadTemp, LoopInv, Place
<1>3. Tracker!TypeOK' /\ Tracker!CountersLatched' /\ (anyFault => anyFault')
  <2>1. (t # NoTemp) \in BOOLEAN
    BY Zenon
  <2>2. QED
    BY <1>1, <1>2, <2>1, TickGpuFacts, Zenon DEF LoopInv
<1>4. Place' /\ pc' \in {"read", "power", "drive"}
  <2>1. CASE at \in live.powerGpus
    BY <1>2, <2>1 DEF ReadTemp, Place, Steps
  <2>2. CASE NextGpu
    BY <2>2, NextGpuPlace
  <2>3. QED
    BY <2>1, <2>2 DEF ReadTemp
<1>5. Flags'
  BY <1>1, Zenon DEF ReadTemp, LoopInv, Flags
<1>6. Data'
  <2>1. t \in Temps \cup {NoTemp}
    BY DEF Answers
  <2>2. temps' \in [Gpus -> Temps \cup {NoTemp}]
    BY <1>1, <1>2, <2>1 DEF LoopInv, Data
  <2>3. UNCHANGED <<live, fan, lastSetPct, spinAge, powerAge, blind, condition>>
    BY DEF ReadTemp, world
  <2>4. QED
    BY <2>2, <2>3 DEF LoopInv, Data
<1>7. UNCHANGED wdAge
  BY DEF ReadTemp
<1>8. QED
  BY <1>2, <1>3, <1>4, <1>5, <1>6, <1>7, QuietStepKeeps

LEMMA CheckPowerKeeps ==
    ASSUME LoopInv, CheckPower
    PROVE  Kept
<1>1. pc = "power" /\ at \in Gpus
  BY DEF CheckPower, LoopInv, Place
<1>2. Place' /\ pc' \in {"read", "drive"}
  BY NextGpuPlace DEF CheckPower
<1>3. UNCHANGED <<live, temps, fan, lastSetPct, spinAge, shutdown, wdAge, blind, condition>>
  BY DEF CheckPower, world
<1>4. CASE powerAge[at] >= live.powerInterval
  <2>1. PICK ok \in BOOLEAN :
           /\ Tracker!TickGpuPower(at, ok)
           /\ shouldSlam' = (shouldSlam \/ Tracker!PowerTickDeclares(at))
           /\ powerAge' = [powerAge EXCEPT ![at] = 0]
    BY <1>4, Zenon DEF CheckPower
  <2>2. Tracker!TypeOK' /\ Tracker!CountersLatched' /\ (anyFault => anyFault')
    BY <1>1, <2>1, TickGpuPowerFacts, Zenon DEF LoopInv
  <2>3. Flags'
    BY <1>3, <2>1, Zenon DEF LoopInv, Flags
  <2>4. Data'
    <3>1. powerAge' \in [Gpus -> 0..MaxPowerInterval]
      BY <1>1, <2>1, LoopAssumption DEF LoopInv, Data
    <3>2. QED
      BY <1>3, <3>1 DEF LoopInv, Data
  <2>5. QED
    BY <1>1, <1>2, <1>3, <2>2, <2>3, <2>4, QuietStepKeeps
<1>5. CASE ~(powerAge[at] >= live.powerInterval)
  <2>1. UNCHANGED <<trackerVars, shouldSlam, powerAge>>
    BY <1>5, Zenon DEF CheckPower
  <2>2. Tracker!TypeOK' /\ Tracker!CountersLatched' /\ (anyFault => anyFault')
    BY <2>1, TrackerIdle, Zenon DEF LoopInv
  <2>3. Flags'
    BY <1>3, <2>1, Zenon DEF LoopInv, Flags
  <2>4. Data'
    BY <1>3, <2>1 DEF LoopInv, Data
  <2>5. QED
    BY <1>1, <1>2, <1>3, <2>2, <2>3, <2>4, QuietStepKeeps
<1>6. QED
  BY <1>4, <1>5

LEMMA DriveFanKeeps ==
    ASSUME LoopInv, DriveFan
    PROVE  Kept
<1>1. pc = "drive" /\ at \in Fans
  BY DEF DriveFan, LoopInv, Place
<1> DEFINE target == Target(at)
           age == IF Jump(lastSetPct[at], target) THEN 0 ELSE spinAge[at]
           driven(fails) == Set(fan[at], target, fails).fan
           verdict(fails, rpm) == Classify(driven(fails), rpm, age)
<1>2. PICK fails \in Failing(at), rpm \in Readings(at) :
         /\ fan' = [fan EXCEPT ![at] = verdict(fails, rpm).fan]
         /\ lastSetPct' = [lastSetPct EXCEPT ![at] = target]
         /\ spinAge' = [spinAge EXCEPT ![at] = age]
         /\ Tracker!TickFan(at, verdict(fails, rpm).health)
         /\ shouldSlam' = (shouldSlam \/
                              Tracker!FanTickDeclares(at, verdict(fails, rpm).health))
  BY Zenon DEF DriveFan
<1>3. target \in Percent
  BY <1>1, TargetPercent DEF LoopInv, Data
<1>4. age \in 0..Grace
  BY <1>1, FanAssumption DEF LoopInv, Data
<1>5. /\ verdict(fails, rpm).fan \in FanState
      /\ verdict(fails, rpm).health \in Tracker!Health
  <2>1. fan[at] \in FanState
    BY <1>1 DEF LoopInv, Data
  <2>2. driven(fails) \in FanState
    BY <1>3, <2>1, SetTyped, Zenon
  <2>3. QED
    BY <2>2, ClassifyTyped, Zenon
<1> HIDE DEF verdict, age, target
<1>6. Tracker!TypeOK' /\ Tracker!CountersLatched' /\ (anyFault => anyFault')
  BY <1>1, <1>2, <1>5, TickFanFacts, Zenon DEF LoopInv
<1>7. Place' /\ pc' \in {"drive", "slam"}
  BY NextFanPlace DEF DriveFan
<1>8. Flags'
  BY <1>2, Zenon DEF DriveFan, LoopInv, Flags
<1>9. Data'
  <2>1. fan' \in [Fans -> FanState]
    BY <1>1, <1>2, <1>5, Zenon DEF LoopInv, Data
  <2>2. lastSetPct' \in [Fans -> Percent \cup {NoPct}]
    BY <1>1, <1>2, <1>3 DEF LoopInv, Data
  <2>3. spinAge' \in [Fans -> 0..Grace]
    BY <1>1, <1>2, <1>4 DEF LoopInv, Data
  <2>4. UNCHANGED <<live, temps, powerAge, blind, condition>>
    BY DEF DriveFan, world
  <2>5. QED
    BY <2>1, <2>2, <2>3, <2>4 DEF LoopInv, Data
<1>10. UNCHANGED wdAge
  BY DEF DriveFan
<1>11. QED
  BY <1>1, <1>6, <1>7, <1>8, <1>9, <1>10, QuietStepKeeps

LEMMA SlamKeeps ==
    ASSUME LoopInv, Slam
    PROVE  Kept
<1>1. Tracker!TypeOK' /\ Tracker!CountersLatched' /\ (anyFault => anyFault')
  BY TrackerIdle, Zenon DEF Slam, LoopInv
<1>2. Place'
  BY DEF Slam, LoopInv, Place, Steps
<1>3. Flags'
  BY Zenon DEF Slam, LoopInv, Flags
<1>4. fan' \in [Fans -> FanState] /\ spinAge' \in [Fans -> 0..Grace]
  <2>1. CASE shouldSlam
    <3>1. PICK fails \in [Fans -> Access] :
             fan' = [f \in Fans |-> SetMax(fan[f], fails[f]).fan]
      BY <2>1, Zenon DEF Slam
    <3>2. \A f \in Fans : SetMax(fan[f], fails[f]).fan \in FanState
      BY SetMaxTyped DEF LoopInv, Data
    <3>3. spinAge' = [f \in Fans |-> 0]
      BY <2>1, Zenon DEF Slam
    <3>4. QED
      BY <3>1, <3>2, <3>3, FanAssumption
  <2>2. CASE ~shouldSlam
    <3>1. UNCHANGED <<fan, spinAge>>
      BY <2>2, Zenon DEF Slam
    <3>2. QED
      BY <3>1 DEF LoopInv, Data
  <2>3. QED
    BY <2>1, <2>2
<1>5. Data'
  BY <1>4 DEF Slam, LoopInv, Data, world
<1>6. UNCHANGED wdAge /\ pc # "rebooted" /\ pc' \notin {"sleep", "rebooted"}
  BY DEF Slam
<1>7. QED
  BY <1>1, <1>2, <1>3, <1>5, <1>6, QuietStepKeeps, Zenon

LEMMA FeedKeeps ==
    ASSUME LoopInv, Feed
    PROVE  Kept
<1>1. UNCHANGED trackerVars /\ pc = "feed" /\ pc' = "sleep"
  BY DEF Feed
<1>2. Tracker!TypeOK' /\ Tracker!CountersLatched' /\ (anyFault => anyFault')
  BY <1>1, TrackerIdle, Zenon DEF LoopInv
<1>3. Place'
  BY DEF Feed, LoopInv, Place, Steps
<1>4. Flags'
  BY Zenon DEF Feed, LoopInv, Flags
<1>5. Data'
  BY DEF Feed, LoopInv, Data, world
<1>6. /\ wdAge \in Nat /\ wdAge < Accepted /\ Accepted \in Nat
      /\ Timeout \in Nat /\ 0 < Timeout
  BY <1>1, LivePoll, LoopAssumption DEF LoopInv, Ticking, Data
<1>7. CASE anyFault
  <2>1. UNCHANGED wdAge
    BY <1>7, Zenon DEF Feed
  <2>2. Ticking' /\ anyFault'
    <3>1. anyFault'
      BY <1>2, <1>7
    <3>2. QED
      BY <1>1, <1>6, <2>1, <3>1 DEF Ticking
  <2>3. Fed'
    BY <2>2, Zenon DEF Fed
  <2>4. wdAge' >= wdAge
    BY <1>6, <2>1
  <2>5. QED
    BY <1>2, <1>3, <1>4, <1>5, <2>2, <2>3, <2>4, StepKeeps, Zenon
<1>8. CASE ~anyFault
  <2>1. wdAge' = 0 \/ (~FeedsInTime /\ UNCHANGED wdAge)
    BY <1>8, Zenon DEF Feed, FeedsInTime
  <2>2. Ticking' /\ Fed'
    BY <1>1, <1>6, <2>1 DEF Ticking, Fed
  <2>3. QED
    BY <1>2, <1>3, <1>4, <1>5, <1>8, <2>2, StepKeeps, Zenon
<1>9. QED
  BY <1>7, <1>8

LEMMA SleepKeeps ==
    ASSUME LoopInv, Sleep
    PROVE  Kept
<1>1. UNCHANGED trackerVars /\ pc = "sleep" /\ wdAge' = Older(wdAge, Accepted)
  BY DEF Sleep
<1>2. Tracker!TypeOK' /\ Tracker!CountersLatched' /\ (anyFault => anyFault')
  BY <1>1, TrackerIdle, Zenon DEF LoopInv
<1>3. Place'
  BY DEF Sleep, LoopInv, Place, Steps
<1>4. Flags'
  BY Zenon DEF Sleep, LoopInv, Flags
<1>5. /\ wdAge \in Nat /\ wdAge < Accepted /\ Accepted \in Nat /\ Timeout \in Nat
      /\ live.poll \in Nat \ {0} /\ 2 * live.poll < Timeout
  BY <1>1, LivePoll, LoopAssumption DEF LoopInv, Ticking, Data
<1>6. Data'
  <2>1. ASSUME NEW limit \in Nat, NEW age \in 0..limit
        PROVE  Older(age, limit) \in 0..limit
    BY <1>5, <2>1 DEF Older
  <2>2. spinAge' \in [Fans -> 0..Grace] /\ powerAge' \in [Gpus -> 0..MaxPowerInterval]
    BY <2>1, LoopAssumption, FanAssumption DEF Sleep, LoopInv, Data
  <2>3. QED
    BY <2>2 DEF Sleep, LoopInv, Data, world
<1>7. Ticking' /\ wdAge' >= wdAge
  BY <1>1, <1>5 DEF Sleep, Older, Ticking
<1>8. Fed'
  <2>1. SUFFICES ASSUME FeedsInTime, ~anyFault'
                 PROVE  2 * wdAge' < Timeout /\ pc' = "top"
    BY DEF Fed
  <2>2. ~anyFault
    BY <1>2, <2>1
  <2>3. wdAge = 0
    BY <1>1, <2>1, <2>2 DEF LoopInv, Fed
  <2>4. wdAge' = live.poll /\ live.poll < Accepted
    BY <1>1, <1>5, <2>1, <2>3 DEF Older, FeedsInTime
  <2>5. QED
    BY <1>5, <2>4 DEF Sleep
<1>9. QED
  BY <1>2, <1>3, <1>4, <1>6, <1>7, <1>8, StepKeeps, Zenon

(* What the machine does leaves the daemon's own state alone.              *)
LEMMA WorldKeeps ==
    ASSUME LoopInv, World
    PROVE  Kept
<1>1. UNCHANGED loopVars
  BY DEF World, Drift, Break, GoBlind, Sigterm
<1>2. Tracker!TypeOK' /\ Tracker!CountersLatched' /\ (anyFault => anyFault')
  BY <1>1, TrackerIdle, Zenon DEF LoopInv, loopVars
<1>3. Place' /\ Ticking'
  BY <1>1 DEF LoopInv, Place, Ticking, loopVars
<1>4. Fed'
  BY <1>1 DEF LoopInv, Fed, loopVars, trackerVars
<1>5. wdAge' >= wdAge
  BY <1>1 DEF LoopInv, Ticking, loopVars
<1>6. Flags'
  <2>1. shutdown' \in BOOLEAN
    BY Zenon DEF World, Drift, Break, GoBlind, Sigterm, LoopInv, Flags
  <2>2. shouldSlam' \in BOOLEAN
    BY <1>1, Zenon DEF LoopInv, Flags, loopVars
  <2>3. QED
    BY <2>1, <2>2, Zenon DEF Flags
<1>7. Data'
  <2>1. UNCHANGED <<live, temps, lastSetPct, spinAge, powerAge>>
    BY <1>1 DEF loopVars
  <2>2. fan' \in [Fans -> FanState]
    <3>1. ASSUME NEW f \in Fans, Drift(f) PROVE fan' \in [Fans -> FanState]
      <4>1. fan[f] \in FanState
        BY DEF LoopInv, Data
      <4>2. [fan[f] EXCEPT !.enable = BiosMode] \in FanState
        BY <4>1 DEF FanState
      <4>3. fan' = [fan EXCEPT ![f] = [fan[f] EXCEPT !.enable = BiosMode]]
        BY <3>1, Zenon DEF Drift
      <4>4. QED
        BY <4>2, <4>3 DEF LoopInv, Data
    <3>2. CASE UNCHANGED fan
      BY <3>2 DEF LoopInv, Data
    <3>3. QED
      BY <3>1, <3>2 DEF World, Break, GoBlind, Sigterm
  <2>3. blind' \subseteq Gpus
    BY DEF World, Drift, Break, GoBlind, Sigterm, world, LoopInv, Data
  <2>4. condition' \in [Fans -> {"fine", "seized", "deaf"}]
    BY DEF World, Drift, Break, GoBlind, Sigterm, world, LoopInv, Data
  <2>5. QED
    BY <2>1, <2>2, <2>3, <2>4 DEF LoopInv, Data
<1>8. QED
  BY <1>2, <1>3, <1>4, <1>5, <1>6, <1>7, StepKeeps, Zenon

LEMMA IdleKeeps ==
    ASSUME LoopInv, UNCHANGED vars
    PROVE  Kept
<1>1. Tracker!TypeOK' /\ Tracker!CountersLatched' /\ (anyFault => anyFault')
  BY TrackerIdle, Zenon DEF vars, LoopInv
<1>2. Place' /\ Ticking' /\ wdAge' >= wdAge
  BY DEF vars, LoopInv, Place, Ticking
<1>3. Fed'
  BY DEF vars, trackerVars, LoopInv, Fed
<1>4. Flags'
  BY Zenon DEF vars, LoopInv, Flags
<1>5. Data'
  BY DEF vars, world, LoopInv, Data
<1>6. QED
  BY <1>1, <1>2, <1>3, <1>4, <1>5, StepKeeps, Zenon

LEMMA EveryStepKeeps ==
    ASSUME LoopInv, [Next]_vars
    PROVE  Kept
<1>1. CASE Loop
  BY <1>1, LoopTopKeeps, ReadTempKeeps, CheckPowerKeeps, DriveFanKeeps, SlamKeeps,
     FeedKeeps, SleepKeeps DEF Loop
<1>2. CASE World
  BY <1>2, WorldKeeps
<1>3. CASE Stopped
  BY <1>3, IdleKeeps DEF Stopped
<1>4. CASE UNCHANGED vars
  BY <1>4, IdleKeeps
<1>5. QED
  BY <1>1, <1>2, <1>3, <1>4 DEF Next

LEMMA LoopInvAlways == Spec => []LoopInv
<1>1. LoopInv /\ [Next]_vars => LoopInv'
  BY EveryStepKeeps DEF Kept
<1>2. QED
  BY <1>1, LoopInit, PTL DEF Spec

-----------------------------------------------------------------------------
(* The main loop's variables keep their types under every hazard.          *)
THEOREM LoopTypes == Spec => []TypeOK
BY LoopInvAlways, TypeParts, PTL

(* In the loop, too, a counter beyond its threshold has set the latch.     *)
THEOREM LoopLatched == Spec => []CountersLatched
<1>1. LoopInv => CountersLatched
  BY Zenon DEF LoopInv, CountersLatched
<1>2. QED
  BY <1>1, LoopInvAlways, PTL

(* ADR-0001: once a fault stands, nothing the daemon or the machine does   *)
(* withdraws it or feeds the watchdog again.                               *)
THEOREM FaultIsFinal == Spec => FaultSilencesForGood
<1>1. LoopInv /\ [Next]_vars => [anyFault => anyFault' /\ wdAge' >= wdAge]_vars
  BY EveryStepKeeps DEF Kept
<1>2. QED
  BY <1>1, LoopInvAlways, PTL DEF Spec, FaultSilencesForGood

(* W5 suffices: whatever sensors, fans, drivers and signals do short of a  *)
(* declared fault, a watchdog device that takes its feeds never reboots    *)
(* the box.                                                                *)
THEOREM NoSpuriousReboot == Spec => []HealthyNeverRebooted
<1>1. LoopInv => HealthyNeverRebooted
  BY Zenon DEF LoopInv, Fed, HealthyNeverRebooted
<1>2. QED
  BY <1>1, LoopInvAlways, PTL

-----------------------------------------------------------------------------
(* The duties.  What the sysfs operations of a fan that takes its writes   *)
(* leave in its PWM register.                                              *)
LEMMA EnsureManualDuty ==
    ASSUME NEW x \in FanState
    PROVE  /\ EnsureManual(x, "none").ok
           /\ EnsureManual(x, "none").fan \in FanState
BY EnsureManualTyped DEF EnsureManual, Done

LEMMA SetDuty ==
    ASSUME NEW x \in FanState, NEW pct
    PROVE  Set(x, pct, "none").fan.duty = PwmOf(pct)
<1> DEFINE armed == EnsureManual(x, "none")
<1>1. armed.ok /\ armed.fan \in FanState
  BY EnsureManualDuty
<1> HIDE DEF armed
<1>2. Set(x, pct, "none").fan = [armed.fan EXCEPT !.duty = PwmOf(pct),
                                    !.spin = @ \/ Jump(armed.fan.last, pct), !.last = pct]
  BY <1>1, Zenon DEF Set, Done, armed
<1>3. QED
  BY <1>1, <1>2 DEF FanState

LEMMA SetMaxDuty ==
    ASSUME NEW x \in FanState
    PROVE  SetMax(x, "none").fan.duty = 255
<1> DEFINE armed == EnsureManual(x, "none")
<1>1. armed.ok /\ armed.fan \in FanState
  BY EnsureManualDuty
<1> HIDE DEF armed
<1>2. SetMax(x, "none").fan = [armed.fan EXCEPT !.duty = 255, !.last = 100, !.spin = TRUE]
  BY <1>1, Zenon DEF SetMax, Done, armed
<1>3. QED
  BY <1>1, <1>2 DEF FanState

LEMMA ClassifyDuty ==
    ASSUME NEW x \in FanState, NEW rpm, NEW age
    PROVE  Classify(x, rpm, age).fan.duty = x.duty
<1>1. TickSpinUp(x, rpm, age).duty = x.duty
  BY DEF TickSpinUp, FanState
<1>2. Classify(x, rpm, age).fan \in {x, TickSpinUp(x, rpm, age)}
  BY DEF Classify
<1>3. QED
  BY <1>1, <1>2

-----------------------------------------------------------------------------
(* A poll announces every fault of a GPU to the slam: once a GPU's turn is *)
(* over, a temperature counter beyond its threshold has set should_slam,   *)
(* and so has a power counter that was ticked in this poll, its check's    *)
(* age being 0 in no other one.                                            *)
Visited(g) ==
    \/ pc = "read" /\ g < at
    \/ pc = "power" /\ g <= at
    \/ pc \in {"drive", "slam", "feed"}

GpusAnnounced ==
    \A g \in Gpus : Visited(g) /\ gpuCounter[g] > GpuThreshold => shouldSlam

Polling == pc \in {"read", "power", "drive", "slam", "feed"}

PowerAnnounced ==
    /\ pc = "top" => \A g \in Gpus : powerAge[g] > 0
    /\ Polling => \A g \in Gpus : powerCounter[g] > GpuThreshold /\ powerAge[g] = 0
                                      => shouldSlam

(* The fans that had their turn follow their group's target.               *)
Driven(f) == (pc = "drive" /\ f < at) \/ pc = "slam"
Following == \A f \in Fans : Driven(f) /\ Obeys(f) => fan[f].duty = PwmOf(Target(f))

(* After a slam they are at full duty, up to the feed.                     *)
Maxed == pc = "feed" /\ shouldSlam => \A f \in Fans : Obeys(f) => fan[f].duty = 255

DutyInv == GpusAnnounced /\ PowerAnnounced /\ Following /\ ReadableFloor /\ Maxed

(* What the steps of the machine and the idle ones leave alone.            *)
LEMMA WorldFrame ==
    ASSUME LoopInv, World \/ Stopped \/ UNCHANGED vars
    PROVE  /\ UNCHANGED <<pc, at, live, temps, shouldSlam, gpuCounter, powerCounter, powerAge>>
           /\ \A f \in Fans : fan'[f].duty = fan[f].duty
           /\ \A f \in Fans : Obeys(f)' => Obeys(f)
<1>1. CASE Stopped \/ UNCHANGED vars
  BY <1>1 DEF Stopped, vars, trackerVars, world, Obeys
<1>2. ASSUME NEW f \in Fans, Drift(f)
      PROVE  \A h \in Fans : fan'[h].duty = fan[h].duty
  <2>1. fan' = [fan EXCEPT ![f] = [fan[f] EXCEPT !.enable = BiosMode]]
    BY <1>2, Zenon DEF Drift
  <2>2. fan[f] \in FanState /\ fan \in [Fans -> FanState]
    BY DEF LoopInv, Data
  <2>3. [fan[f] EXCEPT !.enable = BiosMode].duty = fan[f].duty
    BY <2>2 DEF FanState
  <2>4. QED
    BY <2>1, <2>2, <2>3
<1>3. ASSUME NEW f \in Fans, NEW how \in {"seized", "deaf"}, Break(f, how)
      PROVE  UNCHANGED fan /\ \A h \in Fans : Obeys(h)' => Obeys(h)
  BY <1>3 DEF Break, Obeys, LoopInv, Data
<1>4. CASE World
  <2>1. UNCHANGED loopVars
    BY <1>4 DEF World, Drift, Break, GoBlind, Sigterm
  <2>2. /\ \A f \in Fans : fan'[f].duty = fan[f].duty
        /\ \A f \in Fans : Obeys(f)' => Obeys(f)
    BY <1>2, <1>3, <1>4 DEF World, Drift, GoBlind, Sigterm, world, Obeys
  <2>3. QED
    BY <2>1, <2>2 DEF loopVars, trackerVars
<1>5. QED
  BY <1>1, <1>4

(* Inside a poll should_slam is only ever raised, by the ticks.            *)
LEMMA ReadTempTick ==
    ASSUME LoopInv, ReadTemp
    PROVE  /\ \A g \in Gpus \ {at} : gpuCounter'[g] = gpuCounter[g]
           /\ gpuCounter'[at] > GpuThreshold => shouldSlam'
           /\ shouldSlam => shouldSlam'
           /\ UNCHANGED <<powerCounter, powerAge>>
<1>1. PICK t \in Answers(at) :
         /\ Tracker!TickGpu(at, t # NoTemp)
         /\ shouldSlam' = (shouldSlam \/ Tracker!GpuTickDeclares(at))
  BY Zenon DEF ReadTemp
<1>2. \A g \in Gpus \ {at} : gpuCounter'[g] = gpuCounter[g]
  BY <1>1 DEF Tracker!TickGpu, LoopInv, Tracker!TypeOK
<1>3. /\ gpuCounter'[at] > GpuThreshold => shouldSlam'
      /\ shouldSlam => shouldSlam'
  BY <1>1, Zenon DEF Tracker!GpuTickDeclares
<1>4. UNCHANGED <<powerCounter, powerAge>>
  BY <1>1 DEF ReadTemp, Tracker!TickGpu
<1>5. QED
  BY <1>2, <1>3, <1>4

LEMMA CheckPowerTick ==
    ASSUME LoopInv, CheckPower
    PROVE  /\ \A g \in Gpus \ {at} : /\ powerCounter'[g] = powerCounter[g]
                                     /\ powerAge'[g] = powerAge[g]
           /\ \/ powerCounter'[at] > GpuThreshold => shouldSlam'
              \/ powerCounter'[at] = powerCounter[at] /\ powerAge'[at] = powerAge[at]
           /\ shouldSlam => shouldSlam'
           /\ UNCHANGED gpuCounter
<1>1. CASE powerAge[at] >= live.powerInterval
  <2>1. PICK ok \in BOOLEAN :
           /\ Tracker!TickGpuPower(at, ok)
           /\ shouldSlam' = (shouldSlam \/ Tracker!PowerTickDeclares(at))
           /\ powerAge' = [powerAge EXCEPT ![at] = 0]
    BY <1>1, Zenon DEF CheckPower
  <2>2. \A g \in Gpus \ {at} : /\ powerCounter'[g] = powerCounter[g]
                                /\ powerAge'[g] = powerAge[g]
    BY <2>1 DEF Tracker!TickGpuPower, LoopInv, Tracker!TypeOK, Data
  <2>3. /\ powerCounter'[at] > GpuThreshold => shouldSlam'
        /\ shouldSlam => shouldSlam'
    BY <2>1, Zenon DEF Tracker!PowerTickDeclares
  <2>4. UNCHANGED gpuCounter
    BY <2>1 DEF Tracker!TickGpuPower
  <2>5. QED
    BY <2>2, <2>3, <2>4
<1>2. CASE ~(powerAge[at] >= live.powerInterval)
  <2>1. UNCHANGED <<trackerVars, shouldSlam, powerAge>>
    BY <1>2, Zenon DEF CheckPower
  <2>2. QED
    BY <2>1 DEF trackerVars
<1>3. QED
  BY <1>1, <1>2

LEMMA DriveFanTick ==
    ASSUME LoopInv, DriveFan
    PROVE  /\ UNCHANGED <<gpuCounter, powerCounter, powerAge>>
           /\ shouldSlam => shouldSlam'
<1>1. \E health : /\ Tracker!TickFan(at, health)
                  /\ shouldSlam' = (shouldSlam \/ Tracker!FanTickDeclares(at, health))
  BY Zenon DEF DriveFan
<1>2. shouldSlam => shouldSlam'
  BY <1>1, Zenon
<1>3. QED
  BY <1>1, <1>2 DEF DriveFan, Tracker!TickFan

LEMMA GpusAnnouncedStep ==
    ASSUME LoopInv, GpusAnnounced, [Next]_vars
    PROVE  GpusAnnounced'
<1>1. CASE LoopTop
  <2>1. pc' \in {"exited", "read"} /\ at' = 1
    BY <1>1 DEF LoopTop
  <2>2. QED
    BY <2>1 DEF GpusAnnounced, Visited, Gpus
<1>2. CASE ReadTemp
  <2>1. pc = "read" /\ at \in Gpus
    BY <1>2 DEF ReadTemp, LoopInv, Place
  <2>2. \A g \in Gpus : Visited(g)' => g = at \/ Visited(g)
    <3>1. CASE pc' = "power" /\ UNCHANGED at
      BY <2>1, <3>1 DEF Visited, Gpus
    <3>2. CASE NextGpu
      BY <2>1, <3>2, LoopAssumption DEF NextGpu, Visited, Gpus
    <3>3. QED
      BY <1>2, <3>1, <3>2 DEF ReadTemp
  <2>3. QED
    BY <1>2, <2>2, ReadTempTick, Zenon DEF GpusAnnounced
<1>3. CASE CheckPower
  <2>1. pc = "power" /\ at \in Gpus /\ NextGpu
    BY <1>3 DEF CheckPower, LoopInv, Place
  <2>2. \A g \in Gpus : Visited(g)' => Visited(g)
    BY <2>1, LoopAssumption DEF NextGpu, Visited, Gpus
  <2>3. QED
    BY <1>3, <2>2, CheckPowerTick, Zenon DEF GpusAnnounced
<1>4. CASE DriveFan
  <2>1. \A g \in Gpus : Visited(g)
    BY <1>4 DEF DriveFan, Visited
  <2>2. QED
    BY <1>4, <2>1, DriveFanTick, Zenon DEF GpusAnnounced
<1>5. CASE Slam
  <2>1. \A g \in Gpus : Visited(g)
    BY <1>5 DEF Slam, Visited
  <2>2. UNCHANGED <<gpuCounter, shouldSlam>>
    BY <1>5 DEF Slam, trackerVars
  <2>3. QED
    BY <2>1, <2>2, Zenon DEF GpusAnnounced
<1>6. CASE Feed \/ Sleep
  <2>1. \A g \in Gpus : ~Visited(g)'
    BY <1>6 DEF Feed, Sleep, Visited
  <2>2. QED
    BY <2>1 DEF GpusAnnounced
<1>7. CASE World \/ Stopped \/ UNCHANGED vars
  BY <1>7, WorldFrame DEF GpusAnnounced, Visited
<1>8. QED
  BY <1>1, <1>2, <1>3, <1>4, <1>5, <1>6, <1>7 DEF Next, Loop

LEMMA PowerAnnouncedStep ==
    ASSUME LoopInv, PowerAnnounced, [Next]_vars
    PROVE  PowerAnnounced'
<1>1. CASE LoopTop
  <2>1. pc = "top" /\ pc' # "top" /\ UNCHANGED powerAge
    BY <1>1 DEF LoopTop
  <2>2. \A g \in Gpus : powerAge[g] > 0 /\ powerAge[g] # 0
    BY <2>1 DEF PowerAnnounced, LoopInv, Data
  <2>3. QED
    BY <2>1, <2>2 DEF PowerAnnounced
<1>2. CASE ReadTemp
  <2>1. Polling /\ pc' # "top"
    BY <1>2 DEF ReadTemp, NextGpu, Polling
  <2>2. QED
    BY <1>2, <2>1, ReadTempTick, Zenon DEF PowerAnnounced
<1>3. CASE CheckPower
  <2>1. Polling /\ pc' # "top"
    BY <1>3 DEF CheckPower, NextGpu, Polling
  <2>2. QED
    BY <1>3, <2>1, CheckPowerTick, Zenon DEF PowerAnnounced
<1>4. CASE DriveFan
  <2>1. Polling /\ pc' # "top"
    BY <1>4 DEF DriveFan, NextFan, Polling
  <2>2. QED
    BY <1>4, <2>1, DriveFanTick, Zenon DEF PowerAnnounced
<1>5. CASE Slam
  <2>1. Polling /\ pc' # "top"
    BY <1>5 DEF Slam, Polling
  <2>2. UNCHANGED <<powerCounter, powerAge, shouldSlam>>
    BY <1>5 DEF Slam, trackerVars
  <2>3. QED
    BY <2>1, <2>2, Zenon DEF PowerAnnounced
<1>6. CASE Feed
  BY <1>6 DEF Feed, PowerAnnounced, Polling
<1>7. CASE Sleep
  <2>1. live.poll \in Nat \ {0} /\ \A g \in Gpus : powerAge[g] \in Nat
    BY LivePoll DEF LoopInv, Data
  <2>2. \A g \in Gpus : powerAge'[g] > 0
    BY <1>7, <2>1, LoopAssumption DEF Sleep, Older
  <2>3. ~Polling'
    BY <1>7 DEF Sleep, Polling
  <2>4. QED
    BY <2>2, <2>3, Zenon DEF PowerAnnounced
<1>8. CASE World \/ Stopped \/ UNCHANGED vars
  BY <1>8, WorldFrame DEF PowerAnnounced, Polling
<1>9. QED
  BY <1>1, <1>2, <1>3, <1>4, <1>5, <1>6, <1>7, <1>8 DEF Next, Loop

-----------------------------------------------------------------------------
(* A fan's turn sets its own duty only, and a fan that takes its writes to *)
(* the target of its group.                                                *)
LEMMA DriveFanDuty ==
    ASSUME LoopInv, DriveFan
    PROVE  /\ \A f \in Fans \ {at} : fan'[f] = fan[f]
           /\ Obeys(at) => fan'[at].duty = PwmOf(Target(at))
<1>1. at \in Fans /\ fan[at] \in FanState /\ Target(at) \in Percent
  <2>1. at \in Fans
    BY DEF DriveFan, LoopInv, Place
  <2>2. QED
    BY <2>1, TargetPercent DEF LoopInv, Data
<1> DEFINE driven(fails) == Set(fan[at], Target(at), fails).fan
<1>a. PICK fails \in Failing(at), rpm \in Readings(at) :
         \E age : fan' = [fan EXCEPT ![at] = Classify(driven(fails), rpm, age).fan]
  BY Zenon DEF DriveFan
<1>2. PICK age : fan' = [fan EXCEPT ![at] = Classify(driven(fails), rpm, age).fan]
  BY <1>a
<1>3. \A f \in Fans \ {at} : fan'[f] = fan[f]
  BY <1>2 DEF LoopInv, Data
<1>4. ASSUME Obeys(at) PROVE fan'[at].duty = PwmOf(Target(at))
  <2>1. fails = "none"
    BY <1>4 DEF Obeys, Failing
  <2>2. driven("none") \in FanState /\ driven("none").duty = PwmOf(Target(at))
    BY <1>1, SetTyped, SetDuty, Zenon
  <2> HIDE DEF driven
  <2>3. Classify(driven("none"), rpm, age).fan.duty = PwmOf(Target(at))
    BY <2>2, ClassifyDuty
  <2>4. fan'[at] = Classify(driven("none"), rpm, age).fan
    BY <1>1, <1>2, <2>1 DEF LoopInv, Data
  <2>5. QED
    BY <2>3, <2>4
<1>5. QED
  BY <1>3, <1>4

(* A slam brings every fan that takes its writes to full duty.             *)
LEMMA SlamDuty ==
    ASSUME LoopInv, Slam, NEW f \in Fans, Obeys(f)
    PROVE  fan'[f].duty = IF shouldSlam THEN 255 ELSE fan[f].duty
<1>1. CASE shouldSlam
  <2>1. PICK fails \in [Fans -> Access] :
           /\ fails[f] \in Failing(f)
           /\ fan' = [h \in Fans |-> SetMax(fan[h], fails[h]).fan]
    BY <1>1, Zenon DEF Slam
  <2>2. fails[f] = "none"
    BY <2>1 DEF Failing, Obeys
  <2>3. fan[f] \in FanState
    BY DEF LoopInv, Data
  <2>4. fan'[f] = SetMax(fan[f], "none").fan
    BY <2>1, <2>2
  <2>5. QED
    BY <1>1, <2>3, <2>4, SetMaxDuty
<1>2. CASE ~shouldSlam
  <2>1. UNCHANGED fan
    BY <1>2, Zenon DEF Slam
  <2>2. QED
    BY <1>2, <2>1
<1>3. QED
  BY <1>1, <1>2

(* The targets stay what they were while a poll's readings do.             *)
LEMMA SameTarget ==
    ASSUME UNCHANGED <<temps, live>>, NEW f
    PROVE  Target(f)' = Target(f)
BY DEF Target, TargetPct, GpusOf

LEMMA FollowingStep ==
    ASSUME LoopInv, Following, [Next]_vars
    PROVE  Following'
<1>1. CASE LoopTop \/ Slam \/ Feed \/ Sleep
  <2>1. pc' \notin {"drive", "slam"}
    BY <1>1 DEF LoopTop, Slam, Feed, Sleep
  <2>2. QED
    BY <2>1 DEF Following, Driven
<1>2. CASE ReadTemp \/ CheckPower
  <2>1. pc' \in {"read", "power"} \/ (pc' = "drive" /\ at' = 1)
    BY <1>2 DEF ReadTemp, CheckPower, NextGpu
  <2>2. \A f \in Fans : ~Driven(f)'
    BY <2>1 DEF Driven, Fans
  <2>3. QED
    BY <2>2 DEF Following
<1>3. CASE DriveFan
  <2>1. pc = "drive" /\ at \in Fans /\ NextFan /\ UNCHANGED <<temps, live, condition>>
    BY <1>3 DEF DriveFan, world, LoopInv, Place
  <2>2. \A f \in Fans : Driven(f)' => f = at \/ Driven(f)
    BY <2>1, LoopAssumption DEF NextFan, Driven, Fans
  <2>3. \A f \in Fans : Obeys(f)' <=> Obeys(f)
    BY <2>1 DEF Obeys
  <2>4. \A f \in Fans : Target(f)' = Target(f)
    BY <2>1, SameTarget
  <2>5. ASSUME NEW f \in Fans, Driven(f)', Obeys(f)'
        PROVE  fan'[f].duty = PwmOf(Target(f))
    <3>1. CASE f = at
      BY <1>3, <2>3, <2>5, <3>1, DriveFanDuty, Zenon
    <3>2. CASE f # at
      <4>1. Driven(f) /\ Obeys(f)
        BY <2>2, <2>3, <2>5, <3>2
      <4>2. fan'[f] = fan[f]
        BY <1>3, <3>2, DriveFanDuty
      <4>3. QED
        BY <4>1, <4>2 DEF Following
    <3>3. QED
      BY <3>1, <3>2
  <2>6. QED
    BY <2>4, <2>5 DEF Following
<1>4. CASE World \/ Stopped \/ UNCHANGED vars
  <2>1. /\ UNCHANGED <<pc, at, temps, live>>
        /\ \A f \in Fans : fan'[f].duty = fan[f].duty /\ (Obeys(f)' => Obeys(f))
    BY <1>4, WorldFrame
  <2>2. \A f \in Fans : Target(f)' = Target(f) /\ (Driven(f)' <=> Driven(f))
    BY <2>1, SameTarget DEF Driven
  <2>3. QED
    BY <2>1, <2>2 DEF Following
<1>5. QED
  BY <1>1, <1>2, <1>3, <1>4 DEF Next, Loop

(* The target of a group honours the floor of each GPU that was read.      *)
LEMMA TargetFloor ==
    ASSUME LoopInv, NEW f \in Fans, NEW g \in GpusOf(FanGroup[f]), temps[g] # NoTemp
    PROVE  PwmOf(Target(f)) >= PwmOf(live.view[g].min)
<1>1. \A h \in GpusOf(FanGroup[f]) :
         ValidView(live.view[h]) /\ temps[h] \in Int \cup {NoTemp}
  BY ConfigAssumption, LoopAssumption DEF GpusOf, LoopInv, Data
<1>2. /\ Target(f) \in Percent
      /\ live.view[g].min <= Target(f)
  BY <1>1, TargetInBand DEF Target
<1>3. live.view[g].min \in Percent
  BY <1>1 DEF ValidView
<1>4. PwmOf(live.view[g].min) <= PwmOf(Target(f)) /\ PwmOf(live.view[g].min) \in Byte
      /\ PwmOf(Target(f)) \in Byte
  BY <1>2, <1>3, PwmIsFaithful
<1>5. QED
  BY <1>4 DEF Byte

LEMMA FloorStep ==
    ASSUME LoopInv, ReadableFloor, [Next]_vars, LoopInv', Following'
    PROVE  ReadableFloor'
<1>1. CASE LoopTop \/ ReadTemp \/ CheckPower \/ Sleep
  <2>1. pc' \notin {"slam", "feed", "sleep"}
    BY <1>1 DEF LoopTop, ReadTemp, CheckPower, NextGpu, Sleep
  <2>2. QED
    BY <2>1 DEF ReadableFloor
<1>2. CASE DriveFan
  <2>1. CASE pc' = "slam"
    <3>1. ASSUME NEW f \in Fans, NEW g \in GpusOf(FanGroup[f]), Obeys(f)', temps'[g] # NoTemp
          PROVE  fan'[f].duty >= PwmOf(live'.view[g].min)
      <4>1. fan'[f].duty = PwmOf(Target(f)')
        BY <2>1, <3>1 DEF Following, Driven
      <4>2. UNCHANGED <<temps, live>>
        BY <1>2 DEF DriveFan
      <4>3. PwmOf(Target(f)) >= PwmOf(live.view[g].min)
        BY <3>1, <4>2, TargetFloor
      <4>4. QED
        BY <4>1, <4>2, <4>3, SameTarget
    <3>2. QED
      BY <3>1 DEF ReadableFloor, GpusOf
  <2>2. CASE pc' = "drive"
    BY <2>2 DEF ReadableFloor
  <2>3. QED
    BY <1>2, <2>1, <2>2 DEF DriveFan, NextFan
<1>3. CASE Slam
  <2>1. pc = "slam" /\ UNCHANGED <<temps, live, condition>>
    BY <1>3 DEF Slam, world
  <2>2. ASSUME NEW f \in Fans, NEW g \in GpusOf(FanGroup[f]), Obeys(f), temps[g] # NoTemp
        PROVE  fan'[f].duty >= PwmOf(live.view[g].min)
    <3>1. fan[f].duty >= PwmOf(live.view[g].min)
      BY <2>1, <2>2 DEF ReadableFloor
    <3>2. 255 >= PwmOf(live.view[g].min)
      <4>1. live.view[g].min \in Percent
        BY ConfigAssumption DEF LoopInv, Data, GpusOf, ValidView
      <4>2. QED
        BY <4>1, PwmIsFaithful DEF Byte
    <3>3. QED
      BY <1>3, <2>2, <3>1, <3>2, SlamDuty
  <2>3. QED
    BY <2>1, <2>2 DEF ReadableFloor, Obeys, GpusOf
<1>4. CASE Feed
  BY <1>4 DEF Feed, world, ReadableFloor, Obeys, GpusOf
<1>5. CASE World \/ Stopped \/ UNCHANGED vars
  BY <1>5, WorldFrame DEF ReadableFloor, GpusOf
<1>6. QED
  BY <1>1, <1>2, <1>3, <1>4, <1>5 DEF Next, Loop

LEMMA MaxedStep ==
    ASSUME LoopInv, Maxed, [Next]_vars
    PROVE  Maxed'
<1>1. CASE Slam
  <2>1. UNCHANGED <<shouldSlam, condition>>
    BY <1>1 DEF Slam, world
  <2>2. \A f \in Fans : shouldSlam /\ Obeys(f) => fan'[f].duty = 255
    BY <1>1, SlamDuty
  <2>3. QED
    BY <2>1, <2>2, Zenon DEF Maxed, Obeys
<1>2. CASE LoopTop \/ ReadTemp \/ CheckPower \/ DriveFan \/ Feed \/ Sleep
  <2>1. pc' # "feed"
    BY <1>2 DEF LoopTop, ReadTemp, CheckPower, NextGpu, DriveFan, NextFan, Feed, Sleep
  <2>2. QED
    BY <2>1, Zenon DEF Maxed
<1>3. CASE World \/ Stopped \/ UNCHANGED vars
  <2>1. /\ pc' = pc /\ shouldSlam' = shouldSlam
        /\ \A f \in Fans : fan'[f].duty = fan[f].duty /\ (Obeys(f)' => Obeys(f))
    BY <1>3, WorldFrame
  <2>2. pc' = "feed" /\ shouldSlam' => pc = "feed" /\ shouldSlam
    BY <2>1, Zenon
  <2>3. ASSUME pc' = "feed" /\ shouldSlam', NEW f \in Fans, Obeys(f)'
        PROVE  fan'[f].duty = 255
    <3>1. pc = "feed" /\ shouldSlam
      BY <2>2, <2>3, Zenon
    <3>2. Obeys(f)
      BY <2>1, <2>3
    <3>3. fan[f].duty = 255
      BY <3>1, <3>2 DEF Maxed
    <3>4. QED
      BY <2>1, <3>3
  <2>4. QED
    BY <2>3, Zenon DEF Maxed
<1>4. QED
  BY <1>1, <1>2, <1>3 DEF Next, Loop

LEMMA DutyInit == Init => DutyInv
<1> SUFFICES ASSUME Init PROVE DutyInv
  OBVIOUS
<1>1. pc = "top" /\ \A g \in Gpus : powerAge[g] > 0
  BY LoopAssumption DEF Init
<1>2. GpusAnnounced /\ PowerAnnounced
  BY <1>1 DEF GpusAnnounced, Visited, PowerAnnounced, Polling
<1>3. Following /\ ReadableFloor /\ Maxed
  BY <1>1 DEF Following, Driven, ReadableFloor, Maxed
<1>4. QED
  BY <1>2, <1>3, Zenon DEF DutyInv

LEMMA DutyStep ==
    ASSUME LoopInv, DutyInv, [Next]_vars
    PROVE  DutyInv'
<1>1. LoopInv'
  BY EveryStepKeeps DEF Kept
<1>2. GpusAnnounced' /\ PowerAnnounced' /\ Following' /\ Maxed'
  BY GpusAnnouncedStep, PowerAnnouncedStep, FollowingStep, MaxedStep, Zenon DEF DutyInv
<1>3. ReadableFloor'
  BY <1>1, <1>2, FloorStep, Zenon DEF DutyInv
<1>4. QED
  BY <1>2, <1>3, Zenon DEF DutyInv

LEMMA DutyInvAlways == Spec => []DutyInv
<1>1. LoopInv /\ DutyInv /\ [Next]_vars => DutyInv'
  BY DutyStep
<1>2. QED
  BY <1>1, LoopInvAlways, DutyInit, PTL DEF Spec

(* ADR-0001: a fault of any GPU, power limit or fan that a poll declares   *)
(* has every fan of every group at full duty before the feed is decided.   *)
THEOREM FaultMaxesAll == Spec => []FaultPollMaxesAll
<1>1. ASSUME LoopInv, DutyInv PROVE FaultPollMaxesAll
  <2>1. SUFFICES ASSUME pc = "feed", shouldSlam \/ GpuFaultNow
                 PROVE  \A f \in Fans : Obeys(f) => FullDuty(f)
    BY DEF FaultPollMaxesAll
  <2>2. GpuFaultNow => shouldSlam
    BY <1>1, <2>1, Zenon DEF GpuFaultNow, DutyInv, GpusAnnounced, Visited, PowerAnnounced, Polling
  <2>3. shouldSlam
    BY <2>1, <2>2, Zenon
  <2>4. \A f \in Fans : Obeys(f) => fan[f].duty = 255
    BY <1>1, <2>1, <2>3, Zenon DEF DutyInv, Maxed
  <2>5. QED
    BY <2>4 DEF FullDuty
<1>2. QED
  BY <1>1, LoopInvAlways, DutyInvAlways, PTL

(* group.rs: once driven, the fans of a cooling group run at one duty.     *)
THEOREM GroupsMoveTogether == Spec => []GroupMovesTogether
<1>1. ASSUME DutyInv PROVE GroupMovesTogether
  BY <1>1 DEF DutyInv, Following, Driven, Target, GroupMovesTogether
<1>2. QED
  BY <1>1, DutyInvAlways, PTL

(* From its group's turn to the end of the poll no fan runs below the      *)
(* floor of a GPU of its group that was read.                              *)
THEOREM FloorsHold == Spec => []ReadableFloor
<1>1. DutyInv => ReadableFloor
  BY Zenon DEF DutyInv
<1>2. QED
  BY <1>1, DutyInvAlways, PTL
=============================================================================
