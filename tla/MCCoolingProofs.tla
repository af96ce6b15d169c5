-------------------------- MODULE MCCoolingProofs --------------------------
(***************************************************************************)
(* What the run of MCCooling checks for two GPUs and a few curves, for any *)
(* number of GPUs and all the views that validate lets pass.               *)
(***************************************************************************)
EXTENDS MCCooling, CoolingProofs

(* The views stay as configured, the readings are degrees or missing.      *)
Sound ==
    /\ \A g \in Gpus : ValidView(views[g])
    /\ temps \in [Gpus -> Int \cup {NoTemp}]

LEMMA SoundInit == Init => Sound
BY MCCoolingAssumption DEF Init, Sound

(* Every step warms one GPU or reads it again; none goes the other way.    *)
LEMMA SoundStep ==
    Sound /\ [Next]_vars =>
        /\ Sound' /\ views' = views
        /\ \A g \in Gpus : temps[g] # NoTemp => temps'[g] # NoTemp /\ temps[g] <= temps'[g]
<1> SUFFICES ASSUME Sound, [Next]_vars
             PROVE  /\ Sound' /\ views' = views
                    /\ \A g \in Gpus :
                          temps[g] # NoTemp => temps'[g] # NoTemp /\ temps[g] <= temps'[g]
  OBVIOUS
<1> USE NoTempAssumption, MCCoolingAssumption
<1>1. ASSUME NEW g \in Gpus, Warm(g)
      PROVE  /\ temps' \in [Gpus -> Int \cup {NoTemp}] /\ views' = views
             /\ \A k \in Gpus : temps[k] # NoTemp => temps'[k] # NoTemp /\ temps[k] <= temps'[k]
  BY <1>1 DEF Warm, Readable, Sound
<1>2. ASSUME NEW g \in Gpus, Answer(g)
      PROVE  /\ temps' \in [Gpus -> Int \cup {NoTemp}] /\ views' = views
             /\ \A k \in Gpus : temps[k] # NoTemp => temps'[k] # NoTemp /\ temps[k] <= temps'[k]
  <2>1. PICK d \in Temps : temps' = [temps EXCEPT ![g] = d]
    BY <1>2 DEF Answer
  <2>2. temps[g] = NoTemp /\ d \in Int /\ views' = views
    BY <1>2 DEF Answer, Readable
  <2>3. temps \in [Gpus -> Int \cup {NoTemp}]
    BY DEF Sound
  <2>4. \A k \in Gpus : temps'[k] = IF k = g THEN d ELSE temps[k]
    BY <2>1, <2>3
  <2>5. \A k \in Gpus : temps[k] # NoTemp => k # g /\ temps[k] \in Int
    BY <2>2, <2>3
  <2>6. \A k \in Gpus : temps[k] # NoTemp => temps'[k] # NoTemp /\ temps[k] <= temps'[k]
    BY <2>4, <2>5
  <2>7. QED
    BY <2>1, <2>2, <2>3, <2>6
<1>3. CASE UNCHANGED vars
  BY <1>3 DEF vars, Sound
<1>4. QED
  BY <1>1, <1>2, <1>3 DEF Next, Sound

LEMMA SoundAlways == Spec => []Sound
<1>1. Sound /\ [Next]_vars => Sound'
  BY SoundStep
<1>2. QED
  BY <1>1, SoundInit, PTL DEF Spec

(* The target lies between the highest floor and the highest ceiling of    *)
(* the GPUs that were read.                                                *)
THEOREM BandsHold == Spec => []TargetWithinBands
<1>1. Sound => TargetWithinBands
  <2> SUFFICES ASSUME Sound, Readable # {} PROVE TargetWithinBands
    BY DEF TargetWithinBands
  <2>1. /\ \A g \in Readable : views[g].min <= Target
        /\ \E g \in Readable : Target <= views[g].max
        /\ Target \in Percent
    <3>1. \A g \in Gpus : ValidView(views[g]) /\ temps[g] \in Int \cup {NoTemp}
      BY DEF Sound
    <3>2. QED
      BY <3>1, TargetInBand DEF Target, Readable
  <2>2. \A g \in Readable : views[g].min \in Percent
    BY DEF Sound, ValidView, Readable
  <2>3. \A g \in Readable : Target >= views[g].min
    <3>1. \A a, b \in Percent : a <= b => b >= a
      BY DEF Percent
    <3>2. QED
      BY <2>1, <2>2, <3>1
  <2>4. QED
    BY <2>1, <2>3 DEF TargetWithinBands
<1>2. QED
  BY <1>1, SoundAlways, PTL

(* The byte written is 0 for the target 0 only and 255 for 100 only.       *)
THEOREM EndsKept == Spec => []DutyKeepsTheEnds
<1>1. Sound => DutyKeepsTheEnds
  <2> SUFFICES ASSUME Sound PROVE DutyKeepsTheEnds
    OBVIOUS
  <2>1. Target \in Percent
    <3>1. \A g \in Gpus : ValidView(views[g]) /\ temps[g] \in Int \cup {NoTemp}
      BY DEF Sound
    <3>2. QED
      BY <3>1, TargetInBand DEF Target
  <2>2. QED
    BY <2>1, PwmIsFaithful DEF DutyKeepsTheEnds
<1>2. QED
  BY <1>1, SoundAlways, PTL

(* Every temperature between the ends of a curve has the integer part of   *)
(* the percentage on the straight line through the two points around it.   *)
THEOREM CurvesFollowed == Spec => []CurveFollowsItsPoints
<1>1. Sound => CurveFollowsItsPoints
  <2> SUFFICES ASSUME Sound, NEW g \in Readable
               PROVE  OnTheLine(views[g].curve, temps[g], Evaluate(views[g].curve, temps[g]))
    BY DEF CurveFollowsItsPoints
  <2> DEFINE points == views[g].curve
             t == temps[g]
  <2>1. points \in Seq(Int \X Percent) /\ ValidCurve(points) /\ t \in Int
    BY DEF Sound, Readable, ValidView
  <2> HIDE DEF points, t
  <2>2. ASSUME NEW i \in 1..(Len(points) - 1), points[i][1] <= t, t <= points[i + 1][1]
        PROVE  LET run  == points[i + 1][1] - points[i][1]
                   rise == points[i + 1][2] - points[i][2]
                   gap  == (t - points[i][1]) * rise - (Evaluate(points, t) - points[i][2]) * run
               IN  0 <= gap /\ gap < run
    <3>1. Within(points, i, t)
      BY <2>2 DEF Within
    <3>2. Evaluate(points, t) = Line(points, i, t)
      BY <2>1, <3>1, EvaluateIsLine
    <3>3. QED
      BY <2>1, <3>1, <3>2, LineIsFloor, Zenon
  <2>3. OnTheLine(points, t, Evaluate(points, t))
    BY <2>2, Zenon DEF OnTheLine
  <2>4. QED
    BY <2>3 DEF points, t
<1>2. QED
  BY <1>1, SoundAlways, PTL

(* No step to a warmer or to one more readable GPU slows the fans.         *)
THEOREM NeverSlower == Spec => WarmerNeverSlower
<1>1. Sound /\ [Next]_vars => [Target' >= Target]_vars
  <2> SUFFICES ASSUME Sound, [Next]_vars PROVE Target' >= Target
    OBVIOUS
  <2>1. /\ Sound' /\ views' = views
        /\ \A g \in Gpus : temps[g] # NoTemp => temps'[g] # NoTemp /\ temps[g] <= temps'[g]
    BY SoundStep
  <2>2. \A g \in Gpus : /\ ValidView(views[g])
                        /\ temps[g] \in Int \cup {NoTemp} /\ temps'[g] \in Int \cup {NoTemp}
    BY <2>1 DEF Sound
  <2>3. TargetPct(Gpus, temps, views) <= TargetPct(Gpus, temps', views)
    BY <2>1, <2>2, TargetNeverFalls
  <2>4. Target = TargetPct(Gpus, temps, views) /\ Target' = TargetPct(Gpus, temps', views)
    BY <2>1 DEF Target
  <2>5. TargetPct(Gpus, temps, views) \in Percent /\ TargetPct(Gpus, temps', views) \in Percent
    BY <2>2, TargetInBand
  <2>6. \A a, b \in Percent : a <= b => b >= a
    BY DEF Percent
  <2>7. QED
    BY <2>3, <2>4, <2>5, <2>6
<1>2. QED
  BY <1>1, SoundAlways, PTL DEF Spec, WarmerNeverSlower
=============================================================================
