------------------------ MODULE MCFaultTrackerProofs ------------------------
(***************************************************************************)
(* A fault stands exactly when a source failed for too long, for any       *)
(* number of GPUs and fans, any thresholds and histories of any length.    *)
(***************************************************************************)
EXTENDS MCFaultTracker, FaultTrackerProofs

(* A counter is the length of the run of failures its source ends with, as *)
(* far as the threshold + 1 where it stops.                                *)
Counts(c, threshold, seen) ==
    /\ c \in 0..(threshold + 1) /\ c <= Len(seen)
    /\ \A j \in (Len(seen) - c + 1)..Len(seen) : seen[j] = "bad"
    /\ c <= threshold => c = Len(seen) \/ seen[Len(seen) - c] = "good"

Outcome == {"good", "bad"}

LEMMA Longer ==
    ASSUME NEW seen \in Seq(Outcome), NEW o \in Outcome
    PROVE  /\ Append(seen, o) \in Seq(Outcome) /\ Len(seen) \in Nat
           /\ Len(Append(seen, o)) = Len(seen) + 1
           /\ \A j \in 1..Len(seen) : Append(seen, o)[j] = seen[j]
           /\ Append(seen, o)[Len(seen) + 1] = o
OBVIOUS

LEMMA GoodOutcome ==
    ASSUME NEW T \in Nat \ {0}, NEW c, NEW seen \in Seq(Outcome), Counts(c, T, seen)
    PROVE  /\ Counts(0, T, Append(seen, "good"))
           /\ TooLong(T, Append(seen, "good")) <=> TooLong(T, seen)
<1> DEFINE n == Len(seen)
           more == Append(seen, "good")
<1>1. /\ n \in Nat /\ Len(more) = n + 1 /\ more[n + 1] = "good"
      /\ \A j \in 1..n : more[j] = seen[j]
  BY Longer DEF Outcome
<1> HIDE DEF more, n
<1>2. Counts(0, T, more)
  <2>1. Len(more) - 0 = n + 1 /\ Len(more) - 0 + 1 = n + 2
    BY <1>1
  <2>2. \A j : j \notin (n + 2)..(n + 1)
    BY <1>1
  <2>3. QED
    BY <1>1, <2>1, <2>2 DEF Counts
<1>3. ASSUME NEW i \in 0..(n + 1 - T - 1), \A j \in (i + 1)..(i + T + 1) : more[j] = "bad"
      PROVE  TooLong(T, seen)
  <2>1. i + T + 1 # n + 1
    <3>1. i + T + 1 \in (i + 1)..(i + T + 1)
      BY <1>1
    <3>2. QED
      BY <1>1, <1>3, <3>1
  <2>2. i \in 0..(n - T - 1) /\ \A j \in (i + 1)..(i + T + 1) : j \in 1..n
    BY <1>1, <2>1
  <2>3. \A j \in (i + 1)..(i + T + 1) : seen[j] = "bad"
    BY <1>1, <1>3, <2>2
  <2>4. QED
    BY <2>2, <2>3 DEF TooLong, n
<1>4. ASSUME NEW i \in 0..(n - T - 1), \A j \in (i + 1)..(i + T + 1) : seen[j] = "bad"
      PROVE  TooLong(T, more)
  <2>1. i \in 0..(Len(more) - T - 1) /\ \A j \in (i + 1)..(i + T + 1) : j \in 1..n
    BY <1>1
  <2>2. \A j \in (i + 1)..(i + T + 1) : more[j] = "bad"
    BY <1>1, <1>4, <2>1
  <2>3. QED
    BY <2>1, <2>2 DEF TooLong
<1>5. TooLong(T, more) <=> TooLong(T, seen)
  <2>1. ASSUME TooLong(T, more) PROVE TooLong(T, seen)
    <3>1. PICK i \in 0..(Len(more) - T - 1) : \A j \in (i + 1)..(i + T + 1) : more[j] = "bad"
      BY <2>1, Zenon DEF TooLong
    <3>2. i \in 0..(n + 1 - T - 1)
      BY <1>1
    <3>3. QED
      BY <3>1, <3>2, <1>3
  <2>2. ASSUME TooLong(T, seen) PROVE TooLong(T, more)
    <3>1. PICK i \in 0..(n - T - 1) : \A j \in (i + 1)..(i + T + 1) : seen[j] = "bad"
      BY <2>2, Zenon DEF TooLong, n
    <3>2. QED
      BY <3>1, <1>4
  <2>3. QED
    BY <2>1, <2>2
<1>6. QED
  BY <1>2, <1>5 DEF more

LEMMA BadOutcome ==
    ASSUME NEW T \in Nat \ {0}, NEW c, NEW seen \in Seq(Outcome), Counts(c, T, seen)
    PROVE  /\ Counts(Bump(c, T), T, Append(seen, "bad"))
           /\ TooLong(T, Append(seen, "bad")) <=> TooLong(T, seen) \/ Bump(c, T) > T
<1> DEFINE n == Len(seen)
           more == Append(seen, "bad")
           d == Bump(c, T)
<1>1. /\ n \in Nat /\ Len(more) = n + 1 /\ more[n + 1] = "bad"
      /\ \A j \in 1..n : more[j] = seen[j]
  BY Longer DEF Outcome
<1>2. /\ c \in 0..(T + 1) /\ c <= n
      /\ \A j \in (n - c + 1)..n : seen[j] = "bad"
      /\ c <= T => c = n \/ seen[n - c] = "good"
  BY DEF Counts
<1>3. d \in 1..(T + 1) /\ d <= c + 1 /\ (d > T <=> c >= T) /\ (d <= T => d = c + 1)
  BY <1>2 DEF Bump
<1> HIDE DEF more, n, d
<1>4. \A j \in (n + 1 - d + 1)..(n + 1) : more[j] = "bad"
  <2> TAKE j \in (n + 1 - d + 1)..(n + 1)
  <2>1. CASE j = n + 1
    BY <1>1, <2>1
  <2>2. CASE j # n + 1
    <3>1. j \in (n - c + 1)..n /\ j \in 1..n
      BY <1>1, <1>2, <1>3, <2>2
    <3>2. QED
      BY <1>1, <1>2, <3>1
  <2>3. QED
    BY <2>1, <2>2
<1>5. d <= T => d = n + 1 \/ more[n + 1 - d] = "good"
  <2> SUFFICES ASSUME d <= T, d # n + 1 PROVE more[n + 1 - d] = "good"
    OBVIOUS
  <2>1. d = c + 1 /\ c <= T /\ c # n /\ n + 1 - d = n - c /\ n - c \in 1..n
    BY <1>1, <1>2, <1>3
  <2>2. QED
    BY <1>1, <1>2, <2>1
<1>6. Counts(d, T, more)
  <2>1. d \in 0..(T + 1) /\ d <= n + 1
    BY <1>1, <1>2, <1>3
  <2>2. QED
    BY <1>1, <1>4, <1>5, <2>1 DEF Counts
<1>7. ASSUME d > T PROVE TooLong(T, more)
  <2>1. d = T + 1 /\ n - T \in 0..(Len(more) - T - 1)
    BY <1>1, <1>2, <1>3, <1>7
  <2>2. \A j \in (n - T + 1)..(n - T + T + 1) : more[j] = "bad"
    BY <1>1, <1>4, <2>1
  <2>3. QED
    BY <2>1, <2>2 DEF TooLong
<1>8. ASSUME NEW i \in 0..(n - T - 1), \A j \in (i + 1)..(i + T + 1) : seen[j] = "bad"
      PROVE  TooLong(T, more)
  <2>1. i \in 0..(Len(more) - T - 1) /\ \A j \in (i + 1)..(i + T + 1) : j \in 1..n
    BY <1>1
  <2>2. \A j \in (i + 1)..(i + T + 1) : more[j] = "bad"
    BY <1>1, <1>8, <2>1
  <2>3. QED
    BY <2>1, <2>2 DEF TooLong
<1>9. ASSUME NEW i \in 0..(n + 1 - T - 1), \A j \in (i + 1)..(i + T + 1) : more[j] = "bad"
      PROVE  TooLong(T, seen) \/ d > T
  <2>1. CASE i + T + 1 <= n
    <3>1. i \in 0..(n - T - 1) /\ \A j \in (i + 1)..(i + T + 1) : j \in 1..n
      BY <1>1, <2>1
    <3>2. \A j \in (i + 1)..(i + T + 1) : seen[j] = "bad"
      BY <1>1, <1>9, <3>1
    <3>3. QED
      BY <3>1, <3>2 DEF TooLong, n
  <2>2. CASE i + T + 1 > n
    <3>1. i = n - T /\ n >= T
      BY <1>1, <2>2
    <3>2. ASSUME c < T PROVE FALSE
      <4>1. c # n /\ n - c \in 1..n /\ n - c \in (i + 1)..(i + T + 1)
        BY <1>1, <1>2, <3>1, <3>2
      <4>2. seen[n - c] = "good" /\ more[n - c] = seen[n - c] /\ more[n - c] = "bad"
        BY <1>1, <1>2, <1>9, <3>2, <4>1
      <4>3. QED
        BY <4>2
    <3>3. QED
      BY <1>2, <1>3, <3>2
  <2>3. QED
    BY <1>1, <2>1, <2>2
<1>10. TooLong(T, more) <=> TooLong(T, seen) \/ d > T
  <2>1. ASSUME TooLong(T, more) PROVE TooLong(T, seen) \/ d > T
    <3>1. PICK i \in 0..(Len(more) - T - 1) : \A j \in (i + 1)..(i + T + 1) : more[j] = "bad"
      BY <2>1, Zenon DEF TooLong
    <3>2. i \in 0..(n + 1 - T - 1)
      BY <1>1
    <3>3. QED
      BY <3>1, <3>2, <1>9
  <2>2. ASSUME TooLong(T, seen) PROVE TooLong(T, more)
    <3>1. PICK i \in 0..(n - T - 1) : \A j \in (i + 1)..(i + T + 1) : seen[j] = "bad"
      BY <2>2, Zenon DEF TooLong, n
    <3>2. QED
      BY <3>1, <1>8
  <2>3. QED
    BY <2>1, <2>2, <1>7
<1>11. QED
  BY <1>6, <1>10 DEF more, d

-----------------------------------------------------------------------------
Counter ==
    [s \in Sources |-> IF s[1] = "temp" THEN gpuCounter[s[2]]
                       ELSE IF s[1] = "power" THEN powerCounter[s[2]]
                       ELSE fanCounter[s[2]]]

Tracked ==
    /\ TypeOK /\ CountersLatched
    /\ outcomes \in [Sources -> Seq(Outcome)]
    /\ \A s \in Sources : Counts(Counter[s], Threshold(s), outcomes[s])
    /\ FaultExactlyOnRun

LEMMA ThresholdsPositive == \A s : Threshold(s) \in Nat \ {0}
BY ThresholdAssumption DEF Threshold

(* What every tick that is an outcome does: one counter and its history    *)
(* move together, and the latch asks that counter.                         *)
Moved(s, o) ==
    /\ \A q \in Sources \ {s} : Counter'[q] = Counter[q]
    /\ Counter'[s] = IF o = "good" THEN 0 ELSE Bump(Counter[s], Threshold(s))
    /\ anyFault' <=> anyFault \/ Counter'[s] > Threshold(s)

LEMMA TickTracked ==
    ASSUME Tracked, [Next]_trackerVars, NEW s \in Sources, NEW o \in Outcome,
           Record(s, o), Moved(s, o)
    PROVE  Tracked'
<1> DEFINE T == Threshold(s)
           seen == outcomes[s]
           more == Append(seen, o)
<1>1. TypeOK' /\ CountersLatched'
  BY TrackerStep DEF Tracked
<1>2. seen \in Seq(Outcome) /\ T \in Nat \ {0} /\ Counts(Counter[s], T, seen)
  BY ThresholdsPositive DEF Tracked
<1>3. /\ outcomes' \in [Sources -> Seq(Outcome)] /\ outcomes'[s] = more
      /\ \A q \in Sources \ {s} : outcomes'[q] = outcomes[q]
  BY <1>2, Longer DEF Record, Tracked
<1>4. /\ Counts(Counter'[s], T, more)
      /\ TooLong(T, more) <=> TooLong(T, seen) \/ Counter'[s] > T
  <2>1. CASE o = "good"
    <3>1. Counter'[s] = 0 /\ ~(0 > T)
      BY <1>2, <2>1 DEF Moved
    <3>2. Counts(0, T, more) /\ (TooLong(T, more) <=> TooLong(T, seen))
      BY <1>2, <2>1, GoodOutcome
    <3>3. QED
      BY <3>1, <3>2
  <2>2. CASE o = "bad"
    <3>1. Counter'[s] = Bump(Counter[s], T)
      BY <2>2 DEF Moved
    <3>2. /\ Counts(Bump(Counter[s], T), T, more)
          /\ TooLong(T, more) <=> TooLong(T, seen) \/ Bump(Counter[s], T) > T
      BY <1>2, <2>2, BadOutcome
    <3>3. QED
      BY <3>1, <3>2, Zenon
  <2>3. QED
    BY <2>1, <2>2 DEF Outcome
<1> HIDE DEF T, seen, more
<1>5. \A q \in Sources : Counts(Counter'[q], Threshold(q), outcomes'[q])
  <2> TAKE q \in Sources
  <2>1. CASE q = s
    BY <1>3, <1>4, <2>1 DEF T
  <2>2. CASE q # s
    BY <1>3, <2>2, Zenon DEF Tracked, Moved
  <2>3. QED
    BY <2>1, <2>2
<1>6. anyFault' <=> \E q \in Sources : TooLong(Threshold(q), outcomes'[q])
  <2>1. anyFault <=> \E q \in Sources : TooLong(Threshold(q), outcomes[q])
    BY Zenon DEF Tracked, FaultExactlyOnRun
  <2>2. /\ TooLong(Threshold(s), outcomes'[s]) <=>
               TooLong(Threshold(s), outcomes[s]) \/ Counter'[s] > Threshold(s)
        /\ \A q \in Sources \ {s} :
               TooLong(Threshold(q), outcomes'[q]) <=> TooLong(Threshold(q), outcomes[q])
    BY <1>3, <1>4, Zenon DEF T, seen
  <2>3. anyFault' <=> anyFault \/ Counter'[s] > Threshold(s)
    BY Zenon DEF Moved
  <2>4. QED
    BY <2>1, <2>2, <2>3, Zenon
<1>7. FaultExactlyOnRun'
  BY <1>6, Zenon DEF FaultExactlyOnRun, Threshold
<1>8. (\A q \in Sources : Counts(Counter[q], Threshold(q), outcomes[q]))'
  BY <1>5 DEF Threshold, Counts, Sources
<1>9. QED
  BY <1>1, <1>3, <1>7, <1>8 DEF Tracked, Sources

LEMMA TempMoves ==
    ASSUME Tracked, NEW g \in Gpus, NEW ok \in BOOLEAN, TickGpu(g, ok)
    PROVE  Moved(<<"temp", g>>, Found(ok))
<1> DEFINE s == <<"temp", g>>
<1>1. gpuCounter' = [gpuCounter EXCEPT ![g] = IF ok THEN 0 ELSE Bump(@, GpuThreshold)]
      /\ powerCounter' = powerCounter /\ fanCounter' = fanCounter
  BY DEF TickGpu
<1>2. DOMAIN gpuCounter = Gpus
  BY DEF Tracked, TypeOK
<1>3. s \in Sources /\ Threshold(s) = GpuThreshold
  BY DEF Sources, Threshold
<1>4. ASSUME NEW q \in Sources \ {s} PROVE Counter'[q] = Counter[q]
  <2>1. q[1] = "temp" => q[2] \in Gpus /\ q[2] # g
    BY DEF Sources
  <2>2. QED
    BY <1>1, <1>2, <2>1 DEF Counter, Sources
<1>5. Counter'[s] = gpuCounter'[g] /\ Counter[s] = gpuCounter[g]
  BY <1>3 DEF Counter, Sources
<1>6. gpuCounter'[g] = IF Found(ok) = "good" THEN 0 ELSE Bump(gpuCounter[g], GpuThreshold)
  BY <1>1, <1>2 DEF Found
<1>7. anyFault' <=> anyFault \/ gpuCounter'[g] > GpuThreshold
  BY Zenon DEF TickGpu
<1> HIDE DEF s
<1>8. Moved(s, Found(ok))
  BY <1>3, <1>4, <1>5, <1>6, <1>7, Zenon DEF Moved
<1>9. QED
  BY <1>8 DEF s

LEMMA PowerMoves ==
    ASSUME Tracked, NEW g \in Gpus, NEW ok \in BOOLEAN, TickGpuPower(g, ok)
    PROVE  Moved(<<"power", g>>, Found(ok))
<1> DEFINE s == <<"power", g>>
<1>1. powerCounter' = [powerCounter EXCEPT ![g] = IF ok THEN 0 ELSE Bump(@, GpuThreshold)]
      /\ gpuCounter' = gpuCounter /\ fanCounter' = fanCounter
  BY DEF TickGpuPower
<1>2. DOMAIN powerCounter = Gpus
  BY DEF Tracked, TypeOK
<1>3. s \in Sources /\ Threshold(s) = GpuThreshold
  BY DEF Sources, Threshold
<1>4. ASSUME NEW q \in Sources \ {s} PROVE Counter'[q] = Counter[q]
  <2>1. q[1] = "power" => q[2] \in Gpus /\ q[2] # g
    BY DEF Sources
  <2>2. QED
    BY <1>1, <1>2, <2>1 DEF Counter, Sources
<1>5. Counter'[s] = powerCounter'[g] /\ Counter[s] = powerCounter[g]
  BY <1>3 DEF Counter, Sources
<1>6. powerCounter'[g] = IF Found(ok) = "good" THEN 0 ELSE Bump(powerCounter[g], GpuThreshold)
  BY <1>1, <1>2 DEF Found
<1>7. anyFault' <=> anyFault \/ powerCounter'[g] > GpuThreshold
  BY Zenon DEF TickGpuPower
<1> HIDE DEF s
<1>8. Moved(s, Found(ok))
  BY <1>3, <1>4, <1>5, <1>6, <1>7, Zenon DEF Moved
<1>9. QED
  BY <1>8 DEF s

LEMMA FanMoves ==
    ASSUME Tracked, NEW f \in Fans, NEW health \in Health \ {"SpinUp"}, TickFan(f, health)
    PROVE  Moved(<<"fan", f>>, Found(health = "Ok"))
<1> DEFINE s == <<"fan", f>>
<1>1. fanCounter' = [fanCounter EXCEPT ![f] =
                        IF health = "Ok" THEN 0 ELSE Bump(@, FanThreshold)]
      /\ gpuCounter' = gpuCounter /\ powerCounter' = powerCounter
  BY DEF TickFan, Health
<1>2. DOMAIN fanCounter = Fans
  BY DEF Tracked, TypeOK
<1>3. s \in Sources /\ Threshold(s) = FanThreshold
  BY DEF Sources, Threshold
<1>4. ASSUME NEW q \in Sources \ {s} PROVE Counter'[q] = Counter[q]
  <2>1. q[1] \notin {"temp", "power"} => q[2] \in Fans /\ q[2] # f
    BY DEF Sources
  <2>2. QED
    BY <1>1, <1>2, <2>1 DEF Counter, Sources
<1>5. Counter'[s] = fanCounter'[f] /\ Counter[s] = fanCounter[f]
  BY <1>3 DEF Counter, Sources
<1>6. /\ fanCounter'[f] = IF Found(health = "Ok") = "good" THEN 0
                          ELSE Bump(fanCounter[f], FanThreshold)
      /\ health = "Ok" => ~(fanCounter'[f] > FanThreshold)
  BY <1>1, <1>2, ThresholdAssumption DEF Found
<1>7. anyFault' <=> anyFault \/ fanCounter'[f] > FanThreshold
  <2>1. health = "Ok" \/ health \in Faulty
    BY DEF Health, Faulty
  <2>2. QED
    BY <1>6, <2>1, Zenon DEF TickFan, Faulty
<1> HIDE DEF s
<1>8. Moved(s, Found(health = "Ok"))
  BY <1>3, <1>4, <1>5, <1>6, <1>7, Zenon DEF Moved
<1>9. QED
  BY <1>8 DEF s

LEMMA TrackedStep == Tracked /\ [MCNext]_vars => Tracked'
<1> SUFFICES ASSUME Tracked, [MCNext]_vars PROVE Tracked'
  OBVIOUS
<1>1. \A b : Found(b) \in Outcome
  BY DEF Found, Outcome
<1>2. ASSUME NEW g \in Gpus, NEW ok \in BOOLEAN,
             TickGpu(g, ok) /\ Record(<<"temp", g>>, Found(ok))
      PROVE  Tracked'
  <2>1. <<"temp", g>> \in Sources /\ [Next]_trackerVars
    BY <1>2 DEF Sources, Next
  <2>2. QED
    BY <1>1, <1>2, <2>1, TempMoves, TickTracked
<1>3. ASSUME NEW g \in Gpus, NEW ok \in BOOLEAN,
             TickGpuPower(g, ok) /\ Record(<<"power", g>>, Found(ok))
      PROVE  Tracked'
  <2>1. <<"power", g>> \in Sources /\ [Next]_trackerVars
    BY <1>3 DEF Sources, Next
  <2>2. QED
    BY <1>1, <1>3, <2>1, PowerMoves, TickTracked
<1>4. ASSUME NEW f \in Fans, NEW health \in Health \ {"SpinUp"},
             TickFan(f, health) /\ Record(<<"fan", f>>, Found(health = "Ok"))
      PROVE  Tracked'
  <2>1. <<"fan", f>> \in Sources /\ [Next]_trackerVars
    BY <1>4 DEF Sources, Next
  <2>2. QED
    BY <1>1, <1>4, <2>1, FanMoves, TickTracked
<1>5. CASE UNCHANGED <<gpuCounter, powerCounter, fanCounter, anyFault, outcomes>>
  <2>1. TypeOK' /\ CountersLatched'
    BY <1>5 DEF Tracked, TypeOK, CountersLatched
  <2>2. Counter' = Counter /\ outcomes' = outcomes /\ anyFault' = anyFault
    BY <1>5 DEF Counter
  <2>3. FaultExactlyOnRun'
    BY <2>2, Zenon DEF Tracked, FaultExactlyOnRun, Threshold
  <2>4. (\A s \in Sources : Counts(Counter[s], Threshold(s), outcomes[s]))'
    BY <2>2 DEF Tracked, Threshold, Counts, Sources
  <2>5. QED
    BY <2>1, <2>2, <2>3, <2>4 DEF Tracked, Sources
<1>6. ASSUME NEW f \in Fans, TickFan(f, "SpinUp") /\ UNCHANGED outcomes PROVE Tracked'
  <2>1. fanCounter' = fanCounter
    BY <1>6 DEF TickFan, Tracked, TypeOK
  <2>2. anyFault' <=> anyFault
    BY <1>6, Zenon DEF TickFan, Faulty
  <2>3. anyFault \in BOOLEAN /\ anyFault' \in BOOLEAN
    BY <1>6, Zenon DEF TickFan, Tracked, TypeOK
  <2>4. UNCHANGED <<gpuCounter, powerCounter, fanCounter, anyFault, outcomes>>
    BY <1>6, <2>1, <2>2, <2>3 DEF TickFan
  <2>5. QED
    BY <1>5, <2>4
<1>7. QED
  BY <1>2, <1>3, <1>4, <1>5, <1>6 DEF MCNext, vars

LEMMA TrackedInit == MCInit => Tracked
<1> SUFFICES ASSUME MCInit PROVE Tracked
  OBVIOUS
<1>1. TypeOK /\ CountersLatched
  BY TrackerInit DEF MCInit
<1>2. outcomes \in [Sources -> Seq(Outcome)] /\ \A s \in Sources : outcomes[s] = <<>>
  BY DEF MCInit
<1>3. \A s \in Sources : Counter[s] = 0
  BY DEF MCInit, Init, Counter, Sources
<1>4. \A T \in Nat \ {0} : Counts(0, T, <<>>) /\ ~TooLong(T, <<>>)
  <2> TAKE T \in Nat \ {0}
  <2>1. Len(<<>>) = 0
    OBVIOUS
  <2>2. \A i : i \notin 0..(0 - T - 1) /\ i \notin 1..0
    OBVIOUS
  <2>3. QED
    BY <2>1, <2>2 DEF Counts, TooLong
<1>5. \A s \in Sources : Counts(Counter[s], Threshold(s), outcomes[s])
                         /\ ~TooLong(Threshold(s), outcomes[s])
  BY <1>2, <1>3, <1>4, ThresholdsPositive
<1>6. ~anyFault
  BY Zenon DEF MCInit, Init
<1>7. QED
  BY <1>1, <1>2, <1>5, <1>6 DEF Tracked, FaultExactlyOnRun

(* The latch is set exactly when some source failed more often in a row    *)
(* than its threshold allows, spin-ups left out.                           *)
THEOREM ExactlyOnRun == MCSpec => []FaultExactlyOnRun
<1>1. Tracked => FaultExactlyOnRun
  BY DEF Tracked
<1>2. QED
  BY <1>1, TrackedInit, TrackedStep, PTL DEF MCSpec
=============================================================================
