---------------------------- MODULE CoolingProofs ----------------------------
(***************************************************************************)
(* The duty arithmetic for every curve and band the configuration admits   *)
(* and every temperature.                                                  *)
(***************************************************************************)
EXTENDS Cooling, WellFoundedInduction, TLAPS

(* Least elements, from the well-foundedness of < on the naturals.         *)
LEMMA LeastNatural ==
    ASSUME NEW T \in SUBSET Nat, T # {}
    PROVE  \E m \in T : \A n \in T : m <= n
<1>1. \E m \in T : \A n \in T : <<n, m>> \notin OpToRel(<, Nat)
  BY NatLessThanWellFounded, WFMin, Zenon
<1>2. PICK m \in T : \A n \in T : <<n, m>> \notin OpToRel(<, Nat)
  BY <1>1
<1>3. \A n \in T : ~(n < m)
  BY <1>2 DEF OpToRel
<1>4. QED
  BY <1>3

LEMMA PercentOrder ==
    \A a, b, c \in Percent : a \in Int /\ a <= a /\ (a <= b /\ b <= c => a <= c)
BY DEF Percent

(* A set of percentages has its maximum.                                   *)
LEMMA MaxPercent ==
    ASSUME NEW S \in SUBSET Percent, S # {}
    PROVE  Max(S) \in S /\ \A x \in S : x <= Max(S)
<1> DEFINE gaps == {n \in Nat : \E x \in S : n = 100 - x}
<1>1. gaps # {}
  <2>1. PICK x \in S : TRUE
    OBVIOUS
  <2>2. 100 - x \in gaps
    BY <2>1 DEF Percent
  <2>3. QED
    BY <2>2
<1>2. PICK m \in gaps : \A n \in gaps : m <= n
  BY <1>1, LeastNatural
<1>3. PICK y \in S : m = 100 - y
  BY <1>2
<1>4. \A x \in S : y >= x
  <2> TAKE x \in S
  <2>1. 100 - x \in gaps
    BY DEF Percent
  <2>2. m <= 100 - x
    BY <1>2, <2>1
  <2>3. QED
    BY <1>3, <2>2 DEF Percent
<1>5. QED
  BY <1>4 DEF Max, Percent

(* Pwm::from maps percentages into a byte without overflow, keeps their    *)
(* order, and reaches 0 and 255 only at the ends of the scale.             *)
THEOREM PwmIsFaithful ==
    \A p, q \in Percent :
        /\ PwmOf(p) \in Byte
        /\ p <= q => PwmOf(p) <= PwmOf(q)
        /\ (PwmOf(p) = 0 <=> p = 0) /\ (PwmOf(p) = 255 <=> p = 100)
<1> TAKE p, q \in Percent
<1>1. \A x \in Percent : /\ (x * 255) \div 100 \in Byte
                         /\ PwmOf(x) = (x * 255) \div 100
  BY DEF Percent, Byte, PwmOf
<1>2. PwmOf(p) \in Byte
  BY <1>1
<1>3. p <= q => PwmOf(p) <= PwmOf(q)
  BY <1>1 DEF Percent
<1>4. (PwmOf(p) = 0 <=> p = 0) /\ (PwmOf(p) = 255 <=> p = 100)
  BY <1>1 DEF Percent
<1>5. QED
  BY <1>2, <1>3, <1>4

(* A temperature strictly inside a curve has a first window holding it:    *)
(* the loop of Curve::evaluate never falls through.                        *)
LEMMA FirstWindow ==
    ASSUME NEW points \in Seq(Int \X Percent), ValidCurve(points), NEW temp \in Int,
           points[1][1] < temp, temp < points[Len(points)][1]
    PROVE  \E j \in 1..(Len(points) - 1) :
              /\ points[j][1] <= temp /\ temp <= points[j + 1][1]
              /\ \A k \in 1..(j - 1) : points[k + 1][1] < temp
<1> DEFINE n == Len(points)
           above == {i \in 1..n : temp <= points[i][1]}
<1>1. n \in 2..10 /\ \A i \in 1..n : points[i][1] \in Int
  BY DEF ValidCurve, MinPoints, MaxPoints
<1>2. above \in SUBSET Nat /\ above # {}
  BY <1>1
<1>3. PICK m \in above : \A i \in above : m <= i
  BY <1>2, LeastNatural
<1>4. m # 1
  BY <1>1
<1>5. m - 1 \in 1..(n - 1) /\ points[m - 1][1] < temp
  <2>1. m \in 2..n
    BY <1>1, <1>3, <1>4
  <2>2. m - 1 \in 1..n /\ m - 1 \notin above
    BY <1>1, <1>3, <2>1
  <2>3. ~(temp <= points[m - 1][1])
    BY <2>2
  <2>4. points[m - 1][1] \in Int
    BY <1>1, <2>2
  <2>5. QED
    BY <1>1, <2>1, <2>3, <2>4
<1>6. \A k \in 1..((m - 1) - 1) : points[k + 1][1] < temp
  BY <1>1, <1>3
<1>7. temp <= points[(m - 1) + 1][1]
  BY <1>3, <1>5
<1>8. WITNESS m - 1 \in 1..(n - 1)
<1>9. QED
  BY <1>5, <1>6, <1>7

(* Interpolating between two neighbouring points stays between their       *)
(* percentages.                                                            *)
LEMMA BetweenTwoPoints ==
    ASSUME NEW t0 \in Int, NEW t1 \in Int, NEW temp \in Int,
           NEW p0 \in Percent, NEW p1 \in Percent,
           t0 < t1, p0 <= p1, t0 <= temp, temp <= t1
    PROVE  LET value == p0 + ((temp - t0) * (p1 - p0)) \div (t1 - t0)
           IN  value \in Percent /\ p0 <= value /\ value <= p1
<1> DEFINE offset == temp - t0
           span == t1 - t0
           rise == p1 - p0
           share == (offset * rise) \div span
<1>1. rise \in Nat /\ offset \in Nat /\ span \in Nat \ {0} /\ offset <= span
  BY DEF Percent
<1>2. share \in Nat /\ share <= rise
  <2> HIDE DEF rise, offset, span
  <2>1. offset * rise \in Nat /\ offset * rise <= span * rise
    BY <1>1
  <2>2. share \in Nat /\ span * share <= offset * rise
    BY <1>1, <2>1
  <2>3. span * share <= span * rise
    BY <1>1, <2>1, <2>2
  <2>4. QED
    BY <1>1, <2>2, <2>3
<1>3. QED
  <2> HIDE DEF share
  <2>1. p0 + share \in Percent /\ p0 <= p0 + share /\ p0 + share <= p1
    BY <1>2 DEF Percent
  <2>2. QED
    BY <2>1 DEF share

-----------------------------------------------------------------------------
(* The shape of a curve.  Line is the interpolation in one given window.   *)
Within(points, i, temp) == points[i][1] <= temp /\ temp <= points[i + 1][1]

Line(points, i, temp) ==
    points[i][2] + ((temp - points[i][1]) * (points[i + 1][2] - points[i][2]))
                       \div (points[i + 1][1] - points[i][1])

LEMMA PointTypes ==
    ASSUME NEW points \in Seq(Int \X Percent), ValidCurve(points)
    PROVE  /\ Len(points) \in 2..10
           /\ \A i \in 1..Len(points) : points[i][1] \in Int /\ points[i][2] \in Percent
           /\ \A i \in 1..(Len(points) - 1) :
                 /\ i \in 1..Len(points) /\ i + 1 \in 1..Len(points)
                 /\ points[i][1] < points[i + 1][1] /\ points[i][2] <= points[i + 1][2]
BY DEF ValidCurve, MinPoints, MaxPoints

(* Curve::new compares neighbours only; that orders all the points.        *)
LEMMA CurveRises ==
    ASSUME NEW points \in Seq(Int \X Percent), ValidCurve(points),
           NEW a \in 1..Len(points), NEW b \in 1..Len(points), a < b
    PROVE  points[a][1] < points[b][1] /\ points[a][2] <= points[b][2]
<1> DEFINE n == Len(points)
           Above(k) == points[a][1] < points[k][1] /\ points[a][2] <= points[k][2]
           wrong == {k \in (a + 1)..n : ~Above(k)}
<1>1. n \in 2..10
  BY PointTypes
<1>2. ASSUME NEW m \in wrong, \A k \in wrong : m <= k PROVE FALSE
  <2>1. m \in (a + 1)..n /\ ~Above(m) /\ m - 1 \in 1..(n - 1)
    BY <1>1, <1>2
  <2>2. /\ m - 1 \in 1..n /\ points[m - 1][1] < points[m][1]
        /\ points[m - 1][2] <= points[m][2]
    <3>1. (m - 1) + 1 = m
      BY <1>1, <2>1
    <3>2. /\ m - 1 \in 1..n /\ points[m - 1][1] < points[(m - 1) + 1][1]
          /\ points[m - 1][2] <= points[(m - 1) + 1][2]
      BY <2>1, PointTypes, Zenon
    <3>3. QED
      BY <3>1, <3>2
  <2>3. m - 1 # a
    BY <2>1, <2>2
  <2>4. m - 1 \in (a + 1)..n /\ m - 1 \notin wrong
    BY <1>1, <1>2, <2>1, <2>3
  <2>5. Above(m - 1)
    BY <2>4
  <2>6. /\ points[a][1] \in Int /\ points[m - 1][1] \in Int /\ points[m][1] \in Int
        /\ points[a][2] \in Int /\ points[m - 1][2] \in Int /\ points[m][2] \in Int
    <3>1. m \in 1..n
      BY <1>1, <2>1
    <3>2. \A k \in 1..n : points[k][1] \in Int /\ points[k][2] \in Int
      <4>1. \A x \in Percent : x \in Int
        BY DEF Percent
      <4>2. QED
        BY <4>1, PointTypes
    <3>3. QED
      BY <2>2, <3>1, <3>2
  <2>7. QED
    BY <2>1, <2>2, <2>5, <2>6
<1>3. wrong = {}
  <2>1. wrong \in SUBSET Nat
    BY <1>1
  <2> HIDE DEF wrong
  <2>2. QED
    BY <1>2, <2>1, LeastNatural
<1>4. b \in (a + 1)..n
  BY <1>1
<1>5. QED
  BY <1>3, <1>4

LEMMA LineAtEnds ==
    ASSUME NEW points \in Seq(Int \X Percent), ValidCurve(points),
           NEW i \in 1..(Len(points) - 1)
    PROVE  /\ Line(points, i, points[i][1]) = points[i][2]
           /\ Line(points, i, points[i + 1][1]) = points[i + 1][2]
<1> DEFINE t0 == points[i][1]
           t1 == points[i + 1][1]
           p0 == points[i][2]
           p1 == points[i + 1][2]
<1>1. /\ t0 \in Int /\ t1 \in Int /\ t0 < t1
      /\ p0 \in Int /\ p1 \in Int /\ p0 <= p1
  <2>1. t0 \in Int /\ t1 \in Int /\ t0 < t1 /\ p0 \in Percent /\ p1 \in Percent /\ p0 <= p1
    BY PointTypes
  <2> HIDE DEF t0, t1, p0, p1
  <2>2. QED
    BY <2>1 DEF Percent
<1> DEFINE run == t1 - t0
           rise == p1 - p0
<1>2. run \in Nat \ {0} /\ rise \in Nat
  <2> HIDE DEF t0, t1, p0, p1
  <2>1. QED
    BY <1>1
<1>3. 0 * rise = 0 /\ 0 \div run = 0 /\ (run * rise) \div run = rise
  <2> HIDE DEF run, rise
  <2>1. 0 * rise = 0 /\ 0 \div run = 0
    BY <1>2
  <2>2. (run * rise) \div run = rise
    BY <1>2, SMTT(30)
  <2>3. QED
    BY <2>1, <2>2
<1>4. t0 - t0 = 0 /\ p0 + 0 = p0 /\ p0 + rise = p1
  BY <1>1
<1>5. /\ Line(points, i, t0) = p0 + ((t0 - t0) * rise) \div run
      /\ Line(points, i, t1) = p0 + (run * rise) \div run
  BY DEF Line
<1> HIDE DEF t0, t1, p0, p1, run, rise
<1>6. Line(points, i, t0) = p0 /\ Line(points, i, t1) = p1
  BY <1>3, <1>4, <1>5
<1>7. QED
  BY <1>6 DEF t0, t1, p0, p1

LEMMA LineBetween ==
    ASSUME NEW points \in Seq(Int \X Percent), ValidCurve(points),
           NEW i \in 1..(Len(points) - 1), NEW temp \in Int, Within(points, i, temp)
    PROVE  /\ Line(points, i, temp) \in Percent
           /\ points[i][2] <= Line(points, i, temp) /\ Line(points, i, temp) <= points[i + 1][2]
<1>1. /\ points[i][1] \in Int /\ points[i + 1][1] \in Int /\ points[i][1] < points[i + 1][1]
      /\ points[i][2] \in Percent /\ points[i + 1][2] \in Percent
      /\ points[i][2] <= points[i + 1][2]
  BY PointTypes
<1>2. QED
  BY <1>1, BetweenTwoPoints, Zenon DEF Line, Within

(* What Curve::evaluate computes, in whichever window the temperature is.  *)
LEMMA EvaluateInside ==
    ASSUME NEW points \in Seq(Int \X Percent), ValidCurve(points), NEW temp \in Int,
           points[1][1] < temp, temp < points[Len(points)][1]
    PROVE  \E i \in 1..(Len(points) - 1) :
              Within(points, i, temp) /\ Evaluate(points, temp) = Line(points, i, temp)
<1> DEFINE n == Len(points)
           Window(j) == /\ points[j][1] <= temp /\ temp <= points[j + 1][1]
                        /\ \A k \in 1..(j - 1) : points[k + 1][1] < temp
           i == CHOOSE j \in 1..(n - 1) : Window(j)
<1>1. i \in 1..(n - 1) /\ Window(i)
  <2>1. \E j \in 1..(n - 1) : Window(j)
    BY FirstWindow
  <2>2. QED
    BY <2>1, Zenon
<1>2. Within(points, i, temp)
  BY <1>1, Zenon DEF Within
<1>3. Evaluate(points, temp) = Line(points, i, temp)
  <2>1. points[1][1] \in Int /\ points[n][1] \in Int
    BY PointTypes
  <2>2. ~(temp <= points[1][1]) /\ ~(temp >= points[n][1])
    BY <2>1
  <2>3. Evaluate(points, temp) = Interpolate(points, temp)
    BY <2>2, Zenon DEF Evaluate
  <2>4. Interpolate(points, temp) = Line(points, i, temp)
    BY Zenon DEF Interpolate, Line
  <2>5. QED
    BY <2>3, <2>4
<1> HIDE DEF i
<1>4. QED
  BY <1>1, <1>2, <1>3

(* Curve::evaluate answers a percentage at every temperature.              *)
LEMMA EvaluatePercent ==
    ASSUME NEW points \in Seq(Int \X Percent), ValidCurve(points), NEW temp \in Int
    PROVE  Evaluate(points, temp) \in Percent
<1> DEFINE n == Len(points)
<1>1. /\ n \in 2..10
      /\ \A i \in 1..n : points[i][1] \in Int /\ points[i][2] \in Percent
  BY PointTypes
<1>2. CASE temp <= points[1][1]
  BY <1>1, <1>2 DEF Evaluate
<1>3. CASE ~(temp <= points[1][1]) /\ temp >= points[n][1]
  BY <1>1, <1>3 DEF Evaluate
<1>4. CASE points[1][1] < temp /\ temp < points[n][1]
  BY <1>4, EvaluateInside, LineBetween
<1>5. QED
  BY <1>1, <1>2, <1>3, <1>4

(* In whichever window a temperature is, on a configured point too, the    *)
(* answer is the integer part of the point on that window's line.          *)
LEMMA EvaluateIsLine ==
    ASSUME NEW points \in Seq(Int \X Percent), ValidCurve(points), NEW temp \in Int,
           NEW i \in 1..(Len(points) - 1), Within(points, i, temp)
    PROVE  Evaluate(points, temp) = Line(points, i, temp)
<1> DEFINE n == Len(points)
<1>0. n \in 2..10 /\ i \in 1..n /\ i + 1 \in 1..n /\ \A k \in 1..n : points[k][1] \in Int
  BY PointTypes
<1>1. /\ n \in 2..10 /\ i \in 1..n /\ i + 1 \in 1..n /\ 1 \in 1..n /\ n \in 1..n
      /\ \A k \in 1..n : points[k][1] \in Int
  <2> HIDE DEF n
  <2>1. QED
    BY <1>0
<1>2. points[i][1] <= temp /\ temp <= points[i + 1][1]
  BY DEF Within
<1>3. CASE temp <= points[1][1]
  <2>1. i = 1
    <3>1. ASSUME 1 < i PROVE FALSE
      <4>1. points[1][1] < points[i][1]
        BY <1>1, <3>1, CurveRises
      <4>2. QED
        BY <1>1, <1>2, <1>3, <4>1
    <3>2. QED
      BY <3>1
  <2>2. temp = points[1][1]
    BY <1>1, <1>2, <1>3, <2>1
  <2>3. Evaluate(points, temp) = points[1][2]
    BY <1>3, Zenon DEF Evaluate
  <2>4. Line(points, 1, points[1][1]) = points[1][2]
    BY <2>1, LineAtEnds
  <2>5. QED
    BY <2>1, <2>2, <2>3, <2>4
<1>4. CASE ~(temp <= points[1][1]) /\ temp >= points[n][1]
  <2>1. i + 1 = n
    <3>1. ASSUME i + 1 < n PROVE FALSE
      <4>1. n \in 1..n
        BY <1>1
      <4>2. points[i + 1][1] < points[n][1]
        BY <1>1, <3>1, <4>1, CurveRises
      <4>3. points[i + 1][1] \in Int /\ points[n][1] \in Int
        BY <1>1, <4>1
      <4>4. QED
        BY <1>2, <1>4, <4>2, <4>3
    <3>2. QED
      BY <1>1, <3>1
  <2>2. temp = points[i + 1][1]
    <3>1. points[n][1] \in Int
      BY <1>1
    <3>2. QED
      BY <1>2, <1>4, <2>1, <3>1
  <2>3. Evaluate(points, temp) = points[i + 1][2]
    BY <1>4, <2>1, Zenon DEF Evaluate
  <2>4. Line(points, i, points[i + 1][1]) = points[i + 1][2]
    BY LineAtEnds
  <2>5. QED
    BY <2>2, <2>3, <2>4
<1>5. CASE points[1][1] < temp /\ temp < points[n][1]
  <2>1. PICK j \in 1..(n - 1) :
            Within(points, j, temp) /\ Evaluate(points, temp) = Line(points, j, temp)
    BY <1>5, EvaluateInside
  <2>2. /\ j \in 1..n /\ j + 1 \in 1..n
        /\ points[j][1] <= temp /\ temp <= points[j + 1][1]
    BY <2>1, PointTypes DEF Within
  <2>3. CASE j = i
    BY <2>1, <2>3
  <2>4. ASSUME NEW a \in 1..(n - 1), NEW b \in 1..(n - 1), a < b,
               Within(points, a, temp), Within(points, b, temp)
        PROVE  Line(points, a, temp) = Line(points, b, temp)
    <3>1. /\ a \in 1..n /\ a + 1 \in 1..n /\ b \in 1..n
          /\ temp <= points[a + 1][1] /\ points[b][1] <= temp
      BY <2>4, PointTypes DEF Within
    <3>2. b = a + 1
      <4>1. ASSUME a + 1 < b PROVE FALSE
        <5>1. points[a + 1][1] < points[b][1]
          BY <3>1, <4>1, CurveRises
        <5>2. points[a + 1][1] \in Int /\ points[b][1] \in Int
          BY <1>1, <3>1
        <5>3. \A x, y, z \in Int : x < y /\ y <= z => ~(z <= x)
          OBVIOUS
        <5>4. QED
          BY <3>1, <5>1, <5>2, <5>3, Zenon
      <4>2. QED
        BY <1>1, <2>4, <4>1
    <3>3. temp = points[a + 1][1]
      BY <1>1, <3>1, <3>2
    <3>4. Line(points, a, temp) = points[a + 1][2]
      BY <3>3, LineAtEnds
    <3>5. Line(points, b, temp) = points[b][2]
      BY <3>2, <3>3, LineAtEnds
    <3>6. QED
      BY <3>2, <3>4, <3>5
  <2>5. CASE j < i
    BY <2>1, <2>4, <2>5
  <2>6. CASE i < j
    BY <2>1, <2>4, <2>6
  <2>7. QED
    <3>1. i \in Int /\ j \in Int
      BY <1>1, <2>2
    <3>2. j = i \/ j < i \/ i < j
      BY <3>1
    <3>3. QED
      BY <2>3, <2>5, <2>6, <3>2
<1>6. QED
  <2>1. points[1][1] \in Int /\ points[n][1] \in Int
    BY <1>1
  <2>2. QED
    BY <1>3, <1>4, <1>5, <2>1

LEMMA QuotientRises ==
    ASSUME NEW a \in Nat, NEW b \in Nat, a <= b, NEW d \in Nat \ {0}
    PROVE  a \div d <= b \div d /\ a \div d \in Int /\ b \div d \in Int
<1> DEFINE x == a \div d
           y == b \div d
<1>1. x \in Nat /\ y \in Nat /\ d * x <= a /\ b < d * y + d
  OBVIOUS
<1> HIDE DEF x, y
<1>2. ASSUME y < x PROVE FALSE
  <2>1. PICK z \in Nat : x = y + 1 + z
    <3>1. x - y - 1 \in Nat /\ x = y + 1 + (x - y - 1)
      BY <1>1, <1>2
    <3>2. QED
      BY <3>1
  <2>2. d * x = d * y + d + d * z /\ d * z \in Nat /\ d * y \in Nat
    BY <1>1, <2>1
  <2> DEFINE dy == d * y
             dz == d * z
             dx == d * x
  <2>3. dx = dy + d + dz /\ dz \in Nat /\ dy \in Nat /\ dx <= a /\ b < dy + d
    BY <1>1, <2>2
  <2> HIDE DEF dx, dy, dz
  <2>4. QED
    BY <2>3
<1>3. QED
  BY <1>1, <1>2 DEF x, y

(* Within one window a warmer GPU gets no less.                            *)
LEMMA LineRises ==
    ASSUME NEW points \in Seq(Int \X Percent), ValidCurve(points),
           NEW i \in 1..(Len(points) - 1), NEW s \in Int, NEW t \in Int, s <= t,
           Within(points, i, s), Within(points, i, t)
    PROVE  Line(points, i, s) <= Line(points, i, t)
<1> DEFINE t0 == points[i][1]
           t1 == points[i + 1][1]
           p0 == points[i][2]
           p1 == points[i + 1][2]
<1>1. t0 \in Int /\ t1 \in Int /\ t0 < t1 /\ p0 \in Percent /\ p1 \in Percent /\ p0 <= p1
  BY PointTypes
<1>2. t0 <= s /\ t0 <= t
  BY DEF Within
<1>3. /\ Line(points, i, s) = p0 + ((s - t0) * (p1 - p0)) \div (t1 - t0)
      /\ Line(points, i, t) = p0 + ((t - t0) * (p1 - p0)) \div (t1 - t0)
  BY DEF Line
<1> HIDE DEF t0, t1, p0, p1
<1> DEFINE run == t1 - t0
           rise == p1 - p0
           low == (s - t0) * rise
           high == (t - t0) * rise
<1>4. /\ run \in Nat \ {0} /\ rise \in Nat /\ p0 \in Int
      /\ s - t0 \in Nat /\ t - t0 \in Nat /\ s - t0 <= t - t0
  BY <1>1, <1>2 DEF Percent
<1>5. low \in Nat /\ high \in Nat /\ low <= high
  <2>1. \A a, b, r \in Nat : a <= b => a * r \in Nat /\ b * r \in Nat /\ a * r <= b * r
    OBVIOUS
  <2> HIDE DEF rise
  <2>2. QED
    BY <1>4, <2>1
<1>6. low \div run <= high \div run /\ low \div run \in Int /\ high \div run \in Int
  <2> HIDE DEF low, high, run
  <2>1. QED
    BY <1>4, <1>5, QuotientRises
<1>7. p0 + low \div run <= p0 + high \div run
  <2> HIDE DEF low, high, run
  <2>1. QED
    BY <1>4, <1>6
<1>8. QED
  BY <1>3, <1>7

(* Curve::evaluate never falls as the temperature rises, on any curve that *)
(* Curve::new accepts: what G4 is for ("a descending curve would cause     *)
(* overheating").                                                          *)
THEOREM CurveNeverFalls ==
    ASSUME NEW points \in Seq(Int \X Percent), ValidCurve(points),
           NEW s \in Int, NEW t \in Int, s <= t
    PROVE  Evaluate(points, s) <= Evaluate(points, t)
<1> DEFINE n == Len(points)
           low == points[1][2]
           high == points[n][2]
           es == Evaluate(points, s)
           et == Evaluate(points, t)
<1>0. /\ n \in 2..10
      /\ \A k \in 1..n : points[k][1] \in Int /\ points[k][2] \in Percent
  BY PointTypes
<1>1. /\ n \in 2..10 /\ 1 \in 1..n /\ n \in 1..n
      /\ \A k \in 1..n : points[k][1] \in Int /\ points[k][2] \in Percent
  <2> HIDE DEF n
  <2>1. QED
    BY <1>0
<1>2. ASSUME NEW a \in 1..n, NEW b \in 1..n, a <= b PROVE points[a][2] <= points[b][2]
  <2>1. CASE a < b
    BY <2>1, CurveRises
  <2>2. CASE a = b
    <3>1. points[a][2] \in Percent
      BY <1>1
    <3>2. QED
      BY <2>2, <3>1, PercentOrder
  <2>3. a < b \/ a = b
    <3> HIDE DEF n
    <3>1. QED
      BY <1>1, <1>2
  <2>4. QED
    BY <2>1, <2>2, <2>3
<1>3. es \in Percent /\ et \in Percent
  BY EvaluatePercent
<1>4. ASSUME NEW x \in Int
      PROVE  /\ x <= points[1][1] => Evaluate(points, x) = low
             /\ points[n][1] <= x /\ ~(x <= points[1][1]) => Evaluate(points, x) = high
             /\ low <= Evaluate(points, x) /\ Evaluate(points, x) <= high
  <2>1. x <= points[1][1] => Evaluate(points, x) = low
    BY Zenon DEF Evaluate
  <2>2. points[n][1] <= x /\ ~(x <= points[1][1]) => Evaluate(points, x) = high
    BY <1>1 DEF Evaluate
  <2>3. low \in Percent /\ high \in Percent /\ low <= high
    BY <1>1, <1>2
  <2>4. CASE points[1][1] < x /\ x < points[n][1]
    <3>1. PICK i \in 1..(n - 1) :
              Within(points, i, x) /\ Evaluate(points, x) = Line(points, i, x)
      BY <2>4, EvaluateInside
    <3>2. /\ points[i][2] <= Evaluate(points, x) /\ Evaluate(points, x) <= points[i + 1][2]
          /\ Evaluate(points, x) \in Percent
      BY <3>1, LineBetween
    <3>3. i \in 1..n /\ i + 1 \in 1..n
      BY <1>1
    <3>4. low <= points[i][2] /\ points[i + 1][2] <= high
      BY <1>1, <1>2, <3>3
    <3>5. points[i][2] \in Percent /\ points[i + 1][2] \in Percent
      BY <1>1, <3>3
    <3>6. low <= Evaluate(points, x) /\ Evaluate(points, x) <= high
      <4>1. low <= Evaluate(points, x)
        BY <2>3, <3>2, <3>4, <3>5, PercentOrder
      <4>2. Evaluate(points, x) <= high
        BY <2>3, <3>2, <3>4, <3>5, PercentOrder
      <4>3. QED
        BY <4>1, <4>2
    <3>7. QED
      BY <2>1, <2>2, <3>6
  <2>5. CASE ~(points[1][1] < x /\ x < points[n][1])
    <3>1. Evaluate(points, x) \in {low, high}
      BY <1>1, <2>1, <2>2, <2>5
    <3> HIDE DEF low, high
    <3>2. low <= Evaluate(points, x) /\ Evaluate(points, x) <= high
      BY <2>3, <3>1 DEF Percent
    <3>3. QED
      BY <2>1, <2>2, <3>2
  <2>6. QED
    BY <2>4, <2>5
<1>5. CASE s <= points[1][1]
  BY <1>4, <1>5
<1>6. CASE ~(t <= points[1][1]) /\ points[n][1] <= t
  BY <1>4, <1>6
<1>7. CASE points[1][1] < s /\ t < points[n][1]
  <2>1. /\ points[1][1] < t /\ s < points[n][1]
    BY <1>1, <1>7
  <2>2. PICK i \in 1..(n - 1) : Within(points, i, s) /\ es = Line(points, i, s)
    BY <1>7, <2>1, EvaluateInside
  <2>3. PICK j \in 1..(n - 1) : Within(points, j, t) /\ et = Line(points, j, t)
    BY <1>7, <2>1, EvaluateInside
  <2>4. /\ i \in 1..n /\ i + 1 \in 1..n /\ j \in 1..n /\ j + 1 \in 1..n
        /\ points[i][1] <= s /\ t <= points[j + 1][1]
    BY <2>2, <2>3, PointTypes, Zenon DEF Within
  <2>5. CASE i = j
    BY <2>2, <2>3, <2>5, LineRises
  <2>6. CASE i < j
    <3>1. es <= points[i + 1][2] /\ points[j][2] <= et
      BY <2>2, <2>3, LineBetween
    <3>2. points[i + 1][2] <= points[j][2]
      BY <1>2, <2>4, <2>6
    <3>3. points[i + 1][2] \in Percent /\ points[j][2] \in Percent
      BY <1>1, <2>4
    <3>4. QED
      BY <1>3, <3>1, <3>2, <3>3, PercentOrder, Zenon
  <2>7. CASE j < i
    <3>1. points[j + 1][1] <= points[i][1]
      <4>1. CASE j + 1 = i
        BY <1>1, <2>4, <4>1
      <4>2. CASE j + 1 < i
        <5>1. points[j + 1][1] < points[i][1]
          BY <2>4, <4>2, CurveRises
        <5>2. QED
          BY <1>1, <2>4, <5>1
      <4>3. QED
        BY <2>4, <2>7, <4>1, <4>2
    <3>2. s = t
      BY <1>1, <2>4, <3>1
    <3>3. es = et
      BY <3>2
    <3>4. QED
      BY <1>3, <3>3, PercentOrder, Zenon
  <2>8. QED
    BY <2>4, <2>5, <2>6, <2>7
<1>8. QED
  BY <1>1, <1>5, <1>6, <1>7

(* One GPU's share is a percentage inside its own band.                    *)
LEMMA ContributionInBand ==
    ASSUME NEW view, ValidView(view), NEW temp \in Int
    PROVE  /\ Contribution(view, temp) \in Percent
           /\ view.min <= Contribution(view, temp)
           /\ Contribution(view, temp) <= view.max
<1> DEFINE raw == Evaluate(view.curve, temp)
<1>1. raw \in Percent
  BY EvaluatePercent DEF ValidView
<1>2. /\ view.min \in Percent /\ view.max \in Percent
      /\ view.min <= view.max
  BY DEF ValidView
<1>3. QED
  <2> HIDE DEF raw
  <2>1. /\ Clamp(view, raw) \in Percent
        /\ view.min <= Clamp(view, raw) /\ Clamp(view, raw) <= view.max
    BY <1>1, <1>2 DEF Clamp, Percent
  <2>2. Contribution(view, temp) = Clamp(view, raw)
    BY DEF Contribution, raw
  <2>3. QED
    BY <2>1, <2>2

(* The target of a cooling group (group.rs, target_pct) lies between the   *)
(* highest floor of the GPUs that were read and one of their ceilings, and *)
(* is 0 only without a readable GPU or with a floor of 0.                  *)
THEOREM TargetInBand ==
    ASSUME NEW gpus, NEW temps, NEW views,
           \A g \in gpus : ValidView(views[g]) /\ temps[g] \in Int \cup {NoTemp}
    PROVE  LET readable == {g \in gpus : temps[g] # NoTemp}
               target   == TargetPct(gpus, temps, views)
           IN  /\ target \in Percent
               /\ \A g \in readable : views[g].min <= target
               /\ readable # {} => \E g \in readable : target <= views[g].max
<1> DEFINE readable == {g \in gpus : temps[g] # NoTemp}
           share(g) == Contribution(views[g], temps[g])
           shares == {share(g) : g \in readable}
           target == Max({0} \cup shares)
<1>1. \A g \in readable : /\ share(g) \in Percent
                           /\ views[g].min <= share(g) /\ share(g) <= views[g].max
  BY ContributionInBand, NoTempAssumption
<1>2. \A g \in readable : views[g].min \in Percent /\ views[g].max \in Percent
  BY DEF ValidView
<1> HIDE DEF share
<1>3. {0} \cup shares \in SUBSET Percent
  BY <1>1 DEF Percent
<1>4. target \in {0} \cup shares /\ \A x \in {0} \cup shares : x <= target
  BY <1>3, MaxPercent
<1>5. target \in Percent
  BY <1>3, <1>4
<1>6. ASSUME NEW g \in readable PROVE views[g].min <= target
  <2>1. share(g) <= target
    BY <1>4
  <2>2. QED
    <3> HIDE DEF target
    <3>1. QED
      BY <1>1, <1>2, <1>5, <2>1 DEF Percent
<1>7. ASSUME readable # {} PROVE \E g \in readable : target <= views[g].max
  <2>1. CASE target \in shares
    BY <1>1, <2>1
  <2>2. CASE target = 0
    <3>1. PICK g \in readable : TRUE
      BY <1>7
    <3>2. target <= views[g].max
      <4> HIDE DEF target
      <4>1. QED
        BY <1>2, <2>2 DEF Percent
    <3>3. QED
      BY <3>2
  <2>3. QED
    BY <1>4, <2>1, <2>2
<1>8. TargetPct(gpus, temps, views) = target
  BY Zenon DEF TargetPct, share
<1>9. QED
  BY <1>5, <1>6, <1>7, <1>8

LEMMA ClampRises ==
    ASSUME NEW view, ValidView(view), NEW x \in Percent, NEW y \in Percent, x <= y
    PROVE  Clamp(view, x) <= Clamp(view, y)
<1>1. \A lo, hi \in Percent : lo <= hi =>
          (IF x < lo THEN lo ELSE IF x > hi THEN hi ELSE x)
              <= (IF y < lo THEN lo ELSE IF y > hi THEN hi ELSE y)
  BY DEF Percent
<1>2. view.min \in Percent /\ view.max \in Percent /\ view.min <= view.max
  BY DEF ValidView
<1>3. QED
  BY <1>1, <1>2 DEF Clamp

LEMMA ContributionRises ==
    ASSUME NEW view, ValidView(view), NEW s \in Int, NEW t \in Int, s <= t
    PROVE  Contribution(view, s) <= Contribution(view, t)
<1> DEFINE x == Evaluate(view.curve, s)
           y == Evaluate(view.curve, t)
<1>1. view.curve \in Seq(Int \X Percent) /\ ValidCurve(view.curve)
  BY DEF ValidView
<1>2. x \in Percent /\ y \in Percent /\ x <= y
  BY <1>1, EvaluatePercent, CurveNeverFalls
<1>3. Contribution(view, s) = Clamp(view, x) /\ Contribution(view, t) = Clamp(view, y)
  BY DEF Contribution
<1> HIDE DEF x, y
<1>4. QED
  BY <1>2, <1>3, ClampRises

(* A GPU that gets warmer, or that can be read again, never lowers the     *)
(* target of its group.                                                    *)
THEOREM TargetNeverFalls ==
    ASSUME NEW gpus, NEW temps, NEW warmer, NEW views,
           \A g \in gpus : /\ ValidView(views[g])
                           /\ temps[g] \in Int \cup {NoTemp}
                           /\ warmer[g] \in Int \cup {NoTemp}
                           /\ temps[g] # NoTemp => warmer[g] # NoTemp /\ temps[g] <= warmer[g]
    PROVE  TargetPct(gpus, temps, views) <= TargetPct(gpus, warmer, views)
<1> DEFINE was == {g \in gpus : temps[g] # NoTemp}
           is == {g \in gpus : warmer[g] # NoTemp}
           before(g) == Contribution(views[g], temps[g])
           after(g) == Contribution(views[g], warmer[g])
           low == {0} \cup {before(g) : g \in was}
           high == {0} \cup {after(g) : g \in is}
<1>1. /\ \A g \in was : before(g) \in Percent
      /\ \A g \in is : after(g) \in Percent
  BY ContributionInBand, NoTempAssumption
<1>2. \A g \in was : g \in is /\ before(g) <= after(g)
  <2> TAKE g \in was
  <2>1. g \in is /\ ValidView(views[g]) /\ temps[g] \in Int /\ warmer[g] \in Int
        /\ temps[g] <= warmer[g]
    OBVIOUS
  <2>2. QED
    BY <2>1, ContributionRises
<1> HIDE DEF before, after
<1>3. low \in SUBSET Percent /\ high \in SUBSET Percent /\ low # {} /\ high # {}
  BY <1>1 DEF Percent
<1>4. /\ Max(low) \in low /\ Max(high) \in high
      /\ \A x \in high : x <= Max(high)
  BY <1>3, MaxPercent
<1>5. Max(low) <= Max(high)
  <2>1. CASE Max(low) = 0
    <3>1. 0 <= Max(high)
      BY <1>4
    <3>2. QED
      BY <2>1, <3>1
  <2>2. CASE Max(low) # 0
    <3>1. PICK g \in was : Max(low) = before(g)
      BY <1>4, <2>2
    <3>2. g \in is /\ before(g) <= after(g) /\ after(g) <= Max(high)
      BY <1>2, <1>4
    <3>3. before(g) \in Percent /\ after(g) \in Percent /\ Max(high) \in Percent
      BY <1>1, <1>3, <1>4, <3>2
    <3>4. before(g) <= Max(high)
      BY <3>2, <3>3, PercentOrder
    <3>5. QED
      BY <3>1, <3>4
  <2>3. QED
    BY <2>1, <2>2
<1>6. TargetPct(gpus, temps, views) = Max(low) /\ TargetPct(gpus, warmer, views) = Max(high)
  BY Zenon DEF TargetPct, before, after
<1>7. QED
  BY <1>5, <1>6

(* The interpolated value is the integer part of the exact one: multiplied *)
(* out, the difference is no negative number and smaller than the run.     *)
LEMMA LineIsFloor ==
    ASSUME NEW points \in Seq(Int \X Percent), ValidCurve(points),
           NEW i \in 1..(Len(points) - 1), NEW temp \in Int, Within(points, i, temp)
    PROVE  LET run  == points[i + 1][1] - points[i][1]
               rise == points[i + 1][2] - points[i][2]
               gap  == (temp - points[i][1]) * rise - (Line(points, i, temp) - points[i][2]) * run
           IN  0 <= gap /\ gap < run
<1> DEFINE t0 == points[i][1]
           t1 == points[i + 1][1]
           p0 == points[i][2]
           p1 == points[i + 1][2]
<1>1. t0 \in Int /\ t1 \in Int /\ t0 < t1 /\ p0 \in Percent /\ p1 \in Percent /\ p0 <= p1
  BY PointTypes
<1>2. t0 <= temp
  BY DEF Within
<1>3. Line(points, i, temp) = p0 + ((temp - t0) * (p1 - p0)) \div (t1 - t0)
  BY DEF Line
<1> HIDE DEF t0, t1, p0, p1
<1> DEFINE run == t1 - t0
           rise == p1 - p0
           area == (temp - t0) * rise
<1>4. run \in Nat \ {0} /\ rise \in Nat /\ temp - t0 \in Nat /\ p0 \in Int
  BY <1>1, <1>2 DEF Percent
<1>5. area \in Nat
  <2>1. \A a, b \in Nat : a * b \in Nat
    OBVIOUS
  <2> HIDE DEF rise
  <2>2. QED
    BY <1>4, <2>1
<1>6. /\ area \div run \in Int
      /\ 0 <= area - (area \div run) * run /\ area - (area \div run) * run < run
  <2> HIDE DEF area, run
  <2>1. QED
    BY <1>4, <1>5
<1>7. Line(points, i, temp) - p0 = area \div run
  <2>1. \A q \in Int : (p0 + q) - p0 = q
    BY <1>4
  <2>2. Line(points, i, temp) = p0 + area \div run
    BY <1>3
  <2> HIDE DEF area, run
  <2>3. QED
    BY <1>6, <2>1, <2>2
<1>8. 0 <= area - (Line(points, i, temp) - p0) * run
      /\ area - (Line(points, i, temp) - p0) * run < run
  BY <1>6, <1>7, Zenon
<1>9. QED
  BY <1>8 DEF t0, t1, p0, p1
=============================================================================
