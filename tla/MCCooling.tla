----------------------------- MODULE MCCooling -----------------------------
(***************************************************************************)
(* Puts the duty arithmetic to use: a cooling group whose GPUs have the    *)
(* views that configurations give them, and temperatures that rise degree  *)
(* by degree or vanish because a read failed.                              *)
(***************************************************************************)
EXTENDS Cooling

CONSTANTS
    Gpus,         \* the GPUs of the group
    ViewsOf,      \* gpu -> the views [curve, min, max] it may be given
    Temps         \* the degrees a GPU can report

ASSUME MCCoolingAssumption ==
    /\ Temps \subseteq Int
    /\ \A g \in Gpus : \A view \in ViewsOf[g] : ValidView(view)

VARIABLES
    views,        \* gpu -> its view, fixed by the configuration
    temps         \* gpu -> this poll's reading, or NoTemp

vars == <<views, temps>>

-----------------------------------------------------------------------------
(* The instance TLC checks: every valid curve of two or three points over  *)
(* a few temperatures and percentages for the first of two GPUs.           *)
TwoGpus == {1, 2}
Points == {2, 5, 9} \X {0, 30, 100}
Curves == {c \in UNION {[1..n -> Points] : n \in 2..3} : ValidCurve(c)}
LongCurve == <<<<1, 0>>, <<4, 33>>, <<5, 34>>, <<9, 90>>>>
Bands == {<<0, 100>>, <<20, 60>>}
SomeViews ==
    <<{[curve |-> c, min |-> b[1], max |-> b[2]] : c \in Curves, b \in Bands},
      {[curve |-> LongCurve, min |-> b[1], max |-> b[2]] : b \in Bands}>>

-----------------------------------------------------------------------------
Target == TargetPct(Gpus, temps, views)
Readable == {g \in Gpus : temps[g] # NoTemp}

Init ==
    /\ views \in [Gpus -> UNION {ViewsOf[g] : g \in Gpus}]
    /\ \A g \in Gpus : views[g] \in ViewsOf[g]
    /\ temps \in [Gpus -> Temps \cup {NoTemp}]

(* One GPU gets one degree warmer. *)
Warm(g) ==
    /\ g \in Readable
    /\ temps[g] + 1 \in Temps
    /\ temps' = [temps EXCEPT ![g] = @ + 1]
    /\ UNCHANGED views

(* A GPU that could not be read answers again. *)
Answer(g) ==
    /\ g \notin Readable
    /\ \E t \in Temps : temps' = [temps EXCEPT ![g] = t]
    /\ UNCHANGED views

Next == \E g \in Gpus : Warm(g) \/ Answer(g)

Spec == Init /\ [][Next]_vars

-----------------------------------------------------------------------------
(* A warmer GPU, or one more GPU that can be read, never slows the fans:   *)
(* what the monotone curve, the clamp before the maximum and the maximum   *)
(* itself promise together.                                                *)
WarmerNeverSlower == [][Target' >= Target]_vars

(* With some GPU readable the target lies between the highest floor and    *)
(* the highest ceiling of the readable GPUs, whatever their curves say.    *)
TargetWithinBands ==
    Readable # {} =>
        /\ \A g \in Readable : Target >= views[g].min
        /\ \E g \in Readable : Target <= views[g].max

(* The duty is off exactly when the target is 0 and full exactly when it   *)
(* is 100: the conversion to a byte loses neither end of the scale.        *)
DutyKeepsTheEnds ==
    /\ PwmOf(Target) \in Byte
    /\ PwmOf(Target) = 0 <=> Target = 0
    /\ PwmOf(Target) = 255 <=> Target = 100

(* Reference for the interpolation: between two neighbouring points the    *)
(* answer is the integer part of the point on the straight line, and on a  *)
(* configured point it is that point's percentage.                         *)
OnTheLine(points, t, e) ==
    \A i \in 1..(Len(points) - 1) :
        LET run  == points[i + 1][1] - points[i][1]
            rise == points[i + 1][2] - points[i][2]
            gap  == (t - points[i][1]) * rise - (e - points[i][2]) * run
        IN  points[i][1] <= t /\ t <= points[i + 1][1] => 0 <= gap /\ gap < run

CurveFollowsItsPoints ==
    \A g \in Readable :
        OnTheLine(views[g].curve, temps[g], Evaluate(views[g].curve, temps[g]))
=============================================================================
