------------------------------ MODULE Cooling ------------------------------
(***************************************************************************)
(* The pure arithmetic of the daemon: from a GPU's temperature to the duty *)
(* byte written to a PWM header.  units.rs, curve.rs and group.rs hold no  *)
(* state, so this module is a set of operators.                            *)
(*                                                                         *)
(* A curve is a sequence of <<temperature, percent>> points; the view of a *)
(* GPU is a record [curve, min, max].  A temperature that was not read in  *)
(* this poll (a key absent from the temps map) is NoTemp.                  *)
(***************************************************************************)
EXTENDS Integers, Sequences, FiniteSetsExt

CONSTANT NoTemp   \* stands for "no entry in the temps map"

ASSUME NoTempAssumption == NoTemp \notin Int

Byte == 0..255
Percent == 0..100
MinPoints == 2
MaxPoints == 10

-----------------------------------------------------------------------------
(* Mutants: what a plausible slip in the code below would compute.         *)

PwmOfPercentOf256(pct) == ((pct * 256) \div 100) % 256

AcceptsFallingPercent(points) ==
    /\ Len(points) \in MinPoints..MaxPoints
    /\ \A i \in 1..(Len(points) - 1) : points[i][1] < points[i + 1][1]

InterpolateOverPercent(points, temp) ==
    LET i == CHOOSE j \in 1..(Len(points) - 1) :
                 points[j][1] <= temp /\ temp <= points[j + 1][1]
    IN  points[i][2] + (temp - points[i][1])

ClampToCeilingOnly(view, raw) ==
    IF raw > view.max THEN view.max ELSE raw

-----------------------------------------------------------------------------
(* The u16 product divided by 100 and cut to a byte.                       *)
PwmOf(pct) == ((pct * 255) \div 100) % 256

(* What Curve::new accepts. *)
ValidCurve(points) ==
    /\ Len(points) \in MinPoints..MaxPoints
    /\ \A i \in 1..(Len(points) - 1) :
          /\ points[i][1] < points[i + 1][1]
          /\ points[i][2] <= points[i + 1][2]

(* What the rules G5 to G8 of config.rs add: percentages are percentages   *)
(* and the band of a GPU is not empty.                                     *)
ValidView(view) ==
    /\ view.curve \in Seq(Int \X Percent)
    /\ ValidCurve(view.curve)
    /\ view.min \in Percent /\ view.max \in Percent
    /\ view.min <= view.max

(* The first window that contains temp, interpolated with a division that  *)
(* truncates; both factors are non-negative on a valid curve.              *)
Interpolate(points, temp) ==
    LET i == CHOOSE j \in 1..(Len(points) - 1) :
                 /\ points[j][1] <= temp /\ temp <= points[j + 1][1]
                 /\ \A k \in 1..(j - 1) : points[k + 1][1] < temp
        p == points[i]
        q == points[i + 1]
    IN  p[2] + ((temp - p[1]) * (q[2] - p[2])) \div (q[1] - p[1])

Evaluate(points, temp) ==
    LET first == points[1]
        last  == points[Len(points)]
    IN  IF temp <= first[1] THEN first[2]
        ELSE IF temp >= last[1] THEN last[2]
        ELSE Interpolate(points, temp)

(* One GPU's bounded share of its group's target: Pct::clamp.              *)
Clamp(view, raw) ==
    IF raw < view.min THEN view.min
    ELSE IF raw > view.max THEN view.max
    ELSE raw

Contribution(view, temp) == Clamp(view, Evaluate(view.curve, temp))

(* The maximum over the GPUs of the group that were read in this poll; a   *)
(* GPU with no temperature is skipped, and with none left the target is 0. *)
TargetPct(gpus, temps, views) ==
    Max({0} \cup {Contribution(views[g], temps[g]) :
                      g \in {h \in gpus : temps[h] # NoTemp}})
=============================================================================
