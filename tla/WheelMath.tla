----------------------------- MODULE WheelMath -----------------------------
(* Wheel_math::calculate: from the velocity of the body, limited as the     *)
(* mode says, to the speeds of the four wheels.  Numbers are rationals      *)
(* <<numerator, denominator>>; the constants of the geometry are rounded to *)
(* thousandths.                                                             *)
EXTENDS Integers, Sequences

CONSTANTS X_LIMIT, Y_LIMIT, W_LIMIT

ASSUME LimitAssumption == {X_LIMIT, Y_LIMIT, W_LIMIT} \subseteq Nat \ {0}

Limit == [velocity_x |-> X_LIMIT, velocity_y |-> Y_LIMIT, velocity_w |-> W_LIMIT]

Axis == DOMAIN Limit

abs(a) == IF a < 0 THEN -a ELSE a

TooLarge(v) == {a \in Axis : abs(v[a]) > Limit[a]}

(* sin and cos of W1_RAD to W4_RAD; std::hypot of WHEEL_1 to WHEEL_4 (m).   *)
Sin == <<500, -707, -766, 500>>
Cos == <<866, 707, -643, -866>>
WheelDist == <<74, 74, 74, 74>>

(* The speed of a wheel, before the division by WHEEL_RADIUS: the axes are  *)
(* swapped.                                                                 *)
Wheel(k, v) == v.velocity_y * Sin[k] + v.velocity_x * Cos[k] + v.velocity_w * WheelDist[k]

Ratio(num, den) == IF num = 0 THEN <<0, 1>> ELSE <<num, den>>

LessEq(r, s) == r[1] * s[2] <= s[1] * r[2]

MinRatio(r, s) == IF LessEq(r, s) THEN r ELSE s

(* The ratio of an axis, where its limit is exceeded.                       *)
CapRatio(v, a) == IF abs(v[a]) > Limit[a] THEN <<Limit[a], abs(v[a])>> ELSE <<1, 1>>

(* Variant: the last limit that is exceeded decides.                        *)
ScaleOfLast(v) ==
    IF abs(v.velocity_w) > W_LIMIT THEN CapRatio(v, "velocity_w")
    ELSE IF abs(v.velocity_y) > Y_LIMIT THEN CapRatio(v, "velocity_y")
    ELSE CapRatio(v, "velocity_x")

(* Capped: the least of 1 and the ratios of what is exceeded.               *)
Scale(v) ==
    MinRatio(MinRatio(CapRatio(v, "velocity_x"), CapRatio(v, "velocity_y")),
             CapRatio(v, "velocity_w"))

(* Modes: 0 safe, 1 capped, 2 unsafe.                                       *)
calculate(v, mode) ==
    [k \in 1..4 |->
        CASE mode = 0 /\ TooLarge(v) # {} -> <<0, 1>>
          [] mode = 1 -> Ratio(Scale(v)[1] * Wheel(k, v), Scale(v)[2])
          [] OTHER -> Ratio(Wheel(k, v), 1)]

(* The fastest a wheel turns for a body within its limits.                  *)
Fastest(k) == abs(Sin[k]) * Y_LIMIT + abs(Cos[k]) * X_LIMIT + WheelDist[k] * W_LIMIT

Within(speed, k) == abs(speed[1]) <= Fastest(k) * speed[2]
=============================================================================
