--------------------------- MODULE InterpolateArith ---------------------------
(***************************************************************************)
(* The scalar arithmetic of the Interpolate kernel                         *)
(* (src/sw_runtime_kernels/kernels/src/singleShaveInterpolate.cpp): the   *)
(* coordinate transforms, the rounding functions of the nearest modes and *)
(* the float -> int conversions.  The kernel computes in float; here the  *)
(* values are exact rationals <<numerator, denominator>> in lowest terms  *)
(* with a positive denominator.  The shapes and scales of the models are  *)
(* small, so every value the kernel forms is exact in float except the    *)
(* quotients IH/OH themselves, whose float rounding is not modelled.       *)
(***************************************************************************)
EXTENDS Integers

RECURSIVE Gcd(_, _)
Gcd(a, b) == IF b = 0 THEN a ELSE Gcd(b, a % b)

Abs(n) == IF n < 0 THEN -n ELSE n

\* The rational n/d in lowest terms (d # 0).
Q(n, d) ==
    LET g == Gcd(Abs(n), Abs(d))
        s == IF d < 0 THEN -1 ELSE 1
    IN  <<(s * n) \div g, (s * d) \div g>>

QI(n) == <<n, 1>>
OneHalf == <<1, 2>>
Zero == <<0, 1>>
One == <<1, 1>>

Add(a, b) == Q(a[1] * b[2] + b[1] * a[2], a[2] * b[2])
Sub(a, b) == Q(a[1] * b[2] - b[1] * a[2], a[2] * b[2])
Mul(a, b) == Q(a[1] * b[1], a[2] * b[2])
Div(a, b) == Q(a[1] * b[2], a[2] * b[1])
Lt(a, b)  == a[1] * b[2] < b[1] * a[2]
QMin(a, b) == IF Lt(b, a) THEN b ELSE a      \* MIN(X, Y) of line 70
QMax(a, b) == IF Lt(b, a) THEN a ELSE b      \* MAX(X, Y) of line 71
QAbs(a) == <<Abs(a[1]), a[2]>>

\* std::floor and std::ceil, as integers.
Floor(a) == a[1] \div a[2]
Ceil(a)  == -((-a[1]) \div a[2])

\* static_cast<int>(float): truncation toward zero.
Trunc(a) == IF a[1] >= 0 THEN Floor(a) ELSE Ceil(a)

\* round_positive (lines 52-54), which ROUND is under USE_FAST_ROUND.
RoundPositive(a) == Trunc(Add(a, OneHalf))

\* round_prefer_floor (lines 112-116): modf keeps the sign of x, so only a
\* positive x with fraction exactly one half goes to floor.
RoundPreferFloor(a) ==
    IF Sub(a, QI(Trunc(a))) = OneHalf THEN Floor(a) ELSE RoundPositive(a)

\* std::roundf: halves away from zero.
RoundF(a) == IF a[1] >= 0 THEN Floor(Add(a, OneHalf)) ELSE -Floor(Add(<<-a[1], a[2]>>, OneHalf))

\* The rounding function nnResample picks for a nearest mode (lines
\* 431-448): SIMPLE and FLOOR floor, CEIL ceils, ROUND_PREFER_FLOOR has its
\* own function and every other mode uses roundf.
RoundingFunc(mode, a) ==
    CASE mode = "ROUND_PREFER_FLOOR" -> RoundPreferFloor(a)
      [] mode \in {"FLOOR", "SIMPLE"} -> Floor(a)
      [] mode = "CEIL"               -> Ceil(a)
      [] OTHER                       -> RoundF(a)

\* alphaCoordinateTransform (lines 73-82): the constant term nnResample
\* adds to r * x.
AlphaCoordinateTransform(mode, r) ==
    CASE mode = "TF_HALF_PIXEL_FOR_NN" -> Div(r, QI(2))
      [] mode = "ASYMMETRIC"           -> Zero
      [] OTHER                         -> Sub(Div(r, QI(2)), OneHalf)

\* coordinateTransform (lines 84-110): the input coordinate of output
\* index x along an axis of resized length lr and original length lo.
CoordinateTransform(mode, x, scale, lr, lo) ==
    CASE mode = "TF_HALF_PIXEL_FOR_NN" -> Mul(Add(QI(x), OneHalf), scale)
      [] mode = "PYTORCH_HALF_PIXEL"   ->
            IF lr > 1 THEN Sub(Mul(Add(QI(x), OneHalf), scale), OneHalf) ELSE Zero
      [] mode = "ASYMMETRIC"           -> Mul(QI(x), scale)
      [] mode = "HALF_PIXEL"           -> Sub(Mul(Add(QI(x), OneHalf), scale), OneHalf)
      [] mode = "ALIGN_CORNERS"        -> IF lr = 1 THEN Zero ELSE Q(x * (lo - 1), lr - 1)
=============================================================================
