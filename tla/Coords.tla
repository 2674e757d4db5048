------------------------------- MODULE Coords -------------------------------
(***************************************************************************)
(* The arithmetic of coordinates (coord.hpp) for scalars narrower than     *)
(* int: an expression is computed exactly and its result is cast.  With    *)
(* std::int32_t an intermediate outside the scalar is undefined, and these *)
(* definitions are what the code computes when there is none.              *)
(***************************************************************************)
EXTENDS Geometry

Cast(v) == <<Wrap(v[1]), Wrap(v[2])>>

Plus(c, d) == Cast(<<c[1] + d[1], c[2] + d[2]>>)

Minus(c, d) == Cast(<<c[1] - d[1], c[2] - d[2]>>)

Negated(c) == Cast(<<- c[1], - c[2]>>)

Times(c, s) == Cast(<<c[1] * s, c[2] * s>>)

Magnitude(n) == IF n < 0 THEN - n ELSE n

\* Division and remainder of C++: towards zero, and with the dividend's sign.
Truncated(n, s) ==
    IF (n < 0) = (s < 0) THEN Magnitude(n) \div Magnitude(s)
    ELSE - (Magnitude(n) \div Magnitude(s))

Remainder(n, s) == IF n < 0 THEN - (Magnitude(n) % Magnitude(s)) ELSE n % Magnitude(s)

Quotient(c, s) == Cast(<<Truncated(c[1], s), Truncated(c[2], s)>>)

Modulo(c, d) == Cast(<<Remainder(c[1], d[1]), Remainder(c[2], d[2])>>)

\* wrap_mod()
WrapMod(c, m) ==
    Cast(<<Remainder(Remainder(c[1], m[1]) + m[1], m[1]),
           Remainder(Remainder(c[2], m[2]) + m[2], m[2])>>)

-----------------------------------------------------------------------------
\* dist_sq() stays in std::int64_t.
DistSq(c, d) == (d[1] - c[1]) * (d[1] - c[1]) + (d[2] - c[2]) * (d[2] - c[2])

Manhattan(c, d) == Wrap(Magnitude(c[1] - d[1]) + Magnitude(c[2] - d[2]))

Chebyshev(c, d) == Wrap(Larger(Magnitude(c[1] - d[1]), Magnitude(c[2] - d[2])))

-----------------------------------------------------------------------------
\* y grows southwards.
ReflectX(c) == Cast(<<c[1], - c[2]>>)

ReflectY(c) == Cast(<<- c[1], c[2]>>)

Diagonal(c) == <<c[2], c[1]>>

TurnLeft(c) == Cast(<<- c[2], c[1]>>)

TurnAround(c) == Negated(c)

TurnRight(c) == Cast(<<c[2], - c[1]>>)

\* Dir: east, south, west, north.
Dirs == 0 .. 3

Neighbour(c, dir) ==
    CASE dir = 0 -> Cast(<<c[1] + 1, c[2]>>)
      [] dir = 1 -> Cast(<<c[1], c[2] + 1>>)
      [] dir = 2 -> Cast(<<c[1] - 1, c[2]>>)
      [] dir = 3 -> Cast(<<c[1], c[2] - 1>>)

Octants == 0 .. 7

\* neighbour8(): clockwise from the east.
Neighbour8(c, octant) ==
    LET dx == IF octant \in {0, 1, 7} THEN 1 ELSE IF octant \in 3 .. 5 THEN -1 ELSE 0
        dy == IF octant \in 1 .. 3 THEN 1 ELSE IF octant \in 5 .. 7 THEN -1 ELSE 0
    IN  IF octant \in Octants THEN Plus(c, <<dx, dy>>) ELSE c
=============================================================================
