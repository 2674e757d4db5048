------------------------------- MODULE Areas --------------------------------
(***************************************************************************)
(* The algebra of inclusive areas (area.hpp) and the area of a chunk       *)
(* (chunk.hpp), which the cache intersects with the area it invalidates.   *)
(***************************************************************************)
EXTENDS Geometry

\* A default-constructed Area has no cells.
NoArea == [min |-> <<1, 1>>, max |-> <<0, 0>>]

Areas == [min : Coord, max : Coord]

IsEmpty(a) == a.min[1] > a.max[1] \/ a.min[2] > a.max[2]

ContainsCoord(a, c) == ~ IsEmpty(a) /\ AreaContains(a, c)

\* contains(Area): by the corners of the other.
Covers(a, b) == IsEmpty(b) \/ (ContainsCoord(a, b.min) /\ ContainsCoord(a, b.max))

Intersects(a, b) ==
    /\ ~ IsEmpty(a) /\ ~ IsEmpty(b)
    /\ \A i \in 1 .. 2 : ~ (a.max[i] < b.min[i] \/ b.max[i] < a.min[i])

\* The corners that bound what two areas share.
LowCorner(a, b) == <<Larger(a.min[1], b.min[1]), Larger(a.min[2], b.min[2])>>

HighCorner(a, b) == <<Smaller(a.max[1], b.max[1]), Smaller(a.max[2], b.max[2])>>

\* intersection(), with no area in place of std::nullopt.
Intersection(a, b) ==
    IF Intersects(a, b) THEN AreaOf(LowCorner(a, b), HighCorner(a, b)) ELSE NoArea

\* clamp(): tests the corners it has made where intersection() tests before.
ClampArea(a, outer) ==
    LET low == LowCorner(a, outer)
        high == HighCorner(a, outer)
    IN  IF IsEmpty(a) \/ IsEmpty(outer) \/ low[1] > high[1] \/ low[2] > high[2]
        THEN NoArea
        ELSE AreaOf(low, high)

UnionArea(a, b) ==
    IF IsEmpty(a) THEN b
    ELSE IF IsEmpty(b) THEN a
    ELSE AreaOf(<<Smaller(a.min[1], b.min[1]), Smaller(a.min[2], b.min[2])>>,
                <<Larger(a.max[1], b.max[1]), Larger(a.max[2], b.max[2])>>)

\* width() and height(), cast to the scalar.
Extent(a, i) == IF a.max[i] >= a.min[i] THEN Wrap(a.max[i] - a.min[i] + 1) ELSE 0

Middle(a, i) == Wrap(a.min[i] + (a.max[i] - a.min[i]) \div 2)

\* split(): along the longer axis.  Each half is made from two corners, which
\* the constructor sorts.
Split(a) ==
    IF IsEmpty(a) THEN <<NoArea, NoArea>>
    ELSE IF Extent(a, 1) >= Extent(a, 2)
    THEN <<AreaOf(a.min, <<Middle(a, 1), a.max[2]>>),
           AreaOf(<<Wrap(Middle(a, 1) + 1), a.min[2]>>, a.max)>>
    ELSE <<AreaOf(a.min, <<a.max[1], Middle(a, 2)>>),
           AreaOf(<<a.min[1], Wrap(Middle(a, 2) + 1)>>, a.max)>>

\* Chunk::area(), of a side that is not zero: the far corner is cast.
ChunkArea(o, side) == AreaOf(o, <<Wrap(o[1] + side - 1), Wrap(o[2] + side - 1)>>)
=============================================================================
