------------------------------ MODULE Geometry ------------------------------
(***************************************************************************)
(* The integer geometry under Landor's world model: coordinates of a fixed *)
(* signed width (coord.hpp), inclusive areas (area.hpp), the canonical     *)
(* chunk grid (chunk.hpp) and the placement transforms (placement.hpp).    *)
(*                                                                         *)
(* The code computes in std::int64_t and then either tests that the result *)
(* fits the scalar or casts it; the cast is modular.  Integers stand for   *)
(* the wide intermediates, Wrap for the cast.                              *)
(***************************************************************************)
EXTENDS Integers

CONSTANTS MinScalar, MaxScalar    \* numeric_limits of CoordT::scalar_type

ASSUME ScalarAssumption == MaxScalar \in Nat \ {0} /\ MinScalar = - MaxScalar - 1

Scalar == MinScalar .. MaxScalar

Coord == Scalar \X Scalar

\* static_cast<scalar_type> of a wide value.
Wrap(n) == ((n - MinScalar) % (MaxScalar - MinScalar + 1)) + MinScalar

Fits(v) == v[1] \in Scalar /\ v[2] \in Scalar

\* std::nullopt in place of a coordinate.
NoCoord == <<>>

WhenFits(v) == IF Fits(v) THEN v ELSE NoCoord

-----------------------------------------------------------------------------
\* Area: two inclusive corners, kept sorted by assign().
Smaller(a, b) == IF a <= b THEN a ELSE b

Larger(a, b) == IF a <= b THEN b ELSE a

AreaOf(c1, c2) ==
    [min |-> <<Smaller(c1[1], c2[1]), Smaller(c1[2], c2[2])>>,
     max |-> <<Larger(c1[1], c2[1]), Larger(c1[2], c2[2])>>]

AreaContains(area, c) == \A d \in 1 .. 2 : area.min[d] <= c[d] /\ c[d] <= area.max[d]

-----------------------------------------------------------------------------
\* Chunk::align_down: floor to the grid in wide arithmetic, then cast.
AlignDown(n, side) == Wrap(n - (n % side))

\* The origin of Chunk::containing(position, side).
ChunkOrigin(c, side) == <<AlignDown(c[1], side), AlignDown(c[2], side)>>

\* Chunk::aligned()
Aligned(o, side) == side # 0 /\ o[1] % side = 0 /\ o[2] % side = 0

PlaneCells(side) == (0 .. side - 1) \X (0 .. side - 1)

\* Map::chunk_cell_world: the world position of a local cell, if it has one.
CellWorld(o, cell) == WhenFits(<<o[1] + cell[1], o[2] + cell[2]>>)

-----------------------------------------------------------------------------
Rotations == {"none", "r90", "r180", "r270"}

Reflections == {"none", "x", "y", "xy"}

Reflect(reflection, v) ==
    CASE reflection = "none" -> v
      [] reflection = "x"    -> <<v[1], - v[2]>>
      [] reflection = "y"    -> <<- v[1], v[2]>>
      [] reflection = "xy"   -> <<- v[1], - v[2]>>

Rotate(rotation, v) ==
    CASE rotation = "none" -> v
      [] rotation = "r90"  -> <<v[2], - v[1]>>
      [] rotation = "r180" -> <<- v[1], - v[2]>>
      [] rotation = "r270" -> <<- v[2], v[1]>>

UndoRotate(rotation, v) ==
    CASE rotation = "none" -> v
      [] rotation = "r90"  -> <<- v[2], v[1]>>
      [] rotation = "r180" -> <<- v[1], - v[2]>>
      [] rotation = "r270" -> <<v[2], - v[1]>>

\* Placement::local_to_world: reflection, rotation, translation.
LocalToWorld(placement, local) ==
    LET v == Rotate(placement.rotation, Reflect(placement.reflection, local))
    IN  WhenFits(<<v[1] + placement.position[1], v[2] + placement.position[2]>>)

\* Placement::world_to_local: the same steps undone in reverse order.
WorldToLocal(placement, world) ==
    LET v == <<world[1] - placement.position[1], world[2] - placement.position[2]>>
    IN  WhenFits(Reflect(placement.reflection, UndoRotate(placement.rotation, v)))
=============================================================================
