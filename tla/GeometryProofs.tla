--------------------------- MODULE GeometryProofs ---------------------------
(***************************************************************************)
(* The geometry of chunks and placements, the algebra of areas by the      *)
(* cells they contain, and the arithmetic of coordinates, for every width  *)
(* of the scalars.                                                         *)
(***************************************************************************)
EXTENDS Areas, Coords, TLAPS

\* What the transforms need of a placement.
Placed(p) ==
    /\ p.position \in Coord
    /\ p.rotation \in Rotations
    /\ p.reflection \in Reflections

\* A coordinate has two integer components.
LEMMA CoordParts ==
    ASSUME NEW c \in Coord
    PROVE  /\ c = <<c[1], c[2]>>
           /\ c[1] \in Int /\ c[2] \in Int
           /\ c[1] \in Scalar /\ c[2] \in Scalar
BY ScalarAssumption DEF Coord, Scalar

\* The rotations and reflections, component by component.
LEMMA RotateParts ==
    ASSUME NEW a \in Int, NEW b \in Int
    PROVE  /\ Rotate("none", <<a, b>>) = <<a, b>>
           /\ Rotate("r90", <<a, b>>) = <<b, - a>>
           /\ Rotate("r180", <<a, b>>) = <<- a, - b>>
           /\ Rotate("r270", <<a, b>>) = <<- b, a>>
           /\ UndoRotate("none", <<a, b>>) = <<a, b>>
           /\ UndoRotate("r90", <<a, b>>) = <<- b, a>>
           /\ UndoRotate("r180", <<a, b>>) = <<- a, - b>>
           /\ UndoRotate("r270", <<a, b>>) = <<b, - a>>
BY DEF Rotate, UndoRotate

LEMMA ReflectParts ==
    ASSUME NEW a \in Int, NEW b \in Int
    PROVE  /\ Reflect("none", <<a, b>>) = <<a, b>>
           /\ Reflect("x", <<a, b>>) = <<a, - b>>
           /\ Reflect("y", <<a, b>>) = <<- a, b>>
           /\ Reflect("xy", <<a, b>>) = <<- a, - b>>
BY DEF Reflect

\* Turning and turning back, in either order, gives the vector back.
LEMMA RotateUndone ==
    ASSUME NEW r \in Rotations, NEW a \in Int, NEW b \in Int
    PROVE  /\ UndoRotate(r, Rotate(r, <<a, b>>)) = <<a, b>>
           /\ Rotate(r, UndoRotate(r, <<a, b>>)) = <<a, b>>
<1>1. - a \in Int /\ - b \in Int /\ - (- a) = a /\ - (- b) = b
  OBVIOUS
<1>2. CASE r = "none"
  BY <1>2, RotateParts
<1>3. CASE r = "r90"
  BY <1>1, <1>3, RotateParts
<1>4. CASE r = "r180"
  BY <1>1, <1>4, RotateParts
<1>5. CASE r = "r270"
  BY <1>1, <1>5, RotateParts
<1> QED
  BY <1>2, <1>3, <1>4, <1>5 DEF Rotations

\* A reflection is its own inverse.
LEMMA ReflectUndone ==
    ASSUME NEW m \in Reflections, NEW a \in Int, NEW b \in Int
    PROVE  Reflect(m, Reflect(m, <<a, b>>)) = <<a, b>>
<1>1. - a \in Int /\ - b \in Int /\ - (- a) = a /\ - (- b) = b
  OBVIOUS
<1>2. CASE m = "none"
  BY <1>2, ReflectParts
<1>3. CASE m = "x"
  BY <1>1, <1>3, ReflectParts
<1>4. CASE m = "y"
  BY <1>1, <1>4, ReflectParts
<1>5. CASE m = "xy"
  BY <1>1, <1>5, ReflectParts
<1> QED
  BY <1>2, <1>3, <1>4, <1>5 DEF Reflections

\* Turned and mirrored, an integer vector is one.
LEMMA TurnedIsVector ==
    ASSUME NEW r \in Rotations, NEW m \in Reflections, NEW a \in Int, NEW b \in Int
    PROVE  /\ Rotate(r, <<a, b>>) \in Int \X Int
           /\ UndoRotate(r, <<a, b>>) \in Int \X Int
           /\ Reflect(m, <<a, b>>) \in Int \X Int
<1>1. - a \in Int /\ - b \in Int
  OBVIOUS
<1>2. Rotate(r, <<a, b>>) \in Int \X Int
  BY <1>1, RotateParts DEF Rotations
<1>3. UndoRotate(r, <<a, b>>) \in Int \X Int
  BY <1>1, RotateParts DEF Rotations
<1>4. Reflect(m, <<a, b>>) \in Int \X Int
  BY <1>1, ReflectParts DEF Reflections
<1> QED
  BY <1>2, <1>3, <1>4

\* A local position that has a world position is found again from it
\* (Placement::local_to_world and Placement::world_to_local, placement.hpp):
\* no cell of a turned and mirrored patch is read from another cell's byte.
THEOREM LocalRecovered ==
    ASSUME NEW p, Placed(p), NEW local \in Coord, LocalToWorld(p, local) # NoCoord
    PROVE  WorldToLocal(p, LocalToWorld(p, local)) = local
<1> DEFINE v == Rotate(p.rotation, Reflect(p.reflection, local))
           world == <<v[1] + p.position[1], v[2] + p.position[2]>>
<1>1. /\ local = <<local[1], local[2]>> /\ local[1] \in Int /\ local[2] \in Int
      /\ p.position[1] \in Int /\ p.position[2] \in Int
  BY CoordParts DEF Placed
<1>2. PICK a \in Int, b \in Int : Reflect(p.reflection, local) = <<a, b>>
  BY <1>1, TurnedIsVector DEF Placed
<1>3. PICK c \in Int, d \in Int : v = <<c, d>>
  BY <1>2, TurnedIsVector DEF Placed
<1>4. LocalToWorld(p, local) = world
  BY DEF LocalToWorld, WhenFits
<1>5. <<world[1] - p.position[1], world[2] - p.position[2]>> = <<c, d>>
  BY <1>1, <1>3
<1>6. UndoRotate(p.rotation, <<c, d>>) = <<a, b>>
  BY <1>2, <1>3, RotateUndone DEF Placed
<1>7. Reflect(p.reflection, <<a, b>>) = local
  BY <1>1, <1>2, ReflectUndone DEF Placed
<1>8. Fits(local)
  BY <1>1, CoordParts DEF Fits
<1> QED
  BY <1>4, <1>5, <1>6, <1>7, <1>8 DEF WorldToLocal, WhenFits

\* The converse: a world position that has a local one is the place where the
\* placement shows that local position.
THEOREM WorldRecovered ==
    ASSUME NEW p, Placed(p), NEW world \in Coord, WorldToLocal(p, world) # NoCoord
    PROVE  LocalToWorld(p, WorldToLocal(p, world)) = world
<1> DEFINE x == world[1] - p.position[1]
           y == world[2] - p.position[2]
           local == Reflect(p.reflection, UndoRotate(p.rotation, <<x, y>>))
<1>1. /\ world = <<world[1], world[2]>> /\ world[1] \in Int /\ world[2] \in Int
      /\ p.position[1] \in Int /\ p.position[2] \in Int
  BY CoordParts DEF Placed
<1>2. x \in Int /\ y \in Int
  BY <1>1
<1> HIDE DEF x, y
<1>3. UndoRotate(p.rotation, <<x, y>>) \in Int \X Int
  <2>1. p.rotation \in Rotations /\ p.reflection \in Reflections
    BY DEF Placed
  <2> QED
    BY <1>2, <2>1, TurnedIsVector
<1>4. PICK a \in Int, b \in Int : UndoRotate(p.rotation, <<x, y>>) = <<a, b>>
  BY <1>3
<1>5. Reflect(p.reflection, local) = <<a, b>>
  BY <1>4, ReflectUndone DEF Placed
<1>6. Rotate(p.rotation, <<a, b>>) = <<x, y>>
  BY <1>2, <1>4, RotateUndone DEF Placed
<1>7. WorldToLocal(p, world) = local
  BY DEF WorldToLocal, WhenFits, x, y
<1>8. <<x + p.position[1], y + p.position[2]>> = world
  BY <1>1 DEF x, y
<1>9. Fits(world)
  BY <1>1, CoordParts DEF Fits
<1> QED
  BY <1>5, <1>6, <1>7, <1>8, <1>9 DEF LocalToWorld, WhenFits

-----------------------------------------------------------------------------
\* Division with rounding towards minus infinity.
LEMMA FloorFacts ==
    ASSUME NEW n \in Int, NEW side \in Nat \ {0}
    PROVE  /\ n \div side \in Int
           /\ n % side \in 0 .. side - 1
           /\ n - (n % side) = side * (n \div side)
           /\ (n - (n % side)) % side = 0
<1>1. n \div side \in Int /\ n % side \in 0 .. side - 1
  OBVIOUS
<1>2. n - (n % side) = side * (n \div side)
  OBVIOUS
<1>3. (side * (n \div side)) % side = 0
  BY <1>1
<1> QED
  BY <1>1, <1>2, <1>3

\* A side that divides the lowest scalar has no chunk that begins below it.
LEMMA FloorInRange ==
    ASSUME NEW side \in Nat \ {0}, MinScalar % side = 0, NEW n \in Scalar
    PROVE  n - (n % side) \in Scalar
<1> DEFINE low == MinScalar \div side
           q == n \div side
<1>1. MinScalar \in Int /\ MaxScalar \in Int /\ n \in Int
  BY ScalarAssumption DEF Scalar
<1>2. /\ low \in Int /\ q \in Int
      /\ MinScalar = side * low /\ n - (n % side) = side * q
      /\ n % side \in 0 .. side - 1
  BY <1>1, FloorFacts
<1> HIDE DEF low, q
<1>3. n >= MinScalar /\ n <= MaxScalar
  BY <1>1 DEF Scalar
<1>4. q >= low
  <2>1. SUFFICES ASSUME q <= low - 1 PROVE FALSE
    BY <1>2
  <2>2. side * q <= side * (low - 1)
    BY <1>2, <2>1
  <2>3. side * (low - 1) = side * low - side
    BY <1>2
  <2> QED
    BY <1>1, <1>2, <1>3, <2>2, <2>3
<1>5. side * q >= side * low
  BY <1>2, <1>4
<1> QED
  BY <1>1, <1>2, <1>3, <1>5 DEF Scalar

\* A value in range is not changed by the cast.
LEMMA WrapInRange ==
    ASSUME NEW n \in Scalar
    PROVE  Wrap(n) = n
<1> DEFINE w == MaxScalar - MinScalar + 1
           d == n - MinScalar
<1>1. w \in Nat \ {0} /\ d \in 0 .. w - 1 /\ n = d + MinScalar
  BY ScalarAssumption DEF Scalar
<1> HIDE DEF w, d
<1>2. d % w = d
  BY <1>1
<1> QED
  BY <1>1, <1>2 DEF Wrap, w, d

\* Chunk::align_down() does not wrap when the side divides the scalar range.
LEMMA AlignDownFloors ==
    ASSUME NEW side \in Nat \ {0}, MinScalar % side = 0, NEW n \in Scalar
    PROVE  AlignDown(n, side) = n - (n % side) /\ AlignDown(n, side) \in Scalar
BY FloorInRange, WrapInRange DEF AlignDown

\* With a side that divides the scalar range, Chunk::containing() gives every
\* position an aligned chunk that really contains it, so that the cell of the
\* plane at which Cache looks a position up is the cell Map resolved for it
\* (chunk.hpp, cache.hpp, map.hpp).  The run map_limit shows that the condition
\* on the side is needed.
THEOREM ChunkContainsPosition ==
    ASSUME NEW side \in Nat \ {0}, MinScalar % side = 0, NEW c \in Coord
    PROVE  LET o == ChunkOrigin(c, side)
               cell == <<c[1] - o[1], c[2] - o[2]>>
           IN  /\ o \in Coord /\ Aligned(o, side)
               /\ cell \in PlaneCells(side)
               /\ CellWorld(o, cell) = c
<1> DEFINE o == ChunkOrigin(c, side)
           cell == <<c[1] - o[1], c[2] - o[2]>>
<1>1. /\ c = <<c[1], c[2]>> /\ c[1] \in Int /\ c[2] \in Int
      /\ c[1] \in Scalar /\ c[2] \in Scalar
  BY CoordParts
<1>2. /\ o[1] = c[1] - (c[1] % side) /\ o[1] \in Scalar
      /\ o[2] = c[2] - (c[2] % side) /\ o[2] \in Scalar
      /\ o = <<o[1], o[2]>>
  BY <1>1, AlignDownFloors DEF ChunkOrigin
<1> HIDE DEF o
<1>3. /\ c[1] % side \in 0 .. side - 1 /\ o[1] % side = 0
      /\ c[2] % side \in 0 .. side - 1 /\ o[2] % side = 0
  BY <1>1, <1>2, FloorFacts
<1>4. o \in Coord /\ Aligned(o, side)
  BY <1>2, <1>3 DEF Coord, Aligned
<1>5. o[1] \in Int /\ o[2] \in Int
  BY <1>2, ScalarAssumption DEF Scalar
<1>6. cell = <<c[1] % side, c[2] % side>>
  BY <1>1, <1>2, <1>3
<1>7. cell \in PlaneCells(side)
  BY <1>3, <1>6 DEF PlaneCells
<1>8. <<o[1] + cell[1], o[2] + cell[2]>> = c
  BY <1>1, <1>5
<1>9. CellWorld(o, cell) = c
  BY <1>1, <1>8 DEF CellWorld, WhenFits, Fits
<1> QED
  BY <1>4, <1>7, <1>9 DEF o

-----------------------------------------------------------------------------

\* The corners of an area are pairs of integers.
LEMMA AreaParts ==
    ASSUME NEW a \in Areas
    PROVE  /\ a.min \in Coord /\ a.max \in Coord
           /\ a.min[1] \in Int /\ a.min[2] \in Int
           /\ a.max[1] \in Int /\ a.max[2] \in Int
           /\ a.min[1] \in Scalar /\ a.min[2] \in Scalar
           /\ a.max[1] \in Scalar /\ a.max[2] \in Scalar
           /\ a.min = <<a.min[1], a.min[2]>> /\ a.max = <<a.max[1], a.max[2]>>
<1>1. a.min \in Coord /\ a.max \in Coord
  BY DEF Areas
<1> QED
  BY <1>1, CoordParts

LEMMA NoAreaIsEmpty == NoArea \in Areas /\ IsEmpty(NoArea)
<1>1. 0 \in Scalar /\ 1 \in Scalar
  BY ScalarAssumption DEF Scalar
<1> QED
  BY <1>1 DEF NoArea, Areas, Coord, IsEmpty

\* What contains() says, coordinate by coordinate.
LEMMA ContainsParts ==
    ASSUME NEW a \in Areas, NEW c \in Coord
    PROVE  ContainsCoord(a, c) <=>
               /\ a.min[1] <= c[1] /\ c[1] <= a.max[1]
               /\ a.min[2] <= c[2] /\ c[2] <= a.max[2]
BY AreaParts, CoordParts DEF ContainsCoord, AreaContains, IsEmpty

\* The constructor leaves sorted corners as they are.
LEMMA SortedCorners ==
    ASSUME NEW p \in Coord, NEW q \in Coord, p[1] <= q[1], p[2] <= q[2]
    PROVE  AreaOf(p, q) = [min |-> p, max |-> q] /\ AreaOf(p, q) \in Areas
<1>1. /\ p = <<p[1], p[2]>> /\ q = <<q[1], q[2]>>
      /\ p[1] \in Int /\ p[2] \in Int /\ q[1] \in Int /\ q[2] \in Int
  BY CoordParts
<1>2. AreaOf(p, q) = [min |-> p, max |-> q]
  BY <1>1 DEF AreaOf, Smaller, Larger
<1> QED
  BY <1>2 DEF Areas

LEMMA LowHighCorners ==
    ASSUME NEW a \in Areas, NEW b \in Areas
    PROVE  LowCorner(a, b) \in Coord /\ HighCorner(a, b) \in Coord
BY AreaParts DEF LowCorner, HighCorner, Coord, Larger, Smaller

\* The common cells are those between the two corners.
LEMMA BetweenCorners ==
    ASSUME NEW a \in Areas, NEW b \in Areas, NEW c \in Coord
    PROVE  ContainsCoord(a, c) /\ ContainsCoord(b, c) <=>
               \A i \in 1 .. 2 : LowCorner(a, b)[i] <= c[i] /\ c[i] <= HighCorner(a, b)[i]
<1>1. /\ c[1] \in Int /\ c[2] \in Int
      /\ LowCorner(a, b)[1] = Larger(a.min[1], b.min[1])
      /\ LowCorner(a, b)[2] = Larger(a.min[2], b.min[2])
      /\ HighCorner(a, b)[1] = Smaller(a.max[1], b.max[1])
      /\ HighCorner(a, b)[2] = Smaller(a.max[2], b.max[2])
  BY CoordParts DEF LowCorner, HighCorner
<1> QED
  BY <1>1, AreaParts, ContainsParts DEF Larger, Smaller

\* intersects() is true of two non-empty areas exactly when the corners of
\* what they share are in order.
LEMMA IntersectsInOrder ==
    ASSUME NEW a \in Areas, NEW b \in Areas
    PROVE  Intersects(a, b) <=>
               /\ ~ IsEmpty(a) /\ ~ IsEmpty(b)
               /\ LowCorner(a, b)[1] <= HighCorner(a, b)[1]
               /\ LowCorner(a, b)[2] <= HighCorner(a, b)[2]
BY AreaParts DEF Intersects, IsEmpty, LowCorner, HighCorner, Larger, Smaller

\* Area::intersects(), by which Cache chooses the slots an area invalidation
\* discards: two areas intersect exactly when some cell is in both.
THEOREM IntersectsWhenShared ==
    ASSUME NEW a \in Areas, NEW b \in Areas
    PROVE  Intersects(a, b) <=> \E c \in Coord : ContainsCoord(a, c) /\ ContainsCoord(b, c)
<1> DEFINE low == LowCorner(a, b)
           high == HighCorner(a, b)
<1>1. low \in Coord /\ high \in Coord
  BY LowHighCorners
<1>2. /\ low[1] \in Int /\ low[2] \in Int /\ high[1] \in Int /\ high[2] \in Int
  BY <1>1, CoordParts
<1>3. ASSUME Intersects(a, b) PROVE \E c \in Coord : ContainsCoord(a, c) /\ ContainsCoord(b, c)
  <2>1. ContainsCoord(a, low) /\ ContainsCoord(b, low)
    BY <1>1, <1>2, <1>3, IntersectsInOrder, BetweenCorners
  <2> QED
    BY <1>1, <2>1
<1>4. ASSUME NEW c \in Coord, ContainsCoord(a, c), ContainsCoord(b, c) PROVE Intersects(a, b)
  <2>1. c[1] \in Int /\ c[2] \in Int
    BY CoordParts
  <2>2. low[1] <= high[1] /\ low[2] <= high[2]
    BY <1>2, <1>4, <2>1, BetweenCorners
  <2>3. ~ IsEmpty(a) /\ ~ IsEmpty(b)
    BY <1>4 DEF ContainsCoord
  <2> QED
    BY <2>2, <2>3, IntersectsInOrder
<1> QED
  BY <1>3, <1>4

\* Area::intersection() and Area::clamp() have exactly the common cells.
THEOREM IntersectionIsCommon ==
    ASSUME NEW a \in Areas, NEW b \in Areas, NEW c \in Coord
    PROVE  /\ ContainsCoord(Intersection(a, b), c) <=> ContainsCoord(a, c) /\ ContainsCoord(b, c)
           /\ ContainsCoord(ClampArea(a, b), c) <=> ContainsCoord(a, c) /\ ContainsCoord(b, c)
<1> DEFINE low == LowCorner(a, b)
           high == HighCorner(a, b)
<1>1. /\ low \in Coord /\ high \in Coord
      /\ low[1] \in Int /\ low[2] \in Int /\ high[1] \in Int /\ high[2] \in Int
  BY LowHighCorners, CoordParts
<1>2. c[1] \in Int /\ c[2] \in Int
  BY CoordParts
<1>3. CASE Intersects(a, b)
  <2>1. ~ IsEmpty(a) /\ ~ IsEmpty(b) /\ low[1] <= high[1] /\ low[2] <= high[2]
    BY <1>3, IntersectsInOrder
  <2>2. Intersection(a, b) = AreaOf(low, high) /\ ClampArea(a, b) = AreaOf(low, high)
    BY <1>1, <1>3, <2>1 DEF Intersection, ClampArea
  <2>3. AreaOf(low, high) = [min |-> low, max |-> high] /\ AreaOf(low, high) \in Areas
    BY <1>1, <2>1, SortedCorners
  <2>4. ContainsCoord(AreaOf(low, high), c) <=>
            \A i \in 1 .. 2 : low[i] <= c[i] /\ c[i] <= high[i]
    BY <2>3, ContainsParts
  <2> QED
    BY <2>2, <2>4, BetweenCorners
<1>4. CASE ~ Intersects(a, b)
  <2>1. ~ (ContainsCoord(a, c) /\ ContainsCoord(b, c))
    BY <1>4, IntersectsWhenShared
  <2>2. Intersection(a, b) = NoArea /\ ClampArea(a, b) = NoArea
    BY <1>1, <1>4, IntersectsInOrder DEF Intersection, ClampArea
  <2> QED
    BY <2>1, <2>2, NoAreaIsEmpty DEF ContainsCoord
<1> QED
  BY <1>3, <1>4

\* Area::contains(Area): the corners decide for all the cells between them.
THEOREM CoversAllCells ==
    ASSUME NEW a \in Areas, NEW b \in Areas
    PROVE  Covers(a, b) <=> \A c \in Coord : ContainsCoord(b, c) => ContainsCoord(a, c)
<1>1. CASE IsEmpty(b)
  BY <1>1 DEF Covers, ContainsCoord
<1>2. CASE ~ IsEmpty(b)
  <2>1. b.min \in Coord /\ b.max \in Coord
    BY AreaParts
  <2>2. ContainsCoord(b, b.min) /\ ContainsCoord(b, b.max)
    BY <1>2, <2>1, AreaParts, ContainsParts DEF IsEmpty
  <2>3. ASSUME ContainsCoord(a, b.min), ContainsCoord(a, b.max), NEW c \in Coord,
               ContainsCoord(b, c)
        PROVE  ContainsCoord(a, c)
    BY <2>1, <2>3, AreaParts, CoordParts, ContainsParts
  <2> QED
    BY <1>2, <2>1, <2>2, <2>3 DEF Covers
<1> QED
  BY <1>1, <1>2

\* Area::union_area() is the least area with all the cells of both.
THEOREM UnionIsLeast ==
    ASSUME NEW a \in Areas, NEW b \in Areas
    PROVE  /\ Covers(UnionArea(a, b), a) /\ Covers(UnionArea(a, b), b)
           /\ \A other \in Areas :
                  Covers(other, a) /\ Covers(other, b) => Covers(other, UnionArea(a, b))
<1>1. ASSUME NEW d \in Areas PROVE Covers(d, d)
  BY <1>1, AreaParts, ContainsParts DEF Covers, IsEmpty
<1>2. CASE IsEmpty(a) \/ IsEmpty(b)
  BY <1>1, <1>2 DEF UnionArea, Covers
<1>3. CASE ~ IsEmpty(a) /\ ~ IsEmpty(b)
  <2> DEFINE low == <<Smaller(a.min[1], b.min[1]), Smaller(a.min[2], b.min[2])>>
             high == <<Larger(a.max[1], b.max[1]), Larger(a.max[2], b.max[2])>>
             u == UnionArea(a, b)
  <2>1. /\ low \in Coord /\ high \in Coord
        /\ low[1] = Smaller(a.min[1], b.min[1]) /\ low[2] = Smaller(a.min[2], b.min[2])
        /\ high[1] = Larger(a.max[1], b.max[1]) /\ high[2] = Larger(a.max[2], b.max[2])
    BY AreaParts DEF Coord, Smaller, Larger
  <2>2. low[1] <= high[1] /\ low[2] <= high[2]
    BY <1>3, <2>1, AreaParts DEF IsEmpty, Smaller, Larger
  <2> HIDE DEF low, high
  <2>3. u = [min |-> low, max |-> high] /\ u \in Areas
    BY <1>3, <2>1, <2>2, SortedCorners DEF UnionArea, low, high
  <2>4. Covers(u, a) /\ Covers(u, b)
    BY <1>3, <2>1, <2>3, AreaParts, ContainsParts DEF Covers, IsEmpty, Smaller, Larger
  <2>5. ASSUME NEW other \in Areas, Covers(other, a), Covers(other, b)
        PROVE  Covers(other, u)
    <3>1. /\ ContainsCoord(other, a.min) /\ ContainsCoord(other, a.max)
          /\ ContainsCoord(other, b.min) /\ ContainsCoord(other, b.max)
      BY <1>3, <2>5 DEF Covers
    <3>2. ContainsCoord(other, low) /\ ContainsCoord(other, high)
      BY <2>1, <3>1, AreaParts, ContainsParts DEF Smaller, Larger
    <3> QED
      BY <2>3, <3>2 DEF Covers
  <2> QED
    BY <2>4, <2>5
<1> QED
  BY <1>2, <1>3

-----------------------------------------------------------------------------
\* Where split() divides an axis of more than one cell.
LEMMA MiddleInside ==
    ASSUME NEW a \in Areas, NEW i \in 1 .. 2, a.min[i] < a.max[i]
    PROVE  /\ Middle(a, i) \in Scalar /\ Middle(a, i) \in Int
           /\ a.min[i] <= Middle(a, i) /\ Middle(a, i) < a.max[i]
           /\ Wrap(Middle(a, i) + 1) = Middle(a, i) + 1
           /\ Middle(a, i) + 1 \in Scalar
<1> DEFINE lo == a.min[i]
           hi == a.max[i]
           h == (hi - lo) \div 2
<1>1. lo \in Int /\ hi \in Int /\ lo \in Scalar /\ hi \in Scalar /\ lo < hi
  BY AreaParts
<1> HIDE DEF lo, hi
<1>2. h \in Int /\ 0 <= h /\ lo + h < hi
  BY <1>1
<1> HIDE DEF h
<1>3. lo + h \in Scalar /\ lo + h + 1 \in Scalar
  BY <1>1, <1>2, ScalarAssumption DEF Scalar
<1>4. Middle(a, i) = lo + h
  BY <1>3, WrapInRange DEF Middle, lo, hi, h
<1> QED
  BY <1>1, <1>2, <1>3, <1>4, WrapInRange DEF lo, hi

LEMMA ExtentInRange ==
    ASSUME NEW a \in Areas, NEW i \in 1 .. 2, a.min[i] <= a.max[i],
           a.max[i] - a.min[i] < MaxScalar
    PROVE  Extent(a, i) = a.max[i] - a.min[i] + 1
<1>1. a.max[i] \in Int /\ a.min[i] \in Int
  BY AreaParts
<1>2. a.max[i] - a.min[i] + 1 \in Scalar
  BY <1>1, ScalarAssumption DEF Scalar
<1> QED
  BY <1>2, WrapInRange DEF Extent

\* Area::split(): every cell of an area of more than one cell is in exactly one
\* of the halves, and neither half has another cell, as long as the width and
\* the height fit the scalar.  A single cell cannot be split: its second half
\* would begin behind its end, and the constructor sorts the two corners.
THEOREM SplitPartitions ==
    ASSUME NEW a \in Areas, ~ IsEmpty(a), a.min # a.max,
           \A i \in 1 .. 2 : a.max[i] - a.min[i] < MaxScalar
    PROVE  /\ ~ IsEmpty(Split(a)[1]) /\ ~ IsEmpty(Split(a)[2])
           /\ \A c \in Coord :
                  /\ ContainsCoord(a, c)
                        <=> ContainsCoord(Split(a)[1], c) \/ ContainsCoord(Split(a)[2], c)
                  /\ ~ (ContainsCoord(Split(a)[1], c) /\ ContainsCoord(Split(a)[2], c))
<1>1. /\ a.min[1] \in Int /\ a.min[2] \in Int /\ a.max[1] \in Int /\ a.max[2] \in Int
      /\ a.min[1] \in Scalar /\ a.min[2] \in Scalar
      /\ a.max[1] \in Scalar /\ a.max[2] \in Scalar
      /\ a.min = <<a.min[1], a.min[2]>> /\ a.max = <<a.max[1], a.max[2]>>
      /\ a.min \in Coord /\ a.max \in Coord
  BY AreaParts
<1>2. a.min[1] <= a.max[1] /\ a.min[2] <= a.max[2]
  BY <1>1 DEF IsEmpty
<1>3. /\ Extent(a, 1) = a.max[1] - a.min[1] + 1
      /\ Extent(a, 2) = a.max[2] - a.min[2] + 1
  BY <1>2, ExtentInRange
<1>4. CASE Extent(a, 1) >= Extent(a, 2)
  <2> DEFINE m == Middle(a, 1)
  <2>1. a.min[1] < a.max[1]
    BY <1>1, <1>2, <1>3, <1>4
  <2>2. /\ m \in Int /\ m \in Scalar /\ a.min[1] <= m /\ m < a.max[1]
        /\ Wrap(m + 1) = m + 1 /\ m + 1 \in Scalar
    BY <2>1, MiddleInside
  <2> HIDE DEF m
  <2> DEFINE p == <<m, a.max[2]>>
             q == <<m + 1, a.min[2]>>
  <2>3. /\ p \in Coord /\ p[1] = m /\ p[2] = a.max[2]
        /\ q \in Coord /\ q[1] = m + 1 /\ q[2] = a.min[2]
    BY <1>1, <2>2 DEF Coord
  <2> HIDE DEF p, q
  <2>4. Split(a)[1] = AreaOf(a.min, p) /\ Split(a)[2] = AreaOf(q, a.max)
    BY <1>4, <2>2 DEF Split, m, p, q
  <2>5. /\ Split(a)[1] = [min |-> a.min, max |-> p] /\ Split(a)[1] \in Areas
        /\ Split(a)[2] = [min |-> q, max |-> a.max] /\ Split(a)[2] \in Areas
    BY <1>1, <1>2, <2>2, <2>3, <2>4, SortedCorners
  <2>6. ~ IsEmpty(Split(a)[1]) /\ ~ IsEmpty(Split(a)[2])
    BY <1>1, <1>2, <2>2, <2>3, <2>5 DEF IsEmpty
  <2>7. ASSUME NEW c \in Coord
        PROVE  /\ ContainsCoord(a, c)
                     <=> ContainsCoord(Split(a)[1], c) \/ ContainsCoord(Split(a)[2], c)
               /\ ~ (ContainsCoord(Split(a)[1], c) /\ ContainsCoord(Split(a)[2], c))
    BY <1>1, <1>2, <2>2, <2>3, <2>5, CoordParts, ContainsParts
  <2> QED
    BY <2>6, <2>7
<1>5. CASE ~ (Extent(a, 1) >= Extent(a, 2))
  <2> DEFINE m == Middle(a, 2)
  <2>1. a.min[2] < a.max[2]
    BY <1>1, <1>2, <1>3, <1>5
  <2>2. /\ m \in Int /\ m \in Scalar /\ a.min[2] <= m /\ m < a.max[2]
        /\ Wrap(m + 1) = m + 1 /\ m + 1 \in Scalar
    BY <2>1, MiddleInside
  <2> HIDE DEF m
  <2> DEFINE p == <<a.max[1], m>>
             q == <<a.min[1], m + 1>>
  <2>3. /\ p \in Coord /\ p[1] = a.max[1] /\ p[2] = m
        /\ q \in Coord /\ q[1] = a.min[1] /\ q[2] = m + 1
    BY <1>1, <2>2 DEF Coord
  <2> HIDE DEF p, q
  <2>4. Split(a)[1] = AreaOf(a.min, p) /\ Split(a)[2] = AreaOf(q, a.max)
    BY <1>5, <2>2 DEF Split, m, p, q
  <2>5. /\ Split(a)[1] = [min |-> a.min, max |-> p] /\ Split(a)[1] \in Areas
        /\ Split(a)[2] = [min |-> q, max |-> a.max] /\ Split(a)[2] \in Areas
    BY <1>1, <1>2, <2>2, <2>3, <2>4, SortedCorners
  <2>6. ~ IsEmpty(Split(a)[1]) /\ ~ IsEmpty(Split(a)[2])
    BY <1>1, <1>2, <2>2, <2>3, <2>5 DEF IsEmpty
  <2>7. ASSUME NEW c \in Coord
        PROVE  /\ ContainsCoord(a, c)
                     <=> ContainsCoord(Split(a)[1], c) \/ ContainsCoord(Split(a)[2], c)
               /\ ~ (ContainsCoord(Split(a)[1], c) /\ ContainsCoord(Split(a)[2], c))
    BY <1>1, <1>2, <2>2, <2>3, <2>5, CoordParts, ContainsParts
  <2> QED
    BY <2>6, <2>7
<1> QED
  BY <1>4, <1>5

-----------------------------------------------------------------------------
\* With a side that divides the scalar range, the chunk of the highest
\* positions ends at the end of the scalars and not behind it.
LEMMA FarCornerInRange ==
    ASSUME NEW side \in Nat \ {0}, MinScalar % side = 0, NEW n \in Scalar, n % side = 0
    PROVE  Wrap(n + side - 1) = n + side - 1 /\ n + side - 1 \in Scalar
<1> DEFINE low == MinScalar \div side
           q == n \div side
<1>1. MinScalar \in Int /\ MaxScalar \in Int /\ n \in Int /\ MinScalar = - MaxScalar - 1
      /\ n >= MinScalar /\ n <= MaxScalar
  BY ScalarAssumption DEF Scalar
<1>2. low \in Int /\ q \in Int /\ MinScalar = side * low /\ n = side * q
  BY <1>1, FloorFacts
<1> HIDE DEF low, q
<1>3. MaxScalar + 1 = side * (- low)
  <2>1. side * (- low) = - (side * low)
    BY <1>2
  <2> QED
    BY <1>1, <1>2, <2>1
<1>4. q < - low
  <2>1. SUFFICES ASSUME q >= - low PROVE FALSE
    BY <1>2
  <2>2. side * q >= side * (- low)
    BY <1>2, <2>1
  <2> QED
    BY <1>1, <1>2, <1>3, <2>2
<1>5. side * (q + 1) <= side * (- low)
  BY <1>2, <1>4
<1>6. side * (q + 1) = side * q + side
  BY <1>2
<1>7. n + side - 1 \in Scalar
  BY <1>1, <1>2, <1>3, <1>5, <1>6 DEF Scalar
<1> QED
  BY <1>7, WrapInRange

\* Chunk::area() of the chunk Chunk::containing() gives: it contains the
\* position, so that an invalidation of the position's cell reaches the slot
\* that holds it, and its far corner does not wrap at the highest coordinates.
THEOREM ChunkAreaContainsPosition ==
    ASSUME NEW side \in Nat \ {0}, MinScalar % side = 0, NEW c \in Coord
    PROVE  LET o == ChunkOrigin(c, side)
           IN  /\ ChunkArea(o, side) = [min |-> o, max |-> <<o[1] + side - 1, o[2] + side - 1>>]
               /\ ContainsCoord(ChunkArea(o, side), c)
<1> DEFINE o == ChunkOrigin(c, side)
           far == <<o[1] + side - 1, o[2] + side - 1>>
           cell == <<c[1] - o[1], c[2] - o[2]>>
<1>1. o \in Coord /\ Aligned(o, side) /\ cell \in PlaneCells(side)
  BY ChunkContainsPosition
<1> HIDE DEF o
<1>2. /\ o[1] \in Int /\ o[2] \in Int /\ o[1] \in Scalar /\ o[2] \in Scalar
      /\ c[1] \in Int /\ c[2] \in Int
  BY <1>1, CoordParts
<1>3. /\ c[1] - o[1] \in 0 .. side - 1 /\ c[2] - o[2] \in 0 .. side - 1
  BY <1>1 DEF PlaneCells
<1>4. /\ Wrap(o[1] + side - 1) = o[1] + side - 1 /\ o[1] + side - 1 \in Scalar
      /\ Wrap(o[2] + side - 1) = o[2] + side - 1 /\ o[2] + side - 1 \in Scalar
  BY <1>1, <1>2, FarCornerInRange DEF Aligned
<1>5. far \in Coord /\ far[1] = o[1] + side - 1 /\ far[2] = o[2] + side - 1
  BY <1>4 DEF Coord
<1>6. ChunkArea(o, side) = AreaOf(o, far)
  BY <1>4 DEF ChunkArea
<1>7. ChunkArea(o, side) = [min |-> o, max |-> far] /\ ChunkArea(o, side) \in Areas
  BY <1>1, <1>2, <1>5, <1>6, SortedCorners
<1>8. ContainsCoord(ChunkArea(o, side), c)
  BY <1>2, <1>3, <1>5, <1>7, ContainsParts
<1> QED
  BY <1>7, <1>8 DEF o

-----------------------------------------------------------------------------
(***************************************************************************)
(* Arithmetic that wraps.                                                  *)
(***************************************************************************)
Modulus == MaxScalar - MinScalar + 1

LEMMA ModulusFacts ==
    /\ Modulus \in Nat \ {0} /\ MinScalar \in Int /\ MaxScalar \in Int
    /\ \A n \in Scalar : n \in Int /\ 0 <= n - MinScalar /\ n - MinScalar < Modulus
BY ScalarAssumption DEF Modulus, Scalar

\* Two scalars that differ by a multiple of the range are the same.
LEMMA ScalarsDistinct ==
    ASSUME NEW s \in Scalar, NEW t \in Scalar, NEW j \in Int, NEW k \in Int,
           s + Modulus * j = t + Modulus * k
    PROVE  s = t
<1> DEFINE w == Modulus
           a == s - MinScalar
           b == t - MinScalar
<1>1. w \in Nat \ {0} /\ a \in 0 .. w - 1 /\ b \in 0 .. w - 1
  BY ModulusFacts
<1>2. a + w * j = b + w * k /\ w * j \in Int /\ w * k \in Int
  BY ModulusFacts
<1> HIDE DEF w, a, b
<1>3. ~ j < k
  <2>1. SUFFICES ASSUME j + 1 <= k PROVE FALSE
    OBVIOUS
  <2>2. w * (j + 1) <= w * k /\ w * (j + 1) = w * j + w
    BY <1>1, <2>1
  <2> QED
    BY <1>1, <1>2, <2>2
<1>4. ~ k < j
  <2>1. SUFFICES ASSUME k + 1 <= j PROVE FALSE
    OBVIOUS
  <2>2. w * (k + 1) <= w * j /\ w * (k + 1) = w * k + w
    BY <1>1, <2>1
  <2> QED
    BY <1>1, <1>2, <2>2
<1>5. j = k
  BY <1>3, <1>4
<1>6. a = b
  BY <1>1, <1>2, <1>5
<1> QED
  BY <1>6, ModulusFacts DEF a, b

\* A cast gives a scalar that differs by a multiple of the range.
LEMMA WrapDiffers ==
    ASSUME NEW n \in Int
    PROVE  /\ Wrap(n) \in Scalar /\ Wrap(n) \in Int
           /\ \E k \in Int : n = Wrap(n) + Modulus * k
<1> DEFINE w == Modulus
           d == n - MinScalar
<1>1. w \in Nat \ {0} /\ d \in Int /\ MinScalar \in Int /\ n = d + MinScalar
  BY ModulusFacts
<1>2. Wrap(n) = (d % w) + MinScalar /\ MaxScalar = MinScalar + w - 1
  BY ScalarAssumption DEF Wrap, Modulus
<1> HIDE DEF w, d
<1>3. d \div w \in Int /\ d % w \in 0 .. w - 1 /\ d - (d % w) = w * (d \div w)
  BY <1>1, FloorFacts
<1>4. Wrap(n) \in Int /\ Wrap(n) \in Scalar
  BY <1>1, <1>2, <1>3 DEF Scalar
<1>5. n = Wrap(n) + w * (d \div w)
  BY <1>1, <1>2, <1>3
<1> QED
  BY <1>3, <1>4, <1>5 DEF w

\* It is the only one.
LEMMA WrapIs ==
    ASSUME NEW n \in Int, NEW s \in Scalar, NEW k \in Int, n = s + Modulus * k
    PROVE  Wrap(n) = s
<1>1. PICK j \in Int : n = Wrap(n) + Modulus * j
  BY WrapDiffers
<1> QED
  BY <1>1, WrapDiffers, ScalarsDistinct

\* An inner cast changes nothing.
LEMMA WrapAbsorbs ==
    ASSUME NEW n \in Int, NEW d \in Int
    PROVE  /\ Wrap(Wrap(n) + d) = Wrap(n + d)
           /\ Wrap(Wrap(n) - d) = Wrap(n - d)
           /\ Wrap(- Wrap(n)) = Wrap(- n)
<1>1. PICK k \in Int : n = Wrap(n) + Modulus * k
  BY WrapDiffers
<1>2. Wrap(n) \in Int /\ Modulus \in Int /\ Modulus * k \in Int
  BY WrapDiffers, ModulusFacts
<1>3. ASSUME NEW v \in Int PROVE Wrap(v + Modulus * k) = Wrap(v)
  <2>1. PICK j \in Int : v = Wrap(v) + Modulus * j
    BY WrapDiffers
  <2>2. Wrap(v) \in Scalar /\ Wrap(v) \in Int /\ Modulus * j \in Int
    BY WrapDiffers, ModulusFacts
  <2>3. Modulus * (j + k) = Modulus * j + Modulus * k
    BY ModulusFacts
  <2>4. v + Modulus * k = Wrap(v) + Modulus * (j + k) /\ v + Modulus * k \in Int
    BY <1>2, <2>1, <2>2, <2>3
  <2> QED
    BY <2>2, <2>4, WrapIs
<1>4. n + d = (Wrap(n) + d) + Modulus * k /\ n - d = (Wrap(n) - d) + Modulus * k
  BY <1>1, <1>2
<1>5. - Wrap(n) = - n + Modulus * k
  BY <1>1, <1>2
<1>6. /\ Wrap(n) + d \in Int /\ Wrap(n) - d \in Int /\ - n \in Int
  BY <1>2
<1> QED
  BY <1>3, <1>4, <1>5, <1>6

LEMMA CastParts ==
    ASSUME NEW a \in Int, NEW b \in Int
    PROVE  /\ Cast(<<a, b>>) = <<Wrap(a), Wrap(b)>> /\ Cast(<<a, b>>) \in Coord
           /\ Cast(<<a, b>>)[1] = Wrap(a) /\ Cast(<<a, b>>)[2] = Wrap(b)
BY WrapDiffers DEF Cast, Coord

\* Coord::operator+, operator- and unary operator-: wrapping or not, what one
\* adds the other takes away.
THEOREM ArithmeticUndone ==
    ASSUME NEW c \in Coord, NEW d \in Coord
    PROVE  /\ Minus(Plus(c, d), d) = c
           /\ Plus(Minus(c, d), d) = c
           /\ Negated(Negated(c)) = c
<1>1. /\ c[1] \in Int /\ c[2] \in Int /\ d[1] \in Int /\ d[2] \in Int
      /\ c[1] \in Scalar /\ c[2] \in Scalar /\ c = <<c[1], c[2]>>
  BY CoordParts
<1>2. Wrap(c[1]) = c[1] /\ Wrap(c[2]) = c[2]
  BY <1>1, WrapInRange
<1>3. ASSUME NEW n \in Int, NEW e \in Int
      PROVE  /\ Wrap(Wrap(n + e) - e) = Wrap(n) /\ Wrap(Wrap(n - e) + e) = Wrap(n)
             /\ Wrap(- Wrap(- n)) = Wrap(n) /\ Wrap(n) \in Int
  <2>1. /\ n + e \in Int /\ n - e \in Int /\ - n \in Int
        /\ (n + e) - e = n /\ (n - e) + e = n /\ - (- n) = n
    OBVIOUS
  <2> QED
    BY <2>1, WrapAbsorbs, WrapDiffers
<1>4. Minus(Plus(c, d), d) = <<Wrap(Wrap(c[1] + d[1]) - d[1]), Wrap(Wrap(c[2] + d[2]) - d[2])>>
  BY <1>1, CastParts DEF Minus, Plus, Cast
<1>5. Plus(Minus(c, d), d) = <<Wrap(Wrap(c[1] - d[1]) + d[1]), Wrap(Wrap(c[2] - d[2]) + d[2])>>
  BY <1>1, CastParts DEF Minus, Plus, Cast
<1>6. Negated(Negated(c)) = <<Wrap(- Wrap(- c[1])), Wrap(- Wrap(- c[2]))>>
  BY <1>1, CastParts DEF Negated, Cast
<1> QED
  BY <1>1, <1>2, <1>3, <1>4, <1>5, <1>6

\* The turns and reflections of Coord compose as those of the plane do, at the
\* lowest scalar too, whose negation wraps to itself.
THEOREM TurnsCompose ==
    ASSUME NEW c \in Coord
    PROVE  /\ TurnLeft(TurnRight(c)) = c /\ TurnRight(TurnLeft(c)) = c
           /\ TurnRight(TurnRight(c)) = TurnAround(c)
           /\ Diagonal(ReflectX(c)) = TurnLeft(c)
           /\ Diagonal(ReflectY(c)) = TurnRight(c)
<1>1. /\ c[1] \in Int /\ c[2] \in Int /\ c[1] \in Scalar /\ c[2] \in Scalar
      /\ c = <<c[1], c[2]>> /\ - c[1] \in Int /\ - c[2] \in Int
  BY CoordParts
<1>2. /\ Wrap(c[1]) = c[1] /\ Wrap(c[2]) = c[2]
      /\ Wrap(- c[1]) \in Int /\ Wrap(- c[2]) \in Int
  BY <1>1, WrapInRange, WrapDiffers
<1>3. ASSUME NEW n \in Int PROVE Wrap(- Wrap(- n)) = Wrap(n) /\ Wrap(Wrap(- n)) = Wrap(- n)
  <2>1. - n \in Int /\ - (- n) = n /\ - n + 0 = - n
    OBVIOUS
  <2>2. Wrap(Wrap(- n) + 0) = Wrap(- n + 0) /\ Wrap(- Wrap(- n)) = Wrap(- (- n))
    BY <2>1, WrapAbsorbs
  <2>3. Wrap(- n) \in Int
    BY <2>1, WrapDiffers
  <2> QED
    BY <2>1, <2>2, <2>3
<1>4. /\ TurnRight(c) = <<c[2], Wrap(- c[1])>> /\ TurnLeft(c) = <<Wrap(- c[2]), c[1]>>
      /\ ReflectX(c) = <<c[1], Wrap(- c[2])>> /\ ReflectY(c) = <<Wrap(- c[1]), c[2]>>
      /\ TurnAround(c) = <<Wrap(- c[1]), Wrap(- c[2])>>
  BY <1>2 DEF TurnRight, TurnLeft, ReflectX, ReflectY, TurnAround, Negated, Cast
<1>5. /\ TurnLeft(<<c[2], Wrap(- c[1])>>) = <<Wrap(- Wrap(- c[1])), Wrap(c[2])>>
      /\ TurnRight(<<Wrap(- c[2]), c[1]>>) = <<Wrap(c[1]), Wrap(- Wrap(- c[2]))>>
      /\ TurnRight(<<c[2], Wrap(- c[1])>>) = <<Wrap(Wrap(- c[1])), Wrap(- c[2])>>
  BY DEF TurnLeft, TurnRight, Cast
<1>6. /\ Wrap(- Wrap(- c[1])) = c[1] /\ Wrap(- Wrap(- c[2])) = c[2]
      /\ Wrap(Wrap(- c[1])) = Wrap(- c[1])
  BY <1>1, <1>2, <1>3
<1> QED
  BY <1>1, <1>2, <1>4, <1>5, <1>6 DEF Diagonal

\* Placement turns a vector as Coord's rotations do, wherever the result fits:
\* r90 is rotate_90cw(), as placement.hpp says, and r270 is rotate_90ccw().
THEOREM TurnsAgree ==
    ASSUME NEW c \in Coord
    PROVE  /\ Fits(Rotate("r90", c)) => TurnRight(c) = Rotate("r90", c)
           /\ Fits(Rotate("r180", c)) => TurnAround(c) = Rotate("r180", c)
           /\ Fits(Rotate("r270", c)) => TurnLeft(c) = Rotate("r270", c)
           /\ Fits(Reflect("x", c)) => ReflectX(c) = Reflect("x", c)
           /\ Fits(Reflect("y", c)) => ReflectY(c) = Reflect("y", c)
<1>1. ASSUME NEW v, v = <<v[1], v[2]>>, Fits(v) PROVE Cast(v) = v
  BY <1>1, WrapInRange DEF Fits, Cast
<1>2. /\ Rotate("r90", c) = <<c[2], - c[1]>> /\ Rotate("r180", c) = <<- c[1], - c[2]>>
      /\ Rotate("r270", c) = <<- c[2], c[1]>>
      /\ Reflect("x", c) = <<c[1], - c[2]>> /\ Reflect("y", c) = <<- c[1], c[2]>>
  BY DEF Rotate, Reflect
<1> QED
  BY <1>1, <1>2 DEF TurnRight, TurnAround, Negated, TurnLeft, ReflectX, ReflectY

-----------------------------------------------------------------------------
\* The offsets of the octants.
LEMMA OctantOffsets ==
    ASSUME NEW c \in Coord
    PROVE  /\ Neighbour8(c, 0) = Plus(c, <<1, 0>>) /\ Neighbour8(c, 1) = Plus(c, <<1, 1>>)
           /\ Neighbour8(c, 2) = Plus(c, <<0, 1>>) /\ Neighbour8(c, 3) = Plus(c, <<-1, 1>>)
           /\ Neighbour8(c, 4) = Plus(c, <<-1, 0>>) /\ Neighbour8(c, 5) = Plus(c, <<-1, -1>>)
           /\ Neighbour8(c, 6) = Plus(c, <<0, -1>>) /\ Neighbour8(c, 7) = Plus(c, <<1, -1>>)
BY DEF Neighbour8, Octants

\* Coord::neighbour8() names the directions in the order of Dir, every other one
\* a cardinal direction, and the octant opposite leads back, over the edge of
\* the scalars too.
THEOREM NeighboursUndone ==
    ASSUME NEW c \in Coord
    PROVE  /\ \A dir \in Dirs : Neighbour8(c, 2 * dir) = Neighbour(c, dir)
           /\ \A octant \in 0 .. 3 :
                  /\ Neighbour8(Neighbour8(c, octant), octant + 4) = c
                  /\ Neighbour8(Neighbour8(c, octant + 4), octant) = c
<1>1. /\ c[1] \in Int /\ c[2] \in Int /\ c[1] \in Scalar /\ c[2] \in Scalar
      /\ c = <<c[1], c[2]>> /\ Wrap(c[1]) = c[1] /\ Wrap(c[2]) = c[2]
  BY CoordParts, WrapInRange
<1>2. \A dir \in Dirs : Neighbour8(c, 2 * dir) = Neighbour(c, dir)
  <2>1. /\ Neighbour8(c, 2 * 0) = Neighbour(c, 0) /\ Neighbour8(c, 2 * 1) = Neighbour(c, 1)
        /\ Neighbour8(c, 2 * 2) = Neighbour(c, 2) /\ Neighbour8(c, 2 * 3) = Neighbour(c, 3)
    BY <1>1, OctantOffsets DEF Neighbour, Plus, Cast
  <2> QED
    BY <2>1 DEF Dirs
<1>3. ASSUME NEW a \in Int, NEW b \in Int
      PROVE  /\ Plus(c, <<a, b>>) \in Coord
             /\ Plus(Plus(c, <<a, b>>), <<- a, - b>>) = c
  <2>1. c[1] + a \in Int /\ c[2] + b \in Int /\ - a \in Int /\ - b \in Int
    BY <1>1
  <2>2. /\ Plus(c, <<a, b>>) = <<Wrap(c[1] + a), Wrap(c[2] + b)>>
        /\ Plus(c, <<a, b>>) \in Coord
    BY <2>1, CastParts DEF Plus
  <2>3. /\ Wrap(Wrap(c[1] + a) + - a) = Wrap((c[1] + a) + - a)
        /\ Wrap(Wrap(c[2] + b) + - b) = Wrap((c[2] + b) + - b)
    BY <2>1, WrapAbsorbs
  <2>4. (c[1] + a) + - a = c[1] /\ (c[2] + b) + - b = c[2]
    BY <1>1
  <2>5. Plus(<<Wrap(c[1] + a), Wrap(c[2] + b)>>, <<- a, - b>>)
            = <<Wrap(Wrap(c[1] + a) + - a), Wrap(Wrap(c[2] + b) + - b)>>
    BY DEF Plus, Cast
  <2> QED
    BY <1>1, <2>2, <2>3, <2>4, <2>5
<1>4. ASSUME NEW octant \in 0 .. 3
      PROVE  /\ Neighbour8(Neighbour8(c, octant), octant + 4) = c
             /\ Neighbour8(Neighbour8(c, octant + 4), octant) = c
  <2>1. CASE octant = 0
    BY <1>3, <2>1, OctantOffsets
  <2>2. CASE octant = 1
    BY <1>3, <2>2, OctantOffsets
  <2>3. CASE octant = 2
    BY <1>3, <2>3, OctantOffsets
  <2>4. CASE octant = 3
    BY <1>3, <2>4, OctantOffsets
  <2> QED
    BY <2>1, <2>2, <2>3, <2>4
<1> QED
  BY <1>2, <1>4

-----------------------------------------------------------------------------
\* The remainder of a floored division is the only one in its range.
LEMMA RemainderIs ==
    ASSUME NEW m \in Nat \ {0}, NEW n \in Int, NEW q \in Int, NEW t \in 0 .. m - 1,
           n = m * q + t
    PROVE  n % m = t
<1> DEFINE p == n \div m
           r == n % m
<1>1. p \in Int /\ r \in 0 .. m - 1 /\ n - r = m * p
  BY FloorFacts
<1> HIDE DEF p, r
<1>2. m * p + r = m * q + t /\ m * p \in Int /\ m * q \in Int
  BY <1>1
<1>3. ~ p < q
  <2>1. SUFFICES ASSUME p + 1 <= q PROVE FALSE
    BY <1>1
  <2>2. m * (p + 1) <= m * q /\ m * (p + 1) = m * p + m
    BY <1>1, <2>1
  <2> QED
    BY <1>1, <1>2, <2>2
<1>4. ~ q < p
  <2>1. SUFFICES ASSUME q + 1 <= p PROVE FALSE
    BY <1>1
  <2>2. m * (q + 1) <= m * p /\ m * (q + 1) = m * q + m
    BY <1>1, <2>1
  <2> QED
    BY <1>1, <1>2, <2>2
<1>5. p = q
  BY <1>1, <1>3, <1>4
<1> QED
  BY <1>1, <1>2, <1>5 DEF r

\* What C++ calls quotient and remainder.
LEMMA TruncatedParts ==
    ASSUME NEW n \in Int, NEW s \in Int \ {0}
    PROVE  /\ Truncated(n, s) \in Int /\ Remainder(n, s) \in Int
           /\ n = Truncated(n, s) * s + Remainder(n, s)
           /\ Magnitude(Remainder(n, s)) < Magnitude(s)
           /\ n >= 0 => Remainder(n, s) >= 0
           /\ n <= 0 => Remainder(n, s) <= 0
<1> DEFINE a == Magnitude(n)
           b == Magnitude(s)
           q == a \div b
           r == a % b
<1>1. a \in Nat /\ b \in Nat \ {0}
  BY DEF Magnitude
<1>2. /\ a = IF n < 0 THEN - n ELSE n
      /\ b = IF s < 0 THEN - s ELSE s
  BY DEF Magnitude
<1> HIDE DEF a, b
<1>3. q \in Int /\ r \in 0 .. b - 1 /\ a - r = b * q
  BY <1>1, FloorFacts
<1>4. /\ Truncated(n, s) = IF (n < 0) = (s < 0) THEN q ELSE - q
      /\ Remainder(n, s) = IF n < 0 THEN - r ELSE r
  BY <1>2 DEF Truncated, Remainder, a, b
<1> HIDE DEF q, r
<1>5. /\ q * s = IF s < 0 THEN - (b * q) ELSE b * q
      /\ (- q) * s = IF s < 0 THEN b * q ELSE - (b * q)
  BY <1>1, <1>2, <1>3
<1>6. n = Truncated(n, s) * s + Remainder(n, s)
  BY <1>1, <1>2, <1>3, <1>4, <1>5
<1>7. Magnitude(Remainder(n, s)) < Magnitude(s)
  BY <1>1, <1>2, <1>3, <1>4 DEF Magnitude, b
<1> QED
  BY <1>1, <1>2, <1>3, <1>4, <1>6, <1>7

\* Coord::wrap_mod(): for a positive modulus the result is not negative, below
\* the modulus, and the same place on the torus, for every position.
THEOREM WrapModInRange ==
    ASSUME NEW c \in Coord, NEW m \in Coord, m[1] > 0, m[2] > 0, NEW i \in 1 .. 2
    PROVE  /\ WrapMod(c, m)[i] \in 0 .. m[i] - 1
           /\ WrapMod(c, m)[i] = c[i] % m[i]
<1>1. /\ c[i] \in Int /\ m[i] \in Nat \ {0} /\ m[i] \in Scalar
  BY CoordParts
<1>2. WrapMod(c, m)[i] = Wrap(Remainder(Remainder(c[i], m[i]) + m[i], m[i]))
  BY DEF WrapMod, Cast
<1> DEFINE n == c[i]
           s == m[i]
           q == Truncated(n, s)
           r == Remainder(n, s)
           p == Truncated(r + s, s)
           t == Remainder(r + s, s)
<1> HIDE DEF n, s
<1>3. /\ n \in Int /\ s \in Nat \ {0} /\ s \in Int \ {0}
      /\ s \in Scalar /\ Magnitude(s) = s
  BY <1>1 DEF n, s, Magnitude
<1>4. q \in Int /\ r \in Int /\ n = q * s + r /\ Magnitude(r) < s
  BY <1>3, TruncatedParts
<1>5. r + s \in Int /\ r + s >= 0
  BY <1>3, <1>4 DEF Magnitude
<1> HIDE DEF q, r
<1>6. p \in Int /\ t \in Int /\ r + s = p * s + t /\ Magnitude(t) < s /\ t >= 0
  BY <1>3, <1>5, TruncatedParts
<1> HIDE DEF p, t
<1>7. t \in 0 .. s - 1
  BY <1>3, <1>6 DEF Magnitude
<1>8. n = s * (q + p - 1) + t
  <2>1. s * (q + p - 1) = q * s + p * s - s
    BY <1>3, <1>4, <1>6
  <2>2. q * s \in Int /\ p * s \in Int
    BY <1>3, <1>4, <1>6
  <2> QED
    BY <1>3, <1>4, <1>6, <2>1, <2>2
<1>9. n % s = t
  <2>1. q + p - 1 \in Int
    BY <1>4, <1>6
  <2> QED
    BY <1>3, <1>7, <1>8, <2>1, RemainderIs
<1>10. t \in Scalar
  BY <1>3, <1>7, ScalarAssumption DEF Scalar
<1>11. WrapMod(c, m)[i] = t
  BY <1>2, <1>10, WrapInRange DEF n, s, r, t
<1> QED
  BY <1>7, <1>9, <1>11 DEF n, s

\* A cast of a factor changes the product by a multiple of the range.
LEMMA WrapAbsorbsFactor ==
    ASSUME NEW n \in Int, NEW s \in Int, NEW e \in Int
    PROVE  Wrap(Wrap(n) * s + e) = Wrap(n * s + e)
<1>1. PICK k \in Int : n = Wrap(n) + Modulus * k
  BY WrapDiffers
<1>2. PICK j \in Int : Wrap(n) * s + e = Wrap(Wrap(n) * s + e) + Modulus * j
  <2>1. Wrap(n) * s + e \in Int
    BY WrapDiffers
  <2> QED
    BY <2>1, WrapDiffers
<1> DEFINE w == Wrap(n)
           v == Wrap(w * s + e)
<1>3. w \in Int /\ v \in Scalar /\ v \in Int /\ Modulus \in Int
  <2>1. w \in Int /\ w * s + e \in Int
    BY WrapDiffers
  <2> QED
    BY <2>1, WrapDiffers, ModulusFacts
<1> HIDE DEF w, v
<1>4. n = w + Modulus * k /\ w * s + e = v + Modulus * j
  BY <1>1, <1>2 DEF w, v
<1>5. n * s = w * s + Modulus * (k * s)
  BY <1>3, <1>4
<1>6. Modulus * (j + k * s) = Modulus * j + Modulus * (k * s)
  BY <1>3
<1>7. /\ w * s \in Int /\ Modulus * j \in Int /\ k * s \in Int
      /\ Modulus * (k * s) \in Int /\ n * s \in Int
  BY <1>3
<1>8. n * s + e = v + Modulus * (j + k * s)
  BY <1>3, <1>4, <1>5, <1>6, <1>7
<1>9. Wrap(n * s + e) = v
  BY <1>3, <1>7, <1>8, WrapIs
<1> QED
  BY <1>9 DEF w, v

\* Coord::operator/, operator* and operator%: quotient and remainder of a
\* division make up the dividend, for a negative one and for the lowest scalar
\* divided by -1, whose quotient wraps.
THEOREM DivisionRecovers ==
    ASSUME NEW c \in Coord, NEW s \in Scalar \ {0}
    PROVE  Plus(Times(Quotient(c, s), s), Modulo(c, <<s, s>>)) = c
<1>1. /\ c[1] \in Scalar /\ c[2] \in Scalar /\ c = <<c[1], c[2]>>
      /\ c[1] \in Int /\ c[2] \in Int /\ s \in Int \ {0}
  BY CoordParts, ModulusFacts
<1>2. ASSUME NEW n \in Scalar
      PROVE  Wrap(Wrap(Wrap(Truncated(n, s)) * s) + Wrap(Remainder(n, s))) = n
  <2> DEFINE q == Truncated(n, s)
             r == Remainder(n, s)
  <2>1. n \in Int /\ q \in Int /\ r \in Int /\ n = q * s + r
    BY <1>1, ModulusFacts, TruncatedParts
  <2> HIDE DEF q, r
  <2>2. Wrap(q) \in Int /\ Wrap(r) \in Int /\ Wrap(q) * s \in Int /\ q * s \in Int
    BY <1>1, <2>1, WrapDiffers
  <2>3. Wrap(Wrap(Wrap(q) * s) + Wrap(r)) = Wrap(Wrap(q) * s + Wrap(r))
    BY <2>2, WrapAbsorbs
  <2>4. Wrap(Wrap(q) * s + Wrap(r)) = Wrap(q * s + Wrap(r))
    BY <1>1, <2>1, <2>2, WrapAbsorbsFactor
  <2>5. Wrap(Wrap(r) + q * s) = Wrap(r + q * s)
    BY <2>1, <2>2, WrapAbsorbs
  <2>6. q * s + Wrap(r) = Wrap(r) + q * s /\ r + q * s = n
    BY <2>1, <2>2
  <2> QED
    BY <2>3, <2>4, <2>5, <2>6, WrapInRange DEF q, r
<1>3. Quotient(c, s) = <<Wrap(Truncated(c[1], s)), Wrap(Truncated(c[2], s))>>
  BY DEF Quotient, Cast
<1>4. Times(Quotient(c, s), s) = <<Wrap(Wrap(Truncated(c[1], s)) * s),
                                   Wrap(Wrap(Truncated(c[2], s)) * s)>>
  BY <1>3 DEF Times, Cast
<1>5. Modulo(c, <<s, s>>) = <<Wrap(Remainder(c[1], s)), Wrap(Remainder(c[2], s))>>
  BY DEF Modulo, Cast
<1> QED
  BY <1>1, <1>2, <1>4, <1>5 DEF Plus, Cast

-----------------------------------------------------------------------------
\* Coord::manhattan() and chebyshev() are metrics as long as they fit the
\* scalar, and bound each other and dist_sq(), so that a comparison by one of
\* them may stand in for a comparison by another.
THEOREM DistancesBound ==
    ASSUME NEW c \in Coord, NEW d \in Coord, NEW e \in Coord,
           \A p, q \in {c, d, e} :
               Magnitude(p[1] - q[1]) + Magnitude(p[2] - q[2]) <= MaxScalar
    PROVE  /\ Manhattan(c, d) = Manhattan(d, c) /\ Chebyshev(c, d) = Chebyshev(d, c)
           /\ Manhattan(c, d) = 0 <=> c = d
           /\ Chebyshev(c, d) = 0 <=> c = d
           /\ Manhattan(c, e) <= Manhattan(c, d) + Manhattan(d, e)
           /\ Chebyshev(c, e) <= Chebyshev(c, d) + Chebyshev(d, e)
           /\ Chebyshev(c, d) <= Manhattan(c, d) /\ Manhattan(c, d) <= 2 * Chebyshev(c, d)
           /\ Chebyshev(c, d) * Chebyshev(c, d) <= DistSq(c, d)
           /\ DistSq(c, d) <= Manhattan(c, d) * Manhattan(c, d)
<1>1. \A p \in {c, d, e} : p[1] \in Int /\ p[2] \in Int /\ p = <<p[1], p[2]>>
  BY CoordParts
<1>2. ASSUME NEW p \in {c, d, e}, NEW q \in {c, d, e}
      PROVE  /\ Manhattan(p, q) = Magnitude(p[1] - q[1]) + Magnitude(p[2] - q[2])
             /\ Chebyshev(p, q) = Larger(Magnitude(p[1] - q[1]), Magnitude(p[2] - q[2]))
  <2>1. /\ Magnitude(p[1] - q[1]) \in Nat /\ Magnitude(p[2] - q[2]) \in Nat
    BY <1>1 DEF Magnitude
  <2>2. /\ Magnitude(p[1] - q[1]) + Magnitude(p[2] - q[2]) \in Scalar
        /\ Larger(Magnitude(p[1] - q[1]), Magnitude(p[2] - q[2])) \in Scalar
    BY <2>1, ScalarAssumption DEF Scalar, Larger
  <2> QED
    BY <2>2, WrapInRange DEF Manhattan, Chebyshev
<1>3. /\ Manhattan(c, d) = Manhattan(d, c) /\ Chebyshev(c, d) = Chebyshev(d, c)
      /\ Manhattan(c, d) = 0 <=> c = d
      /\ Chebyshev(c, d) = 0 <=> c = d
      /\ Chebyshev(c, d) <= Manhattan(c, d) /\ Manhattan(c, d) <= 2 * Chebyshev(c, d)
  BY <1>1, <1>2 DEF Magnitude, Larger
<1>4. /\ Manhattan(c, e) <= Manhattan(c, d) + Manhattan(d, e)
      /\ Chebyshev(c, e) <= Chebyshev(c, d) + Chebyshev(d, e)
  BY <1>1, <1>2 DEF Magnitude, Larger
<1>5. /\ Chebyshev(c, d) * Chebyshev(c, d) <= DistSq(c, d)
      /\ DistSq(c, d) <= Manhattan(c, d) * Manhattan(c, d)
  <2> DEFINE a == Magnitude(c[1] - d[1])
             b == Magnitude(c[2] - d[2])
  <2>1. a \in Nat /\ b \in Nat
    BY <1>1 DEF Magnitude
  <2>2. DistSq(c, d) = a * a + b * b
    BY <1>1 DEF DistSq, Magnitude
  <2> HIDE DEF a, b
  <2>3. a * b \in Nat /\ a * a \in Nat /\ b * b \in Nat
    BY <2>1
  <2>4. (a + b) * (a + b) = a * a + b * b + 2 * (a * b)
    BY <2>1
  <2>5. Larger(a, b) * Larger(a, b) <= a * a + b * b
    BY <2>1, <2>3 DEF Larger
  <2>6. a * a + b * b <= (a + b) * (a + b)
    BY <2>3, <2>4
  <2> QED
    BY <1>2, <2>2, <2>5, <2>6 DEF a, b
<1> QED
  BY <1>3, <1>4, <1>5
=============================================================================
