----------------------------- MODULE MapProofs -----------------------------
(***************************************************************************)
(* What Map promises, proved for every map, layer set, patch catalogue,    *)
(* cache capacity and content of the runtime storage.                      *)
(*                                                                         *)
(* First the answer to a cache miss: the passes of resolve_chunk() compute *)
(* the stated precedence.  The library's induction theorems take an        *)
(* operator and cannot be used here.  Where a fact needs induction, the    *)
(* set of the numbers for which it fails has a least member (WFMin), which *)
(* contradicts the step.                                                   *)
(*                                                                         *)
(* Then the operations of Map, for a map whose chunks all have coordinates *)
(* (GridFits): where the chunk of a position would start below the range   *)
(* of the scalar, the code has no origin for it, and the run map_limit     *)
(* shows what follows.                                                     *)
(*                                                                         *)
(* The inductive invariant says of the flush in progress what the code     *)
(* keeps in local variables and in the place it has reached: which planes  *)
(* are on the work list, which of their cells are pending, and how far the *)
(* source has been created.  Every step is then of one of six kinds, and   *)
(* each property follows from the kinds of step that could disturb it.     *)
(***************************************************************************)
EXTENDS Map, GeometryProofs, FiniteSetTheorems

\* A set of natural numbers that is not empty has a least member.
LEMMA LeastNatural ==
    ASSUME NEW T \in SUBSET Nat, T # {}
    PROVE  \E n \in T : \A m \in T : n <= m
<1> DEFINE R == OpToRel(<, Nat)
<1>1. PICK n \in T : \A m \in T : ~ (<<m, n>> \in R)
    <2>1. IsWellFoundedOn(R, Nat)
        BY NatLessThanWellFounded
    <2>2. QED
        BY <2>1, WFMin
<1>2. ASSUME NEW m \in T PROVE n <= m
    <2>1. ~ (m < n)
        BY <1>1 DEF OpToRel
    <2>2. QED
        BY <2>1
<1>3. QED
    BY <1>2

\* The same for integers that are bounded below.
LEMMA LeastInteger ==
    ASSUME NEW low \in Int, NEW T \in SUBSET Int, T # {}, \A i \in T : low <= i
    PROVE  \E i \in T : \A j \in T : i <= j
<1> DEFINE N == {i - low : i \in T}
<1>1. ASSUME NEW i \in T PROVE i - low \in Nat
    <2>1. i \in Int /\ low <= i
        OBVIOUS
    <2>2. QED
        BY <2>1
<1>2. PICK n \in N : \A m \in N : n <= m
    <2>1. N \in SUBSET Nat /\ N # {}
        BY <1>1
    <2> HIDE DEF N
    <2>2. QED
        BY <2>1, LeastNatural
<1>3. PICK i \in T : n = i - low
    BY <1>2
<1>4. ASSUME NEW j \in T PROVE i <= j
    <2>1. i - low <= j - low
        BY <1>2, <1>3
    <2>2. i \in Int /\ j \in Int
        OBVIOUS
    <2>3. QED
        BY <2>1, <2>2
<1>5. QED
    BY <1>4

\* Induction up to a bound.
LEMMA UpTo ==
    ASSUME NEW n \in Nat, NEW T, 0 \in T, \A k \in 1 .. n : k - 1 \in T => k \in T
    PROVE  0 .. n \subseteq T
<1> SUFFICES ASSUME (0 .. n) \ T # {} PROVE FALSE
    OBVIOUS
<1> DEFINE Left == (0 .. n) \ T
<1>1. PICK k \in Left : \A j \in Left : k <= j
    <2>1. Left \in SUBSET Nat /\ Left # {}
        OBVIOUS
    <2> HIDE DEF Left
    <2>2. QED
        BY <2>1, LeastNatural
<1>2. k \in 1 .. n /\ k - 1 \in 0 .. n /\ ~ (k <= k - 1)
    BY <1>1
<1>3. QED
    BY <1>1, <1>2

\* A function can be built up step by step from its first value.
Steps(n, S) == [1 .. n -> [S -> S]]

Iterates(f, n, S, first, step) ==
    /\ f \in [0 .. n -> S]
    /\ f[0] = first
    /\ \A k \in 1 .. n : f[k] = step[k][f[k - 1]]

LEMMA IterationExists ==
    ASSUME NEW n \in Nat, NEW S, NEW first \in S, NEW step \in Steps(n, S)
    PROVE  \E f : Iterates(f, n, S, first, step)
<1> DEFINE Upto(m) == \E f \in [0 .. m -> S] :
                          f[0] = first /\ \A k \in 1 .. m : f[k] = step[k][f[k - 1]]
           T == {m \in 0 .. n : Upto(m)}
<1>0. step \in [1 .. n -> [S -> S]]
    BY DEF Steps
<1>1. 0 \in T
    <2> DEFINE f == [k \in 0 .. 0 |-> first]
    <2>1. f \in [0 .. 0 -> S] /\ f[0] = first
        OBVIOUS
    <2>2. 1 .. 0 = {}
        OBVIOUS
    <2> HIDE DEF f
    <2>3. Upto(0)
        BY <2>1, <2>2
    <2>4. QED
        BY <2>3
<1>2. ASSUME NEW m \in 1 .. n, m - 1 \in T PROVE m \in T
    <2>1. PICK f \in [0 .. m - 1 -> S] :
              f[0] = first /\ \A k \in 1 .. m - 1 : f[k] = step[k][f[k - 1]]
        BY <1>2
    <2> DEFINE g == [k \in 0 .. m |-> IF k = m THEN step[m][f[m - 1]] ELSE f[k]]
    <2>2. m - 1 \in 0 .. m - 1
        OBVIOUS
    <2>3. step[m][f[m - 1]] \in S
        BY <1>0, <2>1, <2>2
    <2>4. g \in [0 .. m -> S]
        BY <2>3
    <2>5. g[0] = first
        BY <2>1
    <2>6. ASSUME NEW k \in 1 .. m PROVE g[k] = step[k][g[k - 1]]
        <3>1. CASE k = m
            BY <3>1
        <3>2. CASE k # m
            BY <2>1, <3>2
        <3>3. QED
            BY <3>1, <3>2
    <2>7. Upto(m)
        <3> HIDE DEF g
        <3>1. QED
            BY <2>4, <2>5, <2>6
    <2>8. m \in 0 .. n
        OBVIOUS
    <2> HIDE DEF Upto
    <2>9. QED
        BY <2>7, <2>8
<1>3. n \in T
    <2> HIDE DEF T
    <2>1. 0 .. n \subseteq T
        BY <1>1, <1>2, UpTo
    <2>2. QED
        BY <2>1
<1>4. QED
    BY <1>3 DEF Iterates

-----------------------------------------------------------------------------
(***************************************************************************)
(* Ordering: a finite set can be put in order of its keys, by inserting    *)
(* one member at its place among the others.                               *)
(***************************************************************************)
Ascending(s, n, key) == \A i, j \in 1 .. n : i < j => key[s[i]] < key[s[j]]

Arranges(s, S, n, key) ==
    /\ s \in [1 .. n -> S]
    /\ \A x \in S : \E i \in 1 .. n : s[i] = x
    /\ Ascending(s, n, key)

LEMMA Insertion ==
    ASSUME NEW T, NEW x \in T, NEW key, \A y \in T : key[y] \in Int,
           \A y, z \in T : key[y] = key[z] => y = z,
           NEW n \in Nat \ {0}, NEW s, Arranges(s, T \ {x}, n - 1, key)
    PROVE  \E t : Arranges(t, T, n, key)
<1> DEFINE After == {i \in 1 .. n - 1 : key[x] < key[s[i]]} \cup {n}
<1>1. /\ \A i \in 1 .. n - 1 : s[i] \in T /\ s[i] # x /\ key[s[i]] \in Int
      /\ key[x] \in Int
      /\ \A i, j \in 1 .. n - 1 : i < j => key[s[i]] < key[s[j]]
      /\ \A y \in T \ {x} : \E i \in 1 .. n - 1 : s[i] = y
    BY DEF Arranges, Ascending
<1>2. PICK p \in After : \A i \in After : p <= i
    <2>1. After \in SUBSET Nat /\ After # {}
        OBVIOUS
    <2> HIDE DEF After
    <2>2. QED
        BY <2>1, LeastNatural
<1>3. p \in 1 .. n
    OBVIOUS
<1>4. ASSUME NEW i \in 1 .. n - 1, i < p PROVE key[s[i]] < key[x]
    <2>1. ~ (p <= i)
        BY <1>3, <1>4
    <2>2. ~ (key[x] < key[s[i]])
        BY <1>2, <2>1
    <2>3. key[s[i]] # key[x]
        BY <1>1
    <2>4. QED
        BY <1>1, <2>2, <2>3
<1>5. ASSUME NEW i \in 1 .. n - 1, p <= i PROVE key[x] < key[s[i]]
    <2>1. p \in 1 .. n - 1 /\ key[x] < key[s[p]]
        BY <1>3, <1>5
    <2>2. p = i \/ key[s[p]] < key[s[i]]
        BY <1>1, <1>3, <1>5, <2>1
    <2>3. QED
        BY <1>1, <2>1, <2>2
<1> HIDE DEF After
<1> DEFINE t == [i \in 1 .. n |-> IF i < p THEN s[i] ELSE IF i = p THEN x ELSE s[i - 1]]
<1>6. /\ \A i \in 1 .. n : i < p => i \in 1 .. n - 1 /\ t[i] = s[i]
      /\ t[p] = x
      /\ \A i \in 1 .. n : p < i => i - 1 \in 1 .. n - 1 /\ t[i] = s[i - 1]
    BY <1>3
<1>7. t \in [1 .. n -> T]
    BY <1>1, <1>3
<1> HIDE DEF t
<1>8. ASSUME NEW y \in T PROVE \E i \in 1 .. n : t[i] = y
    <2>1. CASE y = x
        BY <1>3, <1>6, <2>1
    <2>2. CASE y # x
        <3>1. PICK i \in 1 .. n - 1 : s[i] = y
            BY <1>1, <2>2
        <3>2. CASE i < p
            BY <1>6, <3>1, <3>2
        <3>3. CASE ~ (i < p)
            <4>1. i + 1 \in 1 .. n /\ p < i + 1 /\ (i + 1) - 1 = i
                BY <1>3, <3>3
            <4>2. QED
                BY <1>6, <3>1, <4>1
        <3>4. QED
            BY <3>2, <3>3
    <2>3. QED
        BY <2>1, <2>2
<1>9. ASSUME NEW i \in 1 .. n, NEW j \in 1 .. n, i < j
      PROVE  key[t[i]] < key[t[j]]
    <2>1. CASE j < p
        BY <1>1, <1>3, <1>6, <1>9, <2>1
    <2>2. CASE j = p
        BY <1>3, <1>4, <1>6, <1>9, <2>2
    <2>3. CASE p < j /\ i < p
        <3>1. i \in 1 .. n - 1 /\ j - 1 \in 1 .. n - 1 /\ i < j - 1
            BY <1>3, <1>6, <2>3
        <3>2. QED
            BY <1>1, <1>6, <2>3, <3>1
    <2>4. CASE p < j /\ i = p
        <3>1. j - 1 \in 1 .. n - 1 /\ p <= j - 1
            BY <1>3, <1>6, <2>4
        <3>2. QED
            BY <1>5, <1>6, <2>4, <3>1
    <2>5. CASE p < i
        <3>1. i - 1 \in 1 .. n - 1 /\ j - 1 \in 1 .. n - 1 /\ i - 1 < j - 1 /\ p < j
            BY <1>3, <1>6, <1>9, <2>5
        <3>2. QED
            BY <1>1, <1>6, <2>5, <3>1
    <2>6. QED
        BY <1>3, <1>9, <2>1, <2>2, <2>3, <2>4, <2>5
<1>10. QED
    BY <1>7, <1>8, <1>9 DEF Arranges, Ascending

LEMMA ArrangementExists ==
    ASSUME NEW S, IsFiniteSet(S), NEW key, \A x \in S : key[x] \in Int,
           \A x, y \in S : key[x] = key[y] => x = y
    PROVE  \E s : Arranges(s, S, Cardinality(S), key)
<1> DEFINE Sizes == {n \in 0 .. Cardinality(S) :
                        \A T \in SUBSET S :
                            Cardinality(T) = n => \E s : Arranges(s, T, n, key)}
<1>1. Cardinality(S) \in Nat /\ \A T \in SUBSET S : IsFiniteSet(T)
    BY FS_CardinalityType, FS_Subset
<1>2. 0 \in Sizes
    <2>1. ASSUME NEW T \in SUBSET S, Cardinality(T) = 0
          PROVE  \E s : Arranges(s, T, 0, key)
        <3> DEFINE s == [i \in 1 .. 0 |-> 0]
        <3>1. T = {}
            BY <1>1, <2>1, FS_EmptySet
        <3>2. 1 .. 0 = {}
            OBVIOUS
        <3>3. s \in [1 .. 0 -> T]
            BY <3>2
        <3> HIDE DEF s
        <3>4. Arranges(s, T, 0, key)
            BY <3>1, <3>2, <3>3 DEF Arranges, Ascending
        <3>5. QED
            BY <3>4
    <2>2. QED
        BY <1>1, <2>1
<1>3. ASSUME NEW n \in 1 .. Cardinality(S), n - 1 \in Sizes PROVE n \in Sizes
    <2>1. ASSUME NEW T \in SUBSET S, Cardinality(T) = n
          PROVE  \E s : Arranges(s, T, n, key)
        <3>1. IsFiniteSet(T) /\ n \in Nat \ {0}
            BY <1>1
        <3>2. T # {}
            BY <2>1, <3>1, FS_EmptySet
        <3>3. PICK x \in T : TRUE
            BY <3>2
        <3>4. Cardinality(T \ {x}) = n - 1
            BY <2>1, <3>1, FS_RemoveElement
        <3>5. PICK s : Arranges(s, T \ {x}, n - 1, key)
            BY <1>3, <3>4
        <3>6. QED
            BY <3>1, <3>5, Insertion
    <2>2. QED
        BY <2>1
<1>4. Cardinality(S) \in Sizes
    <2>1. Cardinality(S) \in 0 .. Cardinality(S)
        BY <1>1
    <2> HIDE DEF Sizes
    <2>2. 0 .. Cardinality(S) \subseteq Sizes
        BY <1>1, <1>2, <1>3, UpTo
    <2>3. QED
        BY <2>1, <2>2
<1>5. QED
    BY <1>4

\* What a sort by distinct integer keys leaves: the members of the set, each
\* of them once, by ascending key.
LEMMA InOrderSorts ==
    ASSUME NEW S, IsFiniteSet(S), NEW key, \A x \in S : key[x] \in Int,
           \A x, y \in S : key[x] = key[y] => x = y
    PROVE  LET s == InOrder(S, key)
           IN  /\ s \in Seq(S) /\ Len(s) = Cardinality(S) /\ DOMAIN s = 1 .. Len(s)
               /\ \A x \in S : \E i \in 1 .. Len(s) : s[i] = x
               /\ \A i, j \in 1 .. Len(s) : i < j => key[s[i]] < key[s[j]]
               /\ \A i, j \in 1 .. Len(s) : s[i] = s[j] => i = j
<1> DEFINE n == Cardinality(S)
           Sorts(s) == /\ \A x \in S : \E i \in DOMAIN s : s[i] = x
                       /\ \A i, j \in DOMAIN s : i < j => key[s[i]] < key[s[j]]
           s == InOrder(S, key)
<1>1. n \in Nat
    BY FS_CardinalityType
<1>2. \E t \in [1 .. n -> S] : Sorts(t)
    <2>1. PICK t : Arranges(t, S, n, key)
        BY ArrangementExists
    <2>2. t \in [1 .. n -> S] /\ DOMAIN t = 1 .. n
        BY <2>1 DEF Arranges
    <2>3. Sorts(t)
        BY <2>1, <2>2 DEF Arranges, Ascending
    <2> HIDE DEF n, Sorts
    <2>4. QED
        BY <2>2, <2>3
<1>3. s \in [1 .. n -> S] /\ Sorts(s)
    BY <1>2 DEF InOrder
<1> HIDE DEF s, n
<1>4. s \in Seq(S) /\ Len(s) = n /\ DOMAIN s = 1 .. n
    BY <1>1, <1>3
<1>5. ASSUME NEW i \in 1 .. n, NEW j \in 1 .. n, s[i] = s[j] PROVE i = j
    <2>1. ~ (key[s[i]] < key[s[j]]) /\ ~ (key[s[j]] < key[s[i]])
        BY <1>3, <1>5
    <2>2. ~ (i < j) /\ ~ (j < i)
        BY <1>3, <1>4, <2>1
    <2>3. QED
        BY <1>1, <2>2
<1>6. QED
    BY <1>3, <1>4, <1>5 DEF s, n

-----------------------------------------------------------------------------
(***************************************************************************)
(* What a resolution is given: placements that Map has accepted, no two    *)
(* with one id, and the runtime sources of the bound layers.               *)
(***************************************************************************)
Accepted(p) == Placed(p) /\ p.id \in Int /\ p.patch \in DOMAIN Catalogue

WellPlaced(ps) ==
    /\ \E n \in Nat : DOMAIN ps = 1 .. n
    /\ \A p \in Range(ps) : Accepted(p)
    /\ \A p, q \in Range(ps) : p.id = q.id => p = q

Stored(sources) == sources \in [Bound -> RuntimeSource]

LEMMA RangeIsFinite ==
    ASSUME NEW f, NEW n \in Nat, DOMAIN f = 1 .. n
    PROVE  IsFiniteSet(Range(f))
<1>1. IsFiniteSet(1 .. n)
    BY FS_Interval
<1>2. Range(f) = {f[i] : i \in 1 .. n}
    BY DEF Range
<1> DEFINE g == [i \in 1 .. n |-> f[i]]
<1>3. g \in [1 .. n -> Range(f)] /\ \A y \in Range(f) : \E i \in 1 .. n : g[i] = y
    BY <1>2
<1>4. g \in Surjection(1 .. n, Range(f))
    BY <1>3 DEF Surjection
<1>5. QED
    BY <1>1, <1>4, FS_Surjection

\* The in-map cells of a chunk are cells of a plane at positions of the map.
LEMMA InMapPosition ==
    ASSUME NEW o, NEW cell \in InMap(o)
    PROVE  /\ cell \in PlaneCells(Side)
           /\ CellWorld(o, cell) = <<o[1] + cell[1], o[2] + cell[2]>>
           /\ CellWorld(o, cell) \in Coord
           /\ CellWorld(o, cell) \in MapCells
<1> DEFINE w == <<o[1] + cell[1], o[2] + cell[2]>>
<1>1. /\ cell \in PlaneCells(Side) /\ CellWorld(o, cell) # NoCoord
      /\ AreaContains(MapArea, CellWorld(o, cell))
    BY DEF InMap
<1>2. CellWorld(o, cell) = w /\ Fits(w)
    BY <1>1 DEF CellWorld, WhenFits
<1>3. w[1] \in Scalar /\ w[2] \in Scalar
    BY <1>2 DEF Fits
<1>4. w[1] \in Int /\ w[2] \in Int
    BY <1>3, ScalarAssumption DEF Scalar
<1>5. /\ MapArea.min[1] <= w[1] /\ w[1] <= MapArea.max[1]
      /\ MapArea.min[2] <= w[2] /\ w[2] <= MapArea.max[2]
    BY <1>1, <1>2 DEF AreaContains
<1>6. /\ MapArea.min[1] \in Int /\ MapArea.min[2] \in Int
      /\ MapArea.max[1] \in Int /\ MapArea.max[2] \in Int
    BY AreaAssumption, CoordParts
<1> HIDE DEF w
<1>7. w[1] \in MapArea.min[1] .. MapArea.max[1] /\ w[2] \in MapArea.min[2] .. MapArea.max[2]
    BY <1>4, <1>5, <1>6
<1>8. w = <<w[1], w[2]>>
    BY DEF w
<1>9. w \in Coord /\ w \in MapCells
    BY <1>3, <1>7, <1>8 DEF Coord, MapCells
<1>10. QED
    BY <1>1, <1>2, <1>9 DEF w

\* What a local position tells of the placement that has one.
LEMMA ReachedByte ==
    ASSUME NEW p, Accepted(p), NEW l, BindsLayer(p, l), NEW w \in Coord, Reaches(p, w),
           SourceOf(p, l).form = "ready"
    PROVE  SourceOf(p, l).cells[WorldToLocal(p, w)] \in Bytes
<1> DEFINE local == WorldToLocal(p, w)
           x == w[1] - p.position[1]
           y == w[2] - p.position[2]
           v == Reflect(p.reflection, UndoRotate(p.rotation, <<x, y>>))
<1>1. local # NoCoord /\ AreaContains(Catalogue[p.patch].area, local)
    BY DEF Reaches
<1>2. local = v /\ Fits(v)
    BY <1>1 DEF WorldToLocal, WhenFits
<1>3. v \in Int \X Int
    <2>1. p.rotation \in Rotations /\ p.reflection \in Reflections /\ p.position \in Coord
        BY DEF Accepted, Placed
    <2>2. x \in Int /\ y \in Int
        BY <2>1, CoordParts
    <2> HIDE DEF x, y
    <2>3. UndoRotate(p.rotation, <<x, y>>) \in Int \X Int
        BY <2>1, <2>2, TurnedIsVector
    <2>4. PICK a \in Int, b \in Int : UndoRotate(p.rotation, <<x, y>>) = <<a, b>>
        BY <2>3
    <2>5. QED
        BY <2>1, <2>4, TurnedIsVector
<1> HIDE DEF local, v
<1>4. local \in Coord
    BY <1>2, <1>3 DEF Fits, Coord
<1>5. Authored[Catalogue[p.patch].source[l]].cells[local] \in Bytes
    BY <1>1, <1>4, CatalogueAssumption DEF Accepted, BindsLayer, SourceOf
<1>6. QED
    BY <1>5 DEF SourceOf, local

-----------------------------------------------------------------------------
(***************************************************************************)
(* The passes, one at a time.                                              *)
(***************************************************************************)
Start == [values |-> [cell \in {} |-> Zero], error |-> NoError, io |-> FALSE]

LEMMA StartIsPass == Start \in Pass
<1>1. [cell \in {} |-> Zero] \in [{} -> Bytes] /\ {} \in SUBSET PlaneCells(Side)
    OBVIOUS
<1>2. QED
    BY <1>1 DEF Start, Pass

LEMMA PassParts ==
    ASSUME NEW pass \in Pass
    PROVE  /\ DOMAIN pass.values \subseteq PlaneCells(Side)
           /\ pass.values \in [DOMAIN pass.values -> Bytes]
           /\ pass.error \in SourceErrors \cup {NoError}
           /\ pass.io \in BOOLEAN
BY DEF Pass

LEMMA FailedIsPass ==
    ASSUME NEW pass \in Pass, NEW e \in SourceErrors
    PROVE  Failed(pass, e) \in Pass /\ Failed(pass, e).error = e
BY DEF Failed, Pass

\* What Contribute() leaves of a pass and of the bytes found.
Adds(pass, F, found) ==
    /\ Contribute(pass, found) \in Pass
    /\ Contribute(pass, found).error = pass.error
    /\ DOMAIN Contribute(pass, found).values =
           DOMAIN pass.values \cup {cell \in F : HasContribution(found[cell])}
    /\ \A cell \in F : HasContribution(found[cell]) =>
           Contribute(pass, found).values[cell] = found[cell]
    /\ \A cell \in DOMAIN pass.values : ~ (cell \in F /\ HasContribution(found[cell])) =>
           Contribute(pass, found).values[cell] = pass.values[cell]

\* Contribute() adds exactly the bytes that say something.
LEMMA ContributeAdds ==
    ASSUME NEW pass \in Pass, NEW F \in SUBSET PlaneCells(Side), NEW found \in [F -> Bytes]
    PROVE  /\ Contribute(pass, found) \in Pass
           /\ Contribute(pass, found).error = pass.error
           /\ DOMAIN Contribute(pass, found).values =
                  DOMAIN pass.values \cup {cell \in F : HasContribution(found[cell])}
           /\ \A cell \in F : HasContribution(found[cell]) =>
                  Contribute(pass, found).values[cell] = found[cell]
           /\ \A cell \in DOMAIN pass.values : ~ (cell \in F /\ HasContribution(found[cell])) =>
                  Contribute(pass, found).values[cell] = pass.values[cell]
<1> DEFINE new == {cell \in F : HasContribution(found[cell])}
           values == [cell \in DOMAIN pass.values \cup new |->
                         IF cell \in new THEN found[cell] ELSE pass.values[cell]]
           r == Contribute(pass, found)
<1>1. /\ DOMAIN pass.values \subseteq PlaneCells(Side)
      /\ pass.values \in [DOMAIN pass.values -> Bytes]
    BY PassParts
<1>2. DOMAIN found = F
    OBVIOUS
<1>3. r = [pass EXCEPT !.io = TRUE, !.values = values]
    BY <1>2 DEF Contribute
<1>4. /\ DOMAIN values = DOMAIN pass.values \cup new
      /\ \A cell \in new : values[cell] = found[cell]
      /\ \A cell \in DOMAIN pass.values \ new : values[cell] = pass.values[cell]
      /\ values \in [DOMAIN pass.values \cup new -> Bytes]
      /\ DOMAIN pass.values \cup new \in SUBSET PlaneCells(Side)
    BY <1>1
<1> HIDE DEF values, new
<1>5. values \in UNION {[S -> Bytes] : S \in SUBSET PlaneCells(Side)}
    BY <1>4
<1> HIDE DEF r
<1>6. r \in Pass /\ r.error = pass.error /\ r.values = values
    BY <1>3, <1>5 DEF Pass
<1>7. QED
    BY <1>4, <1>6 DEF r, new

LEMMA UnresolvedInMap ==
    ASSUME NEW o, NEW pass
    PROVE  /\ Unresolved(o, pass) \subseteq InMap(o)
           /\ Unresolved(o, pass) \subseteq PlaneCells(Side)
           /\ \A cell \in InMap(o) : cell \in Unresolved(o, pass) <=> cell \notin DOMAIN pass.values
BY DEF Unresolved, InMap

\* What reading the overlay of an existing source finds.
LEMMA RuntimePassReads ==
    ASSUME NEW sources, Stored(sources), NEW l \in Bound, NEW o, NEW pass \in Pass
    PROVE  [cell \in Unresolved(o, pass) |-> sources[l].cells[CellWorld(o, cell)]]
               \in [Unresolved(o, pass) -> Bytes]
<1>1. sources[l].cells \in [MapCells -> Bytes]
    BY DEF Stored, RuntimeSource
<1>2. \A cell \in Unresolved(o, pass) : CellWorld(o, cell) \in MapCells
    BY UnresolvedInMap, InMapPosition
<1>3. QED
    BY <1>1, <1>2

LEMMA RuntimePassIsPass ==
    ASSUME NEW sources, Stored(sources), NEW l, NEW o, NEW pass \in Pass
    PROVE  RuntimePass(sources, l, o, pass) \in Pass
<1> DEFINE source == sources[l]
           found == [cell \in Unresolved(o, pass) |-> source.cells[CellWorld(o, cell)]]
<1>1. [pass EXCEPT !.io = TRUE] \in Pass
    BY DEF Pass
<1>2. "LayerSourceError" \in SourceErrors /\ "RuntimeLayerSourceError" \in SourceErrors
    BY DEF SourceErrors
<1>3. RuntimeFormError(source.form) \in SourceErrors \cup {NoError}
    BY <1>2 DEF RuntimeFormError
<1>4. Failed(pass, "LayerSourceError") \in Pass
    BY <1>2, FailedIsPass
<1>5. RuntimeFormError(source.form) # NoError => Failed(pass, RuntimeFormError(source.form)) \in Pass
    BY <1>3, FailedIsPass
<1>6. l \in Bound => Contribute(pass, found) \in Pass
    <2>1. Unresolved(o, pass) \in SUBSET PlaneCells(Side)
        BY UnresolvedInMap
    <2>2. l \in Bound => found \in [Unresolved(o, pass) -> Bytes]
        BY RuntimePassReads
    <2> HIDE DEF found
    <2>3. QED
        BY <2>1, <2>2, ContributeAdds
<1> HIDE DEF found
<1>7. QED
    BY <1>1, <1>4, <1>5, <1>6 DEF RuntimePass, found

\* What a pass has established when the placements of `seen' have had their
\* turn: the cells they or the overlay answer for hold the final answer, and
\* every source that an answer needed could be read; or one could not.
Answered(ps, sources, l, w, seen) ==
    \/ HasContribution(Overlay(sources, l, w))
    \/ \E p \in Contributing(ps, l, w) : p \in seen

ReadSoFar(ps, sources, l, w, seen) ==
    /\ RuntimeReadable(sources, l, w)
    /\ \A p \in Consulted(ps, sources, l, w) :
           p \in seen => CanRead(SourceOf(p, l), WorldToLocal(p, w))

Sound(pass, ps, sources, l, o, seen) ==
    /\ pass.error = NoError =>
           /\ DOMAIN pass.values =
                  {cell \in InMap(o) : Answered(ps, sources, l, CellWorld(o, cell), seen)}
           /\ \A cell \in DOMAIN pass.values :
                  pass.values[cell] = BackingAt(ps, sources, l, CellWorld(o, cell))
           /\ \A cell \in InMap(o) : ReadSoFar(ps, sources, l, CellWorld(o, cell), seen)
    /\ pass.error # NoError =>
           \E cell \in InMap(o) : ~ Readable(ps, sources, l, CellWorld(o, cell))

LEMMA RuntimePassSound ==
    ASSUME NEW ps, NEW sources, Stored(sources), NEW l, NEW o, InMap(o) # {}
    PROVE  Sound(RuntimePass(sources, l, o, Start), ps, sources, l, o, {})
<1> DEFINE r == RuntimePass(sources, l, o, Start)
           source == sources[l]
           found == [cell \in Unresolved(o, Start) |-> source.cells[CellWorld(o, cell)]]
<1>1. /\ Start \in Pass /\ Start.error = NoError /\ DOMAIN Start.values = {}
      /\ Unresolved(o, Start) = InMap(o)
    BY StartIsPass DEF Start, Unresolved
<1>2. ~ HasContribution(Space)
    BY DEF HasContribution
<1>3. CASE l \notin Bound \/ source.form = "absent"
    <2>1. r.error = NoError /\ r.values = Start.values
        BY <1>1, <1>3 DEF RuntimePass, Pass
    <2>2. \A w : Overlay(sources, l, w) = Space /\ RuntimeReadable(sources, l, w)
        BY <1>3 DEF Overlay, RuntimeReadable, CanRead
    <2> HIDE DEF r
    <2>3. QED
        BY <1>1, <1>2, <2>1, <2>2 DEF Sound, Answered, ReadSoFar, r
<1>4. CASE l \in Bound /\ source.form # "absent"
    <2>1. ASSUME NEW cell \in InMap(o), ~ CanRead(source, CellWorld(o, cell))
          PROVE  ~ Readable(ps, sources, l, CellWorld(o, cell))
        BY <1>4, <2>1 DEF Readable, RuntimeReadable
    <2>2. CASE RuntimeFormError(source.form) # NoError
        <3>1. r = Failed(Start, RuntimeFormError(source.form))
            BY <1>4, <2>2 DEF RuntimePass
        <3>2. r.error # NoError
            BY <2>2, <3>1 DEF Failed, Start
        <3>3. source.form # "ready"
            BY <2>2 DEF RuntimeFormError
        <3>4. PICK cell \in InMap(o) : TRUE
            OBVIOUS
        <3>5. ~ CanRead(source, CellWorld(o, cell))
            BY <3>3 DEF CanRead
        <3> HIDE DEF r
        <3>6. QED
            BY <2>1, <3>2, <3>5 DEF Sound, r
    <2>3. CASE RuntimeFormError(source.form) = NoError /\ ReadFails(source, Positions(o))
        <3>1. r = Failed(Start, "LayerSourceError")
            BY <1>4, <2>3 DEF RuntimePass
        <3>2. r.error # NoError
            BY <3>1 DEF Failed, Start, NoError
        <3>3. PICK cell \in InMap(o) : ~ CanRead(source, CellWorld(o, cell))
            BY <2>3 DEF ReadFails, Positions, CanRead
        <3> HIDE DEF r
        <3>4. QED
            BY <2>1, <3>2, <3>3 DEF Sound, r
    <2>4. CASE RuntimeFormError(source.form) = NoError /\ ~ ReadFails(source, Positions(o))
        <3>1. source.form = "ready"
            BY <1>4, <2>4 DEF Stored, RuntimeSource, Forms, RuntimeFormError, NoError
        <3>2. \A cell \in InMap(o) : CanRead(source, CellWorld(o, cell))
            BY <2>4, <3>1 DEF ReadFails, Positions, CanRead
        <3>3. \A cell \in InMap(o) :
                  /\ Overlay(sources, l, CellWorld(o, cell)) = source.cells[CellWorld(o, cell)]
                  /\ RuntimeReadable(sources, l, CellWorld(o, cell))
            BY <1>4, <3>2 DEF Overlay, RuntimeReadable
        <3>4. r = Contribute(Start, found)
            BY <1>4, <2>4 DEF RuntimePass
        <3>5. found \in [InMap(o) -> Bytes] /\ InMap(o) \in SUBSET PlaneCells(Side)
            BY <1>1, <1>4, RuntimePassReads, UnresolvedInMap
        <3>6. \A cell \in InMap(o) : found[cell] = Overlay(sources, l, CellWorld(o, cell))
            BY <1>1, <3>3
        <3> HIDE DEF found, r
        <3>7. /\ r.error = NoError
              /\ DOMAIN r.values = {cell \in InMap(o) : HasContribution(found[cell])}
              /\ \A cell \in InMap(o) :
                     HasContribution(found[cell]) => r.values[cell] = found[cell]
            <4>1. /\ Contribute(Start, found).error = Start.error
                  /\ DOMAIN Contribute(Start, found).values =
                         DOMAIN Start.values \cup {cell \in InMap(o) : HasContribution(found[cell])}
                  /\ \A cell \in InMap(o) : HasContribution(found[cell]) =>
                         Contribute(Start, found).values[cell] = found[cell]
                <5>1. Start \in Pass
                    BY <1>1
                <5>2. InMap(o) \in SUBSET PlaneCells(Side) /\ found \in [InMap(o) -> Bytes]
                    BY <3>5
                <5>3. \A q \in Pass, G \in SUBSET PlaneCells(Side) :
                          \A h \in [G -> Bytes] : Adds(q, G, h)
                    BY ContributeAdds DEF Adds
                <5>4. Adds(Start, InMap(o), found)
                    BY <5>1, <5>2, <5>3
                <5>5. QED
                    BY <5>4 DEF Adds
            <4>2. QED
                BY <1>1, <3>4, <4>1
        <3>8. DOMAIN r.values = {cell \in InMap(o) : Answered(ps, sources, l, CellWorld(o, cell), {})}
            BY <3>6, <3>7 DEF Answered
        <3>9. \A cell \in DOMAIN r.values :
                  r.values[cell] = BackingAt(ps, sources, l, CellWorld(o, cell))
            BY <3>6, <3>7 DEF BackingAt
        <3>10. QED
            BY <3>3, <3>7, <3>8, <3>9 DEF Sound, ReadSoFar, r
    <2>5. QED
        BY <2>2, <2>3, <2>4
<1>5. QED
    BY <1>3, <1>4

\* What opening a bound source of an accepted placement can come to.
LEMMA AuthoredForms ==
    ASSUME NEW p, Accepted(p), NEW l, BindsLayer(p, l)
    PROVE  /\ AuthoredFormError(SourceOf(p, l).form) \in SourceErrors \cup {NoError}
           /\ AuthoredFormError(SourceOf(p, l).form) = NoError <=> SourceOf(p, l).form = "ready"
<1>1. SourceOf(p, l).form \in Forms
    BY CatalogueAssumption DEF Accepted, BindsLayer, SourceOf
<1>2. QED
    BY <1>1 DEF Forms, AuthoredFormError, SourceErrors, NoError

\* What reading a source at the cells in reach finds.
LEMMA PlacementPassReads ==
    ASSUME NEW p, Accepted(p), NEW l, BindsLayer(p, l), SourceOf(p, l).form = "ready",
           NEW o, NEW pass
    PROVE  /\ Candidates(o, pass, p) \in SUBSET PlaneCells(Side)
           /\ [cell \in Candidates(o, pass, p) |-> SourceOf(p, l).cells[LocalOf(p, o, cell)]]
                  \in [Candidates(o, pass, p) -> Bytes]
<1>1. ASSUME NEW cell \in Candidates(o, pass, p)
      PROVE  SourceOf(p, l).cells[LocalOf(p, o, cell)] \in Bytes
    <2>1. cell \in InMap(o) /\ Reaches(p, CellWorld(o, cell))
        BY UnresolvedInMap DEF Candidates
    <2>2. CellWorld(o, cell) \in Coord
        BY <2>1, InMapPosition
    <2>3. QED
        BY <2>1, <2>2, ReachedByte DEF LocalOf
<1>2. Candidates(o, pass, p) \subseteq PlaneCells(Side)
    BY UnresolvedInMap DEF Candidates
<1>3. QED
    BY <1>1, <1>2

LEMMA PlacementPassIsPass ==
    ASSUME NEW p, Accepted(p), NEW l, NEW o, NEW pass \in Pass
    PROVE  PlacementPass(l, o, pass, p) \in Pass
<1> DEFINE source == SourceOf(p, l)
           candidates == Candidates(o, pass, p)
           found == [cell \in candidates |-> source.cells[LocalOf(p, o, cell)]]
<1>1. CASE ~ Opened(l, o, pass, p)
    BY <1>1 DEF PlacementPass
<1>2. CASE Opened(l, o, pass, p) /\ AuthoredFormError(source.form) # NoError
    <2>1. AuthoredFormError(source.form) \in SourceErrors
        BY <1>2, AuthoredForms DEF Opened
    <2>2. QED
        BY <1>2, <2>1, FailedIsPass DEF PlacementPass
<1>3. CASE /\ Opened(l, o, pass, p) /\ AuthoredFormError(source.form) = NoError
           /\ ReadFails(source, {LocalOf(p, o, cell) : cell \in candidates})
    <2>1. "LayerSourceError" \in SourceErrors
        BY DEF SourceErrors
    <2>2. QED
        BY <1>3, <2>1, FailedIsPass DEF PlacementPass
<1>4. CASE /\ Opened(l, o, pass, p) /\ AuthoredFormError(source.form) = NoError
           /\ ~ ReadFails(source, {LocalOf(p, o, cell) : cell \in candidates})
    <2>1. BindsLayer(p, l) /\ source.form = "ready"
        BY <1>4, AuthoredForms DEF Opened
    <2>2. candidates \in SUBSET PlaneCells(Side) /\ found \in [candidates -> Bytes]
        BY <2>1, PlacementPassReads
    <2>3. PlacementPass(l, o, pass, p) = Contribute(pass, found)
        BY <1>4 DEF PlacementPass
    <2> HIDE DEF found, candidates
    <2>4. Contribute(pass, found) \in Pass
        BY <2>2, ContributeAdds
    <2>5. QED
        BY <2>3, <2>4
<1>5. QED
    BY <1>1, <1>2, <1>3, <1>4

\* The placement whose turn it is decides the cells it is asked for: nothing
\* above it answers there, and nothing below it can.
LEMMA TurnDecides ==
    ASSUME NEW ps, WellPlaced(ps), NEW sources, NEW l, NEW w,
           NEW seen \in SUBSET Range(ps), NEW p \in Range(ps) \ seen,
           \A q \in seen : q.id > p.id, \A q \in Range(ps) \ seen : q.id <= p.id
    PROVE  /\ Answered(ps, sources, l, w, seen) => p \notin Consulted(ps, sources, l, w)
           /\ ~ Answered(ps, sources, l, w, seen) =>
                  /\ p \in Covering(ps, l, w) <=> p \in Consulted(ps, sources, l, w)
                  /\ p \in Contributing(ps, l, w) =>
                         BackingAt(ps, sources, l, w) = AuthoredByte(p, l, w)
<1>1. \A q \in Range(ps) : q.id \in Int
    BY DEF WellPlaced, Accepted
<1>2. \A q \in Contributing(ps, l, w) : q \in Range(ps)
    BY DEF Contributing, Covering
<1>3. ASSUME Answered(ps, sources, l, w, seen), p \in Consulted(ps, sources, l, w)
      PROVE  FALSE
    <2>1. PICK q \in Contributing(ps, l, w) : q \in seen
        BY <1>3 DEF Answered, Consulted
    <2>2. q.id > p.id /\ q.id <= p.id
        BY <1>3, <2>1 DEF Consulted
    <2>3. p.id \in Int /\ q.id \in Int
        BY <1>1, <2>1
    <2>4. QED
        BY <2>2, <2>3
<1>4. ASSUME ~ Answered(ps, sources, l, w, seen)
      PROVE  p \in Covering(ps, l, w) <=> p \in Consulted(ps, sources, l, w)
    BY <1>2, <1>4 DEF Answered, Consulted
<1>5. ASSUME ~ Answered(ps, sources, l, w, seen), p \in Contributing(ps, l, w)
      PROVE  BackingAt(ps, sources, l, w) = AuthoredByte(p, l, w)
    <2> DEFINE top == Topmost(Contributing(ps, l, w))
    <2>1. \A q \in Contributing(ps, l, w) : q.id <= p.id
        BY <1>2, <1>5 DEF Answered
    <2>2. top \in Contributing(ps, l, w) /\ p.id <= top.id
        BY <1>5, <2>1 DEF Topmost
    <2> HIDE DEF top
    <2>3. top.id = p.id
        <3>1. top.id \in Int /\ p.id \in Int
            BY <1>1, <1>2, <2>2
        <3>2. QED
            BY <2>1, <2>2, <3>1
    <2>4. top = p
        BY <1>2, <2>2, <2>3 DEF WellPlaced
    <2>5. QED
        BY <1>5, <2>4 DEF Answered, BackingAt, top
<1>6. QED
    BY <1>3, <1>4, <1>5

LEMMA PlacementPassSound ==
    ASSUME NEW ps, WellPlaced(ps), NEW sources, NEW l, NEW o, NEW pass \in Pass,
           NEW seen \in SUBSET Range(ps), NEW p \in Range(ps) \ seen,
           \A q \in seen : q.id > p.id, \A q \in Range(ps) \ seen : q.id <= p.id,
           Sound(pass, ps, sources, l, o, seen)
    PROVE  Sound(PlacementPass(l, o, pass, p), ps, sources, l, o, seen \cup {p})
<1> DEFINE r == PlacementPass(l, o, pass, p)
           source == SourceOf(p, l)
           candidates == Candidates(o, pass, p)
           found == [cell \in candidates |-> source.cells[LocalOf(p, o, cell)]]
           Before(cell) == Answered(ps, sources, l, CellWorld(o, cell), seen)
           After(cell) == Answered(ps, sources, l, CellWorld(o, cell), seen \cup {p})
           In(cell) == p \in Contributing(ps, l, CellWorld(o, cell))
           Asked(cell) == p \in Consulted(ps, sources, l, CellWorld(o, cell))
           Answers(cell) == CanRead(source, WorldToLocal(p, CellWorld(o, cell)))
<1>1. CASE pass.error # NoError
    <2>1. r = pass
        BY <1>1 DEF PlacementPass, Opened
    <2> HIDE DEF r
    <2>2. QED
        BY <1>1, <2>1 DEF Sound, r
<1>2. CASE pass.error = NoError
    <2>1. Accepted(p)
        BY DEF WellPlaced
    <2>2. /\ DOMAIN pass.values = {cell \in InMap(o) : Before(cell)}
          /\ \A cell \in DOMAIN pass.values :
                 pass.values[cell] = BackingAt(ps, sources, l, CellWorld(o, cell))
          /\ \A cell \in InMap(o) : ReadSoFar(ps, sources, l, CellWorld(o, cell), seen)
        BY <1>2 DEF Sound
    <2>3. \A cell : After(cell) <=> Before(cell) \/ In(cell)
        BY DEF Answered
    <2>4. \A cell : /\ Before(cell) => ~ Asked(cell)
                    /\ ~ Before(cell) =>
                           /\ p \in Covering(ps, l, CellWorld(o, cell)) <=> Asked(cell)
                           /\ In(cell) => BackingAt(ps, sources, l, CellWorld(o, cell))
                                               = AuthoredByte(p, l, CellWorld(o, cell))
        BY TurnDecides
    <2>5. \A cell : cell \in candidates <=>
              cell \in InMap(o) /\ ~ Before(cell) /\ Reaches(p, CellWorld(o, cell))
        BY <2>2, UnresolvedInMap DEF Candidates
    <2>6. \A cell : p \in Covering(ps, l, CellWorld(o, cell)) <=>
              BindsLayer(p, l) /\ Reaches(p, CellWorld(o, cell))
        BY DEF Covering
    <2>7. \A cell : In(cell) => p \in Covering(ps, l, CellWorld(o, cell))
        BY DEF Contributing
    <2>8. \A cell \in InMap(o) :
              /\ (Asked(cell) => Answers(cell)) =>
                     ReadSoFar(ps, sources, l, CellWorld(o, cell), seen \cup {p})
              /\ Asked(cell) /\ ~ Answers(cell) => ~ Readable(ps, sources, l, CellWorld(o, cell))
        BY <2>2 DEF ReadSoFar, Readable
    <2> HIDE DEF Before, After, In, Asked, Answers, candidates
    <2>9. CASE ~ BindsLayer(p, l) \/ candidates = {}
        <3>1. r = pass
            BY <2>9 DEF PlacementPass, Opened, candidates
        <3>2. \A cell \in InMap(o) : (After(cell) <=> Before(cell)) /\ ~ Asked(cell)
            BY <2>3, <2>4, <2>5, <2>6, <2>7, <2>9
        <3>3. {cell \in InMap(o) : Before(cell)} = {cell \in InMap(o) : After(cell)}
            BY <3>2
        <3> HIDE DEF r
        <3>4. /\ DOMAIN r.values = {cell \in InMap(o) : After(cell)}
              /\ \A cell \in DOMAIN r.values :
                     r.values[cell] = BackingAt(ps, sources, l, CellWorld(o, cell))
              /\ \A cell \in InMap(o) : ReadSoFar(ps, sources, l, CellWorld(o, cell), seen \cup {p})
            BY <2>2, <2>8, <3>1, <3>2, <3>3
        <3>5. QED
            BY <1>2, <3>1, <3>4 DEF Sound, After, r
    <2>10. CASE BindsLayer(p, l) /\ candidates # {}
        <3>1. Opened(l, o, pass, p)
            BY <1>2, <2>10 DEF Opened, candidates
        <3>2. \A cell \in candidates : cell \in InMap(o) /\ Asked(cell)
            BY <2>4, <2>5, <2>6, <2>10
        <3>3. CASE AuthoredFormError(source.form) # NoError
            <4>1. r.error # NoError
                BY <3>1, <3>3 DEF PlacementPass, Failed, Pass
            <4>2. \A cell : ~ Answers(cell)
                BY <2>1, <2>10, <3>3, AuthoredForms DEF Answers, CanRead
            <4>3. PICK cell \in candidates : TRUE
                BY <2>10
            <4> HIDE DEF r
            <4>4. QED
                BY <2>8, <3>2, <4>1, <4>2, <4>3 DEF Sound, r
        <3>4. CASE /\ AuthoredFormError(source.form) = NoError
                   /\ ReadFails(source, {LocalOf(p, o, cell) : cell \in candidates})
            <4>1. r = Failed(pass, "LayerSourceError")
                BY <3>1, <3>4 DEF PlacementPass, candidates
            <4>2. r.error # NoError
                BY <4>1 DEF Failed, NoError, Pass
            <4>3. PICK cell \in candidates : ~ Answers(cell)
                BY <3>4 DEF ReadFails, LocalOf, Answers, CanRead
            <4> HIDE DEF r
            <4>4. QED
                BY <2>8, <3>2, <4>2, <4>3 DEF Sound, r
        <3>5. CASE /\ AuthoredFormError(source.form) = NoError
                   /\ ~ ReadFails(source, {LocalOf(p, o, cell) : cell \in candidates})
            <4>1. source.form = "ready"
                BY <2>1, <2>10, <3>5, AuthoredForms
            <4>2. \A cell \in candidates : Answers(cell)
                BY <3>5, <4>1 DEF ReadFails, LocalOf, Answers, CanRead
            <4>3. r = Contribute(pass, found)
                BY <3>1, <3>5 DEF PlacementPass, candidates
            <4>4. candidates \in SUBSET PlaneCells(Side) /\ found \in [candidates -> Bytes]
                BY <2>1, <2>10, <4>1, PlacementPassReads DEF candidates
            <4>5. \A cell \in candidates :
                      found[cell] = AuthoredByte(p, l, CellWorld(o, cell))
                BY <4>2 DEF LocalOf, Answers, AuthoredByte
            <4> HIDE DEF found, r
            <4>6. /\ Contribute(pass, found).error = pass.error
                  /\ DOMAIN Contribute(pass, found).values =
                         DOMAIN pass.values \cup {cell \in candidates : HasContribution(found[cell])}
                  /\ \A cell \in candidates : HasContribution(found[cell]) =>
                         Contribute(pass, found).values[cell] = found[cell]
                  /\ \A cell \in DOMAIN pass.values :
                         ~ (cell \in candidates /\ HasContribution(found[cell])) =>
                             Contribute(pass, found).values[cell] = pass.values[cell]
                <5>1. pass \in Pass
                    OBVIOUS
                <5>2. candidates \in SUBSET PlaneCells(Side)
                    BY <4>4
                <5>3. found \in [candidates -> Bytes]
                    BY <4>4
                <5>4. \A q \in Pass, G \in SUBSET PlaneCells(Side) :
                          \A h \in [G -> Bytes] : Adds(q, G, h)
                    BY ContributeAdds DEF Adds
                <5>5. Adds(pass, candidates, found)
                    BY <5>1, <5>2, <5>3, <5>4
                <5>6. QED
                    BY <5>5 DEF Adds
            <4>7. \A cell \in candidates : HasContribution(found[cell]) <=> In(cell)
                <5>1. \A cell \in candidates : p \in Covering(ps, l, CellWorld(o, cell))
                    BY <2>5, <2>6, <2>10
                <5>2. QED
                    BY <4>5, <5>1 DEF In, Contributing
            <4>8. \A cell \in InMap(o) : In(cell) => Before(cell) \/ cell \in candidates
                BY <2>5, <2>6, <2>7
            <4>9. \A cell \in candidates : cell \in InMap(o) /\ ~ Before(cell)
                BY <2>5
            <4>10. DOMAIN r.values = {cell \in InMap(o) : After(cell)}
                BY <2>2, <2>3, <4>3, <4>6, <4>7, <4>8, <4>9
            <4>11. ASSUME NEW cell \in DOMAIN r.values
                   PROVE  r.values[cell] = BackingAt(ps, sources, l, CellWorld(o, cell))
                <5>1. CASE cell \in candidates
                    BY <2>3, <2>4, <4>3, <4>5, <4>6, <4>7, <4>9, <4>10, <4>11, <5>1
                <5>2. CASE cell \notin candidates
                    BY <2>2, <4>3, <4>6, <4>11, <5>2
                <5>3. QED
                    BY <5>1, <5>2
            <4>12. \A cell \in InMap(o) :
                       ReadSoFar(ps, sources, l, CellWorld(o, cell), seen \cup {p})
                <5>1. \A cell \in InMap(o) : Asked(cell) => cell \in candidates
                    BY <2>4, <2>5, <2>6
                <5>2. QED
                    BY <2>8, <4>2, <5>1
            <4>13. r.error = NoError
                BY <1>2, <4>3, <4>6
            <4>14. QED
                BY <4>10, <4>11, <4>12, <4>13 DEF Sound, After, r
        <3>6. QED
            BY <3>3, <3>4, <3>5
    <2>11. QED
        BY <2>9, <2>10
<1>3. QED
    BY <1>1, <1>2

-----------------------------------------------------------------------------
(***************************************************************************)
(* The whole resolution.                                                   *)
(***************************************************************************)
\* The passes of resolve_chunk(), as the recursion in Resolve builds them.
IsPasses(f, ps, sources, l, o) ==
    f = [k \in 0 .. Len(ByPrecedence(ps)) |->
            IF k = 0 THEN RuntimePass(sources, l, o, Start)
            ELSE PlacementPass(l, o, f[k - 1], ByPrecedence(ps)[k])]

Passes(ps, sources, l, o) == CHOOSE f : IsPasses(f, ps, sources, l, o)

LastPass(ps, sources, l, o) == Passes(ps, sources, l, o)[Len(ByPrecedence(ps))]

LEMMA ResolveIsLastPass ==
    ASSUME NEW ps, NEW sources, NEW l, NEW o
    PROVE  /\ Resolve(ps, sources, l, o).plane = Complete(l, o, LastPass(ps, sources, l, o))
           /\ Resolve(ps, sources, l, o).error = LastPass(ps, sources, l, o).error
           /\ Resolve(ps, sources, l, o).io = LastPass(ps, sources, l, o).io
BY DEF Resolve, LastPass, Passes, IsPasses, Start

\* The turns: every placement once, the highest id first.
LEMMA TurnsDescend ==
    ASSUME NEW ps, WellPlaced(ps)
    PROVE  LET turns == ByPrecedence(ps)
           IN  /\ turns \in Seq(Range(ps)) /\ Len(turns) \in Nat /\ DOMAIN turns = 1 .. Len(turns)
               /\ \A p \in Range(ps) : \E k \in 1 .. Len(turns) : turns[k] = p
               /\ \A j, k \in 1 .. Len(turns) : j < k => turns[j].id > turns[k].id
<1> DEFINE key == [p \in Range(ps) |-> - p.id]
           turns == ByPrecedence(ps)
<1>1. IsFiniteSet(Range(ps))
    BY RangeIsFinite DEF WellPlaced
<1>2. \A p \in Range(ps) : p.id \in Int /\ key[p] = - p.id
    BY DEF WellPlaced, Accepted
<1>3. \A p \in Range(ps) : key[p] \in Int
    BY <1>2
<1>4. \A p, q \in Range(ps) : key[p] = key[q] => p = q
    <2>1. ASSUME NEW p \in Range(ps), NEW q \in Range(ps), key[p] = key[q] PROVE p = q
        <3>1. p.id = q.id
            BY <1>2, <2>1
        <3>2. QED
            BY <3>1 DEF WellPlaced
    <2>2. QED
        BY <2>1
<1>5. turns = InOrder(Range(ps), key)
    BY DEF ByPrecedence
<1> HIDE DEF key, turns
<1>6. /\ turns \in Seq(Range(ps)) /\ DOMAIN turns = 1 .. Len(turns)
      /\ \A p \in Range(ps) : \E k \in 1 .. Len(turns) : turns[k] = p
      /\ \A j, k \in 1 .. Len(turns) : j < k => key[turns[j]] < key[turns[k]]
    BY <1>1, <1>3, <1>4, <1>5, InOrderSorts
<1>7. Len(turns) \in Nat
    BY <1>6
<1>8. ASSUME NEW j \in 1 .. Len(turns), NEW k \in 1 .. Len(turns), j < k
      PROVE  turns[j].id > turns[k].id
    <2>1. turns[j] \in Range(ps) /\ turns[k] \in Range(ps)
        BY <1>6
    <2>2. - turns[j].id < - turns[k].id
        BY <1>2, <1>6, <1>8, <2>1
    <2>3. turns[j].id \in Int /\ turns[k].id \in Int
        BY <1>2, <2>1
    <2>4. QED
        BY <2>2, <2>3
<1>9. QED
    BY <1>6, <1>7, <1>8 DEF turns

\* The recursion is well founded: every turn has its pass.
LEMMA PassesRun ==
    ASSUME NEW ps, WellPlaced(ps), NEW sources, Stored(sources), NEW l, NEW o
    PROVE  LET turns == ByPrecedence(ps)
               pass == Passes(ps, sources, l, o)
           IN  /\ pass \in [0 .. Len(turns) -> Pass]
               /\ pass[0] = RuntimePass(sources, l, o, Start)
               /\ \A k \in 1 .. Len(turns) : pass[k] = PlacementPass(l, o, pass[k - 1], turns[k])
<1> DEFINE turns == ByPrecedence(ps)
           n == Len(turns)
           pass == Passes(ps, sources, l, o)
           first == RuntimePass(sources, l, o, Start)
           step == [k \in 1 .. n |-> [q \in Pass |-> PlacementPass(l, o, q, turns[k])]]
<1>1. n \in Nat /\ \A k \in 1 .. n : turns[k] \in Range(ps)
    BY TurnsDescend
<1>2. \A k \in 1 .. n : Accepted(turns[k])
    BY <1>1 DEF WellPlaced
<1>3. first \in Pass
    BY StartIsPass, RuntimePassIsPass
<1>4. step \in [1 .. n -> [Pass -> Pass]]
    <2>1. ASSUME NEW k \in 1 .. n, NEW q \in Pass PROVE PlacementPass(l, o, q, turns[k]) \in Pass
        BY <1>2, PlacementPassIsPass
    <2>2. QED
        BY <2>1
<1>5. \A k \in 1 .. n, q \in Pass : step[k][q] = PlacementPass(l, o, q, turns[k])
    OBVIOUS
<1> HIDE DEF first, step, turns, n
<1>6. PICK f : Iterates(f, n, Pass, first, step)
    <2>1. n \in Nat /\ step \in Steps(n, Pass)
        BY <1>1, <1>4 DEF Steps
    <2>2. QED
        BY <1>3, <2>1, IterationExists
<1>7. \A k \in 1 .. n : f[k - 1] \in Pass /\ k # 0
    BY <1>1, <1>6 DEF Iterates
<1>8. f = [k \in 0 .. n |-> IF k = 0 THEN first ELSE PlacementPass(l, o, f[k - 1], turns[k])]
    <2>1. \A k \in 0 .. n : f[k] = IF k = 0 THEN first ELSE PlacementPass(l, o, f[k - 1], turns[k])
        <3>1. \A k \in 1 .. n : f[k] = PlacementPass(l, o, f[k - 1], turns[k])
            BY <1>5, <1>6, <1>7 DEF Iterates
        <3>2. \A k \in 0 .. n : k = 0 \/ k \in 1 .. n
            BY <1>1
        <3>3. QED
            BY <1>6, <3>1, <3>2 DEF Iterates
    <2>2. DOMAIN f = 0 .. n /\ f = [k \in 0 .. n |-> f[k]]
        BY <1>6 DEF Iterates
    <2>3. QED
        BY <2>1, <2>2
<1>9. IsPasses(f, ps, sources, l, o)
    BY <1>8 DEF IsPasses, first, turns, n
<1>10. IsPasses(pass, ps, sources, l, o)
    BY <1>9 DEF Passes
<1> HIDE DEF pass
<1>11. pass = [k \in 0 .. n |-> IF k = 0 THEN first ELSE PlacementPass(l, o, pass[k - 1], turns[k])]
    BY <1>10 DEF IsPasses, first, turns, n
<1>12. /\ pass[0] = first
       /\ \A k \in 1 .. n : pass[k] = PlacementPass(l, o, pass[k - 1], turns[k])
       /\ DOMAIN pass = 0 .. n
    <2>1. 0 \in 0 .. n /\ \A k \in 1 .. n : k \in 0 .. n /\ k # 0
        BY <1>1
    <2>2. QED
        BY <1>11, <2>1
<1>13. \A k \in 0 .. n : pass[k] \in Pass
    <2> DEFINE T == {k \in 0 .. n : pass[k] \in Pass}
    <2>1. 0 \in T
        BY <1>1, <1>3, <1>12
    <2>2. ASSUME NEW k \in 1 .. n, k - 1 \in T PROVE k \in T
        BY <1>1, <1>2, <1>12, <2>2, PlacementPassIsPass
    <2> HIDE DEF T
    <2>3. 0 .. n \subseteq T
        BY <1>1, <2>1, <2>2, UpTo
    <2>4. QED
        BY <2>3 DEF T
<1>14. pass \in [0 .. n -> Pass]
    BY <1>11, <1>12, <1>13
<1>15. QED
    BY <1>12, <1>14 DEF first, turns, n, pass

\* A resolution ends in a plane of bytes and in one of the source errors or none.
THEOREM ResolveTyped ==
    ASSUME NEW ps, WellPlaced(ps), NEW sources, Stored(sources), NEW l \in Layers, NEW o
    PROVE  /\ Resolve(ps, sources, l, o).plane \in [PlaneCells(Side) -> Bytes]
           /\ Resolve(ps, sources, l, o).error \in SourceErrors \cup {NoError}
           /\ Resolve(ps, sources, l, o).io \in BOOLEAN
<1> DEFINE last == LastPass(ps, sources, l, o)
<1>1. last \in Pass
    BY PassesRun, TurnsDescend DEF LastPass
<1> HIDE DEF last
<1>2. ASSUME NEW cell \in PlaneCells(Side) PROVE Complete(l, o, last)[cell] \in Bytes
    <2>1. cell \in DOMAIN last.values => last.values[cell] \in Bytes
        BY <1>1, PassParts
    <2>2. cell \in Unresolved(o, last) => FallbackAt[l][CellWorld(o, cell)] \in Bytes
        BY UnresolvedInMap, InMapPosition, FallbackAssumption
    <2>3. Zero \in Bytes
        BY BytesAssumption
    <2>4. QED
        BY <2>1, <2>2, <2>3 DEF Complete
<1>3. Complete(l, o, last) \in [PlaneCells(Side) -> Bytes]
    BY <1>2 DEF Complete
<1>4. last.error \in SourceErrors \cup {NoError} /\ last.io \in BOOLEAN
    BY <1>1, PassParts
<1>5. QED
    BY <1>3, <1>4, ResolveIsLastPass DEF last

\* When every placement has had its turn, the pass is sound for all of them.
LEMMA LastPassSound ==
    ASSUME NEW ps, WellPlaced(ps), NEW sources, Stored(sources), NEW l, NEW o, InMap(o) # {}
    PROVE  Sound(LastPass(ps, sources, l, o), ps, sources, l, o, Range(ps))
<1> DEFINE turns == ByPrecedence(ps)
           n == Len(turns)
           pass == Passes(ps, sources, l, o)
           Seen(k) == {turns[j] : j \in 1 .. k}
           T == {k \in 0 .. n : Sound(pass[k], ps, sources, l, o, Seen(k))}
<1>1. /\ n \in Nat
      /\ \A k \in 1 .. n : turns[k] \in Range(ps)
      /\ \A p \in Range(ps) : \E k \in 1 .. n : turns[k] = p
      /\ \A j, k \in 1 .. n : j < k => turns[j].id > turns[k].id
    <2>1. turns \in Seq(Range(ps)) /\ n \in Nat /\ DOMAIN turns = 1 .. n
        BY TurnsDescend
    <2>2. \A p \in Range(ps) : \E k \in 1 .. n : turns[k] = p
        BY TurnsDescend
    <2>3. \A j, k \in 1 .. n : j < k => turns[j].id > turns[k].id
        BY TurnsDescend
    <2> HIDE DEF turns, n
    <2>4. QED
        BY ONLY <2>1, <2>2, <2>3
<1>2. /\ pass \in [0 .. n -> Pass]
      /\ pass[0] = RuntimePass(sources, l, o, Start)
      /\ \A k \in 1 .. n : pass[k] = PlacementPass(l, o, pass[k - 1], turns[k])
    BY PassesRun
<1> HIDE DEF turns, n, pass
<1>3. 0 \in T
    <2>1. Seen(0) = {}
        OBVIOUS
    <2>2. Sound(pass[0], ps, sources, l, o, {})
        BY <1>2, RuntimePassSound
    <2>3. QED
        BY <1>1, <2>1, <2>2
<1>4. ASSUME NEW k \in 1 .. n, k - 1 \in T PROVE k \in T
    <2> DEFINE p == turns[k]
               seen == Seen(k - 1)
    <2>1. k - 1 \in 0 .. n /\ k \in 0 .. n /\ k \in Int
        BY <1>1
    <2>2. pass[k - 1] \in Pass
        BY <1>2, <2>1
    <2>3. \A q \in seen : q.id > p.id
        BY <1>1
    <2>4. seen \in SUBSET Range(ps)
        BY <1>1
    <2>5. p \in Range(ps) /\ p.id \in Int
        BY <1>1 DEF WellPlaced, Accepted
    <2>6. p \notin seen
        BY <2>3, <2>5
    <2>7. \A q \in Range(ps) \ seen : q.id <= p.id
        <3>1. ASSUME NEW q \in Range(ps) \ seen PROVE q.id <= p.id
            <4>1. PICK j \in 1 .. n : turns[j] = q
                BY <1>1
            <4>2. j \notin 1 .. k - 1
                BY <3>1, <4>1
            <4>3. j = k \/ k < j
                BY <1>1, <4>1, <4>2
            <4>4. q.id \in Int
                BY <3>1 DEF WellPlaced, Accepted
            <4>5. CASE j = k
                BY <2>5, <4>1, <4>5
            <4>6. CASE k < j
                BY <1>1, <2>5, <4>1, <4>4, <4>6
            <4>7. QED
                BY <4>3, <4>5, <4>6
        <3>2. QED
            BY <3>1
    <2>8. Seen(k) = seen \cup {p}
        <3>1. \A j : j \in 1 .. k <=> j \in 1 .. k - 1 \/ j = k
            BY <1>1
        <3>2. QED
            BY <3>1
    <2>9. Sound(pass[k - 1], ps, sources, l, o, seen)
        BY <1>4
    <2> HIDE DEF seen, p, Seen
    <2>10. p \in Range(ps) \ seen
        BY <2>5, <2>6
    <2>11. Sound(PlacementPass(l, o, pass[k - 1], p), ps, sources, l, o, seen \cup {p})
        BY <2>2, <2>3, <2>4, <2>7, <2>9, <2>10, PlacementPassSound
    <2>12. QED
        BY <1>2, <2>1, <2>8, <2>11 DEF p
<1>5. n \in T
    <2> HIDE DEF T
    <2>1. 0 .. n \subseteq T
        BY <1>1, <1>3, <1>4, UpTo
    <2>2. QED
        BY <1>1, <2>1
<1>6. Seen(n) = Range(ps)
    BY <1>1
<1>7. QED
    BY <1>5, <1>6 DEF LastPass, turns, n, pass

\* resolve_chunk() computes the stated precedence: it fails exactly when a
\* source that one of the cells needs cannot be read, and otherwise answers
\* every in-map cell with its backing value and the padding with value_type{}.
THEOREM ResolveMatchesReference ==
    ASSUME NEW ps, WellPlaced(ps), NEW sources, Stored(sources), NEW l, NEW o, InMap(o) # {}
    PROVE  LET r == Resolve(ps, sources, l, o)
           IN  /\ r.error = NoError <=> \A w \in Positions(o) : Readable(ps, sources, l, w)
               /\ r.error = NoError =>
                      r.plane = [cell \in PlaneCells(Side) |->
                          IF cell \in InMap(o) THEN BackingAt(ps, sources, l, CellWorld(o, cell))
                          ELSE Zero]
<1> DEFINE last == LastPass(ps, sources, l, o)
           r == Resolve(ps, sources, l, o)
<1>1. Sound(last, ps, sources, l, o, Range(ps))
    BY LastPassSound
<1>2. \A w : /\ Answered(ps, sources, l, w, Range(ps)) <=>
                     HasContribution(Overlay(sources, l, w)) \/ Contributing(ps, l, w) # {}
             /\ ReadSoFar(ps, sources, l, w, Range(ps)) <=> Readable(ps, sources, l, w)
    BY DEF Answered, ReadSoFar, Readable, Contributing, Consulted, Covering
<1>3. r.error = last.error /\ r.plane = Complete(l, o, last)
    BY ResolveIsLastPass
<1> HIDE DEF last, r
<1>4. r.error = NoError <=> \A w \in Positions(o) : Readable(ps, sources, l, w)
    BY <1>1, <1>2, <1>3 DEF Sound, Positions
<1>5. ASSUME r.error = NoError
      PROVE  r.plane = [cell \in PlaneCells(Side) |->
                 IF cell \in InMap(o) THEN BackingAt(ps, sources, l, CellWorld(o, cell)) ELSE Zero]
    <2>1. /\ DOMAIN last.values =
                 {cell \in InMap(o) : Answered(ps, sources, l, CellWorld(o, cell), Range(ps))}
          /\ \A cell \in DOMAIN last.values :
                 last.values[cell] = BackingAt(ps, sources, l, CellWorld(o, cell))
        BY <1>1, <1>3, <1>5 DEF Sound
    <2>2. \A cell \in InMap(o) : cell \notin DOMAIN last.values =>
              BackingAt(ps, sources, l, CellWorld(o, cell)) = FallbackAt[l][CellWorld(o, cell)]
        BY <1>2, <2>1 DEF BackingAt
    <2>3. ASSUME NEW cell \in PlaneCells(Side)
          PROVE  Complete(l, o, last)[cell] =
                     IF cell \in InMap(o) THEN BackingAt(ps, sources, l, CellWorld(o, cell)) ELSE Zero
        BY <2>1, <2>2, UnresolvedInMap DEF Complete
    <2>4. DOMAIN Complete(l, o, last) = PlaneCells(Side)
          /\ Complete(l, o, last) = [cell \in PlaneCells(Side) |-> Complete(l, o, last)[cell]]
        BY DEF Complete
    <2>5. QED
        BY <1>3, <2>3, <2>4
<1>6. QED
    BY <1>4, <1>5 DEF r

-----------------------------------------------------------------------------
\* No chunk of the map starts below the range of the scalar, so that its origin
\* is a coordinate.  The run map_limit shows a map that breaks this.
GridFits == \A d \in 1 .. 2 : MapArea.min[d] - (MapArea.min[d] % Side) \in Scalar

Chunks == {o \in Coord : Aligned(o, Side)}

-----------------------------------------------------------------------------
\* The quotient and remainder of a number are its only ones.
LEMMA RemainderOf ==
    ASSUME NEW o \in Int, o % Side = 0, NEW c \in 0 .. Side - 1
    PROVE  (o + c) % Side = c
<1> DEFINE p == o \div Side
           q == (o + c) \div Side
           r == (o + c) % Side
<1>1. Side \in Nat \ {0} /\ c \in Int /\ c < Side /\ 0 <= c
    BY SideAssumption
<1>2. p \in Int /\ o - 0 = Side * p
    BY <1>1, FloorFacts
<1>3. q \in Int /\ r \in 0 .. Side - 1 /\ (o + c) - r = Side * q
    <2> DEFINE n == o + c
    <2>1. n \in Int
        BY <1>1
    <2> HIDE DEF n
    <2>2. n \div Side \in Int /\ n % Side \in 0 .. Side - 1 /\ n - (n % Side) = Side * (n \div Side)
        BY <1>1, <2>1, FloorFacts
    <2>3. QED
        BY <2>2 DEF n
<1> HIDE DEF p, q, r
<1>4. Side * q - Side * p = c - r
    BY <1>1, <1>2, <1>3
<1>5. ~ (q > p)
    <2> SUFFICES ASSUME q > p PROVE FALSE
        OBVIOUS
    <2>1. PICK k \in Nat : q = p + 1 + k
        BY <1>2, <1>3
    <2>2. Side * q = Side * p + Side + Side * k
        BY <1>1, <1>2, <2>1
    <2>3. Side * k >= 0 /\ Side * k \in Int /\ Side * p \in Int
        BY <1>1, <1>2
    <2>4. QED
        BY <1>1, <1>3, <1>4, <2>2, <2>3
<1>6. ~ (q < p)
    <2> SUFFICES ASSUME q < p PROVE FALSE
        OBVIOUS
    <2>1. PICK k \in Nat : p = q + 1 + k
        BY <1>2, <1>3
    <2>2. Side * p = Side * q + Side + Side * k
        BY <1>1, <1>3, <2>1
    <2>3. Side * k >= 0 /\ Side * k \in Int /\ Side * q \in Int
        BY <1>1, <1>3
    <2>4. QED
        BY <1>1, <1>3, <1>4, <2>2, <2>3
<1>7. q = p
    BY <1>2, <1>3, <1>5, <1>6
<1>8. r = c
    BY <1>1, <1>2, <1>3, <1>4, <1>7
<1>9. QED
    BY <1>8 DEF r

\* A cell of an aligned chunk that is a position of the map is the cell at
\* which a lookup of the position ends.
LEMMA CellOfChunk ==
    ASSUME NEW o \in Chunks, NEW cell \in InMap(o)
    PROVE  /\ ChunkAt(CellWorld(o, cell)) = o
           /\ LocalCell(CellWorld(o, cell)) = cell
           /\ CellWorld(o, cell) \in MapCells
<1> DEFINE w == CellWorld(o, cell)
<1>1. /\ w = <<o[1] + cell[1], o[2] + cell[2]>> /\ w \in Coord /\ w \in MapCells
      /\ cell \in PlaneCells(Side)
    BY InMapPosition
<1>2. /\ o = <<o[1], o[2]>> /\ o[1] \in Int /\ o[2] \in Int /\ o[1] \in Scalar /\ o[2] \in Scalar
      /\ o[1] % Side = 0 /\ o[2] % Side = 0
    BY CoordParts DEF Chunks, Aligned
<1>3. cell = <<cell[1], cell[2]>> /\ cell[1] \in 0 .. Side - 1 /\ cell[2] \in 0 .. Side - 1
    BY <1>1 DEF PlaneCells
<1> HIDE DEF w
<1>4. w[1] = o[1] + cell[1] /\ w[2] = o[2] + cell[2]
    BY <1>1
<1>5. w[1] % Side = cell[1] /\ w[2] % Side = cell[2]
    BY <1>2, <1>3, <1>4, RemainderOf
<1>6. cell[1] \in Int /\ cell[2] \in Int
    BY <1>3, SideAssumption
<1>7. w[1] - (w[1] % Side) = o[1] /\ w[2] - (w[2] % Side) = o[2]
    BY <1>2, <1>4, <1>5, <1>6
<1>8. AlignDown(w[1], Side) = o[1] /\ AlignDown(w[2], Side) = o[2]
    BY <1>2, <1>7, WrapInRange DEF AlignDown
<1>9. ChunkAt(w) = o
    BY <1>2, <1>8 DEF ChunkAt, ChunkOrigin
<1>10. LocalCell(w) = cell
    BY <1>2, <1>3, <1>4, <1>6, <1>9 DEF LocalCell
<1>11. QED
    BY <1>1, <1>9, <1>10 DEF w

\* Flooring is monotonic.
LEMMA FloorMonotonic ==
    ASSUME NEW m \in Int, NEW n \in Int, m <= n
    PROVE  m - (m % Side) <= n - (n % Side)
<1> DEFINE p == m \div Side
           q == n \div Side
<1>1. Side \in Nat \ {0}
    BY SideAssumption
<1>2. /\ p \in Int /\ m % Side \in 0 .. Side - 1 /\ m - (m % Side) = Side * p
      /\ q \in Int /\ n % Side \in 0 .. Side - 1 /\ n - (n % Side) = Side * q
    BY <1>1, FloorFacts
<1> HIDE DEF p, q
<1>3. ~ (q < p)
    <2> SUFFICES ASSUME q < p PROVE FALSE
        OBVIOUS
    <2>1. PICK k \in Nat : p = q + 1 + k
        BY <1>2
    <2>2. Side * p = Side * q + Side + Side * k
        BY <1>1, <1>2, <2>1
    <2>3. Side * k >= 0 /\ Side * k \in Int /\ Side * q \in Int
        BY <1>1, <1>2
    <2>4. QED
        BY <1>1, <1>2, <2>2, <2>3
<1>4. PICK k \in Nat : q = p + k
    BY <1>2, <1>3
<1>5. Side * q = Side * p + Side * k
    BY <1>1, <1>2, <1>4
<1>6. Side * k >= 0 /\ Side * k \in Int /\ Side * p \in Int
    BY <1>1, <1>2
<1>7. QED
    BY <1>2, <1>5, <1>6

\* A cell of the map is a position that area() contains, and the other way round.
LEMMA MapPosition ==
    ASSUME NEW w \in MapCells
    PROVE  w \in Coord /\ AreaContains(MapArea, w)
<1>1. /\ w = <<w[1], w[2]>>
      /\ w[1] \in MapArea.min[1] .. MapArea.max[1] /\ w[2] \in MapArea.min[2] .. MapArea.max[2]
    BY DEF MapCells
<1>2. /\ MapArea.min[1] \in Scalar /\ MapArea.max[1] \in Scalar
      /\ MapArea.min[2] \in Scalar /\ MapArea.max[2] \in Scalar
    BY AreaAssumption, CoordParts
<1>3. w[1] \in Scalar /\ w[2] \in Scalar
    BY <1>1, <1>2, ScalarAssumption DEF Scalar
<1>4. AreaContains(MapArea, w)
    BY <1>1, <1>2, ScalarAssumption DEF AreaContains, Scalar
<1>5. QED
    BY <1>1, <1>3, <1>4 DEF Coord

LEMMA PositionsOfMap ==
    ASSUME NEW w \in Coord, AreaContains(MapArea, w)
    PROVE  w \in MapCells
<1>1. w = <<w[1], w[2]>> /\ w[1] \in Int /\ w[2] \in Int
    BY CoordParts
<1>2. /\ MapArea.min[1] \in Int /\ MapArea.max[1] \in Int
      /\ MapArea.min[2] \in Int /\ MapArea.max[2] \in Int
    BY AreaAssumption, CoordParts
<1>3. w[1] \in MapArea.min[1] .. MapArea.max[1] /\ w[2] \in MapArea.min[2] .. MapArea.max[2]
    BY <1>1, <1>2 DEF AreaContains
<1>4. QED
    BY <1>1, <1>3 DEF MapCells

\* The chunk of a position of the map is aligned and holds it.
LEMMA ChunkOfPosition ==
    ASSUME GridFits, NEW w \in MapCells
    PROVE  /\ ChunkAt(w) \in Chunks
           /\ LocalCell(w) \in InMap(ChunkAt(w))
           /\ CellWorld(ChunkAt(w), LocalCell(w)) = w
<1> DEFINE o == ChunkAt(w)
           cell == LocalCell(w)
<1>1. /\ w \in Coord /\ AreaContains(MapArea, w)
      /\ w = <<w[1], w[2]>> /\ w[1] \in Scalar /\ w[2] \in Scalar /\ w[1] \in Int /\ w[2] \in Int
    BY MapPosition, CoordParts
<1>2. ASSUME NEW d \in 1 .. 2
      PROVE  w[d] - (w[d] % Side) \in Scalar /\ w[d] % Side \in 0 .. Side - 1
             /\ (w[d] - (w[d] % Side)) % Side = 0
    <2>1. MapArea.min[d] \in Int /\ MapArea.min[d] <= w[d] /\ w[d] \in Scalar /\ w[d] \in Int
        BY <1>1, <1>2, AreaAssumption, CoordParts DEF AreaContains
    <2>2. MapArea.min[d] - (MapArea.min[d] % Side) <= w[d] - (w[d] % Side)
        BY <2>1, FloorMonotonic
    <2>3. w[d] % Side \in 0 .. Side - 1 /\ (w[d] - (w[d] % Side)) % Side = 0
        BY <2>1, SideAssumption, FloorFacts
    <2>4. MapArea.min[d] - (MapArea.min[d] % Side) \in Scalar
        BY DEF GridFits
    <2>5. w[d] - (w[d] % Side) <= w[d] /\ w[d] - (w[d] % Side) \in Int
        BY <2>1, <2>3, SideAssumption
    <2>6. QED
        BY <2>1, <2>2, <2>3, <2>4, <2>5, ScalarAssumption DEF Scalar
<1>3. 1 \in 1 .. 2 /\ 2 \in 1 .. 2
    OBVIOUS
<1>4. /\ AlignDown(w[1], Side) = w[1] - (w[1] % Side)
      /\ AlignDown(w[2], Side) = w[2] - (w[2] % Side)
    BY <1>2, <1>3, WrapInRange DEF AlignDown
<1>5. o = <<w[1] - (w[1] % Side), w[2] - (w[2] % Side)>>
    BY <1>4 DEF ChunkAt, ChunkOrigin
<1>6. o \in Chunks
    BY <1>2, <1>3, <1>5, SideAssumption DEF Chunks, Coord, Aligned
<1>7. /\ o[1] = w[1] - (w[1] % Side) /\ o[2] = w[2] - (w[2] % Side)
      /\ w[1] % Side \in Int /\ w[2] % Side \in Int
    BY <1>2, <1>3, <1>5, SideAssumption
<1>8. cell = <<w[1] - o[1], w[2] - o[2]>>
    BY DEF LocalCell
<1> HIDE DEF o, cell
<1>9. cell = <<w[1] % Side, w[2] % Side>>
    BY <1>1, <1>7, <1>8
<1>10. cell \in PlaneCells(Side)
    BY <1>2, <1>3, <1>9 DEF PlaneCells
<1>11. <<o[1] + cell[1], o[2] + cell[2]>> = w
    BY <1>1, <1>7, <1>9
<1>12. CellWorld(o, cell) = w
    BY <1>1, <1>11 DEF CellWorld, WhenFits, Fits
<1>13. w # NoCoord
    BY <1>1 DEF NoCoord, Coord
<1>14. cell \in InMap(o)
    BY <1>1, <1>10, <1>12, <1>13 DEF InMap
<1>15. QED
    BY <1>6, <1>12, <1>14 DEF o, cell

-----------------------------------------------------------------------------
(***************************************************************************)
(* The slot operators are those of CacheSlots, and so are their facts.     *)
(***************************************************************************)
Slots == INSTANCE CacheSlotsProofs WITH
    Origins <- Coord,
    AlignedOrigins <- {o \in Coord : Aligned(o, Side)},
    Home <- <<0, 0>>,
    Cells <- PlaneCells(Side),
    Values <- Bytes,
    Sides <- {Side},
    ChunkSide <- Side

Arrays == [SlotIds -> Slot]

\* The plane a lookup leads to.
PlaneAt(s, l, o) == s[FindSlot(s, o)].planes[l]

\* What CacheSlots asks of its parameters holds of those Map gives it.
LEMMA SlotAssumptions ==
    /\ Slots!CapacityAssumption
    /\ Slots!OriginsAssumption
    /\ Slots!ValuesAssumption
    /\ Slots!SidesAssumption
<1>1. 0 \in Scalar
    BY ScalarAssumption DEF Scalar
<1>2. <<0, 0>> \in Coord
    BY <1>1 DEF Coord
<1>3. QED
    BY <1>2, BoundsAssumption, BytesAssumption
       DEF Slots!CapacityAssumption, Slots!OriginsAssumption, Slots!ValuesAssumption,
           Slots!SidesAssumption

\* Map and the lemmas about CacheSlots speak of the same operators.
LEMMA SameTypes ==
    /\ SlotIds = Slots!SlotIds /\ Slot = Slots!Slot
    /\ Arrays = Slots!SlotArrays
    /\ EmptySlots = Slots!EmptySlots
    /\ Slots!Plane = [PlaneCells(Side) -> Bytes]
BY DEF SlotIds, Slots!SlotIds, Slot, Slots!Slot, Plane, Slots!Plane,
       Arrays, Slots!SlotArrays, EmptySlots, Slots!EmptySlots, EmptySlot, Slots!EmptySlot,
       NoLayers, Slots!NoLayers

LEMMA SameLookups ==
    ASSUME NEW s, NEW o
    PROVE  /\ HasSlot(s, o) <=> Slots!HasSlot(s, o)
           /\ FindSlot(s, o) = Slots!FindSlot(s, o)
           /\ FreeSlots(s) = Slots!FreeSlots(s)
           /\ FindFreeSlot(s) = Slots!FindFreeSlot(s)
           /\ HasDirty(s) <=> Slots!HasDirty(s)
           /\ Consistent(s) <=> Slots!Consistent(s)
<1>1. /\ HasSlot(s, o) <=> Slots!HasSlot(s, o)
      /\ FindSlot(s, o) = Slots!FindSlot(s, o)
      /\ FreeSlots(s) = Slots!FreeSlots(s)
      /\ FindFreeSlot(s) = Slots!FindFreeSlot(s)
    BY DEF SlotIds, Slots!SlotIds, HasSlot, Slots!HasSlot, Holders, Slots!Holders, FindSlot,
           Slots!FindSlot, First, Slots!First, FreeSlots, Slots!FreeSlots, FindFreeSlot,
           Slots!FindFreeSlot
<1>2. HasDirty(s) <=> Slots!HasDirty(s)
    BY DEF SlotIds, Slots!SlotIds, HasDirty, Slots!HasDirty, SlotDirty, Slots!SlotDirty
<1>3. Consistent(s) <=> Slots!Consistent(s)
    BY DEF SlotIds, Slots!SlotIds, Consistent, Slots!Consistent, WellFormed, Slots!WellFormed,
           OneSlotPerOrigin, Slots!OneSlotPerOrigin
<1>4. QED
    BY <1>1, <1>2, <1>3

LEMMA SameAnswers ==
    ASSUME NEW s, NEW l, NEW o
    PROVE  /\ Resident(s, l, o) <=> Slots!Resident(s, l, o)
           /\ IsDirty(s, l, o) <=> Slots!IsDirty(s, l, o)
           /\ PlaneAt(s, l, o) = Slots!PlaneOf(s, l, o)
           /\ MayOverwrite(s, l, o) <=> Slots!MayOverwrite(s, l, o)
BY SameLookups
   DEF Resident, Slots!Resident, IsDirty, Slots!IsDirty, PlaneAt, Slots!PlaneOf,
       MayOverwrite, Slots!MayOverwrite

LEMMA SameFilled ==
    ASSUME NEW s, NEW l, NEW o, NEW plane
    PROVE  Filled(s, l, o, plane) = Slots!Filled(s, l, o, plane)
<1>1. /\ FindSlot(s, o) = Slots!FindSlot(s, o) /\ FindFreeSlot(s) = Slots!FindFreeSlot(s)
      /\ HasSlot(s, o) <=> Slots!HasSlot(s, o)
    BY SameLookups
<1>2. \A slot : Installed(slot, l, plane) = Slots!Installed(slot, l, plane)
    BY DEF Installed, Slots!Installed
<1>3. \A slot : Claimed(slot, o) = Slots!Claimed(slot, o)
    BY DEF Claimed, Slots!Claimed, NoLayers, Slots!NoLayers
<1>4. QED
    BY <1>1, <1>2, <1>3 DEF Filled, Slots!Filled

LEMMA SameWithCell ==
    ASSUME NEW s, NEW l, NEW o, NEW c, NEW v
    PROVE  WithCell(s, l, o, c, v) = Slots!WithCell(s, l, o, c, v)
<1>1. FindSlot(s, o) = Slots!FindSlot(s, o)
    BY SameLookups
<1>2. QED
    BY <1>1, Zenon DEF WithCell, Slots!WithCell, ValueAt, Slots!ValueAt

LEMMA SameCleaned ==
    ASSUME NEW s, NEW l, NEW o
    PROVE  Cleaned(s, l, o) = Slots!Cleaned(s, l, o)
<1>1. FindSlot(s, o) = Slots!FindSlot(s, o)
    BY SameLookups
<1>2. QED
    BY <1>1, Zenon DEF Cleaned, Slots!Cleaned

-----------------------------------------------------------------------------
(***************************************************************************)
(* What the cache operations do to the planes a Map looks up.              *)
(***************************************************************************)
Stable(s, t, m, p) ==
    /\ Resident(t, m, p) <=> Resident(s, m, p)
    /\ IsDirty(t, m, p) <=> IsDirty(s, m, p)
    /\ Resident(s, m, p) => PlaneAt(t, m, p) = PlaneAt(s, m, p)

\* An empty array holds no plane.
LEMMA EmptyArray ==
    /\ EmptySlots \in Arrays /\ Consistent(EmptySlots)
    /\ \A m, p : ~ Resident(EmptySlots, m, p) /\ ~ IsDirty(EmptySlots, m, p)
<1>1. Slots!EmptySlots \in Slots!SlotArrays /\ Slots!Consistent(Slots!EmptySlots)
    BY SlotAssumptions, Slots!EmptySlotsConsistent
<1>2. \A m, p : ~ Slots!Resident(Slots!EmptySlots, m, p) /\ ~ Slots!IsDirty(Slots!EmptySlots, m, p)
    BY SlotAssumptions, Slots!EmptySlotsAnswer
<1>3. QED
    BY <1>1, <1>2, SameTypes, SameLookups, SameAnswers

\* A plane that is found is a plane, in a slot of an aligned chunk.
LEMMA PlaneIsTyped ==
    ASSUME NEW s \in Arrays, Consistent(s), NEW l \in Layers, NEW o, Resident(s, l, o)
    PROVE  PlaneAt(s, l, o) \in [PlaneCells(Side) -> Bytes] /\ HasSlot(s, o) /\ o \in Chunks
<1>1. Slots!HasSlot(s, o) /\ HasSlot(s, o)
    BY SameLookups DEF Resident
<1>2. /\ FindSlot(s, o) \in SlotIds /\ s[FindSlot(s, o)].occupied
      /\ s[FindSlot(s, o)].origin = o
    BY <1>1, SlotAssumptions, SameTypes, SameLookups, Slots!FindSlotHolds
<1>3. s[FindSlot(s, o)] \in Slot /\ WellFormed(s[FindSlot(s, o)])
    BY <1>2 DEF Arrays, Consistent
<1>4. s[FindSlot(s, o)].planes \in [Layers -> [PlaneCells(Side) -> Bytes]]
    BY <1>3 DEF Slot, Plane
<1>5. QED
    BY <1>1, <1>2, <1>3, <1>4 DEF PlaneAt, WellFormed, Chunks

\* fill() on an origin that it accepts.
LEMMA Filling ==
    ASSUME NEW s \in Arrays, Consistent(s), NEW l \in Layers, NEW o \in Chunks,
           NEW plane \in [PlaneCells(Side) -> Bytes],
           HasSlot(s, o) \/ FreeSlots(s) # {}, MayOverwrite(s, l, o), NEW t, t = Filled(s, l, o, plane)
    PROVE  /\ t \in Arrays /\ Consistent(t)
           /\ Resident(t, l, o) /\ PlaneAt(t, l, o) = plane
           /\ IsDirty(t, l, o) <=> IsDirty(s, l, o)
           /\ \A m \in Layers : \A p : ~ (m = l /\ p = o) => Stable(s, t, m, p)
<1>1. /\ s \in Slots!SlotArrays /\ Slots!Consistent(s) /\ plane \in Slots!Plane
      /\ o \in {c \in Coord : Aligned(c, Side)}
      /\ Slots!HasSlot(s, o) \/ Slots!FreeSlots(s) # {}
      /\ Slots!MayOverwrite(s, l, o)
    BY SameTypes, SameLookups, SameAnswers DEF Chunks
<1>2. Slots!Filled(s, l, o, plane) \in Slots!SlotArrays /\ Slots!Consistent(Slots!Filled(s, l, o, plane))
    BY <1>1, SlotAssumptions, Slots!FilledConsistent
<1>3. t = Slots!Filled(s, l, o, plane)
    BY SameFilled
<1>4. ASSUME NEW m \in Layers, NEW p
      PROVE  /\ Slots!Resident(t, m, p) <=> Slots!Resident(s, m, p) \/ (m = l /\ p = o)
             /\ Slots!IsDirty(t, m, p) <=> Slots!IsDirty(s, m, p)
             /\ Slots!Resident(s, m, p) /\ ~ (m = l /\ p = o) =>
                    Slots!PlaneOf(t, m, p) = Slots!PlaneOf(s, m, p)
             /\ Slots!PlaneOf(t, l, o) = plane
    BY <1>1, <1>3, SlotAssumptions, Slots!FilledAnswers
<1>5. t \in Arrays /\ Consistent(t)
    BY <1>2, <1>3, SameTypes, SameLookups
<1>6. Resident(t, l, o) /\ PlaneAt(t, l, o) = plane /\ (IsDirty(t, l, o) <=> IsDirty(s, l, o))
    BY <1>4, SameAnswers
<1>7. ASSUME NEW m \in Layers, NEW p, ~ (m = l /\ p = o) PROVE Stable(s, t, m, p)
    BY <1>4, <1>7, SameAnswers DEF Stable
<1>8. QED
    BY <1>5, <1>6, <1>7

\* set() on a resident plane.
LEMMA Setting ==
    ASSUME NEW s \in Arrays, Consistent(s), NEW l \in Layers, NEW o, Resident(s, l, o),
           NEW c \in PlaneCells(Side), NEW v \in Bytes, NEW t, t = WithCell(s, l, o, c, v)
    PROVE  /\ t \in Arrays /\ Consistent(t)
           /\ Resident(t, l, o)
           /\ PlaneAt(t, l, o) = [PlaneAt(s, l, o) EXCEPT ![c] = v]
           /\ IsDirty(t, l, o) <=> IsDirty(s, l, o) \/ PlaneAt(s, l, o)[c] # v
           /\ \A m \in Layers : \A p : ~ (m = l /\ p = o) => Stable(s, t, m, p)
<1>1. s \in Slots!SlotArrays /\ Slots!Consistent(s) /\ Slots!Resident(s, l, o)
    BY SameTypes, SameLookups, SameAnswers
<1>2. t = Slots!WithCell(s, l, o, c, v)
    BY SameWithCell
<1>3. t \in Slots!SlotArrays /\ Slots!Consistent(t)
    BY <1>1, <1>2, SlotAssumptions, Slots!WithCellConsistent
<1>4. ASSUME NEW m \in Layers, NEW p
      PROVE  /\ Slots!Resident(t, m, p) <=> Slots!Resident(s, m, p)
             /\ Slots!IsDirty(t, m, p) <=>
                    Slots!IsDirty(s, m, p) \/ (m = l /\ p = o /\ Slots!PlaneOf(s, l, o)[c] # v)
             /\ Slots!Resident(s, m, p) =>
                    Slots!PlaneOf(t, m, p) = IF m = l /\ p = o
                                             THEN Slots!PlaneWith(Slots!PlaneOf(s, l, o), c, v)
                                             ELSE Slots!PlaneOf(s, m, p)
    BY <1>1, <1>2, SlotAssumptions, Slots!WithCellAnswers
<1>5. Slots!PlaneWith(Slots!PlaneOf(s, l, o), c, v) = [PlaneAt(s, l, o) EXCEPT ![c] = v]
    BY SameAnswers DEF Slots!PlaneWith
<1>6. t \in Arrays /\ Consistent(t)
    BY <1>3, SameTypes, SameLookups
<1>7. /\ Resident(t, l, o)
      /\ PlaneAt(t, l, o) = [PlaneAt(s, l, o) EXCEPT ![c] = v]
      /\ IsDirty(t, l, o) <=> IsDirty(s, l, o) \/ PlaneAt(s, l, o)[c] # v
    BY <1>1, <1>4, <1>5, SameAnswers
<1>8. ASSUME NEW m \in Layers, NEW p, ~ (m = l /\ p = o) PROVE Stable(s, t, m, p)
    BY <1>4, <1>8, SameAnswers DEF Stable
<1>9. QED
    BY <1>6, <1>7, <1>8

\* mark_clean() of a chunk that has a slot.
LEMMA Cleaning ==
    ASSUME NEW s \in Arrays, Consistent(s), NEW l \in Layers, NEW o, HasSlot(s, o),
           NEW t, t = Cleaned(s, l, o)
    PROVE  /\ t \in Arrays /\ Consistent(t)
           /\ \A m \in Layers : \A p :
                  /\ Resident(t, m, p) <=> Resident(s, m, p)
                  /\ IsDirty(t, m, p) <=> IsDirty(s, m, p) /\ ~ (m = l /\ p = o)
                  /\ Resident(s, m, p) => PlaneAt(t, m, p) = PlaneAt(s, m, p)
<1>1. s \in Slots!SlotArrays /\ Slots!Consistent(s) /\ Slots!HasSlot(s, o)
    BY SameTypes, SameLookups
<1>2. t = Slots!Cleaned(s, l, o)
    BY SameCleaned
<1>3. t \in Slots!SlotArrays /\ Slots!Consistent(t)
    BY <1>1, <1>2, SlotAssumptions, Slots!CleanedConsistent
<1>4. ASSUME NEW m \in Layers, NEW p
      PROVE  /\ Slots!Resident(t, m, p) <=> Slots!Resident(s, m, p)
             /\ Slots!IsDirty(t, m, p) <=> Slots!IsDirty(s, m, p) /\ ~ (m = l /\ p = o)
             /\ Slots!Resident(s, m, p) => Slots!PlaneOf(t, m, p) = Slots!PlaneOf(s, m, p)
    BY <1>1, <1>2, SlotAssumptions, Slots!CleanedAnswers
<1>5. t \in Arrays /\ Consistent(t)
    BY <1>3, SameTypes, SameLookups
<1>6. ASSUME NEW m \in Layers, NEW p
      PROVE  /\ Resident(t, m, p) <=> Resident(s, m, p)
             /\ IsDirty(t, m, p) <=> IsDirty(s, m, p) /\ ~ (m = l /\ p = o)
             /\ Resident(s, m, p) => PlaneAt(t, m, p) = PlaneAt(s, m, p)
    BY <1>4, SameAnswers
<1>7. QED
    BY <1>5, <1>6

\* invalidate_all() is refused exactly when a plane is dirty.
LEMMA AnyDirty ==
    ASSUME NEW s \in Arrays, Consistent(s)
    PROVE  HasDirty(s) <=> \E m \in Layers, p \in Chunks : IsDirty(s, m, p)
<1>1. s \in Slots!SlotArrays /\ Slots!Consistent(s)
    BY SameTypes, SameLookups
<1>2. Slots!HasDirty(s) <=>
          \E m \in Layers, p \in {o \in Coord : Aligned(o, Side)} : Slots!IsDirty(s, m, p)
    BY <1>1, SlotAssumptions, Slots!HasDirtyMeans
<1>3. QED
    BY <1>2, SameLookups, SameAnswers DEF Chunks

\* dirty_chunks() lists every dirty plane of the layer, once.
LEMMA DirtyListed ==
    ASSUME NEW s \in Arrays, Consistent(s), NEW l \in Layers
    PROVE  /\ DirtyChunks(s, l) \in Seq(Coord)
           /\ \A k \in DOMAIN DirtyChunks(s, l) : IsDirty(s, l, DirtyChunks(s, l)[k])
           /\ \A j, k \in DOMAIN DirtyChunks(s, l) :
                  DirtyChunks(s, l)[j] = DirtyChunks(s, l)[k] => j = k
           /\ \A o : IsDirty(s, l, o) =>
                  \E k \in DOMAIN DirtyChunks(s, l) : DirtyChunks(s, l)[k] = o
<1> DEFINE listed == {i \in SlotIds : s[i].occupied /\ s[i].resident[l] /\ s[i].dirty[l]}
           key == [i \in listed |-> i]
           ids == InOrder(listed, key)
           todo == DirtyChunks(s, l)
<1>1. IsFiniteSet(listed) /\ \A i \in listed : key[i] \in Int
    <2>1. Capacity \in Int /\ 1 \in Int
        BY BoundsAssumption
    <2>2. IsFiniteSet(SlotIds)
        BY <2>1, FS_Interval DEF SlotIds
    <2>3. IsFiniteSet(listed)
        BY <2>2, FS_Subset
    <2>4. \A i \in listed : i \in Int
        BY <2>1 DEF SlotIds
    <2>5. QED
        BY <2>3, <2>4
<1>2. \A i, j \in listed : key[i] = key[j] => i = j
    OBVIOUS
<1>3. \A i \in listed : i \in SlotIds /\ s[i].occupied /\ s[i].resident[l] /\ s[i].dirty[l]
    OBVIOUS
<1>4. \A i \in SlotIds : s[i].occupied /\ s[i].resident[l] /\ s[i].dirty[l] => i \in listed
    OBVIOUS
<1>5. todo = [k \in DOMAIN ids |-> s[ids[k]].origin]
    BY DEF DirtyChunks
<1> HIDE DEF listed, key
<1>6. /\ ids \in Seq(listed) /\ DOMAIN ids = 1 .. Len(ids)
      /\ \A i \in listed : \E k \in 1 .. Len(ids) : ids[k] = i
      /\ \A j, k \in 1 .. Len(ids) : ids[j] = ids[k] => j = k
    BY <1>1, <1>2, InOrderSorts
<1> HIDE DEF ids, todo
<1>7. Len(ids) \in Nat /\ \A k \in DOMAIN ids : ids[k] \in listed
    BY <1>6
<1>8. \A i \in SlotIds : s[i].origin \in Coord
    BY DEF Arrays, Slot
<1>9. todo \in Seq(Coord) /\ DOMAIN todo = DOMAIN ids
    BY <1>3, <1>5, <1>6, <1>7, <1>8
<1>10. s \in Slots!SlotArrays /\ Slots!Consistent(s)
    BY SameTypes, SameLookups
<1>11. ASSUME NEW i \in SlotIds, s[i].occupied
       PROVE  IsDirty(s, l, s[i].origin) <=> s[i].resident[l] /\ s[i].dirty[l]
    <2>1. Slots!OneSlotPerOrigin(s) /\ i \in Slots!SlotIds
        BY <1>10, SameTypes DEF Slots!Consistent
    <2>2. Slots!IsDirty(s, l, s[i].origin) <=> s[i].resident[l] /\ s[i].dirty[l]
        BY <1>11, <2>1, SlotAssumptions, Slots!HolderAnswers
    <2>3. QED
        BY <2>2, SameAnswers
<1>12. \A k \in DOMAIN todo : IsDirty(s, l, todo[k])
    BY <1>3, <1>5, <1>7, <1>9, <1>11
<1>13. ASSUME NEW j \in DOMAIN todo, NEW k \in DOMAIN todo, todo[j] = todo[k] PROVE j = k
    <2>1. /\ ids[j] \in SlotIds /\ ids[k] \in SlotIds /\ s[ids[j]].occupied /\ s[ids[k]].occupied
          /\ s[ids[j]].origin = s[ids[k]].origin
        BY <1>3, <1>5, <1>7, <1>9, <1>13
    <2>2. ids[j] = ids[k]
        BY <2>1 DEF Consistent, OneSlotPerOrigin
    <2>3. QED
        BY <1>6, <1>9, <2>2
<1>14. ASSUME NEW o, IsDirty(s, l, o) PROVE \E k \in DOMAIN todo : todo[k] = o
    <2>1. PICK i \in SlotIds : s[i].occupied /\ s[i].origin = o /\ i = FindSlot(s, o)
        <3>1. HasSlot(s, o) /\ Slots!HasSlot(s, o)
            BY <1>14, SameLookups DEF IsDirty, Resident
        <3>2. QED
            BY <3>1, SlotAssumptions, SameTypes, SameLookups, Slots!FindSlotHolds
    <2>2. i \in listed
        BY <1>4, <1>14, <2>1 DEF IsDirty, Resident
    <2>3. PICK k \in DOMAIN ids : ids[k] = i
        BY <1>6, <2>2
    <2>4. QED
        BY <1>5, <1>9, <2>1, <2>3
<1>15. QED
    BY <1>9, <1>12, <1>13, <1>14 DEF todo

\* What value<L>() returns at w with the slots s, the placements ps and the
\* runtime storage rt.
Look(s, ps, rt, l, w) ==
    IF Resident(s, l, ChunkAt(w)) THEN PlaneAt(s, l, ChunkAt(w))[LocalCell(w)]
    ELSE BackingAt(ps, rt, l, w)

Fresh(s, ps, rt) ==
    \A l \in Layers, w \in MapCells :
        Resident(s, l, ChunkAt(w)) /\ ~ IsDirty(s, l, ChunkAt(w)) =>
            PlaneAt(s, l, ChunkAt(w))[LocalCell(w)] = BackingAt(ps, rt, l, w)

\* The view, position by position.
LEMMA ViewIsLook ==
    ASSUME NEW s, NEW ps, NEW rt
    PROVE  /\ View(s, ps, rt) = [l \in Layers |-> [w \in MapCells |-> Look(s, ps, rt, l, w)]]
           /\ \A l \in Layers, w \in MapCells : View(s, ps, rt)[l][w] = Look(s, ps, rt, l, w)
BY DEF View, Look, ValueAt, PlaneAt

-----------------------------------------------------------------------------
(***************************************************************************)
(* The inductive invariant.                                                *)
(***************************************************************************)
\* Ids are handed out once, in ascending order.
PlacementsOK ==
    \A i, j \in DOMAIN placements :
        /\ placements[i].id < nextId
        /\ placements[i].id = placements[j].id => i = j

\* A source that does not exist has no content.
SourcesOK == \A l \in Bound : runtime[l].form = "absent" => runtime[l] = NoSource

CacheOK == Consistent(slots) /\ Fresh(slots, placements, runtime)

\* A flush has a layer, and has not left the enumeration of its chunks.
Working == flush.pc \notin {"idle", "layer"}

\* It has a plane with something to write, and no open source to write it to.
Preparing == flush.pc \in {"bind", "create", "header", "rows", "reopen"}

Form == runtime[Layer].form

ShapeOK ==
    /\ Ready => flush = Idle
    /\ At("layer") => flush.todo = <<>>
    /\ Working => flush.layers # <<>>
    /\ Preparing \/ At("write") => flush.todo # <<>> /\ Layer \in Bound
    /\ Preparing => ~ flush.layout /\ flush.runs # <<>>
    /\ At("write") => flush.layout
    /\ Working /\ flush.layout => Layer \in Bound /\ Form = "ready"

\* How far the creation of a source has come.
CreationOK ==
    /\ At("create") => Form = "absent"
    /\ At("header") => Form = "broken" /\ runtime[Layer].rows = {} /\ runtime[Layer].cells = Blank
    /\ At("rows") => Form = "ready" /\ runtime[Layer].rows # MapRows /\ runtime[Layer].cells = Blank
    /\ At("reopen") => Form = "ready"

\* The work list holds the dirty chunks of the layer, each of them once.
TodoOK ==
    /\ Working => \A k \in DOMAIN flush.todo : IsDirty(slots, Layer, flush.todo[k])
    /\ Working => \A o \in Coord : IsDirty(slots, Layer, o) =>
                      \E k \in DOMAIN flush.todo : flush.todo[k] = o
    /\ \A j, k \in DOMAIN flush.todo : flush.todo[j] = flush.todo[k] => j = k

Clean(l) == \A o \in Coord : ~ IsDirty(slots, l, o)

\* The layers left behind are clean.
DoneOK == \A l \in Range(flush.scope) : l \in Range(flush.layers) \/ Clean(l)

RunCells(run) == {<<x, run.y>> : x \in run.x .. run.x + run.size - 1}

Pending(runs) == UNION {RunCells(runs[k]) : k \in DOMAIN runs}

\* Of the plane at hand, the cells still to be written have a value that can be
\* stored and is not the answer of the sources or is already in the overlay;
\* the others show the answer of the sources.
RunsOK ==
    Preparing \/ At("write") =>
        /\ Pending(flush.runs) \subseteq InMap(Chunk1)
        /\ \A cell \in InMap(Chunk1) :
               LET live == PlaneAt(slots, Layer, Chunk1)[cell]
                   w == CellWorld(Chunk1, cell)
               IN  IF cell \in Pending(flush.runs)
                   THEN /\ HasContribution(live)
                        /\ live # Backing(Layer, w) \/ runtime[Layer].cells[w] = live
                   ELSE live = Backing(Layer, w)

FlushOK == ShapeOK /\ CreationOK /\ TodoOK /\ DoneOK /\ RunsOK

IInv == TypeOK /\ PlacementsOK /\ SourcesOK /\ CacheOK /\ FlushOK

\* A Map with no flush in progress keeps every promise about one.
LEMMA IdleFlush ==
    ASSUME flush' = Idle
    PROVE  /\ FlushOK'
           /\ flush' \in [pc : FlushSteps, scope : Seq(Layers), layers : Seq(Layers),
                          todo : Seq(Coord), layout : BOOLEAN, runs : Seq(Run)]
<1>1. /\ flush'.pc = "idle" /\ flush'.scope = <<>> /\ flush'.layers = <<>> /\ flush'.todo = <<>>
      /\ ~ flush'.layout /\ flush'.runs = <<>>
    BY DEF Idle
<1>2. ~ Working' /\ ~ Preparing' /\ ~ At("layer")' /\ ~ At("write")' /\ ~ At("create")'
      /\ ~ At("header")' /\ ~ At("rows")' /\ ~ At("reopen")'
    BY <1>1 DEF Working, Preparing, At
<1>3. ShapeOK' /\ CreationOK' /\ TodoOK' /\ DoneOK' /\ RunsOK'
    BY <1>1, <1>2 DEF ShapeOK, CreationOK, TodoOK, DoneOK, RunsOK, Range
<1>4. flush' \in [pc : FlushSteps, scope : Seq(Layers), layers : Seq(Layers),
                  todo : Seq(Coord), layout : BOOLEAN, runs : Seq(Run)]
    BY DEF Idle, FlushSteps
<1>5. QED
    BY <1>3, <1>4 DEF FlushOK

\* A resolution is given what it needs.
LEMMA StateIsResolvable ==
    ASSUME TypeOK, PlacementsOK
    PROVE  WellPlaced(placements) /\ Stored(runtime)
<1>1. placements \in Seq(Placement) /\ DOMAIN placements = 1 .. Len(placements)
      /\ Len(placements) \in Nat
    BY DEF TypeOK
<1>2. \A p \in Range(placements) : p \in Placement
    BY <1>1 DEF Range
<1>3. \A p \in Placement : Accepted(p)
    BY DEF Placement, Accepted, Placed
<1>4. \A p, q \in Range(placements) : p.id = q.id => p = q
    BY DEF PlacementsOK, Range
<1>5. QED
    BY <1>1, <1>2, <1>3, <1>4 DEF WellPlaced, Stored, TypeOK

-----------------------------------------------------------------------------
(***************************************************************************)
(* Access: a miss loads what the sources answer and nothing else changes.  *)
(***************************************************************************)
\* The same planes are dirty, and every position shows what it showed.
Keeps(s, t) ==
    /\ \A m \in Layers : \A p : IsDirty(t, m, p) <=> IsDirty(s, m, p)
    /\ \A m \in Layers, v \in MapCells :
           Look(t, placements, runtime, m, v) = Look(s, placements, runtime, m, v)

Loaded(s) == {q \in [slots : Arrays, error : Errors \cup {NoError}] :
                 Consistent(q.slots) /\ Fresh(q.slots, placements, runtime) /\ Keeps(s, q.slots)}

\* A plane that has been resolved answers for every position of its chunk.
LEMMA ResolvedAnswers ==
    ASSUME GridFits, NEW ps, WellPlaced(ps), NEW rt, Stored(rt), NEW l \in Layers, NEW u \in MapCells,
           Resolve(ps, rt, l, ChunkAt(u)).error = NoError,
           NEW v \in MapCells, ChunkAt(v) = ChunkAt(u)
    PROVE  Resolve(ps, rt, l, ChunkAt(u)).plane[LocalCell(v)] = BackingAt(ps, rt, l, v)
<1> DEFINE o == ChunkAt(u)
           r == Resolve(ps, rt, l, o)
<1>1. /\ LocalCell(u) \in InMap(o) /\ LocalCell(v) \in InMap(o) /\ CellWorld(o, LocalCell(v)) = v
    BY ChunkOfPosition
<1>2. r.plane = [cell \in PlaneCells(Side) |->
                    IF cell \in InMap(o) THEN BackingAt(ps, rt, l, CellWorld(o, cell)) ELSE Zero]
    <2>1. InMap(o) # {}
        BY <1>1
    <2> HIDE DEF o
    <2>2. QED
        BY <2>1, ResolveMatchesReference DEF o
<1>3. LocalCell(v) \in PlaneCells(Side)
    BY <1>1, InMapPosition
<1> HIDE DEF r
<1>4. r.plane[LocalCell(v)] = BackingAt(ps, rt, l, v)
    BY <1>1, <1>2, <1>3
<1>5. QED
    BY <1>4 DEF r

\* ensure_resident(): a miss becomes resident with what the sources answer, or
\* nothing changes; no position shows another value either way.
LEMMA EnsureResidentLoads ==
    ASSUME GridFits, WellPlaced(placements), Stored(runtime),
           NEW s, NEW q \in Loaded(s), NEW l \in Layers, NEW w \in MapCells, NEW fault
    PROVE  /\ EnsureResident(q.slots, l, w, fault) \in Loaded(s)
           /\ EnsureResident(q.slots, l, w, fault).error = NoError =>
                  Resident(EnsureResident(q.slots, l, w, fault).slots, l, ChunkAt(w))
<1> DEFINE o == ChunkAt(w)
           a == q.slots
           r == Resolve(placements, runtime, l, o)
           e == EnsureResident(a, l, w, fault)
           Same(error) == [slots |-> a, error |-> error]
<1>1. /\ a \in Arrays /\ Consistent(a) /\ Fresh(a, placements, runtime) /\ Keeps(s, a)
    BY DEF Loaded
<1>2. \A error \in Errors \cup {NoError} : Same(error) \in Loaded(s)
    BY <1>1 DEF Loaded
<1>3. /\ "LayerSourceError" \in Errors /\ "CacheFull" \in Errors
      /\ \A error \in SourceErrors : error \in Errors
      /\ "LayerSourceError" # NoError /\ "CacheFull" # NoError
    BY DEF Errors, SourceErrors, NoError
<1>4. CASE Resident(a, l, o)
    <2>1. e = Same(NoError)
        BY <1>4 DEF EnsureResident
    <2> HIDE DEF e
    <2>2. QED
        BY <1>2, <1>4, <2>1 DEF e
<1>5. CASE ~ Resident(a, l, o) /\ fault /\ r.io
    <2>1. e = Same("LayerSourceError")
        BY <1>5 DEF EnsureResident
    <2> HIDE DEF e
    <2>2. QED
        BY <1>2, <1>3, <2>1 DEF e
<1>6. CASE ~ Resident(a, l, o) /\ ~ (fault /\ r.io) /\ r.error # NoError
    <2>1. e = Same(r.error)
        BY <1>6 DEF EnsureResident
    <2>2. r.error \in SourceErrors
        BY <1>6, ResolveTyped
    <2> HIDE DEF e, r
    <2>3. QED
        BY <1>2, <1>3, <1>6, <2>1, <2>2 DEF e
<1>7. CASE ~ Resident(a, l, o) /\ ~ (fault /\ r.io) /\ r.error = NoError
           /\ ~ CanFill(a, l, ChunkFor(l, w), r.plane)
    <2>1. e = Same("CacheFull")
        BY <1>7 DEF EnsureResident
    <2> HIDE DEF e
    <2>2. QED
        BY <1>2, <1>3, <2>1 DEF e
<1>8. CASE ~ Resident(a, l, o) /\ ~ (fault /\ r.io) /\ r.error = NoError
           /\ CanFill(a, l, ChunkFor(l, w), r.plane)
    <2> DEFINE t == Filled(a, l, o, r.plane)
    <2>1. e = [slots |-> t, error |-> NoError]
        BY <1>8 DEF EnsureResident
    <2>2. /\ o \in Chunks /\ r.plane \in [PlaneCells(Side) -> Bytes]
          /\ HasSlot(a, o) \/ FreeSlots(a) # {}
          /\ MayOverwrite(a, l, o)
        BY <1>8, ChunkOfPosition, ResolveTyped DEF CanFill, ChunkFor
    <2>3. \A v \in MapCells : ChunkAt(v) = o => r.plane[LocalCell(v)] = BackingAt(placements, runtime, l, v)
        BY <1>8, ResolvedAnswers
    <2> HIDE DEF o, r, e, t
    <2>4. /\ t \in Arrays /\ Consistent(t)
          /\ Resident(t, l, o) /\ PlaneAt(t, l, o) = r.plane
          /\ IsDirty(t, l, o) <=> IsDirty(a, l, o)
          /\ \A m \in Layers : \A p : ~ (m = l /\ p = o) => Stable(a, t, m, p)
        BY <1>1, <2>2, Filling DEF t
    <2>5. ~ IsDirty(a, l, o) /\ ~ Resident(a, l, o)
        BY <1>8 DEF IsDirty
    <2>6. \A m \in Layers : \A p : IsDirty(t, m, p) <=> IsDirty(a, m, p)
        BY <2>4 DEF Stable
    <2>7. ASSUME NEW m \in Layers, NEW v \in MapCells
          PROVE  /\ Look(t, placements, runtime, m, v) = Look(a, placements, runtime, m, v)
                 /\ Resident(t, m, ChunkAt(v)) /\ ~ IsDirty(t, m, ChunkAt(v)) =>
                        PlaneAt(t, m, ChunkAt(v))[LocalCell(v)] = BackingAt(placements, runtime, m, v)
        <3>1. CASE m = l /\ ChunkAt(v) = o
            BY <2>3, <2>4, <2>5, <3>1 DEF Look
        <3>2. CASE ~ (m = l /\ ChunkAt(v) = o)
            <4>1. Stable(a, t, m, ChunkAt(v))
                BY <2>4, <3>2
            <4>2. QED
                BY <1>1, <4>1 DEF Stable, Look, Fresh
        <3>3. QED
            BY <3>1, <3>2
    <2>8. Fresh(t, placements, runtime)
        BY <2>7 DEF Fresh
    <2>9. Keeps(s, t)
        BY <1>1, <2>6, <2>7 DEF Keeps
    <2>10. e \in Loaded(s)
        BY <2>1, <2>4, <2>8, <2>9 DEF Loaded
    <2>11. QED
        BY <2>1, <2>4, <2>10 DEF e, o
<1>9. QED
    BY <1>4, <1>5, <1>6, <1>7, <1>8

\* The cache as it stands is where the loads of a call begin.
LEMMA SlotsAreLoaded ==
    ASSUME IInv
    PROVE  \A error \in Errors \cup {NoError} : [slots |-> slots, error |-> error] \in Loaded(slots)
BY DEF IInv, TypeOK, CacheOK, Loaded, Keeps, Arrays

IsLoad(f, s, w, faulty) ==
    f = [k \in 0 .. Len(LayerOrder) |->
            IF k = 0 THEN [slots |-> s, error |-> NoError]
            ELSE IF f[k - 1].error # NoError THEN f[k - 1]
            ELSE EnsureResident(f[k - 1].slots, LayerOrder[k], w, LayerOrder[k] \in faulty)]

\* at(): so do the layers of a Tile, one after the other.
LEMMA EnsureTileLoads ==
    ASSUME GridFits, WellPlaced(placements), Stored(runtime),
           NEW s, [slots |-> s, error |-> NoError] \in Loaded(s), NEW w \in MapCells, NEW faulty
    PROVE  EnsureTile(s, w, faulty) \in Loaded(s)
<1> DEFINE n == Len(LayerOrder)
           first == [slots |-> s, error |-> NoError]
           Turn(q, k) == IF q.error # NoError THEN q
                         ELSE EnsureResident(q.slots, LayerOrder[k], w, LayerOrder[k] \in faulty)
           step == [k \in 1 .. n |-> [q \in Loaded(s) |-> Turn(q, k)]]
           load == CHOOSE f : IsLoad(f, s, w, faulty)
<1>1. n \in Nat /\ \A k \in 1 .. n : LayerOrder[k] \in Layers
    BY OrderAssumption
<1>2. ASSUME NEW k \in 1 .. n, NEW q \in Loaded(s) PROVE Turn(q, k) \in Loaded(s)
    BY <1>1, EnsureResidentLoads
<1>3. step \in Steps(n, Loaded(s))
    BY <1>2 DEF Steps
<1>4. \A k \in 1 .. n, q \in Loaded(s) : step[k][q] = Turn(q, k)
    OBVIOUS
<1>5. first \in Loaded(s)
    OBVIOUS
<1> HIDE DEF n, first, step, load
<1>6. PICK f : Iterates(f, n, Loaded(s), first, step)
    BY <1>1, <1>3, <1>5, IterationExists
<1>7. DOMAIN f = 0 .. n /\ f = [k \in 0 .. n |-> f[k]]
    BY <1>6 DEF Iterates
<1>8. \A k \in 1 .. n : f[k] = Turn(f[k - 1], k)
    <2>1. \A k \in 1 .. n : f[k - 1] \in Loaded(s)
        BY <1>1, <1>6 DEF Iterates
    <2> HIDE DEF Turn
    <2>2. QED
        BY <1>4, <1>6, <2>1 DEF Iterates
<1>9. \A k \in 0 .. n : f[k] = IF k = 0 THEN first ELSE Turn(f[k - 1], k)
    <2>1. \A k \in 0 .. n : k = 0 \/ k \in 1 .. n
        BY <1>1
    <2>2. \A k \in 1 .. n : k # 0
        BY <1>1
    <2> HIDE DEF Turn
    <2>3. QED
        BY <1>6, <1>8, <2>1, <2>2 DEF Iterates
<1>10. IsLoad(f, s, w, faulty)
    <2>1. f = [k \in 0 .. n |-> IF k = 0 THEN first ELSE Turn(f[k - 1], k)]
        BY <1>7, <1>9
    <2>2. QED
        BY <2>1 DEF IsLoad, n, first
<1>11. IsLoad(load, s, w, faulty)
    BY <1>10 DEF load
<1>12. /\ load[0] = first
       /\ \A k \in 1 .. n : load[k] = Turn(load[k - 1], k)
    <2>1. load = [k \in 0 .. n |-> IF k = 0 THEN first ELSE Turn(load[k - 1], k)]
        BY <1>11 DEF IsLoad, n, first
    <2>2. 0 \in 0 .. n /\ \A k \in 1 .. n : k \in 0 .. n /\ k # 0
        BY <1>1
    <2> HIDE DEF Turn
    <2>3. QED
        BY <2>1, <2>2
<1>13. load[n] \in Loaded(s)
    <2> DEFINE T == {k \in 0 .. n : load[k] \in Loaded(s)}
    <2>1. 0 \in T
        BY <1>1, <1>5, <1>12
    <2>2. ASSUME NEW k \in 1 .. n, k - 1 \in T PROVE k \in T
        <3>1. load[k - 1] \in Loaded(s) /\ k \in 0 .. n
            BY <1>1, <2>2
        <3>2. Turn(load[k - 1], k) \in Loaded(s)
            BY <1>2, <3>1
        <3> HIDE DEF Turn
        <3>3. QED
            BY <1>12, <3>1, <3>2
    <2>3. n \in 0 .. n
        BY <1>1
    <2> HIDE DEF T
    <2>4. 0 .. n \subseteq T
        BY <1>1, <2>1, <2>2, UpTo
    <2>5. QED
        BY <2>3, <2>4 DEF T
<1>14. EnsureTile(s, w, faulty) = load[n]
    BY DEF EnsureTile, IsLoad, load, n
<1>15. QED
    BY <1>13, <1>14

\* Between two calls nothing but the planes, and what the last call answered,
\* has changed.
LEMMA QuietStep ==
    ASSUME IInv, Ready, UNCHANGED <<placements, nextId, runtime, flush>>,
           slots' \in Arrays, Consistent(slots'), Fresh(slots', placements, runtime),
           reply' \in Errors \cup {"ok", "restarted"}
    PROVE  IInv'
<1>1. flush' = Idle
    BY DEF IInv, FlushOK, ShapeOK
<1>2. FlushOK' /\ flush' \in [pc : FlushSteps, scope : Seq(Layers), layers : Seq(Layers),
                              todo : Seq(Coord), layout : BOOLEAN, runs : Seq(Run)]
    BY <1>1, IdleFlush
<1>3. TypeOK'
    BY <1>2 DEF IInv, TypeOK, Arrays
<1>4. PlacementsOK' /\ SourcesOK'
    BY DEF IInv, PlacementsOK, SourcesOK
<1>5. CacheOK'
    BY DEF CacheOK
<1>6. QED
    BY <1>2, <1>3, <1>4, <1>5 DEF IInv

\* What a call may answer.
LEMMA Replies ==
    ASSUME NEW e \in Errors \cup {NoError}, Return(e)
    PROVE  reply' \in Errors \cup {"ok", "restarted"}
BY DEF Return

\* value(): the invariant is kept, and so is what every position shows.
LEMMA ReadValueStep ==
    ASSUME GridFits, IInv, NEW l \in Layers, NEW w \in AccessAt, ReadValue(l, w)
    PROVE  IInv' /\ Keeps(slots, slots') /\ UNCHANGED <<placements, runtime, flush>>
<1>1. /\ Ready /\ UNCHANGED <<placements, nextId, runtime, flush>>
      /\ WellPlaced(placements) /\ Stored(runtime)
    BY StateIsResolvable DEF ReadValue, IInv
<1>2. PICK q \in Loaded(slots) : slots' = q.slots /\ Return(q.error)
    <2>1. CASE ~ AreaContains(MapArea, w)
        <3>1. "OutOfBounds" \in Errors
            BY DEF Errors
        <3>2. [slots |-> slots, error |-> "OutOfBounds"] \in Loaded(slots)
            BY <3>1, SlotsAreLoaded
        <3>3. slots' = slots /\ Return("OutOfBounds")
            BY <2>1 DEF ReadValue
        <3>4. QED
            BY <3>2, <3>3
    <2>2. CASE AreaContains(MapArea, w)
        <3>1. w \in MapCells
            BY <2>2, InputsAssumption, PositionsOfMap
        <3>2. PICK fault \in BOOLEAN : /\ slots' = EnsureResident(slots, l, w, fault).slots
                                       /\ Return(EnsureResident(slots, l, w, fault).error)
            BY <2>2 DEF ReadValue
        <3>3. [slots |-> slots, error |-> NoError] \in Loaded(slots)
            BY SlotsAreLoaded
        <3>4. EnsureResident(slots, l, w, fault) \in Loaded(slots)
            BY <1>1, <3>1, <3>3, EnsureResidentLoads
        <3>5. QED
            BY <3>2, <3>4
    <2>3. QED
        BY <2>1, <2>2
<1>3. /\ slots' \in Arrays /\ Consistent(slots') /\ Fresh(slots', placements, runtime)
      /\ Keeps(slots, slots') /\ reply' \in Errors \cup {"ok", "restarted"}
    BY <1>2, Replies DEF Loaded
<1>4. QED
    BY <1>1, <1>3, QuietStep

\* at(), likewise.
LEMMA ReadTileStep ==
    ASSUME GridFits, IInv, NEW w \in AccessAt, ReadTile(w)
    PROVE  IInv' /\ Keeps(slots, slots') /\ UNCHANGED <<placements, runtime, flush>>
<1>1. /\ Ready /\ UNCHANGED <<placements, nextId, runtime, flush>>
      /\ WellPlaced(placements) /\ Stored(runtime)
    BY StateIsResolvable DEF ReadTile, IInv
<1>2. PICK q \in Loaded(slots) : slots' = q.slots /\ Return(q.error)
    <2>1. CASE ~ AreaContains(MapArea, w)
        <3>1. "OutOfBounds" \in Errors
            BY DEF Errors
        <3>2. [slots |-> slots, error |-> "OutOfBounds"] \in Loaded(slots)
            BY <3>1, SlotsAreLoaded
        <3>3. slots' = slots /\ Return("OutOfBounds")
            BY <2>1 DEF ReadTile
        <3>4. QED
            BY <3>2, <3>3
    <2>2. CASE AreaContains(MapArea, w)
        <3>1. w \in MapCells
            BY <2>2, InputsAssumption, PositionsOfMap
        <3>2. PICK faulty \in SUBSET Layers : /\ slots' = EnsureTile(slots, w, faulty).slots
                                              /\ Return(EnsureTile(slots, w, faulty).error)
            BY <2>2 DEF ReadTile
        <3>3. [slots |-> slots, error |-> NoError] \in Loaded(slots)
            BY SlotsAreLoaded
        <3>4. EnsureTile(slots, w, faulty) \in Loaded(slots)
            BY <1>1, <3>1, <3>3, EnsureTileLoads
        <3>5. QED
            BY <3>2, <3>4
    <2>3. QED
        BY <2>1, <2>2
<1>3. /\ slots' \in Arrays /\ Consistent(slots') /\ Fresh(slots', placements, runtime)
      /\ Keeps(slots, slots') /\ reply' \in Errors \cup {"ok", "restarted"}
    BY <1>2, Replies DEF Loaded
<1>4. QED
    BY <1>1, <1>3, QuietStep

\* What set() at w leaves: every other position shows what it showed, and a new
\* value is in a dirty plane.
Sets(l, w, v, t) ==
    /\ \A m \in Layers, x \in MapCells :
           Look(t, placements, runtime, m, x) =
               IF m = l /\ x = w THEN v ELSE Look(slots, placements, runtime, m, x)
    /\ \A m \in Layers : \A p : IsDirty(slots, m, p) => IsDirty(t, m, p)
    /\ Look(slots, placements, runtime, l, w) # v => IsDirty(t, l, ChunkAt(w))

\* set(): one position shows the new value, and its plane is dirty if that is
\* another value than before.
LEMMA SetValueStep ==
    ASSUME GridFits, IInv, NEW l \in Layers, NEW w \in AccessAt, NEW v \in SetValues,
           SetValue(l, w, v)
    PROVE  /\ IInv' /\ UNCHANGED <<placements, runtime, flush>> /\ Ready
           /\ Keeps(slots, slots') \/ (w \in MapCells /\ Sets(l, w, v, slots'))
<1>1. /\ Ready /\ UNCHANGED <<placements, nextId, runtime, flush>>
      /\ WellPlaced(placements) /\ Stored(runtime)
    BY StateIsResolvable DEF SetValue, IInv
<1>2. CASE ~ AreaContains(MapArea, w)
    <2>1. slots' = slots /\ Return("OutOfBounds") /\ "OutOfBounds" \in Errors \cup {NoError}
        BY <1>2 DEF SetValue, Errors
    <2>2. reply' \in Errors \cup {"ok", "restarted"}
        BY <2>1, Replies
    <2>3. slots' \in Arrays /\ Consistent(slots') /\ Fresh(slots', placements, runtime)
        BY <2>1 DEF IInv, TypeOK, CacheOK, Arrays
    <2>4. Keeps(slots, slots')
        BY <2>1 DEF Keeps
    <2>5. QED
        BY <1>1, <2>2, <2>3, <2>4, QuietStep
<1>3. CASE AreaContains(MapArea, w)
    <2>1. w \in MapCells /\ v \in Bytes
        BY <1>3, InputsAssumption, PositionsOfMap
    <2>2. PICK fault \in BOOLEAN :
              LET r == EnsureResident(slots, l, w, fault)
              IN  /\ slots' = IF r.error = NoError
                              THEN WithCell(r.slots, l, ChunkAt(w), LocalCell(w), v) ELSE r.slots
                  /\ Return(r.error)
        BY <1>3 DEF SetValue
    <2> DEFINE q == EnsureResident(slots, l, w, fault)
               o == ChunkAt(w)
               c == LocalCell(w)
    <2>3. [slots |-> slots, error |-> NoError] \in Loaded(slots)
        BY SlotsAreLoaded
    <2>4. q \in Loaded(slots) /\ (q.error = NoError => Resident(q.slots, l, o))
        BY <1>1, <2>1, <2>3, EnsureResidentLoads
    <2>5. /\ slots' = IF q.error = NoError THEN WithCell(q.slots, l, o, c, v) ELSE q.slots
          /\ Return(q.error)
        BY <2>2
    <2> HIDE DEF q
    <2>6. /\ q.slots \in Arrays /\ Consistent(q.slots) /\ Fresh(q.slots, placements, runtime)
          /\ Keeps(slots, q.slots) /\ reply' \in Errors \cup {"ok", "restarted"}
        BY <2>4, <2>5, Replies DEF Loaded
    <2>7. CASE q.error # NoError
        BY <1>1, <2>5, <2>6, <2>7, QuietStep
    <2>8. CASE q.error = NoError
        <3>1. c \in PlaneCells(Side)
            BY <2>1, ChunkOfPosition, InMapPosition
        <3> DEFINE a == q.slots
                   t == WithCell(a, l, o, c, v)
        <3>2. slots' = t
            BY <2>5, <2>8
        <3>3. a \in Arrays /\ Consistent(a) /\ Resident(a, l, o)
            BY <2>4, <2>6, <2>8
        <3> HIDE DEF a, t, o, c
        <3>4. /\ t \in Arrays /\ Consistent(t)
              /\ Resident(t, l, o)
              /\ PlaneAt(t, l, o) = [PlaneAt(a, l, o) EXCEPT ![c] = v]
              /\ IsDirty(t, l, o) <=> IsDirty(a, l, o) \/ PlaneAt(a, l, o)[c] # v
              /\ \A m \in Layers : \A p : ~ (m = l /\ p = o) => Stable(a, t, m, p)
            BY <2>1, <3>1, <3>3, Setting DEF t
        <3>5. PlaneAt(a, l, o) \in [PlaneCells(Side) -> Bytes]
            BY <3>3, PlaneIsTyped
        <3>6. \A x \in MapCells : ChunkAt(x) = o =>
                  LocalCell(x) \in PlaneCells(Side) /\ (LocalCell(x) = c => x = w)
            BY <2>1, ChunkOfPosition, InMapPosition DEF o, c
        <3>7. ASSUME NEW m \in Layers, NEW x \in MapCells
              PROVE  /\ Look(t, placements, runtime, m, x) =
                            IF m = l /\ x = w THEN v ELSE Look(a, placements, runtime, m, x)
                     /\ Resident(t, m, ChunkAt(x)) /\ ~ IsDirty(t, m, ChunkAt(x)) =>
                            PlaneAt(t, m, ChunkAt(x))[LocalCell(x)]
                                = BackingAt(placements, runtime, m, x)
            <4>1. CASE m = l /\ ChunkAt(x) = o
                <5>1. PlaneAt(t, l, o)[LocalCell(x)] =
                          IF x = w THEN v ELSE PlaneAt(a, l, o)[LocalCell(x)]
                    BY <3>4, <3>5, <3>6, <4>1 DEF c
                <5>2. ~ IsDirty(t, l, o) => PlaneAt(t, l, o)[LocalCell(x)] = PlaneAt(a, l, o)[LocalCell(x)]
                    BY <3>4, <5>1 DEF c
                <5>3. QED
                    BY <2>6, <3>3, <3>4, <4>1, <5>1, <5>2 DEF Look, Fresh, a
            <4>2. CASE ~ (m = l /\ ChunkAt(x) = o)
                <5>1. Stable(a, t, m, ChunkAt(x)) /\ ~ (m = l /\ x = w)
                    BY <3>4, <4>2 DEF o
                <5>2. QED
                    BY <2>6, <5>1 DEF Stable, Look, Fresh, a
            <4>3. QED
                BY <4>1, <4>2
        <3>8. Fresh(t, placements, runtime)
            BY <3>7 DEF Fresh
        <3>9. \A m \in Layers : \A p : IsDirty(slots, m, p) => IsDirty(t, m, p)
            BY <2>6, <3>4 DEF Keeps, Stable, a
        <3>10. Look(slots, placements, runtime, l, w) # v => IsDirty(t, l, ChunkAt(w))
            <4>1. Look(a, placements, runtime, l, w) = PlaneAt(a, l, o)[c]
                BY <3>3 DEF Look, o, c
            <4>2. QED
                BY <2>1, <2>6, <3>4, <4>1 DEF Keeps, a, o
        <3>11. Sets(l, w, v, t)
            BY <2>6, <3>7, <3>9, <3>10 DEF Sets, Keeps, a
        <3>12. QED
            BY <1>1, <2>1, <2>6, <3>2, <3>4, <3>8, <3>11, QuietStep
    <2>9. QED
        BY <2>7, <2>8
<1>4. QED
    BY <1>2, <1>3

-----------------------------------------------------------------------------
(***************************************************************************)
(* Placements.                                                             *)
(***************************************************************************)
LEMMA FreshWhenEmpty ==
    ASSUME NEW ps, NEW rt
    PROVE  Fresh(EmptySlots, ps, rt)
BY EmptyArray DEF Fresh

\* A call on the placements is refused, or it empties a cache without a dirty
\* plane and leaves accepted placements.
Refusal == UNCHANGED <<slots, placements, nextId, runtime, flush>>

Replacement ==
    /\ slots' = EmptySlots /\ ~ HasDirty(slots)
    /\ placements' # placements
    /\ placements' \in Seq(Placement) /\ Len(placements') <= MaxPlacements
    /\ nextId' \in Nat \ {0} /\ PlacementsOK'
    /\ UNCHANGED <<runtime, flush>>

Managed ==
    /\ Ready
    /\ reply' \in Errors \cup {"ok", "restarted"}
    /\ Refusal \/ Replacement

\* The invariant is kept by a placement call, refused or carried out.
LEMMA ManagedStep ==
    ASSUME IInv, Managed
    PROVE  IInv'
<1>1. CASE Refusal
    <2>1. /\ UNCHANGED <<placements, nextId, runtime, flush>>
          /\ slots' \in Arrays /\ Consistent(slots') /\ Fresh(slots', placements, runtime)
        BY <1>1 DEF Refusal, IInv, TypeOK, CacheOK, Arrays
    <2>2. Ready /\ reply' \in Errors \cup {"ok", "restarted"}
        BY DEF Managed
    <2>3. QED
        BY <2>1, <2>2, QuietStep
<1>2. CASE Replacement
    <2>1. flush' = Idle
        BY <1>2 DEF IInv, FlushOK, ShapeOK, Replacement, Managed
    <2>2. FlushOK' /\ flush' \in [pc : FlushSteps, scope : Seq(Layers), layers : Seq(Layers),
                                  todo : Seq(Coord), layout : BOOLEAN, runs : Seq(Run)]
        BY <2>1, IdleFlush
    <2>3. TypeOK'
        BY <1>2, <2>2, EmptyArray DEF IInv, TypeOK, Replacement, Managed, Arrays
    <2>4. SourcesOK'
        BY <1>2 DEF IInv, SourcesOK, Replacement
    <2>5. CacheOK'
        BY <1>2, EmptyArray, FreshWhenEmpty DEF CacheOK, Replacement
    <2>6. QED
        BY <1>2, <2>2, <2>3, <2>4, <2>5 DEF IInv, Replacement
<1>3. QED
    BY <1>1, <1>2 DEF Managed

\* A refused placement call changes nothing.
LEMMA RefusedIsManaged ==
    ASSUME Ready, NEW e \in Errors \cup {NoError}, Refused(e), UNCHANGED <<runtime, flush>>
    PROVE  Managed
BY Replies DEF Managed, Refusal, Refused

\* What Append does to a sequence.
LEMMA Appended ==
    ASSUME NEW S, NEW q \in Seq(S), NEW x \in S
    PROVE  /\ Append(q, x) \in Seq(S) /\ Len(Append(q, x)) = Len(q) + 1
           /\ DOMAIN Append(q, x) = 1 .. Len(q) + 1
           /\ Append(q, x)[Len(q) + 1] = x
           /\ \A i \in 1 .. Len(q) : Append(q, x)[i] = q[i]
OBVIOUS

\* place(): the new placement has an id of its own.
LEMMA PlaceIsManaged ==
    ASSUME IInv, NEW patch, NEW position, patch \in DOMAIN Catalogue => position \in Coord,
           NEW rotation \in Rotations, NEW reflection \in Reflections,
           Place(patch, position, rotation, reflection)
    PROVE  Managed
<1> DEFINE p == [id |-> nextId, patch |-> patch, position |-> position,
                 rotation |-> rotation, reflection |-> reflection]
<1>1. Ready /\ UNCHANGED <<runtime, flush>>
    BY DEF Place
<1>2. "UnknownPatch" \in Errors /\ "CapacityFull" \in Errors /\ "DirtyState" \in Errors
    BY DEF Errors
<1>3. CASE Refused("UnknownPatch") \/ Refused("CapacityFull") \/ Refused("DirtyState")
    BY <1>1, <1>2, <1>3, RefusedIsManaged
<1>4. CASE /\ patch \in DOMAIN Catalogue /\ Len(placements) # MaxPlacements
           /\ ~ HasDirty(slots) /\ ClearsCache
           /\ placements' = Append(placements, p)
           /\ nextId' = nextId + 1
           /\ Return(NoError)
    <2>1. /\ placements \in Seq(Placement) /\ Len(placements) <= MaxPlacements
          /\ nextId \in Nat \ {0} /\ Len(placements) \in Nat /\ MaxPlacements \in Nat
          /\ DOMAIN placements = 1 .. Len(placements)
        BY BoundsAssumption DEF IInv, TypeOK
    <2>2. p \in Placement /\ p.id = nextId
        BY <1>4, <2>1 DEF Placement
    <2> HIDE DEF p
    <2>3. /\ placements' \in Seq(Placement) /\ Len(placements') = Len(placements) + 1
          /\ DOMAIN placements' = 1 .. Len(placements) + 1
          /\ placements'[Len(placements) + 1] = p
          /\ \A i \in 1 .. Len(placements) : placements'[i] = placements[i]
        <3>1. placements \in Seq(Placement) /\ p \in Placement /\ placements' = Append(placements, p)
            BY <1>4, <2>1, <2>2 DEF p
        <3>2. QED
            BY <3>1, Appended
    <2>4. /\ Len(placements') <= MaxPlacements /\ placements' # placements
          /\ nextId' \in Nat \ {0} /\ nextId' = nextId + 1
        <3> DEFINE n == Len(placements)
                   n2 == Len(placements')
        <3>0. n \in Nat /\ n <= MaxPlacements /\ MaxPlacements \in Nat /\ n # MaxPlacements
              /\ n2 = n + 1 /\ nextId \in Nat /\ nextId' = nextId + 1
            BY <1>4, <2>1, <2>3
        <3> HIDE DEF n, n2
        <3>1. n2 <= MaxPlacements
            BY <3>0
        <3>2. n2 # n
            BY <3>0
        <3>3. nextId' \in Nat \ {0} /\ nextId' = nextId + 1
            BY <3>0
        <3> USE DEF n, n2
        <3>4. QED
            BY <3>1, <3>2, <3>3
    <2>5. \A i \in 1 .. Len(placements) : placements[i].id \in Nat /\ placements[i].id < nextId
        <3>1. \A i \in 1 .. Len(placements) : placements[i] \in Placement
            BY <2>1
        <3>2. \A q \in Placement : q.id \in Nat
            BY DEF Placement
        <3>3. \A i \in 1 .. Len(placements) : placements[i].id < nextId
            BY <2>1 DEF IInv, PlacementsOK
        <3>4. QED
            BY <3>1, <3>2, <3>3
    <2>6. ASSUME NEW i \in DOMAIN placements', NEW j \in DOMAIN placements'
          PROVE  /\ placements'[i].id < nextId'
                 /\ placements'[i].id = placements'[j].id => i = j
        <3>1. /\ i \in 1 .. Len(placements) \/ i = Len(placements) + 1
              /\ j \in 1 .. Len(placements) \/ j = Len(placements) + 1
            BY <2>1, <2>3
        <3>2. placements'[i].id < nextId'
            <4>1. placements'[i].id \in Nat /\ placements'[i].id <= nextId
                BY <2>1, <2>2, <2>3, <2>5, <3>1
            <4>2. QED
                BY <2>1, <2>4, <4>1
        <3>3. ASSUME placements'[i].id = placements'[j].id PROVE i = j
            <4>1. CASE i \in 1 .. Len(placements) /\ j \in 1 .. Len(placements)
                BY <2>1, <2>3, <3>3, <4>1 DEF IInv, PlacementsOK
            <4>2. CASE i \in 1 .. Len(placements) /\ j = Len(placements) + 1
                BY <2>1, <2>2, <2>3, <2>5, <3>3, <4>2
            <4>3. CASE i = Len(placements) + 1 /\ j \in 1 .. Len(placements)
                BY <2>1, <2>2, <2>3, <2>5, <3>3, <4>3
            <4>4. QED
                BY <3>1, <4>1, <4>2, <4>3
        <3>4. QED
            BY <3>2, <3>3
    <2>7. PlacementsOK'
        BY <2>6 DEF PlacementsOK
    <2>8. reply' \in Errors \cup {"ok", "restarted"}
        BY <1>4, Replies
    <2>9. QED
        BY <1>1, <1>4, <2>3, <2>4, <2>7, <2>8 DEF Managed, Replacement, ClearsCache
<1>5. QED
    BY <1>3, <1>4 DEF Place

\* place(patch), likewise.
LEMMA PlaceNaturallyIsManaged ==
    ASSUME IInv, NEW patch, PlaceNaturally(patch)
    PROVE  Managed
<1> DEFINE position == IF patch \in DOMAIN Catalogue THEN Catalogue[patch].natural ELSE <<0, 0>>
<1>1. patch \in DOMAIN Catalogue => position \in Coord
    BY CatalogueAssumption
<1>2. "none" \in Rotations /\ "none" \in Reflections
    BY DEF Rotations, Reflections
<1>3. Place(patch, position, "none", "none")
    BY DEF PlaceNaturally
<1> HIDE DEF position
<1>4. QED
    BY <1>1, <1>2, <1>3, PlaceIsManaged

\* A setter that changes a placement leaves its id.
LEMMA ReplacedPlacement ==
    ASSUME IInv, NEW i \in DOMAIN placements, NEW p \in Placement, p.id = placements[i].id,
           p # placements[i], placements' = [placements EXCEPT ![i] = p],
           ClearsCache, ~ HasDirty(slots), Return(NoError), UNCHANGED nextId,
           Ready, UNCHANGED <<runtime, flush>>
    PROVE  Managed
<1>1. /\ placements \in Seq(Placement) /\ Len(placements) <= MaxPlacements
      /\ nextId \in Nat \ {0} /\ DOMAIN placements = 1 .. Len(placements)
    BY DEF IInv, TypeOK
<1>2. /\ placements' \in Seq(Placement) /\ Len(placements') = Len(placements)
      /\ DOMAIN placements' = DOMAIN placements
      /\ placements'[i] = p /\ \A j \in DOMAIN placements : j # i => placements'[j] = placements[j]
    BY <1>1
<1>3. \A j \in DOMAIN placements : placements'[j].id = placements[j].id
    BY <1>2
<1>4. PlacementsOK'
    BY <1>2, <1>3 DEF IInv, PlacementsOK
<1>5. placements' # placements
    BY <1>2
<1>6. reply' \in Errors \cup {"ok", "restarted"}
    BY Replies
<1>7. QED
    BY <1>1, <1>2, <1>4, <1>5, <1>6 DEF Managed, Replacement, ClearsCache

\* The scan for an id finds it.
LEMMA FoundPlacement ==
    ASSUME IInv, NEW id, {i \in DOMAIN placements : placements[i].id = id} # {}
    PROVE  First({i \in DOMAIN placements : placements[i].id = id}) \in DOMAIN placements
<1> DEFINE found == {i \in DOMAIN placements : placements[i].id = id}
<1>1. found \in SUBSET Nat /\ found \subseteq DOMAIN placements
    BY DEF IInv, TypeOK
<1>2. found # {}
    OBVIOUS
<1> HIDE DEF found
<1>3. \E i \in found : \A j \in found : i <= j
    BY <1>1, <1>2, LeastNatural
<1>4. First(found) \in found
    BY <1>3 DEF First
<1>5. QED
    BY <1>1, <1>4 DEF found

\* The errors of the setters.
LEMMA ChangeErrors ==
    "UnknownPlacement" \in Errors \cup {NoError} /\ "DirtyState" \in Errors \cup {NoError}
BY DEF Errors

\* set_position() and its fellows replace one placement by another with its id.
LEMMA SetPositionIsManaged ==
    ASSUME IInv, NEW id, NEW position \in Coord, SetPosition(id, position)
    PROVE  Managed
<1> DEFINE found == {i \in DOMAIN placements : placements[i].id = id}
           i == First(found)
           p == [placements[i] EXCEPT !.position = position]
<1>0. ASSUME found # {} PROVE placements[i] \in Placement
    <2>1. i \in DOMAIN placements
        BY <1>0, FoundPlacement
    <2>2. QED
        BY <2>1 DEF IInv, TypeOK
<1>1. /\ Ready /\ UNCHANGED <<runtime, flush>>
      /\ \/ Refused("UnknownPlacement") \/ Refused(NoError) \/ Refused("DirtyState")
         \/ /\ found # {} /\ p # placements[i] /\ ~ HasDirty(slots) /\ ClearsCache
            /\ placements' = [placements EXCEPT ![i] = p]
            /\ Return(NoError) /\ UNCHANGED nextId
    BY <1>0 DEF SetPosition, Change
<1>2. CASE Refused("UnknownPlacement") \/ Refused(NoError) \/ Refused("DirtyState")
    BY <1>1, <1>2, ChangeErrors, RefusedIsManaged
<1>3. CASE /\ found # {} /\ p # placements[i] /\ ~ HasDirty(slots) /\ ClearsCache
           /\ placements' = [placements EXCEPT ![i] = p]
           /\ Return(NoError) /\ UNCHANGED nextId
    <2>1. i \in DOMAIN placements
        BY <1>3, FoundPlacement
    <2>2. placements[i] \in Placement
        BY <2>1 DEF IInv, TypeOK
    <2>3. p \in Placement /\ p.id = placements[i].id
        BY <2>2 DEF Placement
    <2> HIDE DEF i, p
    <2>4. QED
        BY <1>1, <1>3, <2>1, <2>3, ReplacedPlacement
<1>4. QED
    BY <1>1, <1>2, <1>3

LEMMA SetRotationIsManaged ==
    ASSUME IInv, NEW id, NEW rotation \in Rotations, SetRotation(id, rotation)
    PROVE  Managed
<1> DEFINE found == {i \in DOMAIN placements : placements[i].id = id}
           i == First(found)
           p == [placements[i] EXCEPT !.rotation = rotation]
<1>0. ASSUME found # {} PROVE placements[i] \in Placement
    <2>1. i \in DOMAIN placements
        BY <1>0, FoundPlacement
    <2>2. QED
        BY <2>1 DEF IInv, TypeOK
<1>1. /\ Ready /\ UNCHANGED <<runtime, flush>>
      /\ \/ Refused("UnknownPlacement") \/ Refused(NoError) \/ Refused("DirtyState")
         \/ /\ found # {} /\ p # placements[i] /\ ~ HasDirty(slots) /\ ClearsCache
            /\ placements' = [placements EXCEPT ![i] = p]
            /\ Return(NoError) /\ UNCHANGED nextId
    BY <1>0 DEF SetRotation, Change
<1>2. CASE Refused("UnknownPlacement") \/ Refused(NoError) \/ Refused("DirtyState")
    BY <1>1, <1>2, ChangeErrors, RefusedIsManaged
<1>3. CASE /\ found # {} /\ p # placements[i] /\ ~ HasDirty(slots) /\ ClearsCache
           /\ placements' = [placements EXCEPT ![i] = p]
           /\ Return(NoError) /\ UNCHANGED nextId
    <2>1. i \in DOMAIN placements
        BY <1>3, FoundPlacement
    <2>2. placements[i] \in Placement
        BY <2>1 DEF IInv, TypeOK
    <2>3. p \in Placement /\ p.id = placements[i].id
        BY <2>2 DEF Placement
    <2> HIDE DEF i, p
    <2>4. QED
        BY <1>1, <1>3, <2>1, <2>3, ReplacedPlacement
<1>4. QED
    BY <1>1, <1>2, <1>3

LEMMA SetReflectionIsManaged ==
    ASSUME IInv, NEW id, NEW reflection \in Reflections, SetReflection(id, reflection)
    PROVE  Managed
<1> DEFINE found == {i \in DOMAIN placements : placements[i].id = id}
           i == First(found)
           p == [placements[i] EXCEPT !.reflection = reflection]
<1>0. ASSUME found # {} PROVE placements[i] \in Placement
    <2>1. i \in DOMAIN placements
        BY <1>0, FoundPlacement
    <2>2. QED
        BY <2>1 DEF IInv, TypeOK
<1>1. /\ Ready /\ UNCHANGED <<runtime, flush>>
      /\ \/ Refused("UnknownPlacement") \/ Refused(NoError) \/ Refused("DirtyState")
         \/ /\ found # {} /\ p # placements[i] /\ ~ HasDirty(slots) /\ ClearsCache
            /\ placements' = [placements EXCEPT ![i] = p]
            /\ Return(NoError) /\ UNCHANGED nextId
    BY <1>0 DEF SetReflection, Change
<1>2. CASE Refused("UnknownPlacement") \/ Refused(NoError) \/ Refused("DirtyState")
    BY <1>1, <1>2, ChangeErrors, RefusedIsManaged
<1>3. CASE /\ found # {} /\ p # placements[i] /\ ~ HasDirty(slots) /\ ClearsCache
           /\ placements' = [placements EXCEPT ![i] = p]
           /\ Return(NoError) /\ UNCHANGED nextId
    <2>1. i \in DOMAIN placements
        BY <1>3, FoundPlacement
    <2>2. placements[i] \in Placement
        BY <2>1 DEF IInv, TypeOK
    <2>3. p \in Placement /\ p.id = placements[i].id
        BY <2>2 DEF Placement
    <2> HIDE DEF i, p
    <2>4. QED
        BY <1>1, <1>3, <2>1, <2>3, ReplacedPlacement
<1>4. QED
    BY <1>1, <1>2, <1>3

LEMMA SetOrientationIsManaged ==
    ASSUME IInv, NEW id, NEW rotation \in Rotations, NEW reflection \in Reflections,
           SetOrientation(id, rotation, reflection)
    PROVE  Managed
<1> DEFINE found == {i \in DOMAIN placements : placements[i].id = id}
           i == First(found)
           p == [placements[i] EXCEPT !.rotation = rotation, !.reflection = reflection]
           changed == [q \in Placement |-> [q EXCEPT !.rotation = rotation, !.reflection = reflection]]
<1>0. ASSUME found # {} PROVE changed[placements[i]] = p
    <2>1. i \in DOMAIN placements
        BY <1>0, FoundPlacement
    <2>2. placements[i] \in Placement
        BY <2>1 DEF IInv, TypeOK
    <2>3. QED
        BY <2>2, Zenon
<1>1. Change(id, changed)
    BY Zenon DEF SetOrientation
<1> HIDE DEF p, changed
<1>2. /\ Ready /\ UNCHANGED <<runtime, flush>>
      /\ \/ Refused("UnknownPlacement") \/ Refused(NoError) \/ Refused("DirtyState")
         \/ /\ found # {} /\ p # placements[i] /\ ~ HasDirty(slots) /\ ClearsCache
            /\ placements' = [placements EXCEPT ![i] = p]
            /\ Return(NoError) /\ UNCHANGED nextId
    BY <1>0, <1>1 DEF Change
<1>3. CASE Refused("UnknownPlacement") \/ Refused(NoError) \/ Refused("DirtyState")
    BY <1>2, <1>3, ChangeErrors, RefusedIsManaged
<1>4. CASE /\ found # {} /\ p # placements[i] /\ ~ HasDirty(slots) /\ ClearsCache
           /\ placements' = [placements EXCEPT ![i] = p]
           /\ Return(NoError) /\ UNCHANGED nextId
    <2>1. i \in DOMAIN placements
        BY <1>4, FoundPlacement
    <2>2. placements[i] \in Placement
        BY <2>1 DEF IInv, TypeOK
    <2>3. p \in Placement /\ p.id = placements[i].id
        BY <2>2 DEF Placement, p
    <2> HIDE DEF i, p
    <2>4. QED
        BY <1>2, <1>4, <2>1, <2>3, ReplacedPlacement
<1>5. QED
    BY <1>2, <1>3, <1>4

\* Every placement call is one or the other.
LEMMA ManagementIsManaged ==
    ASSUME IInv, Management
    PROVE  Managed
<1>1. TurnTo \subseteq Rotations /\ MirrorTo \subseteq Reflections /\ PlaceAt \subseteq Coord
    BY InputsAssumption
<1>2. CASE \E patch \in PatchIds : PlaceNaturally(patch)
    BY <1>2, PlaceNaturallyIsManaged
<1>3. CASE \E patch \in PatchIds, position \in PlaceAt, rotation \in TurnTo,
              reflection \in MirrorTo : Place(patch, position, rotation, reflection)
    BY <1>1, <1>3, PlaceIsManaged
<1>4. CASE \E id \in 0 .. MaxPlacements, position \in PlaceAt : SetPosition(id, position)
    BY <1>1, <1>4, SetPositionIsManaged
<1>5. CASE \E id \in 0 .. MaxPlacements, rotation \in TurnTo : SetRotation(id, rotation)
    BY <1>1, <1>5, SetRotationIsManaged
<1>6. CASE \E id \in 0 .. MaxPlacements, reflection \in MirrorTo : SetReflection(id, reflection)
    BY <1>1, <1>6, SetReflectionIsManaged
<1>7. CASE \E id \in 0 .. MaxPlacements, rotation \in TurnTo, reflection \in MirrorTo :
               SetOrientation(id, rotation, reflection)
    BY <1>1, <1>7, SetOrientationIsManaged
<1>8. QED
    BY <1>2, <1>3, <1>4, <1>5, <1>6, <1>7 DEF Management

-----------------------------------------------------------------------------
(***************************************************************************)
(* A new Map over the storage it finds.                                    *)
(***************************************************************************)
LEMMA NewMap ==
    ASSUME slots' = EmptySlots, placements' = <<>>, nextId' = 1, flush' = Idle,
           runtime' \in [Bound -> RuntimeSource], SourcesOK',
           reply' \in Errors \cup {"ok", "restarted"}
    PROVE  IInv'
<1>1. FlushOK' /\ flush' \in [pc : FlushSteps, scope : Seq(Layers), layers : Seq(Layers),
                              todo : Seq(Coord), layout : BOOLEAN, runs : Seq(Run)]
    BY IdleFlush
<1>2. placements' \in Seq(Placement) /\ Len(placements') <= MaxPlacements
    BY BoundsAssumption
<1>3. TypeOK'
    BY <1>1, <1>2, EmptyArray DEF TypeOK, Arrays
<1>4. PlacementsOK'
    BY DEF PlacementsOK
<1>5. CacheOK'
    BY EmptyArray, FreshWhenEmpty DEF CacheOK
<1>6. QED
    BY <1>1, <1>3, <1>4, <1>5 DEF IInv

\* A new Map over the storage as it was left.
LEMMA RestartStep ==
    ASSUME IInv, Restart
    PROVE  IInv'
<1>1. SourcesOK' /\ runtime' \in [Bound -> RuntimeSource]
    BY DEF IInv, TypeOK, SourcesOK, Restart
<1>2. QED
    BY <1>1, NewMap DEF Restart

LEMMA InitIInv ==
    ASSUME Init
    PROVE  IInv
<1>1. /\ Ready /\ flush = Idle
      /\ flush.pc = "idle" /\ flush.scope = <<>> /\ flush.layers = <<>> /\ flush.todo = <<>>
      /\ ~ flush.layout /\ flush.runs = <<>>
    BY DEF Init, Idle, Ready
<1>2. FlushOK
    BY <1>1 DEF FlushOK, ShapeOK, CreationOK, TodoOK, DoneOK, RunsOK, Working, Preparing, At, Range
<1>3. flush \in [pc : FlushSteps, scope : Seq(Layers), layers : Seq(Layers),
                 todo : Seq(Coord), layout : BOOLEAN, runs : Seq(Run)]
    BY <1>1 DEF Idle, FlushSteps
<1>4. runtime \in [Bound -> RuntimeSource] /\ SourcesOK
    BY StorageAssumption DEF Init, SourcesOK
<1>5. placements \in Seq(Placement) /\ Len(placements) <= MaxPlacements
    BY BoundsAssumption DEF Init
<1>6. TypeOK
    BY <1>3, <1>4, <1>5, EmptyArray DEF TypeOK, Init, Arrays
<1>7. PlacementsOK
    BY DEF Init, PlacementsOK
<1>8. CacheOK
    BY EmptyArray, FreshWhenEmpty DEF CacheOK, Init
<1>9. QED
    BY <1>2, <1>4, <1>6, <1>7, <1>8 DEF IInv

-----------------------------------------------------------------------------
(***************************************************************************)
(* The runs of a plane cover its differing cells, and nothing else.        *)
(***************************************************************************)
\* Row-major order tells the cells of a plane apart.
LEMMA RowMajor ==
    ASSUME NEW x \in 0 .. Side - 1, NEW y \in 0 .. Side - 1,
           NEW u \in 0 .. Side - 1, NEW v \in 0 .. Side - 1,
           y * Side + x = v * Side + u
    PROVE  x = u /\ y = v
<1>1. /\ Side \in Nat \ {0} /\ x \in Int /\ y \in Int /\ u \in Int /\ v \in Int
      /\ 0 <= x /\ x < Side /\ 0 <= u /\ u < Side
    BY SideAssumption
<1>2. ~ (y < v)
    <2> SUFFICES ASSUME y < v PROVE FALSE
        OBVIOUS
    <2>1. PICK k \in Nat : v = y + 1 + k
        BY <1>1
    <2>2. v * Side = y * Side + Side + k * Side
        BY <1>1, <2>1
    <2>3. k * Side >= 0 /\ k * Side \in Int /\ y * Side \in Int
        BY <1>1
    <2>4. QED
        BY <1>1, <2>2, <2>3
<1>3. ~ (v < y)
    <2> SUFFICES ASSUME v < y PROVE FALSE
        OBVIOUS
    <2>1. PICK k \in Nat : y = v + 1 + k
        BY <1>1
    <2>2. y * Side = v * Side + Side + k * Side
        BY <1>1, <2>1
    <2>3. k * Side >= 0 /\ k * Side \in Int /\ v * Side \in Int
        BY <1>1
    <2>4. QED
        BY <1>1, <2>2, <2>3
<1>4. y = v
    BY <1>1, <1>2, <1>3
<1>5. y * Side \in Int
    BY <1>1
<1>6. QED
    BY <1>1, <1>4, <1>5

\* A stretch of cells ends within the row.
Stretch(cells, s, n) ==
    /\ \A i \in 0 .. n - 1 : <<s[1] + i, s[2]>> \in cells
    /\ <<s[1] + n, s[2]>> \notin cells

\* A run that starts in a row ends in it.
LEMMA StretchEnds ==
    ASSUME NEW cells \in SUBSET PlaneCells(Side), NEW s \in cells
    PROVE  \E n \in 1 .. Side : Stretch(cells, s, n)
<1>1. /\ s = <<s[1], s[2]>> /\ s[1] \in 0 .. Side - 1 /\ s[2] \in 0 .. Side - 1
      /\ Side \in Nat \ {0} /\ s[1] \in Int
    BY SideAssumption DEF PlaneCells
<1> DEFINE N == {n \in 1 .. Side : <<s[1] + n, s[2]>> \notin cells}
<1>2. Side \in N
    <2>1. s[1] + Side \notin 0 .. Side - 1
        BY <1>1
    <2>2. <<s[1] + Side, s[2]>> \notin PlaneCells(Side)
        BY <2>1 DEF PlaneCells
    <2>3. QED
        BY <1>1, <2>2
<1>3. PICK n \in N : \A m \in N : n <= m
    <2>1. N \in SUBSET Nat /\ N # {}
        BY <1>1, <1>2
    <2> HIDE DEF N
    <2>2. QED
        BY <2>1, LeastNatural
<1>4. n \in 1 .. Side /\ <<s[1] + n, s[2]>> \notin cells
    OBVIOUS
<1>5. ASSUME NEW i \in 0 .. n - 1 PROVE <<s[1] + i, s[2]>> \in cells
    <2>1. CASE i = 0
        <3>1. <<s[1] + i, s[2]>> = s
            BY <1>1, <2>1
        <3>2. QED
            BY <3>1
    <2>2. CASE i # 0
        <3>1. i \in 1 .. Side /\ ~ (n <= i)
            BY <1>1, <1>4, <2>2
        <3>2. i \notin N
            BY <1>3, <3>1
        <3>3. QED
            BY <3>1, <3>2
    <2>3. QED
        BY <2>1, <2>2
<1>6. QED
    BY <1>4, <1>5 DEF Stretch

\* Every cell is in the stretch of the first cell to its left that has none.
LEMMA StretchStarts ==
    ASSUME NEW cells \in SUBSET PlaneCells(Side), NEW c \in cells
    PROVE  \E x \in 0 .. c[1] : /\ \A i \in x .. c[1] : <<i, c[2]>> \in cells
                                /\ <<x - 1, c[2]>> \notin cells
<1>1. /\ c = <<c[1], c[2]>> /\ c[1] \in 0 .. Side - 1 /\ c[2] \in 0 .. Side - 1
      /\ Side \in Nat \ {0} /\ c[1] \in Nat
    BY SideAssumption DEF PlaneCells
<1> DEFINE M == {x \in 0 .. c[1] : \A i \in x .. c[1] : <<i, c[2]>> \in cells}
<1>2. c[1] \in M
    <2>1. \A i \in c[1] .. c[1] : i = c[1]
        BY <1>1
    <2>2. \A i \in c[1] .. c[1] : <<i, c[2]>> \in cells
        BY <1>1, <2>1
    <2>3. QED
        BY <1>1, <2>2
<1>3. PICK x \in M : \A m \in M : x <= m
    <2>1. M \in SUBSET Nat /\ M # {}
        BY <1>1, <1>2
    <2> HIDE DEF M
    <2>2. QED
        BY <2>1, LeastNatural
<1>4. x \in 0 .. c[1] /\ \A i \in x .. c[1] : <<i, c[2]>> \in cells
    OBVIOUS
<1>5. <<x - 1, c[2]>> \notin cells
    <2> SUFFICES ASSUME <<x - 1, c[2]>> \in cells PROVE FALSE
        OBVIOUS
    <2>1. x - 1 \in 0 .. Side - 1
        BY DEF PlaneCells
    <2>2. x - 1 \in 0 .. c[1] /\ ~ (x <= x - 1)
        BY <1>1, <1>4, <2>1
    <2>3. \A i \in x - 1 .. c[1] : i = x - 1 \/ i \in x .. c[1]
        BY <1>1, <1>4
    <2>4. x - 1 \in M
        BY <1>4, <2>2, <2>3
    <2>5. QED
        BY <1>3, <2>2, <2>4
<1>6. QED
    BY <1>4, <1>5

\* The runs of a set of cells are made of those cells.
LEMMA RunsCover ==
    ASSUME NEW cells \in SUBSET PlaneCells(Side)
    PROVE  /\ Runs(cells) \in Seq(Run)
           /\ Pending(Runs(cells)) = cells
           /\ cells # {} => Runs(cells) # <<>>
<1> DEFINE Starts == {c \in cells : <<c[1] - 1, c[2]>> \notin cells}
           SizeFrom(s) == CHOOSE n \in 1 .. Side :
                              /\ \A i \in 0 .. n - 1 : <<s[1] + i, s[2]>> \in cells
                              /\ <<s[1] + n, s[2]>> \notin cells
           RunAt(s) == [x |-> s[1], y |-> s[2], size |-> SizeFrom(s)]
           runs == {RunAt(s) : s \in Starts}
           key == [r \in runs |-> r.y * Side + r.x]
           listed == Runs(cells)
<1>1. listed = InOrder(runs, key)
    BY DEF Runs
<1>2. ASSUME NEW s \in Starts
      PROVE  /\ SizeFrom(s) \in 1 .. Side /\ Stretch(cells, s, SizeFrom(s))
             /\ s = <<s[1], s[2]>> /\ s[1] \in 0 .. Side - 1 /\ s[2] \in 0 .. Side - 1
    <2>1. s \in cells
        OBVIOUS
    <2>2. \E n \in 1 .. Side : Stretch(cells, s, n)
        BY <2>1, StretchEnds
    <2>3. SizeFrom(s) \in 1 .. Side /\ Stretch(cells, s, SizeFrom(s))
        BY <2>2 DEF Stretch
    <2>4. QED
        BY <2>1, <2>3 DEF PlaneCells
<1> HIDE DEF SizeFrom
<1>3. ASSUME NEW r \in runs PROVE r \in Run /\ r.y \in Int /\ r.x \in Int
    <2>1. PICK s \in Starts : r = RunAt(s)
        OBVIOUS
    <2>2. s[1] \in 0 .. Side - 1 /\ s[2] \in 0 .. Side - 1 /\ SizeFrom(s) \in 1 .. Side
        BY <1>2
    <2>3. s[1] \in Int /\ s[2] \in Int
        BY <2>2, SideAssumption
    <2> HIDE DEF runs, Starts, key, listed
    <2>4. QED
        BY <2>1, <2>2, <2>3 DEF Run
<1>4. \A r \in runs : key[r] = r.y * Side + r.x /\ key[r] \in Int
    <2>1. \A r \in runs : r.y \in Int /\ r.x \in Int
        BY <1>3
    <2>2. Side \in Int
        BY SideAssumption
    <2> HIDE DEF runs
    <2>3. QED
        BY <2>1, <2>2
<1>5. ASSUME NEW q \in runs, NEW r \in runs, key[q] = key[r] PROVE q = r
    <2>1. PICK s \in Starts : q = RunAt(s)
        OBVIOUS
    <2>2. PICK t \in Starts : r = RunAt(t)
        OBVIOUS
    <2>3. q.x = s[1] /\ q.y = s[2] /\ r.x = t[1] /\ r.y = t[2]
        BY <2>1, <2>2
    <2>4. q.y * Side + q.x = r.y * Side + r.x
        BY <1>4, <1>5
    <2>5. /\ q.x \in 0 .. Side - 1 /\ q.y \in 0 .. Side - 1
          /\ r.x \in 0 .. Side - 1 /\ r.y \in 0 .. Side - 1
        BY <1>2, <2>3
    <2>6. q.x = r.x /\ q.y = r.y
        BY <2>4, <2>5, RowMajor
    <2>7. s = t
        BY <1>2, <2>3, <2>6
    <2>8. QED
        BY <2>1, <2>2, <2>7
<1>6. IsFiniteSet(runs)
    <2>1. IsFiniteSet(0 .. Side - 1)
        BY SideAssumption, FS_Interval
    <2>2. IsFiniteSet(PlaneCells(Side))
        BY <2>1, FS_Product DEF PlaneCells
    <2>3. Starts \subseteq PlaneCells(Side)
        OBVIOUS
    <2>4. IsFiniteSet(Starts)
        BY <2>2, <2>3, FS_Subset
    <2> DEFINE f == [s \in Starts |-> RunAt(s)]
    <2>5. f \in Surjection(Starts, runs)
        BY DEF Surjection
    <2> HIDE DEF f, Starts, runs
    <2>6. QED
        BY <2>4, <2>5, FS_Surjection
<1>7. \A r : r \in runs <=> \E s \in Starts : r = RunAt(s)
    OBVIOUS
<1> HIDE DEF runs, key, listed
<1>8. /\ listed \in Seq(runs) /\ DOMAIN listed = 1 .. Len(listed)
      /\ \A r \in runs : \E k \in 1 .. Len(listed) : listed[k] = r
    BY <1>1, <1>4, <1>5, <1>6, InOrderSorts
<1>9. Len(listed) \in Nat /\ \A k \in DOMAIN listed : listed[k] \in runs
    BY <1>8
<1>10. listed \in Seq(Run)
    BY <1>3, <1>8, <1>9
<1>11. ASSUME NEW c \in Pending(listed) PROVE c \in cells
    <2>1. PICK k \in DOMAIN listed : c \in RunCells(listed[k])
        BY DEF Pending
    <2>2. PICK s \in Starts : listed[k] = RunAt(s)
        BY <1>7, <1>9
    <2>3. PICK x \in s[1] .. s[1] + SizeFrom(s) - 1 : c = <<x, s[2]>>
        BY <2>1, <2>2 DEF RunCells
    <2>4. s[1] \in Int /\ SizeFrom(s) \in Int
        BY <1>2, SideAssumption
    <2>5. x - s[1] \in 0 .. SizeFrom(s) - 1 /\ s[1] + (x - s[1]) = x
        BY <2>4
    <2>6. QED
        BY <1>2, <2>3, <2>5 DEF Stretch
<1>12. ASSUME NEW c \in cells PROVE c \in Pending(listed)
    <2>1. c = <<c[1], c[2]>> /\ c[1] \in 0 .. Side - 1 /\ c[2] \in 0 .. Side - 1 /\ c[1] \in Int
        BY SideAssumption DEF PlaneCells
    <2>2. PICK x \in 0 .. c[1] : /\ \A i \in x .. c[1] : <<i, c[2]>> \in cells
                                 /\ <<x - 1, c[2]>> \notin cells
        BY StretchStarts
    <2> DEFINE s == <<x, c[2]>>
    <2>3. x \in Int /\ x <= c[1] /\ x \in x .. c[1]
        BY <2>1
    <2>4. s \in Starts /\ s[1] = x /\ s[2] = c[2]
        BY <2>2, <2>3
    <2> HIDE DEF s
    <2> DEFINE n == SizeFrom(s)
    <2>5. n \in 1 .. Side /\ <<x + n, c[2]>> \notin cells /\ n \in Int
        BY <1>2, <2>4, SideAssumption DEF Stretch
    <2> HIDE DEF n
    <2>6. x + n \notin x .. c[1]
        BY <2>2, <2>5
    <2>7. c[1] \in x .. x + n - 1
        BY <2>1, <2>3, <2>5, <2>6
    <2>8. c \in RunCells(RunAt(s))
        BY <2>1, <2>4, <2>7 DEF RunCells, n
    <2>9. PICK k \in DOMAIN listed : listed[k] = RunAt(s)
        BY <1>7, <1>8, <2>4
    <2>10. QED
        BY <2>8, <2>9 DEF Pending
<1>13. cells # {} => listed # <<>>
    <2>1. ASSUME NEW c \in cells PROVE listed # <<>>
        BY <1>12, <2>1 DEF Pending
    <2>2. QED
        BY <2>1
<1>14. Pending(listed) = cells
    BY <1>11, <1>12
<1>15. QED
    BY <1>10, <1>13, <1>14 DEF listed

-----------------------------------------------------------------------------
(***************************************************************************)
(* The steps of a flush.                                                   *)
(***************************************************************************)
Flushes == [pc : FlushSteps, scope : Seq(Layers), layers : Seq(Layers),
            todo : Seq(Coord), layout : BOOLEAN, runs : Seq(Run)]

\* What Head and Tail do to a sequence.
LEMMA HeadAndTail ==
    ASSUME NEW S, NEW q \in Seq(S), q # <<>>
    PROVE  /\ Head(q) \in S /\ Tail(q) \in Seq(S) /\ Head(q) = q[1] /\ 1 \in DOMAIN q
           /\ \A k \in DOMAIN Tail(q) : k + 1 \in DOMAIN q /\ Tail(q)[k] = q[k + 1] /\ k \in Int
           /\ \A k \in DOMAIN q : k = 1 \/ \E j \in DOMAIN Tail(q) : Tail(q)[j] = q[k]
           /\ Range(q) = {Head(q)} \cup Range(Tail(q))
<1> DEFINE n == Len(q)
<1>1. n \in Nat /\ n # 0 /\ DOMAIN q = 1 .. n
    OBVIOUS
<1>2. /\ Head(q) = q[1] /\ Tail(q) \in Seq(S) /\ Len(Tail(q)) = n - 1
      /\ DOMAIN Tail(q) = 1 .. n - 1
      /\ \A k \in 1 .. n - 1 : Tail(q)[k] = q[k + 1]
    OBVIOUS
<1>3. \A k \in 1 .. n : q[k] \in S
    OBVIOUS
<1> HIDE DEF n
<1>4. 1 \in 1 .. n /\ \A k \in 1 .. n - 1 : k + 1 \in 1 .. n /\ k \in Int
    BY <1>1
<1>5. ASSUME NEW k \in DOMAIN q PROVE k = 1 \/ \E j \in DOMAIN Tail(q) : Tail(q)[j] = q[k]
    <2>1. CASE k = 1
        BY <2>1
    <2>2. CASE k # 1
        <3>1. k - 1 \in 1 .. n - 1 /\ (k - 1) + 1 = k
            BY <1>1, <2>2
        <3>2. Tail(q)[k - 1] = q[k]
            BY <1>2, <3>1
        <3>3. QED
            BY <1>2, <3>1, <3>2
    <2>3. QED
        BY <2>1, <2>2
<1>6. Range(q) = {Head(q)} \cup Range(Tail(q))
    BY <1>1, <1>2, <1>4, <1>5 DEF Range
<1>7. QED
    BY <1>1, <1>2, <1>3, <1>4, <1>5, <1>6

\* What a working flush is at.
LEMMA AtWork ==
    ASSUME IInv, Working
    PROVE  /\ flush \in Flushes /\ flush.layers # <<>> /\ Layer \in Layers
           /\ flush.todo # <<>> =>
                  /\ Chunk1 \in Coord /\ Chunk1 \in Chunks
                  /\ IsDirty(slots, Layer, Chunk1) /\ Resident(slots, Layer, Chunk1)
                  /\ HasSlot(slots, Chunk1)
                  /\ PlaneAt(slots, Layer, Chunk1) \in [PlaneCells(Side) -> Bytes]
<1>1. flush \in Flushes /\ flush.layers # <<>>
    BY DEF IInv, TypeOK, FlushOK, ShapeOK, Flushes
<1>2. Layer \in Layers
    <2>1. flush.layers \in Seq(Layers)
        BY <1>1 DEF Flushes
    <2>2. QED
        BY <1>1, <2>1, HeadAndTail DEF Layer
<1>3. ASSUME flush.todo # <<>>
      PROVE  /\ Chunk1 \in Coord /\ Chunk1 \in Chunks
             /\ IsDirty(slots, Layer, Chunk1) /\ Resident(slots, Layer, Chunk1)
             /\ HasSlot(slots, Chunk1)
             /\ PlaneAt(slots, Layer, Chunk1) \in [PlaneCells(Side) -> Bytes]
    <2>1. flush.todo \in Seq(Coord)
        BY <1>1 DEF Flushes
    <2>2. Chunk1 \in Coord /\ Chunk1 = flush.todo[1] /\ 1 \in DOMAIN flush.todo
        BY <1>3, <2>1, HeadAndTail DEF Chunk1
    <2>3. IsDirty(slots, Layer, Chunk1) /\ Resident(slots, Layer, Chunk1)
        BY <2>2 DEF IInv, FlushOK, TodoOK, IsDirty
    <2>4. slots \in Arrays /\ Consistent(slots)
        BY DEF IInv, TypeOK, CacheOK, Arrays
    <2>5. QED
        BY <1>2, <2>2, <2>3, <2>4, PlaneIsTyped
<1>4. QED
    BY <1>1, <1>2, <1>3

\* A flush that ends leaves the rest to the next one.
LEMMA FlushEnds ==
    ASSUME IInv, flush' = Idle, UNCHANGED <<slots, placements, nextId>>,
           runtime' \in [Bound -> RuntimeSource], SourcesOK', Fresh(slots, placements, runtime'),
           reply' \in Errors \cup {"ok", "restarted"}
    PROVE  IInv'
<1>1. FlushOK' /\ flush' \in Flushes
    BY IdleFlush DEF Flushes
<1>2. TypeOK'
    BY <1>1 DEF IInv, TypeOK, Flushes
<1>3. PlacementsOK'
    BY DEF IInv, PlacementsOK
<1>4. CacheOK'
    BY DEF IInv, CacheOK
<1>5. QED
    BY <1>1, <1>2, <1>3, <1>4 DEF IInv

\* An early return of a flush that has touched nothing but itself.
LEMMA FlushFails ==
    ASSUME IInv, NEW e \in Errors \cup {NoError}, FlushReturn(e),
           UNCHANGED <<slots, placements, nextId, runtime>>
    PROVE  IInv'
<1>1. flush' = Idle /\ reply' \in Errors \cup {"ok", "restarted"}
    BY Replies DEF FlushReturn
<1>2. runtime' \in [Bound -> RuntimeSource] /\ SourcesOK' /\ Fresh(slots, placements, runtime')
    BY DEF IInv, TypeOK, SourcesOK, CacheOK
<1>3. QED
    BY <1>1, <1>2, FlushEnds

\* When only the flush has moved on, the rest of the invariant is as it was.
LEMMA FlushMoves ==
    ASSUME IInv, UNCHANGED <<slots, placements, nextId, runtime, reply>>,
           flush' \in Flushes, FlushOK'
    PROVE  IInv'
<1>1. TypeOK'
    BY DEF IInv, TypeOK, Flushes
<1>2. PlacementsOK' /\ SourcesOK' /\ CacheOK'
    BY DEF IInv, PlacementsOK, SourcesOK, CacheOK
<1>3. QED
    BY <1>1, <1>2 DEF IInv

\* The steps of a flush before, between and after its planes.
LEMMA BeginFlushStep ==
    ASSUME IInv, NEW layers \in Seq(Layers), BeginFlush(layers)
    PROVE  IInv'
<1>1. /\ flush'.pc = "layer" /\ flush'.scope = layers /\ flush'.layers = layers
      /\ flush'.todo = <<>> /\ ~ flush'.layout /\ flush'.runs = <<>>
      /\ flush' = [pc |-> "layer", scope |-> layers, layers |-> layers,
                   todo |-> <<>>, layout |-> FALSE, runs |-> <<>>]
    BY DEF BeginFlush, Idle
<1>2. flush' \in Flushes
    BY <1>1 DEF Flushes, FlushSteps
<1>3. ~ Working' /\ ~ Preparing' /\ ~ Ready' /\ ~ At("write")' /\ ~ At("create")'
      /\ ~ At("header")' /\ ~ At("rows")' /\ ~ At("reopen")'
    BY <1>1 DEF Working, Preparing, Ready, At
<1>4. FlushOK'
    BY <1>1, <1>3 DEF FlushOK, ShapeOK, CreationOK, TodoOK, DoneOK, RunsOK
<1>5. QED
    BY <1>2, <1>4, FlushMoves DEF BeginFlush

LEMMA FlushLayerStep ==
    ASSUME IInv, FlushLayer
    PROVE  IInv'
<1>1. flush \in Flushes /\ flush.pc = "layer"
    BY DEF IInv, TypeOK, Flushes, FlushLayer, At
<1>2. CASE flush.layers = <<>>
    BY <1>2, FlushFails DEF FlushLayer
<1>3. CASE flush.layers # <<>>
    <2>1. /\ flush'.pc = "plane" /\ flush'.scope = flush.scope /\ flush'.layers = flush.layers
          /\ flush'.todo = DirtyChunks(slots, Layer) /\ ~ flush'.layout /\ flush'.runs = flush.runs
          /\ flush' = [flush EXCEPT !.pc = "plane", !.layout = FALSE,
                                    !.todo = DirtyChunks(slots, Layer)]
          /\ UNCHANGED <<slots, placements, nextId, runtime, reply>>
        BY <1>1, <1>3 DEF FlushLayer, Flushes
    <2>2. Layer \in Layers /\ Layer' = Layer
        <3>1. flush.layers \in Seq(Layers)
            BY <1>1 DEF Flushes
        <3>2. QED
            BY <1>3, <2>1, <3>1, HeadAndTail DEF Layer
    <2>3. /\ DirtyChunks(slots, Layer) \in Seq(Coord)
          /\ \A k \in DOMAIN DirtyChunks(slots, Layer) :
                 IsDirty(slots, Layer, DirtyChunks(slots, Layer)[k])
          /\ \A j, k \in DOMAIN DirtyChunks(slots, Layer) :
                 DirtyChunks(slots, Layer)[j] = DirtyChunks(slots, Layer)[k] => j = k
          /\ \A o : IsDirty(slots, Layer, o) =>
                 \E k \in DOMAIN DirtyChunks(slots, Layer) : DirtyChunks(slots, Layer)[k] = o
        <3>1. slots \in Arrays /\ Consistent(slots)
            BY DEF IInv, TypeOK, CacheOK, Arrays
        <3>2. QED
            BY <2>2, <3>1, DirtyListed
    <2>4. flush' \in Flushes
        BY <1>1, <2>1, <2>3 DEF Flushes, FlushSteps
    <2>5. Working' /\ ~ Preparing' /\ ~ Ready' /\ ~ At("layer")' /\ ~ At("write")'
          /\ ~ At("create")' /\ ~ At("header")' /\ ~ At("rows")' /\ ~ At("reopen")'
        BY <2>1 DEF Working, Preparing, Ready, At
    <2>6. ShapeOK' /\ CreationOK' /\ RunsOK'
        BY <1>3, <2>1, <2>5 DEF ShapeOK, CreationOK, RunsOK
    <2>7. TodoOK'
        BY <2>1, <2>2, <2>3 DEF TodoOK
    <2>8. DoneOK'
        BY <2>1 DEF IInv, FlushOK, DoneOK, Clean
    <2>9. QED
        BY <2>1, <2>4, <2>6, <2>7, <2>8, FlushMoves DEF FlushOK
<1>4. QED
    BY <1>2, <1>3

LEMMA FlushNextLayerStep ==
    ASSUME IInv, FlushNextLayer
    PROVE  IInv'
<1>1. flush.pc = "plane" /\ flush.todo = <<>> /\ Working
    BY DEF FlushNextLayer, At, Working
<1>2. flush \in Flushes /\ flush.layers # <<>>
    BY <1>1, AtWork
<1>3. /\ flush'.pc = "layer" /\ flush'.scope = flush.scope /\ flush'.layers = Tail(flush.layers)
      /\ flush'.todo = <<>> /\ flush'.runs = flush.runs
      /\ flush' = [flush EXCEPT !.pc = "layer", !.layers = Tail(@)]
      /\ UNCHANGED <<slots, placements, nextId, runtime, reply>>
    BY <1>1, <1>2 DEF FlushNextLayer, Flushes
<1>4. Tail(flush.layers) \in Seq(Layers) /\ Range(flush.layers) = {Layer} \cup Range(Tail(flush.layers))
    <2>1. flush.layers \in Seq(Layers)
        BY <1>2 DEF Flushes
    <2>2. QED
        BY <1>2, <2>1, HeadAndTail DEF Layer
<1>5. flush' \in Flushes
    BY <1>2, <1>3, <1>4 DEF Flushes, FlushSteps
<1>6. ~ Working' /\ ~ Preparing' /\ ~ Ready' /\ ~ At("write")' /\ ~ At("create")'
      /\ ~ At("header")' /\ ~ At("rows")' /\ ~ At("reopen")'
    BY <1>3 DEF Working, Preparing, Ready, At
<1>7. ShapeOK' /\ CreationOK' /\ RunsOK' /\ TodoOK'
    BY <1>3, <1>6 DEF ShapeOK, CreationOK, RunsOK, TodoOK
<1>8. Clean(Layer)
    BY <1>1 DEF IInv, FlushOK, TodoOK, Clean
<1>9. DoneOK'
    BY <1>3, <1>4, <1>8 DEF IInv, FlushOK, DoneOK, Clean
<1>10. QED
    BY <1>3, <1>5, <1>7, <1>9, FlushMoves DEF FlushOK

\* The plane at hand shows what the sources answer and is marked clean.
LEMMA PlaneDone ==
    ASSUME GridFits, IInv, Working, flush.todo # <<>>,
           \A cell \in InMap(Chunk1) :
               PlaneAt(slots, Layer, Chunk1)[cell] = Backing(Layer, CellWorld(Chunk1, cell)),
           slots' = Cleaned(slots, Layer, Chunk1), flush' = NextChunk,
           UNCHANGED <<placements, nextId, runtime, reply>>
    PROVE  /\ IInv'
           /\ \A m \in Layers : \A p :
                  /\ Resident(slots', m, p) <=> Resident(slots, m, p)
                  /\ IsDirty(slots', m, p) <=> IsDirty(slots, m, p) /\ ~ (m = Layer /\ p = Chunk1)
                  /\ Resident(slots, m, p) => PlaneAt(slots', m, p) = PlaneAt(slots, m, p)
<1>1. /\ flush \in Flushes /\ flush.layers # <<>> /\ Layer \in Layers
      /\ Chunk1 \in Coord /\ Chunk1 \in Chunks /\ HasSlot(slots, Chunk1)
    BY AtWork
<1>2. slots \in Arrays /\ Consistent(slots) /\ Fresh(slots, placements, runtime)
    BY DEF IInv, TypeOK, CacheOK, Arrays
<1>3. /\ slots' \in Arrays /\ Consistent(slots')
      /\ \A m \in Layers : \A p :
             /\ Resident(slots', m, p) <=> Resident(slots, m, p)
             /\ IsDirty(slots', m, p) <=> IsDirty(slots, m, p) /\ ~ (m = Layer /\ p = Chunk1)
             /\ Resident(slots, m, p) => PlaneAt(slots', m, p) = PlaneAt(slots, m, p)
    BY <1>1, <1>2, Cleaning
<1>4. /\ flush'.pc = "plane" /\ flush'.scope = flush.scope /\ flush'.layers = flush.layers
      /\ flush'.todo = Tail(flush.todo) /\ flush'.runs = <<>> /\ flush'.layout = flush.layout
      /\ flush' = [flush EXCEPT !.pc = "plane", !.todo = Tail(@), !.runs = <<>>]
    BY <1>1 DEF NextChunk, Flushes
<1>5. /\ Tail(flush.todo) \in Seq(Coord) /\ Chunk1 = flush.todo[1] /\ 1 \in DOMAIN flush.todo
      /\ \A k \in DOMAIN Tail(flush.todo) :
             k + 1 \in DOMAIN flush.todo /\ Tail(flush.todo)[k] = flush.todo[k + 1] /\ k \in Int
      /\ \A k \in DOMAIN flush.todo :
             k = 1 \/ \E j \in DOMAIN Tail(flush.todo) : Tail(flush.todo)[j] = flush.todo[k]
      /\ \A k \in DOMAIN Tail(flush.todo) : k \in 1 .. Len(Tail(flush.todo))
    <2>1. flush.todo \in Seq(Coord)
        BY <1>1 DEF Flushes
    <2>2. Tail(flush.todo) \in Seq(Coord)
        BY <2>1, HeadAndTail
    <2>3. QED
        BY <2>1, <2>2, HeadAndTail DEF Chunk1
<1>6. flush' \in Flushes
    <2>1. Tail(flush.todo) \in Seq(Coord) /\ "plane" \in FlushSteps /\ <<>> \in Seq(Run)
        BY <1>5 DEF FlushSteps
    <2>2. [flush EXCEPT !.pc = "plane", !.todo = Tail(@), !.runs = <<>>] \in Flushes
        BY <1>1, <2>1 DEF Flushes
    <2>3. QED
        BY <1>4, <2>2
<1>7. Working' /\ ~ Preparing' /\ ~ Ready' /\ ~ At("layer")' /\ ~ At("write")'
      /\ ~ At("create")' /\ ~ At("header")' /\ ~ At("rows")' /\ ~ At("reopen")'
      /\ Layer' = Layer
    BY <1>4 DEF Working, Preparing, Ready, At, Layer
<1>8. ShapeOK' /\ CreationOK' /\ RunsOK'
    BY <1>1, <1>4, <1>7 DEF IInv, FlushOK, ShapeOK, CreationOK, RunsOK, Form
<1>9. TodoOK'
    <2>1. \A j, k \in DOMAIN flush.todo : flush.todo[j] = flush.todo[k] => j = k
        BY DEF IInv, FlushOK, TodoOK
    <2>2. \A k \in DOMAIN Tail(flush.todo) :
              /\ Tail(flush.todo)[k] # Chunk1
              /\ IsDirty(slots, Layer, Tail(flush.todo)[k])
        <3>1. ASSUME NEW k \in DOMAIN Tail(flush.todo)
              PROVE  Tail(flush.todo)[k] # Chunk1 /\ IsDirty(slots, Layer, Tail(flush.todo)[k])
            <4>1. k \in 1 .. Len(Tail(flush.todo)) /\ k + 1 \in DOMAIN flush.todo
                BY <1>5
            <4>2. k + 1 # 1
                BY <4>1
            <4>3. QED
                BY <1>5, <2>1, <4>1, <4>2 DEF IInv, FlushOK, TodoOK
        <3>2. QED
            BY <3>1
    <2>3. \A k \in DOMAIN flush'.todo : IsDirty(slots', Layer, flush'.todo[k])
        BY <1>1, <1>3, <1>4, <2>2
    <2>4. \A o \in Coord : IsDirty(slots', Layer, o) => \E k \in DOMAIN flush'.todo : flush'.todo[k] = o
        <3>1. ASSUME NEW o \in Coord, IsDirty(slots', Layer, o)
              PROVE  \E k \in DOMAIN Tail(flush.todo) : Tail(flush.todo)[k] = o
            <4>1. IsDirty(slots, Layer, o) /\ o # Chunk1
                BY <1>1, <1>3, <3>1
            <4>2. PICK k \in DOMAIN flush.todo : flush.todo[k] = o
                BY <4>1 DEF IInv, FlushOK, TodoOK
            <4>3. QED
                BY <1>5, <4>1, <4>2
        <3>2. QED
            BY <1>4, <3>1
    <2>5. \A j, k \in DOMAIN flush'.todo : flush'.todo[j] = flush'.todo[k] => j = k
        <3>1. ASSUME NEW j \in DOMAIN Tail(flush.todo), NEW k \in DOMAIN Tail(flush.todo),
                     Tail(flush.todo)[j] = Tail(flush.todo)[k]
              PROVE  j = k
            <4>1. j + 1 = k + 1
                BY <1>5, <2>1, <3>1
            <4>2. j \in Int /\ k \in Int
                BY <1>5
            <4>3. QED
                BY <4>1, <4>2
        <3>2. QED
            BY <1>4, <3>1
    <2>6. QED
        BY <1>7, <2>3, <2>4, <2>5 DEF TodoOK
<1>10. DoneOK'
    <2>1. \A l \in Layers : Clean(l) => Clean(l)'
        BY <1>3 DEF Clean
    <2>2. Range(flush.scope) \subseteq Layers
        BY <1>1 DEF Flushes, Range
    <2>3. QED
        BY <1>4, <2>1, <2>2 DEF IInv, FlushOK, DoneOK
<1>11. Fresh(slots', placements, runtime)
    <2>1. ASSUME NEW l \in Layers, NEW w \in MapCells,
                 Resident(slots', l, ChunkAt(w)), ~ IsDirty(slots', l, ChunkAt(w))
          PROVE  PlaneAt(slots', l, ChunkAt(w))[LocalCell(w)] = BackingAt(placements, runtime, l, w)
        <3>1. CASE l = Layer /\ ChunkAt(w) = Chunk1
            BY <1>3, <2>1, <3>1, ChunkOfPosition DEF Backing
        <3>2. CASE ~ (l = Layer /\ ChunkAt(w) = Chunk1)
            BY <1>2, <1>3, <2>1, <3>2 DEF Fresh
        <3>3. QED
            BY <3>1, <3>2
    <2>2. QED
        BY <2>1 DEF Fresh
<1>12. TypeOK' /\ PlacementsOK' /\ SourcesOK' /\ CacheOK'
    BY <1>3, <1>6, <1>11 DEF IInv, TypeOK, PlacementsOK, SourcesOK, CacheOK, Flushes, Arrays
<1>13. QED
    BY <1>3, <1>8, <1>9, <1>10, <1>12 DEF IInv, FlushOK

-----------------------------------------------------------------------------
\* The plane at hand is marked clean for showing what the sources answer.
Settled ==
    /\ Working /\ flush.todo # <<>>
    /\ \A cell \in InMap(Chunk1) :
           PlaneAt(slots, Layer, Chunk1)[cell] = Backing(Layer, CellWorld(Chunk1, cell))
    /\ slots' = Cleaned(slots, Layer, Chunk1) /\ flush' = NextChunk
    /\ UNCHANGED <<placements, nextId, runtime, reply>>

\* A flush that stays with its plane.
LEMMA FlushStays ==
    ASSUME IInv, Working, Working',
           UNCHANGED <<slots, placements, nextId, reply>>,
           flush' \in Flushes, flush'.scope = flush.scope, flush'.layers = flush.layers,
           flush'.todo = flush.todo,
           runtime' \in [Bound -> RuntimeSource], SourcesOK', Fresh(slots, placements, runtime'),
           ShapeOK', CreationOK', RunsOK'
    PROVE  IInv'
<1>1. Layer' = Layer
    BY DEF Layer
<1>2. TodoOK'
    BY <1>1 DEF IInv, FlushOK, TodoOK
<1>3. DoneOK'
    BY DEF IInv, FlushOK, DoneOK, Clean
<1>4. TypeOK'
    BY DEF IInv, TypeOK, Flushes
<1>5. PlacementsOK' /\ CacheOK'
    BY DEF IInv, PlacementsOK, CacheOK
<1>6. QED
    BY <1>2, <1>3, <1>4, <1>5 DEF IInv, FlushOK

\* A plane is compared with what the sources answer.
LEMMA DifferencesFound ==
    ASSUME IInv, Working, flush.todo # <<>>,
           Resolve(placements, runtime, Layer, Chunk1).error = NoError
    PROVE  Differences(Layer, Chunk1, Resolve(placements, runtime, Layer, Chunk1).plane) =
               {cell \in InMap(Chunk1) : PlaneAt(slots, Layer, Chunk1)[cell] #
                                             Backing(Layer, CellWorld(Chunk1, cell))}
<1> DEFINE r == Resolve(placements, runtime, Layer, Chunk1)
<1>1. WellPlaced(placements) /\ Stored(runtime)
    BY StateIsResolvable DEF IInv
<1>2. CASE InMap(Chunk1) = {}
    BY <1>2 DEF Differences
<1>3. CASE InMap(Chunk1) # {}
    <2>1. r.plane = [cell \in PlaneCells(Side) |->
                        IF cell \in InMap(Chunk1)
                        THEN BackingAt(placements, runtime, Layer, CellWorld(Chunk1, cell)) ELSE Zero]
        BY <1>1, <1>3, ResolveMatchesReference
    <2>2. \A cell \in InMap(Chunk1) : cell \in PlaneCells(Side)
        BY InMapPosition
    <2> HIDE DEF r
    <2>3. \A cell \in InMap(Chunk1) : r.plane[cell] = Backing(Layer, CellWorld(Chunk1, cell))
        BY <2>1, <2>2 DEF Backing
    <2>4. QED
        BY <2>3 DEF Differences, Live, ValueAt, PlaneAt, r
<1>4. QED
    BY <1>2, <1>3

\* Comparison and preflight: the plane is left, marked clean for want of a
\* difference, or prepared for writing.
LEMMA FlushPlaneStep ==
    ASSUME GridFits, IInv, FlushPlane
    PROVE  /\ IInv' /\ UNCHANGED <<placements, runtime>>
           /\ UNCHANGED slots \/ Settled
<1> DEFINE r == Resolve(placements, runtime, Layer, Chunk1)
           cells == Differences(Layer, Chunk1, r.plane)
           blocked == Preflight(Layer, Chunk1, cells)
<1>1. /\ Working /\ flush.todo # <<>> /\ flush.pc = "plane"
      /\ UNCHANGED <<placements, nextId, runtime>>
    BY DEF FlushPlane, At, Working
<1>2. /\ flush \in Flushes /\ flush.layers # <<>> /\ Layer \in Layers /\ Chunk1 \in Coord
    BY <1>1, AtWork
<1>3. r.error \in SourceErrors \cup {NoError}
    BY <1>2, ResolveTyped, StateIsResolvable DEF IInv
<1>4. blocked \in Errors \cup {NoError} /\ "LayerSourceError" \in Errors /\ SourceErrors \subseteq Errors
    BY DEF Preflight, Errors, SourceErrors
<1>5. \/ r.io /\ StorageFails
      \/ r.error # NoError /\ FlushReturn(r.error) /\ UNCHANGED slots
      \/ /\ r.error = NoError /\ cells = {}
         /\ slots' = Cleaned(slots, Layer, Chunk1) /\ flush' = NextChunk /\ UNCHANGED reply
      \/ /\ r.error = NoError /\ cells # {} /\ UNCHANGED slots
         /\ blocked # NoError /\ FlushReturn(blocked)
      \/ /\ r.error = NoError /\ cells # {} /\ UNCHANGED slots
         /\ blocked = NoError /\ UNCHANGED reply
         /\ flush' = [flush EXCEPT !.runs = Runs(cells),
                                   !.pc = IF flush.layout THEN "write" ELSE "bind"]
    BY DEF FlushPlane
<1>6. r.error = NoError => cells = {cell \in InMap(Chunk1) :
          PlaneAt(slots, Layer, Chunk1)[cell] # Backing(Layer, CellWorld(Chunk1, cell))}
    BY <1>1, DifferencesFound
<1>7. blocked = NoError => Layer \in Bound /\ \A cell \in cells :
          HasContribution(PlaneAt(slots, Layer, Chunk1)[cell])
    BY DEF Preflight, NoError, Live, ValueAt, PlaneAt
<1> HIDE DEF r, cells, blocked
<1>8. CASE r.io /\ StorageFails
    BY <1>1, <1>4, <1>8, FlushFails DEF StorageFails
<1>9. CASE r.error # NoError /\ FlushReturn(r.error) /\ UNCHANGED slots
    BY <1>1, <1>3, <1>4, <1>9, FlushFails
<1>10. CASE /\ r.error = NoError /\ cells = {}
            /\ slots' = Cleaned(slots, Layer, Chunk1) /\ flush' = NextChunk /\ UNCHANGED reply
    <2>1. Settled
        BY <1>1, <1>6, <1>10 DEF Settled
    <2>2. QED
        BY <1>1, <2>1, PlaneDone DEF Settled
<1>11. CASE blocked # NoError /\ FlushReturn(blocked) /\ UNCHANGED slots
    BY <1>1, <1>4, <1>11, FlushFails
<1>12. CASE /\ r.error = NoError /\ cells # {} /\ UNCHANGED slots
            /\ blocked = NoError /\ UNCHANGED reply
            /\ flush' = [flush EXCEPT !.runs = Runs(cells),
                                      !.pc = IF flush.layout THEN "write" ELSE "bind"]
    <2>1. cells \in SUBSET InMap(Chunk1) /\ cells \in SUBSET PlaneCells(Side)
        BY <1>6, <1>12, InMapPosition
    <2>2. /\ Runs(cells) \in Seq(Run) /\ Pending(Runs(cells)) = cells /\ Runs(cells) # <<>>
        BY <1>12, <2>1, RunsCover
    <2>3. /\ flush'.pc = (IF flush.layout THEN "write" ELSE "bind") /\ flush'.scope = flush.scope
          /\ flush'.layers = flush.layers /\ flush'.todo = flush.todo
          /\ flush'.layout = flush.layout /\ flush'.runs = Runs(cells)
        BY <1>2, <1>12 DEF Flushes
    <2>4. flush' \in Flushes
        <3>1. (IF flush.layout THEN "write" ELSE "bind") \in FlushSteps
            BY DEF FlushSteps
        <3>2. QED
            BY <1>2, <1>12, <2>2, <3>1 DEF Flushes
    <2>5. /\ Working' /\ ~ Ready' /\ ~ At("layer")' /\ ~ At("create")'
          /\ ~ At("header")' /\ ~ At("rows")' /\ ~ At("reopen")'
          /\ Preparing' => ~ flush.layout
          /\ At("write")' => flush.layout
          /\ Layer' = Layer /\ Chunk1' = Chunk1
        BY <2>3 DEF Working, Preparing, Ready, At, Layer, Chunk1
    <2>6. ShapeOK' /\ CreationOK'
        BY <1>1, <1>2, <1>7, <1>12, <2>2, <2>3, <2>5 DEF IInv, FlushOK, ShapeOK, CreationOK, Form
    <2>7. RunsOK'
        BY <1>1, <1>6, <1>7, <1>12, <2>1, <2>2, <2>3, <2>5 DEF RunsOK, Backing
    <2>8. SourcesOK' /\ runtime' \in [Bound -> RuntimeSource] /\ Fresh(slots, placements, runtime')
        BY <1>1 DEF IInv, TypeOK, SourcesOK, CacheOK
    <2>9. QED
        BY <1>1, <1>12, <2>3, <2>4, <2>5, <2>6, <2>7, <2>8, FlushStays
<1>13. QED
    BY <1>5, <1>8, <1>9, <1>10, <1>11, <1>12

-----------------------------------------------------------------------------
(***************************************************************************)
(* The source of a layer: opened, or created step by step.                 *)
(***************************************************************************)
\* A source that is not open for reading, or has nothing in it, says nothing.
Silent(source) == source.form # "ready" \/ source.cells = Blank

\* Nothing overlays the sources below such a source.
LEMMA SilentSource ==
    ASSUME NEW rt, NEW l \in Bound, Silent(rt[l]), NEW w \in MapCells
    PROVE  Overlay(rt, l, w) = Space
BY DEF Silent, Overlay, CanRead, Blank

\* The answer depends on the runtime sources through the overlay alone.
LEMMA SameOverlay ==
    ASSUME NEW ps, NEW ra, NEW rb, NEW l, NEW w, Overlay(ra, l, w) = Overlay(rb, l, w)
    PROVE  BackingAt(ps, ra, l, w) = BackingAt(ps, rb, l, w)
BY DEF BackingAt

\* One step of the creation of a source, which has nothing in it yet.
Creating ==
    /\ flush.pc \in {"create", "header", "rows"}
    /\ runtime' \in [Bound -> RuntimeSource]
    /\ \A l \in Bound : l # Layer => runtime'[l] = runtime[l]
    /\ runtime'[Layer].cells = runtime[Layer].cells
    /\ Silent(runtime[Layer]) /\ Silent(runtime'[Layer])
    /\ runtime'[Layer].form = "absent" => runtime'[Layer] = NoSource
    /\ flush.pc = "rows" => runtime'[Layer].form = runtime[Layer].form
    /\ \/ runtime'[Layer].form = runtime[Layer].form
       \/ runtime[Layer].form = "absent" /\ runtime'[Layer].form = "broken"
       \/ runtime[Layer].form = "broken" /\ runtime'[Layer].form = "ready"
    /\ runtime'[Layer].rows # runtime[Layer].rows =>
           /\ runtime[Layer].form = "ready" /\ runtime'[Layer].form = "ready"
           /\ runtime[Layer].rows \subseteq runtime'[Layer].rows

\* The creation of a source changes no answer.
LEMMA CreatingIsSilent ==
    ASSUME IInv, Creating
    PROVE  /\ SourcesOK' /\ Fresh(slots, placements, runtime')
           /\ \A l \in Layers, w \in MapCells :
                  BackingAt(placements, runtime', l, w) = BackingAt(placements, runtime, l, w)
<1>1. Preparing /\ Working
    BY DEF Creating, Preparing, Working
<1>2. Layer \in Bound
    BY <1>1 DEF IInv, FlushOK, ShapeOK
<1>3. SourcesOK'
    <2>1. ASSUME NEW l \in Bound, runtime'[l].form = "absent" PROVE runtime'[l] = NoSource
        BY <2>1 DEF Creating, IInv, SourcesOK
    <2>2. QED
        BY <2>1 DEF SourcesOK
<1>4. ASSUME NEW l \in Layers, NEW w \in MapCells
      PROVE  BackingAt(placements, runtime', l, w) = BackingAt(placements, runtime, l, w)
    <2>1. CASE l = Layer
        <3>1. Overlay(runtime, l, w) = Space
            BY <1>2, <2>1, SilentSource DEF Creating
        <3>2. Overlay(runtime', l, w) = Space
            BY <1>2, <2>1, SilentSource DEF Creating
        <3>3. QED
            BY <3>1, <3>2, SameOverlay
    <2>2. CASE l # Layer
        <3>1. Overlay(runtime', l, w) = Overlay(runtime, l, w)
            BY <2>2 DEF Overlay, Creating
        <3>2. QED
            BY <3>1, SameOverlay
    <2>3. QED
        BY <2>1, <2>2
<1>5. Fresh(slots, placements, runtime')
    BY <1>4 DEF IInv, CacheOK, Fresh
<1>6. QED
    BY <1>3, <1>4, <1>5

\* A creation that fails leaves what it has done.
LEMMA CreatingFails ==
    ASSUME IInv, Creating, FlushReturn("LayerSourceError"), UNCHANGED <<slots, placements, nextId>>
    PROVE  IInv'
<1>1. "LayerSourceError" \in Errors \cup {NoError}
    BY DEF Errors
<1>2. flush' = Idle /\ reply' \in Errors \cup {"ok", "restarted"}
    BY <1>1, Replies DEF FlushReturn
<1>3. QED
    BY <1>2, CreatingIsSilent, FlushEnds DEF Creating

\* One that does not fail goes on with the same plane.
LEMMA PreparingGoesOn ==
    ASSUME GridFits, IInv, Preparing, Preparing' \/ At("write")',
           UNCHANGED <<slots, placements, nextId, reply>>,
           NEW pc \in FlushSteps, NEW layout \in BOOLEAN,
           flush' = [flush EXCEPT !.pc = pc, !.layout = layout],
           UNCHANGED runtime \/ Creating,
           ShapeOK', CreationOK'
    PROVE  IInv'
<1>1. Working /\ Working'
    BY DEF Preparing, Working, At
<1>2. flush \in Flushes /\ flush.layers # <<>> /\ Layer \in Layers /\ flush.todo # <<>>
      /\ Layer \in Bound
    BY <1>1, AtWork DEF IInv, FlushOK, ShapeOK
<1>3. /\ flush' \in Flushes /\ flush'.scope = flush.scope /\ flush'.layers = flush.layers
      /\ flush'.todo = flush.todo /\ flush'.runs = flush.runs
    BY <1>2 DEF Flushes
<1>4. /\ SourcesOK' /\ Fresh(slots, placements, runtime')
      /\ runtime' \in [Bound -> RuntimeSource]
      /\ runtime'[Layer].cells = runtime[Layer].cells
      /\ \A l \in Layers, w \in MapCells :
             BackingAt(placements, runtime', l, w) = BackingAt(placements, runtime, l, w)
    <2>1. CASE UNCHANGED runtime
        BY <2>1 DEF IInv, TypeOK, CacheOK, SourcesOK
    <2>2. CASE Creating
        BY <2>2, CreatingIsSilent DEF Creating
    <2>3. QED
        BY <2>1, <2>2
<1>5. Layer' = Layer /\ Chunk1' = Chunk1
    BY <1>3 DEF Layer, Chunk1
<1>6. RunsOK'
    <2>1. /\ Pending(flush.runs) \subseteq InMap(Chunk1)
          /\ \A cell \in InMap(Chunk1) :
                 LET live == PlaneAt(slots, Layer, Chunk1)[cell]
                     w == CellWorld(Chunk1, cell)
                 IN  IF cell \in Pending(flush.runs)
                     THEN /\ HasContribution(live)
                          /\ live # Backing(Layer, w) \/ runtime[Layer].cells[w] = live
                     ELSE live = Backing(Layer, w)
        BY DEF IInv, FlushOK, RunsOK
    <2>2. \A cell \in InMap(Chunk1) : CellWorld(Chunk1, cell) \in MapCells
        BY InMapPosition
    <2>3. \A w \in MapCells : BackingAt(placements', runtime', Layer, w) = Backing(Layer, w)
        BY <1>2, <1>4 DEF Backing
    <2>4. QED
        BY <1>3, <1>4, <1>5, <2>1, <2>2, <2>3 DEF RunsOK, Backing
<1>7. QED
    BY <1>1, <1>3, <1>4, <1>6, FlushStays
-----------------------------------------------------------------------------
\* What a Goto leaves of the flush.
LEMMA NotAt ==
    /\ \A pc : Goto(pc) /\ flush \in Flushes =>
           /\ flush'.pc = pc /\ flush'.scope = flush.scope /\ flush'.layers = flush.layers
           /\ flush'.todo = flush.todo /\ flush'.layout = flush.layout /\ flush'.runs = flush.runs
           /\ flush' = [flush EXCEPT !.pc = pc, !.layout = flush.layout]
BY DEF Goto, Flushes

\* What is known while the source of the layer is being prepared.
LEMMA AtPreparation ==
    ASSUME IInv, Preparing
    PROVE  /\ Working /\ flush \in Flushes /\ flush.layers # <<>> /\ flush.todo # <<>>
           /\ Layer \in Layers /\ Layer \in Bound /\ flush.runs # <<>> /\ ~ flush.layout
           /\ runtime \in [Bound -> RuntimeSource] /\ runtime[Layer] \in RuntimeSource
           /\ At("create") => runtime[Layer] = NoSource
           /\ At("create") \/ At("header") \/ At("rows") =>
                  runtime[Layer].cells = Blank /\ Silent(runtime[Layer])
<1>1. Working
    BY DEF Preparing, Working
<1>2. flush \in Flushes /\ flush.layers # <<>> /\ Layer \in Layers
    BY <1>1, AtWork
<1>3. flush.todo # <<>> /\ Layer \in Bound /\ flush.runs # <<>> /\ ~ flush.layout
    BY DEF IInv, FlushOK, ShapeOK
<1>4. runtime \in [Bound -> RuntimeSource] /\ runtime[Layer] \in RuntimeSource
    BY <1>3 DEF IInv, TypeOK
<1>5. At("create") => runtime[Layer] = NoSource
    BY <1>3 DEF IInv, FlushOK, CreationOK, SourcesOK, Form
<1>6. At("create") \/ At("header") \/ At("rows") =>
          runtime[Layer].cells = Blank /\ Silent(runtime[Layer])
    BY <1>5 DEF IInv, FlushOK, CreationOK, Silent, NoSource
<1>7. QED
    BY <1>1, <1>2, <1>3, <1>4, <1>5, <1>6

\* The steps that open or create the source of the layer, each of them as it
\* goes on and as it fails.
LEMMA BindSourceStep ==
    ASSUME GridFits, IInv, BindSource
    PROVE  IInv' /\ UNCHANGED <<slots, placements, runtime>>
<1>1. Preparing /\ flush.pc = "bind"
    BY DEF BindSource, At, Preparing
<1>2. /\ Working /\ flush \in Flushes /\ flush.layers # <<>> /\ flush.todo # <<>>
      /\ Layer \in Layers /\ Layer \in Bound /\ flush.runs # <<>> /\ ~ flush.layout
      /\ runtime \in [Bound -> RuntimeSource] /\ runtime[Layer] \in RuntimeSource
    BY <1>1, AtPreparation
<1>3. UNCHANGED <<slots, placements, nextId, runtime>>
    BY DEF BindSource, StorageFails
<1>4. CASE StorageFails
    BY <1>3, <1>4, FlushFails DEF StorageFails, Errors
<1>5. CASE Form = "absent" /\ Goto("create") /\ UNCHANGED reply
    <2>1. /\ flush'.pc = "create" /\ flush'.layers = flush.layers /\ flush'.todo = flush.todo
          /\ flush'.layout = flush.layout /\ flush'.runs = flush.runs
          /\ flush' = [flush EXCEPT !.pc = "create", !.layout = flush.layout]
        BY <1>2, <1>5, NotAt
    <2>2. /\ Working' /\ Preparing' /\ ~ Ready' /\ ~ At("layer")' /\ ~ At("write")'
          /\ ~ At("header")' /\ ~ At("rows")' /\ ~ At("reopen")' /\ Layer' = Layer
        BY <2>1 DEF Working, Preparing, Ready, At, Layer
    <2>3. ShapeOK' /\ CreationOK'
        BY <1>2, <1>3, <1>5, <2>1, <2>2 DEF ShapeOK, CreationOK, Form
    <2>4. "create" \in FlushSteps /\ flush.layout \in BOOLEAN
        BY <1>2 DEF FlushSteps, Flushes
    <2>5. QED
        BY <1>1, <1>3, <1>5, <2>1, <2>2, <2>3, <2>4, PreparingGoesOn
<1>6. CASE RuntimeFormError(Form) # NoError /\ FlushReturn(RuntimeFormError(Form))
    <2>1. RuntimeFormError(Form) \in Errors \cup {NoError}
        BY DEF RuntimeFormError, Errors
    <2>2. QED
        BY <1>3, <1>6, <2>1, FlushFails
<1>7. CASE /\ Form # "absent" /\ RuntimeFormError(Form) = NoError
           /\ flush' = [flush EXCEPT !.pc = "write", !.layout = TRUE] /\ UNCHANGED reply
    <2>1. /\ flush'.pc = "write" /\ flush'.layers = flush.layers /\ flush'.todo = flush.todo
          /\ flush'.layout /\ flush'.runs = flush.runs
        BY <1>2, <1>7 DEF Flushes
    <2>2. /\ Working' /\ ~ Preparing' /\ At("write")' /\ ~ Ready' /\ ~ At("layer")'
          /\ ~ At("create")' /\ ~ At("header")' /\ ~ At("rows")' /\ ~ At("reopen")'
          /\ Layer' = Layer
        BY <2>1 DEF Working, Preparing, Ready, At, Layer
    <2>3. Form = "ready"
        BY <1>2, <1>7 DEF RuntimeFormError, NoError, RuntimeSource, Forms, Form
    <2>4. ShapeOK' /\ CreationOK'
        BY <1>2, <1>3, <2>1, <2>2, <2>3 DEF ShapeOK, CreationOK, Form
    <2>5. "write" \in FlushSteps
        BY DEF FlushSteps
    <2>6. QED
        BY <1>1, <1>3, <1>7, <2>2, <2>4, <2>5, PreparingGoesOn
<1>8. QED
    BY <1>3, <1>4, <1>5, <1>6, <1>7 DEF BindSource, Form

LEMMA ReopenSourceStep ==
    ASSUME GridFits, IInv, ReopenSource
    PROVE  IInv' /\ UNCHANGED <<slots, placements, runtime>>
<1>1. Preparing /\ flush.pc = "reopen"
    BY DEF ReopenSource, At, Preparing
<1>2. /\ flush \in Flushes /\ flush.layers # <<>> /\ flush.todo # <<>> /\ Layer \in Bound
    BY <1>1, AtPreparation
<1>3. UNCHANGED <<slots, placements, nextId, runtime>>
    BY DEF ReopenSource, StorageFails
<1>4. CASE StorageFails
    BY <1>3, <1>4, FlushFails DEF StorageFails, Errors
<1>5. CASE flush' = [flush EXCEPT !.pc = "write", !.layout = TRUE] /\ UNCHANGED reply
    <2>1. /\ flush'.pc = "write" /\ flush'.layers = flush.layers /\ flush'.todo = flush.todo
          /\ flush'.layout /\ flush'.runs = flush.runs
        BY <1>2, <1>5 DEF Flushes
    <2>2. /\ Working' /\ ~ Preparing' /\ At("write")' /\ ~ Ready' /\ ~ At("layer")'
          /\ ~ At("create")' /\ ~ At("header")' /\ ~ At("rows")' /\ ~ At("reopen")'
          /\ Layer' = Layer
        BY <2>1 DEF Working, Preparing, Ready, At, Layer
    <2>3. Form = "ready"
        BY <1>1 DEF IInv, FlushOK, CreationOK, At
    <2>4. ShapeOK' /\ CreationOK'
        BY <1>2, <1>3, <2>1, <2>2, <2>3 DEF ShapeOK, CreationOK, Form
    <2>5. "write" \in FlushSteps
        BY DEF FlushSteps
    <2>6. QED
        BY <1>1, <1>3, <1>5, <2>2, <2>4, <2>5, PreparingGoesOn
<1>6. QED
    BY <1>3, <1>4, <1>5 DEF ReopenSource

\* A source whose form is set is one being created.
LEMMA SetFormCreates ==
    ASSUME IInv, flush.pc \in {"create", "header"}, NEW form \in Forms, SetForm(form),
           flush.pc = "create" => form \in {"absent", "broken"},
           flush.pc = "header" => form \in {"broken", "ready"}
    PROVE  Creating /\ runtime'[Layer].form = form /\ runtime'[Layer].rows = runtime[Layer].rows
<1>1. Preparing
    BY DEF Preparing
<1>2. /\ Layer \in Bound /\ runtime \in [Bound -> RuntimeSource]
      /\ runtime[Layer] \in RuntimeSource
      /\ flush.pc = "create" => runtime[Layer] = NoSource
      /\ runtime[Layer].cells = Blank /\ Silent(runtime[Layer])
    BY <1>1, AtPreparation DEF At
<1>2a. runtime[Layer].form = IF flush.pc = "create" THEN "absent" ELSE "broken"
    BY <1>2 DEF IInv, FlushOK, CreationOK, At, Form, NoSource
<1>3. runtime' = [runtime EXCEPT ![Layer] = [runtime[Layer] EXCEPT !.form = form]]
    BY <1>2 DEF SetForm
<1>4. /\ [runtime[Layer] EXCEPT !.form = form] \in RuntimeSource
      /\ [runtime[Layer] EXCEPT !.form = form].form = form
      /\ [runtime[Layer] EXCEPT !.form = form].cells = runtime[Layer].cells
      /\ [runtime[Layer] EXCEPT !.form = form].rows = runtime[Layer].rows
    BY <1>2 DEF RuntimeSource
<1>5. form = "absent" => [runtime[Layer] EXCEPT !.form = form] = NoSource
    BY <1>2 DEF NoSource
<1>6. /\ runtime' \in [Bound -> RuntimeSource]
      /\ runtime'[Layer] = [runtime[Layer] EXCEPT !.form = form]
      /\ \A l \in Bound : l # Layer => runtime'[l] = runtime[l]
    BY <1>2, <1>3, <1>4
<1>7. Silent(runtime'[Layer])
    BY <1>2, <1>4, <1>6 DEF Silent
<1>8. QED
    BY <1>2, <1>2a, <1>4, <1>5, <1>6, <1>7 DEF Creating

LEMMA CreateSourceStep ==
    ASSUME GridFits, IInv, CreateSource
    PROVE  IInv' /\ UNCHANGED <<slots, placements>> /\ Creating
<1>1. Preparing /\ flush.pc = "create"
    BY DEF CreateSource, At, Preparing
<1>2. /\ flush \in Flushes /\ flush.layers # <<>> /\ flush.todo # <<>> /\ Layer \in Bound
      /\ flush.runs # <<>> /\ ~ flush.layout
      /\ runtime[Layer] = NoSource
    BY <1>1, AtPreparation DEF At
<1>3. UNCHANGED <<slots, placements, nextId>>
    BY DEF CreateSource
<1>4. "broken" \in Forms /\ "absent" \in Forms
    BY DEF Forms
<1>5. CASE SetForm("broken") /\ Goto("header") /\ UNCHANGED reply
    <2>1. Creating /\ runtime'[Layer].form = "broken" /\ runtime'[Layer].rows = runtime[Layer].rows
        BY <1>1, <1>4, <1>5, SetFormCreates
    <2>2. /\ flush'.pc = "header" /\ flush'.layers = flush.layers /\ flush'.todo = flush.todo
          /\ flush'.layout = flush.layout /\ flush'.runs = flush.runs
          /\ flush' = [flush EXCEPT !.pc = "header", !.layout = flush.layout]
        BY <1>2, <1>5, NotAt
    <2>3. /\ Working' /\ Preparing' /\ ~ Ready' /\ ~ At("layer")' /\ ~ At("write")'
          /\ ~ At("create")' /\ ~ At("rows")' /\ ~ At("reopen")' /\ Layer' = Layer
        BY <2>2 DEF Working, Preparing, Ready, At, Layer
    <2>4. runtime'[Layer].cells = Blank /\ runtime'[Layer].rows = {}
        BY <1>2, <2>1 DEF Creating, NoSource
    <2>5. ShapeOK' /\ CreationOK'
        BY <1>2, <1>3, <2>1, <2>2, <2>3, <2>4 DEF ShapeOK, CreationOK, Form
    <2>6. "header" \in FlushSteps /\ flush.layout \in BOOLEAN
        BY <1>2 DEF FlushSteps, Flushes
    <2>7. QED
        BY <1>1, <1>3, <1>5, <2>1, <2>2, <2>3, <2>5, <2>6, PreparingGoesOn
<1>6. CASE /\ \E left \in {"absent", "broken"} : SetForm(left)
           /\ FlushReturn("LayerSourceError")
    <2>1. PICK left \in {"absent", "broken"} : SetForm(left)
        BY <1>6
    <2>2. Creating
        BY <1>1, <1>4, <2>1, SetFormCreates
    <2>3. QED
        BY <1>3, <1>6, <2>2, CreatingFails
<1>7. QED
    BY <1>3, <1>5, <1>6 DEF CreateSource

LEMMA WriteHeaderStep ==
    ASSUME GridFits, IInv, WriteHeader
    PROVE  IInv' /\ UNCHANGED <<slots, placements>> /\ Creating
<1>1. Preparing /\ flush.pc = "header"
    BY DEF WriteHeader, At, Preparing
<1>2. /\ flush \in Flushes /\ flush.layers # <<>> /\ flush.todo # <<>> /\ Layer \in Bound
      /\ flush.runs # <<>> /\ ~ flush.layout
      /\ runtime[Layer].cells = Blank
    BY <1>1, AtPreparation DEF At
<1>3. UNCHANGED <<slots, placements, nextId>>
    BY DEF WriteHeader
<1>4. "broken" \in Forms /\ "ready" \in Forms
    BY DEF Forms
<1>5. CASE SetForm("ready") /\ Goto("rows") /\ UNCHANGED reply
    <2>1. Creating /\ runtime'[Layer].form = "ready" /\ runtime'[Layer].rows = runtime[Layer].rows
        BY <1>1, <1>4, <1>5, SetFormCreates
    <2>2. /\ flush'.pc = "rows" /\ flush'.layers = flush.layers /\ flush'.todo = flush.todo
          /\ flush'.layout = flush.layout /\ flush'.runs = flush.runs
          /\ flush' = [flush EXCEPT !.pc = "rows", !.layout = flush.layout]
        BY <1>2, <1>5, NotAt
    <2>3. /\ Working' /\ Preparing' /\ ~ Ready' /\ ~ At("layer")' /\ ~ At("write")'
          /\ ~ At("create")' /\ ~ At("header")' /\ ~ At("reopen")' /\ Layer' = Layer
        BY <2>2 DEF Working, Preparing, Ready, At, Layer
    <2>4. runtime'[Layer].cells = Blank /\ runtime'[Layer].rows # MapRows
        <3>1. runtime[Layer].rows = {}
            BY <1>1 DEF IInv, FlushOK, CreationOK, At
        <3>2. MapArea.min[2] \in MapRows
            BY AreaAssumption DEF MapRows, Coord, Scalar
        <3>3. QED
            BY <1>2, <2>1, <3>1, <3>2 DEF Creating
    <2>5. ShapeOK' /\ CreationOK'
        BY <1>2, <1>3, <2>1, <2>2, <2>3, <2>4 DEF ShapeOK, CreationOK, Form
    <2>6. "rows" \in FlushSteps /\ flush.layout \in BOOLEAN
        BY <1>2 DEF FlushSteps, Flushes
    <2>7. QED
        BY <1>1, <1>3, <1>5, <2>1, <2>2, <2>3, <2>5, <2>6, PreparingGoesOn
<1>6. CASE /\ \E left \in {"broken", "ready"} : SetForm(left)
           /\ FlushReturn("LayerSourceError")
    <2>1. PICK left \in {"broken", "ready"} : SetForm(left)
        BY <1>6
    <2>2. Creating
        BY <1>1, <1>4, <2>1, SetFormCreates
    <2>3. QED
        BY <1>3, <1>6, <2>2, CreatingFails
<1>7. QED
    BY <1>3, <1>5, <1>6 DEF WriteHeader

\* The rows are ended from the first to the last.
LEMMA FirstRow ==
    ASSUME NEW rows \in SUBSET MapRows, rows # MapRows
    PROVE  First(MapRows \ rows) \in MapRows
<1> DEFINE left == MapRows \ rows
<1>1. MapArea.min[2] \in Int /\ MapArea.max[2] \in Int
    BY AreaAssumption DEF Coord, Scalar
<1>2. \A i \in MapRows : i \in Int /\ MapArea.min[2] <= i
    BY <1>1 DEF MapRows
<1>3. left \subseteq MapRows /\ left # {}
    OBVIOUS
<1> HIDE DEF left
<1>4. left \in SUBSET Int /\ \A i \in left : MapArea.min[2] <= i
    BY <1>2, <1>3
<1>5. \E i \in left : \A j \in left : i <= j
    BY <1>1, <1>3, <1>4, LeastInteger
<1>6. First(left) \in left
    BY <1>5 DEF First
<1>7. QED
    BY <1>6 DEF left

LEMMA WriteRowEndStep ==
    ASSUME GridFits, IInv, WriteRowEnd
    PROVE  IInv' /\ UNCHANGED <<slots, placements>> /\ (Creating \/ UNCHANGED runtime)
<1> DEFINE row == First(MapRows \ runtime[Layer].rows)
           source == [runtime[Layer] EXCEPT !.rows = @ \cup {row}]
           Ended == [runtime EXCEPT ![Layer] = source]
<1>1. Preparing /\ flush.pc = "rows"
    BY DEF WriteRowEnd, At, Preparing
<1>2. /\ flush \in Flushes /\ flush.layers # <<>> /\ flush.todo # <<>> /\ Layer \in Bound
      /\ flush.runs # <<>> /\ ~ flush.layout
      /\ runtime \in [Bound -> RuntimeSource] /\ runtime[Layer] \in RuntimeSource
      /\ runtime[Layer].cells = Blank /\ Silent(runtime[Layer])
    BY <1>1, AtPreparation DEF At
<1>3. UNCHANGED <<slots, placements, nextId>>
    BY DEF WriteRowEnd
<1>4. /\ Form = "ready" /\ runtime[Layer].rows # MapRows
      /\ runtime[Layer].rows \in SUBSET MapRows
    BY <1>1, <1>2 DEF IInv, FlushOK, CreationOK, At, RuntimeSource
<1>5. row \in MapRows
    BY <1>4, FirstRow
<1>6. /\ Ended = [runtime EXCEPT ![Layer].rows = @ \cup {row}]
      /\ \/ /\ runtime' = Ended /\ UNCHANGED reply
            /\ Goto(IF Ended[Layer].rows = MapRows THEN "reopen" ELSE "rows")
         \/ runtime' \in {runtime, Ended} /\ FlushReturn("LayerSourceError")
    BY <1>2 DEF WriteRowEnd
<1> HIDE DEF row
<1>7. /\ source \in RuntimeSource /\ source.form = "ready" /\ source.cells = Blank
      /\ source.rows = runtime[Layer].rows \cup {row}
    BY <1>2, <1>4, <1>5 DEF RuntimeSource, Form
<1> HIDE DEF source
<1>8. /\ Ended \in [Bound -> RuntimeSource] /\ Ended[Layer] = source
      /\ \A l \in Bound : l # Layer => Ended[l] = runtime[l]
    BY <1>2, <1>7
<1>9. runtime' = Ended => Creating
    BY <1>1, <1>2, <1>4, <1>7, <1>8 DEF Creating, Silent, Form
<1> HIDE DEF Ended
<1>10. CASE /\ runtime' = Ended /\ UNCHANGED reply
            /\ Goto(IF Ended[Layer].rows = MapRows THEN "reopen" ELSE "rows")
    <2> DEFINE pc == IF Ended[Layer].rows = MapRows THEN "reopen" ELSE "rows"
    <2>1. /\ flush'.pc = pc /\ flush'.layers = flush.layers /\ flush'.todo = flush.todo
          /\ flush'.layout = flush.layout /\ flush'.runs = flush.runs
          /\ flush' = [flush EXCEPT !.pc = pc, !.layout = flush.layout]
        BY <1>2, <1>10, NotAt
    <2>2. /\ pc \in {"rows", "reopen"} /\ (pc = "rows" => Ended[Layer].rows # MapRows)
        OBVIOUS
    <2> HIDE DEF pc
    <2>3. /\ Working' /\ Preparing' /\ ~ Ready' /\ ~ At("layer")' /\ ~ At("write")'
          /\ ~ At("create")' /\ ~ At("header")' /\ Layer' = Layer
          /\ At("rows")' => pc = "rows"
        BY <2>1, <2>2 DEF Working, Preparing, Ready, At, Layer
    <2>4. ShapeOK' /\ CreationOK'
        BY <1>2, <1>3, <1>7, <1>8, <1>10, <2>1, <2>2, <2>3 DEF ShapeOK, CreationOK, Form
    <2>5. pc \in FlushSteps /\ flush.layout \in BOOLEAN
        BY <1>2, <2>2 DEF FlushSteps, Flushes
    <2>6. IInv'
        BY <1>1, <1>3, <1>9, <1>10, <2>1, <2>3, <2>4, <2>5, PreparingGoesOn
    <2>7. QED
        BY <1>3, <1>9, <1>10, <2>6
<1>11. CASE runtime' = Ended /\ FlushReturn("LayerSourceError")
    BY <1>3, <1>9, <1>11, CreatingFails
<1>12. CASE UNCHANGED runtime /\ FlushReturn("LayerSourceError")
    BY <1>3, <1>12, FlushFails DEF Errors
<1>13. QED
    BY <1>6, <1>10, <1>11, <1>12

-----------------------------------------------------------------------------
(***************************************************************************)
(* Writing.                                                                *)
(***************************************************************************)
\* The plane at hand, by the local cell.
Shows(cell) == PlaneAt(slots, Layer, Chunk1)[cell]

\* Bytes of the plane's pending cells have been written to the rows the source
\* has; nothing else of any source has changed.
Writing ==
    /\ At("write")
    /\ runtime' \in [Bound -> RuntimeSource]
    /\ \A l \in Bound : l # Layer => runtime'[l] = runtime[l]
    /\ runtime'[Layer].form = runtime[Layer].form /\ runtime'[Layer].rows = runtime[Layer].rows
    /\ \A w \in MapCells :
           \/ runtime'[Layer].cells[w] = runtime[Layer].cells[w]
           \/ \E cell \in Pending(flush.runs) :
                  /\ w = CellWorld(Chunk1, cell) /\ w[2] \in runtime[Layer].rows
                  /\ runtime'[Layer].cells[w] = Shows(cell)

\* What is known while there is something to write.
LEMMA AtWrite ==
    ASSUME IInv, At("write")
    PROVE  /\ Working /\ flush \in Flushes /\ flush.layers # <<>> /\ flush.todo # <<>>
           /\ Layer \in Layers /\ Layer \in Bound /\ flush.layout /\ Form = "ready"
           /\ runtime \in [Bound -> RuntimeSource] /\ runtime[Layer] \in RuntimeSource
           /\ Chunk1 \in Coord /\ Chunk1 \in Chunks
           /\ IsDirty(slots, Layer, Chunk1) /\ Resident(slots, Layer, Chunk1)
           /\ PlaneAt(slots, Layer, Chunk1) \in [PlaneCells(Side) -> Bytes]
           /\ Pending(flush.runs) \subseteq InMap(Chunk1)
           /\ \A cell \in InMap(Chunk1) :
                  /\ cell \in Pending(flush.runs) =>
                         /\ HasContribution(Shows(cell))
                         /\ \/ Shows(cell) # Backing(Layer, CellWorld(Chunk1, cell))
                            \/ runtime[Layer].cells[CellWorld(Chunk1, cell)] = Shows(cell)
                  /\ cell \notin Pending(flush.runs) =>
                         Shows(cell) = Backing(Layer, CellWorld(Chunk1, cell))
<1>1. Working
    BY DEF At, Working
<1>2. flush.todo # <<>> /\ Layer \in Bound /\ flush.layout /\ Form = "ready"
    BY <1>1 DEF IInv, FlushOK, ShapeOK
<1>3. runtime \in [Bound -> RuntimeSource] /\ runtime[Layer] \in RuntimeSource
    BY <1>2 DEF IInv, TypeOK
<1>4. /\ Pending(flush.runs) \subseteq InMap(Chunk1)
      /\ \A cell \in InMap(Chunk1) :
             /\ cell \in Pending(flush.runs) =>
                    /\ HasContribution(Shows(cell))
                    /\ \/ Shows(cell) # Backing(Layer, CellWorld(Chunk1, cell))
                       \/ runtime[Layer].cells[CellWorld(Chunk1, cell)] = Shows(cell)
             /\ cell \notin Pending(flush.runs) =>
                    Shows(cell) = Backing(Layer, CellWorld(Chunk1, cell))
    BY DEF IInv, FlushOK, RunsOK, Shows
<1>5. QED
    BY <1>1, <1>2, <1>3, <1>4, AtWork

\* A readable byte that says something is what the world shows.
LEMMA StoredShows ==
    ASSUME NEW ps, NEW rt, NEW l \in Bound, NEW w, rt[l].form = "ready", w[2] \in rt[l].rows,
           HasContribution(rt[l].cells[w])
    PROVE  BackingAt(ps, rt, l, w) = rt[l].cells[w]
<1>1. CanRead(rt[l], w)
    BY DEF CanRead, ReadFails, HasContribution
<1>2. Overlay(rt, l, w) = rt[l].cells[w]
    BY <1>1 DEF Overlay
<1>3. QED
    BY <1>2 DEF BackingAt

\* The answer depends on a source through its form, its rows and one byte.
LEMMA SameByte ==
    ASSUME NEW ps, NEW ra, NEW rb, NEW l, NEW w,
           l \in Bound => /\ ra[l].form = rb[l].form /\ ra[l].rows = rb[l].rows
                          /\ ra[l].cells[w] = rb[l].cells[w]
    PROVE  BackingAt(ps, ra, l, w) = BackingAt(ps, rb, l, w)
<1>1. Overlay(ra, l, w) = Overlay(rb, l, w)
    BY DEF Overlay, CanRead, ReadFails
<1>2. QED
    BY <1>1, SameOverlay

\* What a write changes, and what it does not.
LEMMA WritingAnswers ==
    ASSUME IInv, Writing
    PROVE  /\ SourcesOK' /\ Fresh(slots, placements, runtime')
           /\ \A l \in Layers, w \in MapCells :
                  Look(slots, placements, runtime', l, w) = Look(slots, placements, runtime, l, w)
           /\ \A cell \in InMap(Chunk1) :
                  LET w == CellWorld(Chunk1, cell)
                  IN  \/ /\ runtime'[Layer].cells[w] = runtime[Layer].cells[w]
                         /\ BackingAt(placements, runtime', Layer, w) = Backing(Layer, w)
                      \/ /\ runtime'[Layer].cells[w] = Shows(cell)
                         /\ BackingAt(placements, runtime', Layer, w) = Shows(cell)
<1>1. /\ Layer \in Layers /\ Layer \in Bound /\ Form = "ready"
      /\ runtime \in [Bound -> RuntimeSource]
      /\ Chunk1 \in Chunks /\ IsDirty(slots, Layer, Chunk1) /\ Resident(slots, Layer, Chunk1)
      /\ Pending(flush.runs) \subseteq InMap(Chunk1)
      /\ \A cell \in Pending(flush.runs) : HasContribution(Shows(cell))
    BY AtWrite DEF Writing
<1>2. /\ \A l \in Bound : l # Layer => runtime'[l] = runtime[l]
      /\ runtime'[Layer].form = runtime[Layer].form /\ runtime'[Layer].rows = runtime[Layer].rows
    BY DEF Writing
<1>3. SourcesOK'
    <2>1. ASSUME NEW l \in Bound, runtime'[l].form = "absent" PROVE runtime'[l] = NoSource
        <3>1. l # Layer
            BY <1>1, <1>2, <2>1 DEF Form
        <3>2. QED
            BY <1>2, <2>1, <3>1 DEF IInv, SourcesOK
    <2>2. QED
        BY <2>1 DEF SourcesOK
<1>4. ASSUME NEW w \in MapCells
      PROVE  \/ /\ runtime'[Layer].cells[w] = runtime[Layer].cells[w]
                /\ BackingAt(placements, runtime', Layer, w) = Backing(Layer, w)
             \/ /\ ChunkAt(w) = Chunk1
                /\ runtime'[Layer].cells[w] = Shows(LocalCell(w))
                /\ BackingAt(placements, runtime', Layer, w) = Shows(LocalCell(w))
    <2>1. CASE runtime'[Layer].cells[w] = runtime[Layer].cells[w]
        BY <1>2, <2>1, SameByte DEF Backing
    <2>2. CASE runtime'[Layer].cells[w] # runtime[Layer].cells[w]
        <3>1. PICK cell \in Pending(flush.runs) :
                  /\ w = CellWorld(Chunk1, cell) /\ w[2] \in runtime[Layer].rows
                  /\ runtime'[Layer].cells[w] = Shows(cell)
            BY <2>2 DEF Writing
        <3>2. ChunkAt(w) = Chunk1 /\ LocalCell(w) = cell
            BY <1>1, <3>1, CellOfChunk
        <3>3. HasContribution(runtime'[Layer].cells[w])
            BY <1>1, <3>1
        <3>4. BackingAt(placements, runtime', Layer, w) = runtime'[Layer].cells[w]
            BY <1>1, <1>2, <3>1, <3>3, StoredShows DEF Form
        <3>5. QED
            BY <3>1, <3>2, <3>4
    <2>3. QED
        BY <2>1, <2>2
<1>5. ASSUME NEW l \in Layers, NEW w \in MapCells, ~ (l = Layer /\ ChunkAt(w) = Chunk1)
      PROVE  BackingAt(placements, runtime', l, w) = BackingAt(placements, runtime, l, w)
    <2>1. CASE l = Layer
        BY <1>4, <1>5, <2>1 DEF Backing
    <2>2. CASE l # Layer
        BY <1>2, <2>2, SameByte
    <2>3. QED
        BY <2>1, <2>2
<1>6. Fresh(slots, placements, runtime')
    <2>1. ASSUME NEW l \in Layers, NEW w \in MapCells,
                 Resident(slots, l, ChunkAt(w)), ~ IsDirty(slots, l, ChunkAt(w))
          PROVE  PlaneAt(slots, l, ChunkAt(w))[LocalCell(w)] = BackingAt(placements, runtime', l, w)
        <3>1. ~ (l = Layer /\ ChunkAt(w) = Chunk1)
            BY <1>1, <2>1
        <3>2. QED
            BY <1>5, <2>1, <3>1 DEF IInv, CacheOK, Fresh
    <2>2. QED
        BY <2>1 DEF Fresh
<1>7. ASSUME NEW l \in Layers, NEW w \in MapCells
      PROVE  Look(slots, placements, runtime', l, w) = Look(slots, placements, runtime, l, w)
    BY <1>1, <1>5 DEF Look
<1>8. ASSUME NEW cell \in InMap(Chunk1)
      PROVE  LET w == CellWorld(Chunk1, cell)
             IN  \/ /\ runtime'[Layer].cells[w] = runtime[Layer].cells[w]
                    /\ BackingAt(placements, runtime', Layer, w) = Backing(Layer, w)
                 \/ /\ runtime'[Layer].cells[w] = Shows(cell)
                    /\ BackingAt(placements, runtime', Layer, w) = Shows(cell)
    <2>1. CellWorld(Chunk1, cell) \in MapCells /\ LocalCell(CellWorld(Chunk1, cell)) = cell
        BY <1>1, CellOfChunk
    <2>2. QED
        BY <1>4, <2>1
<1>9. QED
    BY <1>3, <1>6, <1>7, <1>8

\* A run, written whole or in part.
LEMMA WrittenCells ==
    ASSUME IInv, At("write"), flush.runs # <<>>, NEW run, run = Head(flush.runs),
           NEW n \in 0 .. run.size, Chunk1[2] + run.y \in runtime[Layer].rows,
           runtime' = Written(run, n)
    PROVE  /\ Writing
           /\ n = run.size => \A cell \in RunCells(run) :
                  runtime'[Layer].cells[CellWorld(Chunk1, cell)] = Shows(cell)
<1> DEFINE cells == {<<x, run.y>> : x \in run.x .. run.x + n - 1}
           targets == {CellWorld(Chunk1, cell) : cell \in cells}
           bytes == [w \in MapCells |-> IF w \in targets THEN Shows(LocalCell(w))
                                        ELSE runtime[Layer].cells[w]]
           source == [runtime[Layer] EXCEPT !.cells = bytes]
<1>1. /\ flush \in Flushes /\ Layer \in Bound
      /\ runtime \in [Bound -> RuntimeSource] /\ runtime[Layer] \in RuntimeSource
      /\ Chunk1 \in Chunks /\ PlaneAt(slots, Layer, Chunk1) \in [PlaneCells(Side) -> Bytes]
      /\ Pending(flush.runs) \subseteq InMap(Chunk1)
    BY AtWrite
<1>2. flush.runs \in Seq(Run)
    BY <1>1 DEF Flushes
<1>3. run \in Run /\ run = flush.runs[1] /\ 1 \in DOMAIN flush.runs
    BY <1>2, HeadAndTail
<1>4. run.x \in Int /\ run.size \in Int
    BY <1>3, SideAssumption DEF Run
<1>5. cells \subseteq RunCells(run) /\ (n = run.size => cells = RunCells(run))
    <2>1. \A x \in run.x .. run.x + n - 1 : x \in run.x .. run.x + run.size - 1
        BY <1>4
    <2>2. QED
        BY <2>1 DEF RunCells
<1>6. RunCells(run) \subseteq Pending(flush.runs)
    BY <1>3 DEF Pending
<1>7. runtime' = [runtime EXCEPT ![Layer] = source]
    <2>1. DOMAIN [w \in targets |-> Live(Layer, Chunk1, LocalCell(w))] = targets
        OBVIOUS
    <2>2. \A w \in targets : [v \in targets |-> Live(Layer, Chunk1, LocalCell(v))][w] = Shows(LocalCell(w))
        BY DEF Live, ValueAt, Shows, PlaneAt
    <2>3. Written(run, n) =
              [runtime EXCEPT ![Layer].cells =
                  [w \in MapCells |->
                      IF w \in DOMAIN [v \in targets |-> Live(Layer, Chunk1, LocalCell(v))]
                      THEN [v \in targets |-> Live(Layer, Chunk1, LocalCell(v))][w] ELSE @[w]]]
        BY DEF Written
    <2> HIDE DEF targets
    <2>4. QED
        BY <1>1, <2>1, <2>2, <2>3, ZenonT(60)
<1>8. ASSUME NEW w \in targets
      PROVE  \E cell \in cells : /\ w = CellWorld(Chunk1, cell) /\ LocalCell(w) = cell
                                 /\ cell \in PlaneCells(Side) /\ w[2] = Chunk1[2] + run.y
    <2>1. PICK cell \in cells : w = CellWorld(Chunk1, cell)
        BY <1>8
    <2>2. cell \in InMap(Chunk1) /\ cell[2] = run.y
        BY <1>1, <1>5, <1>6
    <2>3. QED
        BY <1>1, <2>1, <2>2, CellOfChunk, InMapPosition
<1>9. \A cell \in cells : CellWorld(Chunk1, cell) \in targets /\ CellWorld(Chunk1, cell) \in MapCells
                          /\ LocalCell(CellWorld(Chunk1, cell)) = cell
    <2>1. \A cell \in cells : cell \in InMap(Chunk1)
        BY <1>1, <1>5, <1>6
    <2>2. QED
        BY <1>1, <2>1, CellOfChunk
<1>10. bytes \in [MapCells -> Bytes]
    <2>1. \A w \in targets : Shows(LocalCell(w)) \in Bytes
        BY <1>1, <1>8 DEF Shows
    <2>2. runtime[Layer].cells \in [MapCells -> Bytes]
        BY <1>1 DEF RuntimeSource
    <2> HIDE DEF targets
    <2>3. QED
        BY <2>1, <2>2
<1> HIDE DEF targets, cells
<1>11. /\ \A w \in MapCells : w \in targets => bytes[w] = Shows(LocalCell(w))
       /\ \A w \in MapCells : w \notin targets => bytes[w] = runtime[Layer].cells[w]
    OBVIOUS
<1> HIDE DEF bytes
<1>12. /\ source \in RuntimeSource /\ source.cells = bytes
       /\ source.form = runtime[Layer].form /\ source.rows = runtime[Layer].rows
    BY <1>1, <1>10 DEF RuntimeSource
<1> HIDE DEF source
<1>13. /\ runtime' \in [Bound -> RuntimeSource] /\ runtime'[Layer] = source
       /\ \A l \in Bound : l # Layer => runtime'[l] = runtime[l]
    BY <1>1, <1>7, <1>12
<1>14. ASSUME NEW w \in MapCells
       PROVE  \/ runtime'[Layer].cells[w] = runtime[Layer].cells[w]
              \/ \E cell \in Pending(flush.runs) :
                     /\ w = CellWorld(Chunk1, cell) /\ w[2] \in runtime[Layer].rows
                     /\ runtime'[Layer].cells[w] = Shows(cell)
    <2>1. CASE w \in targets
        <3>1. PICK cell \in cells : /\ w = CellWorld(Chunk1, cell) /\ LocalCell(w) = cell
                                    /\ cell \in PlaneCells(Side) /\ w[2] = Chunk1[2] + run.y
            BY <1>8, <2>1
        <3>2. QED
            BY <1>5, <1>6, <1>11, <1>12, <1>13, <2>1, <3>1
    <2>2. CASE w \notin targets
        BY <1>11, <1>12, <1>13, <2>2
    <2>3. QED
        BY <2>1, <2>2
<1>15. Writing
    BY <1>12, <1>13, <1>14 DEF Writing
<1>16. ASSUME n = run.size, NEW cell \in RunCells(run)
       PROVE  runtime'[Layer].cells[CellWorld(Chunk1, cell)] = Shows(cell)
    <2>1. cell \in cells
        BY <1>5, <1>16
    <2>2. QED
        BY <1>9, <1>11, <1>12, <1>13, <2>1
<1>17. QED
    BY <1>15, <1>16

\* A write that fails leaves its first bytes behind, and the plane dirty.
LEMMA WritingStops ==
    ASSUME IInv, Writing, FlushReturn("LayerSourceError"), UNCHANGED <<slots, placements, nextId>>
    PROVE  IInv'
<1>1. "LayerSourceError" \in Errors \cup {NoError}
    BY DEF Errors
<1>2. flush' = Idle /\ reply' \in Errors \cup {"ok", "restarted"}
    BY <1>1, Replies DEF FlushReturn
<1>3. QED
    BY <1>2, WritingAnswers, FlushEnds DEF Writing

\* What is pending is what the first run and the others cover.
LEMMA PendingRuns ==
    ASSUME NEW runs \in Seq(Run), runs # <<>>
    PROVE  Pending(runs) = RunCells(Head(runs)) \cup Pending(Tail(runs))
<1>1. /\ Head(runs) = runs[1] /\ 1 \in DOMAIN runs
      /\ \A k \in DOMAIN Tail(runs) : k + 1 \in DOMAIN runs /\ Tail(runs)[k] = runs[k + 1]
      /\ \A k \in DOMAIN runs : k = 1 \/ \E j \in DOMAIN Tail(runs) : Tail(runs)[j] = runs[k]
    BY HeadAndTail
<1>2. Pending(runs) \subseteq RunCells(Head(runs)) \cup Pending(Tail(runs))
    <2>1. ASSUME NEW k \in DOMAIN runs
          PROVE  RunCells(runs[k]) \subseteq RunCells(Head(runs)) \cup Pending(Tail(runs))
        BY <1>1 DEF Pending
    <2>2. QED
        BY <2>1 DEF Pending
<1>3. RunCells(Head(runs)) \cup Pending(Tail(runs)) \subseteq Pending(runs)
    <2>1. RunCells(Head(runs)) \subseteq Pending(runs)
        BY <1>1 DEF Pending
    <2>2. ASSUME NEW k \in DOMAIN Tail(runs) PROVE RunCells(Tail(runs)[k]) \subseteq Pending(runs)
        BY <1>1 DEF Pending
    <2>3. QED
        BY <2>1, <2>2 DEF Pending
<1>4. QED
    BY <1>2, <1>3

\* write_cells(): what has been written is now the answer of the sources.
LEMMA WriteRunStep ==
    ASSUME GridFits, IInv, WriteRun
    PROVE  IInv' /\ UNCHANGED <<slots, placements>> /\ (Writing \/ UNCHANGED runtime)
<1> DEFINE run == Head(flush.runs)
           row == Chunk1[2] + run.y
<1>1. At("write") /\ flush.pc = "write" /\ flush.runs # <<>> /\ UNCHANGED <<slots, placements, nextId>>
    BY DEF WriteRun, At
<1>2. /\ flush \in Flushes /\ flush.layers # <<>> /\ flush.todo # <<>>
      /\ Layer \in Layers /\ Layer \in Bound /\ flush.layout /\ Form = "ready" /\ Working
    BY <1>1, AtWrite
<1>3. flush.runs \in Seq(Run)
    BY <1>2 DEF Flushes
<1>4. run \in Run /\ Tail(flush.runs) \in Seq(Run)
    BY <1>1, <1>3, HeadAndTail
<1>5. run.size \in 0 .. run.size
    BY <1>4, SideAssumption DEF Run
<1>6. \/ /\ row \in runtime[Layer].rows
         /\ runtime' = Written(run, run.size)
         /\ flush' = [flush EXCEPT !.runs = Tail(@)]
         /\ UNCHANGED reply
      \/ /\ runtime' \in {runtime} \cup
                {Written(run, n) : n \in IF row \in runtime[Layer].rows THEN 0 .. run.size ELSE {}}
         /\ FlushReturn("LayerSourceError")
    BY DEF WriteRun
<1>7. CASE /\ row \in runtime[Layer].rows
           /\ runtime' = Written(run, run.size)
           /\ flush' = [flush EXCEPT !.runs = Tail(@)]
           /\ UNCHANGED reply
    <2>1. /\ Writing
          /\ \A cell \in RunCells(run) :
                 runtime'[Layer].cells[CellWorld(Chunk1, cell)] = Shows(cell)
        BY <1>1, <1>5, <1>7, WrittenCells
    <2>2. /\ SourcesOK' /\ Fresh(slots, placements, runtime')
          /\ \A cell \in InMap(Chunk1) :
                 LET w == CellWorld(Chunk1, cell)
                 IN  \/ /\ runtime'[Layer].cells[w] = runtime[Layer].cells[w]
                        /\ BackingAt(placements, runtime', Layer, w) = Backing(Layer, w)
                     \/ /\ runtime'[Layer].cells[w] = Shows(cell)
                        /\ BackingAt(placements, runtime', Layer, w) = Shows(cell)
        BY <2>1, WritingAnswers
    <2>3. /\ flush'.pc = "write" /\ flush'.scope = flush.scope /\ flush'.layers = flush.layers
          /\ flush'.todo = flush.todo /\ flush'.layout /\ flush'.runs = Tail(flush.runs)
          /\ flush' \in Flushes
        BY <1>1, <1>2, <1>4, <1>7 DEF Flushes
    <2>4. /\ Working' /\ ~ Preparing' /\ At("write")' /\ ~ Ready' /\ ~ At("layer")'
          /\ ~ At("create")' /\ ~ At("header")' /\ ~ At("rows")' /\ ~ At("reopen")'
          /\ Layer' = Layer /\ Chunk1' = Chunk1
        BY <2>3 DEF Working, Preparing, Ready, At, Layer, Chunk1
    <2>5. ShapeOK' /\ CreationOK'
        BY <1>2, <2>1, <2>3, <2>4 DEF ShapeOK, CreationOK, Form, Writing
    <2>6. Pending(flush.runs) = RunCells(run) \cup Pending(Tail(flush.runs))
        BY <1>1, <1>3, PendingRuns
    <2>7. /\ Pending(flush.runs) \subseteq InMap(Chunk1)
          /\ \A cell \in InMap(Chunk1) :
                 /\ cell \in Pending(flush.runs) =>
                        /\ HasContribution(Shows(cell))
                        /\ \/ Shows(cell) # Backing(Layer, CellWorld(Chunk1, cell))
                           \/ runtime[Layer].cells[CellWorld(Chunk1, cell)] = Shows(cell)
                 /\ cell \notin Pending(flush.runs) =>
                        Shows(cell) = Backing(Layer, CellWorld(Chunk1, cell))
        BY <1>1, AtWrite
    <2> HIDE DEF run, row
    <2>8. ASSUME NEW cell \in InMap(Chunk1)
          PROVE  LET w == CellWorld(Chunk1, cell)
                 IN  IF cell \in Pending(Tail(flush.runs))
                     THEN /\ HasContribution(Shows(cell))
                          /\ \/ Shows(cell) # BackingAt(placements, runtime', Layer, w)
                             \/ runtime'[Layer].cells[w] = Shows(cell)
                     ELSE Shows(cell) = BackingAt(placements, runtime', Layer, w)
        <3> DEFINE w == CellWorld(Chunk1, cell)
        <3>1. \/ /\ runtime'[Layer].cells[w] = runtime[Layer].cells[w]
                 /\ BackingAt(placements, runtime', Layer, w) = Backing(Layer, w)
              \/ /\ runtime'[Layer].cells[w] = Shows(cell)
                 /\ BackingAt(placements, runtime', Layer, w) = Shows(cell)
            BY <2>2
        <3>2. CASE cell \in Pending(Tail(flush.runs))
            BY <2>6, <2>7, <3>1, <3>2
        <3>3. CASE cell \in RunCells(run) /\ cell \notin Pending(Tail(flush.runs))
            <4>1. runtime'[Layer].cells[w] = Shows(cell)
                BY <2>1, <3>3
            <4>2. CASE BackingAt(placements, runtime', Layer, w) = Backing(Layer, w)
                       /\ runtime'[Layer].cells[w] = runtime[Layer].cells[w]
                <5>1. HasContribution(Shows(cell)) /\ runtime[Layer].cells[w] = Shows(cell)
                    BY <2>6, <2>7, <3>3, <4>1, <4>2
                <5>2. w[2] \in runtime[Layer].rows
                    <6>1. cell \in PlaneCells(Side) /\ w = <<Chunk1[1] + cell[1], Chunk1[2] + cell[2]>>
                        BY InMapPosition
                    <6>2. cell[2] = run.y
                        BY <3>3 DEF RunCells
                    <6>3. QED
                        BY <1>7, <6>1, <6>2 DEF row
                <5>3. BackingAt(placements, runtime, Layer, w) = Shows(cell)
                    BY <1>2, <5>1, <5>2, StoredShows DEF Form
                <5>4. QED
                    BY <3>3, <4>2, <5>3 DEF Backing
            <4>3. QED
                BY <3>1, <3>3, <4>2
        <3>4. CASE cell \notin RunCells(run) /\ cell \notin Pending(Tail(flush.runs))
            <4>1. Shows(cell) = Backing(Layer, w)
                BY <2>6, <2>7, <3>4
            <4>2. QED
                BY <3>1, <3>4, <4>1
        <3>5. QED
            BY <3>2, <3>3, <3>4
    <2>9. Pending(Tail(flush.runs)) \subseteq InMap(Chunk1)
        BY <2>6, <2>7
    <2>10. RunsOK'
        BY <1>1, <2>3, <2>4, <2>8, <2>9 DEF RunsOK, Shows, Backing
    <2>11. runtime' \in [Bound -> RuntimeSource]
        BY <2>1 DEF Writing
    <2>12. QED
        BY <1>1, <1>2, <1>7, <2>1, <2>2, <2>3, <2>4, <2>5, <2>10, <2>11, FlushStays
<1>8. CASE runtime' = runtime /\ FlushReturn("LayerSourceError")
    BY <1>1, <1>8, FlushFails DEF Errors
<1>9. CASE /\ runtime' # runtime
           /\ runtime' \in {runtime} \cup
                  {Written(run, n) : n \in IF row \in runtime[Layer].rows THEN 0 .. run.size ELSE {}}
           /\ FlushReturn("LayerSourceError")
    <2>1. PICK n \in IF row \in runtime[Layer].rows THEN 0 .. run.size ELSE {} : runtime' = Written(run, n)
        BY <1>9
    <2>2. row \in runtime[Layer].rows /\ n \in 0 .. run.size
        BY <2>1
    <2>3. Writing
        BY <1>1, <2>1, <2>2, WrittenCells
    <2>4. QED
        BY <1>1, <1>9, <2>3, WritingStops
<1>10. QED
    BY <1>6, <1>7, <1>8, <1>9

\* With no run left the sources answer what the plane shows.
LEMMA FinishPlaneStep ==
    ASSUME GridFits, IInv, FinishPlane
    PROVE  IInv' /\ Settled
<1>1. At("write") /\ flush.runs = <<>>
    BY DEF FinishPlane
<1>2. Pending(flush.runs) = {}
    BY <1>1 DEF Pending
<1>3. Settled
    BY <1>1, <1>2, AtWrite DEF Settled, FinishPlane, Shows
<1>4. QED
    BY <1>3, PlaneDone DEF Settled

-----------------------------------------------------------------------------
(***************************************************************************)
(* Every step is of one of these kinds.                                    *)
(***************************************************************************)
SetBy(l, w, v) == l \in Layers /\ w \in AccessAt \cap MapCells /\ v \in SetValues
                   /\ Sets(l, w, v, slots')

Called ==
    /\ Ready /\ UNCHANGED <<placements, runtime, flush>>
    /\ Keeps(slots, slots') \/ \E l, w, v : SetBy(l, w, v)

SourceStep == UNCHANGED <<slots, placements>> /\ (Creating \/ Writing)

Quiet == UNCHANGED <<slots, placements, runtime>>

Kinds == Called \/ (Ready /\ Replacement) \/ Restart \/ Settled \/ SourceStep \/ Quiet

LEMMA FlushStepKinds ==
    ASSUME GridFits, IInv, FlushStep
    PROVE  IInv' /\ (Settled \/ SourceStep \/ Quiet)
<1>1. CASE FlushLayer
    BY <1>1, FlushLayerStep DEF Quiet, FlushLayer
<1>2. CASE FlushPlane
    BY <1>2, FlushPlaneStep DEF Quiet
<1>3. CASE FlushNextLayer
    BY <1>3, FlushNextLayerStep DEF Quiet, FlushNextLayer
<1>4. CASE BindSource
    BY <1>4, BindSourceStep DEF Quiet
<1>5. CASE CreateSource
    BY <1>5, CreateSourceStep DEF SourceStep
<1>6. CASE WriteHeader
    BY <1>6, WriteHeaderStep DEF SourceStep
<1>7. CASE WriteRowEnd
    BY <1>7, WriteRowEndStep DEF SourceStep, Quiet
<1>8. CASE ReopenSource
    BY <1>8, ReopenSourceStep DEF Quiet
<1>9. CASE WriteRun
    BY <1>9, WriteRunStep DEF SourceStep, Quiet
<1>10. CASE FinishPlane
    BY <1>10, FinishPlaneStep
<1>11. QED
    BY <1>1, <1>2, <1>3, <1>4, <1>5, <1>6, <1>7, <1>8, <1>9, <1>10 DEF FlushStep

LEMMA AccessKinds ==
    ASSUME GridFits, IInv, Access
    PROVE  IInv' /\ Called
<1>1. ASSUME NEW l \in Layers, NEW w \in AccessAt, ReadValue(l, w) PROVE IInv' /\ Called
    BY <1>1, ReadValueStep DEF Called, ReadValue
<1>2. ASSUME NEW w \in AccessAt, ReadTile(w) PROVE IInv' /\ Called
    BY <1>2, ReadTileStep DEF Called, ReadTile
<1>3. ASSUME NEW l \in Layers, NEW w \in AccessAt, NEW v \in SetValues, SetValue(l, w, v)
      PROVE  IInv' /\ Called
    BY <1>3, SetValueStep DEF Called, SetBy
<1>4. QED
    BY <1>1, <1>2, <1>3 DEF Access

LEMMA StepKinds ==
    ASSUME GridFits, IInv, [Next]_vars
    PROVE  IInv' /\ Kinds
<1>1. CASE Access
    BY <1>1, AccessKinds DEF Kinds
<1>2. CASE Management
    BY <1>2, ManagementIsManaged, ManagedStep DEF Kinds, Managed, Refusal, Quiet
<1>3. CASE BeginAnyFlush
    <2>1. PICK layers \in Seq(Layers) : BeginFlush(layers)
        <3>1. \A l \in Layers : <<l>> \in Seq(Layers)
            OBVIOUS
        <3>2. LayerOrder \in Seq(Layers)
            BY OrderAssumption
        <3>3. QED
            BY <1>3, <3>1, <3>2 DEF BeginAnyFlush
    <2>2. QED
        BY <2>1, BeginFlushStep DEF Kinds, Quiet, BeginFlush
<1>4. CASE FlushStep
    BY <1>4, FlushStepKinds DEF Kinds
<1>5. CASE Restart
    BY <1>5, RestartStep DEF Kinds
<1>6. CASE UNCHANGED vars
    <2>1. IInv' <=> IInv
        <3>1. TypeOK' /\ PlacementsOK' /\ SourcesOK' /\ CacheOK'
            BY <1>6 DEF IInv, TypeOK, PlacementsOK, SourcesOK, CacheOK, vars
        <3>2. FlushOK'
            BY <1>6 DEF IInv, FlushOK, ShapeOK, CreationOK, TodoOK, DoneOK, Clean, RunsOK, Backing,
                        Working, Preparing, Ready, At, Form, Layer, Chunk1, vars
        <3>3. QED
            BY <3>1, <3>2 DEF IInv
    <2>2. QED
        BY <1>6, <2>1 DEF Kinds, Quiet, vars
<1>7. QED
    BY <1>1, <1>2, <1>3, <1>4, <1>5, <1>6 DEF Next

-----------------------------------------------------------------------------
\* What the steps of the Map keep: the cache is one plane per layer and chunk,
\* clean planes show the answer of the sources, and the flush in progress knows
\* which planes are dirty, which cells are still to be written, and how far the
\* source it writes to has come.
THEOREM Inductive ==
    ASSUME GridFits
    PROVE  Spec => []IInv
<1>1. Init => IInv
    BY InitIInv
<1>2. IInv /\ [Next]_vars => IInv'
    BY StepKinds
<1>3. QED
    BY <1>1, <1>2, PTL DEF Spec

\* The state of the Map stays well formed: every load, placement change, flush
\* step and restart leaves values of the declared types (map.hpp:1899-1961).
THEOREM TypeCorrect ==
    ASSUME GridFits
    PROVE  Spec => []TypeOK
<1>1. IInv => TypeOK
    BY DEF IInv
<1>2. QED
    BY <1>1, Inductive, PTL

\* For every map, catalogue, capacity and storage: a resident plane that is not
\* dirty shows what the sources answer now, after any sequence of sets, placement
\* changes, flushes that succeed, fail or are cut short, and restarts.
THEOREM CleanIsFresh ==
    ASSUME GridFits
    PROVE  Spec => []CleanPlaneIsFresh
<1>1. IInv => CleanPlaneIsFresh
    <2>1. ASSUME IInv, NEW l \in Layers, NEW w \in MapCells, ResidentAt(l, w), ~ DirtyAt(l, w)
          PROVE  Shown(l, w) = Backing(l, w)
        <3>1. Shown(l, w) = Look(slots, placements, runtime, l, w)
            BY ViewIsLook DEF Shown
        <3>2. QED
            BY <2>1, <3>1 DEF IInv, CacheOK, Fresh, Look, ResidentAt, DirtyAt, Backing
    <2>2. QED
        BY <2>1 DEF CleanPlaneIsFresh
<1>2. QED
    BY <1>1, Inductive, PTL

\* The chunks a flush has enumerated are resident and dirty when their turn
\* comes, as the assertions of value() and mark_clean() demand.
THEOREM WorkListDirty ==
    ASSUME GridFits
    PROVE  Spec => []WorkListStaysDirty
<1>1. IInv => WorkListStaysDirty
    <2>1. ASSUME IInv, NEW k \in DOMAIN flush.todo PROVE IsDirty(slots, Layer, flush.todo[k])
        <3>1. flush.todo # <<>>
            BY <2>1
        <3>2. Working
            BY <2>1, <3>1 DEF IInv, FlushOK, ShapeOK, Ready, Working, At, Idle
        <3>3. QED
            BY <2>1, <3>2 DEF IInv, FlushOK, TodoOK
    <2>2. QED
        BY <2>1 DEF WorkListStaysDirty
<1>2. QED
    BY <1>1, Inductive, PTL

\* The passes of resolve_chunk() compute, at every reachable state, the answer the
\* design states cell by cell, and fail exactly when a source needed for one of
\* the cells cannot be read.
THEOREM ResolutionCorrect ==
    ASSUME GridFits
    PROVE  Spec => []ResolutionMatchesReference
<1>1. IInv => ResolutionMatchesReference
    <2>1. ASSUME IInv, NEW l \in Layers, NEW o \in MapOrigins
          PROVE  LET r == Resolve(placements, runtime, l, o)
                 IN  /\ r.error = NoError <=>
                            \A w \in Positions(o) : Readable(placements, runtime, l, w)
                     /\ r.error = NoError =>
                            r.plane = [cell \in PlaneCells(Side) |->
                                IF cell \in InMap(o) THEN Backing(l, CellWorld(o, cell)) ELSE Zero]
        <3>1. PICK u \in MapCells : o = ChunkAt(u)
            BY <2>1 DEF MapOrigins
        <3>2. InMap(o) # {}
            BY <3>1, ChunkOfPosition
        <3>3. WellPlaced(placements) /\ Stored(runtime)
            BY <2>1, StateIsResolvable DEF IInv
        <3>4. QED
            BY <3>2, <3>3, ResolveMatchesReference DEF Backing
    <2>2. QED
        BY <2>1 DEF ResolutionMatchesReference
<1>2. QED
    BY <1>1, Inductive, PTL

\* A call that ends a flush with an error does not report success.
LEMMA FailureIsReported ==
    ASSUME NEW e \in Errors, FlushReturn(e)
    PROVE  reply' # "ok"
BY DEF FlushReturn, Return, Errors, NoError

\* The steps of a flush that go on do not end it.
LEMMA GoesOn ==
    ASSUME flush \in Flushes
    PROVE  /\ \A pc, layers : flush' = [flush EXCEPT !.pc = pc, !.layers = layers] => flush'.pc = pc
           /\ \A pc, runs : flush' = [flush EXCEPT !.runs = runs, !.pc = pc] => flush'.pc = pc
           /\ \A pc, layout : flush' = [flush EXCEPT !.pc = pc, !.layout = layout] => flush'.pc = pc
           /\ \A runs : flush' = [flush EXCEPT !.runs = runs] => flush'.pc = flush.pc
           /\ \A pc : Goto(pc) => flush'.pc = pc
           /\ flush' = NextChunk => flush'.pc = "plane"
BY DEF Flushes, Goto, NextChunk

\* Success is reported when no layer is left.
LEMMA SuccessIsLast ==
    ASSUME GridFits, IInv, FlushStep, Ready', reply' = "ok"
    PROVE  flush.layers = <<>> /\ slots' = slots
<1>1. flush \in Flushes /\ flush'.pc = "idle"
    BY DEF IInv, TypeOK, Flushes, Ready
<1>2. "LayerSourceError" \in Errors /\ SourceErrors \subseteq Errors
    BY DEF Errors, SourceErrors
<1>3. CASE FlushLayer
    <2>1. slots' = slots
        BY <1>3 DEF FlushLayer
    <2>2. flush.layers # <<>> =>
              flush' = [flush EXCEPT !.pc = "plane", !.layout = FALSE,
                                     !.todo = DirtyChunks(slots, Layer)]
        BY <1>3 DEF FlushLayer
    <2>3. flush.layers # <<>> => flush'.pc = "plane"
        BY <1>1, <2>2 DEF Flushes
    <2>4. QED
        BY <1>1, <2>1, <2>3
<1>4. CASE FlushPlane
    <2> DEFINE r == Resolve(placements, runtime, Layer, Chunk1)
               cells == Differences(Layer, Chunk1, r.plane)
               blocked == Preflight(Layer, Chunk1, cells)
    <2>1. Working
        BY <1>4 DEF FlushPlane, At, Working
    <2>2. r.error \in SourceErrors \cup {NoError}
        BY <2>1, AtWork, ResolveTyped, StateIsResolvable DEF IInv
    <2>3. blocked \in Errors \cup {NoError}
        BY DEF Preflight, Errors
    <2>4. \/ FlushReturn("LayerSourceError")
          \/ r.error # NoError /\ FlushReturn(r.error)
          \/ blocked # NoError /\ FlushReturn(blocked)
          \/ flush' = NextChunk
          \/ flush' = [flush EXCEPT !.runs = Runs(cells),
                                    !.pc = IF flush.layout THEN "write" ELSE "bind"]
        BY <1>4 DEF FlushPlane, StorageFails
    <2> HIDE DEF r, cells, blocked
    <2>5. (IF flush.layout THEN "write" ELSE "bind") # "idle"
        OBVIOUS
    <2>6. flush' # NextChunk
        BY <1>1, GoesOn
    <2>7. flush' # [flush EXCEPT !.runs = Runs(cells),
                                 !.pc = IF flush.layout THEN "write" ELSE "bind"]
        BY <1>1, <2>5, GoesOn
    <2>8. QED
        BY <1>2, <2>2, <2>3, <2>4, <2>6, <2>7, FailureIsReported
<1>5. CASE FlushNextLayer
    BY <1>1, <1>5, GoesOn DEF FlushNextLayer
<1>6. CASE BindSource
    <2>1. /\ RuntimeFormError(runtime[Layer].form) # NoError =>
                 RuntimeFormError(runtime[Layer].form) \in Errors
        BY DEF RuntimeFormError, Errors
    <2>2. QED
        BY <1>1, <1>2, <1>6, <2>1, GoesOn, FailureIsReported DEF BindSource, StorageFails
<1>7. CASE CreateSource
    BY <1>1, <1>2, <1>7, GoesOn, FailureIsReported DEF CreateSource
<1>8. CASE WriteHeader
    BY <1>1, <1>2, <1>8, GoesOn, FailureIsReported DEF WriteHeader
<1>9. CASE WriteRowEnd
    <2>1. \/ Goto("reopen") \/ Goto("rows") \/ FlushReturn("LayerSourceError")
        BY <1>9 DEF WriteRowEnd
    <2>2. QED
        BY <1>1, <1>2, <2>1, GoesOn, FailureIsReported
<1>10. CASE ReopenSource
    BY <1>1, <1>2, <1>10, GoesOn, FailureIsReported DEF ReopenSource, StorageFails
<1>11. CASE WriteRun
    <2>1. flush.pc = "write" /\ (flush' = [flush EXCEPT !.runs = Tail(@)] \/ FlushReturn("LayerSourceError"))
        BY <1>11 DEF WriteRun, At
    <2>2. QED
        BY <1>1, <1>2, <2>1, GoesOn, FailureIsReported
<1>12. CASE FinishPlane
    BY <1>1, <1>12, GoesOn DEF FinishPlane
<1>13. QED
    BY <1>3, <1>4, <1>5, <1>6, <1>7, <1>8, <1>9, <1>10, <1>11, <1>12 DEF FlushStep

\* The chunks of the map are canonical.
LEMMA OriginsOfMap ==
    ASSUME GridFits, NEW o \in MapOrigins
    PROVE  o \in Chunks /\ o \in Coord
BY ChunkOfPosition DEF MapOrigins, Chunks

\* A flush that answers success leaves no dirty plane in the layers it was asked
\* to flush, however many chunks, runs and sources that took.
THEOREM SuccessCleans ==
    ASSUME GridFits
    PROVE  Spec => FlushSuccessCleans
<1>1. ASSUME IInv, [Next]_vars, ~ Ready, Ready', reply' = "ok",
             NEW l \in Range(flush.scope), NEW o \in MapOrigins
      PROVE  ~ IsDirty(slots', l, o)
    <2>1. FlushStep
        <3>1. ~ Access /\ ~ Management /\ ~ BeginAnyFlush
            BY <1>1 DEF Access, ReadValue, ReadTile, SetValue, Management, PlaceNaturally, Place,
                        SetPosition, SetRotation, SetReflection, SetOrientation, Change,
                        BeginAnyFlush, BeginFlush
        <3>2. ~ Restart /\ ~ UNCHANGED vars
            BY <1>1 DEF Restart, vars, Ready
        <3>3. QED
            BY <1>1, <3>1, <3>2 DEF Next
    <2>2. flush.layers = <<>> /\ slots' = slots
        BY <1>1, <2>1, SuccessIsLast
    <2>3. l \notin Range(flush.layers)
        BY <2>2 DEF Range
    <2>4. Clean(l)
        BY <1>1, <2>3 DEF IInv, FlushOK, DoneOK
    <2>5. QED
        BY <1>1, <2>2, <2>4, OriginsOfMap DEF Clean
<1>2. IInv /\ [Next]_vars =>
          [~ Ready /\ Ready' /\ reply' = "ok" =>
              \A l \in Range(flush.scope), o \in MapOrigins : ~ IsDirty(slots', l, o)]_vars
    BY <1>1
<1>3. QED
    BY <1>2, Inductive, PTL DEF Spec, FlushSuccessCleans

\* A plane that is marked clean is the only one, and still shows the same.
LEMMA SettledCleans ==
    ASSUME GridFits, IInv, Settled
    PROVE  /\ \A m \in Layers : \A p :
                  IsDirty(slots', m, p) <=> IsDirty(slots, m, p) /\ ~ (m = Layer /\ p = Chunk1)
           /\ \A m \in Layers, w \in MapCells :
                  Look(slots', placements, runtime, m, w) = Look(slots, placements, runtime, m, w)
<1>1. \A m \in Layers : \A p :
          /\ Resident(slots', m, p) <=> Resident(slots, m, p)
          /\ IsDirty(slots', m, p) <=> IsDirty(slots, m, p) /\ ~ (m = Layer /\ p = Chunk1)
          /\ Resident(slots, m, p) => PlaneAt(slots', m, p) = PlaneAt(slots, m, p)
    BY PlaneDone DEF Settled
<1>2. QED
    BY <1>1 DEF Look

\* What the view shows at a position.
LEMMA ShownIsLook ==
    ASSUME NEW l \in Layers, NEW w \in MapCells
    PROVE  Shown(l, w) = Look(slots, placements, runtime, l, w)
BY ViewIsLook DEF Shown

\* A plane that is no longer dirty has been discarded by a restart or flushed.
LEMMA DirtyGoes ==
    ASSUME GridFits, IInv, [Next]_vars, NEW l \in Layers, NEW o \in MapOrigins,
           IsDirty(slots, l, o), ~ IsDirty(slots', l, o)
    PROVE  \/ reply' = "restarted"
           \/ ~ Ready /\ \A w \in Positions(o) : Shown(l, w) = Backing(l, w)'
<1>1. Kinds /\ o \in Chunks
    BY StepKinds, OriginsOfMap
<1>2. ~ Called
    BY DEF Called, Keeps, SetBy, Sets
<1>3. ~ Replacement
    <2>1. slots \in Arrays /\ Consistent(slots)
        BY DEF IInv, TypeOK, CacheOK, Arrays
    <2>2. HasDirty(slots)
        BY <1>1, <2>1, AnyDirty
    <2>3. QED
        BY <2>2 DEF Replacement
<1>4. ~ SourceStep /\ ~ Quiet
    BY DEF SourceStep, Quiet
<1>5. CASE Restart
    BY <1>5 DEF Restart
<1>6. CASE Settled
    <2>1. l = Layer /\ o = Chunk1
        BY <1>6, SettledCleans
    <2>2. /\ Working /\ flush.todo # <<>> /\ UNCHANGED <<placements, runtime>>
          /\ \A cell \in InMap(Chunk1) :
                 PlaneAt(slots, Layer, Chunk1)[cell] = Backing(Layer, CellWorld(Chunk1, cell))
        BY <1>6 DEF Settled
    <2>3. Resident(slots, Layer, Chunk1) /\ ~ Ready
        BY <2>2, AtWork DEF Working, Ready
    <2>4. ASSUME NEW w \in Positions(o) PROVE Shown(l, w) = Backing(l, w)'
        <3>1. PICK cell \in InMap(Chunk1) : w = CellWorld(Chunk1, cell)
            BY <2>1 DEF Positions
        <3>2. ChunkAt(w) = Chunk1 /\ LocalCell(w) = cell /\ w \in MapCells
            BY <1>1, <2>1, <3>1, CellOfChunk
        <3>3. Shown(l, w) = PlaneAt(slots, Layer, Chunk1)[cell]
            BY <2>1, <2>3, <3>2, ShownIsLook DEF Look
        <3>4. Backing(l, w)' = Backing(l, w)
            BY <2>2 DEF Backing
        <3>5. QED
            BY <2>1, <2>2, <3>1, <3>3, <3>4
    <2>5. QED
        BY <2>3, <2>4
<1>7. QED
    BY <1>1, <1>2, <1>3, <1>4, <1>5, <1>6 DEF Kinds

\* No plane loses its dirty mark unless the sources have come to answer what it
\* shows, or the process has ended.
THEOREM DirtyGoesFlushed ==
    ASSUME GridFits
    PROVE  Spec => DirtyOnlyFlushedAway
<1>1. IInv /\ [Next]_vars =>
          [\A l \in Layers, o \in MapOrigins :
              IsDirty(slots, l, o) /\ ~ IsDirty(slots', l, o) =>
                  \/ reply' = "restarted"
                  \/ ~ Ready /\ \A w \in Positions(o) : Shown(l, w) = Backing(l, w)']_slots
    BY DirtyGoes
<1>2. QED
    BY <1>1, Inductive, PTL DEF Spec, DirtyOnlyFlushedAway

\* A byte of a runtime source changes by a write, and only to what a plane shows.
LEMMA BytePersists ==
    ASSUME GridFits, IInv, [Next]_vars, NEW l \in Bound, NEW w \in MapCells,
           runtime'[l].cells[w] # runtime[l].cells[w]
    PROVE  /\ ~ Ready /\ DirtyAt(l, w) /\ DirtyAt(l, w)'
           /\ runtime'[l].cells[w] = Shown(l, w)
           /\ HasContribution(Shown(l, w))
           /\ Shown(l, w) # Backing(l, w)
<1>1. SourceStep
    BY StepKinds DEF Kinds, Called, Replacement, Restart, Settled, Quiet
<1>2. ~ Creating
    BY DEF Creating
<1>3. Writing /\ UNCHANGED <<slots, placements>>
    BY <1>1, <1>2 DEF SourceStep
<1>4. l = Layer
    BY <1>3 DEF Writing
<1>5. PICK cell \in Pending(flush.runs) :
          /\ w = CellWorld(Chunk1, cell) /\ w[2] \in runtime[Layer].rows
          /\ runtime'[Layer].cells[w] = Shows(cell)
    BY <1>3, <1>4 DEF Writing
<1>6. /\ Working /\ Layer \in Layers /\ Chunk1 \in Chunks
      /\ IsDirty(slots, Layer, Chunk1) /\ Resident(slots, Layer, Chunk1)
      /\ cell \in InMap(Chunk1) /\ HasContribution(Shows(cell))
      /\ \/ Shows(cell) # Backing(Layer, w)
         \/ runtime[Layer].cells[w] = Shows(cell)
    BY <1>3, <1>5, AtWrite DEF Writing
<1>7. ChunkAt(w) = Chunk1 /\ LocalCell(w) = cell
    BY <1>5, <1>6, CellOfChunk
<1>8. Shown(l, w) = Shows(cell)
    BY <1>4, <1>6, <1>7, ShownIsLook DEF Look, Shows
<1>9. ~ Ready /\ DirtyAt(l, w) /\ DirtyAt(l, w)'
    BY <1>3, <1>4, <1>6, <1>7 DEF DirtyAt, Working, Ready
<1>10. QED
    BY <1>4, <1>5, <1>6, <1>8, <1>9

\* A byte of an overlay changes only to the value of a dirty plane that can be
\* stored and is not already the answer; no step takes a byte back.
THEOREM DifferencesPersist ==
    ASSUME GridFits
    PROVE  Spec => OnlyDifferencesPersisted
<1>1. IInv /\ [Next]_vars =>
          [\A l \in Bound, w \in MapCells :
              runtime'[l].cells[w] # runtime[l].cells[w] =>
                  /\ ~ Ready /\ DirtyAt(l, w) /\ DirtyAt(l, w)'
                  /\ runtime'[l].cells[w] = Shown(l, w)
                  /\ HasContribution(Shown(l, w))
                  /\ Shown(l, w) # Backing(l, w)]_runtime
    BY BytePersists
<1>2. QED
    BY <1>1, Inductive, PTL DEF Spec, OnlyDifferencesPersisted

\* The structure of a source changes by its creation, for what is pending.
LEMMA SourceAppears ==
    ASSUME GridFits, IInv, [Next]_vars, NEW l \in Bound,
           runtime'[l].form # runtime[l].form \/ runtime'[l].rows # runtime[l].rows
    PROVE  LET old == runtime[l]
               new == runtime'[l]
               differing == {w \in MapCells : /\ ChunkAt(w) = Chunk1
                                              /\ Shown(l, w) # Backing(l, w)}
           IN  /\ <<old.form, new.form>> \in
                      {<<"absent", "broken">>, <<"broken", "ready">>, <<"ready", "ready">>}
               /\ old.rows \subseteq new.rows /\ old.cells = Blank
               /\ ~ Ready /\ l = Layer
               /\ differing # {}
               /\ \A w \in differing : HasContribution(Shown(l, w)) /\ DirtyAt(l, w)
<1> DEFINE differing == {w \in MapCells : ChunkAt(w) = Chunk1 /\ Shown(l, w) # Backing(l, w)}
<1>1. SourceStep
    BY StepKinds DEF Kinds, Called, Replacement, Restart, Settled, Quiet
<1>2. Creating /\ l = Layer
    BY <1>1 DEF SourceStep, Creating, Writing
<1>3. Preparing /\ ~ Ready
    BY <1>2 DEF Creating, Preparing, Ready
<1>4. /\ Working /\ Layer \in Layers /\ flush \in Flushes /\ flush.runs # <<>> /\ flush.todo # <<>>
      /\ runtime[Layer].cells = Blank
    BY <1>2, <1>3, AtPreparation DEF Creating, At
<1>5. /\ Chunk1 \in Chunks /\ IsDirty(slots, Layer, Chunk1) /\ Resident(slots, Layer, Chunk1)
    BY <1>4, AtWork
<1>6. /\ Pending(flush.runs) \subseteq InMap(Chunk1)
      /\ \A cell \in InMap(Chunk1) :
             /\ cell \in Pending(flush.runs) =>
                    /\ HasContribution(Shows(cell))
                    /\ \/ Shows(cell) # Backing(Layer, CellWorld(Chunk1, cell))
                       \/ runtime[Layer].cells[CellWorld(Chunk1, cell)] = Shows(cell)
             /\ cell \notin Pending(flush.runs) =>
                    Shows(cell) = Backing(Layer, CellWorld(Chunk1, cell))
    BY <1>3 DEF IInv, FlushOK, RunsOK, Shows
<1>7. ASSUME NEW w \in MapCells, ChunkAt(w) = Chunk1
      PROVE  Shown(l, w) = Shows(LocalCell(w))
    BY <1>2, <1>4, <1>5, <1>7, ShownIsLook DEF Look, Shows
<1>8. differing # {}
    <2>1. flush.runs \in Seq(Run)
        BY <1>4 DEF Flushes
    <2>2. PICK run \in Run : RunCells(run) \subseteq Pending(flush.runs)
        BY <1>4, <2>1, HeadAndTail, PendingRuns
    <2>3. <<run.x, run.y>> \in RunCells(run)
        <3>1. run.x \in run.x .. run.x + run.size - 1
            BY <2>2, SideAssumption DEF Run
        <3>2. QED
            BY <3>1 DEF RunCells
    <2>4. PICK cell \in InMap(Chunk1) : cell \in Pending(flush.runs)
        BY <1>6, <2>2, <2>3
    <2>5. /\ ChunkAt(CellWorld(Chunk1, cell)) = Chunk1
          /\ LocalCell(CellWorld(Chunk1, cell)) = cell
          /\ CellWorld(Chunk1, cell) \in MapCells
        BY <1>5, CellOfChunk
    <2>6. runtime[Layer].cells[CellWorld(Chunk1, cell)] = Space
        BY <1>4, <2>5 DEF Blank
    <2>7. Shows(cell) # Backing(Layer, CellWorld(Chunk1, cell))
        BY <1>6, <2>4, <2>6 DEF HasContribution
    <2>8. QED
        BY <1>2, <1>7, <2>5, <2>7
<1>9. ASSUME NEW w \in differing PROVE HasContribution(Shown(l, w)) /\ DirtyAt(l, w)
    <2>1. w \in MapCells /\ ChunkAt(w) = Chunk1 /\ Shown(l, w) # Backing(l, w)
        BY <1>9
    <2>2. LocalCell(w) \in InMap(Chunk1) /\ CellWorld(Chunk1, LocalCell(w)) = w
        BY <2>1, ChunkOfPosition
    <2>3. HasContribution(Shows(LocalCell(w)))
        BY <1>2, <1>6, <1>7, <2>1, <2>2
    <2>4. QED
        BY <1>2, <1>5, <1>7, <2>1, <2>3 DEF DirtyAt
<1>10. /\ <<runtime[l].form, runtime'[l].form>> \in
              {<<"absent", "broken">>, <<"broken", "ready">>, <<"ready", "ready">>}
       /\ runtime[l].rows \subseteq runtime'[l].rows
    BY <1>2 DEF Creating
<1>11. QED
    BY <1>2, <1>3, <1>4, <1>8, <1>9, <1>10

\* The structure of a source changes only while it is made, step by step, for
\* a plane with a difference to store and none that cannot be stored; a source
\* that opens is never created again.
THEOREM SourcesAppear ==
    ASSUME GridFits
    PROVE  Spec => SourcesAppearForCause
<1>1. IInv /\ [Next]_vars =>
          [\A l \in Bound :
              LET old == runtime[l]
                  new == runtime'[l]
                  differing == {w \in MapCells : /\ ChunkAt(w) = Chunk1
                                                 /\ Shown(l, w) # Backing(l, w)}
              IN  new.form # old.form \/ new.rows # old.rows =>
                      /\ <<old.form, new.form>> \in
                             {<<"absent", "broken">>, <<"broken", "ready">>, <<"ready", "ready">>}
                      /\ old.rows \subseteq new.rows /\ old.cells = Blank
                      /\ ~ Ready /\ l = Layer
                      /\ differing # {}
                      /\ \A w \in differing : HasContribution(Shown(l, w)) /\ DirtyAt(l, w)]_runtime
    BY SourceAppears
<1>2. QED
    BY <1>1, Inductive, PTL DEF Spec, SourcesAppearForCause

\* The view changes by a set() alone.
LEMMA ViewChanges ==
    ASSUME GridFits, IInv, [Next]_vars, reply' # "restarted", placements' = placements,
           View(slots', placements', runtime') # View(slots, placements, runtime)
    PROVE  /\ Ready /\ flush'.pc = "idle"
           /\ \E l \in Layers, w \in AccessAt \cap MapCells, v \in SetValues :
                  /\ View(slots', placements', runtime') =
                         [View(slots, placements, runtime) EXCEPT ![l][w] = v]
                  /\ IsDirty(slots', l, ChunkAt(w))
<1>1. \E m \in Layers, x \in MapCells :
          Look(slots', placements', runtime', m, x) # Look(slots, placements, runtime, m, x)
    <2>1. (\A m \in Layers, x \in MapCells :
               Look(slots', placements', runtime', m, x) = Look(slots, placements, runtime, m, x))
          => View(slots', placements', runtime') = View(slots, placements, runtime)
        BY ViewIsLook
    <2>2. QED
        BY <2>1
<1>2. ~ Quiet
    BY <1>1 DEF Quiet
<1>3. ~ Settled
    BY <1>1, SettledCleans DEF Settled
<1>4. ~ SourceStep
    <2>1. ASSUME Creating, slots' = slots PROVE FALSE
        BY <1>1, <2>1, CreatingIsSilent DEF Look
    <2>2. ASSUME Writing, slots' = slots PROVE FALSE
        BY <1>1, <2>2, WritingAnswers
    <2>3. QED
        BY <2>1, <2>2 DEF SourceStep
<1>5. Called
    BY <1>2, <1>3, <1>4, StepKinds DEF Kinds, Replacement, Restart
<1>6. Ready /\ flush'.pc = "idle" /\ UNCHANGED <<placements, runtime>>
    BY <1>5 DEF Called, Ready
<1>7. PICK l, w, v : SetBy(l, w, v)
    BY <1>1, <1>5 DEF Called, Keeps
<1>8. /\ l \in Layers /\ w \in AccessAt \cap MapCells /\ v \in SetValues
      /\ \A m \in Layers, x \in MapCells :
             Look(slots', placements, runtime, m, x) =
                 IF m = l /\ x = w THEN v ELSE Look(slots, placements, runtime, m, x)
      /\ Look(slots, placements, runtime, l, w) # v => IsDirty(slots', l, ChunkAt(w))
    BY <1>7 DEF SetBy, Sets
<1>9. Look(slots, placements, runtime, l, w) # v
    BY <1>1, <1>6, <1>8
<1>10. View(slots', placements', runtime') = [View(slots, placements, runtime) EXCEPT ![l][w] = v]
    <2>1. View(slots', placements', runtime') =
              [m \in Layers |-> [x \in MapCells |-> Look(slots', placements, runtime, m, x)]]
        BY <1>6, ViewIsLook
    <2>2. View(slots, placements, runtime) =
              [m \in Layers |-> [x \in MapCells |-> Look(slots, placements, runtime, m, x)]]
        BY ViewIsLook
    <2>3. [m \in Layers |-> [x \in MapCells |-> Look(slots', placements, runtime, m, x)]] =
          [[m \in Layers |-> [x \in MapCells |-> Look(slots, placements, runtime, m, x)]]
              EXCEPT ![l][w] = v]
        BY <1>8
    <2>4. QED
        BY <2>1, <2>2, <2>3
<1>11. QED
    BY <1>6, <1>8, <1>9, <1>10

\* Neither a load nor a flush, and none of their failures, changes what the world
\* shows at any position; a set() changes it at one position and marks its plane.
THEOREM ViewIsStable ==
    ASSUME GridFits
    PROVE  Spec => ViewStable
<1>1. IInv /\ [Next]_vars =>
          [\/ reply' = "restarted"
           \/ placements' # placements
           \/ LET before == View(slots, placements, runtime)
                  after == View(slots', placements', runtime')
              IN  after # before =>
                     /\ Ready /\ flush'.pc = "idle"
                     /\ \E l \in Layers, w \in AccessAt \cap MapCells, v \in SetValues :
                            /\ after = [before EXCEPT ![l][w] = v]
                            /\ IsDirty(slots', l, ChunkAt(w))
          ]_<<slots, placements, runtime>>
    BY ViewChanges
<1>2. QED
    BY <1>1, Inductive, PTL DEF Spec, ViewStable
=============================================================================
