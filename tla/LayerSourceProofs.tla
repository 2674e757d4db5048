-------------------------- MODULE LayerSourceProofs -------------------------
(***************************************************************************)
(* Layer sources for every storage, width, height and limit of the         *)
(* integers.  First the scan of a source's metadata against the meaning of *)
(* its text, for every text and every cut of it into blocks: Tracks says   *)
(* what a scan in progress has seen, ScanStep that a byte keeps it,        *)
(* TextEnds that the terminator makes it the meaning.  Then the arithmetic *)
(* of a layout, the inductive invariant IInv of the operations, and the    *)
(* invariants and the action property it gives.                            *)
(*                                                                         *)
(* The library's induction theorems take an operator and cannot be used    *)
(* here.  Where a fact needs induction, the set of the numbers for which   *)
(* it fails has a least member (WFMin), which contradicts the step.        *)
(***************************************************************************)
EXTENDS LayerSource, TLAPS, NaturalsInduction, WellFoundedInduction

\* A set of natural numbers that is not empty has a least member.
LEMMA LeastNatural ==
    ASSUME NEW T \in SUBSET Nat, T # {}
    PROVE  \E n \in T : \A m \in T : n <= m
<1> DEFINE R == OpToRel(<, Nat)
<1>1. PICK n \in T : \A m \in T : ~ (<<m, n>> \in R)
    <2>1. IsWellFoundedOn(R, Nat)
        BY NatLessThanWellFounded
    <2>2. QED
        BY <2>1, WFMin
<1>2. ASSUME NEW m \in T PROVE n <= m
    <2>1. ~ (m < n)
        BY <1>1 DEF OpToRel
    <2>2. QED
        BY <2>1
<1>3. QED
    BY <1>2

\* Induction up to a bound.
LEMMA UpTo ==
    ASSUME NEW n \in Nat, NEW T, 0 \in T, \A k \in 1 .. n : k - 1 \in T => k \in T
    PROVE  0 .. n \subseteq T
<1> SUFFICES ASSUME (0 .. n) \ T # {} PROVE FALSE
    OBVIOUS
<1> DEFINE Left == (0 .. n) \ T
<1>1. PICK k \in Left : \A j \in Left : k <= j
    <2>1. Left \in SUBSET Nat /\ Left # {}
        OBVIOUS
    <2> HIDE DEF Left
    <2>2. QED
        BY <2>1, LeastNatural
<1>2. k \in 1 .. n /\ k - 1 \in 0 .. n /\ ~ (k <= k - 1)
    BY <1>1
<1>3. QED
    BY <1>1, <1>2

\* f lists the scans of a block, from the one it starts with.
Scanning(f, s, bytes, n) ==
    /\ f[0] = s
    /\ \A k \in 1 .. n : f[k] = ScanByte(f[k - 1], bytes[k])

\* A scan of every block exists.
LEMMA ScanningExists ==
    ASSUME NEW s, NEW bytes, NEW n \in Nat
    PROVE  \E f : Scanning(f, s, bytes, n)
<1> DEFINE T == {m \in 0 .. n : \E f : Scanning(f, s, bytes, m)}
<1>1. 0 \in T
    <2>1. Scanning([k \in 0 .. 0 |-> s], s, bytes, 0)
        BY DEF Scanning
    <2>2. QED
        BY <2>1
<1>2. ASSUME NEW m \in 1 .. n, m - 1 \in T PROVE m \in T
    <2>1. PICK f : Scanning(f, s, bytes, m - 1)
        BY <1>2
    <2> DEFINE g == [k \in 0 .. m |-> IF k = m THEN ScanByte(f[m - 1], bytes[m]) ELSE f[k]]
    <2>2. \A k \in 0 .. m - 1 : g[k] = f[k]
        OBVIOUS
    <2>3. g[m] = ScanByte(f[m - 1], bytes[m])
        OBVIOUS
    <2> HIDE DEF g
    <2>4. g[0] = s
        BY <2>1, <2>2 DEF Scanning
    <2>5. ASSUME NEW k \in 1 .. m PROVE g[k] = ScanByte(g[k - 1], bytes[k])
        <3>1. k - 1 \in 0 .. m - 1 /\ (k = m \/ k \in 1 .. m - 1) /\ (k # m => k \in 0 .. m - 1)
            OBVIOUS
        <3>2. g[k - 1] = f[k - 1]
            BY <2>2, <3>1
        <3>3. QED
            BY <2>1, <2>2, <2>3, <3>1, <3>2 DEF Scanning
    <2>6. Scanning(g, s, bytes, m)
        BY <2>4, <2>5 DEF Scanning
    <2>7. QED
        BY <2>6
<1> HIDE DEF T
<1>3. n \in T
    BY <1>1, <1>2, UpTo
<1>4. QED
    BY <1>3 DEF T

\* The scans of a block lead to one scan.
LEMMA ScanBlockScans ==
    ASSUME NEW s, NEW bytes, Len(bytes) \in Nat
    PROVE  \E f : /\ Scanning(f, s, bytes, Len(bytes))
                  /\ ScanBlock(s, bytes) = {f[Len(bytes)]}
<1> DEFINE n == Len(bytes)
           Step(g, k) == IF k = 0 THEN {s} ELSE {ScanByte(scan, bytes[k]) : scan \in g[k - 1]}
           Lists(g) == g = [k \in 0 .. n |-> Step(g, k)]
           scans == CHOOSE g : Lists(g)
<1>1. PICK f : Scanning(f, s, bytes, n)
    BY ScanningExists
<1>2. Lists([k \in 0 .. n |-> {f[k]}])
    <2> DEFINE g == [k \in 0 .. n |-> {f[k]}]
    <2>1. ASSUME NEW k \in 0 .. n PROVE {f[k]} = Step(g, k)
        <3>1. CASE k = 0
            BY <1>1, <3>1 DEF Scanning
        <3>2. CASE k # 0
            <4>1. k \in 1 .. n /\ k - 1 \in 0 .. n
                BY <3>2
            <4>2. g[k - 1] = {f[k - 1]}
                BY <4>1
            <4> HIDE DEF g
            <4>3. QED
                BY <1>1, <3>2, <4>1, <4>2 DEF Scanning
        <3>3. QED
            BY <3>1, <3>2
    <2>2. g = [k \in 0 .. n |-> Step(g, k)]
        BY <2>1, Zenon
    <2>3. QED
        BY <2>2
<1>3. Lists(scans)
    BY <1>2, Zenon
<1>4. ScanBlock(s, bytes) = scans[n]
    BY Zenon DEF ScanBlock
<1>5. ASSUME NEW k \in 0 .. n PROVE scans[k] = Step(scans, k)
    BY <1>3, Zenon
<1> HIDE DEF scans, Lists
<1> DEFINE T == {m \in 0 .. n : scans[m] = {f[m]}}
<1>6. 0 \in T
    <2>1. 0 \in 0 .. n
        OBVIOUS
    <2>2. scans[0] = {s}
        BY <1>5, <2>1
    <2>3. QED
        BY <1>1, <2>1, <2>2 DEF Scanning
<1>7. ASSUME NEW m \in 1 .. n, m - 1 \in T PROVE m \in T
    <2>1. m \in 0 .. n /\ m # 0
        OBVIOUS
    <2>2. scans[m] = {ScanByte(scan, bytes[m]) : scan \in scans[m - 1]}
        BY <1>5, <2>1
    <2>3. scans[m - 1] = {f[m - 1]}
        BY <1>7
    <2>4. scans[m] = {f[m]}
        BY <1>1, <2>2, <2>3 DEF Scanning
    <2>5. QED
        BY <2>1, <2>4
<1>8. n \in T
    <2>1. n \in Nat
        OBVIOUS
    <2> HIDE DEF T, n
    <2>2. QED
        BY <1>6, <1>7, <2>1, UpTo
<1>9. QED
    BY <1>1, <1>4, <1>8

Dimensions == (-(WideMax \div 2) - 1 .. WideMax \div 2) \ {0}

\* The bytes of the format are different bytes, and no numbers.
LEMMA MarksDiffer ==
    /\ LF \notin {Space, Colon, Dot, V, D, P} /\ Space \notin {Colon, Dot, V, D, P}
    /\ Colon \notin {Dot, V, D, P} /\ Dot \notin {V, D, P} /\ V \notin {D, P} /\ D # P
    /\ {LF, Space, Colon, Dot, V, D, P} \subseteq Bytes
    /\ \A b \in Bytes : b \in Int <=> b \notin Marks
<1>1. \A i, j \in 1 .. 7 :
          <<LF, Space, Colon, Dot, V, D, P>>[i] = <<LF, Space, Colon, Dot, V, D, P>>[j] => i = j
    BY FormatAssumption DEF IsInjective
<1>2. /\ 1 \in 1 .. 7 /\ 2 \in 1 .. 7 /\ 3 \in 1 .. 7 /\ 4 \in 1 .. 7 /\ 5 \in 1 .. 7
      /\ 6 \in 1 .. 7 /\ 7 \in 1 .. 7
    OBVIOUS
<1>3. LF \notin {Space, Colon, Dot, V, D, P}
    BY <1>1, <1>2
<1>4. Space \notin {Colon, Dot, V, D, P}
    BY <1>1, <1>2
<1>5. Colon \notin {Dot, V, D, P} /\ Dot \notin {V, D, P}
    BY <1>1, <1>2
<1>6. V \notin {D, P} /\ D # P
    BY <1>1, <1>2
<1>7. QED
    BY <1>3, <1>4, <1>5, <1>6, FormatAssumption, OperationAssumption DEF Marks

Signed == -(WideMax \div 2) - 1 .. WideMax \div 2

\* The middle of the unsigned range.
LEMMA Middle ==
    /\ WideMax \div 2 \in Nat /\ WideMax = 2 * (WideMax \div 2) + 1
    /\ Uint32Max <= WideMax \div 2 /\ Uint32Max \in Nat \ {0}
    /\ CoordMin .. CoordMax \subseteq Signed
<1>1. WideMax \in Nat /\ WideMax % 2 = 1 /\ Uint32Max \in Nat \ {0}
      /\ (Uint32Max + 1) * Uint32Max <= WideMax
    BY FormatAssumption, OperationAssumption, StorageAssumption
<1>2. WideMax \div 2 \in Nat /\ WideMax = 2 * (WideMax \div 2) + 1
    BY <1>1
<1>3. 2 * Uint32Max <= (Uint32Max + 1) * Uint32Max
    BY <1>1
<1>4. Uint32Max <= WideMax \div 2
    BY <1>1, <1>2, <1>3
<1>5. QED
    BY <1>1, <1>2, <1>4, FormatAssumption DEF Signed

\* static_cast<std::int64_t>: what fits is kept, the rest turns negative, and
\* nothing but a negative number comes back as another one.
LEMMA AsSignedKeeps ==
    ASSUME NEW n \in Int, n <= WideMax, -(WideMax \div 2) - 1 <= n
    PROVE  /\ AsSigned(n) \in Signed
           /\ n <= WideMax \div 2 => AsSigned(n) = n
           /\ n > WideMax \div 2 => AsSigned(n) < 0
           /\ 0 <= n => AsUnsigned(AsSigned(n)) = n
BY Middle DEF AsSigned, AsUnsigned, Signed

\* The two numbers of a payload, and what separates them.
Written(payload, separator, least) ==
    /\ Len(payload) = 3 /\ payload[2] = separator
    /\ \A j \in {1, 3} : payload[j] \notin Marks /\ payload[j] \in least .. WideMax

\* A payload is written as one pair, or as none.
LEMMA WrittenIs ==
    ASSUME NEW payload, NEW separator, NEW least
    PROVE  /\ Written(payload, separator, least) =>
                  WrittenPairs(payload, separator, least) = {<<payload[1], payload[3]>>}
           /\ ~ Written(payload, separator, least) => WrittenPairs(payload, separator, least) = {}
BY DEF Written, WrittenPairs

\* An integer token by itself.
LEMMA ParseIntIs ==
    ASSUME NEW text \in Seq(Bytes), NEW negative \in BOOLEAN
    PROVE  LET least == IF negative THEN -(WideMax \div 2) - 1 ELSE 0
           IN  /\ Len(text) = 1 /\ text[1] \notin Marks /\ text[1] \in least .. WideMax =>
                      ParseInt(text, negative) = {AsSigned(text[1])}
               /\ ~ (Len(text) = 1 /\ text[1] \notin Marks /\ text[1] \in least .. WideMax) =>
                      ParseInt(text, negative) = {}
<1> DEFINE least == IF negative THEN -(WideMax \div 2) - 1 ELSE 0
           Good(m) == /\ Len(text) = 1 /\ m \notin Marks
                      /\ m <= WideMax
                      /\ m < 0 => negative /\ -m <= WideMax \div 2 + 1
<1>1. ParseInt(text, negative) = {AsSigned(n) : n \in {m \in Range(text) : Good(m)}}
    BY DEF ParseInt
<1>2. Len(text) # 1 => ParseInt(text, negative) = {}
    BY <1>1
<1>3. Len(text) = 1 => Range(text) = {text[1]} /\ text[1] \in Bytes
    <2>1. SUFFICES ASSUME Len(text) = 1 PROVE Range(text) = {text[1]} /\ text[1] \in Bytes
        OBVIOUS
    <2>2. DOMAIN text = {1}
        BY <2>1
    <2>3. Range(text) = {text[1]}
        <3>1. Range(text) = {text[k] : k \in {1}}
            BY <2>2, Zenon DEF Range
        <3>2. QED
            BY <3>1
    <2>4. text[1] \in Bytes
        BY <2>1, SMTT(30)
    <2>5. QED
        BY <2>3, <2>4
<1>4. ASSUME Len(text) = 1
      PROVE  Good(text[1]) <=> text[1] \notin Marks /\ text[1] \in least .. WideMax
    <2>1. text[1] \notin Marks => text[1] \in Int
        BY <1>3, <1>4, MarksDiffer
    <2>2. WideMax \in Int /\ WideMax \div 2 \in Int
        BY Middle
    <2>3. CASE negative = TRUE
        BY <1>4, <2>1, <2>2, <2>3
    <2>4. CASE negative = FALSE
        BY <1>4, <2>1, <2>2, <2>4
    <2>5. QED
        BY <2>3, <2>4
<1> HIDE DEF Good, least
<1>5. CASE Len(text) = 1 /\ Good(text[1])
    <2>1. {m \in Range(text) : Good(m)} = {text[1]}
        BY <1>3, <1>5
    <2>2. QED
        BY <1>1, <1>4, <1>5, <2>1 DEF least
<1>6. CASE Len(text) = 1 /\ ~ Good(text[1])
    <2>1. {m \in Range(text) : Good(m)} = {}
        BY <1>3, <1>6
    <2>2. QED
        BY <1>1, <1>4, <1>6, <2>1 DEF least
<1>7. QED
    BY <1>2, <1>5, <1>6 DEF least

\* parse_two_ints finds the two numbers where they are written, and has them as
\* signed ones.
LEMMA ParsePairIs ==
    ASSUME NEW payload \in Seq(Bytes), NEW separator \in Marks, NEW negative \in BOOLEAN
    PROVE  LET least == IF negative THEN -(WideMax \div 2) - 1 ELSE 0
           IN  /\ Written(payload, separator, least) =>
                      ParsePair(payload, separator, negative) =
                          {<<AsSigned(payload[1]), AsSigned(payload[3])>>}
               /\ ~ Written(payload, separator, least) =>
                      ParsePair(payload, separator, negative) = {}
<1> DEFINE least == IF negative THEN -(WideMax \div 2) - 1 ELSE 0
           First == {j \in DOMAIN payload :
                        payload[j] = separator /\ \A k \in 1 .. j - 1 : payload[k] # separator}
           Left(i) == SubSeq(payload, 1, i - 1)
           Right(i) == SubSeq(payload, i + 1, Len(payload))
           Pairs(i) == ParseInt(Left(i), negative) \X ParseInt(Right(i), negative)
<1>1. ParsePair(payload, separator, negative) = UNION {Pairs(i) : i \in First}
    BY DEF ParsePair
<1>2. Len(payload) \in Nat
    OBVIOUS
<1>0. First \subseteq 1 .. Len(payload)
    OBVIOUS
<1>3. ASSUME NEW i \in First
      PROVE  /\ Left(i) \in Seq(Bytes) /\ Len(Left(i)) = i - 1
             /\ Right(i) \in Seq(Bytes) /\ Len(Right(i)) = Len(payload) - i
             /\ i = 2 /\ Len(payload) = 3 => Left(i)[1] = payload[1] /\ Right(i)[1] = payload[3]
    BY <1>0, <1>2
<1>4. ASSUME NEW i \in First, Pairs(i) # {}
      PROVE  i = 2 /\ Written(payload, separator, least)
    <2>1. ParseInt(Left(i), negative) # {} /\ ParseInt(Right(i), negative) # {}
        BY <1>4
    <2> HIDE DEF Left, Right, First
    <2>2. /\ Len(Left(i)) = 1 /\ Left(i)[1] \notin Marks /\ Left(i)[1] \in least .. WideMax
          /\ Len(Right(i)) = 1 /\ Right(i)[1] \notin Marks /\ Right(i)[1] \in least .. WideMax
        BY <1>3, <2>1, ParseIntIs
    <2>3. i = 2 /\ Len(payload) = 3
        <3>1. i \in 1 .. Len(payload) /\ i - 1 = 1 /\ Len(payload) - i = 1
            BY <1>0, <1>2, <1>3, <2>2
        <3>2. QED
            BY <1>2, <3>1
    <2>4. payload[2] = separator
        BY <2>3 DEF First
    <2>5. QED
        BY <1>3, <2>2, <2>3, <2>4 DEF Written
<1>5. CASE Written(payload, separator, least)
    <2>1. /\ Len(payload) = 3 /\ payload[2] = separator /\ payload[1] # separator
          /\ payload[1] \notin Marks /\ payload[1] \in least .. WideMax
          /\ payload[3] \notin Marks /\ payload[3] \in least .. WideMax
        BY <1>5 DEF Written
    <2>2. 2 \in First
        BY <2>1
    <2> HIDE DEF Left, Right, First
    <2>3. /\ ParseInt(Left(2), negative) = {AsSigned(payload[1])}
          /\ ParseInt(Right(2), negative) = {AsSigned(payload[3])}
        <3>1. /\ Left(2) \in Seq(Bytes) /\ Len(Left(2)) = 2 - 1 /\ Left(2)[1] = payload[1]
              /\ Right(2) \in Seq(Bytes) /\ Len(Right(2)) = 3 - 2 /\ Right(2)[1] = payload[3]
            BY <1>3, <2>1, <2>2
        <3>2. QED
            BY <2>1, <3>1, ParseIntIs
    <2>4. Pairs(2) = {<<AsSigned(payload[1]), AsSigned(payload[3])>>}
        BY <2>3
    <2> HIDE DEF Pairs, least
    <2>5. \A i \in First : Pairs(i) # {} => i = 2
        BY <1>4
    <2>6. UNION {Pairs(i) : i \in First} = Pairs(2)
        BY <2>2, <2>5
    <2>7. QED
        BY <1>1, <1>5, <2>4, <2>6 DEF least
<1>6. CASE ~ Written(payload, separator, least)
    <2> HIDE DEF Left, Right, First, Pairs, least
    <2>1. UNION {Pairs(i) : i \in First} = {}
        BY <1>4, <1>6
    <2>2. QED
        BY <1>1, <1>6, <2>1 DEF least
<1>7. QED
    BY <1>5, <1>6

Records == [version    : BOOLEAN,
            dimensions : {<<>>} \cup (Dimensions \X Dimensions),
            position   : {<<>>} \cup ((CoordMin .. CoordMax) \X (CoordMin .. CoordMax))]

Scans == [offset : Nat, newline : BOOLEAN, ended : BOOLEAN,
          error : FormatErrors \cup {"none"},
          line : {"start", "key", "unknown", "record"}, key : Keys \cup {Space},
          colon : BOOLEAN, payload : Seq(Bytes), core : Records]

\* A key has been read where the line says so.
Keyed(s) == s.line \in {"key", "record"} => s.key \in Keys

\* What a pair of numbers in a payload is, typed.
LEMMA PairTyped ==
    ASSUME NEW payload \in Seq(Bytes), NEW separator \in Marks, NEW negative \in BOOLEAN
    PROVE  \/ ParsePair(payload, separator, negative) = {}
           \/ \E d \in Signed \X Signed : ParsePair(payload, separator, negative) = {d}
<1> DEFINE least == IF negative THEN -(WideMax \div 2) - 1 ELSE 0
<1>1. CASE Written(payload, separator, least)
    <2>1. payload[1] \in least .. WideMax /\ payload[3] \in least .. WideMax
        BY <1>1 DEF Written
    <2>2. ASSUME NEW n \in least .. WideMax PROVE AsSigned(n) \in Signed
        <3>1. n \in Int /\ n <= WideMax /\ -(WideMax \div 2) - 1 <= n
            BY Middle
        <3>2. QED
            BY <3>1, AsSignedKeeps
    <2>3. <<AsSigned(payload[1]), AsSigned(payload[3])>> \in Signed \X Signed
        BY <2>1, <2>2
    <2>4. QED
        BY <1>1, <2>3, ParsePairIs
<1>2. CASE ~ Written(payload, separator, least)
    BY <1>2, ParsePairIs
<1>3. QED
    BY <1>1, <1>2

\* The first error of a scan stays.
LEMMA ErrorTyped ==
    ASSUME NEW s \in Scans, NEW error \in FormatErrors
    PROVE  /\ RecordError(s, error) \in Scans
           /\ \E e \in FormatErrors : RecordError(s, error) = [s EXCEPT !.error = e]
           /\ s.error # "none" => RecordError(s, error) = s
           /\ s.error = "none" => RecordError(s, error) = [s EXCEPT !.error = error]
<1>1. CASE s.error = "none"
    BY <1>1 DEF RecordError, Scans
<1>2. CASE s.error # "none"
    <2>1. s.error \in FormatErrors /\ [s EXCEPT !.error = s.error] = s
        BY <1>2 DEF Scans
    <2>2. QED
        BY <1>2, <2>1 DEF RecordError
<1>3. QED
    BY <1>1, <1>2

\* Every outcome of a record is an error, or one more part of the core.
LEMMA LineSaysTyped ==
    ASSUME NEW s \in Scans, Keyed(s)
    PROVE  \E error \in FormatErrors \cup {"none"}, core \in Records :
               /\ LineSays(s) = [s EXCEPT !.error = error, !.core = core]
               /\ s.error # "none" => error = s.error
<1> DEFINE Says(t) == \E error \in FormatErrors \cup {"none"}, core \in Records :
                          /\ t = [s EXCEPT !.error = error, !.core = core]
                          /\ s.error # "none" => error = s.error
<1>1. s.error \in FormatErrors \cup {"none"} /\ s.core \in Records /\ s.payload \in Seq(Bytes)
    BY DEF Scans
<1>2. Says(s)
    <2>1. s = [s EXCEPT !.error = s.error, !.core = s.core]
        BY DEF Scans
    <2>2. QED
        BY <1>1, <2>1
<1>3. ASSUME NEW e \in FormatErrors PROVE Says(RecordError(s, e))
    <2>1. [s EXCEPT !.error = e] = [s EXCEPT !.error = e, !.core = s.core]
        BY DEF Scans
    <2>2. CASE s.error = "none"
        <3>1. RecordError(s, e) = [s EXCEPT !.error = e, !.core = s.core]
            BY <2>1, <2>2, ErrorTyped
        <3>2. e \in FormatErrors \cup {"none"}
            OBVIOUS
        <3>3. QED
            BY <1>1, <2>2, <3>1, <3>2
    <2>3. CASE s.error # "none"
        <3>1. RecordError(s, e) = s
            BY <2>3, ErrorTyped
        <3> HIDE DEF Says
        <3>2. QED
            BY <1>2, <3>1
    <2>4. QED
        BY <2>2, <2>3
<1>4. ASSUME NEW c \in Records PROVE Says([s EXCEPT !.core = c])
    <2>1. [s EXCEPT !.core = c] = [s EXCEPT !.error = s.error, !.core = c]
        BY DEF Scans
    <2>2. QED
        BY <1>1, <2>1
<1> HIDE DEF Says
<1>5. /\ "MalformedMetadata" \in FormatErrors /\ "UnsupportedVersion" \in FormatErrors
      /\ "ZeroDimension" \in FormatErrors /\ "Overflow" \in FormatErrors
    BY DEF FormatErrors
<1>6. Dot \in Marks /\ Space \in Marks
    BY DEF Marks
<1>7. Says(VersionLine(s))
    <2>1. [s.core EXCEPT !.version = TRUE] \in Records
        BY <1>1 DEF Records
    <2>2. [s EXCEPT !.core.version = TRUE] = [s EXCEPT !.core = [s.core EXCEPT !.version = TRUE]]
        BY DEF Scans, Records
    <2>3. QED
        BY <1>3, <1>4, <1>5, <2>1, <2>2 DEF VersionLine
<1>8. Says(DimensionsLine(s))
    <2> DEFINE pair == ParsePair(s.payload, Space, FALSE)
               d == CHOOSE d \in pair : TRUE
    <2>1. ASSUME pair # {}, ~ (0 \in {d[1], d[2]})
          PROVE  [s.core EXCEPT !.dimensions = d] \in Records
        <3>1. PICK c \in Signed \X Signed : pair = {c}
            BY <1>1, <1>6, <2>1, PairTyped
        <3>2. d \in Signed \X Signed
            BY <3>1
        <3> HIDE DEF d, pair
        <3>3. d \in Dimensions \X Dimensions
            BY <2>1, <3>2 DEF Dimensions, Signed
        <3>4. QED
            BY <1>1, <3>3 DEF Records
    <2> HIDE DEF d, pair
    <2>2. [s EXCEPT !.core.dimensions = d] = [s EXCEPT !.core = [s.core EXCEPT !.dimensions = d]]
        BY DEF Scans, Records
    <2>3. DimensionsLine(s)
              \in {RecordError(s, "MalformedMetadata"), RecordError(s, "ZeroDimension")}
          \/ /\ pair # {} /\ ~ (0 \in {d[1], d[2]})
             /\ DimensionsLine(s) = [s EXCEPT !.core.dimensions = d]
        BY DEF DimensionsLine, d, pair
    <2>4. QED
        BY <1>3, <1>4, <1>5, <2>1, <2>2, <2>3
<1>9. Says(PositionLine(s))
    <2> DEFINE pair == ParsePair(s.payload, Space, TRUE)
               p == CHOOSE p \in pair : TRUE
               Wide == \E i \in 1 .. 2 : p[i] < CoordMin \/ p[i] > CoordMax
    <2>1. ASSUME pair # {}, ~ Wide
          PROVE  [s.core EXCEPT !.position = p] \in Records
        <3>1. PICK c \in Signed \X Signed : pair = {c}
            BY <1>1, <1>6, <2>1, PairTyped
        <3>2. p \in Signed \X Signed
            BY <3>1
        <3> HIDE DEF p, pair
        <3>3. p[1] \in Int /\ p[2] \in Int /\ p = <<p[1], p[2]>> /\ CoordMin \in Int
                  /\ CoordMax \in Int
            BY <3>2, FormatAssumption, Middle DEF Signed
        <3>4. p[1] \in CoordMin .. CoordMax /\ p[2] \in CoordMin .. CoordMax
            BY <2>1, <3>3
        <3>5. p \in (CoordMin .. CoordMax) \X (CoordMin .. CoordMax)
            BY <3>3, <3>4
        <3>6. QED
            BY <1>1, <3>5 DEF Records
    <2> HIDE DEF p, pair
    <2>2. [s EXCEPT !.core.position = p] = [s EXCEPT !.core = [s.core EXCEPT !.position = p]]
        BY DEF Scans, Records
    <2>3. PositionLine(s) \in {RecordError(s, "MalformedMetadata"), RecordError(s, "Overflow")}
          \/ /\ pair # {} /\ ~ Wide
             /\ PositionLine(s) = [s EXCEPT !.core.position = p]
        BY DEF PositionLine, p, pair
    <2> HIDE DEF Wide
    <2>4. QED
        BY <1>3, <1>4, <1>5, <2>1, <2>2, <2>3
<1>10. LineSays(s) \in {s, RecordError(s, "MalformedMetadata"), VersionLine(s), DimensionsLine(s),
                        PositionLine(s)}
    <2>1. s.line \in {"start", "key", "unknown", "record"} /\ (s.line = "record" => s.key \in Keys)
        BY DEF Scans, Keyed
    <2>2. CASE s.line \in {"start", "key"}
        BY <2>2 DEF LineSays
    <2>3. CASE s.line = "unknown"
        BY <2>3 DEF LineSays
    <2>4. CASE s.line = "record"
        BY <2>1, <2>4, MarksDiffer DEF LineSays, Keys
    <2>5. QED
        BY <2>1, <2>2, <2>3, <2>4
<1>11. QED
    <2>1. Says(LineSays(s))
        BY <1>2, <1>3, <1>5, <1>7, <1>8, <1>9, <1>10
    <2>2. QED
        BY <2>1 DEF Says

\* What the scan of one byte keeps: the types of the state, the one error that
\* came first, and the count of the bytes it has seen.
LEMMA InLineTyped ==
    ASSUME NEW s \in Scans, Keyed(s), NEW b \in Bytes
    PROVE  /\ InLine(s, b) \in Scans /\ Keyed(InLine(s, b))
           /\ InLine(s, b).offset = s.offset /\ InLine(s, b).newline = s.newline
           /\ InLine(s, b).ended = s.ended
           /\ s.error # "none" => InLine(s, b).error = s.error
<1> DEFINE Good(t) == /\ t \in Scans /\ Keyed(t)
                      /\ t.offset = s.offset /\ t.newline = s.newline /\ t.ended = s.ended
                      /\ s.error # "none" => t.error = s.error
<1>1. ASSUME NEW error \in FormatErrors PROVE Good(SkipRest(RecordError(s, error)))
    <2>1. PICK e \in FormatErrors : /\ RecordError(s, error) = [s EXCEPT !.error = e]
                                    /\ s.error # "none" => e = s.error
        <3>1. CASE s.error = "none"
            BY <3>1, ErrorTyped
        <3>2. CASE s.error # "none"
            <4>1. s.error \in FormatErrors /\ RecordError(s, error) = s
                      /\ s = [s EXCEPT !.error = s.error]
                BY <3>2, ErrorTyped DEF Scans
            <4>2. QED
                BY <4>1
        <3>3. QED
            BY <3>1, <3>2
    <2>2. QED
        BY <2>1 DEF SkipRest, Scans, Keyed
<1>2. "DuplicateRecord" \in FormatErrors /\ "MalformedMetadata" \in FormatErrors
    BY DEF FormatErrors
<1>3. CASE s.line = "start" /\ b \in Keys
    <2>1. InLine(s, b) = [s EXCEPT !.key = b, !.line = "key"]
        BY <1>3 DEF InLine
    <2>2. QED
        BY <1>3, <2>1 DEF Scans, Keyed
<1>4. CASE s.line = "start" /\ b \notin Keys
    <2>1. InLine(s, b) = [s EXCEPT !.colon = (b = Colon), !.line = "unknown"]
        BY <1>4 DEF InLine
    <2>2. QED
        BY <1>4, <2>1 DEF Scans, Keyed
<1>5. CASE s.line = "key"
    <2>1. InLine(s, b) = KeyDecided(s, b)
        BY <1>5 DEF InLine
    <2>2. CASE b # Colon
        <3>1. InLine(s, b) = [s EXCEPT !.line = "unknown", !.colon = FALSE]
            BY <2>1, <2>2 DEF KeyDecided
        <3>2. QED
            BY <1>5, <3>1 DEF Scans, Keyed
    <2>3. CASE b = Colon /\ Seen(s.core, s.key)
        BY <1>1, <1>2, <2>1, <2>3 DEF KeyDecided
    <2>4. CASE b = Colon /\ ~ Seen(s.core, s.key)
        <3>1. InLine(s, b) = [s EXCEPT !.line = "record", !.payload = <<>>]
            BY <2>1, <2>4 DEF KeyDecided
        <3>2. <<>> \in Seq(Bytes)
            OBVIOUS
        <3>3. QED
            BY <1>5, <3>1, <3>2 DEF Scans, Keyed
    <2>5. QED
        BY <2>2, <2>3, <2>4
<1>6. CASE s.line = "unknown"
    <2>1. InLine(s, b) = [s EXCEPT !.colon = @ \/ b = Colon]
        BY <1>6 DEF InLine
    <2>2. QED
        BY <1>6, <2>1 DEF Scans, Keyed
<1>7. CASE s.line = "record"
    <2>1. InLine(s, b) = PayloadGrows(s, b)
        BY <1>7 DEF InLine
    <2>2. CASE Len(s.payload) = MaxPayload
        BY <1>1, <1>2, <2>1, <2>2 DEF PayloadGrows
    <2>3. CASE Len(s.payload) # MaxPayload
        <3>1. InLine(s, b) = [s EXCEPT !.payload = Append(@, b)]
            BY <2>1, <2>3 DEF PayloadGrows
        <3>2. Append(s.payload, b) \in Seq(Bytes)
            BY DEF Scans
        <3>3. QED
            BY <1>7, <3>1, <3>2 DEF Scans, Keyed
    <2>4. QED
        BY <2>2, <2>3
<1>8. QED
    BY <1>3, <1>4, <1>5, <1>6, <1>7 DEF Scans

\* A byte before the terminator is counted, and noted if it is an LF.
Counted(s, b) == [s EXCEPT !.offset = @ + 1, !.newline = (b = LF)]

\* A byte leaves a scan a scan: it counts, ends the scan only as the second LF,
\* and does not change an error.
LEMMA ScanByteTyped ==
    ASSUME NEW s \in Scans, Keyed(s), NEW b \in Bytes
    PROVE  /\ ScanByte(s, b) \in Scans /\ Keyed(ScanByte(s, b))
           /\ s.ended => ScanByte(s, b) = s
           /\ ~ s.ended => /\ ScanByte(s, b).offset = s.offset + 1
                           /\ ScanByte(s, b).newline = (b = LF)
                           /\ ScanByte(s, b).ended <=> s.newline /\ b = LF
           /\ s.error # "none" => ScanByte(s, b).error = s.error
<1> DEFINE t == Counted(s, b)
<1>1. /\ t \in Scans /\ Keyed(t) /\ t.offset = s.offset + 1 /\ t.newline = (b = LF)
      /\ t.ended = s.ended /\ t.error = s.error
    <2>1. s.offset + 1 \in Nat /\ (b = LF) \in BOOLEAN
        BY DEF Scans
    <2>2. t = [s EXCEPT !.offset = s.offset + 1, !.newline = (b = LF)]
        BY DEF Counted
    <2> HIDE DEF t
    <2>3. QED
        BY <2>1, <2>2 DEF Scans, Keyed
<1>2. CASE s.ended
    BY <1>2 DEF ScanByte
<1>3. CASE ~ s.ended /\ b # LF
    <2>1. ScanByte(s, b) = InLine(t, b)
        BY <1>3 DEF ScanByte, Counted
    <2> HIDE DEF t
    <2>2. QED
        BY <1>1, <1>3, <2>1, InLineTyped
<1>4. CASE ~ s.ended /\ b = LF /\ s.newline
    <2>1. ScanByte(s, b) = [t EXCEPT !.ended = TRUE]
        BY <1>4 DEF ScanByte, Counted
    <2> HIDE DEF t
    <2>2. QED
        BY <1>1, <1>4, <2>1 DEF Scans, Keyed
<1>5. CASE ~ s.ended /\ b = LF /\ ~ s.newline
    <2>1. ScanByte(s, b) = LineFinished(t)
        BY <1>5 DEF ScanByte, Counted
    <2> HIDE DEF t
    <2>2. PICK error \in FormatErrors \cup {"none"}, core \in Records :
              /\ LineSays(t) = [t EXCEPT !.error = error, !.core = core]
              /\ t.error # "none" => error = t.error
        BY <1>1, LineSaysTyped
    <2>3. ScanByte(s, b)
              = [t EXCEPT !.error = error, !.core = core, !.line = "start", !.key = Space,
                                     !.colon = FALSE, !.payload = <<>>]
        BY <1>1, <2>1, <2>2 DEF LineFinished, Scans
    <2>4. <<>> \in Seq(Bytes)
        OBVIOUS
    <2>5. QED
        BY <1>1, <1>5, <2>2, <2>3, <2>4, ZenonT(60) DEF Scans, Keyed
<1>6. QED
    BY <1>2, <1>3, <1>4, <1>5

\* The line that begins at i ends before the LF after e.
EndsAfter(t, i, e) ==
    /\ e \in i - 1 .. Len(t) - 1 /\ t[e + 1] = LF
    /\ \A j \in i .. e : t[j] # LF

\* The line that begins at i is what comes before the next LF.
LEMMA LineIs ==
    ASSUME NEW t \in Seq(Bytes), NEW i \in Nat \ {0}, NEW e \in Int, EndsAfter(t, i, e)
    PROVE  LineAt(t, i) = SubSeq(t, i, e)
<1> DEFINE First(j) == t[j] = LF /\ \A k \in i .. j - 1 : t[k] # LF
           n == CHOOSE j \in i .. Len(t) : First(j)
<1>1. e \in i - 1 .. Len(t) - 1 /\ t[e + 1] = LF /\ \A j \in i .. e : t[j] # LF
    BY DEF EndsAfter
<1>2. Len(t) \in Nat
    OBVIOUS
<1>3. e + 1 \in i .. Len(t) /\ First(e + 1)
    BY <1>1, <1>2
<1>4. ASSUME NEW j \in i .. Len(t), First(j) PROVE j = e + 1
    <2>1. ~ (j < e + 1)
        BY <1>1, <1>2, <1>4
    <2>2. ~ (e + 1 < j)
        BY <1>1, <1>2, <1>4
    <2>3. QED
        BY <1>1, <1>2, <2>1, <2>2
<1>5. n = e + 1
    <2> HIDE DEF First
    <2>1. n \in i .. Len(t) /\ First(n)
        BY <1>3
    <2>2. QED
        BY <1>4, <2>1
<1>6. LineAt(t, i) = SubSeq(t, i, n - 1)
    BY DEF LineAt
<1> HIDE DEF n
<1>7. n - 1 = e
    BY <1>5
<1>8. QED
    BY <1>6, <1>7

\* A line that begins before an LF ends.
LEMMA LineEnds ==
    ASSUME NEW t \in Seq(Bytes), NEW i \in Nat \ {0}, NEW k \in i .. Len(t), t[k] = LF
    PROVE  \E e \in i - 1 .. k - 1 : EndsAfter(t, i, e)
<1> DEFINE T == {j \in i .. k : t[j] = LF}
<1>1. k \in T /\ T \in SUBSET Nat
    OBVIOUS
<1>2. PICK j \in T : \A m \in T : j <= m
    <2> HIDE DEF T
    <2>1. QED
        BY <1>1, LeastNatural
<1>3. Len(t) \in Nat /\ j \in i .. k /\ t[j] = LF
    BY <1>2
<1>4. \A m \in i .. j - 1 : t[m] # LF
    <2>1. SUFFICES ASSUME NEW m \in i .. j - 1, t[m] = LF PROVE FALSE
        OBVIOUS
    <2>2. m \in T /\ ~ (j <= m)
        BY <1>3, <2>1
    <2>3. QED
        BY <1>2, <2>2
<1>5. j - 1 \in i - 1 .. k - 1 /\ j - 1 \in i - 1 .. Len(t) - 1 /\ (j - 1) + 1 = j
    BY <1>3
<1>6. QED
    BY <1>3, <1>4, <1>5 DEF EndsAfter

\* What is wrong with a line, given the lines before it.
Verdict(t, S, line) ==
    IF ~ IsRecord(line)
    THEN IF \E j \in DOMAIN line : line[j] = Colon THEN "none" ELSE "MalformedMetadata"
    ELSE IF GoodLines(t, S, line[1]) # {} THEN "DuplicateRecord"
    ELSE PayloadError(line[1], Payload(line))

VerdictAt(t, i) == Verdict(t, LineStarts(t, i - 1), LineAt(t, i))

\* What is wrong with a line depends on the lines before it alone.
LEMMA LineErrorIs ==
    ASSUME NEW t, NEW end \in Nat, NEW i \in LineStarts(t, end)
    PROVE  LineError(t, LineStarts(t, end), i) = VerdictAt(t, i)
<1>1. {j \in LineStarts(t, end) : j < i} = LineStarts(t, i - 1)
    BY DEF LineStarts
<1>2. QED
    BY <1>1, Zenon DEF LineError, VerdictAt, Verdict

\* No terminator within the first k bytes.
Unended(t, k) == \A i \in 1 .. k - 1 : ~ (t[i] = LF /\ t[i + 1] = LF)

\* The line at hand after k bytes begins at b.
Begun(t, k, b) ==
    /\ b \in 1 .. k + 1
    /\ b = 1 \/ t[b - 1] = LF
    /\ \A j \in b .. k : t[j] # LF

\* What the records of the lines in S said.
CoreSays(core, t, S) ==
    /\ core.version <=> GoodLines(t, S, V) # {}
    /\ core.dimensions = <<>> <=> GoodLines(t, S, D) = {}
    /\ core.position = <<>> <=> GoodLines(t, S, P) = {}
    /\ \A i \in GoodLines(t, S, D) :
           core.dimensions = <<AsSigned(LineAt(t, i)[3]), AsSigned(LineAt(t, i)[5])>>
    /\ \A i \in GoodLines(t, S, P) :
           core.position = <<AsSigned(LineAt(t, i)[3]), AsSigned(LineAt(t, i)[5])>>

\* What the state of the line says of its bytes, from b to k.
LineSoFar(s, t, k, b) ==
    /\ k = b - 1 => s.line = "start"
    /\ k = b /\ t[b] \in Keys => s.line = "key" /\ s.key = t[b]
    /\ k > b /\ t[b] \in Keys /\ t[b + 1] = Colon =>
           /\ s.line = "record" /\ s.key = t[b] /\ ~ Seen(s.core, t[b])
           /\ s.payload = SubSeq(t, b + 2, k) /\ Len(s.payload) <= MaxPayload
    /\ k >= b /\ ~ (t[b] \in Keys /\ (k > b => t[b + 1] = Colon)) =>
           s.line = "unknown" /\ (s.colon <=> \E j \in b .. k : t[j] = Colon)

AllGood(t, end) == \A j \in LineStarts(t, end) : VerdictAt(t, j) = "none"

\* The first line with an error has been met, and this is its error.
Failed(t, k, error) ==
    \E i \in LineStarts(t, k) :
        /\ AllGood(t, i - 1)
        /\ \A e \in Int : EndsAfter(t, i, e) =>
               Verdict(t, LineStarts(t, i - 1), SubSeq(t, i, e)) = error

Going(s, t, k) ==
    \E b \in 1 .. k + 1 :
        /\ Begun(t, k, b) /\ AllGood(t, b - 1)
        /\ CoreSays(s.core, t, LineStarts(t, b - 1))
        /\ LineSoFar(s, t, k, b)

\* A scan that has not ended knows what the lines of the text say so far.
Tracks(s, t) ==
    /\ s \in Scans /\ Keyed(s) /\ ~ s.ended
    /\ s.offset \in 0 .. Len(t)
    /\ Unended(t, s.offset)
    /\ s.newline <=> s.offset > 0 /\ t[s.offset] = LF
    /\ Ends(t) # {} =>
           IF s.error = "none" THEN Going(s, t, s.offset) ELSE Failed(t, s.offset, s.error)

\* A position record with a number beyond the signed range, which the parser
\* takes for a negative one (the run layer_wide), is not in the metadata.
Unwrapped(t) ==
    Ends(t) # {} =>
        \A i \in 1 .. End(t), j \in {2, 4} :
            t[i] \in Int /\ t[i] > WideMax \div 2 =>
                ~ (i > j /\ t[i - j] = P /\ t[i - j + 1] = Colon)

\* The terminator is the first pair of LFs.
LEMMA EndIs ==
    ASSUME NEW t \in Seq(Bytes), Ends(t) # {}
    PROVE  /\ End(t) \in Ends(t) /\ End(t) \in 1 .. Len(t) - 1
           /\ t[End(t)] = LF /\ t[End(t) + 1] = LF
           /\ \A i \in Ends(t) : End(t) <= i
           /\ \A k \in Nat : Unended(t, k) => k <= End(t)
           /\ \A k \in Ends(t) : Unended(t, k) => End(t) = k
<1>1. Ends(t) \in SUBSET Nat /\ Len(t) \in Nat
    BY DEF Ends
<1>2. \E i \in Ends(t) : \A j \in Ends(t) : i <= j
    BY <1>1, LeastNatural
<1>3. End(t) \in Ends(t) /\ \A i \in Ends(t) : End(t) <= i
    BY <1>2 DEF End
<1>4. End(t) \in 1 .. Len(t) - 1 /\ t[End(t)] = LF /\ t[End(t) + 1] = LF
    BY <1>3 DEF Ends
<1>5. ASSUME NEW k \in Nat, Unended(t, k) PROVE k <= End(t)
    <2>1. ~ (End(t) \in 1 .. k - 1)
        BY <1>4, <1>5 DEF Unended
    <2>2. QED
        BY <1>1, <1>4, <2>1
<1>6. ASSUME NEW k \in Ends(t), Unended(t, k) PROVE End(t) = k
    <2>1. k \in Nat
        BY <1>1
    <2>2. End(t) <= k /\ k <= End(t)
        BY <1>3, <1>5, <1>6, <2>1
    <2>3. QED
        BY <1>1, <1>4, <2>1, <2>2
<1>7. QED
    BY <1>3, <1>4, <1>5, <1>6

\* The numbers of a payload decide what is wrong with it.
LEMMA PayloadErrorIs ==
    ASSUME NEW payload, NEW key \in Keys
    PROVE  LET separator == IF key = V THEN Dot ELSE Space
               least == IF key = P THEN -(WideMax \div 2) - 1 ELSE 0
               a == payload[1]
               c == payload[3]
           IN  /\ ~ Written(payload, separator, least) =>
                      PayloadError(key, payload) = "MalformedMetadata"
               /\ Written(payload, separator, least) =>
                      PayloadError(key, payload) =
                          IF key = V THEN IF a = 1 /\ c = 0 THEN "none" ELSE "UnsupportedVersion"
                          ELSE IF key = D THEN IF 0 \in {a, c} THEN "ZeroDimension" ELSE "none"
                          ELSE IF {a, c} \subseteq CoordMin .. CoordMax THEN "none" ELSE "Overflow"
<1> DEFINE separator == IF key = V THEN Dot ELSE Space
           least == IF key = P THEN -(WideMax \div 2) - 1 ELSE 0
           pairs == IF key = V THEN WrittenPairs(payload, Dot, 0)
                    ELSE WrittenPairs(payload, Space, IF key = D THEN 0 ELSE -(WideMax \div 2) - 1)
           pair == CHOOSE q \in pairs : TRUE
<1>1. pairs = WrittenPairs(payload, separator, least)
    BY MarksDiffer DEF Keys
<1>2. PayloadError(key, payload) =
          IF pairs = {} THEN "MalformedMetadata"
          ELSE IF key = V THEN IF pair = <<1, 0>> THEN "none" ELSE "UnsupportedVersion"
          ELSE IF key = D THEN IF 0 \in {pair[1], pair[2]} THEN "ZeroDimension" ELSE "none"
          ELSE IF {pair[1], pair[2]} \subseteq CoordMin .. CoordMax THEN "none" ELSE "Overflow"
    BY Zenon DEF PayloadError
<1>3. CASE ~ Written(payload, separator, least)
    <2> HIDE DEF pairs, separator, least
    <2>1. pairs = {}
        BY <1>1, <1>3, WrittenIs
    <2>2. QED
        BY <1>2, <1>3, <2>1 DEF separator, least
<1>4. CASE Written(payload, separator, least)
    <2>1. pairs = {<<payload[1], payload[3]>>}
        <3> HIDE DEF pairs, separator, least
        <3>1. QED
            BY <1>1, <1>4, WrittenIs
    <2>2. pairs # {} /\ pair = <<payload[1], payload[3]>>
        <3> HIDE DEF pairs
        <3>1. QED
            BY <2>1
    <2> HIDE DEF pairs, pair, separator, least
    <2>3. pair[1] = payload[1] /\ pair[2] = payload[3]
        BY <2>2
    <2>4. pair = <<1, 0>> <=> payload[1] = 1 /\ payload[3] = 0
        BY <2>2
    <2>5. QED
        BY <1>2, <1>4, <2>2, <2>3, <2>4 DEF separator, least
<1>5. QED
    BY <1>3, <1>4

\* A payload without a number beyond the signed range.
Narrow(payload) ==
    \A j \in {1, 3} : j <= Len(payload) /\ payload[j] \in Int => payload[j] <= WideMax \div 2

\* What a record adds to the core.
Added(core, key, payload) ==
    LET pair == <<AsSigned(payload[1]), AsSigned(payload[3])>>
    IN  IF key = V THEN [core EXCEPT !.version = TRUE]
        ELSE IF key = D THEN [core EXCEPT !.dimensions = pair]
        ELSE [core EXCEPT !.position = pair]

\* The reader's tests of a payload for 0 and 1 survive the cast to int64.
LEMMA AsSignedTests ==
    ASSUME NEW n \in Int, n \in 0 .. WideMax
    PROVE  /\ AsSigned(n) = 1 <=> n = 1
           /\ AsSigned(n) = 0 <=> n = 0
BY Middle DEF AsSigned

\* A record says what its payload means.
LEMMA RecordSays ==
    ASSUME NEW s \in Scans, s.error = "none", s.line = "record", s.key \in Keys,
           s.key = P => Narrow(s.payload)
    PROVE  LineSays(s) =
               IF PayloadError(s.key, s.payload) = "none"
               THEN [s EXCEPT !.core = Added(s.core, s.key, s.payload)]
               ELSE [s EXCEPT !.error = PayloadError(s.key, s.payload)]
<1> DEFINE payload == s.payload
           a == payload[1]
           c == payload[3]
           pair == <<AsSigned(a), AsSigned(c)>>
<1>1. payload \in Seq(Bytes) /\ s.core \in Records /\ Dot \in Marks /\ Space \in Marks
    BY DEF Scans, Marks
<1>2. ASSUME NEW e \in FormatErrors PROVE RecordError(s, e) = [s EXCEPT !.error = e]
    BY DEF RecordError
<1>3. /\ "MalformedMetadata" \in FormatErrors /\ "UnsupportedVersion" \in FormatErrors
      /\ "ZeroDimension" \in FormatErrors /\ "Overflow" \in FormatErrors
      /\ "none" \notin FormatErrors
    BY DEF FormatErrors
<1>4. CASE s.key = V
    <2>1. LineSays(s) = VersionLine(s)
        BY <1>4, MarksDiffer DEF LineSays
    <2> DEFINE found == ParsePair(payload, Dot, FALSE)
    <2>2. VersionLine(s) = IF found = {} THEN RecordError(s, "MalformedMetadata")
                           ELSE IF found # {<<1, 0>>} THEN RecordError(s, "UnsupportedVersion")
                           ELSE [s EXCEPT !.core.version = TRUE]
        BY DEF VersionLine
    <2>3. CASE ~ Written(payload, Dot, 0)
        <3>1. found = {}
            BY <1>1, <2>3, ParsePairIs
        <3>2. PayloadError(s.key, payload) = "MalformedMetadata"
            BY <1>4, <2>3, PayloadErrorIs, MarksDiffer
        <3> HIDE DEF found, payload
        <3>3. QED
            BY <1>2, <1>3, <2>1, <2>2, <3>1, <3>2 DEF payload
    <2>4. CASE Written(payload, Dot, 0)
        <3>1. found = {pair}
            BY <1>1, <2>4, ParsePairIs
        <3>2. PayloadError(s.key, payload) =
                  IF a = 1 /\ c = 0 THEN "none" ELSE "UnsupportedVersion"
            BY <1>4, <2>4, PayloadErrorIs, MarksDiffer
        <3>3. a \in 0 .. WideMax /\ c \in 0 .. WideMax /\ a \in Int /\ c \in Int
            BY <2>4, Middle DEF Written
        <3> HIDE DEF found, payload, a, c
        <3>4. pair = <<1, 0>> <=> a = 1 /\ c = 0
            BY <3>3, AsSignedTests
        <3>5. found # {} /\ (found = {<<1, 0>>} <=> a = 1 /\ c = 0)
            BY <3>1, <3>4
        <3>6. CASE a = 1 /\ c = 0
            <4>1. LineSays(s) = [s EXCEPT !.core.version = TRUE]
                BY <2>1, <2>2, <3>5, <3>6
            <4>2. Added(s.core, s.key, payload) = [s.core EXCEPT !.version = TRUE]
                BY <1>4 DEF Added
            <4>3. QED
                BY <1>1, <3>2, <3>6, <4>1, <4>2 DEF payload, Scans, Records
        <3>7. CASE ~ (a = 1 /\ c = 0)
            BY <1>2, <1>3, <2>1, <2>2, <3>2, <3>5, <3>7 DEF payload
        <3>8. QED
            BY <3>6, <3>7
    <2>5. QED
        BY <2>3, <2>4
<1>5. CASE s.key = D
    <2>1. LineSays(s) = DimensionsLine(s)
        BY <1>5, MarksDiffer DEF LineSays
    <2> DEFINE found == ParsePair(payload, Space, FALSE)
               d == CHOOSE d \in found : TRUE
    <2>2. DimensionsLine(s) = IF found = {} THEN RecordError(s, "MalformedMetadata")
                              ELSE IF 0 \in {d[1], d[2]} THEN RecordError(s, "ZeroDimension")
                              ELSE [s EXCEPT !.core.dimensions = d]
        BY DEF DimensionsLine
    <2>3. CASE ~ Written(payload, Space, 0)
        <3>1. found = {}
            BY <1>1, <2>3, ParsePairIs
        <3>2. PayloadError(s.key, payload) = "MalformedMetadata"
            BY <1>5, <2>3, PayloadErrorIs, MarksDiffer
        <3> HIDE DEF found, payload, d
        <3>3. QED
            BY <1>2, <1>3, <2>1, <2>2, <3>1, <3>2 DEF payload
    <2>4. CASE Written(payload, Space, 0)
        <3>1. found = {pair}
            BY <1>1, <2>4, ParsePairIs
        <3>2. PayloadError(s.key, payload) =
                  IF 0 \in {a, c} THEN "ZeroDimension" ELSE "none"
            BY <1>5, <2>4, PayloadErrorIs, MarksDiffer
        <3>3. a \in 0 .. WideMax /\ c \in 0 .. WideMax /\ a \in Int /\ c \in Int
            BY <2>4, Middle DEF Written
        <3>4. found # {} /\ d = pair
            <4> HIDE DEF found, pair
            <4>1. QED
                BY <3>1
        <3> HIDE DEF found, payload, a, c, d
        <3>5. d[1] = AsSigned(a) /\ d[2] = AsSigned(c)
            BY <3>4
        <3>6. 0 \in {d[1], d[2]} <=> 0 \in {a, c}
            BY <3>3, <3>5, AsSignedTests
        <3>7. CASE 0 \notin {a, c}
            <4>1. LineSays(s) = [s EXCEPT !.core.dimensions = d]
                BY <2>1, <2>2, <3>4, <3>6, <3>7
            <4>2. Added(s.core, s.key, payload) = [s.core EXCEPT !.dimensions = d]
                BY <1>5, <3>4, MarksDiffer DEF Added, a, c
            <4>3. QED
                BY <1>1, <3>2, <3>7, <4>1, <4>2 DEF payload, Scans, Records
        <3>8. CASE 0 \in {a, c}
            BY <1>2, <1>3, <2>1, <2>2, <3>2, <3>4, <3>6, <3>8 DEF payload
        <3>9. QED
            BY <3>7, <3>8
    <2>5. QED
        BY <2>3, <2>4
<1>6. CASE s.key = P
    <2>1. LineSays(s) = PositionLine(s)
        BY <1>6, MarksDiffer DEF LineSays
    <2> DEFINE found == ParsePair(payload, Space, TRUE)
               p == CHOOSE p \in found : TRUE
               Wide == \E i \in 1 .. 2 : p[i] < CoordMin \/ p[i] > CoordMax
               least == -(WideMax \div 2) - 1
    <2>2. PositionLine(s) = IF found = {} THEN RecordError(s, "MalformedMetadata")
                            ELSE IF Wide THEN RecordError(s, "Overflow")
                            ELSE [s EXCEPT !.core.position = p]
        BY DEF PositionLine
    <2>3. CASE ~ Written(payload, Space, least)
        <3>1. found = {}
            BY <1>1, <2>3, ParsePairIs
        <3>2. PayloadError(s.key, payload) = "MalformedMetadata"
            BY <1>6, <2>3, PayloadErrorIs, MarksDiffer
        <3> HIDE DEF found, payload, p, Wide
        <3>3. QED
            BY <1>2, <1>3, <2>1, <2>2, <3>1, <3>2 DEF payload
    <2>4. CASE Written(payload, Space, least)
        <3>1. found = {pair}
            BY <1>1, <2>4, ParsePairIs
        <3>2. PayloadError(s.key, payload) =
                  IF {a, c} \subseteq CoordMin .. CoordMax THEN "none" ELSE "Overflow"
            BY <1>6, <2>4, PayloadErrorIs, MarksDiffer
        <3>3. Len(payload) = 3 /\ a \in least .. WideMax /\ c \in least .. WideMax
                  /\ a \in Int /\ c \in Int
            BY <2>4, Middle DEF Written
        <3>4. a <= WideMax \div 2 /\ c <= WideMax \div 2
            BY <1>6, <3>3 DEF Narrow
        <3>5. found # {} /\ p = pair
            <4> HIDE DEF found, pair
            <4>1. QED
                BY <3>1
        <3> HIDE DEF found, payload, a, c, p
        <3>6. AsSigned(a) = a /\ AsSigned(c) = c
            BY <3>3, <3>4, Middle, AsSignedKeeps
        <3>7. p[1] = a /\ p[2] = c
            BY <3>5, <3>6
        <3>8. CoordMin \in Int /\ CoordMax \in Int
            BY FormatAssumption
        <3>9. Wide <=> ~ ({a, c} \subseteq CoordMin .. CoordMax)
            BY <3>3, <3>7, <3>8
        <3> HIDE DEF Wide
        <3>10. CASE ~ Wide
            <4>1. LineSays(s) = [s EXCEPT !.core.position = p]
                BY <2>1, <2>2, <3>5, <3>10
            <4>2. Added(s.core, s.key, payload) = [s.core EXCEPT !.position = p]
                BY <1>6, <3>5, MarksDiffer DEF Added, a, c
            <4>3. QED
                BY <1>1, <3>2, <3>9, <3>10, <4>1, <4>2 DEF payload, Scans, Records
        <3>11. CASE Wide
            BY <1>2, <1>3, <2>1, <2>2, <3>2, <3>5, <3>9, <3>11 DEF payload
        <3>12. QED
            BY <3>10, <3>11
    <2>5. QED
        BY <2>3, <2>4
<1>7. QED
    BY <1>4, <1>5, <1>6 DEF Keys

\* What a line of a text is made of.
LEMMA LineFacts ==
    ASSUME NEW t \in Seq(Bytes), NEW b \in Nat \ {0}, NEW e \in b - 1 .. Len(t)
    PROVE  LET line == SubSeq(t, b, e)
           IN  /\ line \in Seq(Bytes) /\ Len(line) = e - b + 1
               /\ e >= b => line[1] = t[b]
               /\ e >= b + 2 => line[3] = t[b + 2]
               /\ e >= b + 4 => line[5] = t[b + 4]
               /\ IsRecord(line) <=> e >= b + 1 /\ t[b] \in Keys /\ t[b + 1] = Colon
               /\ IsRecord(line) => /\ Payload(line) = SubSeq(t, b + 2, e)
                                    /\ Len(Payload(line)) = e - b - 1
               /\ (\E j \in DOMAIN line : line[j] = Colon) <=> \E j \in b .. e : t[j] = Colon
<1> DEFINE line == SubSeq(t, b, e)
<1>1. Len(t) \in Nat /\ e \in Int /\ b \in Nat /\ b >= 1 /\ e - b + 1 \in Nat
    OBVIOUS
<1>2. ASSUME NEW i \in b .. e PROVE t[i] \in Bytes
    BY <1>1
<1>3. line = [j \in 1 .. e - b + 1 |-> t[b + j - 1]]
    BY <1>1
<1>4. line \in Seq(Bytes) /\ Len(line) = e - b + 1 /\ DOMAIN line = 1 .. e - b + 1
    <2>1. ASSUME NEW j \in 1 .. e - b + 1 PROVE t[b + j - 1] \in Bytes
        <3>1. b + j - 1 \in b .. e
            BY <1>1
        <3>2. QED
            BY <1>2, <3>1
    <2>2. QED
        BY <1>1, <1>3, <2>1
<1>5. ASSUME NEW j \in 1 .. e - b + 1 PROVE line[j] = t[b + j - 1]
    BY <1>3
<1> HIDE DEF line
<1>6. e >= b => line[1] = t[b]
    <2>1. e >= b => 1 \in 1 .. e - b + 1 /\ b + 1 - 1 = b
        BY <1>1
    <2>2. QED
        BY <1>5, <2>1
<1>7. e >= b + 1 => line[2] = t[b + 1]
    <2>1. e >= b + 1 => 2 \in 1 .. e - b + 1 /\ b + 2 - 1 = b + 1
        BY <1>1
    <2>2. QED
        BY <1>5, <2>1
<1>8. e >= b + 2 => line[3] = t[b + 2]
    <2>1. e >= b + 2 => 3 \in 1 .. e - b + 1 /\ b + 3 - 1 = b + 2
        BY <1>1
    <2>2. QED
        BY <1>5, <2>1
<1>9. e >= b + 4 => line[5] = t[b + 4]
    <2>1. e >= b + 4 => 5 \in 1 .. e - b + 1 /\ b + 5 - 1 = b + 4
        BY <1>1
    <2>2. QED
        BY <1>5, <2>1
<1>10. IsRecord(line) <=> e >= b + 1 /\ t[b] \in Keys /\ t[b + 1] = Colon
    <2>1. Len(line) >= 2 <=> e >= b + 1
        BY <1>1, <1>4
    <2>2. e >= b + 1 => e >= b
        BY <1>1
    <2>3. QED
        BY <1>6, <1>7, <2>1, <2>2 DEF IsRecord
<1>11. ASSUME IsRecord(line)
       PROVE  Payload(line) = SubSeq(t, b + 2, e) /\ Len(Payload(line)) = e - b - 1
    <2>1. e >= b + 1 /\ e - b + 1 >= 2
        BY <1>1, <1>10, <1>11
    <2>2. Payload(line) = SubSeq(line, 3, e - b + 1)
        BY <1>4 DEF Payload
    <2>3. /\ SubSeq(line, 3, e - b + 1) = [j \in 1 .. (e - b + 1) - 3 + 1 |-> line[3 + j - 1]]
          /\ Len(SubSeq(line, 3, e - b + 1)) = (e - b + 1) - 3 + 1
        BY <1>1, <1>4, <2>1
    <2>4. (e - b + 1) - 3 + 1 = e - b - 1 /\ e - (b + 2) + 1 = e - b - 1
        BY <1>1
    <2>5. SubSeq(t, b + 2, e) = [j \in 1 .. e - (b + 2) + 1 |-> t[(b + 2) + j - 1]]
        BY <1>1, <2>1
    <2>6. ASSUME NEW j \in 1 .. e - b - 1 PROVE line[3 + j - 1] = t[(b + 2) + j - 1]
        <3>1. /\ 3 + j - 1 \in 1 .. e - b + 1
              /\ b + (3 + j - 1) - 1 = (b + 2) + j - 1
            BY <1>1
        <3>2. QED
            BY <1>5, <3>1
    <2>7. QED
        BY <2>2, <2>3, <2>4, <2>5, <2>6
<1>12. (\E j \in DOMAIN line : line[j] = Colon) <=> \E j \in b .. e : t[j] = Colon
    <2>1. ASSUME NEW j \in DOMAIN line, line[j] = Colon PROVE \E i \in b .. e : t[i] = Colon
        <3>1. j \in 1 .. e - b + 1 /\ b + j - 1 \in b .. e
            BY <1>1, <1>4
        <3>2. t[b + j - 1] = Colon
            BY <1>5, <2>1, <3>1
        <3>3. QED
            BY <3>1, <3>2
    <2>2. ASSUME NEW i \in b .. e, t[i] = Colon PROVE \E j \in DOMAIN line : line[j] = Colon
        <3>1. i - b + 1 \in 1 .. e - b + 1 /\ b + (i - b + 1) - 1 = i
            BY <1>1
        <3>2. line[i - b + 1] = Colon
            BY <1>5, <2>2, <3>1
        <3>3. QED
            BY <1>4, <3>1, <3>2
    <2>3. QED
        BY <2>1, <2>2
<1>13. QED
    BY <1>4, <1>6, <1>8, <1>9, <1>10, <1>11, <1>12 DEF line

\* The reader has seen a key exactly when a line of the text gives it.
LEMMA SeenSays ==
    ASSUME NEW core \in Records, NEW t, NEW S, CoreSays(core, t, S), NEW key \in Keys
    PROVE  Seen(core, key) <=> GoodLines(t, S, key) # {}
BY MarksDiffer DEF CoreSays, Seen, Keys

\* The starts of lines up to an LF: those before the line it ends, and that line's.
LEMMA LineStartsGrow ==
    ASSUME NEW t, NEW k \in Nat, NEW b, Begun(t, k, b)
    PROVE  LineStarts(t, k + 1) = LineStarts(t, b - 1) \cup {b}
<1>1. b \in 1 .. k + 1 /\ (b = 1 \/ t[b - 1] = LF) /\ \A j \in b .. k : t[j] # LF
    BY DEF Begun
<1>2. ASSUME NEW i \in LineStarts(t, k + 1) PROVE i \in LineStarts(t, b - 1) \cup {b}
    <2>1. i \in 1 .. k + 1 /\ (i = 1 \/ t[i - 1] = LF)
        BY DEF LineStarts
    <2>2. ~ (i > b)
        BY <1>1, <2>1
    <2>3. i \in 1 .. b - 1 \/ i = b
        BY <1>1, <2>1, <2>2
    <2>4. QED
        BY <2>1, <2>3 DEF LineStarts
<1>3. ASSUME NEW i \in LineStarts(t, b - 1) PROVE i \in LineStarts(t, k + 1)
    BY <1>1 DEF LineStarts
<1>4. b \in LineStarts(t, k + 1)
    BY <1>1 DEF LineStarts
<1>5. QED
    BY <1>2, <1>3, <1>4

\* An error that the bytes so far of a line decide.
LEMMA FailsHere ==
    ASSUME NEW t \in Seq(Bytes), NEW k \in 1 .. Len(t), NEW b, Begun(t, k, b), b <= k,
           AllGood(t, b - 1), NEW error,
           \A e \in Int : EndsAfter(t, b, e) /\ e >= k =>
               Verdict(t, LineStarts(t, b - 1), SubSeq(t, b, e)) = error
    PROVE  Failed(t, k, error)
<1>1. b \in 1 .. k + 1 /\ (b = 1 \/ t[b - 1] = LF) /\ \A j \in b .. k : t[j] # LF
    BY DEF Begun
<1>2. b \in LineStarts(t, k)
    BY <1>1 DEF LineStarts
<1>3. ASSUME NEW e \in Int, EndsAfter(t, b, e) PROVE e >= k
    <2>1. e \in b - 1 .. Len(t) - 1 /\ t[e + 1] = LF /\ Len(t) \in Nat
        BY <1>3 DEF EndsAfter
    <2>2. ~ (e + 1 \in b .. k)
        BY <1>1, <2>1
    <2>3. QED
        BY <1>1, <2>1, <2>2
<1>4. QED
    BY <1>2, <1>3 DEF Failed

\* A text that is wrong so far stays wrong.
LEMMA FailedStays ==
    ASSUME NEW t, NEW k \in Nat, NEW error, Failed(t, k, error)
    PROVE  Failed(t, k + 1, error)
<1>1. LineStarts(t, k) \subseteq LineStarts(t, k + 1)
    BY DEF LineStarts
<1>2. QED
    BY <1>1 DEF Failed

\* A new scan has seen the beginning of every text.
LEMMA TrackStart ==
    ASSUME NEW t \in Seq(Bytes)
    PROVE  Tracks(ScanStart, t)
<1>1. /\ ScanStart.offset = 0 /\ ~ ScanStart.newline /\ ~ ScanStart.ended
      /\ ScanStart.error = "none" /\ ScanStart.line = "start" /\ ScanStart.core = NoRecords
    BY DEF ScanStart
<1>2. ScanStart \in Scans /\ Keyed(ScanStart)
    <2>1. NoRecords \in Records
        BY DEF NoRecords, Records
    <2>2. <<>> \in Seq(Bytes)
        OBVIOUS
    <2>3. QED
        BY <2>1, <2>2 DEF ScanStart, Scans, Keyed
<1>3. Unended(t, 0) /\ 0 \in 0 .. Len(t)
    BY DEF Unended
<1>4. Going(ScanStart, t, 0)
    <2>1. LineStarts(t, 0) = {} /\ 1 - 1 = 0
        BY DEF LineStarts
    <2>2. GoodLines(t, {}, V) = {} /\ GoodLines(t, {}, D) = {} /\ GoodLines(t, {}, P) = {}
        BY DEF GoodLines
    <2>3. CoreSays(NoRecords, t, {})
        BY <2>2 DEF CoreSays, NoRecords
    <2>4. AllGood(t, 0)
        BY <2>1 DEF AllGood
    <2>5. Begun(t, 0, 1)
        BY DEF Begun
    <2>6. LineSoFar(ScanStart, t, 0, 1)
        BY <1>1 DEF LineSoFar
    <2>7. QED
        BY <1>1, <2>1, <2>3, <2>4, <2>5, <2>6, SMTT(30) DEF Going
<1>5. QED
    BY <1>1, <1>2, <1>3, <1>4 DEF Tracks

\* A repeated record is an error as soon as its colon has been read.
LEMMA RepeatedRecord ==
    ASSUME NEW t \in Seq(Bytes), NEW b \in Nat \ {0}, NEW k \in Nat, k = b + 1, k <= Len(t),
           Begun(t, k, b), AllGood(t, b - 1), t[b] \in Keys, t[k] = Colon,
           GoodLines(t, LineStarts(t, b - 1), t[b]) # {}
    PROVE  Failed(t, k, "DuplicateRecord")
<1>1. ASSUME NEW e \in Int, EndsAfter(t, b, e), e >= k
      PROVE  Verdict(t, LineStarts(t, b - 1), SubSeq(t, b, e)) = "DuplicateRecord"
    <2> DEFINE line == SubSeq(t, b, e)
    <2>1. e \in b - 1 .. Len(t) /\ e >= b + 1 /\ e >= b /\ Len(t) \in Nat
        BY <1>1 DEF EndsAfter
    <2>2. IsRecord(line) /\ line[1] = t[b]
        BY <2>1, LineFacts
    <2> HIDE DEF line
    <2>3. QED
        BY <2>2 DEF Verdict, line
<1>2. k \in 1 .. Len(t) /\ b <= k
    OBVIOUS
<1>3. QED
    BY <1>1, <1>2, FailsHere

\* A payload too long to be kept is an error before its line has ended.
LEMMA LongPayload ==
    ASSUME NEW t \in Seq(Bytes), NEW b \in Nat \ {0}, NEW k \in Nat, k > b + 1 + MaxPayload,
               k <= Len(t),
           Begun(t, k, b), AllGood(t, b - 1), t[b] \in Keys, t[b + 1] = Colon,
           GoodLines(t, LineStarts(t, b - 1), t[b]) = {}
    PROVE  Failed(t, k, "MalformedMetadata")
<1>0. MaxPayload \in Nat /\ MaxPayload >= 3
    BY FormatAssumption
<1>1. ASSUME NEW e \in Int, EndsAfter(t, b, e), e >= k
      PROVE  Verdict(t, LineStarts(t, b - 1), SubSeq(t, b, e)) = "MalformedMetadata"
    <2> DEFINE line == SubSeq(t, b, e)
    <2>1. e \in b - 1 .. Len(t) /\ e >= b + 1 /\ e >= b /\ e - b - 1 # 3 /\ Len(t) \in Nat
        BY <1>0, <1>1 DEF EndsAfter
    <2>2. IsRecord(line) /\ line[1] = t[b] /\ Len(Payload(line)) = e - b - 1
        BY <2>1, LineFacts
    <2> HIDE DEF line
    <2>3. PayloadError(t[b], Payload(line)) = "MalformedMetadata"
        BY <2>1, <2>2, PayloadErrorIs DEF Written
    <2>4. QED
        BY <2>2, <2>3 DEF Verdict, line
<1>2. k \in 1 .. Len(t) /\ b <= k
    BY <1>0
<1>3. QED
    BY <1>1, <1>2, FailsHere

\* One more byte of a line: the state of the line says so, or the error it
\* makes is the one its line will have.
LEMMA LineGoes ==
    ASSUME NEW t \in Seq(Bytes), NEW s \in Scans, Keyed(s), s.error = "none",
           NEW k \in Nat, k < Len(t), NEW b, Begun(t, k, b), AllGood(t, b - 1),
           CoreSays(s.core, t, LineStarts(t, b - 1)), LineSoFar(s, t, k, b),
           t[k + 1] # LF
    PROVE  LET u == InLine(s, t[k + 1])
           IN  \/ /\ u.error = "none" /\ u.core = s.core
                  /\ Begun(t, k + 1, b) /\ LineSoFar(u, t, k + 1, b)
               \/ u.error # "none" /\ Failed(t, k + 1, u.error)
<1> DEFINE c == t[k + 1]
           u == InLine(s, c)
<1>1. /\ b \in 1 .. k + 1 /\ (b = 1 \/ t[b - 1] = LF) /\ \A j \in b .. k : t[j] # LF
      /\ Len(t) \in Nat /\ k + 1 \in 1 .. Len(t) /\ b \in Nat \ {0}
    BY DEF Begun
<1>2. Begun(t, k + 1, b)
    BY <1>1 DEF Begun
<1>3. c \in Bytes /\ Colon \notin Keys
    BY <1>1, MarksDiffer DEF Keys
<1>4. ASSUME NEW e \in {"DuplicateRecord", "MalformedMetadata"}, u = SkipRest(RecordError(s, e))
      PROVE  u.error = e /\ e # "none"
    <2>1. RecordError(s, e) = [s EXCEPT !.error = e]
        BY DEF RecordError
    <2>2. QED
        BY <1>4, <2>1 DEF SkipRest, Scans
<1>5. CASE k = b - 1
    <2>1. s.line = "start" /\ k + 1 = b
        BY <1>1, <1>5 DEF LineSoFar
    <2>2. CASE c \in Keys
        <3>1. u = [s EXCEPT !.key = c, !.line = "key"]
            BY <2>1, <2>2 DEF InLine
        <3>2. u.error = "none" /\ u.core = s.core /\ u.line = "key" /\ u.key = c
            BY <3>1 DEF Scans
        <3> HIDE DEF u
        <3>3. LineSoFar(u, t, k + 1, b)
            BY <1>1, <2>1, <2>2, <3>2 DEF LineSoFar
        <3>4. QED
            BY <1>2, <3>2, <3>3 DEF u
    <2>3. CASE c \notin Keys
        <3>1. u = [s EXCEPT !.colon = (c = Colon), !.line = "unknown"]
            BY <2>1, <2>3 DEF InLine
        <3>2. u.error = "none" /\ u.core = s.core /\ u.line = "unknown" /\ (u.colon <=> c = Colon)
            BY <3>1 DEF Scans
        <3> HIDE DEF u
        <3>3. LineSoFar(u, t, k + 1, b)
            BY <1>1, <2>1, <2>3, <3>2 DEF LineSoFar
        <3>4. QED
            BY <1>2, <3>2, <3>3 DEF u
    <2>4. QED
        BY <2>2, <2>3
<1>6. CASE k = b /\ t[b] \in Keys
    <2>1. s.line = "key" /\ s.key = t[b]
        BY <1>1, <1>6 DEF LineSoFar
    <2>2. u = KeyDecided(s, c)
        BY <2>1 DEF InLine
    <2>3. CASE c # Colon
        <3>1. u = [s EXCEPT !.line = "unknown", !.colon = FALSE]
            BY <2>2, <2>3 DEF KeyDecided
        <3>2. u.error = "none" /\ u.core = s.core /\ u.line = "unknown" /\ u.colon = FALSE
            BY <3>1 DEF Scans
        <3> HIDE DEF u
        <3>3. ~ \E j \in b .. k + 1 : t[j] = Colon
            <4>1. \A j \in b .. k + 1 : j = b \/ j = k + 1
                BY <1>1, <1>6
            <4>2. t[b] # Colon
                BY <1>3, <1>6
            <4>3. QED
                BY <2>3, <4>1, <4>2
        <3>4. k + 1 > b /\ k + 1 # b /\ k + 1 # b - 1 /\ b + 1 = k + 1
            BY <1>1, <1>6
        <3>5. LineSoFar(u, t, k + 1, b)
            BY <2>3, <3>2, <3>3, <3>4 DEF LineSoFar
        <3>6. QED
            BY <1>2, <3>2, <3>5 DEF u
    <2>4. CASE c = Colon /\ Seen(s.core, s.key)
        <3>1. u = SkipRest(RecordError(s, "DuplicateRecord"))
            BY <2>2, <2>4 DEF KeyDecided
        <3>2. u.error = "DuplicateRecord" /\ "DuplicateRecord" # "none"
            BY <1>4, <3>1
        <3>3. GoodLines(t, LineStarts(t, b - 1), t[b]) # {}
            BY <1>6, <2>1, <2>4, SeenSays DEF Scans
        <3> HIDE DEF u
        <3>4. k + 1 \in Nat /\ k + 1 = b + 1 /\ k + 1 <= Len(t)
            BY <1>1, <1>6
        <3>5. Failed(t, k + 1, "DuplicateRecord")
            BY <1>1, <1>2, <1>6, <2>4, <3>3, <3>4, RepeatedRecord
        <3>6. QED
            BY <3>2, <3>5 DEF u
    <2>5. CASE c = Colon /\ ~ Seen(s.core, s.key)
        <3>1. u = [s EXCEPT !.line = "record", !.payload = <<>>]
            BY <2>2, <2>5 DEF KeyDecided
        <3>2. /\ u.error = "none" /\ u.core = s.core /\ u.line = "record" /\ u.payload = <<>>
              /\ u.key = t[b]
            BY <2>1, <3>1 DEF Scans
        <3> HIDE DEF u
        <3>3. k + 1 > b /\ k + 1 # b /\ k + 1 # b - 1 /\ b + 1 = k + 1
            BY <1>1, <1>6
        <3>4. <<>> = SubSeq(t, b + 2, k + 1) /\ Len(<<>>) <= MaxPayload
            <4>1. b + 2 > k + 1
                BY <1>1, <1>6
            <4>2. Len(<<>>) = 0 /\ MaxPayload \in Nat
                BY FormatAssumption
            <4>3. SubSeq(t, b + 2, k + 1) = <<>>
                BY <1>1, <4>1
            <4>4. Len(<<>>) <= MaxPayload
                BY <4>2
            <4>5. QED
                BY <4>3, <4>4
        <3>5. LineSoFar(u, t, k + 1, b)
            BY <1>6, <2>1, <2>5, <3>2, <3>3, <3>4 DEF LineSoFar
        <3>6. QED
            BY <1>2, <3>2, <3>5 DEF u
    <2>6. QED
        BY <2>3, <2>4, <2>5
<1>7. CASE k > b /\ t[b] \in Keys /\ t[b + 1] = Colon
    <2>1. /\ s.line = "record" /\ s.key = t[b] /\ ~ Seen(s.core, t[b])
          /\ s.payload = SubSeq(t, b + 2, k) /\ Len(s.payload) <= MaxPayload
        <3>1. k # b - 1 /\ k # b
            BY <1>1, <1>7
        <3>2. QED
            BY <1>7, <3>1 DEF LineSoFar
    <2>2. u = PayloadGrows(s, c)
        BY <2>1 DEF InLine
    <2>3. MaxPayload \in Nat /\ Len(s.payload) = k - b - 1
        BY <1>1, <1>7, <2>1, FormatAssumption, SMTT(30)
    <2>4. k + 1 > b /\ k + 1 # b /\ k + 1 # b - 1
        BY <1>1, <1>7
    <2>5. CASE Len(s.payload) = MaxPayload
        <3>1. u = SkipRest(RecordError(s, "MalformedMetadata"))
            BY <2>2, <2>5 DEF PayloadGrows
        <3>2. u.error = "MalformedMetadata" /\ "MalformedMetadata" # "none"
            BY <1>4, <3>1
        <3>3. GoodLines(t, LineStarts(t, b - 1), t[b]) = {}
            BY <1>7, <2>1, SeenSays DEF Scans
        <3> HIDE DEF u
        <3>4. k + 1 \in Nat /\ k + 1 > b + 1 + MaxPayload /\ k + 1 <= Len(t)
            BY <1>1, <2>3, <2>5
        <3>5. Failed(t, k + 1, "MalformedMetadata")
            BY <1>1, <1>2, <1>7, <3>3, <3>4, LongPayload
        <3>6. QED
            BY <3>2, <3>5 DEF u
    <2>6. CASE Len(s.payload) # MaxPayload
        <3>1. u = [s EXCEPT !.payload = Append(s.payload, c)]
            BY <2>2, <2>6 DEF PayloadGrows
        <3>2. /\ u.error = "none" /\ u.core = s.core /\ u.line = "record" /\ u.key = t[b]
              /\ u.payload = Append(s.payload, c)
            BY <2>1, <3>1 DEF Scans
        <3> HIDE DEF u
        <3>3. Append(s.payload, c) = SubSeq(t, b + 2, k + 1)
            <4>1. /\ SubSeq(t, b + 2, k) = [j \in 1 .. k - b - 1 |-> t[b + 2 + j - 1]]
                  /\ Len(SubSeq(t, b + 2, k)) = k - b - 1 /\ SubSeq(t, b + 2, k) \in Seq(Bytes)
                BY <1>1, <1>7, <2>1, <2>3 DEF Scans
            <4>2. SubSeq(t, b + 2, k + 1) = [j \in 1 .. k - b |-> t[b + 2 + j - 1]]
                <5>1. (k + 1) - (b + 2) + 1 = k - b
                    BY <1>1
                <5>2. QED
                    BY <1>1, <5>1
            <4>3. Append(SubSeq(t, b + 2, k), c) =
                      [j \in 1 .. (k - b - 1) + 1 |-> IF j = (k - b - 1) + 1 THEN c
                          ELSE SubSeq(t, b + 2, k)[j]]
                BY <4>1
            <4>4. (k - b - 1) + 1 = k - b
                BY <1>1
            <4>5. ASSUME NEW j \in 1 .. k - b
                  PROVE  (IF j = k - b THEN c ELSE SubSeq(t, b + 2, k)[j]) = t[b + 2 + j - 1]
                <5>1. j = k - b => b + 2 + j - 1 = k + 1
                    BY <1>1
                <5>2. j # k - b => j \in 1 .. k - b - 1
                    BY <1>1
                <5>3. QED
                    BY <4>1, <5>1, <5>2
            <4>6. QED
                BY <2>1, <4>2, <4>3, <4>4, <4>5
        <3>4. Len(Append(s.payload, c)) <= MaxPayload
            <4>1. s.payload \in Seq(Bytes) /\ Len(Append(s.payload, c)) = Len(s.payload) + 1
                BY DEF Scans
            <4>2. Len(s.payload) \in Nat
                BY <4>1
            <4>3. QED
                BY <2>1, <2>3, <2>6, <4>1, <4>2
        <3>5. LineSoFar(u, t, k + 1, b)
            BY <1>7, <2>1, <2>4, <3>2, <3>3, <3>4 DEF LineSoFar
        <3>6. QED
            BY <1>2, <3>2, <3>5 DEF u
    <2>7. QED
        BY <2>5, <2>6
<1>8. CASE k >= b /\ ~ (t[b] \in Keys /\ (k > b => t[b + 1] = Colon))
    <2>1. s.line = "unknown" /\ (s.colon <=> \E j \in b .. k : t[j] = Colon)
        BY <1>8 DEF LineSoFar
    <2>2. u = [s EXCEPT !.colon = s.colon \/ c = Colon]
        BY <2>1 DEF InLine
    <2>3. /\ u.error = "none" /\ u.core = s.core /\ u.line = "unknown"
          /\ (u.colon <=> s.colon \/ c = Colon)
        BY <2>1, <2>2 DEF Scans
    <2> HIDE DEF u
    <2>4. u.colon <=> \E j \in b .. k + 1 : t[j] = Colon
        <3>1. \A j \in b .. k + 1 : j \in b .. k \/ j = k + 1
            BY <1>1
        <3>2. b .. k \subseteq b .. k + 1 /\ k + 1 \in b .. k + 1
            BY <1>1, <1>8
        <3>3. QED
            BY <2>1, <2>3, <3>1, <3>2
    <2>5. k + 1 > b /\ k + 1 # b /\ k + 1 # b - 1 /\ (k = b => b + 1 = k + 1)
        BY <1>1, <1>8
    <2>6. ~ (t[b] \in Keys /\ t[b + 1] = Colon)
        BY <1>1, <1>6, <1>8
    <2>7. LineSoFar(u, t, k + 1, b)
        BY <2>3, <2>4, <2>5, <2>6 DEF LineSoFar
    <2>8. QED
        BY <1>2, <2>3, <2>7 DEF u
<1>9. QED
    <2>1. \/ k = b - 1
          \/ k = b /\ t[b] \in Keys
          \/ k > b /\ t[b] \in Keys /\ t[b + 1] = Colon
          \/ k >= b /\ ~ (t[b] \in Keys /\ (k > b => t[b + 1] = Colon))
        <3>1. k = b - 1 \/ (k = b /\ k >= b /\ ~ (k > b)) \/ (k > b /\ k >= b)
            BY <1>1
        <3>2. QED
            BY <3>1
    <2>2. QED
        BY <1>5, <1>6, <1>7, <1>8, <2>1

\* A line among more lines is one of the good lines of a key, or not.
LEMMA GoodLinesGrow ==
    ASSUME NEW t, NEW S, NEW b, NEW key,
           IsRecord(LineAt(t, b)), LineAt(t, b)[1] = key,
           PayloadError(key, Payload(LineAt(t, b))) = "none"
    PROVE  GoodLines(t, S \cup {b}, key) = GoodLines(t, S, key) \cup {b}
BY DEF GoodLines

\* A line that is no record of a key adds no record of it.
LEMMA GoodLinesStay ==
    ASSUME NEW t, NEW S, NEW b, NEW key, ~ IsRecord(LineAt(t, b)) \/ LineAt(t, b)[1] # key
    PROVE  GoodLines(t, S \cup {b}, key) = GoodLines(t, S, key)
BY DEF GoodLines

\* A record that is good and new adds to the core what it says.
LEMMA RecordAdds ==
    ASSUME NEW t, NEW S, NEW b, NEW core \in Records, CoreSays(core, t, S), NEW key \in Keys,
           GoodLines(t, S, key) = {},
           IsRecord(LineAt(t, b)), LineAt(t, b)[1] = key, NEW payload,
           Payload(LineAt(t, b)) = payload, PayloadError(key, payload) = "none",
           LineAt(t, b)[3] = payload[1], LineAt(t, b)[5] = payload[3]
    PROVE  CoreSays(Added(core, key, payload), t, S \cup {b})
<1> DEFINE pair == <<AsSigned(payload[1]), AsSigned(payload[3])>>
           T == S \cup {b}
<1>1. GoodLines(t, T, key) = {b}
    <2>1. PayloadError(key, Payload(LineAt(t, b))) = "none"
        OBVIOUS
    <2>2. GoodLines(t, S \cup {b}, key) = GoodLines(t, S, key) \cup {b}
        BY <2>1 DEF GoodLines
    <2>3. QED
        BY <2>2
<1>2. ASSUME NEW other \in Keys, other # key PROVE GoodLines(t, T, other) = GoodLines(t, S, other)
    BY <1>2, GoodLinesStay
<1>3. pair # <<>> /\ pair = <<AsSigned(LineAt(t, b)[3]), AsSigned(LineAt(t, b)[5])>>
    OBVIOUS
<1> HIDE DEF pair, T
<1>4. CASE key = V
    <2>1. Added(core, key, payload) = [core EXCEPT !.version = TRUE]
        BY <1>4 DEF Added
    <2>2. GoodLines(t, T, D) = GoodLines(t, S, D) /\ GoodLines(t, T, P) = GoodLines(t, S, P)
        BY <1>2, <1>4, MarksDiffer DEF Keys
    <2>3. QED
        BY <1>1, <1>4, <2>1, <2>2 DEF CoreSays, Records, T
<1>5. CASE key = D
    <2>1. Added(core, key, payload) = [core EXCEPT !.dimensions = pair]
        BY <1>5, MarksDiffer DEF Added, pair
    <2>2. GoodLines(t, T, V) = GoodLines(t, S, V) /\ GoodLines(t, T, P) = GoodLines(t, S, P)
        BY <1>2, <1>5, MarksDiffer DEF Keys
    <2>3. LET new == Added(core, key, payload)
          IN  new.version = core.version /\ new.dimensions = pair /\ new.position = core.position
        BY <2>1 DEF Records
    <2>4. GoodLines(t, T, D) = {b}
        BY <1>1, <1>5
    <2>5. Added(core, key, payload).dimensions = <<>> <=> GoodLines(t, T, D) = {}
        BY <1>3, <2>3, <2>4
    <2>6. \A i \in GoodLines(t, T, D) :
              Added(core, key, payload).dimensions
                  = <<AsSigned(LineAt(t, i)[3]), AsSigned(LineAt(t, i)[5])>>
        BY <1>3, <2>3, <2>4
    <2> HIDE DEF Added
    <2>7. CoreSays(Added(core, key, payload), t, T)
        BY <2>2, <2>3, <2>5, <2>6 DEF CoreSays
    <2>8. QED
        BY <2>7 DEF T
<1>6. CASE key = P
    <2>1. Added(core, key, payload) = [core EXCEPT !.position = pair]
        BY <1>6, MarksDiffer DEF Added, pair
    <2>2. GoodLines(t, T, V) = GoodLines(t, S, V) /\ GoodLines(t, T, D) = GoodLines(t, S, D)
        BY <1>2, <1>6, MarksDiffer DEF Keys
    <2>3. LET new == Added(core, key, payload)
          IN  new.version = core.version /\ new.position = pair /\ new.dimensions = core.dimensions
        BY <2>1 DEF Records
    <2>4. GoodLines(t, T, P) = {b}
        BY <1>1, <1>6
    <2>5. Added(core, key, payload).position = <<>> <=> GoodLines(t, T, P) = {}
        BY <1>3, <2>3, <2>4
    <2>6. \A i \in GoodLines(t, T, P) :
              Added(core, key, payload).position
                  = <<AsSigned(LineAt(t, i)[3]), AsSigned(LineAt(t, i)[5])>>
        BY <1>3, <2>3, <2>4
    <2> HIDE DEF Added
    <2>7. CoreSays(Added(core, key, payload), t, T)
        BY <2>2, <2>3, <2>5, <2>6 DEF CoreSays
    <2>8. QED
        BY <2>7 DEF T
<1>7. QED
    BY <1>4, <1>5, <1>6 DEF Keys

\* A line that has ended: its error is its verdict, and a good one is in the core.
LEMMA FinishSays ==
    ASSUME NEW t \in Seq(Bytes), Ends(t) # {}, Unwrapped(t),
           NEW s \in Scans, Keyed(s), s.error = "none",
           NEW k \in Nat, k < Len(t), k <= End(t), NEW b, Begun(t, k, b), AllGood(t, b - 1),
           CoreSays(s.core, t, LineStarts(t, b - 1)), LineSoFar(s, t, k, b),
           t[k + 1] = LF, b <= k \/ k = 0
    PROVE  LET u == LineSays(s)
           IN  /\ u.error = VerdictAt(t, b)
               /\ u.error = "none" => CoreSays(u.core, t, LineStarts(t, k + 1))
<1> DEFINE line == SubSeq(t, b, k)
           S == LineStarts(t, b - 1)
           u == LineSays(s)
<1>1. /\ b \in 1 .. k + 1 /\ (b = 1 \/ t[b - 1] = LF) /\ \A j \in b .. k : t[j] # LF
      /\ Len(t) \in Nat /\ k + 1 \in 1 .. Len(t) /\ b \in Nat \ {0} /\ k \in b - 1 .. Len(t)
    BY DEF Begun
<1>2. EndsAfter(t, b, k)
    BY <1>1 DEF EndsAfter
<1>3. LineAt(t, b) = line
    BY <1>1, <1>2, LineIs
<1>4. LineStarts(t, k + 1) = S \cup {b}
    BY LineStartsGrow
<1>5. VerdictAt(t, b) = Verdict(t, S, line)
    BY <1>3 DEF VerdictAt
<1>6. /\ k >= b => line[1] = t[b]
      /\ k >= b + 2 => line[3] = t[b + 2]
      /\ k >= b + 4 => line[5] = t[b + 4]
      /\ IsRecord(line) <=> k >= b + 1 /\ t[b] \in Keys /\ t[b + 1] = Colon
      /\ IsRecord(line) => Payload(line) = SubSeq(t, b + 2, k) /\ Len(Payload(line)) = k - b - 1
      /\ (\E j \in DOMAIN line : line[j] = Colon) <=> \E j \in b .. k : t[j] = Colon
    <2>1. b \in Nat \ {0} /\ k \in b - 1 .. Len(t)
        BY <1>1
    <2>2. QED
        BY <2>1, LineFacts, ZenonT(60) DEF line
<1> HIDE DEF line, S, u
<1>7. CASE IsRecord(line)
    <2> DEFINE payload == s.payload
               key == t[b]
    <2>1. k >= b + 1 /\ t[b] \in Keys /\ t[b + 1] = Colon /\ k > b /\ k >= b
        BY <1>1, <1>6, <1>7
    <2>2. /\ s.line = "record" /\ s.key = key /\ ~ Seen(s.core, key)
          /\ payload = SubSeq(t, b + 2, k) /\ payload \in Seq(Bytes)
        BY <2>1 DEF LineSoFar, Scans
    <2>3. Payload(line) = payload /\ Len(payload) = k - b - 1
        BY <1>6, <1>7, <2>2
    <2>4. GoodLines(t, S, key) = {}
        BY <2>1, <2>2, SeenSays DEF Scans, S
    <2>5. ASSUME NEW j \in 1 .. Len(payload) PROVE payload[j] = t[b + 1 + j]
        <3>1. payload = [i \in 1 .. k - (b + 2) + 1 |-> t[b + 2 + i - 1]]
            BY <1>1, <2>1, <2>2
        <3>2. k - (b + 2) + 1 = k - b - 1 /\ b + 2 + j - 1 = b + 1 + j
            BY <1>1, <2>3
        <3> HIDE DEF payload
        <3>3. QED
            BY <2>3, <3>1, <3>2
    <2>6. key = P => Narrow(payload)
        <3>1. SUFFICES ASSUME key = P, NEW j \in {1, 3}, j <= Len(payload), payload[j] \in Int
                       PROVE  payload[j] <= WideMax \div 2
            BY DEF Narrow
        <3>2. payload[j] = t[b + 1 + j]
            <4>1. j \in 1 .. Len(payload)
                BY <2>2, <3>1
            <4>2. QED
                BY <2>5, <4>1
        <3>3. /\ b + 1 + j \in 1 .. End(t) /\ j + 1 \in {2, 4} /\ b + 1 + j > j + 1
              /\ (b + 1 + j) - (j + 1) = b
            <4>1. End(t) \in Int /\ b + 1 + j <= k
                BY <1>1, <2>3, <3>1, EndIs
            <4>2. QED
                BY <1>1, <4>1
        <3>4. ~ (t[b + 1 + j] > WideMax \div 2)
            <4>1. ~ (t[b + 1 + j] \in Int /\ t[b + 1 + j] > WideMax \div 2) \/
                  ~ (b + 1 + j > j + 1 /\ t[(b + 1 + j) - (j + 1)] = P
                     /\ t[(b + 1 + j) - (j + 1) + 1] = Colon)
                BY <3>3 DEF Unwrapped
            <4> HIDE DEF payload
            <4>2. QED
                BY <2>1, <3>1, <3>2, <3>3, <4>1
        <3> HIDE DEF payload
        <3>5. QED
            BY <3>1, <3>2, <3>4, Middle, SMTT(30)
    <2>7. u = IF PayloadError(key, payload) = "none"
              THEN [s EXCEPT !.core = Added(s.core, key, payload)]
              ELSE [s EXCEPT !.error = PayloadError(key, payload)]
        BY <2>1, <2>2, <2>6, RecordSays DEF u
    <2>8. VerdictAt(t, b) = PayloadError(key, payload)
        BY <1>5, <1>6, <1>7, <2>1, <2>3, <2>4 DEF Verdict
    <2> HIDE DEF payload
    <2>9. CASE PayloadError(key, payload) = "none"
        <3>1. u.error = "none" /\ u.core = Added(s.core, key, payload)
            BY <2>7, <2>9 DEF Scans
        <3>2. Len(payload) = 3
            <4>1. PayloadError(key, payload) # "MalformedMetadata"
                BY <2>9
            <4>2. Written(payload, IF key = V THEN Dot ELSE Space,
                          IF key = P THEN -(WideMax \div 2) - 1 ELSE 0)
                BY <2>1, <4>1, PayloadErrorIs
            <4>3. QED
                BY <4>2 DEF Written
        <3>3. line[1] = key /\ line[3] = payload[1] /\ line[5] = payload[3]
            <4>1. k - b - 1 = 3
                BY <2>3, <3>2
            <4>2. k >= b /\ k >= b + 2 /\ k >= b + 4
                BY <1>1, <4>1
            <4>3. payload[1] = t[b + 1 + 1] /\ payload[3] = t[b + 1 + 3]
                BY <2>5, <3>2
            <4>4. b + 1 + 1 = b + 2 /\ b + 1 + 3 = b + 4
                BY <1>1
            <4>5. QED
                BY <1>6, <4>2, <4>3, <4>4
        <3>4. s.core \in Records /\ CoreSays(s.core, t, S)
            BY DEF Scans, S
        <3>5. CoreSays(Added(s.core, key, payload), t, S \cup {b})
            BY <1>3, <1>7, <2>1, <2>3, <2>4, <2>9, <3>3, <3>4, RecordAdds
        <3>6. QED
            BY <1>4, <2>8, <2>9, <3>1, <3>5 DEF u
    <2>10. CASE PayloadError(key, payload) # "none"
        <3>1. u.error = PayloadError(key, payload)
            BY <2>7, <2>10 DEF Scans
        <3>2. QED
            BY <2>8, <2>10, <3>1 DEF u
    <2>11. QED
        BY <2>9, <2>10
<1>8. CASE ~ IsRecord(line)
    <2>1. \A key \in Keys : GoodLines(t, S \cup {b}, key) = GoodLines(t, S, key)
        <3>1. SUFFICES ASSUME NEW key \in Keys
                  PROVE GoodLines(t, S \cup {b}, key) = GoodLines(t, S, key)
            OBVIOUS
        <3>2. ~ IsRecord(LineAt(t, b))
            BY <1>3, <1>8
        <3>3. QED
            BY <3>2, GoodLinesStay
    <2>2. CoreSays(s.core, t, S \cup {b})
        <3>1. V \in Keys /\ D \in Keys /\ P \in Keys
            BY DEF Keys
        <3>2. CoreSays(s.core, t, S)
            BY DEF S
        <3>3. QED
            BY <2>1, <3>1, <3>2 DEF CoreSays
    <2>3. VerdictAt(t, b) = IF \E j \in b .. k : t[j] = Colon THEN "none" ELSE "MalformedMetadata"
        BY <1>5, <1>6, <1>8 DEF Verdict
    <2>4. RecordError(s, "MalformedMetadata") = [s EXCEPT !.error = "MalformedMetadata"]
        BY DEF RecordError
    <2>5. CASE k = 0
        <3>1. b = 1 /\ k = b - 1
            BY <1>1, <2>5
        <3>2. s.line = "start"
            BY <3>1 DEF LineSoFar
        <3>3. u = [s EXCEPT !.error = "MalformedMetadata"]
            BY <2>4, <3>2 DEF LineSays, u
        <3>4. ~ \E j \in b .. k : t[j] = Colon
            BY <3>1
        <3>5. QED
            BY <2>3, <3>3, <3>4 DEF Scans, u
    <2>6. CASE k = b /\ t[b] \in Keys
        <3>1. s.line = "key"
            BY <2>6 DEF LineSoFar
        <3>2. u = [s EXCEPT !.error = "MalformedMetadata"]
            BY <2>4, <3>1 DEF LineSays, u
        <3>3. ~ \E j \in b .. k : t[j] = Colon
            <4>1. \A j \in b .. k : j = b
                BY <1>1, <2>6
            <4>2. t[b] # Colon
                BY <2>6, MarksDiffer DEF Keys
            <4>3. QED
                BY <4>1, <4>2
        <3>4. QED
            BY <2>3, <3>2, <3>3 DEF Scans, u
    <2>7. CASE b <= k /\ ~ (k = b /\ t[b] \in Keys)
        <3>1. k >= b /\ ~ (t[b] \in Keys /\ (k > b => t[b + 1] = Colon))
            <4>1. k > b <=> k >= b + 1
                BY <1>1
            <4>2. k >= b /\ (k > b \/ k = b)
                BY <1>1, <2>7
            <4>3. QED
                BY <1>6, <1>8, <2>7, <4>1, <4>2
        <3>2. s.line = "unknown" /\ (s.colon <=> \E j \in b .. k : t[j] = Colon)
            BY <3>1 DEF LineSoFar
        <3>3. CASE s.colon
            <4>1. u = s
                BY <3>2, <3>3 DEF LineSays, u
            <4>2. QED
                BY <1>4, <2>2, <2>3, <3>2, <3>3, <4>1 DEF u
        <3>4. CASE ~ s.colon
            <4>1. u = [s EXCEPT !.error = "MalformedMetadata"]
                BY <2>4, <3>2, <3>4 DEF LineSays, u
            <4>2. QED
                BY <2>3, <3>2, <3>4, <4>1 DEF Scans, u
        <3>5. QED
            BY <3>3, <3>4
    <2>8. QED
        BY <2>5, <2>6, <2>7
<1>9. QED
    BY <1>7, <1>8

\* An LF that ends a line: the next one begins, or the line was wrong.
LEMMA LineStops ==
    ASSUME NEW t \in Seq(Bytes), Ends(t) # {}, Unwrapped(t),
           NEW s \in Scans, Keyed(s), s.error = "none",
           NEW k \in Nat, k < Len(t), k <= End(t), Going(s, t, k),
           t[k + 1] = LF, k = 0 \/ t[k] # LF
    PROVE  LET u == LineFinished(s)
           IN  /\ u.error = "none" => Going(u, t, k + 1)
               /\ u.error # "none" => Failed(t, k + 1, u.error)
<1>1. PICK b \in 1 .. k + 1 : /\ Begun(t, k, b) /\ AllGood(t, b - 1)
                              /\ CoreSays(s.core, t, LineStarts(t, b - 1))
                              /\ LineSoFar(s, t, k, b)
    BY DEF Going
<1> DEFINE u == LineFinished(s)
           v == LineSays(s)
<1>2. u.error = v.error /\ u.core = v.core /\ u.line = "start"
    <2>1. PICK error \in FormatErrors \cup {"none"}, core \in Records :
              v = [s EXCEPT !.error = error, !.core = core]
        BY LineSaysTyped
    <2>2. u = [v EXCEPT !.line = "start", !.key = Space, !.colon = FALSE, !.payload = <<>>]
        BY DEF LineFinished
    <2> HIDE DEF u, v
    <2>3. QED
        BY <2>1, <2>2 DEF Scans
<1>3. b <= k \/ k = 0
    <2>1. SUFFICES ASSUME b = k + 1, k # 0 PROVE FALSE
        BY <1>1
    <2>2. b # 1 /\ t[b - 1] = t[k]
        BY <2>1
    <2>3. QED
        BY <1>1, <2>1, <2>2 DEF Begun
<1>4. /\ v.error = VerdictAt(t, b)
      /\ v.error = "none" => CoreSays(v.core, t, LineStarts(t, k + 1))
    BY <1>1, <1>3, FinishSays
<1>5. LineStarts(t, k + 1) = LineStarts(t, b - 1) \cup {b}
    BY <1>1, LineStartsGrow
<1> HIDE DEF u, v
<1>6. ASSUME u.error = "none" PROVE Going(u, t, k + 1)
    <2>1. Begun(t, k + 1, k + 2)
        BY DEF Begun
    <2>2. AllGood(t, (k + 2) - 1)
        <3>1. AllGood(t, k + 1)
            BY <1>1, <1>2, <1>4, <1>5, <1>6 DEF AllGood
        <3>2. (k + 2) - 1 = k + 1
            OBVIOUS
        <3>3. QED
            BY <3>1, <3>2
    <2>3. CoreSays(u.core, t, LineStarts(t, (k + 2) - 1))
        <3>1. (k + 2) - 1 = k + 1
            OBVIOUS
        <3>2. QED
            BY <1>2, <1>4, <1>6, <3>1
    <2>4. LineSoFar(u, t, k + 1, k + 2)
        BY <1>2 DEF LineSoFar
    <2>5. k + 2 \in 1 .. (k + 1) + 1
        OBVIOUS
    <2>6. QED
        BY <2>1, <2>2, <2>3, <2>4, <2>5 DEF Going
<1>7. ASSUME u.error # "none" PROVE Failed(t, k + 1, u.error)
    <2>1. b \in LineStarts(t, k + 1)
        BY <1>5
    <2>2. ASSUME NEW e \in Int, EndsAfter(t, b, e)
          PROVE  Verdict(t, LineStarts(t, b - 1), SubSeq(t, b, e)) = u.error
        <3>1. b \in Nat \ {0}
            BY <1>1
        <3>2. LineAt(t, b) = SubSeq(t, b, e)
            BY <2>2, <3>1, LineIs
        <3>3. QED
            BY <1>2, <1>4, <3>2 DEF VerdictAt
    <2>3. QED
        BY <1>1, <2>1, <2>2 DEF Failed
<1>8. QED
    BY <1>6, <1>7 DEF u

\* The numbers a good record line says.
LEMMA GoodLineSays ==
    ASSUME NEW t \in Seq(Bytes), NEW k \in 1 .. Len(t), t[k] = LF, NEW key \in Keys,
           NEW i \in GoodLines(t, LineStarts(t, k), key)
    PROVE  LET a == LineAt(t, i)[3]
               c == LineAt(t, i)[5]
           IN  /\ key = D => {a, c} \subseteq (0 .. WideMax) \ {0}
               /\ key = P => {a, c} \subseteq CoordMin .. CoordMax
<1> DEFINE line == LineAt(t, i)
           payload == Payload(line)
<1>1. /\ i \in 1 .. k /\ i \in LineStarts(t, k) /\ IsRecord(line) /\ line[1] = key
      /\ PayloadError(key, payload) = "none"
    BY DEF GoodLines, LineStarts
<1>2. i \in Nat \ {0} /\ k \in i .. Len(t)
    BY <1>1
<1>3. PICK e \in i - 1 .. k - 1 : EndsAfter(t, i, e)
    BY <1>2, LineEnds
<1>4. line = SubSeq(t, i, e)
    BY <1>2, <1>3, LineIs
<1>5. e \in i - 1 .. Len(t)
    BY <1>2
<1>6. line \in Seq(Bytes)
    BY <1>2, <1>4, <1>5, LineFacts
<1> HIDE DEF line
<1>7. payload = [j \in 1 .. Len(line) - 3 + 1 |-> line[3 + j - 1]]
    BY <1>6 DEF Payload
<1>8. Len(payload) = 3 => payload[1] = line[3] /\ payload[3] = line[5]
    <2>1. SUFFICES ASSUME Len(payload) = 3 PROVE payload[1] = line[3] /\ payload[3] = line[5]
        OBVIOUS
    <2>2. payload \in Seq(Bytes)
        BY <1>6 DEF Payload
    <2>3. 1 .. Len(payload) = 1 .. Len(line) - 3 + 1
        <3>1. DOMAIN payload = 1 .. Len(payload)
            BY <2>2
        <3>2. DOMAIN payload = 1 .. Len(line) - 3 + 1
            BY <1>7
        <3> HIDE DEF payload
        <3>3. QED
            BY <3>1, <3>2
    <2>4. 1 \in 1 .. Len(line) - 3 + 1 /\ 3 \in 1 .. Len(line) - 3 + 1
        <3> HIDE DEF payload
        <3>1. 1 \in 1 .. Len(payload) /\ 3 \in 1 .. Len(payload)
            BY <2>1
        <3>2. QED
            BY <2>3, <3>1
    <2> HIDE DEF payload
    <2>5. payload[1] = line[3 + 1 - 1] /\ payload[3] = line[3 + 3 - 1]
        BY <1>7, <2>4
    <2>6. QED
        BY <2>5
<1> HIDE DEF payload
<1> DEFINE separator == IF key = V THEN Dot ELSE Space
           least == IF key = P THEN -(WideMax \div 2) - 1 ELSE 0
<1>9. Written(payload, separator, least)
    <2>1. PayloadError(key, payload) # "MalformedMetadata"
        BY <1>1
    <2>2. QED
        BY <2>1, PayloadErrorIs
<1>10. /\ Len(payload) = 3
       /\ payload[1] \in least .. WideMax /\ payload[3] \in least .. WideMax
    BY <1>9 DEF Written
<1>11. PayloadError(key, payload) =
           IF key = V THEN IF payload[1] = 1 /\ payload[3] = 0 THEN "none" ELSE "UnsupportedVersion"
           ELSE IF key = D THEN IF 0 \in {payload[1], payload[3]} THEN "ZeroDimension" ELSE "none"
           ELSE IF {payload[1], payload[3]} \subseteq CoordMin .. CoordMax THEN "none"
               ELSE "Overflow"
    BY <1>9, PayloadErrorIs
<1>12. key = D => {payload[1], payload[3]} \subseteq (0 .. WideMax) \ {0}
    <2>1. SUFFICES ASSUME key = D PROVE {payload[1], payload[3]} \subseteq (0 .. WideMax) \ {0}
        OBVIOUS
    <2>2. key # V /\ key # P
        BY <2>1, MarksDiffer
    <2>3. ~ (0 \in {payload[1], payload[3]})
        BY <1>1, <1>11, <2>1, <2>2
    <2>4. least = 0
        BY <2>2
    <2> HIDE DEF least
    <2>5. QED
        BY <1>10, <2>3, <2>4
<1>13. key = P => {payload[1], payload[3]} \subseteq CoordMin .. CoordMax
    <2>1. SUFFICES ASSUME key = P PROVE {payload[1], payload[3]} \subseteq CoordMin .. CoordMax
        OBVIOUS
    <2>2. key # V /\ key # D
        BY <2>1, MarksDiffer
    <2>3. QED
        BY <1>1, <1>11, <2>2
<1>14. QED
    BY <1>8, <1>10, <1>12, <1>13 DEF line

\* The numbers of an accepted record keep their value through the signed ones.
LEMMA SignedKeep ==
    /\ \A n \in (0 .. WideMax) \ {0} : AsUnsigned(AsSigned(n)) = n /\ AsUnsigned(n) = n
    /\ \A n \in CoordMin .. CoordMax : AsSigned(n) = n
<1>1. ASSUME NEW n \in (0 .. WideMax) \ {0}
      PROVE  AsUnsigned(AsSigned(n)) = n /\ AsUnsigned(n) = n
    <2>1. n \in Int /\ n <= WideMax /\ 0 <= n /\ -(WideMax \div 2) - 1 <= n
        BY Middle
    <2>2. AsUnsigned(n) = n
        BY <2>1 DEF AsUnsigned
    <2>3. QED
        BY <2>1, <2>2, AsSignedKeeps
<1>2. ASSUME NEW n \in CoordMin .. CoordMax PROVE AsSigned(n) = n
    <2>1. n \in Signed
        BY Middle
    <2>2. n \in Int /\ n <= WideMax \div 2 /\ n <= WideMax /\ -(WideMax \div 2) - 1 <= n
        BY <2>1, Middle DEF Signed
    <2>3. QED
        BY <2>2, AsSignedKeeps
<1>3. QED
    BY <1>1, <1>2

\* What a key's good lines say: the numbers of any one of them.
Said(t, S, key) ==
    LET i == CHOOSE i \in GoodLines(t, S, key) : TRUE
        line == LineAt(t, i)
    IN  <<line[3], line[5]>>

Wrong(t, S) == {i \in S : LineError(t, S, i) # "none"}

\* The meaning of a text that has a terminator, by cases: the first wrong line,
\* a record that is missing, or a layout.
LEMMA MeaningIs ==
    ASSUME NEW t, Ends(t) # {}
    PROVE  LET S == LineStarts(t, End(t))
           IN  /\ \A i : Wrong(t, S) # {}
                      /\ i = (CHOOSE n \in Wrong(t, S) : \A j \in Wrong(t, S) : n <= j)
                       => Meaning(t) = Failure(LineError(t, S, i))
               /\ Wrong(t, S) = {} /\ (\E key \in Keys : GoodLines(t, S, key) = {}) =>
                      Meaning(t) = Failure("MissingRecord")
               /\ Wrong(t, S) = {} /\ (\A key \in Keys : GoodLines(t, S, key) # {}) =>
                      Meaning(t) = Finalized([version |-> TRUE, dimensions |-> Said(t, S, D),
                                              position |-> Said(t, S, P)], End(t) + 1, Len(t))
BY DEF Meaning, Wrong, Said

\* finalize() takes the dimensions back from int64: it sees the numbers that
\* are written.
LEMMA FinalizedSame ==
    ASSUME NEW core \in Records, NEW dims \in ((0 .. WideMax) \ {0}) \X ((0 .. WideMax) \ {0}),
           NEW p \in (CoordMin .. CoordMax) \X (CoordMin .. CoordMax),
           core.version, core.dimensions = <<AsSigned(dims[1]), AsSigned(dims[2])>>,
           core.position = <<AsSigned(p[1]), AsSigned(p[2])>>,
           NEW offset, NEW total
    PROVE  Finalized(core, offset, total) =
               Finalized([version |-> TRUE, dimensions |-> dims, position |-> p], offset, total)
<1> DEFINE other == [version |-> TRUE, dimensions |-> dims, position |-> p]
<1>1. core.position = p
    <2>1. p[1] \in CoordMin .. CoordMax /\ p[2] \in CoordMin .. CoordMax /\ p = <<p[1], p[2]>>
        OBVIOUS
    <2>2. QED
        BY <2>1, SignedKeep
<1>2. /\ AsUnsigned(core.dimensions[1]) = AsUnsigned(dims[1])
      /\ AsUnsigned(core.dimensions[2]) = AsUnsigned(dims[2])
    <2>1. core.dimensions[1] = AsSigned(dims[1]) /\ core.dimensions[2] = AsSigned(dims[2])
        OBVIOUS
    <2>2. dims[1] \in (0 .. WideMax) \ {0} /\ dims[2] \in (0 .. WideMax) \ {0}
        OBVIOUS
    <2>3. QED
        BY <2>1, <2>2, SignedKeep
<1>3. core.dimensions # <<>> /\ core.position # <<>> /\ dims # <<>> /\ p # <<>>
    <2>1. \A a, b : <<a, b>> # <<>>
        OBVIOUS
    <2>2. dims = <<dims[1], dims[2]>> /\ p = <<p[1], p[2]>>
        OBVIOUS
    <2>3. dims # <<>> /\ p # <<>>
        BY <2>1, <2>2
    <2>4. core.dimensions # <<>> /\ core.position # <<>>
        BY <2>1
    <2>5. QED
        BY <2>3, <2>4
<1>4. other.version = TRUE /\ other.dimensions = dims /\ other.position = p
    OBVIOUS
<1> HIDE DEF other
<1>5. Finalized(core, offset, total) = Finalized(other, offset, total)
    BY <1>1, <1>2, <1>3, <1>4 DEF Finalized
<1>6. QED
    BY <1>5 DEF other

\* The scan has come to the terminator: it has the meaning of the text.
LEMMA TextEnds ==
    ASSUME NEW t \in Seq(Bytes), NEW s \in Scans, NEW k \in Ends(t), End(t) = k,
           s.error = "none" => Going(s, t, k),
           s.error # "none" => Failed(t, k, s.error)
    PROVE  (IF s.error # "none" THEN Failure(s.error)
            ELSE Finalized(s.core, k + 1, Len(t))) = Meaning(t)
<1> DEFINE S == LineStarts(t, k)
<1>1. k \in 1 .. Len(t) - 1 /\ t[k] = LF /\ Ends(t) # {} /\ k \in 1 .. Len(t) /\ k \in Nat
    BY DEF Ends
<1>2. \A i \in S : LineError(t, S, i) = VerdictAt(t, i)
    BY <1>1, LineErrorIs
<1>3. S \subseteq 1 .. k
    BY DEF LineStarts
<1>4. CASE s.error # "none"
    <2>1. PICK i \in S :
              /\ AllGood(t, i - 1)
              /\ \A e \in Int : EndsAfter(t, i, e) =>
                     Verdict(t, LineStarts(t, i - 1), SubSeq(t, i, e)) = s.error
        BY <1>4 DEF Failed
    <2>2. i \in Nat \ {0} /\ k \in i .. Len(t)
        BY <1>1, <1>3
    <2>3. PICK e \in i - 1 .. k - 1 : EndsAfter(t, i, e)
        BY <1>1, <2>2, LineEnds
    <2>4. LineAt(t, i) = SubSeq(t, i, e)
        BY <2>2, <2>3, LineIs
    <2>5. VerdictAt(t, i) = s.error
        BY <2>1, <2>3, <2>4 DEF VerdictAt
    <2>6. i \in Wrong(t, S)
        BY <1>2, <1>4, <2>5 DEF Wrong
    <2>7. ASSUME NEW j \in Wrong(t, S) PROVE i <= j
        <3>1. j \in S /\ VerdictAt(t, j) # "none"
            BY <1>2 DEF Wrong
        <3>2. ~ (j \in LineStarts(t, i - 1))
            BY <2>1, <3>1 DEF AllGood
        <3>3. ~ (j \in 1 .. i - 1)
            BY <3>1, <3>2 DEF LineStarts
        <3>4. QED
            BY <1>3, <2>2, <3>1, <3>3
    <2>8. Wrong(t, S) \subseteq Int
        BY <1>3 DEF Wrong
    <2>9. i = CHOOSE n \in Wrong(t, S) : \A j \in Wrong(t, S) : n <= j
        <3>1. \A n \in Wrong(t, S) : (\A j \in Wrong(t, S) : n <= j) => n = i
            BY <2>6, <2>7, <2>8
        <3>2. QED
            BY <2>6, <2>7, <3>1
    <2>10. Meaning(t) = Failure(LineError(t, S, i))
        BY <1>1, <2>6, <2>9, MeaningIs
    <2>11. QED
        BY <1>2, <1>4, <2>1, <2>5, <2>10
<1>5. CASE s.error = "none"
    <2>1. PICK b \in 1 .. k + 1 : /\ Begun(t, k, b) /\ AllGood(t, b - 1)
                                  /\ CoreSays(s.core, t, LineStarts(t, b - 1))
        BY <1>5 DEF Going
    <2>2. b - 1 = k
        BY <1>1, <2>1 DEF Begun
    <2>3. AllGood(t, k) /\ CoreSays(s.core, t, S)
        BY <2>1, <2>2
    <2>4. Wrong(t, S) = {}
        BY <1>2, <2>3 DEF Wrong, AllGood
    <2>5. s.core \in Records
        BY DEF Scans
    <2> HIDE DEF S
    <2>6. CASE \E key \in Keys : GoodLines(t, S, key) = {}
        <3>1. Meaning(t) = Failure("MissingRecord")
            BY <1>1, <2>4, <2>6, MeaningIs DEF S
        <3>2. ~ s.core.version \/ s.core.dimensions = <<>> \/ s.core.position = <<>>
            BY <2>3, <2>6 DEF CoreSays, Keys
        <3>3. QED
            BY <1>5, <3>1, <3>2 DEF Finalized
    <2>7. CASE \A key \in Keys : GoodLines(t, S, key) # {}
        <3> DEFINE Of(key) == CHOOSE i \in GoodLines(t, S, key) : TRUE
                   dims == Said(t, S, D)
                   p == Said(t, S, P)
        <3>1. /\ V \in Keys /\ D \in Keys /\ P \in Keys
              /\ Of(D) \in GoodLines(t, S, D) /\ Of(P) \in GoodLines(t, S, P)
            BY <2>7 DEF Keys
        <3>2. /\ dims = <<LineAt(t, Of(D))[3], LineAt(t, Of(D))[5]>>
              /\ p = <<LineAt(t, Of(P))[3], LineAt(t, Of(P))[5]>>
            BY DEF Said
        <3> HIDE DEF Of, dims, p
        <3>3. /\ {LineAt(t, Of(D))[3], LineAt(t, Of(D))[5]} \subseteq (0 .. WideMax) \ {0}
              /\ {LineAt(t, Of(P))[3], LineAt(t, Of(P))[5]} \subseteq CoordMin .. CoordMax
            BY <1>1, <3>1, GoodLineSays DEF S
        <3>4. /\ dims \in ((0 .. WideMax) \ {0}) \X ((0 .. WideMax) \ {0})
              /\ p \in (CoordMin .. CoordMax) \X (CoordMin .. CoordMax)
            BY <3>2, <3>3
        <3>5. /\ s.core.dimensions
                     = <<AsSigned(LineAt(t, Of(D))[3]), AsSigned(LineAt(t, Of(D))[5])>>
              /\ s.core.position = <<AsSigned(LineAt(t, Of(P))[3]), AsSigned(LineAt(t, Of(P))[5])>>
            BY <2>3, <3>1 DEF CoreSays
        <3>6. /\ s.core.version
              /\ s.core.dimensions = <<AsSigned(dims[1]), AsSigned(dims[2])>>
              /\ s.core.position = <<AsSigned(p[1]), AsSigned(p[2])>>
            <4>1. s.core.version
                BY <2>3, <2>7, <3>1 DEF CoreSays
            <4>2. /\ dims[1] = LineAt(t, Of(D))[3] /\ dims[2] = LineAt(t, Of(D))[5]
                  /\ p[1] = LineAt(t, Of(P))[3] /\ p[2] = LineAt(t, Of(P))[5]
                BY <3>2
            <4>3. QED
                BY <3>5, <4>1, <4>2
        <3>7. Finalized(s.core, k + 1, Len(t)) =
                  Finalized([version |-> TRUE, dimensions |-> dims, position |-> p], k + 1, Len(t))
            BY <2>5, <3>4, <3>6, FinalizedSame, SMTT(30)
        <3>8. Meaning(t) = Finalized([version |-> TRUE, dimensions |-> dims, position |-> p],
                                     k + 1, Len(t))
            BY <1>1, <2>4, <2>7, MeaningIs DEF S, dims, p
        <3>9. QED
            BY <1>5, <3>7, <3>8
    <2>8. QED
        BY <2>6, <2>7
<1>6. QED
    BY <1>4, <1>5

\* A byte of the metadata: the scan goes on in the text, or it has its meaning.
LEMMA ScanStep ==
    ASSUME NEW t \in Seq(Bytes), Unwrapped(t), NEW s, Tracks(s, t), s.offset < Len(t)
    PROVE  LET u == ScanByte(s, t[s.offset + 1])
           IN  \/ u.ended /\ ScanResult(u, Len(t)) = Meaning(t)
               \/ Tracks(u, t) /\ u.offset = s.offset + 1
<1> DEFINE k == s.offset
           b == t[k + 1]
           u == ScanByte(s, b)
<1>1. /\ s \in Scans /\ Keyed(s) /\ ~ s.ended /\ k \in 0 .. Len(t) /\ Unended(t, k)
      /\ s.newline <=> k > 0 /\ t[k] = LF
      /\ Ends(t) # {} /\ s.error = "none" => Going(s, t, k)
      /\ Ends(t) # {} /\ s.error # "none" => Failed(t, k, s.error)
    BY DEF Tracks
<1>2. Len(t) \in Nat /\ k \in Nat /\ k + 1 \in 1 .. Len(t) /\ b \in Bytes
    BY <1>1
<1>3. /\ u \in Scans /\ Keyed(u) /\ u.offset = k + 1 /\ u.newline = (b = LF)
      /\ u.ended <=> s.newline /\ b = LF
      /\ s.error # "none" => u.error = s.error
    BY <1>1, <1>2, ScanByteTyped
<1> DEFINE c == [s EXCEPT !.offset = k + 1, !.newline = (b = LF)]
<1>4. /\ c \in Scans /\ Keyed(c) /\ c.error = s.error /\ c.core = s.core /\ c.line = s.line
      /\ c.key = s.key /\ c.colon = s.colon /\ c.payload = s.payload /\ c.offset = k + 1
    <2>1. k + 1 \in Nat /\ (b = LF) \in BOOLEAN
        BY <1>2
    <2>2. s \in Scans /\ Keyed(s)
        BY <1>1
    <2> DEFINE n == k + 1
               f == (b = LF)
    <2>3. n \in Nat /\ f \in BOOLEAN /\ c = [s EXCEPT !.offset = n, !.newline = f]
        BY <2>1
    <2> HIDE DEF n, f, c
    <2>4. c.offset = n
        BY <2>2, <2>3 DEF Scans
    <2>5. /\ c \in Scans /\ Keyed(c) /\ c.error = s.error /\ c.core = s.core /\ c.line = s.line
          /\ c.key = s.key /\ c.colon = s.colon /\ c.payload = s.payload
        BY <2>2, <2>3 DEF Scans, Keyed
    <2>6. QED
        BY <2>4, <2>5 DEF n
<1>5. u = IF b # LF THEN InLine(c, b)
          ELSE IF s.newline THEN [c EXCEPT !.ended = TRUE]
          ELSE LineFinished(c)
    BY <1>1, Zenon DEF ScanByte
<1> HIDE DEF u, c
<1>6. ASSUME NEW j, LineSoFar(s, t, k, j) PROVE LineSoFar(c, t, k, j)
    BY <1>4, <1>6 DEF LineSoFar
<1>7. Ends(t) # {} /\ s.error = "none" => Going(c, t, k)
    BY <1>1, <1>4, <1>6 DEF Going
<1>8. CASE s.newline /\ b = LF
    <2>1. k \in Ends(t)
        BY <1>1, <1>2, <1>8 DEF Ends
    <2>2. End(t) = k
        BY <1>1, <2>1, EndIs
    <2>3. u.error = s.error /\ u.core = s.core /\ u.offset = k + 1 /\ u.ended
        BY <1>3, <1>4, <1>5, <1>8 DEF Scans
    <2>4. (IF s.error # "none" THEN Failure(s.error)
           ELSE Finalized(s.core, k + 1, Len(t))) = Meaning(t)
        BY <1>1, <2>1, <2>2, TextEnds
    <2>5. ScanResult(u, Len(t)) = Meaning(t)
        BY <2>3, <2>4 DEF ScanResult
    <2>6. QED
        BY <2>3, <2>5 DEF u
<1>9. CASE ~ (s.newline /\ b = LF)
    <2>1. ~ u.ended
        BY <1>3, <1>9
    <2>2. Unended(t, k + 1)
        <3>1. SUFFICES ASSUME NEW i \in 1 .. (k + 1) - 1, t[i] = LF, t[i + 1] = LF PROVE FALSE
            BY DEF Unended
        <3>2. CASE i = k
            BY <1>1, <1>2, <1>9, <3>1, <3>2
        <3>3. CASE i # k
            <4>1. i \in 1 .. k - 1
                BY <1>2, <3>3
            <4>2. QED
                BY <1>1, <3>1, <4>1 DEF Unended
        <3>4. QED
            BY <3>2, <3>3
    <2>3. u.newline <=> k + 1 > 0 /\ t[k + 1] = LF
        <3>1. k + 1 > 0
            BY <1>2
        <3>2. u.newline <=> b = LF
            BY <1>3
        <3>3. QED
            BY <3>1, <3>2
    <2>4. ASSUME Ends(t) # {}
          PROVE  /\ u.error = "none" => Going(u, t, k + 1)
                 /\ u.error # "none" => Failed(t, k + 1, u.error)
        <3>1. k <= End(t)
            BY <1>1, <1>2, <2>4, EndIs
        <3>2. CASE s.error # "none"
            <4>1. Failed(t, k + 1, s.error)
                BY <1>1, <1>2, <2>4, <3>2, FailedStays
            <4>2. QED
                BY <1>3, <3>2, <4>1
        <3>3. CASE s.error = "none" /\ b = LF
            <4>1. u = LineFinished(c) /\ (k = 0 \/ t[k] # LF)
                BY <1>1, <1>2, <1>5, <1>9, <3>3
            <4>2. c.error = "none" /\ Going(c, t, k) /\ k < Len(t) /\ t[k + 1] = LF
                BY <1>4, <1>7, <2>4, <3>3
            <4>3. QED
                BY <1>2, <1>4, <2>4, <3>1, <4>1, <4>2, LineStops
        <3>4. CASE s.error = "none" /\ b # LF
            <4>1. u = InLine(c, b)
                BY <1>5, <3>4
            <4>2. PICK j \in 1 .. k + 1 : /\ Begun(t, k, j) /\ AllGood(t, j - 1)
                                          /\ CoreSays(c.core, t, LineStarts(t, j - 1))
                                          /\ LineSoFar(c, t, k, j)
                BY <1>7, <2>4, <3>4 DEF Going
            <4>3. \/ /\ u.error = "none" /\ u.core = c.core
                     /\ Begun(t, k + 1, j) /\ LineSoFar(u, t, k + 1, j)
                  \/ u.error # "none" /\ Failed(t, k + 1, u.error)
                BY <1>2, <1>4, <3>4, <4>1, <4>2, LineGoes
            <4>4. j \in 1 .. (k + 1) + 1
                BY <1>2
            <4>5. QED
                BY <4>2, <4>3, <4>4 DEF Going
        <3>5. QED
            BY <3>2, <3>3, <3>4
    <2>5. Tracks(u, t)
        BY <1>2, <1>3, <2>1, <2>2, <2>3, <2>4 DEF Tracks
    <2>6. QED
        BY <1>3, <2>5 DEF u
<1>10. QED
    BY <1>8, <1>9

\* A piece of a text.
LEMMA CutIs ==
    ASSUME NEW t \in Seq(Bytes), NEW o \in Nat, NEW n \in Nat, o + n <= Len(t)
    PROVE  LET cut == SubSeq(t, o + 1, o + n)
           IN  /\ cut \in Seq(Bytes) /\ Len(cut) = n
               /\ \A k \in 1 .. n : cut[k] = t[o + k]
<1>1. Len(t) \in Nat /\ (o + n) - (o + 1) + 1 = n
    OBVIOUS
<1>2. \A k \in 1 .. n : 1 + o + k - 1 = o + k /\ o + k \in 1 .. Len(t)
    BY <1>1
<1>3. SubSeq(t, o + 1, o + n) = [k \in 1 .. n |-> t[o + k]]
    BY <1>1, <1>2
<1>4. \A k \in 1 .. n : t[o + k] \in Bytes
    BY <1>2
<1> DEFINE cut == SubSeq(t, o + 1, o + n)
<1>5. cut \in Seq(Bytes) /\ Len(cut) = n
    BY <1>1, <1>2
<1>6. QED
    BY <1>3, <1>5

\* A block of the metadata leaves a typed scan, which has seen all of the block
\* unless it came to the terminator.
LEMMA BlockTyped ==
    ASSUME NEW s \in Scans, Keyed(s), ~ s.ended, NEW bytes \in Seq(Bytes),
           NEW u \in ScanBlock(s, bytes)
    PROVE  /\ u \in Scans /\ Keyed(u) /\ u.offset <= s.offset + Len(bytes)
           /\ ~ u.ended => u.offset = s.offset + Len(bytes)
<1> DEFINE n == Len(bytes)
           Good(v, k) == /\ v \in Scans /\ Keyed(v) /\ v.offset <= s.offset + k
                         /\ ~ v.ended => v.offset = s.offset + k
<1>1. n \in Nat /\ s.offset \in Nat
    BY DEF Scans
<1>2. PICK f : Scanning(f, s, bytes, n) /\ ScanBlock(s, bytes) = {f[n]}
    BY <1>1, ScanBlockScans
<1> DEFINE T == {k \in 0 .. n : Good(f[k], k)}
<1>3. 0 \in T
    BY <1>1, <1>2 DEF Scanning
<1>4. ASSUME NEW k \in 1 .. n, k - 1 \in T PROVE k \in T
    <2>1. f[k] = ScanByte(f[k - 1], bytes[k]) /\ bytes[k] \in Bytes
        BY <1>1, <1>2 DEF Scanning
    <2>2. Good(f[k - 1], k - 1)
        BY <1>4
    <2> DEFINE v == f[k - 1]
               w == f[k]
    <2>3. /\ w \in Scans /\ Keyed(w) /\ (v.ended => w = v)
          /\ ~ v.ended => w.offset = v.offset + 1
        BY <2>1, <2>2, ScanByteTyped
    <2>4. v.offset \in Nat /\ k \in Nat /\ k \in 0 .. n
        BY <2>2 DEF Scans
    <2> HIDE DEF v, w
    <2>5. w.offset <= s.offset + k /\ (~ w.ended => w.offset = s.offset + k)
        BY <1>1, <2>2, <2>3, <2>4 DEF v
    <2>6. QED
        BY <2>3, <2>4, <2>5 DEF w
<1>5. n \in T
    <2> HIDE DEF T, n
    <2>1. 0 .. n \subseteq T
        BY <1>1, <1>3, <1>4, UpTo
    <2>2. QED
        BY <1>1, <2>1
<1>6. QED
    BY <1>2, <1>5

\* However a text is cut into blocks, the scan goes on in it, or has its meaning.
THEOREM BlockTracks ==
    ASSUME NEW t \in Seq(Bytes), Unwrapped(t), NEW s, Tracks(s, t), NEW n \in Nat,
           s.offset + n <= Len(t), NEW u \in ScanBlock(s, SubSeq(t, s.offset + 1, s.offset + n))
    PROVE  \/ u.ended /\ ScanResult(u, Len(t)) = Meaning(t)
           \/ Tracks(u, t) /\ u.offset = s.offset + n
<1> DEFINE bytes == SubSeq(t, s.offset + 1, s.offset + n)
           Good(v, k) == \/ v.ended /\ ScanResult(v, Len(t)) = Meaning(t)
                         \/ Tracks(v, t) /\ v.offset = s.offset + k
<1>1. s \in Scans /\ s.offset \in 0 .. Len(t) /\ Len(t) \in Nat /\ s.offset \in Nat
    BY DEF Tracks
<1>2. /\ Len(bytes) = n
      /\ \A k \in 1 .. n : bytes[k] = t[s.offset + k]
    BY <1>1, CutIs
<1>3. PICK f : Scanning(f, s, bytes, n) /\ ScanBlock(s, bytes) = {f[n]}
    <2>1. Len(bytes) \in Nat
        BY <1>2
    <2>2. PICK f : Scanning(f, s, bytes, Len(bytes)) /\ ScanBlock(s, bytes) = {f[Len(bytes)]}
        BY <2>1, ScanBlockScans
    <2> HIDE DEF bytes
    <2>3. QED
        BY <1>2, <2>2
<1> DEFINE T == {k \in 0 .. n : Good(f[k], k)}
<1>4. 0 \in T
    BY <1>1, <1>3 DEF Scanning
<1>5. ASSUME NEW k \in 1 .. n, k - 1 \in T PROVE k \in T
    <2> DEFINE v == f[k - 1]
               w == f[k]
    <2>1. w = ScanByte(v, t[s.offset + k])
        BY <1>2, <1>3 DEF Scanning
    <2>2. Good(v, k - 1) /\ k \in 0 .. n
        BY <1>5
    <2> HIDE DEF v, w
    <2>3. CASE v.ended
        <3>1. w = v
            BY <2>1, <2>3, Zenon DEF ScanByte
        <3>2. ScanResult(v, Len(t)) = Meaning(t)
            BY <2>2, <2>3 DEF Tracks
        <3>3. QED
            BY <2>2, <2>3, <3>1, <3>2 DEF w
    <2>4. CASE ~ v.ended
        <3>1. Tracks(v, t) /\ v.offset = s.offset + (k - 1)
            BY <2>2, <2>4
        <3>2. v.offset < Len(t) /\ v.offset + 1 = s.offset + k
            BY <1>1, <3>1
        <3>3. w = ScanByte(v, t[v.offset + 1])
            BY <2>1, <3>2
        <3>4. \/ w.ended /\ ScanResult(w, Len(t)) = Meaning(t)
              \/ Tracks(w, t) /\ w.offset = v.offset + 1
            BY <3>1, <3>2, <3>3, ScanStep
        <3>5. QED
            BY <2>2, <3>2, <3>4 DEF w
    <2>5. QED
        BY <2>3, <2>4
<1>6. n \in T
    <2> HIDE DEF T
    <2>1. 0 .. n \subseteq T
        BY <1>4, <1>5, UpTo
    <2>2. QED
        BY <2>1
<1>7. QED
    BY <1>3, <1>6

\* A text that has been scanned to its last byte has no terminator.
LEMMA RunsOut ==
    ASSUME NEW t \in Seq(Bytes), NEW s, Tracks(s, t), s.offset = Len(t)
    PROVE  Meaning(t) = Failure("MissingTerminator")
<1>1. Unended(t, Len(t))
    BY DEF Tracks
<1>2. Ends(t) = {}
    BY <1>1 DEF Unended, Ends
<1>3. QED
    BY <1>2 DEF Meaning

-----------------------------------------------------------------------------
IsLayout(layout) ==
    layout.width \in Nat \ {0} /\ layout.height \in Nat \ {0} /\ layout.offset \in Nat

\* The size a layout promises.
SizeOf(layout) == layout.offset + layout.height * (layout.width + 1)

\* Numbers written in base m have one pair of digits.
LEMMA PairsDistinct ==
    ASSUME NEW m \in Nat \ {0}, NEW y \in Nat, NEW z \in Nat,
           NEW u \in 0 .. m - 1, NEW v \in 0 .. m - 1, y * m + u = z * m + v
    PROVE  y = z /\ u = v
<1>1. y * m \in Nat /\ z * m \in Nat
  OBVIOUS
<1>2. ~ y < z
  <2>1. SUFFICES ASSUME y + 1 <= z PROVE FALSE
    OBVIOUS
  <2>2. (y + 1) * m <= z * m /\ (y + 1) * m = y * m + m
    BY <2>1
  <2> QED
    BY <1>1, <2>2
<1>3. ~ z < y
  <2>1. SUFFICES ASSUME z + 1 <= y PROVE FALSE
    OBVIOUS
  <2>2. (z + 1) * m <= y * m /\ (z + 1) * m = z * m + m
    BY <2>1
  <2> QED
    BY <1>1, <2>2
<1>4. y = z
  BY <1>2, <1>3
<1> QED
  BY <1>1, <1>4

\* A row and its terminator lie within the size.
LEMMA RowWithinSize ==
    ASSUME NEW layout, IsLayout(layout), NEW y \in 0 .. layout.height - 1,
           NEW x \in 0 .. layout.width
    PROVE  /\ CellOffset(layout, x, y) \in Nat
           /\ layout.offset <= CellOffset(layout, x, y)
           /\ CellOffset(layout, x, y) < SizeOf(layout)
<1> DEFINE w == layout.width + 1
           h == layout.height
<1>1. w \in Nat \ {0} /\ h \in Nat \ {0} /\ layout.offset \in Nat
  BY DEF IsLayout
<1>2. x \in 0 .. w - 1 /\ y \in 0 .. h - 1
  BY DEF IsLayout
<1>3. /\ CellOffset(layout, x, y) = layout.offset + y * w + x
      /\ SizeOf(layout) = layout.offset + h * w
  BY DEF CellOffset, SizeOf
<1> HIDE DEF w, h
<1>4. y * w \in Nat /\ (y + 1) * w <= h * w /\ (y + 1) * w = y * w + w /\ h * w \in Nat
  BY <1>1, <1>2
<1> QED
  BY <1>1, <1>2, <1>3, <1>4

\* cell_offset: two places of the grid, terminators (column width) included,
\* never share a byte.
THEOREM OffsetsDistinct ==
    ASSUME NEW layout, IsLayout(layout),
           NEW y \in 0 .. layout.height - 1, NEW z \in 0 .. layout.height - 1,
           NEW u \in 0 .. layout.width, NEW v \in 0 .. layout.width,
           CellOffset(layout, u, y) = CellOffset(layout, v, z)
    PROVE  y = z /\ u = v
<1> DEFINE w == layout.width + 1
<1>1. w \in Nat \ {0} /\ u \in 0 .. w - 1 /\ v \in 0 .. w - 1 /\ layout.offset \in Nat
  BY DEF IsLayout
<1>2. y \in Nat /\ z \in Nat
  BY DEF IsLayout
<1>3. layout.offset + y * w + u = layout.offset + z * w + v
  BY DEF CellOffset
<1> HIDE DEF w
<1>4. y * w \in Nat /\ z * w \in Nat
  BY <1>1, <1>2
<1>5. y * w + u = z * w + v
  BY <1>1, <1>3, <1>4
<1> QED
  BY <1>1, <1>2, <1>5, PairsDistinct

\* The test read_cells and write_cells make of a range: when it passes, every
\* byte of the range is a cell of the row and in the file, and none of them is
\* the terminator of any row, so that no write can break the structure.
THEOREM RangeStaysInRow ==
    ASSUME NEW layout, IsLayout(layout), NEW y \in Nat, NEW x \in Nat, NEW n \in Nat,
           InGrid(layout, y, x, n),
           NEW k \in 0 .. n - 1
    PROVE  LET at == CellOffset(layout, x, y) + k
           IN  /\ at = CellOffset(layout, x + k, y)
               /\ x + k \in 0 .. layout.width - 1
               /\ layout.offset <= at /\ at < SizeOf(layout)
               /\ \A z \in 0 .. layout.height - 1 : at # TerminatorOffset(layout, z)
<1>1. /\ layout.width \in Nat \ {0} /\ layout.height \in Nat \ {0} /\ layout.offset \in Nat
      /\ y \in 0 .. layout.height - 1
      /\ x + k \in 0 .. layout.width - 1
      /\ x + k \in 0 .. layout.width
  BY DEF IsLayout, InGrid
<1>2. CellOffset(layout, x, y) + k = CellOffset(layout, x + k, y)
  <2>1. y * (layout.width + 1) \in Nat
    BY <1>1
  <2> QED
    BY <1>1, <2>1 DEF CellOffset
<1>3. /\ layout.offset <= CellOffset(layout, x + k, y)
      /\ CellOffset(layout, x + k, y) < SizeOf(layout)
  BY <1>1, RowWithinSize
<1>4. ASSUME NEW z \in 0 .. layout.height - 1
      PROVE  CellOffset(layout, x + k, y) # TerminatorOffset(layout, z)
  <2>1. TerminatorOffset(layout, z) = CellOffset(layout, layout.width, z)
    BY DEF TerminatorOffset, CellOffset
  <2>2. layout.width \in 0 .. layout.width /\ x + k # layout.width
    BY <1>1
  <2> QED
    BY <1>1, <2>1, <2>2, OffsetsDistinct
<1> QED
  BY <1>1, <1>2, <1>3, <1>4

\* finalize, for any dimensions the parser lets through: a layout that is
\* accepted is one of the theorems above, its size is the file's and fits the
\* type of an offset, so that no offset of read_cells and write_cells wraps.
THEOREM AcceptedLayoutFits ==
    ASSUME NEW core, NEW offset \in Nat, NEW total \in Nat,
           core.dimensions[1] \in Dimensions, core.dimensions[2] \in Dimensions,
           Finalized(core, offset, total).error = "none"
    PROVE  LET layout == Finalized(core, offset, total)
           IN  /\ IsLayout(layout)
               /\ SizeOf(layout) = total /\ total <= Uint32Max
               /\ \A y \in 0 .. layout.height - 1, x \in 0 .. layout.width :
                      CellOffset(layout, x, y) \in 0 .. Uint32Max
<1> DEFINE w == AsUnsigned(core.dimensions[1])
           h == AsUnsigned(core.dimensions[2])
           layout == Finalized(core, offset, total)
<1>1. Uint32Max \in Nat /\ w \in Nat \ {0} /\ h \in Nat \ {0}
  BY FormatAssumption DEF AsUnsigned, Dimensions
<1>2. /\ layout = Layout(w, h, core.position, offset)
      /\ offset + h * (w + 1) = total /\ ~ offset + h * (w + 1) > Uint32Max
  BY <1>1 DEF Finalized, Failure
<1>3. /\ layout.width = w /\ layout.height = h /\ layout.offset = offset
  BY <1>2 DEF Layout
<1> HIDE DEF w, h, layout
<1>4. IsLayout(layout) /\ SizeOf(layout) = total
  BY <1>1, <1>2, <1>3 DEF IsLayout, SizeOf
<1>5. total <= Uint32Max
  BY <1>1, <1>2
<1>6. ASSUME NEW y \in 0 .. layout.height - 1, NEW x \in 0 .. layout.width
      PROVE  CellOffset(layout, x, y) \in 0 .. Uint32Max
  BY <1>1, <1>4, <1>5, RowWithinSize
<1> QED
  BY <1>4, <1>5, <1>6 DEF layout

\* The operations in progress.
Opens == [kind : {"open"}, source : Sources \cup {Unknown}, total : Nat, sized : BOOLEAN,
          scan : Scans, asked : {<<>>} \cup (Extents \X Origins)]

Creates == [kind : {"create"}, pc : {"file", "metadata", "rows"}, source : Sources,
            extent : Extents, origin : Origins, row : Nat]

Reads == [kind : {"read"}, pc : {"cells", "terminator"}, y : Nat, x : Nat, n : Nat \ {0},
          bytes : Seq(Bytes)]

Writes == [kind : {"write"}, pc : {"cells", "terminator"}, y : Nat, x : Nat,
           bytes : Seq(Bytes)]

\* The i-th byte after the metadata ends one of the first r rows of m bytes.
EndsRow(i, m, r) == \E q \in 1 .. r : i = q * m

\* The text a creation has made once r of its rows have their LF.
PartText(extent, p, r) ==
    Metadata(extent[1], extent[2], p)
        \o [i \in 1 .. extent[2] * (extent[1] + 1) |->
                IF EndsRow(i, extent[1] + 1, r) THEN LF ELSE Space]

Blanks(n) == [i \in 1 .. n |-> Space]

\* The scan in progress has seen a part of the text as it is.
OpenOK ==
    op.kind = "open" =>
        /\ op \in Opens /\ held = NotHeld
        /\ ~ op.sized => op.scan = ScanStart
        /\ op.sized =>
               /\ IsFile(op.source) /\ op.total = Len(Text(op.source)) /\ op.total <= SizeMax
               /\ Keyed(op.scan) /\ ~ op.scan.ended /\ op.scan.offset <= op.total
               /\ Unwrapped(Text(op.source)) => Tracks(op.scan, Text(op.source))
        /\ op.asked # <<>> =>
               /\ op.source \in Sources /\ 0 \notin {op.asked[1][1], op.asked[1][2]}
               /\ BlankSize(op.asked[1], op.asked[2]) <= SizeMax
               /\ disk[op.source] = File(BlankText(op.asked[1], op.asked[2]))

\* The new file is as far as the creation has come.
CreateOK ==
    op.kind = "create" =>
        /\ op \in Creates /\ held = NotHeld
        /\ 0 \notin {op.extent[1], op.extent[2]}
        /\ BlankSize(op.extent, op.origin) <= SizeMax
        /\ op.pc # "rows" => op.row = 0
        /\ op.pc = "file" =>
               /\ creation.source = op.source /\ creation.value = Space
               /\ creation.size = BlankSize(op.extent, op.origin)
               /\ creation.remaining \in 0 .. creation.size
               /\ disk[op.source] = File(Blanks(creation.size - creation.remaining))
        /\ op.pc = "metadata" =>
               disk[op.source] = File(Blanks(BlankSize(op.extent, op.origin)))
        /\ op.pc = "rows" =>
               /\ op.row <= op.extent[2]
               /\ disk[op.source] = File(PartText(op.extent, op.origin, op.row))

Grid(layout) == (0 .. layout.width - 1) \X (0 .. layout.height - 1)

\* What is in the file at a place of the grid.
CellByte(layout, x, y, text) == text[CellOffset(layout, x, y) + 1]

\* The layout held is that of the file, and what is known of its cells is there.
HeldOK ==
    held # NotHeld =>
        /\ IsFile(held.source) /\ IsLayout(held.layout)
        /\ SizeOf(held.layout) = Len(Text(held.source))
        /\ Len(Text(held.source)) <= SizeMax
        /\ cells \in [Grid(held.layout) -> Bytes \cup {Unclear}]
        /\ \A c \in Grid(held.layout) :
               cells[c] \in {Unclear, CellByte(held.layout, c[1], c[2], Text(held.source))}

\* The bytes of a row from a column on.
AreRead(bytes, x, y) ==
    \A i \in 1 .. Len(bytes) :
        bytes[i] = CellByte(held.layout, x + i - 1, y, Text(held.source))

RangeOK ==
    /\ op.kind = "read" =>
           /\ op \in Reads /\ held # NotHeld /\ InGrid(held.layout, op.y, op.x, op.n)
           /\ op.pc = "terminator" => Len(op.bytes) = op.n /\ AreRead(op.bytes, op.x, op.y)
    /\ op.kind = "write" =>
           /\ op \in Writes /\ held # NotHeld
           /\ InGrid(held.layout, op.y, op.x, Len(op.bytes)) /\ Len(op.bytes) > 0

AnswerOK ==
    /\ op.kind # "none" => answer = NoAnswer
    /\ answer.of \in {"none", "open", "create", "read", "write"}
    /\ answer.error \in FormatErrors
                            \cup {"none", "StorageFailed", "OutOfRange", "MalformedData"}
    /\ answer.of = "open" =>
           /\ answer.error # "StorageFailed" => answer.source \in Sources
           /\ answer.error # "StorageFailed" /\ Unwrapped(Text(answer.source)) =>
                  answer.result = Meaning(Text(answer.source))
           /\ answer.error = "none" /\ answer.asked # <<>> =>
                  /\ Text(answer.source) = BlankText(answer.asked[1], answer.asked[2])
                  /\ answer.result = BlankLayout(answer.asked[1], answer.asked[2])
    /\ answer.of = "read" /\ answer.error = "none" =>
           /\ held # NotHeld /\ answer.bytes \in Seq(Bytes)
           /\ answer.x \in Nat /\ answer.y \in Nat
           /\ InGrid(held.layout, answer.y, answer.x, Len(answer.bytes))
           /\ AreRead(answer.bytes, answer.x, answer.y)

IInv ==
    /\ StorageTypeOK
    /\ op.kind \in {"none", "open", "create", "read", "write"}
    /\ op.kind = "none" => op = NoOp
    /\ creation # Idle => Creating("file")
    /\ OpenOK /\ CreateOK /\ HeldOK /\ RangeOK /\ AnswerOK

\* What a call to storage may answer.
LEMMA SizeOutcome ==
    ASSUME NEW s, NEW out \in SizeOutcomes(s), out.error = "none"
    PROVE  IsFile(s) /\ Len(Text(s)) <= SizeMax /\ out.size = Len(Text(s))
<1>1. "none" \notin SizeErrors(s)
    BY DEF SizeErrors
<1>2. out.error = "none" /\ ~ (out \in [error : SizeErrors(s), size : {0}])
    BY <1>1
<1>3. Sized(s) /\ out = [error |-> "none", size |-> Len(disk[s].bytes)]
    BY <1>2 DEF SizeOutcomes
<1>4. QED
    BY <1>3 DEF Sized, Text

\* A read that storage lets succeed returns what the file holds there.
LEMMA ReadOutcome ==
    ASSUME NEW s, NEW offset, NEW n, NEW out \in ReadOutcomes(s, offset, n), out.error = "none"
    PROVE  /\ IsFile(s) /\ Len(Text(s)) <= SizeMax /\ InRange(s, offset, n)
           /\ out.bytes = SubSeq(Text(s), offset + 1, offset + n)
<1>1. "none" \notin SizeErrors(s)
    BY DEF SizeErrors
<1>2. ~ (out \in [error : SizeErrors(s), bytes : {<<>>}])
    BY <1>1
<1>3. Sized(s) /\ InRange(s, offset, n) /\ out = [error |-> "none", bytes |-> Read(s, offset, n)]
    BY <1>2 DEF ReadOutcomes
<1>4. QED
    BY <1>3 DEF Sized, Text, Read

\* A write leaves the disk alone or puts the data, or where it fails a beginning
\* of them, in the place of what the file held.
LEMMA WriteOutcome ==
    ASSUME NEW s, NEW offset, NEW data, NEW out \in WriteOutcomes(s, offset, data)
    PROVE  \/ out.error # "none" /\ out.disk = disk
           \/ /\ IsFile(s) /\ Len(Text(s)) <= SizeMax /\ InRange(s, offset, Len(data))
              /\ \E part \in {data} \cup Torn(data) :
                     /\ out.disk = [disk EXCEPT ![s].bytes = Patched(Text(s), offset, part)]
                     /\ out.error = "none" => part = data
<1>1. "none" \notin SizeErrors(s)
    BY DEF SizeErrors
<1>2. CASE out \in [error : SizeErrors(s), disk : {disk}]
    BY <1>1, <1>2
<1>3. CASE ~ Sized(s)
    BY <1>2, <1>3 DEF WriteOutcomes
<1>4. CASE Sized(s) /\ ~ InRange(s, offset, Len(data))
    BY <1>2, <1>4 DEF WriteOutcomes
<1>5. CASE Sized(s) /\ InRange(s, offset, Len(data))
    <2> DEFINE Disk(part) == [disk EXCEPT ![s].bytes = Patched(@, offset, part)]
    <2>1. \A part : Disk(part) = [disk EXCEPT ![s].bytes = Patched(Text(s), offset, part)]
        BY DEF Text
    <2>2. WriteOutcomes(s, offset, data) =
              [error : SizeErrors(s), disk : {disk}] \cup
                  ({[error |-> "none", disk |-> Disk(data)]}
                   \cup (IF data = <<>> THEN {}
                         ELSE {[error |-> "write_failed", disk |-> Disk(part)] : part
                             \in Torn(data)}))
        BY <1>5, Zenon DEF WriteOutcomes
    <2> HIDE DEF Disk
    <2>3. \/ out \in [error : SizeErrors(s), disk : {disk}]
          \/ out = [error |-> "none", disk |-> Disk(data)]
          \/ \E part \in Torn(data) : out = [error |-> "write_failed", disk |-> Disk(part)]
        BY <2>2
    <2>4. CASE out = [error |-> "none", disk |-> Disk(data)]
        BY <1>5, <2>1, <2>4 DEF Sized, Text
    <2>5. CASE \E part \in Torn(data) : out = [error |-> "write_failed", disk |-> Disk(part)]
        BY <1>5, <2>1, <2>5 DEF Sized, Text
    <2>6. QED
        BY <1>2, <2>3, <2>4, <2>5
<1>6. QED
    BY <1>3, <1>4, <1>5

\* A text with a range replaced, byte by byte.
LEMMA PatchedIs ==
    ASSUME NEW t \in Seq(Bytes), NEW o \in Nat, NEW part \in Seq(Bytes), o + Len(part) <= Len(t)
    PROVE  LET new == Patched(t, o, part)
           IN  /\ new \in Seq(Bytes) /\ Len(new) = Len(t)
               /\ \A i \in 1 .. Len(t) :
                      new[i] = IF i > o /\ i <= o + Len(part) THEN part[i - o] ELSE t[i]
<1> DEFINE n == Len(part)
           a == SubSeq(t, 1, o)
           c == SubSeq(t, o + n + 1, Len(t))
           new == Patched(t, o, part)
<1>1. n \in Nat /\ Len(t) \in Nat /\ o + n <= Len(t)
    OBVIOUS
<1>2. /\ a \in Seq(Bytes) /\ Len(a) = o
      /\ \A i \in 1 .. o : a[i] = t[i]
    BY <1>1
<1>3. /\ c \in Seq(Bytes) /\ Len(c) = Len(t) - o - n
      /\ \A i \in 1 .. Len(t) - o - n : c[i] = t[o + n + i]
    <2> DEFINE from == o + n
               rest == Len(t) - o - n
    <2>1. from + rest = Len(t) /\ rest \in Nat /\ from \in Nat
        BY <1>1
    <2>2. c = SubSeq(t, from + 1, from + rest)
        BY <2>1
    <2> HIDE DEF c, from, rest
    <2>3. c \in Seq(Bytes) /\ Len(c) = rest /\ \A i \in 1 .. rest : c[i] = t[from + i]
        BY <2>1, <2>2, CutIs
    <2>4. QED
        BY <2>3 DEF from, rest
<1>4. new = a \o part \o c
    BY DEF Patched
<1> HIDE DEF a, c, n, new
<1>5. /\ a \o part \in Seq(Bytes) /\ Len(a \o part) = o + n
      /\ \A i \in 1 .. o : (a \o part)[i] = a[i]
      /\ \A i \in o + 1 .. o + n : (a \o part)[i] = part[i - o]
    BY <1>1, <1>2 DEF n
<1> DEFINE ab == a \o part
<1>6. new = ab \o c /\ ab \in Seq(Bytes) /\ Len(ab) = o + n
    BY <1>4, <1>5
<1> HIDE DEF ab
<1>7. /\ new \in Seq(Bytes) /\ Len(new) = Len(t)
      /\ \A i \in 1 .. o + n : new[i] = ab[i]
      /\ \A i \in o + n + 1 .. Len(t) : new[i] = c[i - (o + n)]
    <2>1. Len(new) = Len(t) /\ new \in Seq(Bytes)
        <3>1. ab \in Seq(Bytes) /\ c \in Seq(Bytes) /\ new = ab \o c
            BY <1>3, <1>6
        <3>2. ab \o c \in Seq(Bytes) /\ Len(ab \o c) = Len(ab) + Len(c)
            BY <3>1
        <3>3. (o + n) + (Len(t) - o - n) = Len(t)
            BY <1>1
        <3>4. QED
            BY <1>3, <1>6, <3>1, <3>2, <3>3
    <2>2. \A i \in 1 .. o + n : new[i] = ab[i]
        BY <1>1, <1>3, <1>6
    <2>3. ASSUME NEW i \in o + n + 1 .. Len(t) PROVE new[i] = c[i - (o + n)]
        <3>1. i \in 1 .. Len(ab) + Len(c) /\ ~ (i <= Len(ab)) /\ i - Len(ab) = i - (o + n)
            BY <1>1, <1>3, <1>6
        <3>2. QED
            BY <1>3, <1>6, <3>1, SMTT(30)
    <2>4. QED
        BY <2>1, <2>2, <2>3
<1>8. ASSUME NEW i \in 1 .. Len(t)
      PROVE  new[i] = IF i > o /\ i <= o + n THEN part[i - o] ELSE t[i]
    <2>1. CASE i <= o
        BY <1>1, <1>2, <1>5, <1>7, <2>1 DEF ab
    <2>2. CASE i > o /\ i <= o + n
        <3>1. i \in 1 .. o + n /\ i \in o + 1 .. o + n
            BY <1>1, <2>2
        <3>2. QED
            BY <1>5, <1>7, <2>2, <3>1 DEF ab
    <2>3. CASE i > o + n
        <3>1. i \in o + n + 1 .. Len(t) /\ i - (o + n) \in 1 .. Len(t) - o - n
              /\ o + n + (i - (o + n)) = i
            BY <1>1, <2>3
        <3>2. QED
            BY <1>1, <1>3, <1>7, <2>3, <3>1
    <2>4. QED
        BY <1>1, <2>1, <2>2, <2>3
<1>9. QED
    BY <1>7, <1>8 DEF new, n

\* A torn write is a beginning of the data.
LEMMA TornIs ==
    ASSUME NEW data \in Seq(Bytes), NEW part \in {data} \cup Torn(data)
    PROVE  /\ part \in Seq(Bytes) /\ Len(part) \in 0 .. Len(data)
           /\ \A i \in 1 .. Len(part) : part[i] = data[i]
<1>1. CASE part = data
    BY <1>1
<1>2. CASE part \in Torn(data)
    <2>1. PICK k \in 0 .. Len(data) : part = SubSeq(data, 1, k)
        BY <1>2 DEF Torn
    <2>2. QED
        BY <2>1
<1>3. QED
    BY <1>1, <1>2

\* What a text means is in its bytes up to the terminator, and in its length.
LEMMA EndKept ==
    ASSUME NEW t \in Seq(Bytes), NEW u \in Seq(Bytes), Len(u) = Len(t), Ends(t) # {},
           \A i \in 1 .. End(t) + 1 : u[i] = t[i]
    PROVE  Ends(u) # {} /\ End(u) = End(t)
<1> DEFINE k == End(t)
<1>1. /\ k \in Ends(t) /\ k \in 1 .. Len(t) - 1 /\ t[k] = LF /\ t[k + 1] = LF
      /\ \A i \in Ends(t) : k <= i
    BY EndIs
<1>2. Len(t) \in Nat /\ Len(u) = Len(t)
    OBVIOUS
<1> HIDE DEF k
<1>3. \A i \in 1 .. k + 1 : u[i] = t[i]
    BY DEF k
<1>4. k \in Ends(u)
    BY <1>1, <1>2, <1>3 DEF Ends
<1>5. Unended(u, k)
    <2>1. SUFFICES ASSUME NEW i \in 1 .. k - 1, u[i] = LF, u[i + 1] = LF PROVE FALSE
        BY DEF Unended
    <2>2. t[i] = LF /\ t[i + 1] = LF
        BY <1>1, <1>3, <2>1
    <2>3. i \in Ends(t) /\ ~ (k <= i)
        BY <1>1, <1>2, <2>2 DEF Ends
    <2>4. QED
        BY <1>1, <2>3
<1>6. QED
    BY <1>4, <1>5, EndIs DEF k

\* Texts of one size with the same metadata mean the same, whatever their rows hold.
LEMMA MeaningKept ==
    ASSUME NEW t \in Seq(Bytes), NEW u \in Seq(Bytes), Len(u) = Len(t), Ends(t) # {},
           \A i \in 1 .. End(t) + 1 : u[i] = t[i]
    PROVE  Meaning(u) = Meaning(t) /\ (Unwrapped(u) <=> Unwrapped(t))
<1> DEFINE k == End(t)
           S == LineStarts(t, k)
<1>1. k \in 1 .. Len(t) - 1 /\ t[k] = LF /\ Len(t) \in Nat /\ Ends(u) # {} /\ End(u) = k
    BY EndIs, EndKept
<1> HIDE DEF k
<1>2. \A i \in 1 .. k + 1 : u[i] = t[i]
    BY DEF k
<1>3. LineStarts(u, k) = S
    <2>1. \A i \in 1 .. k : i = 1 \/ u[i - 1] = t[i - 1]
        BY <1>1, <1>2
    <2>2. QED
        BY <2>1 DEF LineStarts
<1>4. S \subseteq 1 .. k
    BY DEF LineStarts
<1>5. ASSUME NEW i \in S PROVE LineAt(u, i) = LineAt(t, i)
    <2>1. i \in Nat \ {0} /\ k \in i .. Len(t)
        BY <1>1, <1>4
    <2>2. PICK e \in i - 1 .. k - 1 : EndsAfter(t, i, e)
        BY <1>1, <2>1, LineEnds
    <2>3. EndsAfter(u, i, e)
        <3>1. e + 1 \in 1 .. k + 1 /\ \A j \in i .. e : j \in 1 .. k + 1
            BY <1>1, <2>1
        <3>2. QED
            BY <1>1, <1>2, <2>2, <3>1 DEF EndsAfter
    <2>4. LineAt(t, i) = SubSeq(t, i, e) /\ LineAt(u, i) = SubSeq(u, i, e)
        BY <2>1, <2>2, <2>3, LineIs
    <2>5. SubSeq(u, i, e) = SubSeq(t, i, e)
        <3>1. \A j \in 1 .. e - i + 1 : i + j - 1 \in 1 .. k + 1
            BY <1>1, <2>1
        <3>2. /\ SubSeq(t, i, e) = [j \in 1 .. e - i + 1 |-> t[i + j - 1]]
              /\ SubSeq(u, i, e) = [j \in 1 .. e - i + 1 |-> u[i + j - 1]]
            BY <1>1, <2>1
        <3>3. QED
            BY <1>2, <3>1, <3>2
    <2>6. QED
        BY <2>4, <2>5
<1> HIDE DEF S
<1>6. ASSUME NEW A \in SUBSET S, NEW key PROVE GoodLines(u, A, key) = GoodLines(t, A, key)
    BY <1>5 DEF GoodLines
<1>7. ASSUME NEW i \in S PROVE LineError(u, S, i) = LineError(t, S, i)
    <2> DEFINE A == {j \in S : j < i}
    <2>1. \A key : GoodLines(u, A, key) = GoodLines(t, A, key)
        BY <1>6
    <2>2. LineAt(u, i) = LineAt(t, i)
        BY <1>5
    <2> HIDE DEF A
    <2>3. \A x : x = A => LineError(u, S, i) = LineError(t, S, i)
        BY <2>1, <2>2 DEF LineError, A
    <2>4. QED
        BY <2>3
<1>8. Wrong(u, S) = Wrong(t, S)
    BY <1>7 DEF Wrong
<1>9. ASSUME NEW key, GoodLines(t, S, key) # {} PROVE Said(u, S, key) = Said(t, S, key)
    <2>1. GoodLines(u, S, key) = GoodLines(t, S, key) /\ GoodLines(t, S, key) \subseteq S
        BY <1>6 DEF GoodLines
    <2> DEFINE i == CHOOSE i \in GoodLines(t, S, key) : TRUE
    <2>2. i \in S
        BY <1>9, <2>1
    <2>3. /\ Said(t, S, key) = <<LineAt(t, i)[3], LineAt(t, i)[5]>>
          /\ Said(u, S, key) = <<LineAt(u, i)[3], LineAt(u, i)[5]>>
        BY <2>1 DEF Said
    <2> HIDE DEF i
    <2>4. QED
        BY <1>5, <2>2, <2>3
<1>10. Meaning(u) = Meaning(t)
    <2>1. LineStarts(t, End(t)) = S /\ LineStarts(u, End(u)) = S /\ End(t) = k
        BY <1>1, <1>3 DEF S, k
    <2>2. CASE Wrong(t, S) # {}
        <3> DEFINE i == CHOOSE n \in Wrong(t, S) : \A j \in Wrong(t, S) : n <= j
        <3>1. i \in S
            <4>1. Wrong(t, S) \in SUBSET Nat
                <5>1. Wrong(t, S) \subseteq S
                    BY DEF Wrong
                <5>2. S \subseteq Nat
                    BY <1>1, <1>4
                <5>3. QED
                    BY <5>1, <5>2
            <4>2. \E n \in Wrong(t, S) : \A j \in Wrong(t, S) : n <= j
                BY <2>2, <4>1, LeastNatural
            <4>3. i \in Wrong(t, S)
                BY <4>2
            <4>4. QED
                BY <4>3 DEF Wrong
        <3>2. Meaning(t) = Failure(LineError(t, S, i))
            BY <2>1, <2>2, MeaningIs
        <3>3. Meaning(u) = Failure(LineError(u, S, i))
            BY <1>1, <1>8, <2>1, <2>2, MeaningIs
        <3> HIDE DEF i
        <3>4. QED
            BY <1>7, <3>1, <3>2, <3>3
    <2>3. CASE Wrong(t, S) = {} /\ \E key \in Keys : GoodLines(t, S, key) = {}
        <3>1. \E key \in Keys : GoodLines(u, S, key) = {}
            BY <1>6, <2>3
        <3>2. Meaning(t) = Failure("MissingRecord")
            BY <2>1, <2>3, MeaningIs
        <3>3. Meaning(u) = Failure("MissingRecord")
            BY <1>1, <1>8, <2>1, <2>3, <3>1, MeaningIs
        <3>4. QED
            BY <3>2, <3>3
    <2>4. CASE Wrong(t, S) = {} /\ \A key \in Keys : GoodLines(t, S, key) # {}
        <3>1. \A key \in Keys : GoodLines(u, S, key) # {}
            BY <1>6, <2>4
        <3>2. Meaning(t) = Finalized([version |-> TRUE, dimensions |-> Said(t, S, D),
                                      position |-> Said(t, S, P)], k + 1, Len(t))
            BY <2>1, <2>4, MeaningIs
        <3>3. Meaning(u) = Finalized([version |-> TRUE, dimensions |-> Said(u, S, D),
                                      position |-> Said(u, S, P)], k + 1, Len(u))
            BY <1>1, <1>8, <2>1, <2>4, <3>1, MeaningIs
        <3>4. D \in Keys /\ P \in Keys
            BY DEF Keys
        <3>5. Said(u, S, D) = Said(t, S, D) /\ Said(u, S, P) = Said(t, S, P)
            BY <1>9, <2>4, <3>4
        <3>6. QED
            BY <3>2, <3>3, <3>5
    <2>5. QED
        BY <2>2, <2>3, <2>4
<1>11. Unwrapped(u) <=> Unwrapped(t)
    <2>1. \A i \in 1 .. k : u[i] = t[i]
        BY <1>1, <1>2
    <2>2. \A i \in 1 .. k, j \in {2, 4} : i > j => u[i - j] = t[i - j]
              /\ u[i - j + 1] = t[i - j + 1]
        BY <1>1, <1>2
    <2>3. End(t) = k /\ Ends(t) # {}
        BY DEF k
    <2>4. /\ Unwrapped(t) <=> \A i \in 1 .. k, j \in {2, 4} :
              t[i] \in Int
                  /\ t[i] > WideMax \div 2 => ~ (i > j /\ t[i - j] = P /\ t[i - j + 1] = Colon)
          /\ Unwrapped(u) <=> \A i \in 1 .. k, j \in {2, 4} :
              u[i] \in Int
                  /\ u[i] > WideMax \div 2 => ~ (i > j /\ u[i - j] = P /\ u[i - j + 1] = Colon)
        BY <1>1, <2>3, Zenon DEF Unwrapped
    <2> DEFINE Fits(v, i, j) ==
                   v[i] \in Int /\ v[i] > WideMax \div 2
                       => ~ (i > j /\ v[i - j] = P /\ v[i - j + 1] = Colon)
    <2>5. ASSUME NEW i \in 1 .. k, NEW j \in {2, 4} PROVE Fits(t, i, j) <=> Fits(u, i, j)
        <3>1. u[i] = t[i]
            BY <2>1
        <3>2. i > j => u[i - j] = t[i - j] /\ u[i - j + 1] = t[i - j + 1]
            BY <2>2
        <3>3. QED
            BY <3>1, <3>2, Zenon
    <2>6. QED
        BY <2>4, <2>5, Zenon
<1>12. QED
    BY <1>10, <1>11

\* A multiple of m.
LEMMA MultipleIs ==
    ASSUME NEW m \in Nat \ {0}, NEW h \in Nat, NEW i \in 1 .. h * m
    PROVE  i % m = 0 <=> \E q \in 1 .. h : i = q * m
<1>1. h * m \in Nat /\ i \in Nat /\ i >= 1
    OBVIOUS
<1>2. i % m = 0 => i = (i \div m) * m /\ i \div m \in Int
    BY <1>1
<1>3. ASSUME NEW q \in Int, i = q * m PROVE q \in 1 .. h
    <2>1. q >= 1
        <3>1. SUFFICES ASSUME q <= 0 PROVE FALSE
            OBVIOUS
        <3>2. q * m <= 0
            BY <3>1
        <3>3. QED
            BY <1>1, <1>3, <3>2
    <2>2. q <= h
        <3>1. SUFFICES ASSUME q >= h + 1 PROVE FALSE
            OBVIOUS
        <3>2. q * m >= (h + 1) * m /\ (h + 1) * m = h * m + m
            BY <3>1
        <3>3. QED
            BY <1>1, <1>3, <3>2
    <2>3. QED
        BY <2>1, <2>2
<1>4. ASSUME NEW q \in 1 .. h, i = q * m PROVE i % m = 0
    BY <1>1, <1>4
<1>5. QED
    BY <1>2, <1>3, <1>4

\* An extent a creation goes on with.
Legal(extent, p) ==
    /\ extent \in Extents /\ p \in Origins
    /\ 0 \notin {extent[1], extent[2]}
    /\ BlankSize(extent, p) <= SizeMax

\* The numbers create_blank_layer_source writes.
LEMMA LegalIs ==
    ASSUME NEW extent, NEW p, Legal(extent, p)
    PROVE  /\ extent[1] \in 1 .. SizeMax /\ extent[2] \in 1 .. SizeMax
           /\ p[1] \in CoordMin .. CoordMax /\ p[2] \in CoordMin .. CoordMax
           /\ p = <<p[1], p[2]>> /\ extent = <<extent[1], extent[2]>>
           /\ {extent[1], extent[2], p[1], p[2], 0, 1} \subseteq Bytes
           /\ SizeMax \in Nat \ {0}
           /\ 0 \in 0 .. SizeMax /\ 1 \in 0 .. SizeMax
<1>1. extent \in (0 .. SizeMax) \X (0 .. SizeMax)
    BY OperationAssumption DEF Legal
<1>2. p \in (CoordMin .. CoordMax) \X (CoordMin .. CoordMax)
    BY OperationAssumption DEF Legal
<1>3. SizeMax \in Nat \ {0} /\ extent[1] # 0 /\ extent[2] # 0
    BY StorageAssumption DEF Legal
<1>4. 0 .. SizeMax \subseteq Bytes /\ CoordMin .. CoordMax \subseteq Bytes
    BY OperationAssumption
<1>5. QED
    BY <1>1, <1>2, <1>3, <1>4

\* The metadata it writes, byte by byte.
LEMMA MetadataIs ==
    ASSUME NEW extent, NEW p, Legal(extent, p)
    PROVE  LET text == Metadata(extent[1], extent[2], p)
           IN  /\ text \in Seq(Bytes) /\ Len(text) = 19
               /\ text[1] = V /\ text[2] = Colon /\ text[3] = 1 /\ text[4] = Dot /\ text[5] = 0
               /\ text[6] = LF /\ text[7] = D /\ text[8] = Colon /\ text[9] = extent[1]
               /\ text[10] = Space /\ text[11] = extent[2] /\ text[12] = LF
               /\ text[13] = P /\ text[14] = Colon /\ text[15] = p[1] /\ text[16] = Space
               /\ text[17] = p[2] /\ text[18] = LF /\ text[19] = LF
<1>1. {LF, Space, Colon, Dot, V, D, P, extent[1], extent[2], p[1], p[2], 0, 1} \subseteq Bytes
    BY LegalIs, MarksDiffer
<1>2. QED
    BY <1>1 DEF Metadata

\* The size and the layout of a blank source, where the size fits an offset.
LEMMA BlankSizeIs ==
    ASSUME NEW extent, NEW p, Legal(extent, p)
    PROVE  /\ BlankLayout(extent, p) = Layout(extent[1], extent[2], p, 19)
           /\ IsLayout(BlankLayout(extent, p))
           /\ extent[2] * (extent[1] + 1) \in Nat
           /\ BlankSize(extent, p) = 19 + extent[2] * (extent[1] + 1)
           /\ BlankSize(extent, p) \in Nat /\ BlankSize(extent, p) <= SizeMax
<1>1. Len(Metadata(extent[1], extent[2], p)) = 19
    BY MetadataIs
<1>2. BlankLayout(extent, p) = Layout(extent[1], extent[2], p, 19)
    BY <1>1 DEF BlankLayout
<1>3. extent[1] \in Nat \ {0} /\ extent[2] \in Nat \ {0}
    BY LegalIs
<1>4. extent[2] * (extent[1] + 1) \in Nat
    BY <1>3
<1>5. IsLayout(BlankLayout(extent, p))
    BY <1>2, <1>3 DEF IsLayout, Layout
<1>6. BlankSize(extent, p) = 19 + extent[2] * (extent[1] + 1)
    BY <1>2 DEF BlankSize, Layout
<1>7. QED
    BY <1>2, <1>4, <1>5, <1>6 DEF Legal

\* Two texts as one.
LEMMA JoinIs ==
    ASSUME NEW t \in Seq(Bytes), NEW u \in Seq(Bytes)
    PROVE  /\ t \o u \in Seq(Bytes) /\ Len(t \o u) = Len(t) + Len(u)
           /\ \A i \in 1 .. Len(t) : (t \o u)[i] = t[i]
           /\ \A i \in 1 .. Len(u) : (t \o u)[Len(t) + i] = u[i]
OBVIOUS

\* The text of a creation, byte by byte.
LEMMA PartTextIs ==
    ASSUME NEW extent, NEW p, Legal(extent, p), NEW r
    PROVE  LET text == PartText(extent, p, r)
           IN  /\ text \in Seq(Bytes) /\ Len(text) = BlankSize(extent, p)
               /\ \A i \in 1 .. 19 : text[i] = Metadata(extent[1], extent[2], p)[i]
               /\ \A i \in 1 .. extent[2] * (extent[1] + 1) :
                      text[19 + i] = IF EndsRow(i, extent[1] + 1, r) THEN LF ELSE Space
<1> DEFINE a == Metadata(extent[1], extent[2], p)
           n == extent[2] * (extent[1] + 1)
           Ended(i) == EndsRow(i, extent[1] + 1, r)
           c == [i \in 1 .. n |-> IF Ended(i) THEN LF ELSE Space]
           text == PartText(extent, p, r)
<1>1. a \in Seq(Bytes) /\ Len(a) = 19
    BY MetadataIs
<1>2. n \in Nat /\ BlankSize(extent, p) = 19 + n
    BY BlankSizeIs
<1>3. text = a \o c
    BY DEF PartText
<1> HIDE DEF a, n, Ended, text
<1>4. LF \in Bytes /\ Space \in Bytes
    BY MarksDiffer
<1>5. /\ c \in Seq(Bytes) /\ Len(c) = n
      /\ \A i \in 1 .. n : c[i] = IF Ended(i) THEN LF ELSE Space
    BY <1>2, <1>4
<1> HIDE DEF c
<1>6. /\ a \o c \in Seq(Bytes) /\ Len(a \o c) = 19 + n
      /\ \A i \in 1 .. 19 : (a \o c)[i] = a[i]
    <2>1. /\ a \o c \in Seq(Bytes) /\ Len(a \o c) = Len(a) + Len(c)
          /\ \A i \in 1 .. Len(a) : (a \o c)[i] = a[i]
        <3>1. a \in Seq(Bytes) /\ c \in Seq(Bytes)
            BY <1>1, <1>5
        <3>2. QED
            BY <3>1, JoinIs
    <2>2. QED
        BY <1>1, <1>5, <2>1
<1>7. \A i \in 1 .. n : (a \o c)[19 + i] = c[i]
    <2>1. \A i \in 1 .. Len(c) : (a \o c)[Len(a) + i] = c[i]
        <3>1. a \in Seq(Bytes) /\ c \in Seq(Bytes)
            BY <1>1, <1>5
        <3>2. QED
            BY <3>1, JoinIs
    <2>2. QED
        BY <1>1, <1>5, <2>1
<1>8. QED
    BY <1>2, <1>3, <1>5, <1>6, <1>7 DEF a, n, Ended, text

\* Texts are the same when their bytes are.
LEMMA SameText ==
    ASSUME NEW t \in Seq(Bytes), NEW u \in Seq(Bytes), Len(t) = Len(u),
           \A i \in 1 .. Len(t) : t[i] = u[i]
    PROVE  t = u
OBVIOUS

\* A blank source is one whose rows all have their LF.
LEMMA BlankTextIs ==
    ASSUME NEW extent, NEW p, Legal(extent, p)
    PROVE  BlankText(extent, p) = PartText(extent, p, extent[2])
<1> DEFINE m == extent[1] + 1
           h == extent[2]
<1>1. m \in Nat \ {0} /\ h \in Nat
    BY LegalIs
<1> HIDE DEF m, h
<1>2. \A i \in 1 .. h * m : i % m = 0 <=> EndsRow(i, m, h)
    BY <1>1, MultipleIs DEF EndsRow
<1>3. [i \in 1 .. h * m |-> IF i % m = 0 THEN LF ELSE Space]
          = [i \in 1 .. h * m |-> IF EndsRow(i, m, h) THEN LF ELSE Space]
    BY <1>2
<1>4. QED
    BY <1>3 DEF BlankText, PartText, m, h

\* A new file holds spaces only.
LEMMA BlanksIs ==
    ASSUME NEW n \in Nat
    PROVE  /\ Blanks(n) \in Seq(Bytes) /\ Len(Blanks(n)) = n
           /\ \A i \in 1 .. n : Blanks(n)[i] = Space
<1>1. Space \in Bytes
    BY MarksDiffer
<1>2. QED
    BY <1>1 DEF Blanks

IsPart(text, extent, p, r) ==
    /\ text \in Seq(Bytes) /\ Len(text) = BlankSize(extent, p)
    /\ \A i \in 1 .. 19 : text[i] = Metadata(extent[1], extent[2], p)[i]
    /\ \A i \in 1 .. extent[2] * (extent[1] + 1) :
           text[19 + i] = IF EndsRow(i, extent[1] + 1, r) THEN LF ELSE Space

IsPatched(new, t, o, part) ==
    /\ new \in Seq(Bytes) /\ Len(new) = Len(t)
    /\ \A i \in 1 .. Len(t) : new[i] = IF i > o /\ i <= o + Len(part) THEN part[i - o] ELSE t[i]

\* The metadata in a new file, and one more row's LF.
LEMMA FirstPart ==
    ASSUME NEW extent, NEW p, Legal(extent, p)
    PROVE  Patched(Blanks(BlankSize(extent, p)), 0, Metadata(extent[1], extent[2], p))
               = PartText(extent, p, 0)
<1> DEFINE size == BlankSize(extent, p)
           n == extent[2] * (extent[1] + 1)
           a == Metadata(extent[1], extent[2], p)
           t == Blanks(size)
           u == Patched(t, 0, a)
           v == PartText(extent, p, 0)
<1>1. size \in Nat /\ size = 19 + n /\ n \in Nat /\ a \in Seq(Bytes) /\ Len(a) = 19
    BY BlankSizeIs, MetadataIs
<1>2. /\ v \in Seq(Bytes) /\ Len(v) = size
      /\ \A i \in 1 .. 19 : v[i] = a[i]
      /\ \A i \in 1 .. n : v[19 + i] = Space
    <2>1. /\ v \in Seq(Bytes) /\ Len(v) = size
          /\ \A i \in 1 .. 19 : v[i] = a[i]
          /\ \A i \in 1 .. n : v[19 + i] = IF EndsRow(i, extent[1] + 1, 0) THEN LF ELSE Space
        BY PartTextIs
    <2> HIDE DEF v, a, size, n
    <2>2. \A i : ~ EndsRow(i, extent[1] + 1, 0)
        BY DEF EndsRow
    <2>3. QED
        BY <2>1, <2>2
<1> HIDE DEF size, n, a, v
<1>3. t \in Seq(Bytes) /\ Len(t) = size /\ \A i \in 1 .. size : t[i] = Space
    BY <1>1, BlanksIs
<1> HIDE DEF t
<1>4. /\ u \in Seq(Bytes) /\ Len(u) = size
      /\ \A i \in 1 .. size : u[i] = IF i > 0 /\ i <= 0 + 19 THEN a[i - 0] ELSE t[i]
    <2>1. 0 + Len(a) <= Len(t)
        BY <1>1, <1>3
    <2>2. /\ u \in Seq(Bytes) /\ Len(u) = Len(t)
          /\ \A i \in 1 .. Len(t) : u[i] = IF i > 0 /\ i <= 0 + Len(a) THEN a[i - 0] ELSE t[i]
        <3>1. \A x \in Nat : x + Len(a) <= Len(t) => IsPatched(Patched(t, x, a), t, x, a)
            BY <1>1, <1>3, PatchedIs DEF IsPatched
        <3>2. IsPatched(u, t, 0, a)
            BY <2>1, <3>1
        <3> HIDE DEF u
        <3>3. QED
            BY <3>2 DEF IsPatched
    <2> HIDE DEF u
    <2>3. QED
        BY <1>1, <1>3, <2>2
<1> HIDE DEF u
<1>5. ASSUME NEW i \in 1 .. size PROVE u[i] = v[i]
    <2>1. CASE i <= 19
        <3>1. i \in 1 .. 19 /\ i - 0 = i /\ i > 0 /\ i <= 0 + 19
            BY <1>1, <2>1
        <3>2. QED
            BY <1>2, <1>4, <3>1
    <2>2. CASE i > 19
        <3>1. i - 19 \in 1 .. n /\ 19 + (i - 19) = i /\ ~ (i <= 0 + 19)
            BY <1>1, <2>2
        <3>2. v[i] = Space
            BY <1>2, <3>1
        <3>3. QED
            BY <1>3, <1>4, <3>1, <3>2
    <2>3. QED
        BY <1>1, <2>1, <2>2
<1>6. u = v
    BY <1>2, <1>4, <1>5, SameText
<1>7. QED
    BY <1>6 DEF u, v, t, a, size

\* write_row_terminator: the LF of a row makes the next part of the text, and is
\* within the file.
LEMMA NextPart ==
    ASSUME NEW extent, NEW p, Legal(extent, p), NEW r \in 0 .. extent[2] - 1
    PROVE  /\ Patched(PartText(extent, p, r), TerminatorOffset(BlankLayout(extent, p), r), <<LF>>)
                  = PartText(extent, p, r + 1)
           /\ TerminatorOffset(BlankLayout(extent, p), r) \in Nat
           /\ TerminatorOffset(BlankLayout(extent, p), r) + 1 <= Len(PartText(extent, p, r))
<1> DEFINE m == extent[1] + 1
           h == extent[2]
           n == h * m
           o == TerminatorOffset(BlankLayout(extent, p), r)
           a == Metadata(extent[1], extent[2], p)
           t == PartText(extent, p, r)
           v == PartText(extent, p, r + 1)
           u == Patched(t, o, <<LF>>)
<1>1. m \in Nat \ {0} /\ m >= 2 /\ h \in Nat /\ n \in Nat /\ r \in Nat /\ r + 1 <= h
    BY LegalIs, BlankSizeIs
<1>2. (r + 1) * m \in 1 .. n /\ (r + 1) * m = r * m + m /\ r * m \in Nat
    <2> HIDE DEF m, h
    <2>1. (r + 1) * m <= h * m /\ (r + 1) * m = r * m + m /\ r * m \in Nat /\ (r + 1) * m >= 1
        BY <1>1
    <2>2. QED
        BY <1>1, <2>1
<1>3. o = 19 + (r + 1) * m - 1
    <2>1. o = 19 + r * m + extent[1]
        BY BlankSizeIs DEF TerminatorOffset, Layout
    <2>2. extent[1] = m - 1 /\ m \in Int
        BY <1>1, LegalIs
    <2> HIDE DEF o, m
    <2>3. QED
        BY <1>2, <2>1, <2>2
<1>4. /\ t \in Seq(Bytes) /\ Len(t) = 19 + n
      /\ \A i \in 1 .. 19 : t[i] = a[i]
      /\ \A i \in 1 .. n : t[19 + i] = IF EndsRow(i, m, r) THEN LF ELSE Space
    <2>1. /\ t \in Seq(Bytes) /\ Len(t) = BlankSize(extent, p)
          /\ \A i \in 1 .. 19 : t[i] = a[i]
          /\ \A i \in 1 .. n : t[19 + i] = IF EndsRow(i, m, r) THEN LF ELSE Space
        <3>1. \A x : IsPart(PartText(extent, p, x), extent, p, x)
            BY PartTextIs DEF IsPart
        <3>2. IsPart(t, extent, p, r)
            BY <3>1
        <3> HIDE DEF t
        <3>3. QED
            BY <3>2 DEF IsPart
    <2>2. BlankSize(extent, p) = 19 + n
        BY BlankSizeIs
    <2> HIDE DEF m, h, n, a, t
    <2>3. QED
        BY <2>1, <2>2
<1>5. /\ v \in Seq(Bytes) /\ Len(v) = 19 + n
      /\ \A i \in 1 .. 19 : v[i] = a[i]
      /\ \A i \in 1 .. n : v[19 + i] = IF EndsRow(i, m, r + 1) THEN LF ELSE Space
    <2>1. /\ v \in Seq(Bytes) /\ Len(v) = BlankSize(extent, p)
          /\ \A i \in 1 .. 19 : v[i] = a[i]
          /\ \A i \in 1 .. n : v[19 + i] = IF EndsRow(i, m, r + 1) THEN LF ELSE Space
        BY PartTextIs
    <2>2. BlankSize(extent, p) = 19 + n
        BY BlankSizeIs
    <2> HIDE DEF m, h, n, a, v
    <2>3. QED
        BY <2>1, <2>2
<1> HIDE DEF m, h, n, o, a, t, v, u
<1>6. o \in Nat /\ o + 1 <= Len(t) /\ <<LF>> \in Seq(Bytes) /\ Len(<<LF>>) = 1
    <2>1. o \in Nat /\ o + 1 <= Len(t)
        <3> DEFINE e == (r + 1) * m
        <3>1. e \in 1 .. n /\ n \in Nat /\ o = 19 + e - 1 /\ Len(t) = 19 + n
            BY <1>1, <1>2, <1>3, <1>4
        <3> HIDE DEF e
        <3>2. QED
            BY <3>1
    <2>2. LF \in Bytes
        BY MarksDiffer
    <2>3. QED
        BY <2>1, <2>2
<1>7. /\ u \in Seq(Bytes) /\ Len(u) = Len(t)
      /\ \A i \in 1 .. Len(t) : u[i] = IF i > o /\ i <= o + 1 THEN LF ELSE t[i]
    <2>1. /\ u \in Seq(Bytes) /\ Len(u) = Len(t)
          /\ \A i \in 1 .. Len(t) : u[i] = IF i > o /\ i <= o + 1 THEN <<LF>>[i - o] ELSE t[i]
        BY <1>4, <1>6, PatchedIs DEF u
    <2>2. \A i \in 1 .. Len(t) : i > o /\ i <= o + 1 => i - o = 1
        <3>1. SUFFICES ASSUME NEW i \in Int, i > o, i <= o + 1 PROVE i - o = 1
            BY <1>1, <1>4
        <3>2. QED
            BY <1>6, <3>1
    <2>3. QED
        BY <2>1, <2>2
<1>8. ASSUME NEW i \in 1 .. 19 + n PROVE u[i] = v[i]
    <2>1. CASE i <= 19
        <3>1. i \in 1 .. 19 /\ ~ (i > o)
            BY <1>1, <1>2, <1>3, <1>6, <2>1
        <3>2. i \in 1 .. Len(t)
            BY <1>4
        <3>3. QED
            BY <1>4, <1>5, <1>7, <3>1, <3>2
    <2>2. CASE i > 19
        <3> DEFINE j == i - 19
        <3>1. j \in 1 .. n /\ 19 + j = i /\ i \in 1 .. Len(t)
            <4>1. n \in Nat /\ Len(t) = 19 + n /\ i \in 1 .. 19 + n
                BY <1>1, <1>4
            <4>2. i \in 1 .. Len(t)
                BY <4>1
            <4>3. i - 19 \in 1 .. n /\ 19 + (i - 19) = i
                BY <2>2, <4>1
            <4>4. QED
                BY <4>2, <4>3
        <3>2. i > o /\ i <= o + 1 <=> j = (r + 1) * m
            BY <1>1, <1>2, <1>3, <3>1
        <3> HIDE DEF j
        <3>3. EndsRow(j, m, r + 1) <=> EndsRow(j, m, r) \/ j = (r + 1) * m
            <4>1. \A q \in 1 .. r + 1 : q \in 1 .. r \/ q = r + 1
                BY <1>1
            <4>2. 1 .. r \subseteq 1 .. r + 1 /\ r + 1 \in 1 .. r + 1
                BY <1>1
            <4>3. QED
                BY <4>1, <4>2 DEF EndsRow
        <3>4. v[i] = IF EndsRow(j, m, r + 1) THEN LF ELSE Space
            BY <1>5, <3>1
        <3>5. t[i] = IF EndsRow(j, m, r) THEN LF ELSE Space
            BY <1>4, <3>1
        <3>6. u[i] = IF i > o /\ i <= o + 1 THEN LF ELSE t[i]
            BY <1>7, <3>1
        <3>7. QED
            BY <3>2, <3>3, <3>4, <3>5, <3>6
    <2>3. QED
        BY <1>1, <2>1, <2>2
<1>9. u = v
    BY <1>4, <1>5, <1>7, <1>8, SameText
<1>10. QED
    BY <1>6, <1>9 DEF u, v, t, o

\* A number of the text is one the signed type holds.
Small(t) == \A i \in 1 .. Len(t) : t[i] \in Int => t[i] <= WideMax \div 2

\* A text with small numbers only has none that turns negative.
LEMMA SmallUnwrapped ==
    ASSUME NEW t \in Seq(Bytes), Small(t)
    PROVE  Unwrapped(t)
<1>1. SUFFICES ASSUME Ends(t) # {}, NEW i \in 1 .. End(t), t[i] \in Int
          PROVE ~ (t[i] > WideMax \div 2)
    BY Zenon DEF Unwrapped
<1>2. i \in 1 .. Len(t) /\ WideMax \div 2 \in Int
    BY <1>1, EndIs, Middle, SMTT(30)
<1>3. QED
    BY <1>1, <1>2 DEF Small

\* A new file has no number.
LEMMA BlanksSmall ==
    ASSUME NEW n \in Nat
    PROVE  Small(Blanks(n))
<1>1. Space \notin Int
    BY FormatAssumption DEF Marks
<1>2. QED
    BY <1>1, BlanksIs DEF Small

\* The metadata of a blank source have small numbers only.
LEMMA MetadataSmall ==
    ASSUME NEW extent, NEW p, Legal(extent, p)
    PROVE  Small(Metadata(extent[1], extent[2], p))
<1> DEFINE a == Metadata(extent[1], extent[2], p)
           Good(b) == b \in Int => b <= WideMax \div 2
<1>1. \A b \in {LF, Space, Colon, Dot, V, D, P} : b \notin Int
    BY FormatAssumption DEF Marks
<1>2. \A n \in 0 .. SizeMax : n <= WideMax \div 2
    BY Middle, OperationAssumption
<1>3. \A n \in CoordMin .. CoordMax : n <= WideMax \div 2
    BY Middle DEF Signed
<1>4. Good(0) /\ Good(1) /\ Good(extent[1]) /\ Good(extent[2]) /\ Good(p[1]) /\ Good(p[2])
    <2>1. /\ 0 \in 0 .. SizeMax /\ 1 \in 0 .. SizeMax
          /\ extent[1] \in 0 .. SizeMax /\ extent[2] \in 0 .. SizeMax
          /\ p[1] \in CoordMin .. CoordMax /\ p[2] \in CoordMin .. CoordMax
        BY LegalIs
    <2>2. QED
        BY <1>2, <1>3, <2>1
<1>5. Good(LF) /\ Good(Space) /\ Good(Colon) /\ Good(Dot) /\ Good(V) /\ Good(D) /\ Good(P)
    BY <1>1
<1> HIDE DEF Good
<1>6. ASSUME NEW i \in 1 .. 19 PROVE Good(a[i])
    <2>1. i \in {1, 2, 3, 4, 5, 6, 7, 8, 9, 10, 11, 12, 13, 14, 15, 16, 17, 18, 19}
        OBVIOUS
    <2> HIDE DEF a
    <2>2. /\ a[1] = V /\ a[2] = Colon /\ a[3] = 1 /\ a[4] = Dot /\ a[5] = 0
          /\ a[6] = LF /\ a[7] = D /\ a[8] = Colon /\ a[9] = extent[1]
          /\ a[10] = Space /\ a[11] = extent[2] /\ a[12] = LF
          /\ a[13] = P /\ a[14] = Colon /\ a[15] = p[1] /\ a[16] = Space
          /\ a[17] = p[2] /\ a[18] = LF /\ a[19] = LF
        BY MetadataIs DEF a
    <2>3. QED
        BY <1>4, <1>5, <2>1, <2>2, Zenon
<1>7. Len(a) = 19
    BY MetadataIs
<1>8. QED
    BY <1>6, <1>7 DEF Small, Good

\* A write of small numbers to a text of small numbers makes another.
LEMMA PatchedSmall ==
    ASSUME NEW t \in Seq(Bytes), NEW o \in Nat, NEW part \in Seq(Bytes), o + Len(part) <= Len(t),
           Small(t), Small(part)
    PROVE  Small(Patched(t, o, part))
<1> DEFINE u == Patched(t, o, part)
<1>1. /\ u \in Seq(Bytes) /\ Len(u) = Len(t)
      /\ \A i \in 1 .. Len(t) : u[i] = IF i > o /\ i <= o + Len(part) THEN part[i - o] ELSE t[i]
    BY PatchedIs
<1> HIDE DEF u
<1>2. ASSUME NEW i \in 1 .. Len(t), u[i] \in Int PROVE u[i] <= WideMax \div 2
    <2>1. CASE i > o /\ i <= o + Len(part)
        <3>1. i - o \in 1 .. Len(part)
            BY <2>1
        <3>2. QED
            BY <1>1, <1>2, <2>1, <3>1 DEF Small
    <2>2. CASE ~ (i > o /\ i <= o + Len(part))
        BY <1>1, <1>2, <2>2 DEF Small
    <2>3. QED
        BY <2>1, <2>2
<1>3. QED
    BY <1>1, <1>2 DEF Small, u

\* A blank source has small numbers only, complete or not.
LEMMA PartSmall ==
    ASSUME NEW extent, NEW p, Legal(extent, p), NEW r
    PROVE  Small(PartText(extent, p, r))
<1> DEFINE t == PartText(extent, p, r)
           n == extent[2] * (extent[1] + 1)
<1>1. LF \notin Int /\ Space \notin Int
    BY FormatAssumption DEF Marks
<1>2. /\ t \in Seq(Bytes) /\ Len(t) = 19 + n /\ n \in Nat
      /\ \A i \in 1 .. 19 : t[i] = Metadata(extent[1], extent[2], p)[i]
      /\ \A i \in 1 .. n : t[19 + i] \in {LF, Space}
    <2>1. /\ t \in Seq(Bytes) /\ Len(t) = 19 + n /\ n \in Nat
          /\ \A i \in 1 .. 19 : t[i] = Metadata(extent[1], extent[2], p)[i]
        BY PartTextIs, BlankSizeIs
    <2>2. \A i \in 1 .. n : t[19 + i] = IF EndsRow(i, extent[1] + 1, r) THEN LF ELSE Space
        <3>1. \A x : IsPart(PartText(extent, p, x), extent, p, x)
            BY PartTextIs DEF IsPart
        <3>2. IsPart(t, extent, p, r)
            BY <3>1
        <3> HIDE DEF t
        <3>3. QED
            BY <3>2 DEF IsPart
    <2> HIDE DEF t, n
    <2>3. \A i \in 1 .. n : t[19 + i] \in {LF, Space}
        BY <2>2
    <2>4. QED
        BY <2>1, <2>3
<1> HIDE DEF t, n
<1>3. ASSUME NEW i \in 1 .. Len(t), t[i] \in Int PROVE t[i] <= WideMax \div 2
    <2>1. CASE i <= 19
        <3>1. i \in 1 .. 19
            BY <1>2, <2>1
        <3>2. Len(Metadata(extent[1], extent[2], p)) = 19
            BY MetadataIs
        <3>3. Small(Metadata(extent[1], extent[2], p))
            BY MetadataSmall
        <3>4. t[i] = Metadata(extent[1], extent[2], p)[i]
            BY <1>2, <3>1
        <3> DEFINE a == Metadata(extent[1], extent[2], p)
        <3> HIDE DEF a
        <3>5. Len(a) = 19 /\ Small(a) /\ t[i] = a[i]
            BY <3>2, <3>3, <3>4 DEF a
        <3>6. QED
            BY <1>3, <3>1, <3>5 DEF Small
    <2>2. CASE i > 19
        <3>1. i - 19 \in 1 .. n /\ 19 + (i - 19) = i
            BY <1>2, <2>2, SMTT(30)
        <3>2. t[i] \in {LF, Space}
            BY <1>2, <3>1
        <3>3. QED
            BY <1>1, <1>3, <3>2
    <2>3. QED
        BY <1>2, <2>1, <2>2
<1>4. QED
    BY <1>3 DEF Small, t

\* A record line whose payload is well formed.
GoodRecord(t, b, key) ==
    /\ t[b] = key /\ t[b + 1] = Colon /\ EndsAfter(t, b, b + 4)
    /\ t[b + 3] = IF key = V THEN Dot ELSE Space
    /\ t[b + 2] \in Int /\ t[b + 4] \in Int
    /\ key = V => t[b + 2] = 1 /\ t[b + 4] = 0
    /\ key = D => t[b + 2] \in 1 .. SizeMax /\ t[b + 4] \in 1 .. SizeMax
    /\ key = P => t[b + 2] \in CoordMin .. CoordMax /\ t[b + 4] \in CoordMin .. CoordMax

\* A line that gives a record gives it without an error.
LEMMA GoodRecordIs ==
    ASSUME NEW t \in Seq(Bytes), NEW b \in Nat \ {0}, NEW key \in Keys, GoodRecord(t, b, key)
    PROVE  LET line == LineAt(t, b)
           IN  /\ IsRecord(line) /\ line[1] = key /\ line[3] = t[b + 2] /\ line[5] = t[b + 4]
               /\ PayloadError(key, Payload(line)) = "none"
<1> DEFINE e == b + 4
           line == LineAt(t, b)
           payload == Payload(line)
<1>1. /\ EndsAfter(t, b, e) /\ e \in b - 1 .. Len(t) /\ e \in Int /\ b + 4 <= Len(t)
      /\ Len(t) \in Nat
    BY DEF GoodRecord, EndsAfter
<1>2. line = SubSeq(t, b, e)
    BY <1>1, LineIs
<1>3. /\ IsRecord(line) /\ line[1] = t[b] /\ line[3] = t[b + 2] /\ line[5] = t[b + 4]
      /\ payload = SubSeq(t, b + 2, e)
    <2>1. /\ e >= b /\ e >= b + 2 /\ e >= b + 4 /\ e >= b + 1
          /\ t[b] \in Keys /\ t[b + 1] = Colon
        BY DEF GoodRecord
    <2> HIDE DEF e, line
    <2>2. /\ e >= b => line[1] = t[b]
          /\ e >= b + 2 => line[3] = t[b + 2]
          /\ e >= b + 4 => line[5] = t[b + 4]
          /\ IsRecord(line) <=> e >= b + 1 /\ t[b] \in Keys /\ t[b + 1] = Colon
          /\ IsRecord(line) => Payload(line) = SubSeq(t, b + 2, e)
        BY <1>1, <1>2, LineFacts
    <2>3. QED
        BY <2>1, <2>2
<1>4. Len(payload) = 3 /\ payload[1] = t[b + 2] /\ payload[2] = t[b + 3] /\ payload[3] = t[b + 4]
    <2>1. e = (b + 1) + 3 /\ b + 2 = (b + 1) + 1 /\ b + 1 \in Nat /\ (b + 1) + 3 <= Len(t)
        BY <1>1
    <2>2. LET cut == SubSeq(t, (b + 1) + 1, (b + 1) + 3)
          IN  Len(cut) = 3 /\ \A k \in 1 .. 3 : cut[k] = t[(b + 1) + k]
        <3> DEFINE o == b + 1
        <3>1. o \in Nat /\ o + 3 <= Len(t)
            BY <2>1
        <3> HIDE DEF o
        <3>2. LET cut == SubSeq(t, o + 1, o + 3)
              IN  Len(cut) = 3 /\ \A k \in 1 .. 3 : cut[k] = t[o + k]
            BY <3>1, CutIs
        <3>3. QED
            BY <3>2 DEF o
    <2>3. payload = SubSeq(t, (b + 1) + 1, (b + 1) + 3)
        BY <1>3, <2>1
    <2>4. (b + 1) + 1 = b + 2 /\ (b + 1) + 2 = b + 3 /\ (b + 1) + 3 = b + 4
        OBVIOUS
    <2> HIDE DEF payload
    <2>5. /\ Len(payload) = 3 /\ payload[1] = t[(b + 1) + 1] /\ payload[2] = t[(b + 1) + 2]
          /\ payload[3] = t[(b + 1) + 3]
        BY <2>2, <2>3
    <2>6. QED
        BY <2>4, <2>5
<1> HIDE DEF payload, line, e
<1> DEFINE a == t[b + 2]
           c == t[b + 4]
           separator == IF key = V THEN Dot ELSE Space
           least == IF key = P THEN -(WideMax \div 2) - 1 ELSE 0
<1>5. /\ t[b + 3] = separator /\ a \in Int /\ c \in Int
      /\ key = V => a = 1 /\ c = 0
      /\ key = D => a \in 1 .. SizeMax /\ c \in 1 .. SizeMax
      /\ key = P => a \in CoordMin .. CoordMax /\ c \in CoordMin .. CoordMax
    BY DEF GoodRecord
<1> HIDE DEF a, c, separator
<1>6. a \notin Marks /\ c \notin Marks
    BY <1>5, FormatAssumption
<1>7. a \in least .. WideMax /\ c \in least .. WideMax
    <2>1. /\ WideMax \div 2 \in Nat /\ WideMax = 2 * (WideMax \div 2) + 1
          /\ SizeMax <= WideMax \div 2 /\ SizeMax \in Nat \ {0}
        BY Middle, OperationAssumption
    <2>2. /\ a \in CoordMin .. CoordMax => a \in Signed
          /\ c \in CoordMin .. CoordMax => c \in Signed
        BY Middle
    <2>3. key = V \/ key = D \/ key = P
        BY DEF Keys
    <2>4. CASE key = V
        BY <1>5, <2>1, <2>4, MarksDiffer, SMTT(30)
    <2>5. CASE key = D
        BY <1>5, <2>1, <2>5, MarksDiffer, SMTT(30)
    <2>6. CASE key = P
        <3>1. a \in Signed /\ c \in Signed
            BY <1>5, <2>2, <2>6
        <3>2. least = -(WideMax \div 2) - 1
            BY <2>6
        <3> HIDE DEF least
        <3>3. Signed \subseteq least .. WideMax
            BY <2>1, <3>2 DEF Signed
        <3>4. QED
            BY <3>1, <3>3
    <2>7. QED
        BY <2>3, <2>4, <2>5, <2>6
<1> HIDE DEF least
<1>8. Written(payload, separator, least)
    <2>1. \A j \in {1, 3} : payload[j] \notin Marks /\ payload[j] \in least .. WideMax
        BY <1>4, <1>6, <1>7 DEF a, c
    <2>2. Len(payload) = 3 /\ payload[2] = separator
        BY <1>4, <1>5
    <2>3. QED
        BY <2>1, <2>2 DEF Written
<1>9. PayloadError(key, payload) =
          IF key = V THEN IF a = 1 /\ c = 0 THEN "none" ELSE "UnsupportedVersion"
          ELSE IF key = D THEN IF 0 \in {a, c} THEN "ZeroDimension" ELSE "none"
          ELSE IF {a, c} \subseteq CoordMin .. CoordMax THEN "none" ELSE "Overflow"
    <2>1. payload[1] = a /\ payload[3] = c
        BY <1>4 DEF a, c
    <2>2. PayloadError(key, payload) =
              IF key = V THEN IF payload[1] = 1 /\ payload[3] = 0 THEN "none"
                  ELSE "UnsupportedVersion"
              ELSE IF key = D THEN IF 0 \in {payload[1], payload[3]} THEN "ZeroDimension"
                  ELSE "none"
              ELSE IF {payload[1], payload[3]} \subseteq CoordMin .. CoordMax THEN "none"
                  ELSE "Overflow"
        BY <1>8, PayloadErrorIs DEF separator, least
    <2>3. QED
        BY <2>1, <2>2
<1>10. PayloadError(key, payload) = "none"
    <2>1. key = D => 0 \notin {a, c}
        BY <1>5
    <2>2. key = V \/ key = D \/ key = P
        BY DEF Keys
    <2>3. QED
        BY <1>5, <1>9, <2>1, <2>2
<1>11. QED
    BY <1>3, <1>10 DEF GoodRecord, line, payload

\* The three lines of the metadata of a blank source.
BlankLines(t) ==
    /\ Ends(t) # {} /\ End(t) = 18 /\ LineStarts(t, 18) = {1, 7, 13}
    /\ LineStarts(t, 0) = {} /\ LineStarts(t, 6) = {1} /\ LineStarts(t, 12) = {1, 7}
    /\ GoodRecord(t, 1, V) /\ GoodRecord(t, 7, D) /\ GoodRecord(t, 13, P)

Headed(t, extent, p) ==
    /\ Len(t) >= 19
    /\ \A i \in 1 .. 19 : t[i] = Metadata(extent[1], extent[2], p)[i]

\* The lines of a blank source are its three records.
LEMMA BlankHasLines ==
    ASSUME NEW t \in Seq(Bytes), NEW extent, NEW p, Legal(extent, p), Headed(t, extent, p)
    PROVE  BlankLines(t)
<1> DEFINE a == Metadata(extent[1], extent[2], p)
<1>1. /\ a[1] = V /\ a[2] = Colon /\ a[3] = 1 /\ a[4] = Dot /\ a[5] = 0
      /\ a[6] = LF /\ a[7] = D /\ a[8] = Colon /\ a[9] = extent[1]
      /\ a[10] = Space /\ a[11] = extent[2] /\ a[12] = LF
      /\ a[13] = P /\ a[14] = Colon /\ a[15] = p[1] /\ a[16] = Space
      /\ a[17] = p[2] /\ a[18] = LF /\ a[19] = LF
    BY MetadataIs
<1> HIDE DEF a
<1>0. Len(t) \in Nat /\ Len(t) >= 19
    BY DEF Headed
<1>2. \A i \in 1 .. 19 : t[i] = a[i]
    BY DEF Headed, a
<1>3. /\ t[1] = V /\ t[2] = Colon /\ t[3] = 1 /\ t[4] = Dot /\ t[5] = 0
      /\ t[6] = LF /\ t[7] = D /\ t[8] = Colon /\ t[9] = extent[1]
      /\ t[10] = Space /\ t[11] = extent[2] /\ t[12] = LF
      /\ t[13] = P /\ t[14] = Colon /\ t[15] = p[1] /\ t[16] = Space
      /\ t[17] = p[2] /\ t[18] = LF /\ t[19] = LF
    <2>1. \A i \in {1, 2, 3, 4, 5, 6, 7, 8, 9, 10, 11, 12, 13, 14, 15, 16, 17, 18, 19} : t[i] = a[i]
        <3>1. {1, 2, 3, 4, 5, 6, 7, 8, 9, 10, 11, 12, 13, 14, 15, 16, 17, 18, 19} \subseteq 1 .. 19
            OBVIOUS
        <3>2. QED
            BY <1>2, <3>1, Zenon
    <2>2. /\ t[1] = a[1] /\ t[2] = a[2] /\ t[3] = a[3] /\ t[4] = a[4] /\ t[5] = a[5]
          /\ t[6] = a[6] /\ t[7] = a[7] /\ t[8] = a[8] /\ t[9] = a[9] /\ t[10] = a[10]
          /\ t[11] = a[11] /\ t[12] = a[12] /\ t[13] = a[13] /\ t[14] = a[14] /\ t[15] = a[15]
          /\ t[16] = a[16] /\ t[17] = a[17] /\ t[18] = a[18] /\ t[19] = a[19]
        BY <2>1
    <2>3. QED
        BY <1>1, <2>2, Zenon
<1>4. /\ extent[1] \in 1 .. SizeMax /\ extent[2] \in 1 .. SizeMax
      /\ p[1] \in CoordMin .. CoordMax /\ p[2] \in CoordMin .. CoordMax
      /\ extent[1] \in Int /\ extent[2] \in Int /\ p[1] \in Int /\ p[2] \in Int
    BY LegalIs
<1>5. /\ LF \notin Int
      /\ LF # V /\ LF # Colon /\ LF # Dot /\ LF # D /\ LF # P /\ LF # Space
      /\ LF # 0 /\ LF # 1 /\ LF # extent[1] /\ LF # extent[2] /\ LF # p[1] /\ LF # p[2]
    <2>1. LF \notin Int
        BY FormatAssumption DEF Marks
    <2>2. QED
        BY <1>4, <2>1, MarksDiffer
<1>6. /\ t[1] # LF /\ t[2] # LF /\ t[3] # LF /\ t[4] # LF /\ t[5] # LF
      /\ t[7] # LF /\ t[8] # LF /\ t[9] # LF /\ t[10] # LF /\ t[11] # LF
      /\ t[13] # LF /\ t[14] # LF /\ t[15] # LF /\ t[16] # LF /\ t[17] # LF
    BY <1>3, <1>5, Zenon
<1>7. \A i \in 1 .. 17 : t[i] = LF <=> i = 6 \/ i = 12
    <2>1. \A i \in 1 .. 17 : i \in {1, 2, 3, 4, 5, 7, 8, 9, 10, 11, 13, 14, 15, 16, 17}
                               \/ i = 6 \/ i = 12
        OBVIOUS
    <2>2. \A i \in {1, 2, 3, 4, 5, 7, 8, 9, 10, 11, 13, 14, 15, 16, 17} : t[i] # LF
        BY <1>6, Zenon
    <2>3. t[6] = LF /\ t[12] = LF
        BY <1>3
    <2>4. QED
        BY <2>1, <2>2, <2>3, Zenon
<1>8. Unended(t, 18)
    <2>1. SUFFICES ASSUME NEW i \in 1 .. 18 - 1, t[i] = LF, t[i + 1] = LF PROVE FALSE
        BY DEF Unended
    <2>2. i = 6 \/ i = 12
        <3>1. i \in 1 .. 17
            BY <2>1
        <3>2. QED
            BY <1>7, <2>1, <3>1
    <2>3. QED
        <3>1. t[6 + 1] # LF /\ t[12 + 1] # LF
            BY <1>6
        <3>2. QED
            BY <2>1, <2>2, <3>1
<1>9. 18 \in Ends(t)
    BY <1>0, <1>3 DEF Ends
<1>10. Ends(t) # {} /\ End(t) = 18
    BY <1>8, <1>9, EndIs
<1>11. LineStarts(t, 18) = {1, 7, 13}
    <2>1. \A i \in 2 .. 18 : t[i - 1] = LF <=> i = 7 \/ i = 13
        <3>1. SUFFICES ASSUME NEW i \in 2 .. 18 PROVE t[i - 1] = LF <=> i = 7 \/ i = 13
            OBVIOUS
        <3>2. i - 1 \in 1 .. 17
            OBVIOUS
        <3>3. t[i - 1] = LF <=> i - 1 = 6 \/ i - 1 = 12
            BY <1>7, <3>2
        <3>4. QED
            BY <3>3
    <2>2. \A i \in 1 .. 18 : i = 1 \/ i \in 2 .. 18
        OBVIOUS
    <2>3. \A i \in 1 .. 18 : (i = 1 \/ t[i - 1] = LF) <=> i \in {1, 7, 13}
        BY <2>1, <2>2
    <2>4. QED
        <3>1. LineStarts(t, 18) = {i \in 1 .. 18 : i \in {1, 7, 13}}
            BY <2>3, Zenon DEF LineStarts
        <3>2. {1, 7, 13} \subseteq 1 .. 18
            OBVIOUS
        <3>3. QED
            BY <3>1, <3>2, Zenon
<1>12. LineStarts(t, 0) = {} /\ LineStarts(t, 6) = {1} /\ LineStarts(t, 12) = {1, 7}
    <2>1. \A k \in 0 .. 18 : LineStarts(t, k) = {i \in LineStarts(t, 18) : i <= k}
        <3>1. SUFFICES ASSUME NEW k \in 0 .. 18
                       PROVE  LineStarts(t, k) = {i \in LineStarts(t, 18) : i <= k}
            OBVIOUS
        <3>2. \A i : i \in 1 .. k <=> i \in 1 .. 18 /\ i <= k
            BY SMTT(30)
        <3>3. QED
            BY <3>2 DEF LineStarts
    <2>2. 0 \in 0 .. 18 /\ 6 \in 0 .. 18 /\ 12 \in 0 .. 18
        OBVIOUS
    <2>3. /\ {i \in {1, 7, 13} : i <= 0} = {} /\ {i \in {1, 7, 13} : i <= 6} = {1}
          /\ {i \in {1, 7, 13} : i <= 12} = {1, 7}
        <3>1. /\ ~ (1 <= 0) /\ ~ (7 <= 0) /\ ~ (13 <= 0) /\ 1 <= 6 /\ ~ (7 <= 6) /\ ~ (13 <= 6)
              /\ 1 <= 12 /\ 7 <= 12 /\ ~ (13 <= 12)
            OBVIOUS
        <3>2. QED
            BY <3>1, Zenon
    <2>4. QED
        BY <1>11, <2>1, <2>2, <2>3
<1>13. EndsAfter(t, 1, 5) /\ EndsAfter(t, 7, 11) /\ EndsAfter(t, 13, 17)
    <2>1. /\ \A j \in 1 .. 5 : t[j] # LF
          /\ \A j \in 7 .. 11 : t[j] # LF
          /\ \A j \in 13 .. 17 : t[j] # LF
        BY <1>7
    <2>2. QED
        <3>1. /\ 5 \in 1 - 1 .. Len(t) - 1 /\ 11 \in 7 - 1 .. Len(t) - 1
                     /\ 17 \in 13 - 1 .. Len(t) - 1
            BY <1>0
        <3>2. t[5 + 1] = LF /\ t[11 + 1] = LF /\ t[17 + 1] = LF
            BY <1>3
        <3>3. QED
            BY <2>1, <3>1, <3>2 DEF EndsAfter
<1>14. GoodRecord(t, 1, V)
    <2>1. /\ t[1] = V /\ t[1 + 1] = Colon /\ t[1 + 2] = 1 /\ t[1 + 3] = Dot /\ t[1 + 4] = 0
          /\ EndsAfter(t, 1, 1 + 4)
        BY <1>3, <1>13
    <2>2. V # D /\ V # P
        BY MarksDiffer
    <2>3. QED
        BY <2>1, <2>2 DEF GoodRecord
<1>15. GoodRecord(t, 7, D)
    <2>1. /\ t[7] = D /\ t[7 + 1] = Colon /\ t[7 + 2] = extent[1] /\ t[7 + 3] = Space
          /\ t[7 + 4] = extent[2] /\ EndsAfter(t, 7, 7 + 4)
        BY <1>3, <1>13
    <2>2. D # V /\ D # P
        BY MarksDiffer
    <2>3. QED
        BY <1>4, <2>1, <2>2 DEF GoodRecord
<1>16. GoodRecord(t, 13, P)
    <2>1. /\ t[13] = P /\ t[13 + 1] = Colon /\ t[13 + 2] = p[1] /\ t[13 + 3] = Space
          /\ t[13 + 4] = p[2] /\ EndsAfter(t, 13, 13 + 4)
        BY <1>3, <1>13
    <2>2. P # V /\ P # D
        BY MarksDiffer
    <2>3. QED
        BY <1>4, <2>1, <2>2 DEF GoodRecord
<1>17. QED
    BY <1>10, <1>11, <1>12, <1>14, <1>15, <1>16 DEF BlankLines

\* The lines of a blank source's metadata are good lines, one for each key.
LEMMA BlankLinesGood ==
    ASSUME NEW t \in Seq(Bytes), BlankLines(t)
    PROVE  LET T == LineStarts(t, 18)
           IN  /\ GoodLines(t, T, V) = {1} /\ GoodLines(t, T, D) = {7} /\ GoodLines(t, T, P) = {13}
               /\ Wrong(t, T) = {}
               /\ Said(t, T, D) = <<t[9], t[11]>> /\ Said(t, T, P) = <<t[15], t[17]>>
<1>1. /\ LineStarts(t, 18) = {1, 7, 13}
      /\ LineStarts(t, 0) = {} /\ LineStarts(t, 6) = {1} /\ LineStarts(t, 12) = {1, 7}
      /\ GoodRecord(t, 1, V) /\ GoodRecord(t, 7, D) /\ GoodRecord(t, 13, P)
    BY DEF BlankLines
<1>2. V # D /\ V # P /\ D # P /\ V \in Keys /\ D \in Keys /\ P \in Keys
    BY MarksDiffer DEF Keys
<1>3. /\ IsRecord(LineAt(t, 1)) /\ LineAt(t, 1)[1] = V
      /\ PayloadError(V, Payload(LineAt(t, 1))) = "none"
    BY <1>1, <1>2, GoodRecordIs
<1>4. /\ IsRecord(LineAt(t, 7)) /\ LineAt(t, 7)[1] = D
      /\ LineAt(t, 7)[3] = t[7 + 2] /\ LineAt(t, 7)[5] = t[7 + 4]
      /\ PayloadError(D, Payload(LineAt(t, 7))) = "none"
    BY <1>1, <1>2, GoodRecordIs
<1>5. /\ IsRecord(LineAt(t, 13)) /\ LineAt(t, 13)[1] = P
      /\ LineAt(t, 13)[3] = t[13 + 2] /\ LineAt(t, 13)[5] = t[13 + 4]
      /\ PayloadError(P, Payload(LineAt(t, 13))) = "none"
    BY <1>1, <1>2, GoodRecordIs
<1>6. \A T \in SUBSET {1, 7, 13} :
          /\ GoodLines(t, T, V) = T \cap {1} /\ GoodLines(t, T, D) = T \cap {7}
          /\ GoodLines(t, T, P) = T \cap {13}
    <2>1. SUFFICES ASSUME NEW T \in SUBSET {1, 7, 13}
                   PROVE  /\ GoodLines(t, T, V) = T \cap {1} /\ GoodLines(t, T, D) = T \cap {7}
                          /\ GoodLines(t, T, P) = T \cap {13}
        OBVIOUS
    <2> DEFINE Good(i, key) == /\ IsRecord(LineAt(t, i)) /\ LineAt(t, i)[1] = key
                               /\ PayloadError(key, Payload(LineAt(t, i))) = "none"
    <2>2. \A key : GoodLines(t, T, key) = {i \in T : Good(i, key)}
        BY DEF GoodLines
    <2>3. /\ Good(1, V) /\ ~ Good(1, D) /\ ~ Good(1, P)
          /\ ~ Good(7, V) /\ Good(7, D) /\ ~ Good(7, P)
          /\ ~ Good(13, V) /\ ~ Good(13, D) /\ Good(13, P)
        BY <1>2, <1>3, <1>4, <1>5
    <2> HIDE DEF Good
    <2>4. /\ {i \in T : Good(i, V)} = T \cap {1} /\ {i \in T : Good(i, D)} = T \cap {7}
          /\ {i \in T : Good(i, P)} = T \cap {13}
        BY <2>3
    <2>5. QED
        BY <2>2, <2>4
<1>7. /\ GoodLines(t, {1, 7, 13}, V) = {1} /\ GoodLines(t, {1, 7, 13}, D) = {7}
      /\ GoodLines(t, {1, 7, 13}, P) = {13}
      /\ GoodLines(t, {}, V) = {} /\ GoodLines(t, {1}, D) = {} /\ GoodLines(t, {1, 7}, P) = {}
    <2>1. /\ {1, 7, 13} \cap {1} = {1} /\ {1, 7, 13} \cap {7} = {7} /\ {1, 7, 13} \cap {13} = {13}
          /\ {} \cap {1} = {} /\ {1} \cap {7} = {} /\ {1, 7} \cap {13} = {}
        OBVIOUS
    <2>2. /\ {1, 7, 13} \in SUBSET {1, 7, 13} /\ {} \in SUBSET {1, 7, 13}
          /\ {1} \in SUBSET {1, 7, 13} /\ {1, 7} \in SUBSET {1, 7, 13}
        OBVIOUS
    <2>3. QED
        BY <1>6, <2>1, <2>2
<1>8. VerdictAt(t, 1) = "none" /\ VerdictAt(t, 7) = "none" /\ VerdictAt(t, 13) = "none"
    <2>1. LineStarts(t, 1 - 1) = {} /\ LineStarts(t, 7 - 1) = {1} /\ LineStarts(t, 13 - 1) = {1, 7}
        BY <1>1
    <2>2. VerdictAt(t, 1) = "none"
        BY <1>3, <1>7, <2>1 DEF VerdictAt, Verdict
    <2>3. VerdictAt(t, 7) = "none"
        BY <1>4, <1>7, <2>1 DEF VerdictAt, Verdict
    <2>4. VerdictAt(t, 13) = "none"
        BY <1>5, <1>7, <2>1 DEF VerdictAt, Verdict
    <2>5. QED
        BY <2>2, <2>3, <2>4
<1>9. Wrong(t, LineStarts(t, 18)) = {}
    <2>1. \A i \in LineStarts(t, 18) : LineError(t, LineStarts(t, 18), i) = VerdictAt(t, i)
        BY LineErrorIs
    <2>2. \A i \in LineStarts(t, 18) : VerdictAt(t, i) = "none"
        BY <1>1, <1>8
    <2>3. QED
        BY <2>1, <2>2 DEF Wrong
<1>10. /\ Said(t, {1, 7, 13}, D) = <<t[9], t[11]>>
       /\ Said(t, {1, 7, 13}, P) = <<t[15], t[17]>>
    <2>1. (CHOOSE i \in {7} : TRUE) = 7 /\ (CHOOSE i \in {13} : TRUE) = 13
        OBVIOUS
    <2>2. Said(t, {1, 7, 13}, D) = <<LineAt(t, 7)[3], LineAt(t, 7)[5]>>
        BY <1>7, <2>1 DEF Said
    <2>3. Said(t, {1, 7, 13}, P) = <<LineAt(t, 13)[3], LineAt(t, 13)[5]>>
        BY <1>7, <2>1 DEF Said
    <2>4. 7 + 2 = 9 /\ 7 + 4 = 11 /\ 13 + 2 = 15 /\ 13 + 4 = 17
        OBVIOUS
    <2>5. QED
        BY <1>4, <1>5, <2>2, <2>3, <2>4
<1>11. QED
    BY <1>1, <1>7, <1>9, <1>10

\* A blank source means what it was asked for.
LEMMA BlankMeans ==
    ASSUME NEW extent, NEW p, Legal(extent, p)
    PROVE  LET t == BlankText(extent, p)
           IN  /\ t \in Seq(Bytes) /\ Len(t) = BlankSize(extent, p) /\ Unwrapped(t)
               /\ Meaning(t) = BlankLayout(extent, p)
               /\ \A i \in 1 .. extent[2] * (extent[1] + 1) :
                      t[19 + i] = IF EndsRow(i, extent[1] + 1, extent[2]) THEN LF ELSE Space
<1> DEFINE t == BlankText(extent, p)
           n == extent[2] * (extent[1] + 1)
           T == LineStarts(t, 18)
<1>1. t = PartText(extent, p, extent[2])
    BY BlankTextIs
<1>2. IsPart(t, extent, p, extent[2])
    <2>1. \A x : IsPart(PartText(extent, p, x), extent, p, x)
        BY PartTextIs DEF IsPart
    <2>2. QED
        BY <1>1, <2>1
<1>3. Small(t)
    BY <1>1, PartSmall
<1> HIDE DEF t
<1>4. /\ t \in Seq(Bytes) /\ Len(t) = BlankSize(extent, p)
      /\ \A i \in 1 .. 19 : t[i] = Metadata(extent[1], extent[2], p)[i]
      /\ \A i \in 1 .. n : t[19 + i] = IF EndsRow(i, extent[1] + 1, extent[2]) THEN LF ELSE Space
    BY <1>2 DEF IsPart
<1> HIDE DEF n
<1>5. n \in Nat /\ Len(t) = 19 + n /\ 19 + n <= SizeMax /\ Len(t) >= 19
    BY <1>4, BlankSizeIs, SMTT(30) DEF n
<1>6. Unwrapped(t)
    BY <1>3, <1>4, SmallUnwrapped
<1>7. Headed(t, extent, p)
    BY <1>4, <1>5 DEF Headed
<1>8. BlankLines(t)
    BY <1>4, <1>7, BlankHasLines
<1>9. t[9] = extent[1] /\ t[11] = extent[2] /\ t[15] = p[1] /\ t[17] = p[2]
    <2>1. 9 \in 1 .. 19 /\ 11 \in 1 .. 19 /\ 15 \in 1 .. 19 /\ 17 \in 1 .. 19
        OBVIOUS
    <2> DEFINE a == Metadata(extent[1], extent[2], p)
    <2>2. a[9] = extent[1] /\ a[11] = extent[2] /\ a[15] = p[1] /\ a[17] = p[2]
        BY MetadataIs
    <2>3. t[9] = a[9] /\ t[11] = a[11] /\ t[15] = a[15] /\ t[17] = a[17]
        BY <1>4, <2>1
    <2> HIDE DEF a
    <2>4. QED
        BY <2>2, <2>3
<1>10. Meaning(t) = Finalized([version |-> TRUE, dimensions |-> <<extent[1], extent[2]>>,
                               position |-> <<p[1], p[2]>>], 19, Len(t))
    <2>1. /\ Wrong(t, T) = {}
          /\ GoodLines(t, T, V) = {1} /\ GoodLines(t, T, D) = {7} /\ GoodLines(t, T, P) = {13}
          /\ Said(t, T, D) = <<t[9], t[11]>> /\ Said(t, T, P) = <<t[15], t[17]>>
        BY <1>4, <1>8, BlankLinesGood
    <2>2. \A key \in Keys : GoodLines(t, T, key) # {}
        BY <2>1 DEF Keys
    <2>3. Ends(t) # {} /\ End(t) = 18
        BY <1>8 DEF BlankLines
    <2> HIDE DEF T
    <2>4. LineStarts(t, End(t)) = T /\ End(t) + 1 = 19
        BY <2>3 DEF T
    <2>5. Meaning(t) = Finalized([version |-> TRUE, dimensions |-> Said(t, T, D),
                                  position |-> Said(t, T, P)], 19, Len(t))
        BY <2>1, <2>2, <2>3, <2>4, MeaningIs
    <2>6. QED
        BY <1>9, <2>1, <2>5
<1>11. Meaning(t) = Layout(extent[1], extent[2], p, 19)
    <2>1. /\ extent[1] \in 1 .. SizeMax /\ extent[2] \in 1 .. SizeMax /\ p = <<p[1], p[2]>>
          /\ SizeMax \in Nat
        BY LegalIs
    <2>2. AsUnsigned(extent[1]) = extent[1] /\ AsUnsigned(extent[2]) = extent[2]
        BY <2>1 DEF AsUnsigned
    <2>3. Uint32Max = SizeMax
        BY OperationAssumption
    <2> DEFINE core == [version |-> TRUE, dimensions |-> <<extent[1], extent[2]>>, position |-> p]
    <2>4. /\ core.version = TRUE /\ core.dimensions # <<>> /\ core.position # <<>>
          /\ core.dimensions[1] = extent[1] /\ core.dimensions[2] = extent[2] /\ core.position = p
        <3>1. /\ core.version = TRUE /\ core.dimensions = <<extent[1], extent[2]>>
              /\ core.position = p
            OBVIOUS
        <3> HIDE DEF core
        <3>2. \A a, b : /\ <<a, b>> # <<>> /\ <<a, b>>[1] = a /\ <<a, b>>[2] = b
            OBVIOUS
        <3>3. p # <<>>
            BY <2>1, <3>2, ZenonT(60)
        <3>4. QED
            BY <3>1, <3>2, <3>3
    <2> HIDE DEF core
    <2>5. ~ (extent[1] > Uint32Max) /\ ~ (extent[2] > Uint32Max)
        BY <2>1, <2>3
    <2>6. ~ (19 + extent[2] * (extent[1] + 1) > Uint32Max)
              /\ 19 + extent[2] * (extent[1] + 1) = Len(t)
        <3>1. ~ (19 + n > Uint32Max) /\ 19 + n = Len(t)
            BY <1>5, <2>1, <2>3
        <3>2. QED
            BY <3>1 DEF n
    <2>7. Finalized(core, 19, Len(t)) = Layout(extent[1], extent[2], p, 19)
        BY <2>2, <2>4, <2>5, <2>6, Zenon DEF Finalized
    <2>8. QED
        BY <1>10, <2>1, <2>7 DEF core
<1>12. QED
    BY <1>4, <1>6, <1>11, BlankSizeIs DEF t, n

\* An operation that has returned asks nothing of the operation in progress.
LEMMA Returned ==
    ASSUME op' = NoOp
    PROVE  op'.kind = "none" /\ OpenOK' /\ CreateOK' /\ RangeOK'
BY DEF OpenOK, CreateOK, RangeOK, NoOp

\* An answer that says no more than its error.
LEMMA PlainAnswer ==
    ASSUME op' = NoOp, NEW error \in {"none", "ZeroDimension", "Overflow", "StorageFailed",
                                      "OutOfRange", "MalformedData"},
           answer'.error = error,
           \/ answer'.of = "create" \/ answer'.of = "write"
           \/ answer'.of \in {"open", "read"} /\ error \in {"StorageFailed", "OutOfRange",
                                                            "MalformedData"},
           answer'.of = "open" => error = "StorageFailed"
    PROVE  AnswerOK'
BY DEF AnswerOK, NoOp, FormatErrors

\* Nothing has been answered yet.
LEMMA NothingAnswered ==
    ASSUME answer' = NoAnswer
    PROVE  AnswerOK'
BY DEF AnswerOK, NoAnswer

\* No layout is held.
LEMMA NothingHeld ==
    ASSUME held' = NotHeld
    PROVE  HeldOK'
BY DEF HeldOK

\* What is held stays as the file does.
LEMMA HeldKept ==
    ASSUME HeldOK, UNCHANGED <<disk, held, cells>>
    PROVE  HeldOK'
BY DEF HeldOK, IsFile, Text, CellByte, Grid

\* A step that leaves storage alone keeps its type.
LEMMA StorageKept ==
    ASSUME StorageTypeOK, UNCHANGED storageVars
    PROVE  StorageTypeOK'
BY DEF StorageTypeOK, storageVars

\* Storage is only creating for a creation.
LEMMA NotCreating ==
    ASSUME IInv, ~ Creating("file")
    PROVE  creation = Idle
BY DEF IInv

\* The start of a scan is a scan.
LEMMA StartTyped == ScanStart \in Scans /\ Keyed(ScanStart)
<1>1. <<>> \in Seq(Bytes)
    OBVIOUS
<1>2. QED
    BY <1>1, TrackStart DEF Tracks

-----------------------------------------------------------------------------

\* The invariant holds in the initial states.
LEMMA InitHolds ==
    ASSUME Init
    PROVE  IInv
<1>1. StorageTypeOK
    <2>1. \A t \in Texts : t \in Seq(Bytes)
        BY OperationAssumption
    <2>2. {Absent, [kind |-> "directory", bytes |-> <<>>]} \cup {File(t) : t \in Texts}
              \subseteq Entry
        <3>1. <<>> \in Seq(Bytes)
            OBVIOUS
        <3>2. Absent \in Entry /\ [kind |-> "directory", bytes |-> <<>>] \in Entry
            BY <3>1 DEF Absent, Entry
        <3>3. \A t \in Texts : File(t) \in Entry
            BY <2>1 DEF File, Entry
        <3>4. QED
            BY <3>2, <3>3
    <2>3. disk \in [Sources -> Entry]
        BY <2>2 DEF Init
    <2>4. QED
        BY <2>3 DEF StorageTypeOK, Init
<1>2. OpenOK /\ CreateOK /\ RangeOK /\ HeldOK
    BY DEF OpenOK, CreateOK, RangeOK, HeldOK, Init, NoOp
<1>3. AnswerOK
    BY DEF AnswerOK, Init, NoAnswer
<1>4. QED
    BY <1>1, <1>2, <1>3 DEF IInv, Init, NoOp

\* open_layer_source, as it is called, keeps the invariant.
LEMMA OpenHolds ==
    ASSUME IInv, NEW s \in Sources \cup {Unknown}, Open(s)
    PROVE  IInv'
<1>1. /\ op' = Opening(s, <<>>) /\ answer' = NoAnswer /\ held' = NotHeld
      /\ UNCHANGED storageVars /\ creation' = Idle
    <2>1. creation = Idle
        BY NotCreating DEF Open, Idling, Creating, Doing, NoOp
    <2>2. QED
        BY <2>1 DEF Open, Begin, storageVars
<1>2. StorageTypeOK'
    BY <1>1, StorageKept DEF IInv
<1>3. op' \in Opens /\ op'.kind = "open" /\ ~ op'.sized /\ op'.scan = ScanStart /\ op'.asked = <<>>
    BY <1>1, StartTyped DEF Opening, Opens
<1>4. OpenOK'
    BY <1>1, <1>3 DEF OpenOK
<1>5. CreateOK' /\ RangeOK' /\ HeldOK' /\ AnswerOK'
    BY <1>1, <1>3, NothingAnswered, NothingHeld DEF CreateOK, RangeOK
<1>6. QED
    BY <1>1, <1>2, <1>3, <1>4, <1>5 DEF IInv

\* What a call to storage that failed leaves of an open.
LEMMA OpenFails ==
    ASSUME IInv, op.kind = "open", OpenReturns(Failure("StorageFailed"))
    PROVE  IInv'
<1>1. /\ op' = NoOp /\ answer'.of = "open" /\ answer'.error = "StorageFailed"
      /\ UNCHANGED <<held, cells>> /\ UNCHANGED storageVars
    BY DEF OpenReturns, Return, Failure
<1>2. AnswerOK'
    BY <1>1, PlainAnswer
<1>3. HeldOK' /\ StorageTypeOK' /\ creation' = Idle
    BY <1>1, HeldKept, StorageKept, NotCreating DEF IInv, storageVars, Creating, Doing
<1>4. QED
    BY <1>1, <1>2, <1>3, Returned DEF IInv, NoOp

\* The cells of a blank source are blank.
LEMMA BlankCells ==
    ASSUME NEW extent, NEW p, Legal(extent, p), NEW c \in Grid(BlankLayout(extent, p))
    PROVE  CellByte(BlankLayout(extent, p), c[1], c[2], BlankText(extent, p)) = Space
<1> DEFINE m == extent[1] + 1
           h == extent[2]
           t == BlankText(extent, p)
<1>1. /\ BlankLayout(extent, p) = Layout(extent[1], extent[2], p, 19)
      /\ extent[1] \in Nat \ {0} /\ extent[2] \in Nat \ {0}
    BY BlankSizeIs, LegalIs
<1>2. /\ BlankLayout(extent, p).width = extent[1] /\ BlankLayout(extent, p).height = extent[2]
      /\ BlankLayout(extent, p).offset = 19
    BY <1>1 DEF Layout
<1>3. c[1] \in 0 .. extent[1] - 1 /\ c[2] \in 0 .. extent[2] - 1
    BY <1>1, <1>2 DEF Grid
<1>4. c[1] \in 0 .. m - 2 /\ c[2] \in 0 .. h - 1 /\ m \in Nat \ {0} /\ h \in Nat \ {0}
    BY <1>1, <1>3
<1>5. CellByte(BlankLayout(extent, p), c[1], c[2], t) = t[19 + c[2] * m + c[1] + 1]
    BY <1>2 DEF CellByte, CellOffset
<1>6. \A i \in 1 .. h * m : t[19 + i] = IF EndsRow(i, m, h) THEN LF ELSE Space
    BY BlankMeans
<1> HIDE DEF m, h, t
<1> DEFINE x == c[1]
           y == c[2]
           e == y * m
<1>7. /\ e \in Nat /\ e + m <= h * m /\ x \in 0 .. m - 2 /\ h * m \in Nat
      /\ y \in Nat
    BY <1>4
<1> HIDE DEF x, y
<1>8. ~ EndsRow(e + (x + 1), m, h)
    <2>1. SUFFICES ASSUME NEW q \in 1 .. h, y * m + (x + 1) = q * m + 0
                   PROVE  FALSE
        BY <1>4, <1>7 DEF EndsRow, e
    <2>2. x + 1 \in 0 .. m - 1 /\ 0 \in 0 .. m - 1 /\ y \in Nat /\ q \in Nat
        BY <1>4, <1>7
    <2>3. x + 1 = 0
        BY <1>4, <2>1, <2>2, PairsDistinct
    <2>4. QED
        BY <1>4, <1>7, <2>3
<1> HIDE DEF e
<1>9. e + (x + 1) \in 1 .. h * m /\ 19 + e + x + 1 = 19 + (e + (x + 1))
    BY <1>4, <1>7
<1>10. QED
    <2>1. t[19 + (e + (x + 1))] = Space
        BY <1>6, <1>8, <1>9
    <2>2. QED
        BY <1>5, <1>9, <2>1 DEF e, x, y, t

\* A scan returns an error of the format, or none.
LEMMA ErrorsAre ==
    ASSUME NEW s \in Scans, NEW total
    PROVE  ScanResult(s, total).error \in FormatErrors \cup {"none"}
BY DEF ScanResult, Finalized, Failure, Layout, FormatErrors, Scans

\* An open that storage has let finish.
LEMMA OpenReturned ==
    ASSUME IInv, op.kind = "open", op.sized, NEW result, OpenReturns(result),
           result.error \in FormatErrors \cup {"none"},
           Unwrapped(Text(op.source)) => result = Meaning(Text(op.source)),
           result.error = "none" =>
               /\ IsLayout(result) /\ SizeOf(result) = Len(Text(op.source))
    PROVE  IInv'
<1> DEFINE s == op.source
           extent == op.asked[1]
           p == op.asked[2]
<1>1. /\ op \in Opens /\ held = NotHeld /\ IsFile(s) /\ s \in Sources /\ Len(Text(s)) <= SizeMax
      /\ StorageTypeOK
    BY DEF IInv, OpenOK, IsFile
<1>2. /\ op' = NoOp /\ answer'.of = "open" /\ answer'.error = result.error
      /\ answer'.source = s /\ answer'.asked = op.asked /\ answer'.result = result
      /\ UNCHANGED storageVars /\ disk' = disk
    BY DEF OpenReturns, Return, storageVars
<1>3. op.asked # <<>> => /\ Legal(extent, p) /\ Text(s) = BlankText(extent, p)
                         /\ Unwrapped(Text(s)) /\ result = BlankLayout(extent, p)
    <2>1. SUFFICES ASSUME op.asked # <<>>
                   PROVE  /\ Legal(extent, p) /\ Text(s) = BlankText(extent, p)
                          /\ Unwrapped(Text(s)) /\ result = BlankLayout(extent, p)
        OBVIOUS
    <2>2. op.asked \in Extents \X Origins
        BY <1>1, <2>1 DEF Opens
    <2>3. Legal(extent, p) /\ disk[s] = File(BlankText(extent, p))
        BY <2>1, <2>2 DEF IInv, OpenOK, Legal
    <2>4. Text(s) = BlankText(extent, p)
        BY <2>3 DEF Text, File
    <2>5. Unwrapped(BlankText(extent, p)) /\ Meaning(BlankText(extent, p)) = BlankLayout(extent, p)
        BY <2>3, BlankMeans
    <2>6. QED
        BY <2>3, <2>4, <2>5
<1>5. AnswerOK'
    <2>1. Text(answer.source)' = Text(s)
        BY <1>2 DEF Text
    <2>2. op'.kind = "none" /\ result.error # "StorageFailed"
        BY <1>2 DEF NoOp, FormatErrors
    <2>3. QED
        BY <1>1, <1>2, <1>3, <2>1, <2>2 DEF AnswerOK
<1>6. HeldOK'
    <2>1. CASE result.error # "none"
        BY <1>2, <2>1, HeldKept DEF OpenReturns, IInv, storageVars
    <2>2. CASE result.error = "none"
        <3>1. /\ held' = [source |-> s, layout |-> result]
              /\ cells' = [c \in Grid(result) |-> IF op.asked = <<>> THEN Unclear ELSE Space]
            BY <2>2 DEF OpenReturns, Grid
        <3>2. held'.source = s /\ held'.layout = result
            BY <3>1
        <3>3. IsLayout(result) /\ SizeOf(result) = Len(Text(s)) /\ Len(Text(s)) <= SizeMax
            BY <1>1, <2>2
        <3>4. Space \in Bytes
            BY MarksDiffer
        <3>5. cells' \in [Grid(result) -> Bytes \cup {Unclear}]
            BY <3>1, <3>4
        <3>6. \A c \in Grid(result) :
                  cells'[c] \in {Unclear, CellByte(result, c[1], c[2], Text(s))}
            <4>1. CASE op.asked = <<>>
                BY <3>1, <4>1
            <4>2. CASE op.asked # <<>>
                <5>1. \A c \in Grid(result) : CellByte(result, c[1], c[2], Text(s)) = Space
                    BY <1>3, <4>2, BlankCells
                <5>2. \A c \in Grid(result) : cells'[c] = Space
                    BY <3>1, <4>2
                <5>3. QED
                    BY <5>1, <5>2
            <4>3. QED
                BY <4>1, <4>2
        <3>7. IsFile(held.source)' /\ Text(held.source)' = Text(s)
            BY <1>1, <1>2, <3>2 DEF IsFile, Text
        <3>8. QED
            BY <3>2, <3>3, <3>5, <3>6, <3>7 DEF HeldOK
    <2>3. QED
        BY <2>1, <2>2
<1>7. StorageTypeOK' /\ creation' = Idle
    BY <1>1, <1>2, StorageKept, NotCreating DEF storageVars, Creating, Doing
<1>8. QED
    BY <1>2, <1>5, <1>6, <1>7, Returned DEF IInv

\* The size of the file, at the start of an open, keeps the invariant.
LEMMA OpenSizesHolds ==
    ASSUME IInv, OpenSizes
    PROVE  IInv'
<1>1. op.kind = "open" /\ ~ op.sized /\ op \in Opens /\ op.scan = ScanStart /\ held = NotHeld
    BY DEF OpenSizes, Doing, IInv, OpenOK
<1>2. PICK out \in SizeOutcomes(op.source) :
           IF out.error # "none" THEN OpenReturns(Failure("StorageFailed"))
           ELSE /\ op' = [op EXCEPT !.sized = TRUE, !.total = out.size]
                /\ UNCHANGED <<storageVars, answer, held, cells>>
    BY DEF OpenSizes
<1>3. CASE out.error # "none"
    BY <1>1, <1>2, <1>3, OpenFails
<1>4. CASE out.error = "none"
    <2> DEFINE s == op.source
    <2>1. IsFile(s) /\ Len(Text(s)) <= SizeMax /\ out.size = Len(Text(s))
        BY <1>4, SizeOutcome
    <2>2. /\ op' = [op EXCEPT !.sized = TRUE, !.total = out.size]
          /\ UNCHANGED storageVars /\ UNCHANGED <<disk, held, cells>> /\ answer' = answer
        BY <1>2, <1>4 DEF storageVars
    <2>3. Text(s) \in Seq(Bytes) /\ Len(Text(s)) \in Nat
        BY <2>1 DEF IInv, StorageTypeOK, IsFile, Text, Entry
    <2>4. /\ op'.kind = "open" /\ op'.sized /\ op'.total = Len(Text(s)) /\ op'.scan = ScanStart
          /\ op'.source = s /\ op'.asked = op.asked /\ op' \in Opens
        BY <1>1, <2>1, <2>2, <2>3 DEF Opens
    <2>5. /\ Keyed(ScanStart) /\ ~ ScanStart.ended /\ ScanStart.offset = 0
          /\ Tracks(ScanStart, Text(s))
        BY <2>3, TrackStart, StartTyped DEF ScanStart
    <2>6. Text(op.source)' = Text(s) /\ IsFile(op.source)' /\ disk'[op'.source] = disk[s]
        BY <2>1, <2>2, <2>4 DEF Text, IsFile
    <2>7. OpenOK'
        <3>1. op.asked # <<>> =>
               /\ s \in Sources /\ 0 \notin {op.asked[1][1], op.asked[1][2]}
               /\ BlankSize(op.asked[1], op.asked[2]) <= SizeMax
               /\ disk[s] = File(BlankText(op.asked[1], op.asked[2]))
            BY <1>1 DEF IInv, OpenOK
        <3>2. QED
            BY <1>1, <2>1, <2>2, <2>3, <2>4, <2>5, <2>6, <3>1 DEF OpenOK
    <2>8. CreateOK' /\ RangeOK'
        BY <2>4 DEF CreateOK, RangeOK
    <2>9. HeldOK' /\ StorageTypeOK' /\ creation' = Idle
        BY <1>1, <2>2, HeldKept, StorageKept, NotCreating DEF IInv, storageVars, Creating, Doing
    <2>10. AnswerOK'
        BY <1>1, <2>2, NothingAnswered DEF IInv, AnswerOK
    <2>11. QED
        BY <2>4, <2>7, <2>8, <2>9, <2>10 DEF IInv
<1>5. QED
    BY <1>3, <1>4

\* A bounded read of an open keeps the invariant: its block belongs to the text
\* the scan has tracked so far.
LEMMA OpenReadsHolds ==
    ASSUME IInv, OpenReads
    PROVE  IInv'
<1> DEFINE s == op.source
           t == Text(op.source)
           left == op.total - op.scan.offset
           wanted == IF left < ReadSize THEN left ELSE ReadSize
<1>1. /\ op.kind = "open" /\ op.sized /\ op \in Opens /\ held = NotHeld /\ IsFile(s)
      /\ op.total = Len(t) /\ Keyed(op.scan) /\ ~ op.scan.ended /\ op.scan.offset < op.total
      /\ Unwrapped(t) => Tracks(op.scan, t)
    BY DEF OpenReads, Doing, IInv, OpenOK
<1>2. /\ op.scan \in Scans /\ op.scan.offset \in Nat /\ op.total \in Nat /\ t \in Seq(Bytes)
    BY <1>1 DEF Opens, Scans, IInv, StorageTypeOK, IsFile, Text, Entry
<1>3. wanted \in Nat /\ op.scan.offset + wanted <= Len(t)
    BY <1>1, <1>2, OperationAssumption
<1>4. PICK out \in ReadOutcomes(s, op.scan.offset, wanted) :
           IF out.error # "none" THEN OpenReturns(Failure("StorageFailed"))
           ELSE \E u \in ScanBlock(op.scan, out.bytes) :
                    IF u.ended THEN OpenReturns(ScanResult(u, op.total))
                    ELSE /\ op' = [op EXCEPT !.scan = u]
                         /\ UNCHANGED <<storageVars, answer, held, cells>>
    BY DEF OpenReads
<1> HIDE DEF left, wanted, t
<1>5. CASE out.error # "none"
    BY <1>1, <1>4, <1>5, OpenFails
<1>6. CASE out.error = "none"
    <2>1. out.bytes = SubSeq(t, op.scan.offset + 1, op.scan.offset + wanted)
        BY <1>6, ReadOutcome DEF t
    <2>2. out.bytes \in Seq(Bytes) /\ Len(out.bytes) = wanted
        <3> DEFINE o == op.scan.offset
        <3>1. o \in Nat /\ o + wanted <= Len(t) /\ out.bytes = SubSeq(t, o + 1, o + wanted)
            BY <1>2, <1>3, <2>1
        <3> HIDE DEF o
        <3>2. SubSeq(t, o + 1, o + wanted) \in Seq(Bytes)
                  /\ Len(SubSeq(t, o + 1, o + wanted)) = wanted
            BY <1>2, <1>3, <3>1, CutIs
        <3>3. QED
            BY <3>1, <3>2
    <2>3. PICK u \in ScanBlock(op.scan, out.bytes) :
                    IF u.ended THEN OpenReturns(ScanResult(u, op.total))
                    ELSE /\ op' = [op EXCEPT !.scan = u]
                         /\ UNCHANGED <<storageVars, answer, held, cells>>
        BY <1>4, <1>6
    <2>4. /\ u \in Scans /\ Keyed(u)
          /\ ~ u.ended => u.offset = op.scan.offset + wanted
        BY <1>1, <1>2, <2>2, BlockTyped
    <2>5. Unwrapped(t) => \/ u.ended /\ ScanResult(u, Len(t)) = Meaning(t)
                          \/ Tracks(u, t)
        BY <1>1, <1>2, <1>3, <2>1, BlockTracks
    <2>6. CASE u.ended
        <3> DEFINE result == ScanResult(u, op.total)
        <3>1. OpenReturns(result)
            BY <2>3, <2>6
        <3>2. result.error \in FormatErrors \cup {"none"}
            BY <2>4, ErrorsAre
        <3>3. Unwrapped(t) => result = Meaning(t)
            BY <1>1, <2>5, <2>6 DEF Tracks
        <3>4. result.error = "none" => IsLayout(result) /\ SizeOf(result) = Len(t)
            <4>1. SUFFICES ASSUME result.error = "none"
                           PROVE  IsLayout(result) /\ SizeOf(result) = Len(t)
                OBVIOUS
            <4>2. result = Finalized(u.core, u.offset, op.total)
                BY <4>1 DEF ScanResult, Failure
            <4>3. u.core \in Records /\ u.offset \in Nat
                BY <2>4 DEF Scans
            <4>4. u.core.dimensions # <<>>
                BY <4>1, <4>2 DEF Finalized, Failure
            <4>5. u.core.dimensions[1] \in Dimensions /\ u.core.dimensions[2] \in Dimensions
                BY <4>3, <4>4 DEF Records
            <4>6. Finalized(u.core, u.offset, op.total).error = "none"
                BY <4>1, <4>2
            <4> HIDE DEF result
            <4>7. QED
                BY <1>1, <1>2, <4>2, <4>3, <4>5, <4>6, AcceptedLayoutFits
        <3> HIDE DEF result
        <3>5. QED
            BY <1>1, <3>1, <3>2, <3>3, <3>4, OpenReturned DEF t
    <2>7. CASE ~ u.ended
        <3>1. /\ op' = [op EXCEPT !.scan = u]
              /\ UNCHANGED storageVars /\ UNCHANGED <<disk, held, cells>> /\ answer' = answer
            BY <2>3, <2>7 DEF storageVars
        <3>2. /\ op'.kind = "open" /\ op'.sized /\ op'.total = Len(t) /\ op'.scan = u
              /\ op'.source = s /\ op'.asked = op.asked /\ op' \in Opens
            BY <1>1, <2>4, <3>1 DEF Opens
        <3>3. Text(op.source)' = t /\ IsFile(op.source)' /\ disk'[op'.source] = disk[s]
            BY <1>1, <3>1, <3>2 DEF Text, IsFile, t
        <3>4. u.offset <= Len(t) /\ Len(t) <= SizeMax
            BY <1>1, <1>3, <2>4, <2>7 DEF IInv, OpenOK, t
        <3>5. op.asked # <<>> =>
               /\ s \in Sources /\ 0 \notin {op.asked[1][1], op.asked[1][2]}
               /\ BlankSize(op.asked[1], op.asked[2]) <= SizeMax
               /\ disk[s] = File(BlankText(op.asked[1], op.asked[2]))
            BY <1>1 DEF IInv, OpenOK
        <3>6. OpenOK'
            BY <1>1, <2>4, <2>5, <2>7, <3>1, <3>2, <3>3, <3>4, <3>5 DEF OpenOK
        <3>7. CreateOK' /\ RangeOK'
            BY <3>2 DEF CreateOK, RangeOK
        <3>8. HeldOK' /\ StorageTypeOK' /\ creation' = Idle
            BY <1>1, <3>1, HeldKept, StorageKept, NotCreating DEF IInv, storageVars, Creating, Doing
        <3>9. AnswerOK'
            BY <1>1, <3>1, NothingAnswered DEF IInv, AnswerOK
        <3>10. QED
            BY <3>2, <3>6, <3>7, <3>8, <3>9 DEF IInv
    <2>8. QED
        BY <2>6, <2>7
<1>7. QED
    BY <1>5, <1>6

\* An open that comes to the end of the file keeps the invariant.
LEMMA OpenRunsOutHolds ==
    ASSUME IInv, OpenRunsOut
    PROVE  IInv'
<1> DEFINE t == Text(op.source)
           result == Failure("MissingTerminator")
<1>1. /\ op.kind = "open" /\ op.sized /\ op \in Opens /\ IsFile(op.source)
      /\ op.total = Len(t) /\ op.scan.offset <= op.total /\ op.scan.offset >= op.total
      /\ Unwrapped(t) => Tracks(op.scan, t)
    BY DEF OpenRunsOut, Doing, IInv, OpenOK
<1>2. op.scan.offset = Len(t) /\ t \in Seq(Bytes)
    BY <1>1 DEF Opens, Scans, IInv, StorageTypeOK, IsFile, Text, Entry
<1>3. Unwrapped(t) => result = Meaning(t)
    BY <1>1, <1>2, RunsOut
<1>4. OpenReturns(result)
    BY DEF OpenRunsOut
<1>5. result.error = "MissingTerminator" /\ result.error \in FormatErrors
    BY DEF Failure, FormatErrors
<1>6. QED
    BY <1>1, <1>3, <1>4, <1>5, OpenReturned

\* A new file grows by a block of spaces.
LEMMA BlanksGrow ==
    ASSUME NEW a \in Nat, NEW b \in Nat
    PROVE  Blanks(a) \o [k \in 1 .. b |-> Space] = Blanks(a + b)
<1> DEFINE t == Blanks(a)
           u == Blanks(b)
<1>1. /\ t \in Seq(Bytes) /\ Len(t) = a /\ \A i \in 1 .. a : t[i] = Space
    BY BlanksIs
<1>2. /\ u \in Seq(Bytes) /\ Len(u) = b /\ \A i \in 1 .. b : u[i] = Space
    BY BlanksIs
<1>3. /\ Blanks(a + b) \in Seq(Bytes) /\ Len(Blanks(a + b)) = a + b
      /\ \A i \in 1 .. a + b : Blanks(a + b)[i] = Space
    BY BlanksIs
<1>4. u = [k \in 1 .. b |-> Space]
    BY DEF Blanks
<1> HIDE DEF t, u
<1>5. /\ t \o u \in Seq(Bytes) /\ Len(t \o u) = a + b
      /\ \A i \in 1 .. a : (t \o u)[i] = t[i]
      /\ \A i \in 1 .. b : (t \o u)[a + i] = u[i]
    BY <1>1, <1>2, JoinIs
<1>6. ASSUME NEW i \in 1 .. a + b PROVE (t \o u)[i] = Space
    <2>1. CASE i <= a
        <3>1. i \in 1 .. a
            BY <2>1
        <3>2. QED
            BY <1>1, <1>5, <3>1
    <2>2. CASE i > a
        <3>1. i - a \in 1 .. b /\ a + (i - a) = i
            BY <2>2
        <3>2. QED
            BY <1>2, <1>5, <3>1
    <2>3. i <= a \/ i > a
        OBVIOUS
    <2>4. QED
        BY <2>1, <2>2, <2>3, Zenon
<1>7. t \o u = Blanks(a + b)
    BY <1>3, <1>5, <1>6, SameText
<1>8. QED
    BY <1>4, <1>7 DEF t

\* A write leaves a file of bytes.
LEMMA WriteTyped ==
    ASSUME StorageTypeOK, NEW s, NEW offset \in Nat, NEW data \in Seq(Bytes),
           NEW out \in WriteOutcomes(s, offset, data)
    PROVE  out.disk \in [Sources -> Entry]
<1>1. disk \in [Sources -> Entry]
    BY DEF StorageTypeOK
<1>2. CASE out.disk = disk
    BY <1>1, <1>2
<1>3. ASSUME IsFile(s), InRange(s, offset, Len(data)), NEW part \in {data} \cup Torn(data),
             out.disk = [disk EXCEPT ![s].bytes = Patched(Text(s), offset, part)]
      PROVE  out.disk \in [Sources -> Entry]
    <2>1. Text(s) \in Seq(Bytes) /\ s \in Sources /\ disk[s] \in Entry
        BY <1>1, <1>3 DEF IsFile, Text, Entry
    <2>2. part \in Seq(Bytes) /\ Len(part) \in 0 .. Len(data)
        BY TornIs
    <2>3. offset + Len(part) <= Len(Text(s))
        BY <1>3, <2>1, <2>2 DEF InRange, Text
    <2>4. Patched(Text(s), offset, part) \in Seq(Bytes)
        BY <2>1, <2>2, <2>3, PatchedIs
    <2>5. QED
        BY <1>1, <1>3, <2>1, <2>4 DEF Entry
<1>4. QED
    BY <1>2, <1>3, WriteOutcome

\* A creation that has failed.
LEMMA CreateGivenUp ==
    ASSUME IInv, op.kind = "create", CreateReturns("StorageFailed"),
           UNCHANGED <<held, cells>>, StorageTypeOK', creation' = Idle
    PROVE  IInv'
<1>1. op' = NoOp /\ answer'.of = "create" /\ answer'.error = "StorageFailed"
    BY DEF CreateReturns, Return
<1>2. held' = NotHeld
    BY DEF IInv, CreateOK
<1>3. QED
    BY <1>1, <1>2, PlainAnswer, NothingHeld, Returned DEF IInv

\* A creation refused for its arguments keeps the invariant.
LEMMA CreateBlankRefusedHolds ==
    ASSUME IInv, NEW s, NEW extent, NEW p, CreateBlankRefused(s, extent, p)
    PROVE  IInv'
<1>1. creation = Idle
    BY NotCreating DEF CreateBlankRefused, Idling, Creating, Doing, NoOp
<1>2. /\ op' = NoOp /\ answer'.of = "create" /\ held' = NotHeld
      /\ answer'.error \in {"ZeroDimension", "Overflow", "StorageFailed"}
    BY DEF CreateBlankRefused, CreateReturns, Return
<1>3. StorageTypeOK' /\ creation' = Idle
    BY <1>1 DEF CreateBlankRefused, CreateRefused, Refused, IInv, StorageTypeOK, storageVars
<1>4. AnswerOK'
    BY <1>2, PlainAnswer
<1>5. QED
    BY <1>2, <1>3, <1>4, NothingHeld, Returned DEF IInv

\* create_blank_layer_source, as it is called, keeps the invariant.
LEMMA CreateBlankHolds ==
    ASSUME IInv, NEW s, NEW extent \in Extents, NEW p \in Origins, CreateBlank(s, extent, p)
    PROVE  IInv'
<1> DEFINE n == BlankSize(extent, p)
<1>1. Legal(extent, p)
    BY DEF CreateBlank, Legal
<1>2. n \in 0 .. SizeMax /\ n \in Nat
    <2>1. SizeMax \in Nat /\ n \in Nat /\ n <= SizeMax
        BY <1>1, BlankSizeIs, StorageAssumption
    <2> HIDE DEF n
    <2>2. QED
        BY <2>1
<1> HIDE DEF n
<1>3. /\ s \in Sources /\ disk' = [disk EXCEPT ![s] = File(<<>>)]
      /\ creation' = [source |-> s, size |-> n, value |-> Space, remaining |-> n]
      /\ reply' = reply /\ held' = NotHeld /\ answer' = NoAnswer
      /\ op' = [kind |-> "create", pc |-> "file", source |-> s, extent |-> extent,
                origin |-> p, row |-> 0]
    BY DEF CreateBlank, CreateBegins, Begin, n
<1>4. StorageTypeOK'
    <2>1. File(<<>>) \in Entry
        <3>1. <<>> \in Seq(Bytes)
            OBVIOUS
        <3>2. QED
            BY <3>1 DEF File, Entry
    <2>2. disk' \in [Sources -> Entry]
        BY <1>3, <2>1 DEF IInv, StorageTypeOK
    <2>3. Space \in Bytes
        BY MarksDiffer
    <2>4. creation' \in [source : Sources, size : 0 .. SizeMax, value : Bytes,
                         remaining : 0 .. SizeMax]
        BY <1>2, <1>3, <2>3
    <2>5. reply' \in {"none", "invalid_source", "already_exists", "read_failed", "write_failed"}
        BY <1>3 DEF IInv, StorageTypeOK
    <2>6. QED
        BY <2>2, <2>4, <2>5 DEF StorageTypeOK
<1>5. op' \in Creates /\ op'.kind = "create" /\ op'.pc = "file" /\ op'.source = s
      /\ op'.extent = extent /\ op'.origin = p /\ op'.row = 0
    BY <1>3 DEF Creates
<1>6. disk'[s] = File(Blanks(n - n))
    <2>1. Blanks(0) = <<>> /\ n - n = 0
        <3>1. Blanks(0) \in Seq(Bytes) /\ Len(Blanks(0)) = 0
            BY BlanksIs
        <3>2. QED
            BY <1>2, <3>1
    <2>2. disk'[s] = File(<<>>)
        BY <1>3 DEF IInv, StorageTypeOK
    <2>3. QED
        BY <2>1, <2>2
<1>7. CreateOK'
    <2>1. creation'.source = s /\ creation'.value = Space /\ creation'.size = n
          /\ creation'.remaining = n /\ n \in 0 .. n
        BY <1>2, <1>3
    <2>2. 0 \notin {extent[1], extent[2]} /\ BlankSize(extent, p) <= SizeMax
        BY <1>1 DEF Legal
    <2>3. QED
        BY <1>3, <1>5, <1>6, <2>1, <2>2 DEF CreateOK, n
<1>8. OpenOK' /\ RangeOK' /\ HeldOK' /\ AnswerOK'
    BY <1>3, <1>5, NothingAnswered, NothingHeld DEF OpenOK, RangeOK
<1>9. QED
    BY <1>4, <1>5, <1>7, <1>8 DEF IInv, Creating, Doing

\* A creation in progress is of a source that is legal.
LEMMA CreationIs ==
    ASSUME IInv, op.kind = "create"
    PROVE  /\ op \in Creates /\ held = NotHeld /\ answer = NoAnswer
           /\ op.source \in Sources /\ Legal(op.extent, op.origin)
           /\ op.pc # "file" => creation = Idle
<1>1. op \in Creates /\ held = NotHeld /\ answer = NoAnswer
    BY DEF IInv, CreateOK, AnswerOK
<1>2. Legal(op.extent, op.origin) /\ op.source \in Sources
    BY <1>1 DEF IInv, CreateOK, Creates, Legal
<1>3. QED
    BY <1>1, <1>2, NotCreating DEF Creating, Doing

\* What a step of a creation that goes on leaves alone.
LEMMA CreateGoesOn ==
    ASSUME IInv, op.kind = "create", op'.kind = "create", UNCHANGED <<answer, held, cells>>,
           StorageTypeOK', creation' # Idle => op'.pc = "file", CreateOK'
    PROVE  IInv'
<1>1. held' = NotHeld /\ answer' = NoAnswer
    BY CreationIs
<1>2. OpenOK' /\ RangeOK' /\ HeldOK' /\ AnswerOK'
    BY <1>1, NothingAnswered, NothingHeld DEF OpenOK, RangeOK
<1>3. QED
    BY <1>2 DEF IInv, Creating, Doing

\* What storage answers to the creation of the file keeps the invariant.
LEMMA FileCreatedHolds ==
    ASSUME IInv, FileCreated
    PROVE  IInv'
<1> DEFINE s == op.source
           extent == op.extent
           p == op.origin
           n == creation.size
           left == creation.remaining
<1>1. /\ op.kind = "create" /\ op.pc = "file" /\ UNCHANGED <<held, cells>> /\ CreateSteps
      /\ creation # Idle
    BY DEF FileCreated, Creating, Doing, CreateSteps, FillBlock, CreateFails, CreateSucceeds
<1>2. /\ op \in Creates /\ s \in Sources /\ Legal(extent, p) /\ StorageTypeOK
    BY <1>1, CreationIs DEF IInv
<1>3. /\ creation.source = s /\ creation.value = Space /\ n = BlankSize(extent, p)
      /\ left \in 0 .. n /\ disk[s] = File(Blanks(n - left))
    BY <1>1 DEF IInv, CreateOK
<1>4. n \in Nat \ {0} /\ n <= SizeMax /\ left \in Nat /\ left <= n /\ SizeMax \in Nat
    <2>1. n \in Nat /\ n <= SizeMax /\ n >= 19 /\ SizeMax \in Nat
        <3>1. /\ BlankSize(extent, p) = 19 + extent[2] * (extent[1] + 1)
              /\ extent[2] * (extent[1] + 1) \in Nat /\ BlankSize(extent, p) <= SizeMax
            BY <1>2, BlankSizeIs
        <3> DEFINE e == extent[2] * (extent[1] + 1)
        <3> HIDE DEF e
        <3>2. n = 19 + e /\ e \in Nat /\ n <= SizeMax
            BY <1>3, <3>1 DEF e
        <3>3. QED
            BY <3>2, StorageAssumption
    <2> HIDE DEF n
    <2>2. QED
        BY <1>3, <2>1
<1>5. /\ creation \in [source : Sources, size : 0 .. SizeMax, value : Bytes,
             remaining : 0 .. SizeMax]
      /\ disk \in [Sources -> Entry]
    BY <1>1, <1>2 DEF StorageTypeOK
<1>6. CASE FillBlock
    <2> DEFINE b == BlockLength
    <2>1. b \in Nat \ {0} /\ b <= left
        BY <1>4, <1>6, StorageAssumption DEF BlockLength, FillBlock
    <2>2. /\ disk' = [disk EXCEPT ![s].bytes = @ \o [k \in 1 .. b |-> Space]]
          /\ creation' = [creation EXCEPT !.remaining = @ - b] /\ reply' = reply
        BY <1>3, <1>6 DEF FillBlock
    <2> HIDE DEF b, left, n
    <2>3. disk'[s] = File(Blanks(n - (left - b)))
        <3>1. n - left \in Nat /\ (n - left) + b = n - (left - b)
            BY <1>4, <2>1
        <3>2. disk[s].bytes = Blanks(n - left) /\ disk[s].kind = "file" /\ s \in DOMAIN disk
            BY <1>2, <1>3, <1>5 DEF File
        <3> DEFINE more == disk[s].bytes \o [k \in 1 .. b |-> Space]
        <3>3. disk'[s] = [disk[s] EXCEPT !.bytes = more]
            BY <2>2, <3>2
        <3>4. more = Blanks(n - (left - b))
            <4>1. Blanks(n - left) \o [k \in 1 .. b |-> Space] = Blanks((n - left) + b)
                BY <2>1, <3>1, BlanksGrow
            <4>2. QED
                BY <3>1, <3>2, <4>1
        <3>5. disk[s] = [kind |-> "file", bytes |-> Blanks(n - left)]
            BY <1>3 DEF File
        <3> HIDE DEF more
        <3>6. QED
            BY <3>3, <3>4, <3>5 DEF File
    <2>4. n - (left - b) \in Nat /\ left - b \in 0 .. n /\ left - b \in 0 .. SizeMax
        BY <1>4, <2>1
    <2>5. disk' \in [Sources -> Entry]
        <3>1. disk'[s] \in Entry
            BY <2>3, <2>4, BlanksIs DEF File, Entry
        <3>2. DOMAIN disk' = Sources /\ \A o \in Sources : o # s => disk'[o] = disk[o]
            BY <1>5, <2>2
        <3>3. disk' \in [Sources -> {disk'[o] : o \in Sources}]
            BY <1>5, <2>2
        <3>4. \A o \in Sources : disk'[o] \in Entry
            BY <1>5, <3>1, <3>2
        <3>5. QED
            BY <3>3, <3>4
    <2>6. /\ creation'.source = s /\ creation'.value = Space /\ creation'.size = n
          /\ creation'.remaining = left - b
          /\ creation' \in [source : Sources, size : 0 .. SizeMax, value : Bytes,
                            remaining : 0 .. SizeMax]
        BY <1>3, <1>5, <2>2, <2>4 DEF n, left
    <2>7. StorageTypeOK'
        BY <1>2, <2>2, <2>5, <2>6 DEF StorageTypeOK
    <2>8. creation' # Idle
        BY <1>4, <2>6 DEF Idle
    <2>9. op' = op /\ answer' = answer
        BY <2>8 DEF FileCreated
    <2>10. CreateOK'
        BY <1>1, <1>2, <1>3, <2>3, <2>4, <2>6, <2>9 DEF CreateOK, IInv, n
    <2>11. QED
        BY <1>1, <2>7, <2>9, <2>10, CreateGoesOn
<1>7. CASE CreateFails
    <2>1. creation' = Idle /\ reply' = "write_failed"
        BY <1>7 DEF CreateFails
    <2>2. CreateReturns("StorageFailed")
        BY <2>1 DEF FileCreated
    <2>3. PICK rest \in {Absent} \cup
                        {File([k \in 1 .. m |-> creation.value]) :
                             m \in 0 .. Len(disk[creation.source].bytes) + BlockLength} :
              disk' = [disk EXCEPT ![creation.source] = rest]
        BY <1>7 DEF CreateFails
    <2>4. rest \in Entry
        <3>1. CASE rest = Absent
            <4>1. <<>> \in Seq(Bytes)
                OBVIOUS
            <4>2. QED
                BY <3>1, <4>1 DEF Absent, Entry
        <3>2. CASE rest # Absent
            <4>1. PICK m \in 0 .. Len(disk[s].bytes) + BlockLength :
                      rest = File([k \in 1 .. m |-> Space])
                BY <1>3, <2>3, <3>2
            <4>2. m \in Nat
                <5>1. Len(disk[s].bytes) + BlockLength \in Int
                    <6>1. BlockLength \in Nat
                        BY <1>4, StorageAssumption DEF BlockLength
                    <6>2. Len(disk[s].bytes) \in Nat
                        BY <1>2, <1>5 DEF Entry
                    <6>3. QED
                        BY <6>1, <6>2
                <5>2. QED
                    BY <4>1, <5>1
            <4>3. QED
                BY <4>1, <4>2, BlanksIs DEF Blanks, File, Entry
        <3>3. QED
            BY <3>1, <3>2
    <2>5. StorageTypeOK'
        BY <1>5, <2>1, <2>3, <2>4 DEF StorageTypeOK
    <2>6. QED
        BY <1>1, <2>1, <2>2, <2>5, CreateGivenUp
<1>8. CASE CreateSucceeds
    <2>1. creation' = Idle /\ reply' = "none" /\ disk' = disk /\ left = 0
        BY <1>8 DEF CreateSucceeds
    <2>2. op' = [op EXCEPT !.pc = "metadata"] /\ answer' = answer
        BY <2>1 DEF FileCreated
    <2>3. /\ op' \in Creates /\ op'.kind = "create" /\ op'.pc = "metadata" /\ op'.source = s
          /\ op'.extent = extent /\ op'.origin = p /\ op'.row = 0
        BY <1>1, <1>2, <2>2 DEF Creates, IInv, CreateOK
    <2>4. StorageTypeOK'
        BY <1>5, <2>1 DEF StorageTypeOK
    <2>5. disk'[s] = File(Blanks(BlankSize(extent, p)))
        <3>1. n - left = n
            BY <1>4, <2>1
        <3>2. QED
            BY <1>3, <2>1, <3>1
    <2>6. CreateOK'
        BY <1>1, <1>2, <2>3, <2>5, CreationIs DEF CreateOK, Legal
    <2>7. QED
        BY <1>1, <2>1, <2>2, <2>3, <2>4, <2>6, CreateGoesOn
<1>9. QED
    BY <1>1, <1>6, <1>7, <1>8 DEF CreateSteps

\* One write of a creation, which has put its data where it belongs or ends it.
LEMMA WriteOfHolds ==
    ASSUME IInv, op.kind = "create", op.pc # "file", NEW offset \in Nat, NEW data \in Seq(Bytes),
           NEW goesOn, WriteOf(offset, data, goesOn),
           goesOn.kind = "create", goesOn \in Creates, goesOn.pc = "rows",
           goesOn.source = op.source, goesOn.extent = op.extent, goesOn.origin = op.origin,
           goesOn.row <= op.extent[2],
           Patched(Text(op.source), offset, data) = PartText(op.extent, op.origin, goesOn.row)
    PROVE  IInv'
<1> DEFINE s == op.source
<1>1. /\ op \in Creates /\ s \in Sources /\ Legal(op.extent, op.origin) /\ creation = Idle
      /\ held = NotHeld /\ answer = NoAnswer
    BY CreationIs
<1>2. PICK out \in WriteOutcomes(s, offset, data) :
           /\ disk' = out.disk
           /\ IF out.error = "none" THEN op' = goesOn /\ UNCHANGED answer
              ELSE CreateReturns("StorageFailed")
    BY DEF WriteOf
<1>3. creation' = Idle /\ reply' = reply /\ UNCHANGED <<held, cells>>
    BY <1>1 DEF WriteOf
<1>4. StorageTypeOK'
    <2>1. out.disk \in [Sources -> Entry]
        BY WriteTyped DEF IInv
    <2>2. QED
        BY <1>2, <1>3, <2>1 DEF IInv, StorageTypeOK
<1>5. CASE out.error # "none"
    BY <1>2, <1>3, <1>4, <1>5, CreateGivenUp
<1>6. CASE out.error = "none"
    <2>1. PICK part \in {data} \cup Torn(data) :
              /\ out.disk = [disk EXCEPT ![s].bytes = Patched(Text(s), offset, part)]
              /\ out.error = "none" => part = data
        BY <1>6, WriteOutcome
    <2>2. IsFile(s)
        BY <1>6, WriteOutcome
    <2>3. disk' = [disk EXCEPT ![s].bytes = PartText(op.extent, op.origin, goesOn.row)]
        BY <1>2, <1>6, <2>1, ZenonT(60)
    <2>4. disk \in [Sources -> Entry] /\ disk[s].kind = "file"
        BY <2>2 DEF IInv, StorageTypeOK, IsFile
    <2>5. disk'[s] = File(PartText(op.extent, op.origin, goesOn.row))
        BY <1>1, <2>3, <2>4 DEF Entry, File
    <2>6. op' = goesOn /\ UNCHANGED answer
        BY <1>2, <1>6
    <2>7. CreateOK'
        BY <1>1, <1>3, <2>5, <2>6 DEF CreateOK, Legal
    <2>8. QED
        BY <1>3, <1>4, <2>6, <2>7, CreateGoesOn
<1>7. QED
    BY <1>5, <1>6

\* The write of the metadata keeps the invariant.
LEMMA MetadataWrittenHolds ==
    ASSUME IInv, MetadataWritten
    PROVE  IInv'
<1> DEFINE text == Metadata(op.extent[1], op.extent[2], op.origin)
           goesOn == [op EXCEPT !.pc = "rows"]
<1>1. op.kind = "create" /\ op.pc = "metadata" /\ WriteOf(0, text, goesOn)
    BY DEF MetadataWritten, Creating, Doing
<1>2. op \in Creates /\ Legal(op.extent, op.origin) /\ op.row \in Nat
    BY <1>1, CreationIs DEF Creates
<1>3. Text(op.source) = Blanks(BlankSize(op.extent, op.origin))
    BY <1>1 DEF IInv, CreateOK, Text, File
<1> HIDE DEF text
<1>4. text \in Seq(Bytes) /\ Patched(Text(op.source), 0, text) = PartText(op.extent, op.origin, 0)
    <2>1. \A extent, p : Legal(extent, p) =>
              /\ Metadata(extent[1], extent[2], p) \in Seq(Bytes)
              /\ Patched(Blanks(BlankSize(extent, p)), 0, Metadata(extent[1], extent[2], p))
                    = PartText(extent, p, 0)
        BY MetadataIs, FirstPart
    <2>2. QED
        BY <1>2, <1>3, <2>1 DEF text
<1>5. /\ goesOn \in Creates /\ goesOn.kind = "create" /\ goesOn.pc = "rows"
      /\ goesOn.source = op.source /\ goesOn.extent = op.extent /\ goesOn.origin = op.origin
      /\ goesOn.row = 0 /\ 0 <= op.extent[2]
    <2>1. op.row = 0
        BY <1>1 DEF IInv, CreateOK
    <2>2. op.extent[2] \in Nat
        BY <1>2, LegalIs
    <2>3. QED
        BY <1>1, <1>2, <2>1, <2>2 DEF Creates
<1> HIDE DEF goesOn
<1>6. QED
    <2>1. /\ Patched(Text(op.source), 0, text) = PartText(op.extent, op.origin, goesOn.row)
          /\ goesOn.row <= op.extent[2] /\ op.pc # "file" /\ 0 \in Nat
        BY <1>1, <1>4, <1>5
    <2>2. \A offset \in Nat : WriteOf(offset, text, goesOn) /\ offset = 0 => IInv'
        BY <1>1, <1>4, <1>5, <2>1, WriteOfHolds
    <2>3. QED
        BY <1>1, <2>1, <2>2

\* The write of the LF of a row keeps the invariant.
LEMMA RowEndedHolds ==
    ASSUME IInv, RowEnded
    PROVE  IInv'
<1> DEFINE layout == BlankLayout(op.extent, op.origin)
           offset == TerminatorOffset(layout, op.row)
           goesOn == [op EXCEPT !.row = @ + 1]
           r == op.row
<1>1. /\ op.kind = "create" /\ op.pc = "rows" /\ r < op.extent[2]
      /\ WriteOf(offset, <<LF>>, goesOn)
    BY DEF RowEnded, Creating, Doing
<1>2. op \in Creates /\ Legal(op.extent, op.origin) /\ r \in Nat
    BY <1>1, CreationIs DEF Creates
<1>3. op.extent[2] \in Nat /\ r \in 0 .. op.extent[2] - 1
    <2>1. op.extent[2] \in Nat
        BY <1>2, LegalIs
    <2> HIDE DEF r
    <2>2. QED
        BY <1>1, <1>2, <2>1
<1>4. Text(op.source) = PartText(op.extent, op.origin, r)
    BY <1>1 DEF IInv, CreateOK, Text, File
<1>5. <<LF>> \in Seq(Bytes)
    <2>1. LF \in Bytes
        BY MarksDiffer
    <2>2. QED
        BY <2>1
<1>6. /\ offset \in Nat
      /\ Patched(Text(op.source), offset, <<LF>>) = PartText(op.extent, op.origin, r + 1)
    BY <1>2, <1>3, <1>4, NextPart
<1>7. /\ goesOn \in Creates /\ goesOn.kind = "create" /\ goesOn.pc = "rows"
      /\ goesOn.source = op.source /\ goesOn.extent = op.extent /\ goesOn.origin = op.origin
      /\ goesOn.row = r + 1
    BY <1>1, <1>2 DEF Creates
<1>8. r + 1 <= op.extent[2]
    BY <1>3
<1> HIDE DEF goesOn, offset, r
<1>9. QED
    BY <1>1, <1>5, <1>6, <1>7, <1>8, WriteOfHolds

\* The open at the end of a creation keeps the invariant.
LEMMA BlankReopenedHolds ==
    ASSUME IInv, BlankReopened
    PROVE  IInv'
<1> DEFINE s == op.source
           extent == op.extent
           p == op.origin
<1>1. /\ op.kind = "create" /\ op.pc = "rows" /\ op.row >= extent[2] /\ op.row <= extent[2]
      /\ op' = Opening(s, <<extent, p>>) /\ UNCHANGED storageVars /\ disk' = disk
      /\ UNCHANGED <<answer, held, cells>>
      /\ disk[s] = File(PartText(extent, p, op.row))
    BY DEF BlankReopened, Creating, Doing, storageVars, IInv, CreateOK
<1>2. /\ op \in Creates /\ s \in Sources /\ Legal(extent, p) /\ held = NotHeld
      /\ answer = NoAnswer /\ creation = Idle
    BY <1>1, CreationIs
<1>3. op.row = extent[2]
    <2>1. op.row \in Nat /\ extent[2] \in Nat
        BY <1>2, LegalIs DEF Creates
    <2>2. QED
        BY <1>1, <2>1
<1>4. disk[s] = File(BlankText(extent, p))
    BY <1>1, <1>2, <1>3, BlankTextIs
<1>5. /\ op'.kind = "open" /\ op'.source = s /\ ~ op'.sized /\ op'.scan = ScanStart
      /\ op'.asked = <<extent, p>> /\ op' \in Opens
    BY <1>1, <1>2, StartTyped DEF Opening, Opens, Creates
<1>6. OpenOK'
    <2>1. 0 \notin {extent[1], extent[2]} /\ BlankSize(extent, p) <= SizeMax
        BY <1>2 DEF Legal
    <2>2. op'.asked[1] = extent /\ op'.asked[2] = p
        BY <1>5
    <2>3. held' = NotHeld /\ disk'[op'.source] = File(BlankText(extent, p))
        BY <1>1, <1>2, <1>4, <1>5
    <2>4. QED
        BY <1>2, <1>5, <2>1, <2>2, <2>3 DEF OpenOK
<1>7. CreateOK' /\ RangeOK' /\ HeldOK' /\ AnswerOK' /\ StorageTypeOK' /\ creation' = Idle
    BY <1>1, <1>2, <1>5, NothingAnswered, NothingHeld, StorageKept
       DEF CreateOK, RangeOK, IInv, storageVars
<1>8. QED
    BY <1>5, <1>6, <1>7 DEF IInv

\* A restart of the program, at any point, keeps the invariant.
LEMMA RestartHolds ==
    ASSUME IInv, Restart
    PROVE  IInv'
<1>1. op' = NoOp /\ answer' = NoAnswer /\ held' = NotHeld
    BY DEF Restart
<1>2. StorageTypeOK' /\ creation' = Idle
    <2>1. CASE creation = Idle
        BY <2>1, StorageKept DEF Restart, IInv, storageVars
    <2>2. CASE creation # Idle
        <3> DEFINE s == creation.source
        <3>1. PICK n \in 0 .. Len(disk[s].bytes) :
                  disk' = [disk EXCEPT ![s].bytes = SubSeq(@, 1, n)]
            BY <2>2 DEF Restart, CreateInterrupted
        <3>2. creation' = Idle /\ reply' = reply
            BY <2>2 DEF Restart, CreateInterrupted
        <3>3. disk \in [Sources -> Entry] /\ disk[s] \in Entry
            BY <2>2 DEF IInv, StorageTypeOK
        <3>4. SubSeq(disk[s].bytes, 1, n) \in Seq(Bytes)
            <4> DEFINE t == disk[s].bytes
            <4>1. t \in Seq(Bytes)
                BY <3>3 DEF Entry
            <4> HIDE DEF t
            <4>2. n \in Nat /\ n <= Len(t)
                <5>1. Len(t) \in Nat
                    BY <4>1
                <5>2. n \in 0 .. Len(t)
                    BY DEF t
                <5>3. QED
                    BY <5>1, <5>2
            <4>3. \A i \in 1 .. n : t[i] \in Bytes
                BY <4>1, <4>2
            <4>4. SubSeq(t, 1, n) \in Seq(Bytes)
                BY <4>1, <4>2, <4>3
            <4>5. QED
                BY <4>4 DEF t
        <3>5. disk' \in [Sources -> Entry]
            BY <3>1, <3>3, <3>4 DEF Entry
        <3>6. QED
            BY <3>2, <3>5 DEF IInv, StorageTypeOK
    <2>3. QED
        BY <2>1, <2>2
<1>3. QED
    BY <1>1, <1>2, Returned, NothingAnswered, NothingHeld DEF IInv

\* The offset of a cell that follows another in its row.
LEMMA CellAfter ==
    ASSUME NEW layout, IsLayout(layout), NEW x \in Nat, NEW y \in Nat, NEW k \in Nat
    PROVE  /\ CellOffset(layout, x, y) \in Nat
           /\ CellOffset(layout, x + k, y) = CellOffset(layout, x, y) + k
<1> DEFINE e == y * (layout.width + 1)
<1>1. layout.width \in Nat /\ layout.offset \in Nat
    BY DEF IsLayout
<1>2. e \in Nat
    BY <1>1
<1>3. \A z : CellOffset(layout, z, y) = layout.offset + e + z
    BY DEF CellOffset
<1> HIDE DEF e
<1>4. QED
    BY <1>1, <1>2, <1>3

\* Where the range of a read or a write is in the file.
LEMMA RangeIs ==
    ASSUME NEW layout, IsLayout(layout), NEW x \in Nat, NEW y \in Nat, NEW n \in Nat \ {0},
           InGrid(layout, y, x, n)
    PROVE  /\ y \in 0 .. layout.height - 1 /\ x \in 0 .. layout.width - 1
           /\ CellOffset(layout, x, y) \in Nat
           /\ CellOffset(layout, x, y) + n <= SizeOf(layout)
<1> DEFINE o == CellOffset(layout, x, y)
<1>1. /\ layout.width \in Nat \ {0} /\ layout.height \in Nat \ {0} /\ layout.offset \in Nat
      /\ y < layout.height /\ x <= layout.width /\ n <= layout.width - x
    BY DEF IsLayout, InGrid
<1>2. y \in 0 .. layout.height - 1 /\ x \in 0 .. layout.width - 1 /\ n - 1 \in 0 .. n - 1
    BY <1>1
<1>3. o + (n - 1) < SizeOf(layout)
    BY <1>2, RangeStaysInRow
<1>4. o \in Nat
    BY CellAfter
<1>5. SizeOf(layout) \in Nat
    <2>1. layout.height * (layout.width + 1) \in Nat
        BY <1>1
    <2>2. QED
        BY <1>1, <2>1 DEF SizeOf
<1> HIDE DEF o
<1>6. o + n <= SizeOf(layout)
    BY <1>3, <1>4, <1>5
<1>7. QED
    BY <1>2, <1>4, <1>6 DEF o

\* What a write, or a part of it, does to the bytes of the cells.
LEMMA PatchedCell ==
    ASSUME NEW layout, IsLayout(layout), NEW text \in Seq(Bytes), Len(text) = SizeOf(layout),
           NEW x \in Nat, NEW y \in Nat, NEW part \in Seq(Bytes), NEW n \in Nat \ {0},
           Len(part) <= n, InGrid(layout, y, x, n), NEW c \in Grid(layout)
    PROVE  CellByte(layout, c[1], c[2], Patched(text, CellOffset(layout, x, y), part)) =
               IF c[2] = y /\ c[1] - x + 1 \in 1 .. Len(part) THEN part[c[1] - x + 1]
               ELSE CellByte(layout, c[1], c[2], text)
<1> DEFINE o == CellOffset(layout, x, y)
           at == CellOffset(layout, c[1], c[2])
           new == Patched(text, o, part)
           l == Len(part)
           u == c[1]
           v == c[2]
<1>1. /\ u \in 0 .. layout.width - 1 /\ v \in 0 .. layout.height - 1
      /\ layout.width \in Nat \ {0} /\ layout.height \in Nat \ {0}
    BY DEF Grid, IsLayout
<1>2. /\ u \in 0 .. layout.width /\ u \in Nat /\ v \in Nat
      /\ \A i \in Int, w \in Nat : i \in 0 .. w - 1 => i \in 0 .. w
    BY <1>1
<1>3. o \in Nat /\ at \in Nat /\ at < Len(text) /\ l \in Nat /\ Len(text) \in Nat
    <2>1. o \in Nat
        BY CellAfter
    <2>2. at \in Nat /\ at < SizeOf(layout)
        BY <1>1, <1>2, RowWithinSize
    <2>3. l \in Nat /\ Len(text) \in Nat
        OBVIOUS
    <2>4. QED
        BY <2>1, <2>2, <2>3
<1>4. o + n <= Len(text) /\ y \in 0 .. layout.height - 1
    BY RangeIs
<1>5. \A i \in 1 .. Len(text) : new[i] = IF i > o /\ i <= o + l THEN part[i - o] ELSE text[i]
    <2>1. o + l <= Len(text)
        BY <1>3, <1>4
    <2> HIDE DEF o
    <2>2. QED
        BY <1>3, <2>1, PatchedIs
<1>6. at + 1 \in 1 .. Len(text)
    BY <1>3
<1>7. CellByte(layout, u, v, new) = new[at + 1] /\ CellByte(layout, u, v, text) = text[at + 1]
    BY DEF CellByte
<1>8. CASE v = y /\ u - x + 1 \in 1 .. l
    <2>1. u - x \in Nat /\ u = x + (u - x)
        BY <1>2, <1>3, <1>8
    <2>2. at = o + (u - x)
        <3> DEFINE k == u - x
        <3>1. k \in Nat /\ u = x + k /\ v = y
            BY <1>8, <2>1
        <3> HIDE DEF k, u, v
        <3>2. CellOffset(layout, x + k, y) = o + k
            BY <3>1, CellAfter
        <3>3. QED
            BY <3>1, <3>2 DEF u, v, k
    <2> HIDE DEF at, o, new, u, l
    <2>3. at + 1 > o /\ at + 1 <= o + l /\ (at + 1) - o = u - x + 1
        BY <1>2, <1>3, <1>8, <2>1, <2>2
    <2>4. new[at + 1] = part[u - x + 1]
        <3>1. new[at + 1] = part[(at + 1) - o]
            <4>1. \A i \in 1 .. Len(text) : i > o /\ i <= o + l => new[i] = part[i - o]
                BY <1>5, Zenon
            <4>2. QED
                BY <1>6, <2>3, <4>1, Zenon
        <3>2. QED
            BY <2>3, <3>1, Zenon
    <2>5. QED
        BY <1>7, <1>8, <2>4 DEF new, u, l, o
<1>9. CASE ~ (v = y /\ u - x + 1 \in 1 .. l)
    <2>1. ~ (at + 1 > o /\ at + 1 <= o + l)
        <3>1. SUFFICES ASSUME at + 1 > o, at + 1 <= o + l
                       PROVE  v = y /\ u - x + 1 \in 1 .. l
            BY <1>9
        <3> DEFINE k == at - o
        <3>2. k \in Nat /\ k + 1 <= l /\ k + 1 >= 1 /\ at = o + k
            BY <1>3, <3>1, SMTT(30)
        <3> HIDE DEF k
        <3>3. at = CellOffset(layout, x + k, y)
            BY <3>2, CellAfter
        <3>4. x + k \in 0 .. layout.width
            BY <1>1, <1>3, <3>2, SMTT(30) DEF InGrid
        <3>5. v = y /\ u = x + k
            BY <1>1, <1>2, <1>4, <3>3, <3>4, OffsetsDistinct, SMTT(30)
        <3>6. u - x + 1 = k + 1
            BY <3>2, <3>5
        <3>7. QED
            BY <1>3, <3>2, <3>5, <3>6
    <2> HIDE DEF at, o, new, u, l
    <2>2. new[at + 1] = text[at + 1]
        BY <1>5, <1>6, <2>1
    <2>3. QED
        BY <1>7, <1>9, <2>2 DEF new, u, l, o
<1>10. QED
    BY <1>8, <1>9

\* What is held, while a range is read or written.
LEMMA HeldIs ==
    ASSUME IInv, held # NotHeld
    PROVE  /\ IsFile(held.source) /\ held.source \in Sources /\ IsLayout(held.layout)
           /\ Text(held.source) \in Seq(Bytes) /\ Len(Text(held.source)) = SizeOf(held.layout)
           /\ disk \in [Sources -> Entry] /\ disk[held.source].kind = "file"
           /\ Len(Text(held.source)) <= SizeMax
<1>1. IsFile(held.source) /\ IsLayout(held.layout) /\ SizeOf(held.layout) = Len(Text(held.source))
      /\ Len(Text(held.source)) <= SizeMax
    BY DEF IInv, HeldOK
<1>2. disk \in [Sources -> Entry]
    BY DEF IInv, StorageTypeOK
<1>3. QED
    BY <1>1, <1>2 DEF IsFile, Text, Entry

\* A step that leaves storage and what is held alone, and ends its operation.
LEMMA RangeReturns ==
    ASSUME IInv, op' = NoOp, UNCHANGED <<storageVars, held, cells>>, AnswerOK', creation = Idle
    PROVE  IInv'
<1>1. HeldOK' /\ StorageTypeOK' /\ creation' = Idle
    BY HeldKept, StorageKept DEF IInv, storageVars
<1>2. QED
    BY <1>1, Returned DEF IInv

\* One that goes on.
LEMMA RangeGoesOn ==
    ASSUME IInv, op'.kind \in {"read", "write"}, UNCHANGED <<storageVars, held, cells>>,
           answer' = NoAnswer, RangeOK', creation = Idle
    PROVE  IInv'
<1>1. HeldOK' /\ StorageTypeOK' /\ creation' = Idle
    BY HeldKept, StorageKept DEF IInv, storageVars
<1>2. QED
    BY <1>1, NothingAnswered DEF IInv, OpenOK, CreateOK

\* The answer of a range that was refused, or that failed.
LEMMA RangeFails ==
    ASSUME IInv, UNCHANGED <<storageVars, held, cells>>, creation = Idle, op' = NoOp,
           answer'.of \in {"read", "write"},
           answer'.error \in {"OutOfRange", "StorageFailed", "MalformedData"}
    PROVE  IInv'
<1>1. AnswerOK'
    BY PlainAnswer
<1>2. QED
    BY <1>1, RangeReturns

\* read_cells, as it is called, keeps the invariant.
LEMMA ReadCellsHolds ==
    ASSUME IInv, NEW y \in Nat, NEW x \in Nat, NEW n \in Nat, ReadCells(y, x, n)
    PROVE  IInv'
<1>1. held # NotHeld /\ op = NoOp /\ UNCHANGED <<storageVars, held, cells>>
    BY DEF ReadCells, HasLayout, Idling
<1>2. creation = Idle
    BY <1>1, NotCreating DEF Creating, Doing, NoOp
<1>3. CASE InGrid(held.layout, y, x, n) /\ n > 0
    <2>1. /\ op' = [kind |-> "read", pc |-> "cells", y |-> y, x |-> x, n |-> n, bytes |-> <<>>]
          /\ answer' = NoAnswer
        BY <1>3 DEF ReadCells, Begin
    <2>2. <<>> \in Seq(Bytes) /\ n \in Nat \ {0}
        BY <1>3
    <2>3. op' \in Reads
        BY <2>1, <2>2 DEF Reads
    <2>4. op'.kind = "read" /\ op'.pc = "cells" /\ op'.y = y /\ op'.x = x /\ op'.n = n
          /\ held' = held
        BY <1>1, <2>1
    <2>5. RangeOK'
        BY <1>1, <1>3, <2>3, <2>4 DEF RangeOK
    <2>6. QED
        BY <1>1, <1>2, <2>1, <2>4, <2>5, RangeGoesOn
<1>4. CASE ~ (InGrid(held.layout, y, x, n) /\ n > 0)
    <2>1. /\ op' = NoOp
          /\ answer' = [of |-> "read", y |-> y, x |-> x, bytes |-> <<>>,
                        error |-> IF InGrid(held.layout, y, x, n) THEN "none"
                                  ELSE "OutOfRange"]
        BY <1>4 DEF ReadCells, Return
    <2>2. CASE ~ InGrid(held.layout, y, x, n)
        BY <1>1, <1>2, <2>1, <2>2, RangeFails
    <2>3. CASE InGrid(held.layout, y, x, n)
        <3>1. answer'.of = "read" /\ answer'.error = "none" /\ answer'.y = y /\ answer'.x = x
              /\ answer'.bytes = <<>>
            BY <2>1, <2>3
        <3>2. InGrid(held.layout, y, x, 0)
            <4>1. held.layout.width \in Nat
                BY <1>1, HeldIs DEF IsLayout
            <4>2. QED
                BY <2>3, <4>1 DEF InGrid
        <3>3. <<>> \in Seq(Bytes) /\ Len(<<>>) = 0
            OBVIOUS
        <3>4. AnswerOK'
            BY <1>1, <2>1, <3>1, <3>2, <3>3 DEF AnswerOK, NoOp, AreRead
        <3>5. QED
            BY <1>1, <1>2, <2>1, <3>4, RangeReturns
    <2>4. QED
        BY <2>2, <2>3
<1>5. QED
    BY <1>3, <1>4

\* The read of the cells keeps the invariant.
LEMMA CellsReadHolds ==
    ASSUME IInv, CellsRead
    PROVE  IInv'
<1> DEFINE y == op.y
           x == op.x
           n == op.n
           o == CellOffset(held.layout, x, y)
           t == Text(held.source)
<1>1. /\ op.kind = "read" /\ op.pc = "cells" /\ UNCHANGED <<storageVars, held, cells>>
      /\ op \in Reads /\ held # NotHeld /\ InGrid(held.layout, y, x, n)
      /\ answer = NoAnswer
    BY DEF CellsRead, Doing, IInv, RangeOK, AnswerOK
<1>2. creation = Idle /\ y \in Nat /\ x \in Nat /\ n \in Nat \ {0}
    BY <1>1, NotCreating DEF Creating, Doing, Reads
<1>3. /\ IsLayout(held.layout) /\ t \in Seq(Bytes) /\ Len(t) = SizeOf(held.layout)
    BY <1>1, HeldIs
<1>4. o \in Nat /\ o + n <= Len(t)
    BY <1>1, <1>2, <1>3, RangeIs
<1>5. PICK out \in ReadOutcomes(held.source, o, n) :
           IF out.error # "none" THEN CellsReturn("read", "StorageFailed", <<>>)
           ELSE IF LF \in Range(out.bytes)
           THEN CellsReturn("read", "MalformedData", <<>>)
           ELSE /\ op' = [op EXCEPT !.pc = "terminator", !.bytes = out.bytes]
                /\ UNCHANGED answer
    BY DEF CellsRead
<1>6. CASE out.error # "none" \/ LF \in Range(out.bytes)
    <2>1. op' = NoOp /\ answer'.of = "read" /\ answer'.error \in {"StorageFailed", "MalformedData"}
        BY <1>5, <1>6 DEF CellsReturn, Return
    <2>2. QED
        BY <1>1, <1>2, <2>1, RangeFails
<1>7. CASE out.error = "none" /\ LF \notin Range(out.bytes)
    <2> DEFINE cut == SubSeq(t, o + 1, o + n)
    <2>1. out.bytes = cut
        BY <1>7, ReadOutcome
    <2>2. cut \in Seq(Bytes) /\ Len(cut) = n /\ \A k \in 1 .. n : cut[k] = t[o + k]
        <3> HIDE DEF o, t
        <3>1. QED
            BY <1>2, <1>3, <1>4, CutIs
    <2> HIDE DEF cut
    <2>3. op' = [op EXCEPT !.pc = "terminator", !.bytes = cut] /\ answer' = NoAnswer
        BY <1>1, <1>5, <1>7, <2>1
    <2>4. op' \in Reads /\ op'.kind = "read" /\ op'.y = y /\ op'.x = x /\ op'.n = n
          /\ op'.bytes = cut
        BY <1>1, <2>2, <2>3 DEF Reads
    <2>5. ASSUME NEW i \in 1 .. n PROVE cut[i] = CellByte(held.layout, x + i - 1, y, t)
        <3> DEFINE k == i - 1
        <3>1. k \in Nat /\ i = k + 1 /\ x + i - 1 = x + k
            BY <1>2
        <3> HIDE DEF k
        <3>2. CellOffset(held.layout, x + k, y) = o + k
            <4>1. \A layout, u, v, w : IsLayout(layout) /\ u \in Nat /\ v \in Nat /\ w \in Nat =>
                      CellOffset(layout, u + w, v) = CellOffset(layout, u, v) + w
                BY CellAfter
            <4>2. QED
                BY <1>2, <1>3, <3>1, <4>1
        <3> HIDE DEF o, t
        <3>3. o + k + 1 = o + i
            BY <1>4, <3>1
        <3>4. QED
            BY <2>2, <3>1, <3>2, <3>3 DEF CellByte
    <2>6. held' = held /\ Text(held.source)' = t
        BY <1>1 DEF Text, storageVars
    <2>7. AreRead(op.bytes, op.x, op.y)'
        BY <2>2, <2>4, <2>5, <2>6 DEF AreRead
    <2>8. RangeOK'
        BY <1>1, <2>2, <2>4, <2>6, <2>7 DEF RangeOK
    <2>9. QED
        BY <1>1, <1>2, <2>3, <2>4, <2>8, RangeGoesOn
<1>8. QED
    BY <1>6, <1>7

\* write_cells, as it is called, keeps the invariant.
LEMMA WriteCellsHolds ==
    ASSUME IInv, NEW y \in Nat, NEW x \in Nat, NEW data \in Fragments, WriteCells(y, x, data)
    PROVE  IInv'
<1>1. held # NotHeld /\ op = NoOp /\ UNCHANGED <<storageVars, held, cells>>
    BY DEF WriteCells, HasLayout, Idling
<1>2. creation = Idle /\ data \in Seq(Bytes)
    BY <1>1, NotCreating, OperationAssumption DEF Creating, Doing, NoOp
<1>3. CASE InGrid(held.layout, y, x, Len(data)) /\ data # <<>> /\ LF \notin Range(data)
    <2>1. /\ op' = [kind |-> "write", pc |-> "terminator", y |-> y, x |-> x, bytes |-> data]
          /\ answer' = NoAnswer
        BY <1>3 DEF WriteCells, Begin
    <2>2. Len(data) > 0
        BY <1>2, <1>3
    <2>3. op' \in Writes /\ op'.kind = "write" /\ op'.y = y /\ op'.x = x /\ op'.bytes = data
        BY <1>2, <2>1 DEF Writes
    <2>4. RangeOK'
        BY <1>1, <1>3, <2>2, <2>3 DEF RangeOK
    <2>5. QED
        BY <1>1, <1>2, <2>1, <2>3, <2>4, RangeGoesOn
<1>4. CASE ~ (InGrid(held.layout, y, x, Len(data)) /\ data # <<>> /\ LF \notin Range(data))
    <2>1. op' = NoOp /\ answer'.of = "write"
              /\ answer'.error \in {"OutOfRange", "none", "MalformedData"}
        BY <1>4 DEF WriteCells, Return
    <2>2. AnswerOK'
        BY <2>1, PlainAnswer
    <2>3. QED
        BY <1>1, <1>2, <2>1, <2>2, RangeReturns
<1>5. QED
    BY <1>3, <1>4

\* The read of the LF of the row, before the answer of read_cells and the write
\* of write_cells, keeps the invariant.
LEMMA TerminatorReadHolds ==
    ASSUME IInv, TerminatorRead
    PROVE  IInv'
<1>1. /\ op.kind \in {"read", "write"} /\ op.pc = "terminator"
      /\ UNCHANGED <<storageVars, held, cells>> /\ held' = held
      /\ held # NotHeld /\ answer = NoAnswer
    BY DEF TerminatorRead, IInv, RangeOK, AnswerOK
<1>2. creation = Idle
    BY <1>1, NotCreating DEF Creating, Doing
<1>3. PICK out \in ReadOutcomes(held.source, TerminatorOffset(held.layout, op.y), 1) :
           IF out.error # "none" THEN CellsReturn(op.kind, "StorageFailed", <<>>)
           ELSE IF out.bytes # <<LF>> THEN CellsReturn(op.kind, "MalformedData", <<>>)
           ELSE IF op.kind = "read" THEN CellsReturn("read", "none", op.bytes)
           ELSE op' = [op EXCEPT !.pc = "cells"] /\ UNCHANGED answer
    BY DEF TerminatorRead
<1>4. CASE out.error # "none" \/ out.bytes # <<LF>>
    <2>1. op' = NoOp /\ answer'.of = op.kind /\ answer'.error \in {"StorageFailed", "MalformedData"}
        BY <1>3, <1>4 DEF CellsReturn, Return
    <2>2. QED
        BY <1>1, <1>2, <2>1, RangeFails
<1>5. CASE out.error = "none" /\ out.bytes = <<LF>> /\ op.kind = "read"
    <2>1. /\ op' = NoOp /\ answer'.of = "read" /\ answer'.error = "none" /\ answer'.y = op.y
          /\ answer'.x = op.x /\ answer'.bytes = op.bytes
        BY <1>3, <1>5 DEF CellsReturn, Return
    <2>2. /\ op \in Reads /\ InGrid(held.layout, op.y, op.x, Len(op.bytes))
          /\ AreRead(op.bytes, op.x, op.y)
        BY <1>1, <1>5 DEF IInv, RangeOK
    <2>3. op.y \in Nat /\ op.x \in Nat /\ op.bytes \in Seq(Bytes)
        BY <2>2 DEF Reads
    <2>4. Text(held.source)' = Text(held.source)
        BY <1>1 DEF Text, storageVars
    <2>5. AreRead(answer.bytes, answer.x, answer.y)'
        BY <1>1, <2>1, <2>2, <2>4 DEF AreRead
    <2>6. AnswerOK'
        BY <1>1, <2>1, <2>2, <2>3, <2>5 DEF AnswerOK, NoOp
    <2>7. QED
        BY <1>1, <1>2, <2>1, <2>6, RangeReturns
<1>6. CASE out.error = "none" /\ out.bytes = <<LF>> /\ op.kind = "write"
    <2>1. op' = [op EXCEPT !.pc = "cells"] /\ answer' = NoAnswer
        BY <1>1, <1>3, <1>6
    <2>2. /\ op \in Writes /\ InGrid(held.layout, op.y, op.x, Len(op.bytes)) /\ Len(op.bytes) > 0
        BY <1>6 DEF IInv, RangeOK
    <2>3. op' \in Writes /\ op'.kind = "write" /\ op'.y = op.y /\ op'.x = op.x
          /\ op'.bytes = op.bytes
        BY <1>6, <2>1, <2>2 DEF Writes
    <2>4. RangeOK'
        BY <1>1, <2>2, <2>3 DEF RangeOK
    <2>5. QED
        BY <1>1, <1>2, <2>1, <2>3, <2>4, RangeGoesOn
<1>7. QED
    BY <1>1, <1>4, <1>5, <1>6

\* The write of the cells: what it leaves at the source, and nowhere else.
CellsWriting(part) ==
    /\ part \in Seq(Bytes) /\ Len(part) <= Len(op.bytes)
    /\ disk' = [disk EXCEPT ![held.source].bytes =
                    Patched(Text(held.source), CellOffset(held.layout, op.x, op.y), part)]

\* What the write of the cells does to the state.
LEMMA WritingIs ==
    ASSUME IInv, CellsWritten
    PROVE  /\ op.kind = "write" /\ op \in Writes /\ held # NotHeld /\ creation = Idle
           /\ op.x \in Nat /\ op.y \in Nat /\ op.bytes \in Seq(Bytes)
           /\ Len(op.bytes) \in Nat \ {0}
           /\ InGrid(held.layout, op.y, op.x, Len(op.bytes))
           /\ op' = NoOp /\ answer'.of = "write" /\ answer'.error \in {"none", "StorageFailed"}
           /\ creation' = Idle /\ reply' = reply /\ held' = held
           /\ \/ disk' = disk
              \/ \E part : CellsWriting(part)
           /\ \/ CellsWriting(op.bytes) /\ cells' = Known(op.y, op.x, op.bytes)
              \/ cells' = Known(op.y, op.x, [i \in DOMAIN op.bytes |-> Unclear])
<1>1. /\ op.kind = "write" /\ op \in Writes /\ held # NotHeld
      /\ InGrid(held.layout, op.y, op.x, Len(op.bytes)) /\ Len(op.bytes) > 0
    BY DEF CellsWritten, Doing, IInv, RangeOK
<1>2. op.x \in Nat /\ op.y \in Nat /\ op.bytes \in Seq(Bytes) /\ Len(op.bytes) \in Nat \ {0}
    BY <1>1 DEF Writes
<1>3. creation = Idle
    BY <1>1, NotCreating DEF Creating, Doing
<1>4. PICK out \in WriteOutcomes(held.source, CellOffset(held.layout, op.x, op.y), op.bytes) :
           /\ disk' = out.disk
           /\ IF out.error = "none"
              THEN /\ CellsReturn("write", "none", <<>>)
                   /\ cells' = Known(op.y, op.x, op.bytes)
              ELSE /\ CellsReturn("write", "StorageFailed", <<>>)
                   /\ cells' = Known(op.y, op.x, [i \in DOMAIN op.bytes |-> Unclear])
    BY DEF CellsWritten
<1>5. /\ op' = NoOp /\ answer'.of = "write" /\ answer'.error \in {"none", "StorageFailed"}
    BY <1>4 DEF CellsReturn, Return
<1>6. creation' = Idle /\ reply' = reply /\ held' = held
    BY <1>3 DEF CellsWritten
<1>7. \/ out.error # "none" /\ disk' = disk
      \/ \E part \in {op.bytes} \cup Torn(op.bytes) :
             /\ CellsWriting(part)
             /\ out.error = "none" => part = op.bytes
    <2>1. \A part \in {op.bytes} \cup Torn(op.bytes) :
              part \in Seq(Bytes) /\ Len(part) <= Len(op.bytes)
        BY <1>2, TornIs
    <2>2. \/ out.error # "none" /\ out.disk = disk
          \/ \E part \in {op.bytes} \cup Torn(op.bytes) :
                 /\ out.disk = [disk EXCEPT ![held.source].bytes =
                        Patched(Text(held.source), CellOffset(held.layout, op.x, op.y), part)]
                 /\ out.error = "none" => part = op.bytes
        BY WriteOutcome
    <2>3. CASE out.error # "none" /\ out.disk = disk
        BY <1>4, <2>3
    <2>4. ASSUME NEW part \in {op.bytes} \cup Torn(op.bytes),
                 out.disk = [disk EXCEPT ![held.source].bytes =
                     Patched(Text(held.source), CellOffset(held.layout, op.x, op.y), part)],
                 out.error = "none" => part = op.bytes
          PROVE  CellsWriting(part)
        BY <1>4, <2>1, <2>4 DEF CellsWriting
    <2>5. QED
        BY <2>2, <2>3, <2>4
<1>8. /\ \/ disk' = disk
         \/ \E part : CellsWriting(part)
      /\ \/ CellsWriting(op.bytes) /\ cells' = Known(op.y, op.x, op.bytes)
         \/ cells' = Known(op.y, op.x, [i \in DOMAIN op.bytes |-> Unclear])
    BY <1>4, <1>7
<1>9. QED
    BY <1>1, <1>2, <1>3, <1>5, <1>6, <1>8

\* The write of the cells keeps the invariant: no write touches a cell of which
\* more is known than it says.
LEMMA CellsWrittenHolds ==
    ASSUME IInv, CellsWritten
    PROVE  IInv'
<1> DEFINE x == op.x
           y == op.y
           data == op.bytes
           n == Len(op.bytes)
           layout == held.layout
           s == held.source
           t == Text(held.source)
           o == CellOffset(held.layout, op.x, op.y)
<1>1. /\ held # NotHeld /\ x \in Nat /\ y \in Nat /\ data \in Seq(Bytes) /\ n \in Nat \ {0}
      /\ InGrid(layout, y, x, n) /\ op' = NoOp /\ answer'.of = "write"
      /\ answer'.error \in {"none", "StorageFailed"} /\ creation' = Idle /\ reply' = reply
      /\ held' = held
    BY WritingIs
<1>2. /\ s \in Sources /\ IsLayout(layout) /\ t \in Seq(Bytes) /\ Len(t) = SizeOf(layout)
      /\ disk \in [Sources -> Entry] /\ disk[s].kind = "file" /\ Len(t) <= SizeMax
    BY <1>1, HeldIs
<1>3. o \in Nat /\ o + n <= Len(t)
    BY <1>1, <1>2, RangeIs
<1>4. cells \in [Grid(layout) -> Bytes \cup {Unclear}]
    BY <1>1 DEF IInv, HeldOK
<1>5. ASSUME NEW part, CellsWriting(part)
      PROVE  /\ disk' \in [Sources -> Entry] /\ disk'[s].kind = "file"
             /\ Len(disk'[s].bytes) = Len(t) /\ part \in Seq(Bytes) /\ Len(part) <= n
             /\ disk'[s].bytes = Patched(t, o, part)
    <2>1. part \in Seq(Bytes) /\ Len(part) \in Nat /\ Len(part) <= n
        BY <1>5 DEF CellsWriting
    <2>2. disk' = [disk EXCEPT ![s].bytes = Patched(t, o, part)]
        BY <1>5 DEF CellsWriting
    <2>3. Patched(t, o, part) \in Seq(Bytes) /\ Len(Patched(t, o, part)) = Len(t)
        <3> HIDE DEF t, o, n
        <3>1. o + Len(part) <= Len(t)
            <4>1. Len(t) \in Nat
                BY <1>2
            <4>2. QED
                BY <1>1, <1>3, <2>1, <4>1
        <3>2. QED
            BY <1>2, <1>3, <2>1, <3>1, PatchedIs
    <2> HIDE DEF t, o, s
    <2>4. QED
        BY <1>2, <2>1, <2>2, <2>3 DEF Entry
<1>6. /\ disk' \in [Sources -> Entry] /\ disk'[s].kind = "file" /\ Len(disk'[s].bytes) = Len(t)
    <2>1. CASE disk' = disk
        BY <1>2, <2>1 DEF Text
    <2>2. CASE disk' # disk
        BY <1>5, <2>2, WritingIs
    <2>3. QED
        BY <2>1, <2>2
<1>7. StorageTypeOK'
    BY <1>1, <1>6 DEF StorageTypeOK, IInv
<1> DEFINE Byte(c) == CellByte(layout, c[1], c[2], disk'[s].bytes)
           Touched(c) == c[2] = y /\ c[1] - x + 1 \in 1 .. n
<1>8. ASSUME NEW part, CellsWriting(part), NEW c \in Grid(layout)
      PROVE  Byte(c) = IF c[2] = y /\ c[1] - x + 1 \in 1 .. Len(part) THEN part[c[1] - x + 1]
                       ELSE CellByte(layout, c[1], c[2], t)
    <2>1. part \in Seq(Bytes) /\ Len(part) <= n /\ disk'[s].bytes = Patched(t, o, part)
        BY <1>5, <1>8
    <2> HIDE DEF layout, t, n, s, x, y
    <2>2. CellByte(layout, c[1], c[2], Patched(t, CellOffset(layout, x, y), part)) =
               IF c[2] = y /\ c[1] - x + 1 \in 1 .. Len(part) THEN part[c[1] - x + 1]
               ELSE CellByte(layout, c[1], c[2], t)
        BY <1>1, <1>2, <2>1, PatchedCell
    <2>3. QED
        BY <2>1, <2>2, Zenon DEF layout, x, y
<1>9. \A c \in Grid(layout) : ~ Touched(c) => Byte(c) = CellByte(layout, c[1], c[2], t)
    <2>1. SUFFICES ASSUME NEW c \in Grid(layout), ~ Touched(c)
                   PROVE  Byte(c) = CellByte(layout, c[1], c[2], t)
        OBVIOUS
    <2>2. CASE disk' = disk
        BY <2>2 DEF Text
    <2>3. ASSUME NEW part, CellsWriting(part)
          PROVE  Byte(c) = CellByte(layout, c[1], c[2], t)
        <3>1. part \in Seq(Bytes) /\ Len(part) <= n /\ Len(part) \in Nat /\ n \in Nat
            BY <1>1, <1>5, <2>3
        <3>2. 1 .. Len(part) \subseteq 1 .. n
            <4> HIDE DEF n
            <4>1. QED
                BY <3>1
        <3>3. ~ (c[2] = y /\ c[1] - x + 1 \in 1 .. Len(part))
            BY <2>1, <3>2
        <3> HIDE DEF Byte, t, layout, x, y
        <3>4. QED
            BY <1>8, <2>3, <3>3
    <2>4. QED
        BY <2>2, <2>3, WritingIs
<1>10. DOMAIN data = 1 .. n /\ DOMAIN cells = Grid(layout)
    BY <1>1, <1>4
<1>11. \A c \in Grid(layout) :
          cells[c] \in Bytes \cup {Unclear}
              /\ cells[c] \in {Unclear, CellByte(layout, c[1], c[2], t)}
    BY <1>1, <1>4 DEF IInv, HeldOK
<1>12. /\ cells' \in [Grid(layout) -> Bytes \cup {Unclear}]
       /\ \A c \in Grid(layout) : cells'[c] \in {Unclear, Byte(c)}
    <2>1. CASE CellsWriting(data) /\ cells' = Known(y, x, data)
        <3>1. cells' = [c \in Grid(layout) |-> IF Touched(c) THEN data[c[1] - x + 1] ELSE cells[c]]
            BY <1>10, <2>1 DEF Known
        <3>2. \A i \in 1 .. n : data[i] \in Bytes
            BY <1>1
        <3>3. \A c \in Grid(layout) : Touched(c) => Byte(c) = data[c[1] - x + 1]
            BY <1>8, <2>1
        <3> HIDE DEF Byte, layout, t
        <3>4. \A c \in Grid(layout) :
                  /\ Touched(c) => cells'[c] \in Bytes /\ cells'[c] = Byte(c)
                  /\ ~ Touched(c) => cells'[c] = cells[c]
            BY <3>1, <3>2, <3>3
        <3> HIDE DEF Touched
        <3>5. \A c \in Grid(layout) :
                  cells'[c] \in Bytes \cup {Unclear} /\ cells'[c] \in {Unclear, Byte(c)}
            BY <1>9, <1>11, <3>4
        <3>6. cells' \in [Grid(layout) -> {cells'[c] : c \in Grid(layout)}]
            BY <3>1
        <3>7. QED
            BY <3>5, <3>6
    <2>2. CASE cells' = Known(y, x, [i \in DOMAIN data |-> Unclear])
        <3>1. cells' = [c \in Grid(layout) |-> IF Touched(c) THEN Unclear ELSE cells[c]]
            BY <1>10, <2>2 DEF Known
        <3> HIDE DEF Byte, layout, t, Touched
        <3>2. \A c \in Grid(layout) :
                  cells'[c] \in Bytes \cup {Unclear} /\ cells'[c] \in {Unclear, Byte(c)}
            BY <1>9, <1>11, <3>1
        <3>3. QED
            BY <3>1, <3>2
    <2>3. QED
        BY <2>1, <2>2, WritingIs
<1>13. HeldOK'
    <2>1. held'.source = s /\ held'.layout = layout /\ Text(held.source)' = disk'[s].bytes
          /\ IsFile(held.source)'
        BY <1>1, <1>2, <1>6 DEF Text, IsFile
    <2> HIDE DEF s, layout, t
    <2>2. QED
        BY <1>2, <1>6, <1>12, <2>1 DEF HeldOK
<1>14. AnswerOK'
    BY <1>1, PlainAnswer
<1>15. QED
    BY <1>1, <1>7, <1>13, <1>14, Returned DEF IInv

\* Every step keeps the invariant.
LEMMA StepHolds ==
    ASSUME IInv, [Next]_vars
    PROVE  IInv'
<1>1. CASE UNCHANGED vars
    <2>1. /\ UNCHANGED storageVars /\ UNCHANGED <<disk, held, cells>>
          /\ op' = op /\ answer' = answer /\ creation' = creation
        BY <1>1 DEF vars, storageVars
    <2>2. HeldOK' /\ StorageTypeOK'
        BY <2>1, HeldKept, StorageKept DEF IInv
    <2>3. OpenOK' /\ CreateOK'
        BY <2>1 DEF IInv, OpenOK, CreateOK, IsFile, Text
    <2>4. RangeOK' /\ AnswerOK'
        BY <2>1 DEF IInv, RangeOK, AnswerOK, AreRead, Text
    <2>5. QED
        BY <2>1, <2>2, <2>3, <2>4 DEF IInv, Creating, Doing
<1>2. ASSUME Callers PROVE IInv'
    <2>1. ASSUME NEW s \in Sources \cup {Unknown}, Open(s) PROVE IInv'
        BY <2>1, OpenHolds
    <2>2. ASSUME NEW s \in Sources \cup {Unknown}, NEW extent \in Extents, NEW p \in Origins,
                 CreateBlank(s, extent, p) \/ CreateBlankRefused(s, extent, p)
          PROVE  IInv'
        BY <2>2, CreateBlankHolds, CreateBlankRefusedHolds
    <2>3. ASSUME NEW y \in 0 .. held.layout.height, NEW x \in 0 .. held.layout.width + 1,
                 held # NotHeld
          PROVE  y \in Nat /\ x \in Nat /\ 0 .. held.layout.width + 1 \subseteq Nat
        <3>1. held.layout.height \in Nat /\ held.layout.width \in Nat
            BY <2>3, HeldIs DEF IsLayout
        <3>2. QED
            BY <3>1
    <2>4. ASSUME NEW y \in 0 .. held.layout.height, NEW x \in 0 .. held.layout.width + 1,
                 NEW n \in 0 .. held.layout.width + 1, ReadCells(y, x, n)
          PROVE  IInv'
        <3>1. y \in Nat /\ x \in Nat /\ n \in Nat
            BY <2>3, <2>4 DEF ReadCells, HasLayout
        <3>2. QED
            BY <2>4, <3>1, ReadCellsHolds
    <2>5. ASSUME NEW y \in 0 .. held.layout.height, NEW x \in 0 .. held.layout.width + 1,
                 NEW data \in Fragments, WriteCells(y, x, data)
          PROVE  IInv'
        <3>1. y \in Nat /\ x \in Nat
            BY <2>3, <2>5 DEF WriteCells, HasLayout
        <3>2. QED
            BY <2>5, <3>1, WriteCellsHolds
    <2>6. CASE Restart
        BY <2>6, RestartHolds
    <2>7. QED
        BY <1>2, <2>1, <2>2, <2>4, <2>5, <2>6 DEF Callers
<1>3. CASE OpenSizes \/ OpenReads \/ OpenRunsOut
    BY <1>3, OpenSizesHolds, OpenReadsHolds, OpenRunsOutHolds
<1>4. CASE FileCreated \/ MetadataWritten \/ RowEnded \/ BlankReopened
    BY <1>4, FileCreatedHolds, MetadataWrittenHolds, RowEndedHolds, BlankReopenedHolds
<1>5. CASE CellsRead \/ TerminatorRead \/ CellsWritten
    BY <1>5, CellsReadHolds, TerminatorReadHolds, CellsWrittenHolds
<1>6. QED
    BY <1>1, <1>2, <1>3, <1>4, <1>5 DEF Next, Steps

\* The inductive invariant of layer sources, from whatever files earlier sessions
\* left.
THEOREM Invariance == Spec => []IInv
<1>1. Init => IInv
    BY InitHolds
<1>2. IInv /\ [Next]_vars => IInv'
    BY StepHolds
<1>3. QED
    BY <1>1, <1>2, PTL DEF Spec

\* The operations, their answers and the layout held have their types, and a
\* layout is only held for a file that exists: LayerSourceHandle after any
\* sequence of calls, failures and restarts.
THEOREM TypeCorrect == Spec => []TypeOK
<1>1. ASSUME IInv PROVE TypeOK
    <2>1. held # NotHeld =>
              /\ IsFile(held.source) /\ DOMAIN cells = Grid(held.layout)
              /\ Range(cells) \subseteq Bytes \cup {Unclear}
        BY <1>1 DEF IInv, HeldOK, Range
    <2>2. QED
        BY <1>1, <2>1 DEF TypeOK, IInv, AnswerOK, Grid
<1>2. QED
    BY <1>1, Invariance, PTL

\* read_cells and write_cells: a read that succeeds returns what the last
\* successful write left in each cell, through torn and failed writes of other
\* cells, for every width and height of a source.
THEOREM ReadsAreTrue == Spec => []ReadsWhatWasWritten
<1>1. ASSUME IInv, answer.of = "read", answer.error = "none", NEW i \in DOMAIN answer.bytes
      PROVE  cells[<<answer.x + i - 1, answer.y>>] \in {Unclear, answer.bytes[i]}
    <2> DEFINE layout == held.layout
               c == <<answer.x + i - 1, answer.y>>
               t == Text(held.source)
    <2>1. /\ held # NotHeld /\ answer.bytes \in Seq(Bytes) /\ answer.x \in Nat /\ answer.y \in Nat
          /\ InGrid(layout, answer.y, answer.x, Len(answer.bytes))
          /\ AreRead(answer.bytes, answer.x, answer.y)
        BY <1>1 DEF IInv, AnswerOK
    <2>2. i \in 1 .. Len(answer.bytes)
        BY <2>1
    <2>3. answer.bytes[i] = CellByte(layout, c[1], c[2], t)
        BY <2>1, <2>2 DEF AreRead
    <2>4. c \in Grid(layout)
        <3>1. layout.width \in Nat /\ layout.height \in Nat /\ Len(answer.bytes) \in Nat
            BY <1>1, <2>1, HeldIs DEF IsLayout
        <3>2. answer.x + i - 1 \in 0 .. layout.width - 1 /\ answer.y \in 0 .. layout.height - 1
            <4> DEFINE l == Len(answer.bytes)
                       x == answer.x
                       y == answer.y
                       w == layout.width
                       h == layout.height
            <4>1. /\ w \in Nat /\ h \in Nat /\ l \in Nat /\ x \in Nat /\ y \in Nat /\ i \in 1 .. l
                  /\ y < h /\ x <= w /\ l <= w - x
                BY <2>1, <2>2, <3>1 DEF InGrid
            <4> HIDE DEF l, x, y, w, h
            <4>2. x + i - 1 \in 0 .. w - 1 /\ y \in 0 .. h - 1
                BY <4>1
            <4>3. QED
                BY <4>2 DEF x, y, w, h
        <3>3. QED
            BY <3>2 DEF Grid
    <2>5. cells[c] \in {Unclear, CellByte(layout, c[1], c[2], t)}
        BY <1>1, <2>1, <2>4 DEF IInv, HeldOK
    <2>6. QED
        BY <2>3, <2>5
<1>2. IInv => ReadsWhatWasWritten
    BY <1>1 DEF ReadsWhatWasWritten
<1>3. QED
    BY <1>2, Invariance, PTL

\* create_blank_layer_source: a creation that succeeds has left the whole text of
\* a blank source, and the open at its end has read back the extent and position
\* it was called with.
THEOREM BlanksAreWhole == Spec => []BlankIsWhole
<1>1. IInv => BlankIsWhole
    BY DEF IInv, AnswerOK, BlankIsWhole
<1>2. QED
    BY <1>1, Invariance, PTL

\* What an earlier session left at the paths holds no number, in the place of a
\* position, that the uint64 accumulator takes and int64 does not: the texts on
\* which the reader and the format part (WideValuesOverflow).
NarrowTexts == \A t \in Texts : Unwrapped(t)

\* Every file is such a text, and the layout held is what it means.
Narrowed ==
    /\ \A s \in Sources : Unwrapped(Text(s))
    /\ held # NotHeld =>
           Meaning(Text(held.source)) = held.layout /\ held.layout.error = "none"

\* The layout of a text begins where its metadata ends.
LEMMA LayoutMeans ==
    ASSUME NEW t \in Seq(Bytes), Meaning(t).error = "none"
    PROVE  Ends(t) # {} /\ Meaning(t).offset = End(t) + 1
<1>1. Ends(t) # {}
    BY DEF Meaning, Failure
<1> DEFINE T == LineStarts(t, End(t))
<1>2. Wrong(t, T) = {}
    <2>1. SUFFICES ASSUME Wrong(t, T) # {} PROVE FALSE
        OBVIOUS
    <2>2. Wrong(t, T) \in SUBSET Nat
        <3>1. End(t) \in Nat
            BY <1>1, EndIs
        <3>2. QED
            BY <3>1 DEF Wrong, LineStarts
    <2> DEFINE i == CHOOSE n \in Wrong(t, T) : \A j \in Wrong(t, T) : n <= j
    <2>3. i \in Wrong(t, T)
        BY <2>1, <2>2, LeastNatural
    <2>4. Meaning(t) = Failure(LineError(t, T, i))
        BY <1>1, <2>1, MeaningIs
    <2> HIDE DEF i
    <2>5. QED
        BY <2>3, <2>4 DEF Wrong, Failure
<1>3. \A key \in Keys : GoodLines(t, T, key) # {}
    <2>1. SUFFICES ASSUME \E key \in Keys : GoodLines(t, T, key) = {} PROVE FALSE
        OBVIOUS
    <2>2. Meaning(t) = Failure("MissingRecord")
        BY <1>1, <1>2, <2>1, MeaningIs
    <2>3. QED
        BY <2>2 DEF Failure
<1>4. Meaning(t) = Finalized([version |-> TRUE, dimensions |-> Said(t, T, D),
                              position |-> Said(t, T, P)], End(t) + 1, Len(t))
    BY <1>1, <1>2, <1>3, MeaningIs
<1>5. QED
    BY <1>1, <1>4 DEF Finalized, Failure, Layout

-----------------------------------------------------------------------------
\* Nothing but what is at one place changes, and no layout is held.
LEMMA NarrowedCreation ==
    ASSUME Narrowed, disk \in [Sources -> Entry], held' = NotHeld, NEW s, NEW entry,
           disk' = [disk EXCEPT ![s] = entry],
           Unwrapped(entry.bytes)
    PROVE  Narrowed'
<1>1. \A o \in Sources : disk'[o] = disk[o] \/ disk'[o] = entry
    OBVIOUS
<1>2. QED
    BY <1>1 DEF Narrowed, Text

\* A step that leaves the disk alone and opens nothing keeps the texts narrow.
LEMMA NarrowedKept ==
    ASSUME Narrowed, disk' = disk, held' = held \/ held' = NotHeld
    PROVE  Narrowed'
BY DEF Narrowed, Text

\* A prefix of small bytes, or of blanks.
LEMMA PrefixSmall ==
    ASSUME NEW t \in Seq(Bytes), Small(t), NEW n \in 0 .. Len(t)
    PROVE  SubSeq(t, 1, n) \in Seq(Bytes) /\ Small(SubSeq(t, 1, n))
<1>1. n \in Nat /\ 0 + n <= Len(t) /\ Len(t) \in Nat
    OBVIOUS
<1> DEFINE cut == SubSeq(t, 1, n)
<1>2. cut \in Seq(Bytes) /\ Len(cut) = n /\ \A k \in 1 .. n : cut[k] = t[k]
    <2>1. \A o \in Nat : o + n <= Len(t) =>
              LET part == SubSeq(t, o + 1, o + n)
              IN  /\ part \in Seq(Bytes) /\ Len(part) = n /\ \A k \in 1 .. n : part[k] = t[o + k]
        BY <1>1, CutIs
    <2>2. 0 \in Nat /\ 0 + 1 = 1 /\ 0 + n = n /\ \A k \in 1 .. n : 0 + k = k
        BY <1>1
    <2>3. /\ SubSeq(t, 0 + 1, 0 + n) \in Seq(Bytes) /\ Len(SubSeq(t, 0 + 1, 0 + n)) = n
          /\ \A k \in 1 .. n : SubSeq(t, 0 + 1, 0 + n)[k] = t[0 + k]
        BY <1>1, <2>1, <2>2
    <2>4. QED
        BY <2>2, <2>3
<1> HIDE DEF cut
<1>3. \A k \in 1 .. n : k \in 1 .. Len(t)
    BY <1>1
<1>4. QED
    BY <1>2, <1>3 DEF Small, cut

\* What one write of a creation may leave.
LEMMA NarrowedWriteOf ==
    ASSUME IInv, Narrowed, op.kind = "create", NEW offset \in Nat, NEW data \in Seq(Bytes),
           NEW goesOn, WriteOf(offset, data, goesOn), Small(Text(op.source)), Small(data)
    PROVE  Narrowed'
<1> DEFINE s == op.source
           t == Text(op.source)
<1>1. held' = NotHeld /\ disk \in [Sources -> Entry] /\ s \in Sources /\ held' = held
    BY CreationIs DEF WriteOf, IInv, StorageTypeOK
<1>2. PICK out \in WriteOutcomes(s, offset, data) : disk' = out.disk
    BY DEF WriteOf
<1>3. CASE out.disk = disk
    BY <1>1, <1>2, <1>3, NarrowedKept
<1>4. ASSUME IsFile(s), InRange(s, offset, Len(data)), NEW part \in {data} \cup Torn(data),
             out.disk = [disk EXCEPT ![s].bytes = Patched(t, offset, part)]
      PROVE  Narrowed'
    <2>1. t \in Seq(Bytes) /\ disk[s] \in Entry
        BY <1>1, <1>4 DEF Text, Entry
    <2>2. part \in Seq(Bytes) /\ Len(part) \in 0 .. Len(data)
          /\ \A i \in 1 .. Len(part) : part[i] = data[i]
        BY TornIs
    <2>3. Small(part)
        <3>1. Len(data) \in Nat /\ \A i \in 1 .. Len(part) : i \in 1 .. Len(data)
            BY <2>2
        <3>2. QED
            BY <2>2, <3>1 DEF Small
    <2>4. offset + Len(part) <= Len(t)
        BY <1>4, <2>1, <2>2 DEF InRange, Text
    <2> DEFINE new == Patched(t, offset, part)
    <2>5. new \in Seq(Bytes) /\ Small(new)
        <3> HIDE DEF t
        <3> HIDE DEF new
        <3>1. \A u, v \in Seq(Bytes), o \in Nat : o + Len(v) <= Len(u) /\ Small(u) /\ Small(v) =>
                  Patched(u, o, v) \in Seq(Bytes) /\ Small(Patched(u, o, v))
            BY PatchedIs, PatchedSmall
        <3>2. Small(t)
            BY DEF t
        <3>3. QED
            BY <2>1, <2>2, <2>3, <2>4, <3>1, <3>2 DEF new
    <2> HIDE DEF new
    <2>6. Unwrapped(new)
        BY <2>5, SmallUnwrapped
    <2>7. disk' = [disk EXCEPT ![s] = [disk[s] EXCEPT !.bytes = new]]
        BY <1>2, <1>4 DEF new
    <2>8. [disk[s] EXCEPT !.bytes = new].bytes = new
        BY <2>1 DEF Entry
    <2> HIDE DEF s
    <2>9. QED
        BY <1>1, <2>6, <2>7, <2>8, NarrowedCreation
<1>5. QED
    BY <1>2, <1>3, <1>4, WriteOutcome

\* An open that returns has found the layout the text means.
LEMMA NarrowedReturns ==
    ASSUME IInv', Narrowed, NEW result, OpenReturns(result)
    PROVE  Narrowed'
<1>1. /\ disk' = disk /\ answer'.of = "open" /\ answer'.error = result.error
      /\ answer'.source = op.source /\ answer'.result = result
    BY DEF OpenReturns, Return, storageVars
<1>2. CASE result.error # "none"
    BY <1>1, <1>2, NarrowedKept DEF OpenReturns
<1>3. CASE result.error = "none"
    <2>1. held' = [source |-> op.source, layout |-> result]
        BY <1>3 DEF OpenReturns
    <2>2. held' # NotHeld => IsFile(held.source)'
        BY DEF IInv, HeldOK
    <2>3. held' # NotHeld => op.source \in Sources /\ disk[op.source].kind = "file"
        BY <1>1, <2>1, <2>2 DEF IsFile
    <2>4. held' # NotHeld => Unwrapped(Text(answer.source)')
        BY <1>1, <2>3 DEF Narrowed, Text
    <2>5. held' # NotHeld => result = Meaning(Text(answer.source)')
        BY <1>1, <1>3, <2>4 DEF IInv, AnswerOK
    <2>6. held'.source = op.source /\ held'.layout = result
              /\ Text(held.source)' = Text(answer.source)'
        BY <1>1, <2>1 DEF Text
    <2>7. \A s \in Sources : Unwrapped(Text(s)')
        BY <1>1 DEF Narrowed, Text
    <2>8. QED
        BY <1>3, <2>5, <2>6, <2>7 DEF Narrowed
<1>4. QED
    BY <1>2, <1>3

\* The cells that are written lie behind the metadata.
LEMMA WritingMeans ==
    ASSUME IInv, Narrowed, op.kind = "write", held # NotHeld, op \in Writes,
           InGrid(held.layout, op.y, op.x, Len(op.bytes)), Len(op.bytes) \in Nat \ {0},
           NEW part, CellsWriting(part)
    PROVE  LET t == Text(held.source)
               u == Patched(t, CellOffset(held.layout, op.x, op.y), part)
           IN  /\ disk'[held.source] = [disk[held.source] EXCEPT !.bytes = u]
               /\ u \in Seq(Bytes) /\ Len(u) = Len(t)
               /\ Meaning(u) = Meaning(t) /\ (Unwrapped(u) <=> Unwrapped(t))
<1> DEFINE t == Text(held.source)
           layout == held.layout
           o == CellOffset(held.layout, op.x, op.y)
           u == Patched(t, o, part)
           s == held.source
<1>1. /\ s \in Sources /\ IsLayout(layout) /\ t \in Seq(Bytes) /\ Len(t) = SizeOf(layout)
      /\ disk \in [Sources -> Entry]
    BY HeldIs
<1>2. Meaning(t) = layout /\ layout.error = "none"
    BY DEF Narrowed
<1>3. op.x \in Nat /\ op.y \in Nat
    BY DEF Writes
<1>4. part \in Seq(Bytes) /\ Len(part) <= Len(op.bytes) /\ Len(part) \in Nat
      /\ disk' = [disk EXCEPT ![s].bytes = u]
    BY DEF CellsWriting
<1>5. /\ o \in Nat /\ o + Len(op.bytes) <= Len(t) /\ op.y \in 0 .. layout.height - 1
      /\ op.x \in 0 .. layout.width - 1
    BY <1>1, <1>3, RangeIs
<1>6. layout.offset <= o
    <2>1. op.x \in 0 .. layout.width
        BY <1>1, <1>5 DEF IsLayout
    <2>2. QED
        BY <1>1, <1>5, <2>1, RowWithinSize
<1>7. Ends(t) # {} /\ layout.offset = End(t) + 1 /\ End(t) \in Nat
    <2>1. Ends(t) # {} /\ Meaning(t).offset = End(t) + 1
        BY <1>1, <1>2, LayoutMeans
    <2>2. End(t) \in Nat
        BY <1>1, <2>1, EndIs
    <2>3. QED
        BY <1>2, <2>1, <2>2
<1>8. disk'[s] = [disk[s] EXCEPT !.bytes = u]
    BY <1>1, <1>4
<1>9. o + Len(part) <= Len(t)
    <2> HIDE DEF o, t
    <2>1. Len(t) \in Nat
        BY <1>1
    <2>2. QED
        BY <1>4, <1>5, <2>1
<1>10. /\ u \in Seq(Bytes) /\ Len(u) = Len(t)
       /\ \A i \in 1 .. Len(t) : u[i] = IF i > o /\ i <= o + Len(part) THEN part[i - o] ELSE t[i]
    <2> HIDE DEF o, t
    <2>1. QED
        BY <1>1, <1>4, <1>5, <1>9, PatchedIs
<1> HIDE DEF u, t, o, s, layout
<1>11. \A i \in 1 .. End(t) + 1 : u[i] = t[i]
    <2>1. SUFFICES ASSUME NEW i \in 1 .. End(t) + 1 PROVE u[i] = t[i]
        OBVIOUS
    <2>2. End(t) + 1 <= Len(t)
        BY <1>1, <1>7, EndIs
    <2>3. Len(t) \in Nat
        BY <1>1
    <2>4. i \in 1 .. Len(t) /\ ~ i > o
        BY <1>5, <1>6, <1>7, <2>2, <2>3
    <2>5. QED
        BY <1>10, <2>4
<1>12. Meaning(u) = Meaning(t) /\ (Unwrapped(u) <=> Unwrapped(t))
    BY <1>1, <1>7, <1>10, <1>11, MeaningKept
<1>13. QED
    BY <1>8, <1>10, <1>12 DEF u, t, o, s

\* The write of the cells leaves the metadata alone.
LEMMA NarrowedWritten ==
    ASSUME IInv, Narrowed, CellsWritten
    PROVE  Narrowed'
<1>1. held' = held /\ held # NotHeld /\ disk \in [Sources -> Entry] /\ held.source \in Sources
    BY WritingIs, HeldIs
<1>2. CASE disk' = disk
    BY <1>1, <1>2, NarrowedKept
<1>3. ASSUME NEW part, CellsWriting(part) PROVE Narrowed'
    <2> DEFINE s == held.source
               t == Text(held.source)
               u == Patched(t, CellOffset(held.layout, op.x, op.y), part)
    <2>1. /\ disk'[s] = [disk[s] EXCEPT !.bytes = u] /\ Meaning(u) = Meaning(t)
          /\ Unwrapped(u) <=> Unwrapped(t)
        BY <1>3, WritingIs, WritingMeans
    <2>2. disk'[s].bytes = u /\ disk'[s].kind = disk[s].kind
        BY <1>1, <2>1 DEF Entry
    <2>3. \A o \in Sources : o # s => disk'[o] = disk[o]
        BY <1>1, <1>3 DEF CellsWriting
    <2>4. Text(held.source)' = u
        BY <1>1, <2>2 DEF Text
    <2> HIDE DEF u, t
    <2>5. \A o \in Sources : Unwrapped(disk'[o].bytes)
        BY <2>1, <2>2, <2>3 DEF Narrowed, t, Text
    <2>6. QED
        BY <1>1, <2>1, <2>4, <2>5 DEF Narrowed, t, Text
<1>4. QED
    BY <1>2, <1>3, WritingIs

\* A file of spaces has no number.
LEMMA NarrowedBlanks ==
    ASSUME Narrowed, disk \in [Sources -> Entry], held' = NotHeld, NEW s, NEW n \in Nat,
           disk' = [disk EXCEPT ![s] = File(Blanks(n))]
    PROVE  Narrowed'
<1>1. Unwrapped(Blanks(n))
    BY BlanksIs, BlanksSmall, SmallUnwrapped
<1>2. File(Blanks(n)).bytes = Blanks(n)
    BY DEF File
<1>3. QED
    BY <1>1, <1>2, NarrowedCreation

\* create_blank_layer_source, as it is called, keeps the texts narrow.
LEMMA NarrowedCreateBlank ==
    ASSUME IInv, Narrowed, NEW s, NEW extent, NEW p, CreateBlank(s, extent, p)
    PROVE  Narrowed'
<1>1. held' = NotHeld /\ disk' = [disk EXCEPT ![s] = File(<<>>)] /\ disk \in [Sources -> Entry]
    BY DEF CreateBlank, CreateBegins, IInv, StorageTypeOK
<1>2. Blanks(0) = <<>>
    <2>1. Blanks(0) \in Seq(Bytes) /\ Len(Blanks(0)) = 0
        BY BlanksIs
    <2>2. QED
        BY <2>1
<1>3. disk' = [disk EXCEPT ![s] = File(Blanks(0))]
    BY <1>1, <1>2
<1>4. \A n \in Nat : disk' = [disk EXCEPT ![s] = File(Blanks(n))] => Narrowed'
    BY <1>1, NarrowedBlanks
<1>5. QED
    BY <1>3, <1>4

\* The file of a creation while its blocks are filled.
LEMMA FillingIs ==
    ASSUME IInv, creation # Idle
    PROVE  /\ op.kind = "create" /\ op.pc = "file" /\ creation.source = op.source
           /\ held = NotHeld /\ op.source \in Sources /\ creation.value = Space
           /\ \E n \in Nat : disk[op.source] = File(Blanks(n))
           /\ disk \in [Sources -> Entry]
<1>1. op.kind = "create" /\ op.pc = "file"
    BY DEF IInv, Creating, Doing
<1>2. /\ creation.source = op.source /\ creation.value = Space /\ held = NotHeld
      /\ creation.size = BlankSize(op.extent, op.origin)
      /\ creation.remaining \in 0 .. creation.size
      /\ disk[op.source] = File(Blanks(creation.size - creation.remaining))
    BY <1>1 DEF IInv, CreateOK
<1>3. Legal(op.extent, op.origin) /\ op.source \in Sources
    BY <1>1, CreationIs
<1>4. creation.size \in Nat
    BY <1>2, <1>3, BlankSizeIs
<1>5. creation.size - creation.remaining \in Nat
    BY <1>2, <1>4
<1>6. QED
    BY <1>1, <1>2, <1>3, <1>5 DEF IInv, StorageTypeOK

\* The new file, as far as it has come, has no number.
LEMMA NarrowedFileCreated ==
    ASSUME IInv, Narrowed, FileCreated
    PROVE  Narrowed'
<1> DEFINE s == op.source
<1>1. CreateSteps /\ creation # Idle /\ held' = held
    BY DEF FileCreated, CreateSteps, FillBlock, CreateFails, CreateSucceeds
<1>2. /\ creation.source = s /\ held = NotHeld /\ s \in Sources /\ creation.value = Space
      /\ disk \in [Sources -> Entry]
    BY <1>1, FillingIs
<1>3. PICK n \in Nat : disk[s] = File(Blanks(n))
    BY <1>1, FillingIs
<1>4. CASE FillBlock
    <2>1. BlockLength \in Nat
        <3>1. creation.remaining \in Nat
            BY <1>1 DEF IInv, StorageTypeOK
        <3>2. QED
            BY <3>1, StorageAssumption DEF BlockLength
    <2> DEFINE b == BlockLength
               more == disk[s].bytes \o [k \in 1 .. b |-> Space]
    <2>2. disk' = [disk EXCEPT ![s] = [disk[s] EXCEPT !.bytes = more]]
        BY <1>2, <1>4 DEF FillBlock
    <2>3. disk[s].bytes = Blanks(n) /\ disk[s] = [kind |-> "file", bytes |-> Blanks(n)]
        BY <1>3 DEF File
    <2> HIDE DEF b
    <2>4. Blanks(n) \o [k \in 1 .. b |-> Space] = Blanks(n + b)
        BY <2>1, BlanksGrow DEF b
    <2>5. more = Blanks(n + b)
        BY <2>3, <2>4
    <2> HIDE DEF more, s
    <2>6. [disk[s] EXCEPT !.bytes = more] = File(Blanks(n + b))
        BY <2>3, <2>5 DEF File
    <2>7. n + b \in Nat
        BY <2>1 DEF b
    <2>8. QED
        BY <1>1, <1>2, <2>2, <2>6, <2>7, NarrowedBlanks
<1>5. CASE CreateFails
    <2>1. PICK rest \in {Absent} \cup
                        {File([k \in 1 .. m |-> creation.value]) :
                             m \in 0 .. Len(disk[creation.source].bytes) + BlockLength} :
              disk' = [disk EXCEPT ![creation.source] = rest]
        BY <1>5 DEF CreateFails
    <2>2. disk' = [disk EXCEPT ![s] = rest]
        BY <1>2, <2>1
    <2>3. CASE rest = Absent
        <3>1. Unwrapped(rest.bytes)
            <4>1. <<>> \in Seq(Bytes) /\ Small(<<>>) /\ rest.bytes = <<>>
                BY <2>3 DEF Small, Absent
            <4>2. QED
                BY <4>1, SmallUnwrapped
        <3> HIDE DEF s
        <3>2. QED
            BY <1>1, <1>2, <2>2, <3>1, NarrowedCreation
    <2>4. CASE rest # Absent
        <3>1. PICK m \in 0 .. Len(disk[s].bytes) + BlockLength : rest
                  = File([k \in 1 .. m |-> Space])
            BY <1>2, <2>1, <2>4
        <3>2. m \in Nat
            <4>1. creation.remaining \in Nat /\ Len(disk[s].bytes) \in Nat
                BY <1>1, <1>2 DEF IInv, StorageTypeOK, Entry
            <4>2. BlockLength \in Nat
                BY <4>1, StorageAssumption DEF BlockLength
            <4>3. QED
                BY <3>1, <4>1, <4>2
        <3>3. rest = File(Blanks(m))
            BY <3>1 DEF Blanks
        <3> HIDE DEF s
        <3>4. QED
            BY <1>1, <1>2, <2>2, <3>2, <3>3, NarrowedBlanks
    <2>5. QED
        BY <2>3, <2>4
<1>6. CASE CreateSucceeds
    BY <1>1, <1>6, NarrowedKept DEF CreateSucceeds
<1>7. QED
    BY <1>1, <1>4, <1>5, <1>6 DEF CreateSteps

\* A restart leaves what is on disk.
LEMMA NarrowedRestart ==
    ASSUME IInv, Narrowed, Restart
    PROVE  Narrowed'
<1>1. held' = NotHeld
    BY DEF Restart
<1>2. CASE creation = Idle
    BY <1>1, <1>2, NarrowedKept DEF Restart, storageVars
<1>3. CASE creation # Idle
    <2> DEFINE s == op.source
               t == disk[op.source].bytes
    <2>1. creation.source = s /\ disk \in [Sources -> Entry] /\ s \in Sources
        BY <1>3, FillingIs
    <2>2. PICK n \in Nat : disk[s] = File(Blanks(n))
        BY <1>3, FillingIs
    <2>3. t = Blanks(n) /\ t \in Seq(Bytes) /\ Small(t)
        BY <2>2, BlanksIs, BlanksSmall DEF File
    <2>4. PICK m \in 0 .. Len(t) : disk' = [disk EXCEPT ![s].bytes = SubSeq(t, 1, m)]
        BY <1>3, <2>1 DEF Restart, CreateInterrupted
    <2> DEFINE cut == SubSeq(t, 1, m)
    <2>5. Unwrapped(cut)
        <3> HIDE DEF t
        <3>1. QED
            BY <2>3, PrefixSmall, SmallUnwrapped
    <2>6. disk' = [disk EXCEPT ![s] = [disk[s] EXCEPT !.bytes = cut]]
        BY <2>4
    <2>7. [disk[s] EXCEPT !.bytes = cut].bytes = cut
        BY <2>1 DEF Entry
    <2> HIDE DEF s, cut
    <2>8. QED
        BY <1>1, <2>1, <2>5, <2>6, <2>7, NarrowedCreation
<1>4. QED
    BY <1>2, <1>3

\* The metadata of a new source have narrow numbers.
LEMMA NarrowedMetadata ==
    ASSUME IInv, Narrowed, MetadataWritten
    PROVE  Narrowed'
<1> DEFINE text == Metadata(op.extent[1], op.extent[2], op.origin)
           goesOn == [op EXCEPT !.pc = "rows"]
<1>1. op.kind = "create" /\ op.pc = "metadata" /\ WriteOf(0, text, goesOn)
    BY DEF MetadataWritten, Creating, Doing
<1>2. Legal(op.extent, op.origin)
    BY <1>1, CreationIs
<1>3. Text(op.source) = Blanks(BlankSize(op.extent, op.origin))
          /\ BlankSize(op.extent, op.origin) \in Nat
    BY <1>1, <1>2, BlankSizeIs DEF IInv, CreateOK, Text, File
<1>4. Small(Text(op.source))
    BY <1>3, BlanksSmall
<1>5. text \in Seq(Bytes) /\ Small(text)
    BY <1>2, MetadataIs, MetadataSmall
<1> HIDE DEF text, goesOn
<1>6. \A offset \in Nat : WriteOf(offset, text, goesOn) => Narrowed'
    BY <1>1, <1>4, <1>5, NarrowedWriteOf
<1>7. QED
    BY <1>1, <1>6

\* The rows of a new source have no numbers.
LEMMA NarrowedRowEnded ==
    ASSUME IInv, Narrowed, RowEnded
    PROVE  Narrowed'
<1> DEFINE offset == TerminatorOffset(BlankLayout(op.extent, op.origin), op.row)
           goesOn == [op EXCEPT !.row = @ + 1]
<1>1. op.kind = "create" /\ op.pc = "rows" /\ op.row < op.extent[2]
          /\ WriteOf(offset, <<LF>>, goesOn)
    BY DEF RowEnded, Creating, Doing
<1>2. Legal(op.extent, op.origin) /\ op.row \in Nat
    BY <1>1, CreationIs DEF Creates
<1>3. Small(Text(op.source))
    <2>1. Text(op.source) = PartText(op.extent, op.origin, op.row)
        BY <1>1 DEF IInv, CreateOK, Text, File
    <2>2. QED
        BY <1>2, <2>1, PartSmall
<1>4. <<LF>> \in Seq(Bytes) /\ Small(<<LF>>)
    <2>1. LF \in Bytes /\ LF \notin Int
        BY MarksDiffer DEF Marks
    <2>2. Len(<<LF>>) = 1 /\ <<LF>>[1] = LF
        OBVIOUS
    <2>3. \A i \in 1 .. Len(<<LF>>) : <<LF>>[i] = LF
        BY <2>2
    <2>4. QED
        BY <2>1, <2>3 DEF Small
<1>5. offset \in Nat
    <2>1. op.extent[2] \in Nat
        BY <1>2, LegalIs
    <2>2. op.row \in 0 .. op.extent[2] - 1
        BY <1>1, <1>2, <2>1
    <2>3. QED
        BY <1>2, <2>2, NextPart
<1> HIDE DEF offset, goesOn
<1>6. QED
    BY <1>1, <1>3, <1>4, <1>5, NarrowedWriteOf

\* The texts of earlier sessions are narrow, and nothing is held.
LEMMA NarrowedInit ==
    ASSUME NarrowTexts, Init
    PROVE  Narrowed
<1>1. Unwrapped(<<>>)
    <2>1. <<>> \in Seq(Bytes) /\ Small(<<>>)
        BY DEF Small
    <2>2. QED
        BY <2>1, SmallUnwrapped
<1>2. \A s \in Sources : Unwrapped(disk[s].bytes)
    <2>1. SUFFICES ASSUME NEW s \in Sources PROVE Unwrapped(disk[s].bytes)
        OBVIOUS
    <2>2. disk[s] \in {Absent, [kind |-> "directory", bytes |-> <<>>]} \cup {File(t) : t \in Texts}
        BY DEF Init
    <2>3. disk[s].bytes = <<>> \/ disk[s].bytes \in Texts
        BY <2>2 DEF Absent, File
    <2>4. QED
        BY <1>1, <2>3 DEF NarrowTexts
<1>3. QED
    BY <1>2 DEF Narrowed, Text, Init

\* Every step keeps the texts narrow.
LEMMA NarrowedStep ==
    ASSUME IInv, IInv', Narrowed, [Next]_vars
    PROVE  Narrowed'
<1>1. CASE UNCHANGED vars
    BY <1>1, NarrowedKept DEF vars
<1>2. ASSUME Callers PROVE Narrowed'
    <2>1. ASSUME NEW s \in Sources \cup {Unknown}, Open(s) PROVE Narrowed'
        BY <2>1, NarrowedKept DEF Open, storageVars
    <2>2. ASSUME NEW s \in Sources \cup {Unknown}, NEW extent \in Extents, NEW p \in Origins,
                 CreateBlank(s, extent, p)
          PROVE  Narrowed'
        BY <2>2, NarrowedCreateBlank
    <2>3. ASSUME NEW s \in Sources \cup {Unknown}, NEW extent \in Extents, NEW p \in Origins,
                 CreateBlankRefused(s, extent, p)
          PROVE  Narrowed'
        BY <2>3, NarrowedKept DEF CreateBlankRefused, CreateRefused, Refused, storageVars
    <2>4. ASSUME NEW y, NEW x, NEW n, ReadCells(y, x, n) PROVE Narrowed'
        BY <2>4, NarrowedKept DEF ReadCells, storageVars
    <2>5. ASSUME NEW y, NEW x, NEW data, WriteCells(y, x, data) PROVE Narrowed'
        BY <2>5, NarrowedKept DEF WriteCells, storageVars
    <2>6. CASE Restart
        BY <2>6, NarrowedRestart
    <2>7. QED
        BY <1>2, <2>1, <2>2, <2>3, <2>4, <2>5, <2>6 DEF Callers
<1>3. CASE OpenSizes
    BY <1>3, NarrowedKept, NarrowedReturns DEF OpenSizes, storageVars
<1>4. CASE OpenReads
    BY <1>4, NarrowedKept, NarrowedReturns DEF OpenReads, storageVars
<1>5. CASE OpenRunsOut
    BY <1>5, NarrowedReturns DEF OpenRunsOut
<1>6. CASE FileCreated \/ MetadataWritten \/ RowEnded
    BY <1>6, NarrowedFileCreated, NarrowedMetadata, NarrowedRowEnded
<1>7. CASE BlankReopened
    BY <1>7, NarrowedKept DEF BlankReopened, storageVars
<1>8. CASE CellsRead
    BY <1>8, NarrowedKept DEF CellsRead, storageVars
<1>9. CASE TerminatorRead
    BY <1>9, NarrowedKept DEF TerminatorRead, storageVars
<1>10. CASE CellsWritten
    BY <1>10, NarrowedWritten
<1>11. QED
    BY <1>1, <1>2, <1>3, <1>4, <1>5, <1>6, <1>7, <1>8, <1>9, <1>10 DEF Next, Steps

\* Once the texts of earlier sessions have no position that turns negative, no
\* text ever has, and the layout held is always what its text means.
THEOREM NarrowInvariance == NarrowTexts => (Spec => []Narrowed)
<1> SUFFICES ASSUME NarrowTexts PROVE Spec => []Narrowed
    OBVIOUS
<1>1. Init => Narrowed
    BY NarrowedInit
<1>2. IInv /\ IInv' /\ Narrowed /\ [Next]_vars => Narrowed'
    BY NarrowedStep
<1>3. QED
    BY <1>1, <1>2, Invariance, PTL DEF Spec

\* LAYER_SOURCE_FORMAT.md and open_layer_source: an open that storage lets finish
\* returns what the whole text means by the format, wherever its bounded reads
\* cut the text.  The hypothesis leaves out the texts of WideValuesOverflow, on
\* which the reader and the format part.
THEOREM OpensMatch == NarrowTexts => (Spec => []OpenMatchesMeaning)
<1> SUFFICES ASSUME NarrowTexts PROVE Spec => []OpenMatchesMeaning
    OBVIOUS
<1>1. IInv /\ Narrowed => OpenMatchesMeaning
    BY DEF IInv, AnswerOK, Narrowed, OpenMatchesMeaning
<1>2. QED
    BY <1>1, Invariance, NarrowInvariance, PTL

-----------------------------------------------------------------------------
\* The source that a step changes, and does not create.
Survives(s) ==
    disk'[s] # disk[s] /\ disk[s].kind # "absent" /\ ~ (Doing("create") /\ op.source = s) =>
        LET layout == Meaning(Text(s)) IN
        /\ disk'[s].kind = "file" /\ layout.error = "none"
        /\ Len(disk'[s].bytes) = Len(disk[s].bytes)
        /\ \A i \in Structural(layout) : disk'[s].bytes[i] = disk[s].bytes[i]

\* No place of the structure lies within a range of cells.
LEMMA RangeMissesStructure ==
    ASSUME NEW layout, IsLayout(layout), NEW x \in Nat, NEW y \in Nat, NEW n \in Nat \ {0},
           InGrid(layout, y, x, n), NEW i \in Structural(layout)
    PROVE  /\ i \in 1 .. SizeOf(layout)
           /\ ~ (i > CellOffset(layout, x, y) /\ i <= CellOffset(layout, x, y) + n)
<1> DEFINE m == layout.width + 1
           h == layout.height
           f == layout.offset
           e == y * m
           o == CellOffset(layout, x, y)
           size == h * m
<1>1. /\ m \in Nat \ {0} /\ h \in Nat \ {0} /\ f \in Nat /\ y < h /\ x <= m - 1 /\ n <= m - 1 - x
    BY DEF IsLayout, InGrid
<1>2. SizeOf(layout) = f + size /\ o = f + e + x
    BY DEF SizeOf, CellOffset
<1>3. /\ i \in 1 .. f + size
      /\ i <= f \/ (i - f) % m = 0
    BY DEF Structural
<1> HIDE DEF m, h, f, o
<1>4. size \in Nat /\ e \in Nat /\ y \in Nat
    BY <1>1
<1>5. ASSUME i > o, i <= o + n PROVE FALSE
    <2> DEFINE a == i - f
    <2> HIDE DEF e, size
    <2>1. a \in 1 .. size /\ a > e + x /\ a <= e + x + n /\ (a % m = 0)
        BY <1>1, <1>2, <1>3, <1>4, <1>5
    <2> HIDE DEF a
    <2>2. a \in 1 .. h * m
        BY <2>1 DEF size
    <2>3. PICK q \in 1 .. h : a = q * m
        <3>1. a % m = 0 <=> \E q \in 1 .. h : a = q * m
            BY <1>1, <2>2, MultipleIs
        <3>2. QED
            BY <2>1, <3>1
    <2> DEFINE k == a - e
    <2>4. k \in 1 .. m - 1 /\ a = e + k
        BY <1>1, <1>4, <2>1
    <2> HIDE DEF k
    <2>5. y * m + k = q * m + 0
        <3>1. q * m \in Nat
            BY <1>1
        <3>2. QED
            BY <2>3, <2>4, <3>1 DEF e
    <2>6. k \in 0 .. m - 1 /\ 0 \in 0 .. m - 1 /\ q \in Nat
        BY <1>1, <2>4
    <2>7. k = 0
        BY <1>1, <1>4, <2>5, <2>6, PairsDistinct
    <2>8. QED
        BY <1>1, <2>4, <2>7
<1>6. QED
    BY <1>2, <1>3, <1>5 DEF o

\* A write of cells, torn or not, leaves the structure of every source.
LEMMA WritingSurvives ==
    ASSUME IInv, Narrowed, CellsWritten, NEW s \in Sources
    PROVE  Survives(s)
<1> DEFINE h == held.source
           t == Text(held.source)
           layout == held.layout
           n == Len(op.bytes)
           o == CellOffset(held.layout, op.x, op.y)
<1>1. /\ op.kind = "write" /\ op \in Writes /\ held # NotHeld /\ op.x \in Nat /\ op.y \in Nat
      /\ n \in Nat \ {0} /\ InGrid(layout, op.y, op.x, n)
    BY WritingIs
<1>2. /\ h \in Sources /\ IsLayout(layout) /\ t \in Seq(Bytes) /\ Len(t) = SizeOf(layout)
      /\ disk \in [Sources -> Entry] /\ disk[h].kind = "file"
    BY <1>1, HeldIs
<1>3. Meaning(t) = layout /\ layout.error = "none"
    BY <1>1 DEF Narrowed
<1>4. CASE disk' = disk
    BY <1>4 DEF Survives
<1>5. ASSUME NEW part, CellsWriting(part) PROVE Survives(s)
    <2> DEFINE u == Patched(t, o, part)
    <2>1. CASE s # h
        BY <1>2, <1>5, <2>1 DEF CellsWriting, Survives
    <2>2. CASE s = h
        <3>1. /\ disk'[h] = [disk[h] EXCEPT !.bytes = u] /\ u \in Seq(Bytes) /\ Len(u) = Len(t)
            BY <1>1, <1>5, WritingMeans
        <3>2. disk'[h].kind = "file" /\ disk'[h].bytes = u
            BY <1>2, <3>1 DEF Entry
        <3>3. part \in Seq(Bytes) /\ Len(part) <= n /\ Len(part) \in Nat
            BY <1>5 DEF CellsWriting
        <3>4. o \in Nat /\ o + n <= Len(t)
            BY <1>1, <1>2, RangeIs
        <3> HIDE DEF o, t, n, h, layout
        <3>5. \A i \in 1 .. Len(t) :
                  u[i] = IF i > o /\ i <= o + Len(part) THEN part[i - o] ELSE t[i]
            <4>1. o + Len(part) <= Len(t)
                <5>1. Len(t) \in Nat
                    BY <1>2
                <5>2. QED
                    BY <1>1, <3>3, <3>4, <5>1
            <4>2. QED
                BY <1>2, <3>3, <3>4, <4>1, PatchedIs
        <3>6. ASSUME NEW i \in Structural(layout) PROVE u[i] = t[i]
            <4>1. i \in 1 .. Len(t) /\ ~ (i > o /\ i <= o + n)
                <5> DEFINE x == op.x
                           y == op.y
                <5>1. o = CellOffset(layout, x, y) /\ InGrid(layout, y, x, n) /\ x \in Nat
                          /\ y \in Nat
                    BY <1>1 DEF o, layout
                <5> HIDE DEF x, y
                <5>2. /\ i \in 1 .. SizeOf(layout)
                      /\ ~ (i > CellOffset(layout, x, y) /\ i <= CellOffset(layout, x, y) + n)
                    BY <1>1, <1>2, <5>1, RangeMissesStructure
                <5>3. QED
                    BY <1>2, <5>1, <5>2
            <4>2. ~ (i > o /\ i <= o + Len(part))
                <5>1. Len(t) \in Nat
                    BY <1>2
                <5>2. i \in Int
                    BY <4>1, <5>1
                <5>3. QED
                    BY <1>1, <3>3, <3>4, <4>1, <5>2
            <4> HIDE DEF u
            <4>3. QED
                BY <3>5, <4>1, <4>2
        <3> HIDE DEF u
        <3>7. disk[h].bytes = t /\ Meaning(Text(h)) = layout
            BY <1>3 DEF t, h, Text
        <3>8. QED
            BY <1>3, <2>2, <3>1, <3>2, <3>6, <3>7 DEF Survives
    <2>3. QED
        BY <2>1, <2>2
<1>6. QED
    BY <1>4, <1>5, WritingIs

\* A step of a creation changes no other source.
LEMMA CreationSurvives ==
    ASSUME IInv, NEW s \in Sources,
           FileCreated \/ MetadataWritten \/ RowEnded \/ (Restart /\ creation # Idle)
    PROVE  Survives(s)
<1>1. op.kind = "create"
    <2>1. CASE FileCreated \/ MetadataWritten \/ RowEnded
        BY <2>1 DEF FileCreated, MetadataWritten, RowEnded, Creating, Doing
    <2>2. CASE Restart /\ creation # Idle
        BY <2>2, FillingIs
    <2>3. QED
        BY <2>1, <2>2
<1>2. disk \in [Sources -> Entry]
    BY DEF IInv, StorageTypeOK
<1>3. s # op.source => disk'[s] = disk[s]
    <2>1. CASE FileCreated
        <3>1. creation # Idle
            BY <2>1 DEF FileCreated, CreateSteps, FillBlock, CreateFails, CreateSucceeds
        <3>2. creation.source = op.source
            BY <3>1, FillingIs
        <3>3. QED
            BY <1>2, <2>1, <3>2 DEF FileCreated, CreateSteps, FillBlock, CreateFails, CreateSucceeds
    <2>2. ASSUME NEW offset, NEW data, NEW goesOn, WriteOf(offset, data, goesOn)
          PROVE  s # op.source => disk'[s] = disk[s]
        <3>1. PICK out \in WriteOutcomes(op.source, offset, data) : disk' = out.disk
            BY <2>2 DEF WriteOf
        <3>2. out.disk = disk \/ \E part \in {data} \cup Torn(data) :
                  out.disk = [disk EXCEPT ![op.source].bytes =
                                  Patched(Text(op.source), offset, part)]
            BY WriteOutcome
        <3>3. QED
            BY <1>2, <3>1, <3>2
    <2>3. CASE Restart /\ creation # Idle
        <3>1. creation.source = op.source
            BY <2>3, FillingIs
        <3>2. QED
            BY <1>2, <2>3, <3>1 DEF Restart, CreateInterrupted
    <2>4. QED
        BY <2>1, <2>2, <2>3 DEF MetadataWritten, RowEnded
<1>4. QED
    BY <1>1, <1>3 DEF Survives, Doing

\* So does a step that leaves the disk alone.
LEMMA SameSurvives ==
    ASSUME NEW s, disk' = disk
    PROVE  Survives(s)
BY DEF Survives

\* Every step leaves the structure of every source.
LEMMA StepSurvives ==
    ASSUME IInv, Narrowed, [Next]_vars, NEW s \in Sources
    PROVE  Survives(s)
<1>1. CASE UNCHANGED vars
    BY <1>1, SameSurvives DEF vars
<1>2. ASSUME Callers PROVE Survives(s)
    <2>1. ASSUME NEW r \in Sources \cup {Unknown}, Open(r) PROVE Survives(s)
        BY <2>1, SameSurvives DEF Open, storageVars
    <2>2. ASSUME NEW r \in Sources \cup {Unknown}, NEW extent \in Extents, NEW p \in Origins,
                 CreateBlank(r, extent, p)
          PROVE  Survives(s)
        <3>1. disk[r] = Absent /\ disk' = [disk EXCEPT ![r] = File(<<>>)]
            BY <2>2 DEF CreateBlank, CreateBegins
        <3>2. disk'[s] # disk[s] => disk[s].kind = "absent"
            BY <3>1 DEF Absent
        <3>3. QED
            BY <3>2 DEF Survives
    <2>3. ASSUME NEW r \in Sources \cup {Unknown}, NEW extent \in Extents, NEW p \in Origins,
                 CreateBlankRefused(r, extent, p)
          PROVE  Survives(s)
        BY <2>3, SameSurvives DEF CreateBlankRefused, CreateRefused, Refused, storageVars
    <2>4. ASSUME NEW y, NEW x, NEW n, ReadCells(y, x, n) PROVE Survives(s)
        BY <2>4, SameSurvives DEF ReadCells, storageVars
    <2>5. ASSUME NEW y, NEW x, NEW data, WriteCells(y, x, data) PROVE Survives(s)
        BY <2>5, SameSurvives DEF WriteCells, storageVars
    <2>6. CASE Restart /\ creation # Idle
        BY <2>6, CreationSurvives
    <2>7. CASE Restart /\ creation = Idle
        BY <2>7, SameSurvives DEF Restart, storageVars
    <2>8. QED
        BY <1>2, <2>1, <2>2, <2>3, <2>4, <2>5, <2>6, <2>7 DEF Callers
<1>3. CASE OpenSizes \/ OpenReads \/ OpenRunsOut
    BY <1>3, SameSurvives DEF OpenSizes, OpenReads, OpenRunsOut, OpenReturns, storageVars
<1>4. CASE FileCreated \/ MetadataWritten \/ RowEnded
    BY <1>4, CreationSurvives
<1>5. CASE BlankReopened \/ CellsRead \/ TerminatorRead
    BY <1>5, SameSurvives DEF BlankReopened, CellsRead, TerminatorRead, storageVars
<1>6. CASE CellsWritten
    BY <1>6, WritingSurvives
<1>7. QED
    BY <1>1, <1>2, <1>3, <1>4, <1>5, <1>6 DEF Next, Steps

\* write_cells, create_blank_layer_source and restarts: outside its own creation
\* a source keeps its size, its metadata and what ends its rows, however writes
\* fail, and a file that is no layer source is left alone.
THEOREM StructureIsSafe == NarrowTexts => (Spec => StructureSurvives)
<1> SUFFICES ASSUME NarrowTexts PROVE Spec => StructureSurvives
    OBVIOUS
<1>1. IInv /\ Narrowed /\ [Next]_vars =>
          [\A s \in Sources :
            disk'[s] # disk[s] /\ disk[s].kind # "absent"
            /\ ~ (Doing("create") /\ op.source = s) =>
                LET layout == Meaning(Text(s)) IN
                /\ disk'[s].kind = "file" /\ layout.error = "none"
                /\ Len(disk'[s].bytes) = Len(disk[s].bytes)
                /\ \A i \in Structural(layout) : disk'[s].bytes[i] = disk[s].bytes[i] ]_vars
    BY StepSurvives DEF Survives
<1>2. QED
    BY <1>1, Invariance, NarrowInvariance, PTL DEF Spec, StructureSurvives
=============================================================================
