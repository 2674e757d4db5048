--------------------------- MODULE ResidentPlanes ---------------------------
(***************************************************************************)
(* What Landor's Cache promises its owner, with no slot array: a partial   *)
(* function from (layer, origin) to the resident plane, the set of dirty   *)
(* keys, and a bound on the number of distinct origins held at once.       *)
(***************************************************************************)
EXTENDS Integers, FiniteSets

CONSTANTS Layers, AlignedOrigins, Cells, Values, Capacity, Areas

VARIABLES
    plane,    \* [a set of <<layer, origin>> -> [Cells -> Values]]
    dirty,    \* the keys whose live values may differ from their backing
    reply     \* the last call and what it answered

vars == <<plane, dirty, reply>>

\* "misfit" is a fill with a chunk or a span this cache does not hold.
Calls == {"none", "fill", "misfit", "set", "mark_clean", "invalidate"}

Answer(call, ok) == reply' = [call |-> call, ok |-> ok]

Spaces == {k[2] : k \in DOMAIN plane}

Init == plane = <<>> /\ dirty = {} /\ reply = [call |-> "none", ok |-> TRUE]

Refuse(call) == Answer(call, FALSE) /\ UNCHANGED <<plane, dirty>>

\* A fill installs a whole plane, or is refused and changes nothing.
Fill(l, o, values) ==
    /\ Answer("fill", TRUE)
    /\ <<l, o>> \notin dirty
    /\ o \in Spaces \/ Cardinality(Spaces) < Capacity
    /\ plane' = [k \in DOMAIN plane \cup {<<l, o>>} |->
                    IF k = <<l, o>> THEN values ELSE plane[k]]
    /\ UNCHANGED dirty

\* The reasons for which a well-formed fill may be refused.
FillRefused(l, o) ==
    /\ Refuse("fill")
    /\ \/ <<l, o>> \in dirty
       \/ o \notin Spaces /\ Cardinality(Spaces) = Capacity

\* A chunk that is not one of this cache's canonical chunks is refused.
FillMisfit == Refuse("misfit")

Set(k, c, v) ==
    /\ Answer("set", TRUE)
    /\ plane' = [plane EXCEPT ![k][c] = v]
    /\ dirty' = IF plane[k][c] = v THEN dirty ELSE dirty \cup {k}

MarkClean(k) ==
    /\ Answer("mark_clean", TRUE)
    /\ dirty' = dirty \ {k}
    /\ UNCHANGED plane

\* All the planes of an area go, or none does.
Invalidate(area) ==
    LET gone == {k \in DOMAIN plane : k[2] \in area}
    IN  \/ /\ Answer("invalidate", TRUE)
           /\ gone \cap dirty = {}
           /\ plane' = [k \in DOMAIN plane \ gone |-> plane[k]]
           /\ UNCHANGED dirty
        \/ /\ Refuse("invalidate")
           /\ gone \cap dirty # {}

Next ==
    \/ \E l \in Layers, o \in AlignedOrigins :
           \/ \E values \in [Cells -> Values] : Fill(l, o, values)
           \/ FillRefused(l, o)
    \/ FillMisfit
    \/ \E k \in DOMAIN plane, c \in Cells, v \in Values : Set(k, c, v)
    \/ \E k \in dirty : MarkClean(k)
    \/ \E area \in Areas : Invalidate(area)

Spec == Init /\ [][Next]_vars
=============================================================================
