------------------------------ MODULE Ordering ------------------------------
(***************************************************************************)
(* The members of a finite set as a sequence by ascending key, which is    *)
(* what a scan of an array or a sort leaves.                               *)
(***************************************************************************)
EXTENDS Integers, FiniteSets

\* key gives every member of S an integer, no two the same.
InOrder(S, key) ==
    CHOOSE s \in [1 .. Cardinality(S) -> S] :
        /\ \A x \in S : \E i \in DOMAIN s : s[i] = x
        /\ \A i, j \in DOMAIN s : i < j => key[s[i]] < key[s[j]]
=============================================================================
