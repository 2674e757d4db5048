---------------------------- MODULE ObjectStore ----------------------------
(***************************************************************************)
(* What a ManagedHeap promises the holders of its handles, with no bytes,  *)
(* addresses, tables or reference counts: a handle names an object from    *)
(* the moment it is made until its destructor has run, and the object      *)
(* holds the last value written to it, wherever it has been moved since.   *)
(***************************************************************************)
CONSTANTS Handles, Values, Junk

VARIABLES
    phase,  \* of the object each handle names
    value   \* what the object holds

vars == <<phase, value>>

Init ==
    /\ phase = [h \in Handles |-> "none"]
    /\ value = [h \in Handles |-> Junk]

\* A handle is given out again only when its last object is gone.
Make(h, v) ==
    /\ phase[h] = "none"
    /\ phase' = [phase EXCEPT ![h] = "live"]
    /\ value' = [value EXCEPT ![h] = v]

Write(h, v) ==
    /\ phase[h] = "live"
    /\ value' = [value EXCEPT ![h] = v]
    /\ UNCHANGED phase

\* The last reference goes: the destructor runs, once, on the value as it is.
LastReferenceGoes(h) ==
    /\ phase[h] = "live"
    /\ phase' = [phase EXCEPT ![h] = "dying"]
    /\ UNCHANGED value

Gone(h) ==
    /\ phase[h] = "dying"
    /\ phase' = [phase EXCEPT ![h] = "none"]
    /\ value' = [value EXCEPT ![h] = Junk]

Next ==
    \E h \in Handles :
        \/ \E v \in Values : Make(h, v) \/ Write(h, v)
        \/ LastReferenceGoes(h)
        \/ Gone(h)

Spec == Init /\ [][Next]_vars
=============================================================================
