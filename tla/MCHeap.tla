------------------------------- MODULE MCHeap -------------------------------
(***************************************************************************)
(* A heap of a few tables' worth of bytes with a program of two variables. *)
(* Objects take one unit of alignment or two; with two descriptors to a    *)
(* table the metadata grows into the free bytes and shrinks again while    *)
(* objects are alive, and with one descriptor every object has a table to  *)
(* move.  A budget of three bytes pays for the larger object alone.        *)
(***************************************************************************)
EXTENDS ManagedHeap, TLC

CONSTANTS p, q, a, b

\* Nothing tells the two variables apart; for the run without liveness.
Swaps == Permutations(Ptrs)
=============================================================================
