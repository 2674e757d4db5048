------------------------------ MODULE MCCache ------------------------------
(***************************************************************************)
(* A cache of two slots for three aligned chunks and one that is not, with *)
(* two layers and planes of one cell, so that the cache fills up, a full  *)
(* slot takes its other layer, and areas cover none, some and all chunks.  *)
(***************************************************************************)
EXTENDS Cache, TLC

CONSTANTS o1, o2, o3, askew, a, b, terrain, water

MCOrigins == {o1, o2, o3, askew}
MCAligned == {o1, o2, o3}
MCCells == 1 .. 1
MCSpans == {<<a>>, <<b>>, <<a, b>>}
MCChunks ==
    {[layer |-> l, origin |-> o, side |-> 2] : l \in Layers, o \in MCAligned}
        \cup {[layer |-> l, origin |-> askew, side |-> 2] : l \in Layers}
        \cup {[layer |-> l, origin |-> o1, side |-> 3] : l \in Layers}
Swaps == Permutations({o2, o3}) \cup Permutations({terrain, water})
MCAreas == {{}, {o1}, {o2, o3}, {o1, o2, o3}}
=============================================================================
