----------------------------- MODULE MCMapFlush -----------------------------
(***************************************************************************)
(* Flushing one bound layer: a map of two by two cells over two chunks,    *)
(* each with a row of padding, and one placement of a single cell.         *)
(***************************************************************************)
EXTENDS Map

CONSTANTS terrain, hill

\* Bytes: Zero, LF and Space, the fallback, and what the authored cell and
\* the caller may store.
MCBytes == {0, 10, 32, 65, 66}
MCArea == AreaOf(<<0, 1>>, <<1, 2>>)
MCAccess == {<<0, 1>>, <<1, 1>>, <<1, 2>>, <<2, 1>>}
MCFallback == [l \in Layers |-> [w \in MapCells |-> 65]]
MCCatalogue ==
    [p \in {hill} |-> [area |-> AreaOf(<<0, 0>>, <<0, 0>>), natural |-> <<1, 1>>,
                       source |-> [l \in {terrain} |-> "hill.layer"]]]
MCAuthored ==
    [f \in {"hill.layer"} |-> [form |-> "ready", rows |-> {0}, cells |-> [c \in {<<0, 0>>} |-> 66]]]
MCOrder == <<terrain>>
MCStored == {NoSource}
MCMinScalar == -4
=============================================================================
