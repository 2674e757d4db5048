----------------------------- MODULE MCMapLimit -----------------------------
(***************************************************************************)
(* A map that begins at the lowest coordinate, with a chunk side that does *)
(* not divide the range of the scalar.                                     *)
(***************************************************************************)
EXTENDS Map

CONSTANT terrain

MCBytes == {0, 10, 32, 65}
MCArea == AreaOf(<<-8, 0>>, <<-5, 0>>)
MCAccess == {<<-8, 0>>, <<-6, 0>>}
MCFallback == [l \in Layers |-> [w \in MapCells |-> 65]]
MCNone == [x \in {} |-> {}]
MCOrder == <<terrain>>
MCStored == {NoSource}
MCMinScalar == -8
=============================================================================
