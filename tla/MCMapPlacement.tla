-------------------------- MODULE MCMapPlacement --------------------------
(***************************************************************************)
(* Placements: two of them, turned and mirrored, on a map of three by one  *)
(* cells whose second chunk is half padding, with a cache of one slot.     *)
(* The road covers two cells and contributes in one; the ruin's source is  *)
(* broken, which must not matter where a higher placement answers.         *)
(***************************************************************************)
EXTENDS Map

CONSTANTS terrain, road, ruin, lost

MCBytes == {0, 10, 32, 65, 66, 67}
MCArea == AreaOf(<<0, 0>>, <<2, 0>>)
MCAccess == {<<0, 0>>, <<2, 0>>, <<3, 0>>}
MCFallback == [l \in Layers |-> [w \in MapCells |-> 65]]
MCCatalogue ==
    [p \in {road, ruin} |->
        IF p = road
        THEN [area |-> AreaOf(<<0, 0>>, <<1, 0>>), natural |-> <<1, 0>>,
              source |-> [l \in {terrain} |-> "road.layer"]]
        ELSE [area |-> AreaOf(<<0, 0>>, <<0, 0>>), natural |-> <<0, 0>>,
              source |-> [l \in {terrain} |-> "ruin.layer"]]]
MCAuthored ==
    [f \in {"road.layer", "ruin.layer"} |->
        IF f = "road.layer"
        THEN [form |-> "ready", rows |-> {0},
              cells |-> [c \in (0 .. 1) \X {0} |-> IF c = <<0, 0>> THEN 67 ELSE 32]]
        ELSE [form |-> "broken", rows |-> {}, cells |-> [c \in {<<0, 0>>} |-> 67]]]
MCOrder == <<terrain>>
MCPlaceAt == {<<1, 0>>}
MCStored == {NoSource}
MCMinScalar == -4
=============================================================================
