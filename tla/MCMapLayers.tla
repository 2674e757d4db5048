---------------------------- MODULE MCMapLayers ----------------------------
(***************************************************************************)
(* Flushing several layers over two chunks of one cell each: a layer       *)
(* with a binding before one that has none, over runtime sources that an   *)
(* earlier session may have left unreadable, partly readable or complete.  *)
(* The one patch there is to place says nothing about the bound layer.     *)
(***************************************************************************)
EXTENDS Map

CONSTANTS terrain, fire, camp

MCBytes == {0, 10, 32, 65, 66}
MCArea == AreaOf(<<0, 0>>, <<0, 1>>)
MCAccess == {<<0, 0>>, <<0, 1>>}
MCFallback == [l \in Layers |-> [w \in MapCells |-> 65]]
MCCatalogue ==
    [p \in {camp} |-> [area |-> AreaOf(<<0, 0>>, <<0, 0>>), natural |-> <<0, 0>>,
                       source |-> [l \in {fire} |-> "camp.layer"]]]
MCAuthored ==
    [f \in {"camp.layer"} |-> [form |-> "ready", rows |-> {0}, cells |-> [c \in {<<0, 0>>} |-> 66]]]
MCOrder == <<terrain, fire>>
MCStored ==
    {NoSource,
     [form |-> "broken", rows |-> {}, cells |-> Blank],
     [form |-> "mismatched", rows |-> MapRows, cells |-> Blank],
     [form |-> "ready", rows |-> {0}, cells |-> [Blank EXCEPT ![<<0, 0>>] = 66]]}
MCMinScalar == -2
=============================================================================
