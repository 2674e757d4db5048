--------------------------- MODULE MCLayerSource ---------------------------
(***************************************************************************)
(* One source in the table.  What an earlier session left at its path is   *)
(* any text of up to two metadata lines from the list below, and the       *)
(* three records in any order with a fourth line anywhere between, with    *)
(* the right data, with a byte too few, and without a terminator.  Reads   *)
(* of four bytes cut the text everywhere.                                  *)
(***************************************************************************)
EXTENDS LayerSource, TLC

CONSTANTS file, x    \* the source, and a byte the format does not know

MCBytes == {LF, Space, Colon, Dot, V, D, P, x} \cup -600 .. 1023

Records == {<<V, Colon, 1, Dot, 0>>, <<D, Colon, 2, Space, 1>>, <<P, Colon, -1, Space, 1>>}

Odd == {<<V, Colon, 2, Dot, 0>>, <<V, Colon, 1>>,
        <<D, Colon, 0, Space, 1>>, <<D, Colon, 1, Space, -1>>, <<D, Colon, 1023, Space, 1>>,
        <<P, Colon, 4, Space, 1>>, <<P, Colon, 1, Space, 1, Space, 1>>,
        <<>>, <<V>>, <<V, x>>, <<P, x, Colon>>, <<x, Colon, V, Colon>>, <<x>>}

Joined(lines) == FoldLeft(LAMBDA text, line : text \o line \o <<LF>>, <<>>, lines)

Orders == {order \in [1 .. 3 -> Records] : Cardinality(Range(order)) = 3}

Headers ==
    UNION {[1 .. n -> Records \cup Odd] : n \in 0 .. 2}
        \cup {SubSeq(order, 1, i) \o <<line>> \o SubSeq(order, i + 1, 3) :
                 order \in Orders, i \in 0 .. 3, line \in Records \cup Odd}

MCTexts ==
    {Joined(lines) \o rest : lines \in Headers,
        rest \in {<<>>, <<LF, Space, x, LF>>, <<LF, Space, LF>>}}

MCWideTexts ==
    {Joined(<<<<V, Colon, 1, Dot, 0>>, <<D, Colon, 2, Space, 1>>, <<P, Colon, n, Space, 1>>>>)
        \o <<LF, Space, x, LF>> : n \in {-1, 4, 511, 1023}}

MCExtents == {<<2, 2>>, <<0, 1>>, <<5, 5>>}
MCOrigins == {<<-1, 1>>}
MCFragments == {<<>>, <<x>>, <<Space, x>>, <<x, LF>>}
MCCoordMin == -4
=============================================================================
