----------------------------- MODULE MCObjDefer -----------------------------
(***************************************************************************)
(* One column, inside the wide span and outside the narrow one; a tile in  *)
(* VRAM and one past its end; one bit per word.                            *)
(***************************************************************************)
EXTENDS ObjDefer

MCColumns == {1}
MCSpans == {{}, {1}}
MCTiles == {"in", "past"}
MCPastEnd == {"past"}
MCWords == {0, 1}

\* For liveness only the control matters.
MCTile == {"in"}
MCNone == {}
MCNoSpan == {{}}
MCBlank == {0}

\* Static storage is written again before it is read again: the records and
\* slots no one will look at, and the captured rows no one will replay, do
\* not tell two states apart.
LiveLines == (Pending \cup {open}) \ {NoLine}
LiveSlots == UNION {lines[y].first .. lines[y].first + lines[y].count - 1 : y \in Pending}
             \cup (IF open = NoLine THEN {} ELSE lines[open].first .. used - 1)
LiveRows == IF recording \/ gpc \in Resume \/ Running THEN 0 .. beam - 1 ELSE {}

View ==
  <<vram, ppuRow, recording, beam, gpc, event, wpc, serial,
    [y \in LiveRows |-> <<captured[y], wanted[y]>>],
    [y \in Pending |-> <<trail[y], lines[y].rowOnly => captured[y] = wanted[y]>>],
    IF gpc \in {"close", "fence", "join"} THEN resume ELSE "",
    IF Running
      THEN <<[y \in LiveLines |-> lines[y]], [i \in LiveSlots \cap DOMAIN pool |-> pool[i]],
             active, used, open, published, closing, late, row, done, current>>
      ELSE <<>>>>
=============================================================================
