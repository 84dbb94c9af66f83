------------------------------ MODULE SpriteRows ------------------------------
(***************************************************************************)
(* What deferring sprite rows promises: the guest thread could as well     *)
(* have rasterized every row itself, at the moment it selected the row's   *)
(* sprites.  A row starts from the previous one (only the active span is   *)
(* cleared), its slivers are painted in selection order from the words     *)
(* VRAM holds right then, and a captured row is a copy of the result.      *)
(* There is no helper, no queue and no hand-over here.                     *)
(***************************************************************************)
EXTENDS SpriteData

VARIABLES
  vram, liveRow, captured,
  handed  \* the last row was begun for the capture, which did not take it

srvars == <<vram, liveRow, captured, handed>>

SRInit ==
  /\ vram \in [Tiles -> Words]
  /\ liveRow = [c \in Columns |-> Backdrop]
  /\ captured = [y \in Lines |-> NoSprites]
  /\ handed = FALSE

\* A row drawn straight to the screen: nothing captures it.
DrawRow ==
  /\ ~handed /\ handed' \in BOOLEAN
  /\ \E span \in SUBSET Columns, slivers \in Selection :
       liveRow' = Raster(liveRow, span, Paints(slivers, vram))
  /\ UNCHANGED <<vram, captured>>

\* A row the capture keeps.
CaptureRow ==
  /\ ~handed
  /\ \E y \in Lines, span \in SUBSET Columns, slivers \in Selection :
       /\ liveRow' = Raster(liveRow, span, Paints(slivers, vram))
       /\ captured' = [captured EXCEPT ![y] = Captured(liveRow', slivers # <<>>)]
  /\ UNCHANGED <<vram, handed>>

WriteWord ==
  /\ ~handed
  /\ \E t \in Tiles, w \in Words : vram' = [vram EXCEPT ![t] = w]
  /\ UNCHANGED <<liveRow, captured, handed>>

\* A row that is handed over arrives ...
Arrive == handed /\ handed' = FALSE /\ UNCHANGED <<vram, liveRow, captured>>

\* ... or, the one exception, gets lost on the way: it may come out with any
\* pixels, and in the capture that was given up.
LoseRow ==
  /\ handed /\ handed' = FALSE
  /\ liveRow' \in [Columns -> Words]
  /\ \/ UNCHANGED captured
     \/ \E y \in Lines, hasSprites \in BOOLEAN :
          captured' = [captured EXCEPT ![y] = Captured(liveRow', hasSprites)]
  /\ UNCHANGED vram

SRNext == DrawRow \/ CaptureRow \/ WriteWord \/ Arrive \/ LoseRow

SRSpec == SRInit /\ [][SRNext]_srvars
=============================================================================
