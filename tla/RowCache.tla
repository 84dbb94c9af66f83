------------------------------ MODULE RowCache ------------------------------
(***************************************************************************)
(* One row of a cache of drawn pixels (lufia2_ppu_row_cache.h), as         *)
(* operators on the cache's record.  A row has several passes, drawn from  *)
(* the same inputs with other layers; each keeps its own pixels and its    *)
(* own certificate: the registers, the VRAM pages and the palette blocks   *)
(* that its layers read.  What all passes depend on is in one key.         *)
(*                                                                         *)
(* The counter of VRAM writes is kept as the answer to the one question    *)
(* that is asked of it: is VRAM still the one, and as the one, that the    *)
(* cache compared (counted)?                                               *)
(***************************************************************************)
EXTENDS PpuPixels

\* The passes that are told apart
Passes == {1, 2}

\* "None" is no pass: Stored tells a pass that is pending from none.
ASSUME NoneAssumption == None \notin Passes

All == BGs \cup {Obj}

\* Before the first frame the storage is zero.
EmptyRow ==
  [checked |-> FALSE, disabled |-> FALSE, counted |-> FALSE, memory |-> FALSE,
   width |-> None, snapshot |-> None,
   bound |-> FALSE, policyChecked |-> FALSE, policyValid |-> FALSE, shared |-> None,
   key |-> None, policy |-> None,
   objectsValid |-> FALSE, objects |-> None, objectPasses |-> {},
   valid |-> {}, pending |-> None,
   registers |-> [p \in Passes |-> None], layers |-> [p \in Passes |-> {}],
   pages |-> [p \in Passes |-> {}], extra |-> [p \in Passes |-> {}],
   blocks |-> [p \in Passes |-> {}], palettes |-> [p \in Passes |-> None],
   pixels |-> [p \in Passes |-> None]]

\* Lufia2PpuRowCacheBegin: a frame, or what stands for one, starts.
Begun(c) ==
  [c EXCEPT !.checked = FALSE, !.disabled = FALSE, !.pending = None, !.policyChecked = FALSE]

Forgotten(c) == [c EXCEPT !.valid = {}]

\* Lufia2PpuRowCacheBindPolicy: a prepared job draws all rows under one set of
\* policies, which is then compared once instead of with every row.
PolicyBound(c, bound) ==
  LET d == [c EXCEPT !.bound = bound, !.policyChecked = @ /\ c.bound = bound]
      same == d.policyValid /\ d.shared = in.policy
  IN  IF bound
        THEN IF d.policyChecked THEN d
             ELSE [d EXCEPT !.valid = IF same THEN @ ELSE {}, !.shared = in.policy,
                            !.policyChecked = TRUE, !.policyValid = TRUE]
        ELSE IF d.policyValid THEN [Forgotten(d) EXCEPT !.policyValid = FALSE] ELSE d

-----------------------------------------------------------------------------
(* Lufia2PpuRowCacheReadViewInputs, part by part.                          *)

\* The first look of a frame compares all of VRAM; after that any write, or
\* another VRAM, gives the frame up.
Compared(c, vram) ==
  IF c.checked
    THEN IF c.counted THEN c ELSE [Forgotten(c) EXCEPT !.disabled = TRUE]
    ELSE [c EXCEPT
            !.valid = IF c.memory /\ c.width = in.width
                        THEN {p \in @ : \A g \in c.pages[p] : c.snapshot[g] = vram[g]}
                        ELSE {},
            !.snapshot = vram, !.width = in.width,
            !.counted = TRUE, !.checked = TRUE, !.memory = TRUE]

\* What every pass of the row depends on. Under a job's policies the row's own
\* are neither compared nor kept.
CommonKey == <<in.common, in.light>>
Keyed(c) ==
  IF c.key = CommonKey /\ (c.bound \/ c.policy = in.policy) THEN c
  ELSE [Forgotten(c) EXCEPT !.key = CommonKey, !.policy = IF c.bound THEN @ ELSE in.policy]

\* Lufia2PpuRowRegisters, with the main screen of the pass: the registers of a
\* background that is not read are left out. What shows sprites reads them all.
ReadSet(layers, objects) == IF objects THEN All ELSE layers
Registers(read, main) ==
  <<in.math, IF 1 \in read THEN in.page ELSE None, main \cap (read \cup {Obj})>>

Registered(c, p, layers, objects, extra, main) ==
  LET read == ReadSet(layers, objects)
      same == /\ c.registers[p] = Registers(read, main)
              /\ c.layers[p] = read /\ c.extra[p] = extra
              /\ (p \in c.objectPasses) = objects
  IN  [c EXCEPT !.registers[p] = Registers(read, main),
                !.valid = IF same THEN @ ELSE @ \ {p}]

\* Mutant: another pass's sprites are taken for compared.
CertifiedAlone(c, p, objects) ==
  LET same == c.objectsValid /\ c.objects = in.oam
  IN  IF objects
        THEN [c EXCEPT !.valid = IF same THEN @ ELSE @ \ {p},
                       !.objects = in.oam, !.objectsValid = TRUE, !.objectPasses = @ \cup {p}]
        ELSE [c EXCEPT !.objectPasses = @ \ {p}]

\* The sprites are one certificate for all passes that show them.
Certified(c, p, objects) ==
  LET same == c.objectsValid /\ c.objects = in.oam
  IN  IF objects
        THEN [c EXCEPT !.valid = IF same THEN @ ELSE @ \ c.objectPasses,
                       !.objects = in.oam, !.objectsValid = TRUE, !.objectPasses = @ \cup {p}]
        ELSE [c EXCEPT !.objectPasses = @ \ {p}]

Coloured(c, p) ==
  [c EXCEPT !.valid = IF p \in @ /\ \E b \in c.blocks[p] : c.palettes[p][b] # in.cgram[b]
                        THEN @ \ {p} ELSE @]

\* A pass that has to be drawn records what its draw is going to read.
Recorded(c, p, layers, objects, extra, vram) ==
  LET read == ReadSet(layers, objects)
  IN  [c EXCEPT
         !.pending = p, !.layers[p] = read, !.extra[p] = extra,
         !.pages[p] = IF read = All THEN Pages ELSE {PageOf(g) : g \in read},
         !.blocks[p] = IF read = All THEN Blocks
                       ELSE {Backdrop} \cup extra \cup {Indices(g, vram) : g \in read},
         !.palettes[p] = in.cgram]

\* The pass is served if it is still valid after all this.
Looked(c, p, layers, objects, extra, vram, main) ==
  LET d == [c EXCEPT !.pending = None]
      e == IF d.disabled THEN d ELSE Compared(d, vram)
      f == Coloured(Certified(Registered(Keyed(e), p, layers, objects, extra, main),
                              p, objects), p)
  IN  IF e.disabled THEN e
      ELSE IF p \in f.valid THEN f
      ELSE Recorded(f, p, layers, objects, extra, vram)

Serves(c, p) == ~c.disabled /\ p \in c.valid

\* Lufia2PpuRowCacheStore, after the draw.
Stored(c, pixels) ==
  IF c.pending = None THEN c
  ELSE [c EXCEPT !.pixels[c.pending] = pixels, !.valid = @ \cup {c.pending}, !.pending = None]
=============================================================================
