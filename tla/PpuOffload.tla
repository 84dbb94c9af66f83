------------------------------ MODULE PpuOffload ------------------------------
(***************************************************************************)
(* One frame of the deferred PPU (src/src/lufia2_ppu_offload.c) inside the *)
(* line timeline that draws it (src/src/lufia2_ppu_timeline.c).            *)
(*                                                                         *)
(* A row's picture depends on the raster registers, the raster memory, the *)
(* palette and the battle pixel policy when its line runs.  Instead of     *)
(* drawing, an admitted frame records rows, freezes what they need and     *)
(* hands the frame to the presenter; any refusal on the way must still put *)
(* every row on the screen as the serial renderer would have drawn it.     *)
(* Each of the four inputs is a version, numbered anew in every frame: a   *)
(* write changes it, and whatever is left of earlier frames is Old.        *)
(*                                                                         *)
(* The presenter, the menu's native base flag and the consumer that calls  *)
(* Begin, EndCapture, Freeze, PrepareFrozen and Submit follow the contract *)
(* of lufia2_ppu_offload.h; the consumer itself is not in this repository. *)
(***************************************************************************)
EXTENDS Integers

CONSTANTS
  Rows,       \* LUFIA2_PPU_VISIBLE_LINES, 224
  EpochSpan   \* values of a uint32_t epoch, 2^32

ASSUME RowsAssumption == Rows \in Nat \ {0}
ASSUME SpanAssumption == EpochSpan \in Nat /\ EpochSpan >= 3

Row == 0 .. Rows - 1
Line == 0 .. Rows      \* line 0 is evaluated but shows nothing
Old == -1
Version == {0, 1}
Kinds == {"regs", "vram", "pal", "policy"}
Picture == [Kinds -> Version \cup {Old}]
NoPicture == [k \in Kinds |-> Old]
\* A destination row: what was drawn, and whether it was cleared before.
Painted == [row : Picture, clear : BOOLEAN]
Stale == [row |-> NoPicture, clear |-> FALSE]
NoFrame == [y \in Row |-> NoPicture]

VARIABLES
  ppu,         \* the live PPU and the policy in WRAM
  regsLog, palLog,            \* s_line_regs, s_line_cgram
  hdma,        \* memory the frame's HDMA channels write
  at, line,    \* where the frame is, and the timeline's line
  epoch, nextEpoch,           \* s_policy_epoch, s_next_policy_epoch
  recording,   \* s_recording = c
  deferred, prepared, clearDest, menu, battle, lines,
  reference, palettes, battleEpoch, captured, frozen,  \* fields of c
  base,        \* the menu's s_native_base
  presenter,   \* the frame the presenter has prepared
  dest,        \* the CPU destination
  screen,      \* what the frame showed
  wants        \* history: each row as its line would have drawn it

timeline == <<regsLog, palLog, hdma, line, epoch, nextEpoch>>
capture == <<lines, palettes, battleEpoch>>
owned == <<recording, deferred, prepared, clearDest, captured, base, presenter, dest>>
settled == <<menu, battle, reference>>
vars == <<ppu, timeline, at, capture, owned, settled, frozen, screen, wants>>

Init ==
  /\ ppu = [k \in Kinds |-> 0]
  /\ regsLog = [l \in Line |-> Old] /\ palLog = [l \in Line |-> Old]
  /\ hdma = {} /\ at = "idle" /\ line = 0 /\ epoch = 0 /\ nextEpoch = 0
  /\ recording = FALSE /\ deferred = FALSE /\ prepared = FALSE /\ clearDest = FALSE
  /\ menu = "no" /\ battle = FALSE /\ lines = 0
  /\ reference = NoPicture /\ palettes = [y \in Row |-> Old] /\ battleEpoch = 0
  /\ captured = NoFrame /\ frozen = NoFrame
  /\ base = FALSE /\ presenter = NoFrame
  /\ dest = [y \in Row |-> Stale] /\ screen = dest /\ wants = NoFrame

-----------------------------------------------------------------------------
(* Rows.                                                                   *)

\* Only a battle frame draws by the policy in WRAM.
Drawn(p) == IF battle THEN p ELSE [p EXCEPT !.policy = 0]

RecordsPalettes == "pal" \in hdma

\* Mistake: the log is read one line early.
LineRegistersEarly(y) == regsLog[y]

\* Lufia2LineRegisters(y) is the snapshot taken before line y + 1 ran.
LineRegisters(y) == regsLog[y + 1]
RasterCgram(y) == palLog[y + 1]

\* Row y as Fallback replays it, from the entry snapshot and the row's log.
Replayed(y) ==
  Drawn([reference EXCEPT !.regs = LineRegisters(y),
                          !.pal = IF RecordsPalettes THEN palettes[y] ELSE @])

\* Row y as Lufia2CapturePpuFrame freezes it, from the PPU at that moment; a
\* battle frame's job is built with the policy captured at Begin.
Frozen(y) ==
  Drawn([ppu EXCEPT !.regs = LineRegisters(y),
                    !.pal = IF RecordsPalettes THEN RasterCgram(y) ELSE @,
                    !.policy = reference.policy])

\* The destination after a fallback: cleared if that was put off, then every
\* recorded row replayed.
Recovered ==
  [y \in Row |->
     [row   |-> IF y < lines THEN Replayed(y) ELSE IF clearDest THEN NoPicture ELSE dest[y].row,
      clear |-> clearDest \/ dest[y].clear]]

\* Mistake: the fallback does not cancel what the presenter holds.
FallbackNoCancel ==
  IF ~deferred THEN UNCHANGED owned ELSE
  /\ recording' = FALSE /\ deferred' = FALSE /\ prepared' = FALSE
  /\ presenter' = presenter
  /\ dest' = Recovered /\ clearDest' = FALSE /\ captured' = NoFrame
  /\ base' = (base /\ menu = "no")

Fallback ==
  IF ~deferred THEN UNCHANGED owned ELSE
  /\ recording' = FALSE /\ deferred' = FALSE
  /\ prepared' = FALSE
  /\ presenter' = IF prepared THEN NoFrame ELSE presenter
  /\ dest' = Recovered
  /\ clearDest' = FALSE
  /\ captured' = NoFrame
  /\ base' = (base /\ menu = "no")

-----------------------------------------------------------------------------
(* The consumer opens a frame.                                             *)

\* Mistake: the epoch is not renewed after an interrupt.
ResumeSameEpoch ==
  /\ nextEpoch' = IF nextEpoch = 0 THEN 1 ELSE nextEpoch
  /\ epoch' = nextEpoch'

ResumeReadOnly ==
  /\ nextEpoch' = IF (nextEpoch + 1) % EpochSpan = 0 THEN 1 ELSE (nextEpoch + 1) % EpochSpan
  /\ epoch' = nextEpoch'

\* The guest arranges the frame's HDMA; the timeline starts at line 0.  All
\* that the frames before left in memory is out of date.
Arrange ==
  /\ at \in {"idle", "shown"}
  /\ hdma' \in SUBSET {"vram", "pal"}
  /\ at' = "begin" /\ line' = 0
  /\ wants' = NoFrame /\ screen' = [y \in Row |-> Stale]
  /\ dest' = [y \in Row |-> Stale]
  /\ ppu' = [k \in Kinds |-> 0] /\ reference' = NoPicture
  /\ regsLog' = [l \in Line |-> Old] /\ palLog' = regsLog'
  /\ palettes' = [y \in Row |-> Old] /\ frozen' = NoFrame
  /\ UNCHANGED <<epoch, nextEpoch, lines, battleEpoch, menu, battle,
                 recording, deferred, prepared, clearDest, captured, base, presenter>>

\* Lufia2PpuOffloadBegin admits the frame.  The consumer then defers the
\* clearing of the destination to a possible fallback.
Admit ==
  /\ at = "begin" /\ ~recording /\ ~prepared /\ ~deferred
  /\ "vram" \notin hdma
  /\ menu' \in {"no", "rows", "indexed"} /\ battle' \in BOOLEAN
  /\ menu' # "no" => ~base /\ ~battle'
  /\ base' = (base \/ menu' # "no")
  /\ reference' = ppu /\ lines' = 0 /\ battleEpoch' = 0
  /\ captured' = NoFrame
  /\ deferred' = TRUE /\ recording' = TRUE /\ clearDest' = TRUE
  /\ at' = "line"
  /\ ResumeReadOnly
  /\ UNCHANGED <<ppu, regsLog, palLog, hdma, line, prepared, presenter, dest, palettes,
                 frozen, screen, wants>>

\* Begin turns the frame down, or there is no context: the consumer clears the
\* destination and every row is drawn serially.  Lines 181 and 221 run before
\* the refusals below them.
Refuse ==
  /\ at = "begin"
  /\ battle' \in BOOLEAN
  /\ IF recording \/ prepared \/ deferred THEN UNCHANGED <<captured, menu>>
     ELSE captured' = NoFrame /\ menu' = "no"
  /\ dest' = [y \in Row |-> [row |-> NoPicture, clear |-> TRUE]]
  /\ at' = "line"
  /\ ResumeReadOnly
  /\ UNCHANGED <<ppu, regsLog, palLog, hdma, line, capture, reference, frozen, screen, wants,
                 recording, deferred, prepared, clearDest, base, presenter>>

-----------------------------------------------------------------------------
(* The timeline draws the frame, line by line.                             *)

Snapshot ==
  /\ at = "line" /\ at' = "hdma"
  /\ regsLog' = [regsLog EXCEPT ![line] = ppu.regs]
  /\ palLog' = IF RecordsPalettes THEN [palLog EXCEPT ![line] = ppu.pal] ELSE palLog
  /\ wants' = IF line = 0 THEN wants ELSE [wants EXCEPT ![line - 1] = Drawn(ppu)]
  /\ UNCHANGED <<ppu, hdma, line, epoch, nextEpoch, settled, frozen, screen>>

Serial(d) == [d EXCEPT ![line - 1].row = Drawn(ppu)]

\* Line 0, and every line of a frame that is not being recorded.
DrawLine ==
  /\ Snapshot
  /\ line = 0 \/ ~recording
  /\ dest' = IF line = 0 THEN dest ELSE Serial(dest)
  /\ UNCHANGED <<capture, recording, deferred, prepared, clearDest, captured, base, presenter>>

\* The certificate spares the comparison while no guest code has run.
PolicyCertified == epoch # 0 /\ epoch = battleEpoch
PolicyHolds == ~battle \/ PolicyCertified \/ ppu.policy = reference.policy

\* Lufia2PpuOffloadRecordLine takes the row.  A compatibility menu still draws
\* its original indices.
RecordLine ==
  /\ Snapshot
  /\ line > 0 /\ recording /\ PolicyHolds
  /\ battleEpoch' = IF battle THEN epoch ELSE battleEpoch
  /\ palettes' = IF RecordsPalettes THEN [palettes EXCEPT ![line - 1] = ppu.pal] ELSE palettes
  /\ lines' = lines + 1
  /\ dest' = IF menu = "rows" THEN Serial(dest) ELSE dest
  /\ UNCHANGED <<recording, deferred, prepared, clearDest, captured, base, presenter>>

\* The row cannot be recorded: the menu stopped qualifying, the battle policy,
\* a remapping or a shadow tile changed, or a menu row could not be indexed.
\* The rows before it are replayed, and it is drawn serially.
AbandonLine ==
  /\ Snapshot
  /\ line > 0 /\ recording
  /\ recording' = FALSE /\ deferred' = FALSE /\ clearDest' = FALSE
  /\ dest' = Serial(Recovered)
  /\ captured' = NoFrame
  /\ base' = (base /\ menu = "no")
  /\ UNCHANGED <<capture, prepared, presenter>>

EnterIrq ==
  /\ at = "hdma" /\ at' = "irq" /\ epoch' = 0
  /\ UNCHANGED <<ppu, regsLog, palLog, hdma, line, nextEpoch, capture, owned, settled,
                 frozen, screen, wants>>

LeaveIrq ==
  /\ at = "irq" /\ at' = "next"
  /\ ResumeReadOnly
  /\ UNCHANGED <<ppu, regsLog, palLog, hdma, line, capture, owned, settled, frozen, screen, wants>>

NextLine ==
  /\ at \in {"hdma", "next"}
  /\ IF line < Rows THEN line' = line + 1 /\ at' = "line" /\ epoch' = epoch
     ELSE line' = line /\ at' = "end" /\ epoch' = 0
  /\ UNCHANGED <<ppu, regsLog, palLog, hdma, nextEpoch, capture, owned, settled, frozen,
                 screen, wants>>

Changed(k) == [ppu EXCEPT ![k] = 1 - @]

Pending == {"captured", "frozen", "prepared"}

\* HDMA and IRQ code write registers between two lines.
WriteRegister ==
  /\ at \in {"hdma", "irq"}
  /\ ppu' = Changed("regs")
  /\ UNCHANGED <<timeline, at, capture, owned, settled, frozen, screen, wants>>

\* Guest code changes the battle policy in WRAM.
WritePolicy ==
  /\ at \in {"irq", "end", "idle", "shown"} \cup Pending
  /\ ppu' = Changed("policy")
  /\ UNCHANGED <<timeline, at, capture, owned, settled, frozen, screen, wants>>

\* A write to a memory port, by HDMA or by guest code, first passes
\* Lufia2PpuOffloadBeforeMemoryWrite.
WriteMemory ==
  /\ \E k \in {"vram", "pal"} :
       /\ at = "hdma" => k \in hdma
       /\ at \in {"hdma", "irq", "end", "idle", "shown"} \cup Pending
       /\ IF recording /\ (k = "vram" \/ ~RecordsPalettes) THEN Fallback ELSE UNCHANGED owned
       /\ ppu' = Changed(k)
  /\ UNCHANGED <<timeline, at, capture, settled, frozen, screen, wants>>

-----------------------------------------------------------------------------
(* The consumer closes the frame.                                          *)

idleParts == <<ppu, timeline, capture, settled, dest, wants>>

\* Every line was recorded, but the capture itself can still fail.
EndCapture ==
  /\ at = "end"
  /\ \/ /\ recording /\ lines = Rows
        /\ captured' = [y \in Row |-> Frozen(y)] /\ at' = "captured"
     \/ captured' = captured /\ at' = "failed"
  /\ recording' = FALSE
  /\ UNCHANGED <<idleParts, deferred, prepared, clearDest, base, presenter, frozen, screen>>

\* Lufia2PpuOffloadFreezeMenu and FreezeResolvedSources.
Freeze ==
  /\ at = "captured"
  /\ \/ /\ deferred /\ captured # NoFrame /\ ~prepared /\ ~recording
        /\ frozen' = captured /\ at' = "frozen"
     \/ frozen' = NoFrame /\ at' = "failed"
  /\ UNCHANGED <<idleParts, recording, deferred, prepared, clearDest, captured, base,
                 presenter, screen>>

\* Presenter work, possibly on the helper core.
PrepareFrozen ==
  /\ at = "frozen" /\ frozen # NoFrame
  /\ frozen' = NoFrame
  /\ \/ presenter' = frozen /\ prepared' = TRUE /\ at' = "prepared"
     \/ presenter' = presenter /\ prepared' = FALSE /\ at' = "failed"
  /\ UNCHANGED <<idleParts, recording, deferred, clearDest, captured, base, screen>>

\* Mistake: a submitted frame stays deferred.
SubmitStaysDeferred ==
  /\ at = "prepared" /\ prepared
  /\ prepared' = FALSE /\ presenter' = NoFrame
  /\ \/ /\ deferred' = deferred /\ at' = "submitted"
        /\ screen' = [y \in Row |-> [row |-> presenter[y], clear |-> TRUE]]
     \/ UNCHANGED <<deferred, screen>> /\ at' = "failed"
  /\ UNCHANGED <<idleParts, recording, clearDest, captured, base, frozen>>

\* Lufia2PpuOffloadSubmitPresenter.  The presenter lets go of the frame.
SubmitPresenter ==
  /\ at = "prepared" /\ prepared
  /\ prepared' = FALSE /\ presenter' = NoFrame
  /\ \/ /\ deferred' = FALSE /\ at' = "submitted"
        /\ screen' = [y \in Row |-> [row |-> presenter[y], clear |-> TRUE]]
     \/ UNCHANGED <<deferred, screen>> /\ at' = "failed"
  /\ UNCHANGED <<idleParts, recording, clearDest, captured, base, frozen>>

\* Lufia2PpuOffloadSubmitted, back on the guest thread.
Submitted ==
  /\ at = "submitted" /\ at' = "shown"
  /\ base' = (base /\ menu = "no")
  /\ UNCHANGED <<idleParts, recording, deferred, prepared, clearDest, captured, presenter,
                 frozen, screen>>

\* On any failure the consumer falls back and shows the CPU destination.
ShowSerial ==
  /\ at \in {"failed"} \cup Pending
  /\ Fallback
  /\ at' = "shown" /\ screen' = dest'
  /\ UNCHANGED <<ppu, timeline, capture, settled, frozen, wants>>

\* The consumer drops the context, with or without a frame pending, and
\* creates another.
Destroy ==
  /\ at \in {"end", "failed", "idle", "shown"} \cup Pending
  /\ at' = "idle"
  /\ base' = (base /\ ~(menu # "no" /\ deferred))
  /\ presenter' = IF prepared THEN NoFrame ELSE presenter
  /\ recording' = FALSE /\ deferred' = FALSE /\ prepared' = FALSE /\ clearDest' = FALSE
  /\ captured' = NoFrame /\ frozen' = NoFrame /\ menu' = "no" /\ battle' = FALSE
  /\ lines' = 0
  /\ UNCHANGED <<ppu, timeline, palettes, battleEpoch, reference, dest, screen, wants>>

Next ==
  \/ Arrange \/ Admit \/ Refuse
  \/ DrawLine \/ RecordLine \/ AbandonLine \/ EnterIrq \/ LeaveIrq \/ NextLine
  \/ WriteRegister \/ WritePolicy \/ WriteMemory
  \/ EndCapture \/ Freeze \/ PrepareFrozen \/ SubmitPresenter \/ Submitted \/ ShowSerial \/ Destroy

Spec == Init /\ [][Next]_vars

-----------------------------------------------------------------------------
(* Properties.                                                             *)

Frames == [Row -> Picture]

\* Every variable keeps to its type: in particular the row count of a
\* recording never passes the rows of the frame.
TypeOK ==
  /\ ppu \in [Kinds -> Version] /\ reference \in Picture
  /\ {regsLog, palLog} \subseteq [Line -> Version \cup {Old}]
  /\ palettes \in [Row -> Version \cup {Old}]
  /\ hdma \subseteq {"vram", "pal"} /\ line \in Line
  /\ at \in {"idle", "begin", "line", "hdma", "irq", "next", "end", "failed", "submitted",
             "shown"} \cup Pending
  /\ epoch \in 0 .. EpochSpan - 1 /\ nextEpoch \in 0 .. EpochSpan - 1
  /\ battleEpoch \in 0 .. EpochSpan - 1
  /\ {recording, deferred, prepared, clearDest, battle, base} \subseteq BOOLEAN
  /\ menu \in {"no", "rows", "indexed"} /\ lines \in 0 .. Rows
  /\ captured \in Frames /\ frozen \in Frames /\ presenter \in Frames /\ wants \in Frames
  /\ dest \in [Row -> Painted] /\ screen \in [Row -> Painted]

\* Whatever path a frame took, recorded to the end, refused at Begin, given up
\* between two rows or after the capture, it shows every row as its line would
\* have drawn it, and nothing of the frame before.
FrameExact == at = "shown" => \A y \in Row : screen[y] = [row |-> wants[y], clear |-> TRUE]

\* No refusal, fallback, submission or destruction leaves behind what a frame
\* was lent: the menu draws on its native base exactly while a menu frame is
\* pending, and the presenter holds a prepared frame exactly while the context
\* says so, the pending one, with recording over.
LoansReturned ==
  /\ base <=> menu # "no" /\ (deferred \/ at = "submitted")
  /\ prepared <=> presenter # NoFrame
  /\ prepared => deferred /\ ~recording /\ presenter = captured

\* A frame that has been shown leaves nothing pending, so that the next Begin
\* is not refused for ever.
Settled == at \in {"idle", "begin", "shown"} => ~deferred /\ ~recording /\ ~prepared

\* The certificate that spares RecordLine the comparison of the battle policy
\* is never out of date: while it holds, WRAM has the policy of the frame.
CertificateCurrent ==
  recording /\ battle /\ at = "line" /\ PolicyCertified => ppu.policy = reference.policy

=============================================================================
