-------------------------- MODULE PpuOffloadProofs --------------------------
(***************************************************************************)
(* A deferred frame shows what the serial renderer would have shown, for   *)
(* any number of rows and wherever it is given up.  While a frame is       *)
(* recorded, what its rows depend on and is not logged has not changed     *)
(* since it was admitted, so replaying the log, freezing the recording and *)
(* drawing at once agree row by row.                                       *)
(***************************************************************************)
EXTENDS PpuOffload, TLAPS

Drawing == {"line", "hdma", "irq", "next", "end"}

\* Whose the frame is at each place: the menu's base, the recording, the
\* presenter.
Ownership ==
  /\ recording => deferred /\ at \in Drawing
  /\ deferred => clearDest /\ at \in Drawing \cup Pending \cup {"failed"}
  /\ at \in Drawing /\ deferred => recording
  /\ at \in Pending => deferred
  /\ prepared <=> at = "prepared"
  /\ prepared <=> presenter # NoFrame
  /\ base <=> menu # "no" /\ (deferred \/ at = "submitted")

\* The lines that have run: line counts the one that is about to, at "line".
Past == IF at = "line" /\ line > 0 THEN line - 1 ELSE line

Counted ==
  /\ at = "begin" => line = 0
  /\ at \in {"end", "failed"} \cup Pending => line = Rows
  /\ deferred => lines = Past

\* What a recording depends on and does not log is as it was admitted.
Admitted ==
  recording => /\ ppu.vram = reference.vram
               /\ ~RecordsPalettes => ppu.pal = reference.pal

\* An epoch certifies a comparison made since guest code last ran.
Certified ==
  /\ at \in {"line", "hdma", "next"} => epoch = nextEpoch /\ epoch # 0
  /\ at \in {"irq", "end"} => epoch = 0
  /\ recording /\ line = 0 => battleEpoch = 0
  /\ recording /\ battle /\ at \in {"hdma", "irq"} => battleEpoch \in {0, nextEpoch}
  /\ recording /\ battle /\ PolicyCertified => ppu.policy = reference.policy

\* The rows recorded so far, replayed, are the rows their lines would have drawn.
Recorded ==
  deferred => \A y \in 0 .. lines - 1 :
    wants[y] = Replayed(y) /\ (RecordsPalettes => palettes[y] = RasterCgram(y))

\* The rows drawn so far are there.
DrawnSerially ==
  at \in Drawing \cup {"failed"} /\ ~deferred =>
    /\ \A y \in Row : dest[y].clear
    /\ \A y \in 0 .. Past - 1 : dest[y].row = wants[y]

\* The frame on its way to the presenter is the one that was wanted.
Carried ==
  /\ at \in Pending => captured = wants
  /\ at = "frozen" => frozen = captured
  /\ prepared => presenter = captured
  /\ at \in {"submitted", "shown"} => \A y \in Row : screen[y] = [row |-> wants[y], clear |-> TRUE]

Inductive ==
  /\ TypeOK /\ Ownership /\ Counted
  /\ Admitted /\ Certified /\ Recorded /\ DrawnSerially /\ Carried
-----------------------------------------------------------------------------
(* Pictures and frames.                                                    *)

USE RowsAssumption, SpanAssumption

LEMMA PictureTypes ==
  ASSUME TypeOK
  PROVE  /\ ppu \in Picture /\ NoPicture \in Picture /\ NoFrame \in Frames
         /\ \A p \in Picture : Drawn(p) \in Picture
         /\ \A y \in Row : y + 1 \in Line /\ Replayed(y) \in Picture /\ Frozen(y) \in Picture
         /\ Recovered \in [Row -> Painted]
         /\ Stale \in Painted
<1>1. ppu \in Picture /\ NoPicture \in Picture /\ NoFrame \in Frames
  BY DEF TypeOK, Picture, NoPicture, NoFrame, Frames, Version
<1>2. \A p \in Picture : Drawn(p) \in Picture
  BY DEF Drawn, Picture, Version
<1>3. ASSUME NEW y \in Row
      PROVE  y + 1 \in Line /\ Replayed(y) \in Picture /\ Frozen(y) \in Picture
  <2>1. y + 1 \in Line
    BY DEF Row, Line
  <2>2. /\ regsLog[y + 1] \in Version \cup {Old} /\ palLog[y + 1] \in Version \cup {Old}
        /\ palettes[y] \in Version \cup {Old} /\ reference \in Picture
    BY <2>1 DEF TypeOK
  <2>3. [reference EXCEPT !.regs = LineRegisters(y),
                          !.pal = IF RecordsPalettes THEN palettes[y] ELSE @] \in Picture
    BY <2>2 DEF Picture, LineRegisters
  <2>4. reference.policy \in Version \cup {Old}
    BY <2>2 DEF Picture, Kinds
  <2>5. [ppu EXCEPT !.regs = LineRegisters(y),
                    !.pal = IF RecordsPalettes THEN RasterCgram(y) ELSE @,
                    !.policy = reference.policy] \in Picture
    BY <1>1, <2>2, <2>4 DEF Picture, LineRegisters, RasterCgram
  <2> QED
    BY <1>2, <2>1, <2>3, <2>5 DEF Replayed, Frozen
<1>4. Recovered \in [Row -> Painted]
  BY <1>1, <1>3 DEF Recovered, Painted, TypeOK
<1>5. Stale \in Painted
  BY <1>1 DEF Stale, Painted
<1> QED
  BY <1>1, <1>2, <1>3, <1>4, <1>5

LEMMA InitInductive == Init => Inductive
<1> SUFFICES ASSUME Init PROVE Inductive
  OBVIOUS
<1>1. TypeOK
  <2>1. NoPicture \in Picture /\ [k \in Kinds |-> 0] \in [Kinds -> Version]
    BY DEF NoPicture, Picture, Version
  <2>2. NoFrame \in Frames /\ [y \in Row |-> Stale] \in [Row -> Painted]
    BY <2>1 DEF NoFrame, Frames, Stale, Painted
  <2>3. {recording, deferred, prepared, clearDest, battle, base} \subseteq BOOLEAN
    BY DEF Init
  <2>4. /\ ppu \in [Kinds -> Version] /\ reference \in Picture
        /\ captured \in Frames /\ frozen \in Frames /\ presenter \in Frames /\ wants \in Frames
        /\ dest \in [Row -> Painted] /\ screen \in [Row -> Painted]
    BY <2>1, <2>2 DEF Init
  <2>5. /\ {regsLog, palLog} \subseteq [Line -> Version \cup {Old}]
        /\ palettes \in [Row -> Version \cup {Old}]
    BY DEF Init
  <2> QED
    BY <2>3, <2>4, <2>5 DEF Init, TypeOK, Line
<1>2. Ownership /\ Counted /\ Admitted /\ Certified /\ Recorded /\ DrawnSerially /\ Carried
  BY DEF Init, Ownership, Counted, Admitted, Certified, Recorded, DrawnSerially, Carried,
         Drawing, Pending
<1> QED
  BY <1>1, <1>2 DEF Inductive

\* What Recovered replays is what was wanted, and all of the rest is cleared.
LEMMA RecoveredRows ==
  ASSUME Inductive, deferred
  PROVE  /\ \A y \in 0 .. lines - 1 : Recovered[y].row = wants[y]
         /\ \A y \in Row : Recovered[y].clear
<1>1. lines \in 0 .. Rows /\ clearDest
  BY DEF Inductive, TypeOK, Ownership
<1>2. \A y \in 0 .. lines - 1 : y \in Row /\ y < lines /\ wants[y] = Replayed(y)
  BY <1>1 DEF Inductive, Recorded, Row
<1>3. ASSUME NEW y \in Row
      PROVE  /\ Recovered[y].row = IF y < lines THEN Replayed(y) ELSE NoPicture
             /\ Recovered[y].clear = TRUE
             /\ Recovered[y] = [row |-> Recovered[y].row, clear |-> TRUE]
  <2>1. (clearDest \/ dest[y].clear) = TRUE
    BY <1>1
  <2> QED
    BY <1>1, <2>1 DEF Recovered
<1> QED
  BY <1>2, <1>3

\* Fallback, wherever it is called: nothing is pending afterwards, and the rows
\* that have run are there.
LEMMA FallbackEffect ==
  ASSUME Inductive, Fallback
  PROVE  /\ recording' = FALSE /\ deferred' = FALSE /\ prepared' = FALSE
         /\ clearDest' \in BOOLEAN
         /\ presenter' = NoFrame
         /\ captured' \in Frames /\ dest' \in [Row -> Painted]
         /\ base' = (menu # "no" /\ at = "submitted")
<1>1. CASE ~deferred
  BY <1>1, PictureTypes DEF Fallback, Inductive, Ownership, owned, TypeOK, Pending
<1>2. CASE deferred
  BY <1>2, PictureTypes DEF Fallback, Inductive, Ownership, owned, TypeOK, Pending, Drawing
<1> QED
  BY <1>1, <1>2

LEMMA FallbackRows ==
  ASSUME Inductive, Fallback, at \in Drawing \cup Pending \cup {"failed"}
  PROVE  /\ \A y \in Row : dest'[y].clear
         /\ \A y \in 0 .. Past - 1 : dest'[y].row = wants[y]
<1>1. CASE ~deferred
  BY <1>1 DEF Fallback, owned, Inductive, Ownership, DrawnSerially
<1>2. CASE deferred
  <2>1. dest' = Recovered /\ lines = Past
    BY <1>2 DEF Fallback, Inductive, Counted
  <2>3. \A y \in Row : dest'[y].clear
    BY <1>2, <2>1, RecoveredRows
  <2>4. \A y \in 0 .. Past - 1 : dest'[y].row = wants[y]
    BY <1>2, <2>1, RecoveredRows
  <2> QED
    BY <2>3, <2>4
<1> QED
  BY <1>1, <1>2

-----------------------------------------------------------------------------
(* Types.                                                                  *)

USE DEF timeline, capture, settled, idleParts

\* A frame is lined up and admitted, or refused.
LEMMA OpeningTypes ==
  ASSUME Inductive, Arrange \/ Admit \/ Refuse
  PROVE  TypeOK'
<1>1. TypeOK /\ NoPicture \in Picture /\ NoFrame \in Frames /\ Stale \in Painted
  BY PictureTypes DEF Inductive
<1>2. CASE Arrange
  <2>1. ppu' \in [Kinds -> Version] /\ reference' \in Picture
    BY <1>1, <1>2 DEF Arrange, Version
  <2>2. {regsLog', palLog'} \subseteq [Line -> Version \cup {Old}] /\ palettes' \in [Row -> Version \cup {Old}]
    BY <1>2 DEF Arrange
  <2>3. wants' \in Frames /\ frozen' \in Frames /\ screen' \in [Row -> Painted] /\ dest' \in [Row -> Painted]
    BY <1>1, <1>2 DEF Arrange
  <2>4. hdma' \subseteq {"vram", "pal"} /\ line' \in Line /\ at' = "begin"
    BY <1>2 DEF Arrange, Line
  <2> QED
    BY <1>1, <1>2, <2>1, <2>2, <2>3, <2>4 DEF Arrange, TypeOK
<1>3. CASE Admit
  <2>1. nextEpoch' \in 0 .. EpochSpan - 1 /\ epoch' \in 0 .. EpochSpan - 1
    BY <1>1, <1>3 DEF Admit, ResumeReadOnly, TypeOK
  <2>2. {recording', deferred', prepared', clearDest', battle', base'} \subseteq BOOLEAN
    BY <1>1, <1>3 DEF Admit, TypeOK
  <2>3. reference' \in Picture
    BY <1>1, <1>3, PictureTypes DEF Admit
  <2> QED
    BY <1>1, <1>3, <2>1, <2>2, <2>3 DEF Admit, TypeOK
<1>4. CASE Refuse
  <2>1. nextEpoch' \in 0 .. EpochSpan - 1 /\ epoch' \in 0 .. EpochSpan - 1
    BY <1>1, <1>4 DEF Refuse, ResumeReadOnly, TypeOK
  <2>2. {recording', deferred', prepared', clearDest', battle', base'} \subseteq BOOLEAN
    BY <1>1, <1>4 DEF Refuse, TypeOK
  <2>3. dest' \in [Row -> Painted]
    BY <1>1, <1>4 DEF Refuse, Painted
  <2> QED
    BY <1>1, <1>4, <2>1, <2>2, <2>3 DEF Refuse, TypeOK
<1> QED
  BY <1>2, <1>3, <1>4

\* A line runs: it is drawn, recorded, or ends the recording.
LEMMA LineTypes ==
  ASSUME Inductive, DrawLine \/ RecordLine \/ AbandonLine
  PROVE  TypeOK'
<1>1. TypeOK /\ Drawn(ppu) \in Picture /\ Recovered \in [Row -> Painted] /\ NoFrame \in Frames
  BY PictureTypes DEF Inductive
<1>2. Snapshot
  BY DEF DrawLine, RecordLine, AbandonLine
<1>3. line \in 0 .. Rows /\ (line > 0 => line - 1 \in Row)
  BY <1>1 DEF TypeOK, Line, Row
<1>4. {regsLog', palLog'} \subseteq [Line -> Version \cup {Old}] /\ wants' \in Frames
  BY <1>1, <1>2, <1>3 DEF Snapshot, TypeOK, Frames, Line, Kinds
<1>5. ASSUME NEW d \in [Row -> Painted] PROVE Serial(d) \in [Row -> Painted]
  BY <1>1 DEF Serial, Painted
<1>6. dest' \in [Row -> Painted]
  BY <1>1, <1>5 DEF TypeOK, DrawLine, RecordLine, AbandonLine
<1>7. lines' \in 0 .. Rows /\ battleEpoch' \in 0 .. EpochSpan - 1
  <2>1. RecordLine => lines = line - 1
    BY <1>2, <1>3 DEF Inductive, Counted, Ownership, Past, Snapshot, RecordLine
  <2> QED
    BY <1>1, <1>3, <2>1 DEF TypeOK, DrawLine, RecordLine, AbandonLine
<1>10. palettes' \in [Row -> Version \cup {Old}]
  <2>1. ppu.pal \in Version
    BY <1>1 DEF TypeOK, Kinds
  <2> QED
    BY <1>1, <1>3, <2>1 DEF TypeOK, DrawLine, RecordLine, AbandonLine
<1>8. {recording', deferred', prepared', clearDest', battle', base'} \subseteq BOOLEAN
  BY <1>1, <1>2 DEF TypeOK, Snapshot, DrawLine, RecordLine, AbandonLine
<1>9. captured' \in Frames /\ presenter' = presenter
  BY <1>1 DEF TypeOK, DrawLine, RecordLine, AbandonLine
<1> QED
  BY <1>1, <1>2, <1>4, <1>6, <1>7, <1>8, <1>9, <1>10 DEF TypeOK, Snapshot

\* Between two lines.
LEMMA BetweenTypes ==
  ASSUME Inductive,
         EnterIrq \/ LeaveIrq \/ NextLine \/ WriteRegister \/ WritePolicy \/ WriteMemory
  PROVE  TypeOK'
<1>1. TypeOK
  BY DEF Inductive
<1>2. \A k \in Kinds : Changed(k) \in [Kinds -> Version]
  BY <1>1 DEF Changed, TypeOK, Version
<1>3. CASE EnterIrq
  BY <1>1, <1>3 DEF EnterIrq, owned, TypeOK
<1>4. CASE LeaveIrq
  BY <1>1, <1>4 DEF LeaveIrq, ResumeReadOnly, owned, TypeOK
<1>5. CASE NextLine
  BY <1>1, <1>5 DEF NextLine, owned, TypeOK, Line
<1>6. CASE WriteRegister
  BY <1>1, <1>2, <1>6 DEF WriteRegister, owned, TypeOK, Kinds
<1>7. CASE WritePolicy
  BY <1>1, <1>2, <1>7 DEF WritePolicy, owned, TypeOK, Kinds
<1>8. CASE WriteMemory
  <2>1. ppu' \in [Kinds -> Version]
    BY <1>2, <1>8 DEF WriteMemory, Kinds
  <2>2. CASE UNCHANGED owned
    BY <1>1, <1>8, <2>1, <2>2 DEF WriteMemory, owned, TypeOK
  <2>3. CASE Fallback
    BY <1>1, <1>8, <2>1, <2>3, FallbackEffect, PictureTypes DEF WriteMemory, TypeOK
  <2> QED
    BY <1>8, <2>2, <2>3 DEF WriteMemory
<1> QED
  BY <1>3, <1>4, <1>5, <1>6, <1>7, <1>8

\* The frame is closed.
LEMMA ClosingTypes ==
  ASSUME Inductive,
         EndCapture \/ Freeze \/ PrepareFrozen \/ SubmitPresenter \/ Submitted \/ ShowSerial \/ Destroy
  PROVE  TypeOK'
<1>1. /\ TypeOK /\ NoFrame \in Frames /\ [y \in Row |-> Frozen(y)] \in Frames
      /\ \A f \in Frames : [y \in Row |-> [row |-> f[y], clear |-> TRUE]] \in [Row -> Painted]
  BY PictureTypes DEF Inductive, Frames, Painted
<1>2. CASE EndCapture
  BY <1>1, <1>2 DEF EndCapture, TypeOK, Pending
<1>3. CASE Freeze
  BY <1>1, <1>3 DEF Freeze, TypeOK, Pending
<1>4. CASE PrepareFrozen
  BY <1>1, <1>4 DEF PrepareFrozen, TypeOK, Pending
<1>5. CASE SubmitPresenter
  BY <1>1, <1>5 DEF SubmitPresenter, TypeOK, Pending
<1>6. CASE Submitted
  BY <1>1, <1>6 DEF Submitted, TypeOK
<1>7. CASE ShowSerial
  <2>1. {recording', deferred', prepared', clearDest', battle', base'} \subseteq BOOLEAN
    BY <1>1, <1>7, FallbackEffect DEF ShowSerial, TypeOK
  <2>2. presenter' \in Frames /\ captured' \in Frames /\ dest' \in [Row -> Painted] /\ screen' = dest'
    BY <1>1, <1>7, FallbackEffect DEF ShowSerial
  <2> QED
    BY <1>1, <1>7, <2>1, <2>2 DEF ShowSerial, TypeOK
<1>8. CASE Destroy
  <2>1. {recording', deferred', prepared', clearDest', battle', base'} \subseteq BOOLEAN
    BY <1>1, <1>8 DEF Destroy, TypeOK
  <2> QED
    BY <1>1, <1>8, <2>1 DEF Destroy, TypeOK
<1> QED
  BY <1>2, <1>3, <1>4, <1>5, <1>6, <1>7, <1>8

LEMMA TypeStep == Inductive /\ [Next]_vars => TypeOK'
<1>1. Inductive /\ UNCHANGED vars => TypeOK'
  BY DEF Inductive, TypeOK, vars, owned
<1> QED
  BY <1>1, OpeningTypes, LineTypes, BetweenTypes, ClosingTypes DEF Next

-----------------------------------------------------------------------------
(* Opening a frame.                                                        *)

\* What a recorded row replays as depends on the snapshot and the logs only.
LEMMA ReplaySame ==
  ASSUME UNCHANGED <<reference, regsLog, palLog, palettes, hdma, battle>>
  PROVE  \A y : Replayed(y)' = Replayed(y) /\ RasterCgram(y)' = RasterCgram(y)
  BY DEF Replayed, Drawn, LineRegisters, RasterCgram, RecordsPalettes

\* Renewing the epoch, it is neither 0 nor what it was.
LEMMA Renewed ==
  ASSUME TypeOK, ResumeReadOnly
  PROVE  epoch' = nextEpoch' /\ epoch' # 0 /\ epoch' # nextEpoch
  BY DEF TypeOK, ResumeReadOnly

LEMMA OpeningStep ==
  ASSUME Inductive, Arrange \/ Admit \/ Refuse
  PROVE  Inductive'
<1>1. TypeOK /\ TypeOK' /\ at \in {"idle", "shown", "begin"} /\ ~deferred /\ ~recording /\ ~prepared
  BY OpeningTypes DEF Inductive, Ownership, Drawing, Pending, Arrange, Admit, Refuse
<1>2. ASSUME Arrange PROVE Inductive'
  <2>1. Ownership' /\ Counted' /\ Admitted' /\ Certified'
    BY <1>1, <1>2 DEF Arrange, Inductive, Ownership, Counted, Admitted, Certified, Drawing, Pending
  <2>2. Recorded' /\ DrawnSerially' /\ Carried'
    BY <1>1, <1>2 DEF Arrange, Recorded, DrawnSerially, Carried, Inductive, Ownership, Drawing, Pending
  <2> QED
    BY <1>1, <2>1, <2>2 DEF Inductive
<1>3. ASSUME Admit PROVE Inductive'
  <2>0. base' <=> menu' # "no"
    BY <1>1, <1>3 DEF Admit, Inductive, Ownership
  <2>1. Ownership' /\ Counted' /\ Admitted'
    BY <1>1, <1>3, <2>0 DEF Admit, Inductive, Ownership, Counted, Past, Admitted, Drawing, Pending
  <2>2. Certified'
    BY <1>1, <1>3, Renewed DEF Admit, Certified, PolicyCertified
  <2>3. Recorded'
    BY <1>3 DEF Admit, Recorded
  <2>4. DrawnSerially' /\ Carried'
    BY <1>1, <1>3 DEF Admit, DrawnSerially, Carried, Pending
  <2> QED
    BY <1>1, <2>1, <2>2, <2>3, <2>4 DEF Inductive
<1>4. ASSUME Refuse PROVE Inductive'
  <2>1. Ownership' /\ Counted' /\ Admitted'
    BY <1>1, <1>4 DEF Refuse, Inductive, Ownership, Counted, Past, Admitted, Drawing, Pending
  <2>2. Certified' /\ Recorded' /\ Carried'
    BY <1>1, <1>4, Renewed DEF Refuse, Certified, Recorded, Carried, Pending
  <2>3. DrawnSerially'
    BY <1>1, <1>4 DEF Refuse, DrawnSerially, Past, Inductive, Counted
  <2> QED
    BY <1>1, <2>1, <2>2, <2>3 DEF Inductive
<1> QED
  BY <1>2, <1>3, <1>4

-----------------------------------------------------------------------------
(* Drawing it, line by line.                                               *)

\* Pictures are drawn alike if what is drawn by agrees.
LEMMA DrawnAlike ==
  ASSUME NEW p \in Picture, NEW q \in Picture,
         p.regs = q.regs, p.vram = q.vram, p.pal = q.pal, battle => p.policy = q.policy
  PROVE  Drawn(p) = Drawn(q)
<1>1. CASE battle
  <2>1. \A k \in Kinds : p[k] = q[k]
    BY <1>1 DEF Kinds
  <2> QED
    BY <1>1, <2>1 DEF Drawn, Picture
<1>2. CASE ~battle
  <2>1. \A k \in Kinds : [p EXCEPT !.policy = 0][k] = [q EXCEPT !.policy = 0][k]
    BY DEF Kinds, Picture
  <2>2. [p EXCEPT !.policy = 0] \in [Kinds -> Version \cup {Old}] /\ [q EXCEPT !.policy = 0] \in [Kinds -> Version \cup {Old}]
    BY DEF Picture, Version
  <2> QED
    BY <1>2, <2>1, <2>2 DEF Drawn
<1> QED
  BY <1>1, <1>2

\* A line snapshots the logs for its own row and changes nothing of the others.
LEMMA SnapshotEffect ==
  ASSUME Inductive, Snapshot
  PROVE  /\ line \in 0 .. Rows /\ Past = (IF line = 0 THEN 0 ELSE line - 1) /\ Past' = line
         /\ at = "line" /\ at' = "hdma" /\ line' = line
         /\ \A y \in 0 .. Past - 1 : /\ wants'[y] = wants[y]
                                     /\ LineRegisters(y)' = LineRegisters(y)
                                     /\ RasterCgram(y)' = RasterCgram(y)
         /\ line > 0 => /\ wants'[line - 1] = Drawn(ppu)
                        /\ LineRegisters(line - 1)' = ppu.regs
                        /\ RecordsPalettes => RasterCgram(line - 1)' = ppu.pal
<1>1. /\ line \in 0 .. Rows /\ at = "line" /\ at' = "hdma" /\ line' = line
      /\ regsLog \in [0 .. Rows -> Version \cup {Old}] /\ palLog \in [0 .. Rows -> Version \cup {Old}]
      /\ wants \in [0 .. Rows - 1 -> Picture]
  BY DEF Snapshot, Inductive, TypeOK, Line, Row, Frames
<1>2. Past = (IF line = 0 THEN 0 ELSE line - 1) /\ Past' = line
  BY <1>1 DEF Past
<1>3. ASSUME NEW y \in 0 .. Past - 1
      PROVE  y \in 0 .. Rows - 1 /\ y # line - 1 /\ y + 1 \in 0 .. Rows /\ y + 1 # line /\ line > 0
  BY <1>1, <1>2
<1>4. \A y \in 0 .. Past - 1 : /\ wants'[y] = wants[y]
                               /\ LineRegisters(y)' = LineRegisters(y)
                               /\ RasterCgram(y)' = RasterCgram(y)
  BY <1>1, <1>3 DEF Snapshot, LineRegisters, RasterCgram
<1>5. line > 0 => /\ wants'[line - 1] = Drawn(ppu)
                  /\ LineRegisters(line - 1)' = ppu.regs
                  /\ RecordsPalettes => RasterCgram(line - 1)' = ppu.pal
  BY <1>1 DEF Snapshot, LineRegisters, RasterCgram
<1> QED
  BY <1>1, <1>2, <1>4, <1>5

\* The rows that the log of a recording replays stay what they were.
LEMMA ReplayKept ==
  ASSUME Inductive, Snapshot, deferred, UNCHANGED <<battle, reference>>,
         NEW y \in 0 .. lines - 1, palettes'[y] = palettes[y]
  PROVE  wants'[y] = Replayed(y)' /\ (RecordsPalettes' => palettes'[y] = RasterCgram(y)')
<1>1. y \in 0 .. Past - 1 /\ hdma' = hdma
  BY DEF Snapshot, Inductive, Counted
<1>2. wants'[y] = wants[y] /\ LineRegisters(y)' = LineRegisters(y) /\ RasterCgram(y)' = RasterCgram(y)
  BY <1>1, SnapshotEffect
<1>3. wants[y] = Replayed(y) /\ (RecordsPalettes => palettes[y] = RasterCgram(y))
  BY DEF Inductive, Recorded
<1> QED
  BY <1>1, <1>2, <1>3 DEF Replayed, Drawn, RecordsPalettes

LEMMA DrawLineStep ==
  ASSUME Inductive, DrawLine
  PROVE  Inductive'
<1>1. /\ TypeOK /\ TypeOK' /\ Snapshot
      /\ UNCHANGED <<ppu, hdma, line, epoch, nextEpoch, menu, battle, reference, frozen, screen, lines,
                     palettes, battleEpoch, recording, deferred, prepared, clearDest, captured, base,
                     presenter>>
      /\ at = "line" /\ at' = "hdma"
  BY LineTypes DEF Inductive, DrawLine, Snapshot
<1>2. Ownership' /\ Counted' /\ Admitted'
  BY <1>1, SnapshotEffect DEF DrawLine, Inductive, Ownership, Counted, Admitted, RecordsPalettes,
     Drawing, Pending
<1>3. Certified'
  <2>1. recording => battleEpoch = 0
    BY DEF DrawLine, Inductive, Certified
  <2> QED
    BY <1>1, <2>1 DEF Inductive, Certified, PolicyCertified
<1>4. Recorded'
  BY <1>1, ReplayKept DEF Recorded
<1>5. DrawnSerially'
  <2> SUFFICES ASSUME ~deferred
               PROVE  /\ \A y \in Row : dest'[y].clear
                      /\ \A y \in 0 .. line - 1 : dest'[y].row = wants'[y]
    BY <1>1, SnapshotEffect DEF DrawnSerially
  <2>1. \A y \in Row : dest[y].clear
    BY <1>1 DEF Inductive, DrawnSerially, Drawing
  <2>2. \A y \in 0 .. Past - 1 : dest[y].row = wants[y]
    BY <1>1 DEF Inductive, DrawnSerially, Drawing
  <2>3. CASE line = 0
    BY <1>1, <2>1, <2>3 DEF DrawLine
  <2>4. CASE line > 0
    <3>1. dest' = [dest EXCEPT ![line - 1].row = Drawn(ppu)] /\ dest \in [Row -> Painted]
          /\ line - 1 \in Row
      BY <1>1, <2>4 DEF DrawLine, Serial, TypeOK, Line, Row
    <3>2. \A y \in Row : dest'[y].clear = dest[y].clear
                         /\ dest'[y].row = IF y = line - 1 THEN Drawn(ppu) ELSE dest[y].row
      BY <3>1 DEF Painted
    <3>3. \A y \in 0 .. line - 1 : y \in Row /\ (y # line - 1 => y \in 0 .. Past - 1)
      BY <1>1, <2>4, SnapshotEffect DEF Row
    <3> QED
      BY <1>1, <2>1, <2>2, <2>4, <3>2, <3>3, SnapshotEffect
  <2> QED
    BY <1>1, <2>3, <2>4, SnapshotEffect
<1>6. Carried'
  BY <1>1 DEF Carried, Pending, Inductive, Ownership
<1> QED
  BY <1>1, <1>2, <1>3, <1>4, <1>5, <1>6 DEF Inductive

LEMMA RecordLineStep ==
  ASSUME Inductive, RecordLine
  PROVE  Inductive'
<1>1. /\ TypeOK /\ TypeOK' /\ Snapshot /\ line > 0 /\ recording /\ deferred /\ PolicyHolds
      /\ UNCHANGED <<ppu, hdma, line, epoch, nextEpoch, menu, battle, reference, frozen, screen,
                     recording, deferred, prepared, clearDest, captured, base, presenter>>
      /\ at = "line" /\ at' = "hdma" /\ lines = line - 1 /\ lines' = line
      /\ Admitted
  <2>1. Snapshot /\ line > 0 /\ recording /\ deferred
    BY DEF RecordLine, Inductive, Ownership
  <2>2. lines = line - 1 /\ line \in 0 .. Rows
    BY <2>1, SnapshotEffect DEF Inductive, Counted
  <2> QED
    BY <2>1, <2>2, LineTypes DEF Inductive, RecordLine, Snapshot
<1>2. Ownership' /\ Counted' /\ Admitted'
  BY <1>1, SnapshotEffect DEF Inductive, Ownership, Counted, Admitted, RecordsPalettes,
     Drawing, Pending
<1>3. battle => ppu.policy = reference.policy
  BY <1>1 DEF PolicyHolds, Inductive, Certified
<1>4. Certified'
  <2>1. battle => battleEpoch' = nextEpoch'
    BY <1>1 DEF RecordLine, Inductive, Certified
  <2>2. line' # 0
    BY <1>1 DEF TypeOK, Line
  <2> QED
    BY <1>1, <1>3, <2>1, <2>2 DEF Inductive, Certified
<1>5. Recorded'
  <2> SUFFICES ASSUME NEW y \in 0 .. line - 1
               PROVE  wants'[y] = Replayed(y)' /\ (RecordsPalettes' => palettes'[y] = RasterCgram(y)')
    BY <1>1 DEF Recorded
  <2>1. line \in 0 .. Rows /\ y \in Row /\ line - 1 \in Row /\ palettes \in [Row -> Version \cup {Old}]
    BY <1>1 DEF TypeOK, Line, Row
  <2>2. CASE y # line - 1
    <3>1. y \in 0 .. lines - 1
      BY <1>1, <2>1, <2>2
    <3>2. palettes'[y] = palettes[y]
      BY <2>1, <2>2 DEF RecordLine
    <3> QED
      BY <1>1, <3>1, <3>2, ReplayKept
  <2>3. CASE y = line - 1
    <3>1. wants'[y] = Drawn(ppu) /\ LineRegisters(y)' = ppu.regs
          /\ (RecordsPalettes => RasterCgram(y)' = ppu.pal /\ palettes'[y] = ppu.pal)
      BY <1>1, <2>1, <2>3, SnapshotEffect DEF RecordLine
    <3> DEFINE q == [reference EXCEPT !.regs = ppu.regs,
                                      !.pal = IF RecordsPalettes THEN ppu.pal ELSE @]
    <3>2. ppu \in Picture /\ reference \in Picture /\ ppu.regs \in Version /\ ppu.pal \in Version
      BY <1>1, PictureTypes DEF TypeOK, Kinds
    <3>3. q \in Picture /\ q.regs = ppu.regs /\ q.vram = ppu.vram /\ q.pal = ppu.pal
          /\ (battle => q.policy = ppu.policy)
      BY <1>1, <1>3, <3>2 DEF Picture, Kinds, Admitted
    <3>4. Drawn(q) = Drawn(ppu)
      BY <3>2, <3>3, DrawnAlike
    <3>5. Replayed(y)' = Drawn(q)
      BY <1>1, <3>1 DEF Replayed, Drawn, RecordsPalettes
    <3> QED
      BY <1>1, <3>1, <3>4, <3>5 DEF RecordsPalettes
  <2> QED
    BY <2>2, <2>3
<1>6. DrawnSerially' /\ Carried'
  BY <1>1 DEF DrawnSerially, Carried, Pending, Inductive, Ownership
<1> QED
  BY <1>1, <1>2, <1>4, <1>5, <1>6 DEF Inductive

LEMMA AbandonLineStep ==
  ASSUME Inductive, AbandonLine
  PROVE  Inductive'
<1>1. /\ TypeOK /\ TypeOK' /\ Snapshot /\ line > 0 /\ recording /\ deferred /\ ~prepared
      /\ UNCHANGED <<ppu, hdma, line, epoch, nextEpoch, menu, battle, reference, frozen, screen,
                     prepared, presenter>>
      /\ at = "line" /\ at' = "hdma" /\ lines = Past /\ ~recording' /\ ~deferred'
  BY LineTypes DEF Inductive, AbandonLine, Snapshot, Ownership, Counted
<1>2. Ownership' /\ Counted' /\ Admitted'
  <2>1. base' = FALSE
    BY <1>1 DEF AbandonLine, Inductive, Ownership
  <2> QED
    BY <1>1, <2>1 DEF Inductive, Ownership, Counted, Admitted, Drawing, Pending
<1>3. Certified' /\ Recorded' /\ Carried'
  BY <1>1 DEF Inductive, Certified, Recorded, Carried, Pending
<1>4. DrawnSerially'
  <2>1. dest' = [Recovered EXCEPT ![line - 1].row = Drawn(ppu)] /\ Recovered \in [Row -> Painted]
        /\ line - 1 \in Row
    BY <1>1, PictureTypes DEF AbandonLine, Serial, TypeOK, Line, Row
  <2>2. \A y \in Row : dest'[y].clear = Recovered[y].clear
                       /\ dest'[y].row = IF y = line - 1 THEN Drawn(ppu) ELSE Recovered[y].row
    BY <2>1 DEF Painted
  <2>3. \A y \in 0 .. line - 1 : y \in Row /\ (y # line - 1 => y \in 0 .. Past - 1)
    BY <1>1, SnapshotEffect DEF Row
  <2>4. \A y \in Row : dest'[y].clear
    BY <1>1, <2>2, RecoveredRows
  <2>5. \A y \in 0 .. line - 1 : dest'[y].row = wants'[y]
    BY <1>1, <2>2, <2>3, RecoveredRows, SnapshotEffect
  <2> QED
    BY <1>1, <2>4, <2>5, SnapshotEffect DEF DrawnSerially
<1> QED
  BY <1>1, <1>2, <1>3, <1>4 DEF Inductive

\* Steps that only let time pass, or write what no row has recorded, leave the
\* rows alone.
LEMMA RowsKept ==
  ASSUME Inductive, UNCHANGED <<capture, settled, regsLog, palLog, hdma, wants, dest, deferred>>,
         at \in Drawing, at' \in Drawing \cup {"failed"}, Past' = Past
  PROVE  Recorded' /\ DrawnSerially'
<1>1. \A y : Replayed(y)' = Replayed(y) /\ RasterCgram(y)' = RasterCgram(y)
  BY ReplaySame
<1>2. Recorded'
  BY <1>1 DEF Inductive, Recorded, RecordsPalettes
<1>3. DrawnSerially'
  BY DEF Inductive, DrawnSerially
<1> QED
  BY <1>2, <1>3

LEMMA InterruptStep ==
  ASSUME Inductive, EnterIrq \/ LeaveIrq \/ NextLine
  PROVE  Inductive'
<1>1. /\ TypeOK /\ TypeOK' /\ at \in {"hdma", "irq", "next"} /\ at' \in Drawing
      /\ UNCHANGED <<ppu, regsLog, palLog, hdma, capture, owned, settled, frozen, screen, wants>>
      /\ line \in 0 .. Rows /\ Past = line
  BY BetweenTypes DEF Inductive, EnterIrq, LeaveIrq, NextLine, TypeOK, Line, Past, Drawing
<1>2. Past' = Past
  BY <1>1 DEF EnterIrq, LeaveIrq, NextLine, Past
<1>3. Ownership' /\ Counted' /\ Admitted'
  <2>1. at' = "end" => line' = Rows
    BY <1>1 DEF EnterIrq, LeaveIrq, NextLine
  <2> QED
    BY <1>1, <1>2, <2>1 DEF Inductive, Ownership, Counted, Admitted, RecordsPalettes, owned, Drawing,
       Pending
<1>4. Certified'
  <2>1. CASE EnterIrq
    BY <1>1, <2>1 DEF EnterIrq, Inductive, Certified, PolicyCertified, owned
  <2>2. CASE LeaveIrq
    BY <1>1, <2>2, Renewed DEF LeaveIrq, Inductive, Certified, PolicyCertified, owned
  <2>3. CASE NextLine
    BY <1>1, <2>3 DEF NextLine, Inductive, Certified, PolicyCertified, owned
  <2> QED
    BY <2>1, <2>2, <2>3
<1>5. Recorded' /\ DrawnSerially'
  BY <1>1, <1>2, RowsKept DEF owned, Drawing
<1>6. Carried'
  BY <1>1 DEF Carried, Inductive, Ownership, owned, Drawing, Pending
<1> QED
  BY <1>1, <1>3, <1>4, <1>5, <1>6 DEF Inductive

LEMMA WriteStep ==
  ASSUME Inductive, WriteRegister \/ WritePolicy \/ WriteMemory
  PROVE  Inductive'
<1>1. /\ TypeOK /\ TypeOK'
      /\ UNCHANGED <<regsLog, palLog, hdma, line, epoch, nextEpoch, at, capture, settled, frozen,
                     screen, wants>>
      /\ Past' = Past
  BY BetweenTypes DEF Inductive, WriteRegister, WritePolicy, WriteMemory, Past
<1>2. /\ WriteRegister \/ WriteMemory => ppu'.policy = ppu.policy
      /\ WriteRegister \/ WritePolicy => ppu'.vram = ppu.vram /\ ppu'.pal = ppu.pal
  BY <1>1 DEF WriteRegister, WritePolicy, WriteMemory, Changed, TypeOK, Kinds
<1>3. CASE UNCHANGED owned
  <2>1. recording => ppu'.vram = ppu.vram /\ (~RecordsPalettes => ppu'.pal = ppu.pal)
    <3>1. CASE WriteRegister \/ WritePolicy
      BY <1>2, <3>1
    <3>2. CASE WriteMemory
      <4> SUFFICES ASSUME recording, NEW k \in {"vram", "pal"}, ppu' = Changed(k),
                          (k = "vram" \/ ~RecordsPalettes) => Fallback
                   PROVE  ppu'.vram = ppu.vram /\ (~RecordsPalettes => ppu'.pal = ppu.pal)
        BY <3>2 DEF WriteMemory
      <4>1. ~Fallback
        BY <1>3, FallbackEffect DEF owned
      <4> QED
        BY <1>1, <4>1 DEF Changed, TypeOK, Kinds
    <3> QED
      BY <3>1, <3>2
  <2>2. Ownership' /\ Counted' /\ Admitted'
    BY <1>1, <1>3, <2>1 DEF Inductive, Ownership, Counted, Admitted, RecordsPalettes, owned
  <2>3. Certified'
    <3>1. recording /\ battle /\ PolicyCertified => ppu'.policy = ppu.policy
      BY <1>2 DEF WritePolicy, Inductive, Ownership, Certified, PolicyCertified, Drawing, Pending
    <3> QED
      BY <1>1, <1>3, <3>1 DEF Inductive, Certified, PolicyCertified, owned
  <2>4. Recorded' /\ DrawnSerially'
    <3>1. \A y : Replayed(y)' = Replayed(y) /\ RasterCgram(y)' = RasterCgram(y)
      BY <1>1, ReplaySame
    <3> QED
      BY <1>1, <1>3, <3>1 DEF Inductive, Recorded, DrawnSerially, RecordsPalettes, owned
  <2>5. Carried'
    BY <1>1, <1>3 DEF Inductive, Carried, owned
  <2> QED
    BY <1>1, <2>2, <2>3, <2>4, <2>5 DEF Inductive
<1>4. CASE ~UNCHANGED owned
  <2>1. Fallback /\ deferred /\ recording /\ at \in Drawing /\ WriteMemory
    BY <1>4 DEF WriteRegister, WritePolicy, WriteMemory, Inductive, Ownership
  <2>2. Ownership' /\ Counted' /\ Admitted'
    BY <1>1, <2>1, FallbackEffect DEF Inductive, Ownership, Counted, Admitted, Drawing, Pending
  <2>3. Certified' /\ Recorded' /\ Carried'
    BY <1>1, <2>1, FallbackEffect DEF Inductive, Certified, Recorded, Carried, Drawing, Pending
  <2>4. DrawnSerially'
    BY <1>1, <2>1, FallbackRows DEF DrawnSerially
  <2> QED
    BY <1>1, <2>2, <2>3, <2>4 DEF Inductive
<1> QED
  BY <1>3, <1>4

-----------------------------------------------------------------------------
(* Closing it.                                                             *)

\* Freezing a recording that is complete gives the frame that was wanted.
LEMMA FrozenRows ==
  ASSUME Inductive, recording, lines = Rows
  PROVE  [y \in Row |-> Frozen(y)] = wants
<1>1. TypeOK /\ deferred /\ Admitted
  BY DEF Inductive, Ownership
<1>2. ASSUME NEW y \in Row PROVE Frozen(y) = wants[y]
  <2>1. y \in 0 .. lines - 1
    BY DEF Row
  <2>2. wants[y] = Replayed(y) /\ (RecordsPalettes => palettes[y] = RasterCgram(y))
    BY <1>1, <2>1 DEF Inductive, Recorded
  <2> DEFINE p == [ppu EXCEPT !.regs = LineRegisters(y),
                              !.pal = IF RecordsPalettes THEN RasterCgram(y) ELSE @,
                              !.policy = reference.policy]
             q == [reference EXCEPT !.regs = LineRegisters(y),
                                    !.pal = IF RecordsPalettes THEN palettes[y] ELSE @]
  <2>3. /\ ppu \in Picture /\ reference \in Picture /\ y + 1 \in Line
        /\ LineRegisters(y) \in Version \cup {Old} /\ RasterCgram(y) \in Version \cup {Old}
        /\ palettes[y] \in Version \cup {Old} /\ reference.policy \in Version \cup {Old}
    BY <1>1, PictureTypes DEF TypeOK, LineRegisters, RasterCgram, Picture, Kinds
  <2>4. p \in Picture /\ q \in Picture
    BY <2>3 DEF Picture
  <2>5. p.regs = q.regs /\ p.vram = q.vram /\ p.pal = q.pal /\ p.policy = q.policy
    BY <1>1, <2>2, <2>3 DEF Picture, Kinds, Admitted
  <2>6. Drawn(p) = Drawn(q)
    BY <2>4, <2>5, DrawnAlike
  <2> QED
    BY <2>2, <2>6 DEF Frozen, Replayed
<1> QED
  BY <1>1, <1>2 DEF TypeOK, Frames

LEMMA EndCaptureStep ==
  ASSUME Inductive, EndCapture
  PROVE  Inductive'
<1>1. /\ TypeOK /\ TypeOK' /\ at = "end" /\ at' \in {"captured", "failed"} /\ ~recording' /\ ~prepared
      /\ UNCHANGED <<idleParts, deferred, prepared, clearDest, base, presenter, frozen, screen>>
      /\ line = Rows /\ Past = line /\ Past' = line
      /\ at' = "captured" => deferred
  BY ClosingTypes DEF Inductive, EndCapture, Ownership, Counted, Past
<1>2. at' = "captured" => captured' = wants
  BY <1>1, FrozenRows DEF EndCapture
<1>3. Ownership' /\ Counted' /\ Admitted' /\ Certified'
  BY <1>1 DEF Inductive, Ownership, Counted, Admitted, Certified, Drawing, Pending
<1>4. Recorded' /\ DrawnSerially'
  <2>1. \A y : Replayed(y)' = Replayed(y) /\ RasterCgram(y)' = RasterCgram(y)
    BY <1>1, ReplaySame
  <2> QED
    BY <1>1, <2>1 DEF Inductive, Recorded, DrawnSerially, RecordsPalettes, Drawing
<1>5. Carried'
  BY <1>1, <1>2 DEF Carried, Inductive, Ownership, Pending
<1> QED
  BY <1>1, <1>3, <1>4, <1>5 DEF Inductive

LEMMA PresentStep ==
  ASSUME Inductive, Freeze \/ PrepareFrozen \/ SubmitPresenter \/ Submitted
  PROVE  Inductive'
<1>1. /\ TypeOK /\ TypeOK' /\ at \in Pending \cup {"submitted"} /\ ~recording /\ ~recording'
      /\ UNCHANGED <<ppu, timeline, capture, settled, dest, wants, clearDest, captured>>
      /\ Past' = Past /\ Past = line /\ (at' # "shown" => line = Rows)
  <2>1. at \in Pending \cup {"submitted"} /\ at' # "line" /\ (at = "submitted" => at' = "shown")
    BY DEF Freeze, PrepareFrozen, SubmitPresenter, Submitted, Pending
  <2>2. UNCHANGED <<ppu, timeline, capture, settled, dest, wants, recording, clearDest, captured>>
    BY DEF Freeze, PrepareFrozen, SubmitPresenter, Submitted
  <2>3. ~recording
    BY <2>1 DEF Inductive, Ownership, Drawing, Pending
  <2>4. Past' = Past /\ Past = line /\ (at' # "shown" => line = Rows)
    BY <2>1, <2>2 DEF Past, Inductive, Counted, Pending
  <2> QED
    BY <2>1, <2>2, <2>3, <2>4, ClosingTypes DEF Inductive
<1>2. \A y : Replayed(y)' = Replayed(y) /\ RasterCgram(y)' = RasterCgram(y)
  BY <1>1, ReplaySame
<1>3. Admitted' /\ Certified' /\ (deferred' => Recorded')
  <2>1. at' \notin {"line", "hdma", "next", "irq", "end"}
    BY DEF Freeze, PrepareFrozen, SubmitPresenter, Submitted
  <2>2. deferred' => deferred
    BY DEF Freeze, PrepareFrozen, SubmitPresenter, Submitted
  <2> QED
    BY <1>1, <1>2, <2>1, <2>2 DEF Admitted, Certified, Inductive, Recorded, RecordsPalettes
<1>4. Counted'
  <2>1. at' \in Pending \cup {"failed", "submitted", "shown"} /\ (deferred' => deferred)
    BY DEF Freeze, PrepareFrozen, SubmitPresenter, Submitted, Pending
  <2> QED
    BY <1>1, <2>1 DEF Counted, Inductive, Pending
<1>5. CASE Freeze
  <2>1. Ownership' /\ DrawnSerially' /\ Carried'
    BY <1>1, <1>5 DEF Freeze, Inductive, Ownership, DrawnSerially, Carried, Drawing, Pending
  <2> QED
    BY <1>1, <1>3, <1>4, <2>1 DEF Inductive, Recorded
<1>6. CASE PrepareFrozen
  <2>1. Ownership' /\ DrawnSerially' /\ Carried'
    BY <1>1, <1>6 DEF PrepareFrozen, Inductive, Ownership, DrawnSerially, Carried, Drawing, Pending
  <2> QED
    BY <1>1, <1>3, <1>4, <2>1 DEF Inductive, Recorded
<1>7. CASE SubmitPresenter
  <2>0. /\ deferred /\ ~prepared' /\ presenter' = NoFrame /\ base' = base
        /\ \/ at' = "submitted" /\ ~deferred'
           \/ at' = "failed" /\ deferred'
    <3>1. deferred = TRUE
      BY <1>7 DEF SubmitPresenter, Inductive, TypeOK, Ownership, Pending
    <3> QED
      BY <1>7, <3>1 DEF SubmitPresenter
  <2>1. Ownership' /\ DrawnSerially'
    BY <1>1, <2>0 DEF Inductive, Ownership, DrawnSerially, Drawing, Pending
  <2>2. Carried'
    <3>1. presenter = wants
      BY <1>7 DEF SubmitPresenter, Inductive, Ownership, Carried, Pending
    <3>2. at' = "submitted" => \A y \in Row : screen'[y] = [row |-> wants[y], clear |-> TRUE]
      BY <1>7, <3>1 DEF SubmitPresenter
    <3> QED
      BY <1>1, <1>7, <3>2 DEF SubmitPresenter, Carried, Pending
  <2> QED
    BY <1>1, <1>3, <1>4, <2>1, <2>2 DEF Inductive, Recorded
<1>8. CASE Submitted
  <2>1. ~base' /\ ~deferred /\ ~deferred'
    BY <1>8 DEF Submitted, Inductive, Ownership, Drawing, Pending
  <2>2. Ownership' /\ DrawnSerially' /\ Carried'
    BY <1>1, <1>8, <2>1 DEF Submitted, Inductive, Ownership, DrawnSerially, Carried, Drawing, Pending
  <2> QED
    BY <1>1, <1>3, <1>4, <2>1, <2>2 DEF Inductive, Recorded
<1> QED
  BY <1>5, <1>6, <1>7, <1>8

LEMMA ShowSerialStep ==
  ASSUME Inductive, ShowSerial
  PROVE  Inductive'
<1>1. /\ TypeOK /\ TypeOK' /\ at \in {"failed"} \cup Pending /\ at' = "shown"
      /\ UNCHANGED <<ppu, timeline, capture, settled, frozen, wants>>
      /\ ~recording' /\ ~deferred' /\ ~prepared' /\ presenter' = NoFrame /\ ~base'
      /\ Past = line /\ line = Rows
  BY ClosingTypes, FallbackEffect DEF Inductive, ShowSerial, Counted, Past, Pending
<1>2. Ownership' /\ Counted' /\ Admitted' /\ Certified' /\ Recorded' /\ DrawnSerially'
  BY <1>1 DEF Ownership, Counted, Admitted, Certified, Recorded, DrawnSerially, Drawing, Pending
<1>3. ASSUME NEW y \in Row PROVE screen'[y] = [row |-> wants[y], clear |-> TRUE]
  <2>1. y \in 0 .. Past - 1
    BY <1>1 DEF Row
  <2>2. dest'[y].clear /\ dest'[y].row = wants[y]
    BY <1>1, <2>1, FallbackRows DEF ShowSerial
  <2>3. dest'[y] \in Painted /\ screen' = dest'
    BY <1>1 DEF ShowSerial, TypeOK
  <2> QED
    BY <2>2, <2>3 DEF Painted
<1>4. Carried'
  BY <1>1, <1>3 DEF Carried, Pending
<1> QED
  BY <1>1, <1>2, <1>4 DEF Inductive

LEMMA DestroyStep ==
  ASSUME Inductive, Destroy
  PROVE  Inductive'
<1>1. /\ TypeOK /\ TypeOK' /\ at' = "idle" /\ menu' = "no" /\ line' = line
      /\ ~recording' /\ ~deferred' /\ ~prepared' /\ presenter' = NoFrame /\ ~base'
  BY ClosingTypes DEF Inductive, Ownership, Destroy, Pending
<1>2. Ownership' /\ Counted' /\ Admitted' /\ Certified' /\ Recorded' /\ DrawnSerially' /\ Carried'
  BY <1>1 DEF Ownership, Counted, Admitted, Certified, Recorded, DrawnSerially, Carried, Drawing,
     Pending
<1> QED
  BY <1>1, <1>2 DEF Inductive

-----------------------------------------------------------------------------
(* The theorems.                                                           *)

LEMMA InductiveStep == Inductive /\ [Next]_vars => Inductive'
<1> SUFFICES ASSUME Inductive, [Next]_vars PROVE Inductive'
  OBVIOUS
<1>1. CASE UNCHANGED vars
  <2>1. TypeOK'
    BY <1>1, TypeStep
  <2>2. Ownership' /\ Counted' /\ Admitted' /\ Certified'
    BY <1>1 DEF vars, owned, Inductive, Ownership, Counted, Past, Admitted, Certified, PolicyCertified,
       RecordsPalettes
  <2>3. Recorded'
    BY <1>1, ReplaySame DEF vars, owned, Inductive, Recorded, RecordsPalettes
  <2>4. DrawnSerially' /\ Carried'
    BY <1>1 DEF vars, owned, Inductive, DrawnSerially, Past, Carried
  <2> QED
    BY <2>1, <2>2, <2>3, <2>4 DEF Inductive
<1> QED
  BY <1>1, OpeningStep, DrawLineStep, RecordLineStep, AbandonLineStep, InterruptStep, WriteStep,
     EndCaptureStep, PresentStep, ShowSerialStep, DestroyStep DEF Next

LEMMA InductiveHolds == Spec => []Inductive
  BY InitInductive, InductiveStep, PTL DEF Spec

\* Every variable keeps its type: a recording never has more rows than a frame.
THEOREM TypeCorrect == Spec => []TypeOK
<1>1. Inductive => TypeOK
  BY DEF Inductive
<1> QED
  BY <1>1, InductiveHolds, PTL

\* Whatever path a frame took from Begin to SubmitPresenter or Fallback, it shows
\* each row as its line would have drawn it, for any number of rows.
THEOREM FramesAreSerial == Spec => []FrameExact
<1>1. Inductive => FrameExact
  BY DEF Inductive, Carried, FrameExact
<1> QED
  BY <1>1, InductiveHolds, PTL

\* The menu's base and the presenter's frame are held exactly as long as the
\* frame they were lent to is pending.
THEOREM LoansAreReturned == Spec => []LoansReturned
<1>1. Inductive => LoansReturned
  BY DEF Inductive, Ownership, Carried, LoansReturned, Drawing, Pending
<1> QED
  BY <1>1, InductiveHolds, PTL

\* A frame that has been shown leaves nothing pending (Submitted, Fallback,
\* Destroy).
THEOREM FramesSettle == Spec => []Settled
<1>1. Inductive => Settled
  BY DEF Inductive, Ownership, Settled, Drawing, Pending
<1> QED
  BY <1>1, InductiveHolds, PTL

\* The epoch never certifies a policy that guest code has changed since, for any
\* span of the counter that is at least three (ResumeReadOnly, RecordLine).
THEOREM CertificateIsCurrent == Spec => []CertificateCurrent
<1>1. Inductive => CertificateCurrent
  BY DEF Inductive, Certified, CertificateCurrent
<1> QED
  BY <1>1, InductiveHolds, PTL
=============================================================================
