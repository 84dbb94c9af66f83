------------------------------- MODULE ObjDefer -------------------------------
(***************************************************************************)
(* Sprite rows on the helper core (src/src/lufia2_ppu_obj_defer.c), with   *)
(* the guest-thread code that drives them: the line admission spliced into *)
(* ppu_runLine (src/scripts/runtime_ppu_offload.py) and the recording that *)
(* Lufia2PpuOffload opens and closes around a frame.                       *)
(*                                                                         *)
(* Two threads share the line records and the sliver pool.  The guest      *)
(* thread selects sprites into the pool and publishes rows in line order;  *)
(* the helper rasterizes them into its own copy of the PPU's sprite row    *)
(* and copies each finished row into the capture.  Stop closes the queue,  *)
(* joins the helper and gives the row back to the PPU.                     *)
(*                                                                         *)
(* Atomicity: the fields of a record or slot are private to the guest      *)
(* thread until s_published moves, so a record write and the publication   *)
(* after its barrier are one step; each read of a shared word by the       *)
(* helper (s_published, s_closing) is a step of its own, and so are the    *)
(* two halves of Signal's effect: the store it follows and the event.      *)
(* Stop publishes without a barrier: until its Signal the helper may read  *)
(* that row's record and slots as they were at any earlier time.           *)
(***************************************************************************)
EXTENDS SpriteData

CONSTANTS
  Pool  \* slots of the sliver pool (POOL_SLIVERS, 24576)

ASSUME PoolAssumption == Pool \in Nat /\ Pool >= LineSlivers

NoLine == -1

LineRecord == [first : 0 .. Pool, count : 0 .. Pool, span : Spans \cup {{}},
               hasSprites : BOOLEAN, rowOnly : BOOLEAN]

VARIABLES
  vram,       \* the words the slivers name
  captured,   \* c->objects and c->obj_pixels, line by line
  ppuRow,     \* ppu->objBuffer; meaningless while the helper owns the row
  recording,  \* s_recording # NULL
  beam,       \* the next line ppu_runLine evaluates; rows below it are captured
  active,     \* lufia2_ppu_obj_defer_ppu # NULL
  pool, lines, used, open, published, closing,
  row,        \* s_row
  event,      \* the helper core's event register: set by sev, eaten by wfe
  late,       \* what Stop published may still be on its way to the helper
  gpc,        \* where the guest thread is
  resume,     \* what the caller of Stop does once it returns
  wpc,        \* where the helper is; "idle" when no task is submitted
  done, current,  \* the helper's locals done and *l
  serial,     \* history: the row the serial evaluator would have now, one
              \* row excepted that the helper has read too early
  wanted,     \* history: the captures the serial evaluator would have made
  trail       \* history: the row it would have left after each deferred line

guestVars  == <<vram, ppuRow, recording, beam, gpc, resume>>
queueVars  == <<active, pool, lines, used, open, published, closing, late>>
helperVars == <<row, wpc, done, current, captured>>
history    == <<serial, wanted, trail>>
vars == <<guestVars, queueVars, helperVars, event, history>>

Slivers(l) == [i \in 1 .. l.count |-> pool[l.first + i - 1]]

\* A row as Lufia2PpuObjDeferBeginLine opens it.
Opened(first, span) == [first |-> first, count |-> 0, span |-> span,
                        hasSprites |-> FALSE, rowOnly |-> FALSE]

EmptyRecord == Opened(0, {})

Init ==
  /\ vram \in [Tiles -> Words]
  /\ ppuRow = [c \in Columns |-> Backdrop]
  /\ captured = [y \in Lines |-> NoSprites]
  /\ recording = FALSE /\ beam = 0 /\ gpc = "run" /\ resume = "end"
  /\ active = FALSE
  /\ pool = [i \in 0 .. Pool - 1 |-> CHOOSE s \in Sliver : s.words = Later]
  /\ lines = [y \in Lines |-> EmptyRecord]
  /\ used = 0 /\ open = NoLine /\ published = 0
  /\ closing = FALSE /\ late = FALSE /\ event = FALSE
  /\ row = ppuRow
  /\ wpc = "idle" /\ done = 0 /\ current = EmptyRecord
  /\ serial = ppuRow /\ wanted = captured /\ trail = [y \in Lines |-> ppuRow]

-----------------------------------------------------------------------------
(* The guest thread: frames and recordings.                                *)

\* Lufia2PpuObjDeferStart resets the queue before it asks for the helper, so
\* a refused submission leaves the reset behind and nothing active.
Start ==
  /\ row' = ppuRow
  /\ used' = 0 /\ open' = NoLine /\ published' = 0 /\ closing' = FALSE
  /\ \E submitted \in BOOLEAN :
       /\ active' = submitted
       /\ wpc' = IF submitted THEN "start" ELSE wpc
  /\ UNCHANGED <<pool, lines, late, done, current>>

\* Lufia2PpuOffloadBegin, at the first line of a frame.  A menu, battle or
\* indexed capture never starts the helper.
Begin ==
  /\ gpc = "run" /\ ~recording /\ beam = 0
  /\ recording' = TRUE
  /\ Start \/ UNCHANGED <<queueVars, row, wpc, done, current>>
  /\ UNCHANGED <<vram, ppuRow, beam, gpc, resume, captured, event, history>>

\* The frame loop goes round once its rows are out.
NextFrame ==
  /\ gpc = "run" /\ beam = Rows /\ ~recording
  /\ beam' = 0
  /\ UNCHANGED <<vram, ppuRow, recording, gpc, resume, queueVars, helperVars, event, history>>

\* Mistake: the port does not look for an open recording.
WriteVramUnguarded ==
  /\ gpc = "run"
  /\ \E t \in Tiles \ PastEnd, w \in Words : vram' = [vram EXCEPT ![t] = w]
  /\ UNCHANGED <<ppuRow, recording, beam, gpc, resume, queueVars, helperVars, event, history>>

\* A write to a memory port.  With a recording open the words the captured
\* rows depend on may not change before the fallback has joined the helper.
WriteVram ==
  /\ gpc = "run" /\ ~recording
  /\ \E t \in Tiles \ PastEnd, w \in Words : vram' = [vram EXCEPT ![t] = w]
  /\ UNCHANGED <<ppuRow, recording, beam, gpc, resume, queueVars, helperVars, event, history>>

\* The words past VRAM belong to other parts of the PPU: no port guards them.
WritePastEnd ==
  /\ gpc = "run"
  /\ \E t \in PastEnd, w \in Words : vram' = [vram EXCEPT ![t] = w]
  /\ UNCHANGED <<ppuRow, recording, beam, gpc, resume, queueVars, helperVars, event, history>>

-----------------------------------------------------------------------------
(* The guest thread: one line.                                             *)

LineFits == beam < Rows /\ beam = published /\ Pool - used >= LineSlivers

\* Mistake: publish the row as soon as it is begun.
BeginLinePublished ==
  /\ gpc = "run" /\ active /\ beam < Rows /\ LineFits
  /\ \E span \in Spans :
       lines' = [lines EXCEPT ![beam] = Opened(used, span)]
  /\ open' = beam /\ published' = beam + 1
  /\ gpc' = "line"
  /\ UNCHANGED <<vram, ppuRow, recording, beam, resume, active, pool, used, closing,
                 late, helperVars, event, history>>

\* Lufia2PpuObjDeferLine admits the line: Lufia2PpuObjDeferBeginLine.
BeginLine ==
  /\ gpc = "run" /\ active /\ beam < Rows /\ LineFits
  /\ \E span \in Spans :
       lines' = [lines EXCEPT ![beam] = Opened(used, span)]
  /\ open' = beam
  /\ gpc' = "line"
  /\ UNCHANGED <<vram, ppuRow, recording, beam, resume, active, pool, used, published,
                 closing, late, helperVars, event, history>>

\* Mistake: leave the words past VRAM to the helper too.
SelectSliverLater ==
  /\ gpc = "line" /\ used - lines[open].first < LineSlivers
  /\ \E x \in Columns, t \in Tiles :
       pool' = [pool EXCEPT ![used] = [x |-> x, tile |-> t, words |-> Later]]
  /\ used' = used + 1
  /\ UNCHANGED <<guestVars, active, lines, open, published, closing, late,
                 helperVars, event, history>>

\* Lufia2PpuObjDeferSliver; the evaluator stops at LINE_SLIVERS columns.
SelectSliver ==
  /\ gpc = "line" /\ used - lines[open].first < LineSlivers
  /\ \E x \in Columns, t \in Tiles :
       pool' = [pool EXCEPT ![used] =
                  [x |-> x, tile |-> t,
                   words |-> IF t \in PastEnd THEN vram[t] ELSE Later]]
  /\ used' = used + 1
  /\ UNCHANGED <<guestVars, active, lines, open, published, closing, late,
                 helperVars, event, history>>

\* Lufia2PpuOffloadRecordLine takes the open row: Lufia2PpuObjDeferPublish.
\* The evaluator reports sprites on a line when it fetched a sliver for it.
PublishRow ==
  /\ gpc = "line"
  /\ LET count == used - lines[open].first
     IN  /\ lines' = [lines EXCEPT ![open].hasSprites = (count > 0), ![open].count = count]
         /\ serial' = Raster(serial, lines[open].span, Paints(Slivers(lines'[open]), vram))
         /\ wanted' = [wanted EXCEPT ![open] = Captured(serial', count > 0)]
         /\ trail' = [trail EXCEPT ![open] = serial']
  /\ open' = NoLine
  /\ published' = open + 1
  /\ beam' = beam + 1
  /\ gpc' = "signal"
  /\ UNCHANGED <<vram, ppuRow, recording, resume, active, pool, used, closing, late,
                 helperVars, event>>

\* Mistake: no sev after the row.
SignalRowSilent ==
  /\ gpc = "signal"
  /\ gpc' = "run"
  /\ UNCHANGED <<vram, ppuRow, recording, beam, resume, queueVars, helperVars, event, history>>

\* Signal: the barrier, then sev.
SignalRow ==
  /\ gpc = "signal"
  /\ event' = TRUE
  /\ gpc' = "run"
  /\ UNCHANGED <<vram, ppuRow, recording, beam, resume, queueVars, helperVars, history>>

\* A row the guest thread rasterizes itself, on the PPU's own row.  While a
\* recording is open RecordLine copies it, or refuses it and falls back.
SerialRow ==
  /\ gpc \in {"run", "serial"} /\ ~active /\ beam < Rows
  /\ \E span \in Spans, slivers \in Selection, takes \in BOOLEAN :
       /\ ppuRow' = Raster(ppuRow, span, Paints(slivers, vram))
       /\ serial' = Raster(serial, span, Paints(slivers, vram))
       /\ IF recording /\ takes
            THEN /\ captured' = [captured EXCEPT ![beam] = Captured(ppuRow', slivers # <<>>)]
                 /\ wanted' = [wanted EXCEPT ![beam] = Captured(serial', slivers # <<>>)]
                 /\ UNCHANGED recording
            ELSE recording' = FALSE /\ UNCHANGED <<captured, wanted>>
  /\ beam' = beam + 1
  /\ gpc' = "run"
  /\ UNCHANGED <<vram, resume, queueVars, row, wpc, done, current, event, trail>>

-----------------------------------------------------------------------------
(* The guest thread: Lufia2PpuObjDeferStop and what its callers do next:    *)
(* "serial" (the line was not admitted), "draw" (RecordLine fell back),     *)
(* "write" (a memory port was about to change) and "end" (EndCapture or     *)
(* Destroy).                                                               *)

Resume == {"serial", "draw", "write", "end"}

\* Mistake: the open row is dropped instead of handed over.
StopDropsOpenRow(next) ==
  /\ active' = FALSE
  /\ open' = NoLine
  /\ serial' = IF open = NoLine THEN serial
               ELSE LET l == [lines[open] EXCEPT !.count = used - lines[open].first]
                    IN  Raster(serial, l.span, Paints(Slivers(l), vram))
  /\ gpc' = "close" /\ resume' = next
  /\ UNCHANGED <<vram, ppuRow, beam, pool, lines, used, published, closing, late,
                 helperVars, event, wanted, trail>>

\* Clear the PPU pointer and hand the helper the row nobody took.  No
\* barrier separates the row's last fields from s_published here.
Stop(next) ==
  /\ active' = FALSE
  /\ IF open # NoLine
       THEN /\ lines' = [lines EXCEPT ![open].rowOnly = TRUE,
                                      ![open].count = used - lines[open].first]
            /\ published' = open + 1
            /\ open' = NoLine
            /\ serial' = Raster(serial, lines[open].span, Paints(Slivers(lines'[open]), vram))
            /\ trail' = [trail EXCEPT ![open] = serial']
            /\ wanted' = [wanted EXCEPT ![open] = captured[open]]
            /\ late' = TRUE
       ELSE UNCHANGED <<lines, published, open, serial, trail, wanted, late>>
  /\ gpc' = "close" /\ resume' = next
  /\ UNCHANGED <<vram, ppuRow, beam, pool, used, closing, helperVars, event>>

\* Not admitted: it does not fit, or a host layer needs the serial row.
RefuseLine ==
  /\ gpc = "run" /\ active /\ beam < Rows
  /\ Stop("serial")
  /\ UNCHANGED recording

\* RecordLine falls back with the line open; the line is then drawn serially.
FallBackRow == gpc = "line" /\ Stop("draw") /\ recording' = FALSE

\* Lufia2PpuOffloadBeforeMemoryWrite falls back, then lets the write through.
FallBackWrite == gpc = "run" /\ active /\ Stop("write") /\ recording' = FALSE

\* Lufia2PpuOffloadEndCapture, or Destroy in mid-frame.
EndCapture == gpc = "run" /\ active /\ Stop("end") /\ recording' = FALSE

\* Falling back and ending a capture when no helper runs: Stop returns at once.
EndRecording ==
  /\ gpc = "run" /\ recording /\ ~active
  /\ recording' = FALSE
  /\ UNCHANGED <<vram, ppuRow, beam, gpc, resume, queueVars, helperVars, event, history>>

CloseQueue ==
  /\ gpc = "close"
  /\ closing' = TRUE
  /\ gpc' = "fence"
  /\ UNCHANGED <<vram, ppuRow, recording, beam, resume, active, pool, lines, used,
                 open, published, late, helperVars, event, history>>

SignalClose ==
  /\ gpc = "fence"
  /\ late' = FALSE /\ event' = TRUE
  /\ gpc' = "join"
  /\ UNCHANGED <<vram, ppuRow, recording, beam, resume, active, pool, lines, used,
                 open, published, closing, helperVars, history>>

\* snesrecomp_task_wait returns, and the PPU has its row again.
Join ==
  /\ gpc = "join" /\ wpc = "exited"
  /\ wpc' = "idle"
  /\ ppuRow' = row
  /\ gpc' = resume
  /\ UNCHANGED <<vram, recording, beam, resume, queueVars, row, done, current,
                 captured, event, history>>

\* The fallen-back line is drawn from the row that came back.
DrawFallenBack ==
  /\ gpc = "draw"
  /\ beam' = beam + 1 /\ gpc' = "run"
  /\ UNCHANGED <<vram, ppuRow, recording, resume, queueVars, helperVars, event, history>>

\* EndCapture freezes the rows it joined.
FreezeCapture ==
  /\ gpc = "end"
  /\ gpc' = "run"
  /\ UNCHANGED <<vram, ppuRow, recording, beam, resume, queueVars, helperVars, event,
                 history>>

WriteFallenBack ==
  /\ gpc = "write"
  /\ \E t \in Tiles \ PastEnd, w \in Words : vram' = [vram EXCEPT ![t] = w]
  /\ gpc' = "run"
  /\ UNCHANGED <<ppuRow, recording, beam, resume, queueVars, helperVars, event, history>>

-----------------------------------------------------------------------------
(* The helper: Worker.                                                     *)

ownVars == <<guestVars, queueVars, history>>   \* what no helper step changes

WorkerStart ==
  /\ wpc = "start"
  /\ done' = 0 /\ wpc' = "poll"
  /\ UNCHANGED <<ownVars, row, current, captured, event>>

\* const uint32_t ready = s_published.
PollPublished ==
  /\ wpc = "poll"
  /\ wpc' = IF done < published THEN "raster" ELSE "closing"
  /\ UNCHANGED <<ownVars, row, done, current, captured, event>>

\* Rasterize, onto s_row.
RasterizeRow ==
  /\ wpc = "raster"
  /\ current' = lines[done]
  /\ row' = Raster(row, current'.span, Paints(Slivers(current'), vram))
  /\ wpc' = "record"
  /\ UNCHANGED <<ownVars, done, captured, event>>

\* Rasterize of a row whose record and slots are still on their way: they may
\* be those of any earlier row, so the pixels may be any.  The history takes
\* the row over as it is.
RasterizeEarly ==
  /\ wpc = "raster" /\ late /\ done = published - 1
  /\ \E hasSprites, rowOnly \in BOOLEAN :
       current' = [lines[done] EXCEPT !.hasSprites = hasSprites, !.rowOnly = rowOnly]
  /\ row' \in [Columns -> Words]
  /\ serial' = row' /\ trail' = [trail EXCEPT ![done] = row']
  /\ wanted' = [wanted EXCEPT ![done] =
                  IF current'.rowOnly THEN @ ELSE Captured(row', current'.hasSprites)]
  /\ wpc' = "record"
  /\ UNCHANGED <<guestVars, queueVars, done, captured, event>>

\* Record, unless the row only serves the history of s_row.
RecordRow ==
  /\ wpc = "record"
  /\ captured' = IF current.rowOnly THEN captured
                 ELSE [captured EXCEPT ![done] = Captured(row, current.hasSprites)]
  /\ done' = done + 1
  /\ wpc' = "poll"
  /\ current' = EmptyRecord
  /\ UNCHANGED <<ownVars, row, event>>

\* if (s_closing), else Pause.
PollClosing ==
  /\ wpc = "closing"
  /\ wpc' = IF closing THEN "last" ELSE "pause"
  /\ UNCHANGED <<ownVars, row, done, current, captured, event>>

\* Mistake: leave on the close, without looking for a last row.
PollLastLeaves ==
  /\ wpc = "last"
  /\ wpc' = "exited"
  /\ UNCHANGED <<ownVars, row, done, current, captured, event>>

\* Mistake: compare with the row after the last one.
PollLastBeyond ==
  /\ wpc = "last"
  /\ wpc' = IF done = published + 1 THEN "exited" ELSE "poll"
  /\ UNCHANGED <<ownVars, row, done, current, captured, event>>

\* if (done == s_published) break.
PollLast ==
  /\ wpc = "last"
  /\ wpc' = IF done = published THEN "exited" ELSE "poll"
  /\ UNCHANGED <<ownVars, row, done, current, captured, event>>

\* wfe: returns at once, and clears the register, if an event is pending.
Pause ==
  /\ wpc = "pause" /\ event
  /\ event' = FALSE
  /\ wpc' = "poll"
  /\ UNCHANGED <<ownVars, row, done, current, captured>>

-----------------------------------------------------------------------------
GuestStep == CloseQueue \/ SignalClose \/ Join \/ SignalRow \/ DrawFallenBack
             \/ WriteFallenBack \/ FreezeCapture

Helper == WorkerStart \/ PollPublished \/ RasterizeRow \/ RasterizeEarly \/ RecordRow
          \/ PollClosing \/ PollLast \/ Pause

Next ==
  \/ Begin \/ NextFrame \/ WriteVram \/ WritePastEnd
  \/ BeginLine \/ SelectSliver \/ PublishRow \/ SerialRow
  \/ RefuseLine \/ FallBackRow \/ FallBackWrite \/ EndCapture \/ EndRecording
  \/ GuestStep \/ Helper

Spec == Init /\ [][Next]_vars

\* Both cores keep running: the helper takes its next step while it has one,
\* and the guest thread finishes a Signal or a Stop it has begun.
FairSpec == Spec /\ WF_vars(GuestStep) /\ WF_vars(Helper)

-----------------------------------------------------------------------------
(* Properties.                                                             *)

Idle == "idle"

TypeOK ==
  /\ vram \in [Tiles -> Words]
  /\ recording \in BOOLEAN /\ beam \in 0 .. Rows
  /\ gpc \in {"run", "line", "signal", "close", "fence", "join"} \cup Resume
  /\ resume \in Resume
  /\ active \in BOOLEAN /\ closing \in BOOLEAN /\ event \in BOOLEAN /\ late \in BOOLEAN
  /\ pool \in [0 .. Pool - 1 -> Sliver]
  /\ lines \in [Lines -> LineRecord]
  /\ used \in 0 .. Pool /\ open \in Lines \cup {NoLine} /\ published \in 0 .. Rows
  /\ wpc \in {"idle", "start", "poll", "raster", "record", "closing", "last", "pause",
             "exited"}
  /\ done \in 0 .. Rows
  /\ current \in LineRecord

\* The helper holds a submitted task.
Running == wpc # Idle

\* Rows published and not yet recorded by the helper.
Pending == IF Running THEN (IF wpc = "start" THEN 0 ELSE done) .. published - 1 ELSE {}

\* The two threads never meet in memory: the row the helper works on is
\* published and never the open one, its pool slots were filled before the
\* open row's, and nothing but the late stores of Stop writes a published row.
NoSharedRow ==
  /\ wpc \in {"raster", "record"} => done < published /\ done # open
  /\ Running /\ open # NoLine =>
       /\ open = published
       /\ \A y \in Pending : lines[y].first + lines[y].count <= lines[open].first

\* The helper is gone, and every row it was given is in the capture, when the
\* guest thread is past Stop: the fallback replays and the freeze copies rows
\* no one is still writing, each as serial evaluation would have left it.
CaptureExact ==
  ~Running /\ (recording \/ gpc \in Resume) =>
    \A y \in 0 .. beam - 1 : captured[y] = wanted[y]

\* The row handed back is the one serial evaluation would have reached,
\* with the pixels outside every cleared span; of a row that Stop published and
\* the helper read before Stop's barrier, the one that the helper made of it.
LiveRowExact == ~Running => ppuRow = serial

\* No row is read before it is whole.  The code does not promise it: Stop has
\* no barrier before its publication (ObjDeferLate.cfg).
EveryRowExact == [][wpc = "raster" /\ wpc' = "record" => row' = trail[done]]_vars

\* A word some waiting sliver still has to read may not change under it.
SourceStable ==
  [][\A y \in Pending : \A i \in DOMAIN Slivers(lines[y]) :
        LET sliver == Slivers(lines[y])[i]
        IN  Decode(sliver, vram') = Decode(sliver, vram)]_vram

\* The helper runs exactly while rows are deferred or a Stop is under way.
HelperOwned ==
  Running <=> active \/ gpc \in {"close", "fence", "join"}

\* Stop always comes back: the helper sees the close however it races its wait.
StopReturns == gpc \in {"close", "fence", "join"} ~> gpc \in {"run"} \cup Resume

\* A published row is drawn without any further call from the guest thread.
RowsDrawn == \A y \in Lines : (Running /\ y \in Pending) ~> (y \notin Pending)

\* The rows the helper has rasterized: the record step has not counted the
\* last of them yet.
Rastered ==
  CASE wpc = "start" -> 0 [] wpc = "record" -> done + 1 [] OTHER -> done

Stopping == gpc \in {"close", "fence", "join"}

\* What makes the two properties above inductive.  Control: where each
\* thread can be, and how far the queue and the beam agree.
Control ==
  /\ active => recording /\ ~closing /\ gpc \in {"run", "line", "signal"}
  /\ gpc \in {"line", "signal"} => active
  /\ Stopping => ~recording \/ resume = "serial"
  /\ gpc \in {"draw", "write", "end"} => ~recording
  /\ open # NoLine <=> gpc = "line"
  /\ active => published = beam
  /\ gpc = "line" => open = beam
  /\ Stopping => published = IF resume = "draw" THEN beam + 1 ELSE beam
  /\ gpc \in {"line", "draw", "serial"} => beam < Rows
  /\ Stopping /\ resume \in {"draw", "serial"} => beam < Rows
  /\ Running /\ wpc # "start" => done <= published
  /\ wpc \in {"raster", "record"} => done < published
  /\ wpc \in {"last", "exited"} => closing
  /\ wpc = "exited" => done = published
  /\ Running /\ closing => gpc \in {"fence", "join"}
  /\ late => gpc \in {"close", "fence"} /\ resume = "draw"

\* The pool: the open row has room for a full line, every waiting row lies
\* below it, and words past VRAM were read at selection.
PoolOrder ==
  /\ open # NoLine =>
       /\ lines[open].first <= used /\ used - lines[open].first <= LineSlivers
       /\ lines[open].first + LineSlivers <= Pool
       /\ lines[open].count = 0 /\ ~lines[open].rowOnly
  /\ \A y \in Pending :
       /\ lines[y].first + lines[y].count <= (IF open = NoLine THEN used ELSE lines[open].first)
       /\ lines[y].rowOnly <=> Stopping /\ resume = "draw" /\ y = beam
  /\ \A i \in 0 .. used - 1 : pool[i].tile \in PastEnd => pool[i].words # Later

Painted(y) == Paints(Slivers(lines[y]), vram)

\* The row chain: each waiting row continues from the one before it, the
\* first of them from the row the helper holds.
Chain ==
  /\ DOMAIN trail = Lines /\ DOMAIN wanted = Lines /\ DOMAIN captured = Lines
  /\ Running =>
       /\ \A y \in Rastered .. published - 1 :
            trail[y] = Raster(IF y = Rastered THEN row ELSE trail[y - 1],
                              lines[y].span, Painted(y))
       /\ serial = IF Rastered < published THEN trail[published - 1] ELSE row
  /\ wpc = "record" =>
       /\ row = trail[done]
       /\ wanted[done] = IF current.rowOnly THEN captured[done]
                         ELSE Captured(row, current.hasSprites)
  /\ \A y \in Rastered .. published - 1 : Running =>
       wanted[y] = IF lines[y].rowOnly THEN captured[y]
                   ELSE Captured(trail[y], lines[y].hasSprites)

\* What has been recorded is right, row by row.
Recorded ==
  recording \/ Stopping \/ gpc \in Resume =>
    \A y \in 0 .. beam - 1 : y \notin Pending => captured[y] = wanted[y]

Inductive ==
  TypeOK /\ Control /\ HelperOwned /\ PoolOrder
  /\ Chain /\ Recorded /\ LiveRowExact

\* With the helper hidden, deferral is the serial evaluator: the row it would
\* have, and the capture with every row still waiting already in it.
LiveRow == IF Running THEN serial ELSE ppuRow
Taken == [y \in Lines |-> IF y \in Pending THEN wanted[y] ELSE captured[y]]
HandedOver == late /\ Rastered < published

Serial == INSTANCE SpriteRows WITH
  liveRow <- LiveRow, captured <- Taken, handed <- HandedOver

ImplementsSerial == Serial!SRSpec
=============================================================================
