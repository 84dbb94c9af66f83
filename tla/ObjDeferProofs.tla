--------------------------- MODULE ObjDeferProofs ---------------------------
(***************************************************************************)
(* Deferring sprite rows, in three parts: who owns what in the queue; that *)
(* the rows drawn are the serial ones; that the whole implements the       *)
(* serial evaluator.                                                       *)
(*                                                                         *)
(* First the types, the positions of the two threads, the queue and the    *)
(* pool.  Queue is inductive; it holds whatever order the helper sees the  *)
(* guest thread's stores in.                                               *)
(***************************************************************************)
EXTENDS ObjDefer, TLAPS

Queue == TypeOK /\ Control /\ HelperOwned /\ PoolOrder

USE RowsAssumption, DataAssumption, PoolAssumption
    DEF vars, guestVars, queueVars, helperVars, history, ownVars

\* A record nobody has filled yet is a line record.
LEMMA EmptyRecordType == EmptyRecord \in LineRecord
  BY DEF EmptyRecord, Opened, LineRecord

\* Closing a row (PublishRow, Stop) and seeing it late keep its type.
LEMMA RecordUpdate ==
  ASSUME NEW l \in LineRecord, NEW n \in 0 .. Pool, NEW b \in BOOLEAN
  PROVE  /\ [l EXCEPT !.rowOnly = b, !.count = n] \in LineRecord
         /\ [l EXCEPT !.count = n, !.rowOnly = b] \in LineRecord
         /\ [l EXCEPT !.hasSprites = b, !.count = n] \in LineRecord
  BY DEF LineRecord

\* Every step keeps the types.  The sums to watch are the pool's (SelectSliver)
\* and the published row's (PublishRow, Stop).
LEMMA TypeStep ==
  ASSUME Queue, [Next]_vars
  PROVE  TypeOK'
<1>1. CASE Begin
  <2>1. CASE Start
    <3>1. active' \in BOOLEAN /\ wpc' \in {"start", wpc}
      BY <2>1 DEF Start
    <3>2. /\ used' = 0 /\ open' = NoLine /\ published' = 0 /\ closing' = FALSE
          /\ UNCHANGED <<pool, lines, late, done, current, vram, beam, gpc, resume, event>>
          /\ recording' = TRUE
      BY <1>1, <2>1 DEF Begin, Start
    <3>3. 0 \in 0 .. Pool /\ 0 \in 0 .. Rows
      OBVIOUS
    <3>. QED
      BY <3>1, <3>2, <3>3 DEF Queue, TypeOK
  <2>2. CASE UNCHANGED <<queueVars, row, wpc, done, current>>
    BY <1>1, <2>2 DEF Begin, Queue, TypeOK
  <2>. QED
    BY <1>1, <2>1, <2>2 DEF Begin
<1>2. CASE NextFrame
  BY <1>2 DEF NextFrame, Queue, TypeOK, Lines, NoLine, Resume
<1>3. CASE WriteVram
  BY <1>3 DEF WriteVram, Queue, TypeOK, Lines, NoLine, Resume
<1>4. CASE WritePastEnd
  BY <1>4 DEF WritePastEnd, Queue, TypeOK, Lines, NoLine, Resume
<1>5. CASE BeginLine
  <2>1. PICK span \in Spans : lines' = [lines EXCEPT ![beam] = Opened(used, span)]
    BY <1>5 DEF BeginLine
  <2>2. Opened(used, span) \in LineRecord
    BY <2>1 DEF Opened, LineRecord, Queue, TypeOK
  <2>3. lines' \in [Lines -> LineRecord]
    BY <2>1, <2>2 DEF Queue, TypeOK
  <2>. QED
    BY <1>5, <2>3 DEF BeginLine, LineFits, Queue, TypeOK, Lines, NoLine, Resume
<1>6. CASE SelectSliver
  <2>1. PICK x \in Columns, t \in Tiles :
          pool' = [pool EXCEPT ![used] =
                    [x |-> x, tile |-> t, words |-> IF t \in PastEnd THEN vram[t] ELSE Later]]
    BY <1>6 DEF SelectSliver
  <2>2. [x |-> x, tile |-> t, words |-> IF t \in PastEnd THEN vram[t] ELSE Later] \in Sliver
    BY DEF Sliver, Queue, TypeOK
  <2>3. open \in Lines /\ open # NoLine /\ lines[open] \in LineRecord
    BY <1>6 DEF SelectSliver, Queue, TypeOK, Control, Lines, NoLine
  <2>4. lines[open].first \in 0 .. Pool /\ lines[open].first + LineSlivers <= Pool
    BY <2>3 DEF LineRecord, Queue, PoolOrder
  <2>5. used + 1 \in 0 .. Pool /\ used \in 0 .. Pool - 1
    BY <1>6, <2>4 DEF SelectSliver, Queue, TypeOK
  <2>6. pool' \in [0 .. Pool - 1 -> Sliver]
    BY <2>1, <2>2 DEF Queue, TypeOK
  <2>. QED
    BY <1>6, <2>5, <2>6 DEF SelectSliver, Queue, TypeOK, Lines, NoLine, Resume
<1>7. CASE PublishRow
  <2>1. open \in Lines /\ open = beam /\ lines[open] \in LineRecord
    BY <1>7 DEF PublishRow, Queue, TypeOK, Control, Lines, NoLine
  <2>2. used - lines[open].first \in 0 .. Pool
    BY <1>7, <2>1 DEF PublishRow, Queue, TypeOK, Control, PoolOrder, LineRecord, NoLine,
                      Lines
  <2>3. lines' \in [Lines -> LineRecord]
    <3>1. lines' = [lines EXCEPT ![open] =
                      [lines[open] EXCEPT !.hasSprites = (used - lines[open].first > 0),
                                          !.count = used - lines[open].first]]
      BY <1>7 DEF PublishRow
    <3>2. [lines[open] EXCEPT !.hasSprites = (used - lines[open].first > 0),
                              !.count = used - lines[open].first] \in LineRecord
      <4>1. (used - lines[open].first > 0) \in BOOLEAN
        OBVIOUS
      <4>. QED
        BY <4>1, <2>1, <2>2, RecordUpdate, Zenon
    <3>. QED
      BY <3>1, <3>2, <2>1 DEF Queue, TypeOK
  <2>4. beam' \in 0 .. Rows /\ published' \in 0 .. Rows
    BY <1>7, <2>1 DEF PublishRow, Queue, TypeOK, Lines
  <2>. QED
    BY <1>7, <2>3, <2>4 DEF PublishRow, Queue, TypeOK, Lines, NoLine, Resume
<1>8. CASE SerialRow
  <2>1. recording' \in BOOLEAN /\ beam' = beam + 1 /\ beam < Rows /\ gpc' = "run"
    BY <1>8 DEF SerialRow, Queue, TypeOK
  <2>2. UNCHANGED <<vram, resume, queueVars, row, wpc, done, current, event>>
    BY <1>8 DEF SerialRow
  <2>. QED
    BY <2>1, <2>2 DEF Queue, TypeOK, Lines, NoLine, Resume
<1>9. CASE RefuseLine
  <2>1. open = NoLine
    BY <1>9 DEF RefuseLine, Queue, Control
  <2>. QED
    BY <1>9, <2>1 DEF RefuseLine, Stop, Queue, TypeOK, Lines, NoLine, Resume
<1>10. CASE FallBackRow
  <2>1. open \in Lines /\ open # NoLine /\ lines[open] \in LineRecord
    BY <1>10 DEF FallBackRow, Queue, TypeOK, Control, Lines, NoLine
  <2>2. used - lines[open].first \in 0 .. Pool
    BY <2>1 DEF Queue, TypeOK, PoolOrder, LineRecord, NoLine, Lines
  <2>3. lines' \in [Lines -> LineRecord]
    <3>1. lines' = [lines EXCEPT ![open] =
                      [lines[open] EXCEPT !.rowOnly = TRUE,
                                          !.count = used - lines[open].first]]
      BY <1>10, <2>1 DEF FallBackRow, Stop
    <3>. QED
      BY <3>1, <2>1, <2>2, RecordUpdate DEF Queue, TypeOK
  <2>4. published' \in 0 .. Rows /\ open' = NoLine /\ late' \in BOOLEAN
    BY <1>10, <2>1 DEF FallBackRow, Stop, Queue, TypeOK, Lines
  <2>. QED
    BY <1>10, <2>3, <2>4 DEF FallBackRow, Stop, Queue, TypeOK, Lines, NoLine, Resume
<1>11. CASE FallBackWrite
  <2>1. open = NoLine
    BY <1>11 DEF FallBackWrite, Queue, Control
  <2>. QED
    BY <1>11, <2>1 DEF FallBackWrite, Stop, Queue, TypeOK, Lines, NoLine, Resume
<1>12. CASE EndCapture
  <2>1. open = NoLine
    BY <1>12 DEF EndCapture, Queue, Control
  <2>. QED
    BY <1>12, <2>1 DEF EndCapture, Stop, Queue, TypeOK, Lines, NoLine, Resume
<1>13. CASE EndRecording
  BY <1>13 DEF EndRecording, Queue, TypeOK
<1>14. CASE CloseQueue
  BY <1>14 DEF CloseQueue, Queue, TypeOK, Lines, NoLine, Resume
<1>15. CASE SignalClose
  BY <1>15 DEF SignalClose, Queue, TypeOK, Lines, NoLine, Resume
<1>16. CASE Join
  BY <1>16 DEF Join, Queue, TypeOK, Lines, NoLine, Resume
<1>17. CASE SignalRow
  BY <1>17 DEF SignalRow, Queue, TypeOK, Lines, NoLine, Resume
<1>18. CASE DrawFallenBack
  BY <1>18 DEF DrawFallenBack, Queue, TypeOK, Control
<1>19. CASE WriteFallenBack
  BY <1>19 DEF WriteFallenBack, Queue, TypeOK, Lines, NoLine, Resume
<1>20. CASE FreezeCapture
  BY <1>20 DEF FreezeCapture, Queue, TypeOK, Lines, NoLine, Resume
<1>21. CASE WorkerStart
  BY <1>21 DEF WorkerStart, Queue, TypeOK, Lines, NoLine, Resume
<1>22. CASE PollPublished
  BY <1>22 DEF PollPublished, Queue, TypeOK, Lines, NoLine, Resume
<1>23. CASE RasterizeRow
  <2>1. done \in Lines /\ lines[done] \in LineRecord
    BY <1>23 DEF RasterizeRow, Queue, TypeOK, Control, Lines, Running, Idle
  <2>. QED
    BY <1>23, <2>1 DEF RasterizeRow, Queue, TypeOK, Lines, NoLine, Resume
<1>23a. CASE RasterizeEarly
  <2>1. done \in Lines /\ lines[done] \in LineRecord
    BY <1>23a DEF RasterizeEarly, Queue, TypeOK, Control, Lines, Running, Idle
  <2>2. current' \in LineRecord
    BY <1>23a, <2>1 DEF RasterizeEarly, LineRecord
  <2>. QED
    BY <1>23a, <2>2 DEF RasterizeEarly, Queue, TypeOK, Lines, NoLine, Resume
<1>24. CASE RecordRow
  <2>1. done' \in 0 .. Rows
    BY <1>24 DEF RecordRow, Queue, TypeOK, Control, Running, Idle
  <2>. QED
    BY <1>24, <2>1, EmptyRecordType DEF RecordRow, Queue, TypeOK, Lines, NoLine, Resume
<1>25. CASE PollClosing
  BY <1>25 DEF PollClosing, Queue, TypeOK, Lines, NoLine, Resume
<1>26. CASE PollLast
  BY <1>26 DEF PollLast, Queue, TypeOK, Lines, NoLine, Resume
<1>27. CASE Pause
  BY <1>27 DEF Pause, Queue, TypeOK, Lines, NoLine, Resume
<1>28. CASE UNCHANGED vars
  BY <1>28 DEF Queue, TypeOK, Lines, NoLine, Resume
<1>. QED
  BY <1>1, <1>2, <1>3, <1>4, <1>5, <1>6, <1>7, <1>8, <1>9, <1>10, <1>11, 
     <1>12, <1>13, <1>14, <1>15, <1>16, <1>17, <1>18, <1>19, <1>20, <1>21, 
     <1>22, <1>23, <1>23a, <1>24, <1>25, <1>26, <1>27, <1>28
     DEF Next, GuestStep, Helper

\* Every step keeps the two threads' positions in step: the helper runs
\* exactly from Start to Join, and leaves with every row recorded.
LEMMA ControlStep ==
  ASSUME Queue, [Next]_vars
  PROVE  Control' /\ HelperOwned'
<1>1. CASE Begin
  BY <1>1 DEF Begin, Start, Queue, TypeOK, Control, HelperOwned, Stopping, Lines,
              NoLine, Resume, Running, Idle
<1>2. CASE NextFrame
  BY <1>2 DEF NextFrame, Queue, TypeOK, Control, HelperOwned, Stopping, Lines, NoLine,
              Resume, Running, Idle
<1>3. CASE WriteVram
  BY <1>3 DEF WriteVram, Queue, TypeOK, Control, HelperOwned, Stopping, Lines, NoLine,
              Resume, Running, Idle
<1>4. CASE WritePastEnd
  BY <1>4 DEF WritePastEnd, Queue, TypeOK, Control, HelperOwned, Stopping, Lines,
              NoLine, Resume, Running, Idle
<1>5. CASE BeginLine
  BY <1>5 DEF BeginLine, LineFits, Queue, TypeOK, Control, HelperOwned, Stopping, Lines,
              NoLine, Resume, Running, Idle
<1>6. CASE SelectSliver
  BY <1>6 DEF SelectSliver, Queue, TypeOK, Control, HelperOwned, Stopping, Lines,
              NoLine, Resume, Running, Idle
<1>7. CASE PublishRow
  BY <1>7 DEF PublishRow, Queue, TypeOK, Control, HelperOwned, Stopping, Lines, NoLine,
              Resume, Running, Idle
<1>8. CASE SerialRow
  BY <1>8 DEF SerialRow, Queue, TypeOK, Control, HelperOwned, Stopping, Lines, NoLine,
              Resume, Running, Idle
<1>9. CASE RefuseLine
  BY <1>9 DEF RefuseLine, Stop, Queue, TypeOK, Control, HelperOwned, Stopping, Lines,
              NoLine, Resume, Running, Idle
<1>10. CASE FallBackRow
  BY <1>10 DEF FallBackRow, Stop, Queue, TypeOK, Control, HelperOwned, Stopping, Lines,
               NoLine, Resume, Running, Idle
<1>11. CASE FallBackWrite
  BY <1>11 DEF FallBackWrite, Stop, Queue, TypeOK, Control, HelperOwned, Stopping,
               Lines, NoLine, Resume, Running, Idle
<1>12. CASE EndCapture
  BY <1>12 DEF EndCapture, Stop, Queue, TypeOK, Control, HelperOwned, Stopping, Lines,
               NoLine, Resume, Running, Idle
<1>13. CASE EndRecording
  BY <1>13 DEF EndRecording, Queue, TypeOK, Control, HelperOwned, Stopping, Lines,
               NoLine, Resume, Running, Idle
<1>14. CASE CloseQueue
  BY <1>14 DEF CloseQueue, Queue, TypeOK, Control, HelperOwned, Stopping, Lines, NoLine,
               Resume, Running, Idle
<1>15. CASE SignalClose
  BY <1>15 DEF SignalClose, Queue, TypeOK, Control, HelperOwned, Stopping, Lines,
               NoLine, Resume, Running, Idle
<1>16. CASE Join
  BY <1>16 DEF Join, Queue, TypeOK, Control, HelperOwned, Stopping, Lines, NoLine,
               Resume, Running, Idle
<1>17. CASE SignalRow
  BY <1>17 DEF SignalRow, Queue, TypeOK, Control, HelperOwned, Stopping, Lines, NoLine,
               Resume, Running, Idle
<1>18. CASE DrawFallenBack
  BY <1>18 DEF DrawFallenBack, Queue, TypeOK, Control, HelperOwned, Stopping, Lines,
               NoLine, Resume, Running, Idle
<1>19. CASE WriteFallenBack
  BY <1>19 DEF WriteFallenBack, Queue, TypeOK, Control, HelperOwned, Stopping, Lines,
               NoLine, Resume, Running, Idle
<1>20. CASE FreezeCapture
  BY <1>20 DEF FreezeCapture, Queue, TypeOK, Control, HelperOwned, Stopping, Lines,
               NoLine, Resume, Running, Idle
<1>21. CASE WorkerStart
  BY <1>21 DEF WorkerStart, Queue, TypeOK, Control, HelperOwned, Stopping, Lines,
               NoLine, Resume, Running, Idle
<1>22. CASE PollPublished
  BY <1>22 DEF PollPublished, Queue, TypeOK, Control, HelperOwned, Stopping, Lines,
               NoLine, Resume, Running, Idle
<1>23. CASE RasterizeRow
  BY <1>23 DEF RasterizeRow, Queue, TypeOK, Control, HelperOwned, Stopping, Lines,
               NoLine, Resume, Running, Idle
<1>23a. CASE RasterizeEarly
  BY <1>23a DEF RasterizeEarly, Queue, TypeOK, Control, HelperOwned, Stopping, Lines,
                NoLine, Resume, Running, Idle
<1>24. CASE RecordRow
  BY <1>24 DEF RecordRow, Queue, TypeOK, Control, HelperOwned, Stopping, Lines, NoLine,
               Resume, Running, Idle
<1>25. CASE PollClosing
  BY <1>25 DEF PollClosing, Queue, TypeOK, Control, HelperOwned, Stopping, Lines,
               NoLine, Resume, Running, Idle
<1>26. CASE PollLast
  BY <1>26 DEF PollLast, Queue, TypeOK, Control, HelperOwned, Stopping, Lines, NoLine,
               Resume, Running, Idle
<1>27. CASE Pause
  BY <1>27 DEF Pause, Queue, TypeOK, Control, HelperOwned, Stopping, Lines, NoLine,
               Resume, Running, Idle
<1>28. CASE UNCHANGED vars
  BY <1>28 DEF Queue, TypeOK, Control, HelperOwned, Stopping, Lines, NoLine, Resume,
               Running, Idle
<1>. QED
  BY <1>1, <1>2, <1>3, <1>4, <1>5, <1>6, <1>7, <1>8, <1>9, <1>10, <1>11, 
     <1>12, <1>13, <1>14, <1>15, <1>16, <1>17, <1>18, <1>19, <1>20, <1>21, 
     <1>22, <1>23, <1>23a, <1>24, <1>25, <1>26, <1>27, <1>28
     DEF Next, GuestStep, Helper

\* Every step keeps the open row's slots above every waiting row's.
LEMMA PoolStep ==
  ASSUME Queue, [Next]_vars
  PROVE  PoolOrder'
<1>1. CASE Begin
  BY <1>1 DEF Begin, Start, Queue, TypeOK, Control, HelperOwned, PoolOrder, Pending,
              Stopping, Lines, NoLine, Running, Idle
<1>2. CASE NextFrame
  BY <1>2 DEF NextFrame, Queue, TypeOK, Control, HelperOwned, PoolOrder, Pending,
              Stopping, Lines, NoLine, Running, Idle
<1>3. CASE WriteVram
  BY <1>3 DEF WriteVram, Queue, TypeOK, Control, HelperOwned, PoolOrder, Pending,
              Stopping, Lines, NoLine, Running, Idle
<1>4. CASE WritePastEnd
  BY <1>4 DEF WritePastEnd, Queue, TypeOK, Control, HelperOwned, PoolOrder, Pending,
              Stopping, Lines, NoLine, Running, Idle
<1>5. CASE BeginLine
  <2>1. PICK span \in Spans : lines' = [lines EXCEPT ![beam] = Opened(used, span)]
    BY <1>5 DEF BeginLine
  <2>2. /\ open = NoLine /\ open' = beam /\ beam \in Lines /\ beam # NoLine
        /\ published = beam /\ ~Stopping /\ ~Stopping' /\ Pool - used >= LineSlivers
    BY <1>5 DEF BeginLine, LineFits, Queue, TypeOK, Control, Lines, NoLine, Stopping
  <2>3. Pending' = Pending
    BY <1>5 DEF BeginLine, Pending, Running
  <2>4. /\ lines'[beam] = Opened(used, span)
        /\ \A y \in Lines : y # beam => lines'[y] = lines[y]
    BY <2>1, <2>2 DEF Queue, TypeOK
  <2>5. \A y \in Pending : y \in Lines /\ y # beam
    BY <2>2 DEF Pending, Queue, TypeOK, Lines, Idle, Running
  <2>6. /\ lines'[beam].first = used /\ lines'[beam].count = 0 /\ lines'[beam].rowOnly = FALSE
    BY <2>4 DEF Opened
  <2>7. used \in 0 .. Pool /\ used' = used /\ pool' = pool
    BY <1>5 DEF BeginLine, Queue, TypeOK
  <2>8. (open # NoLine =>
            /\ lines[open].first <= used /\ used - lines[open].first <= LineSlivers
            /\ lines[open].first + LineSlivers <= Pool
            /\ lines[open].count = 0 /\ ~lines[open].rowOnly)'
    BY <2>2, <2>6, <2>7
  <2>9. ASSUME NEW y \in Pending
        PROVE  /\ lines'[y].first + lines'[y].count <= used
               /\ ~lines'[y].rowOnly
    BY <2>2, <2>4, <2>5 DEF Queue, PoolOrder
  <2>. QED
    BY <2>2, <2>3, <2>6, <2>7, <2>8, <2>9 DEF PoolOrder, Queue
<1>6. CASE SelectSliver
  <2>1. PICK x \in Columns, t \in Tiles :
          pool' = [pool EXCEPT ![used] =
                    [x |-> x, tile |-> t, words |-> IF t \in PastEnd THEN vram[t] ELSE Later]]
    BY <1>6 DEF SelectSliver
  <2>2. /\ gpc = "line" /\ open # NoLine /\ open \in Lines
        /\ used - lines[open].first < LineSlivers /\ used' = used + 1
        /\ UNCHANGED <<lines, open, published, wpc, done, gpc, resume, beam>>
    BY <1>6 DEF SelectSliver, Queue, TypeOK, Control
  <2>3. Pending' = Pending /\ Stopping' = Stopping
    BY <2>2 DEF Pending, Running, Stopping
  <2>4. /\ used \in 0 .. Pool /\ lines[open].first \in 0 .. Pool
        /\ lines[open].first <= used /\ lines[open].first + LineSlivers <= Pool
    BY <2>2 DEF Queue, TypeOK, PoolOrder, LineRecord
  <2>5. (IF t \in PastEnd THEN vram[t] ELSE Later) = Later => t \notin PastEnd
    BY <2>1 DEF Queue, TypeOK
  <2>6. \A i \in 0 .. used' - 1 : pool'[i].tile \in PastEnd => pool'[i].words # Later
    <3>1. TAKE i \in 0 .. used' - 1
    <3>2. CASE i = used
      <4>1. i \in 0 .. Pool - 1
        BY <3>2, <2>2, <2>4
      <4>2. pool'[i] = [x |-> x, tile |-> t, words |-> IF t \in PastEnd THEN vram[t] ELSE Later]
        BY <2>1, <3>2, <4>1 DEF Queue, TypeOK
      <4>. QED
        BY <4>2, <2>5
    <3>3. CASE i # used
      BY <3>3, <2>1, <2>2, <2>4 DEF Queue, TypeOK, PoolOrder
    <3>. QED
      BY <3>2, <3>3
  <2>7. (open # NoLine =>
            /\ lines[open].first <= used /\ used - lines[open].first <= LineSlivers
            /\ lines[open].first + LineSlivers <= Pool
            /\ lines[open].count = 0 /\ ~lines[open].rowOnly)'
    BY <2>2, <2>4 DEF Queue, PoolOrder
  <2>8. (\A y \in Pending :
            /\ lines[y].first + lines[y].count
                 <= (IF open = NoLine THEN used ELSE lines[open].first)
            /\ lines[y].rowOnly <=> Stopping /\ resume = "draw" /\ y = beam)'
    BY <2>2, <2>3 DEF Queue, PoolOrder
  <2>. QED
    BY <2>6, <2>7, <2>8 DEF PoolOrder
<1>7. CASE PublishRow
  <2>1. /\ open # NoLine /\ open \in Lines /\ open = beam /\ published = open /\ ~Stopping
        /\ Running /\ open' = NoLine /\ published' = open + 1 /\ ~Stopping'
        /\ UNCHANGED <<used, pool, wpc, done>>
    BY <1>7 DEF PublishRow, Queue, TypeOK, Control, HelperOwned, Stopping, Lines, NoLine
  <2>2. lines' = [lines EXCEPT ![open] = [lines[open] EXCEPT !.hasSprites = (used - lines[open].first > 0),
                                          !.count = used - lines[open].first]]
    BY <1>7, <2>1 DEF PublishRow
  <2>3. /\ lines'[open] = [lines[open] EXCEPT !.hasSprites = (used - lines[open].first > 0),
                                              !.count = used - lines[open].first]
        /\ \A y \in Lines : y # open => lines'[y] = lines[y]
    BY <2>1, <2>2 DEF Queue, TypeOK
  <2>4. lines[open] \in LineRecord /\ lines[open].first \in 0 .. Pool /\ used \in 0 .. Pool
    BY <2>1 DEF Queue, TypeOK, LineRecord
  <2>5. /\ lines'[open].first = lines[open].first
        /\ lines'[open].count = used - lines[open].first
    BY <2>3, <2>4 DEF LineRecord
  <2>6. lines'[open].rowOnly = FALSE
    BY <2>1, <2>3, <2>4 DEF LineRecord, Queue, PoolOrder
  <2>7. \A y \in Pending' : y \in Lines /\ (y = open \/ (y # open /\ y \in Pending))
    BY <2>1 DEF Pending, Running, Queue, TypeOK, Lines
  <2>8. lines[open].first <= used
    BY <2>1 DEF Queue, PoolOrder
  <2>9. ASSUME NEW y \in Pending'
        PROVE  lines'[y].first + lines'[y].count <= used /\ (~lines'[y].rowOnly)
    <3>1. CASE y = open
      BY <3>1, <2>1, <2>4, <2>5, <2>6
    <3>2. CASE y # open
      <4>1. y \in Lines /\ y \in Pending /\ lines'[y] = lines[y] /\ lines[y] \in LineRecord
        BY <3>2, <2>3, <2>7 DEF Queue, TypeOK
      <4>2. lines[y].first + lines[y].count <= lines[open].first /\ ~lines[y].rowOnly
        BY <2>1, <4>1 DEF Queue, PoolOrder
      <4>3. lines[y].first + lines[y].count \in Int
        BY <4>1 DEF LineRecord
      <4>. QED
        BY <2>1, <2>4, <2>8, <3>2, <4>1, <4>2, <4>3
    <3>. QED
      BY <3>1, <3>2
  <2>. QED
    BY <2>1, <2>9 DEF PoolOrder, Queue
<1>8. CASE SerialRow
  BY <1>8 DEF SerialRow, Queue, TypeOK, Control, HelperOwned, PoolOrder, Pending,
              Stopping, Lines, NoLine, Running, Idle
<1>9. CASE RefuseLine
  BY <1>9 DEF RefuseLine, Stop, Queue, TypeOK, Control, HelperOwned, PoolOrder, Pending,
              Stopping, Lines, NoLine, Running, Idle
<1>10. CASE FallBackRow
  <2>1. /\ open # NoLine /\ open \in Lines /\ open = beam /\ published = open /\ ~Stopping
        /\ Running /\ open' = NoLine /\ published' = open + 1 /\ Stopping' /\ resume' = "draw" /\ beam' = beam
        /\ UNCHANGED <<used, pool, wpc, done>>
    BY <1>10 DEF FallBackRow, Stop, Queue, TypeOK, Control, HelperOwned, Stopping,
                 Lines, NoLine
  <2>2. lines' = [lines EXCEPT ![open] = [lines[open] EXCEPT !.rowOnly = TRUE,
                                          !.count = used - lines[open].first]]
    BY <1>10, <2>1 DEF FallBackRow, Stop
  <2>3. /\ lines'[open] = [lines[open] EXCEPT !.rowOnly = TRUE,
                                              !.count = used - lines[open].first]
        /\ \A y \in Lines : y # open => lines'[y] = lines[y]
    BY <2>1, <2>2 DEF Queue, TypeOK
  <2>4. lines[open] \in LineRecord /\ lines[open].first \in 0 .. Pool /\ used \in 0 .. Pool
    BY <2>1 DEF Queue, TypeOK, LineRecord
  <2>5. /\ lines'[open].first = lines[open].first
        /\ lines'[open].count = used - lines[open].first
    BY <2>3, <2>4 DEF LineRecord
  <2>6. lines'[open].rowOnly = TRUE
    BY <2>1, <2>3, <2>4 DEF LineRecord, Queue, PoolOrder
  <2>7. \A y \in Pending' : y \in Lines /\ (y = open \/ (y # open /\ y \in Pending))
    BY <2>1 DEF Pending, Running, Queue, TypeOK, Lines
  <2>8. lines[open].first <= used
    BY <2>1 DEF Queue, PoolOrder
  <2>9. ASSUME NEW y \in Pending'
        PROVE  lines'[y].first + lines'[y].count <= used /\ (lines'[y].rowOnly <=> y = beam)
    <3>1. CASE y = open
      BY <3>1, <2>1, <2>4, <2>5, <2>6
    <3>2. CASE y # open
      <4>1. y \in Lines /\ y \in Pending /\ lines'[y] = lines[y] /\ lines[y] \in LineRecord
        BY <3>2, <2>3, <2>7 DEF Queue, TypeOK
      <4>2. lines[y].first + lines[y].count <= lines[open].first /\ ~lines[y].rowOnly
        BY <2>1, <4>1 DEF Queue, PoolOrder
      <4>3. lines[y].first + lines[y].count \in Int
        BY <4>1 DEF LineRecord
      <4>. QED
        BY <2>1, <2>4, <2>8, <3>2, <4>1, <4>2, <4>3
    <3>. QED
      BY <3>1, <3>2
  <2>. QED
    BY <2>1, <2>9 DEF PoolOrder, Queue
<1>11. CASE FallBackWrite
  BY <1>11 DEF FallBackWrite, Stop, Queue, TypeOK, Control, HelperOwned, PoolOrder,
               Pending, Stopping, Lines, NoLine, Running, Idle
<1>12. CASE EndCapture
  BY <1>12 DEF EndCapture, Stop, Queue, TypeOK, Control, HelperOwned, PoolOrder,
               Pending, Stopping, Lines, NoLine, Running, Idle
<1>13. CASE EndRecording
  BY <1>13 DEF EndRecording, Queue, TypeOK, Control, HelperOwned, PoolOrder, Pending,
               Stopping, Lines, NoLine, Running, Idle
<1>14. CASE CloseQueue
  BY <1>14 DEF CloseQueue, Queue, TypeOK, Control, HelperOwned, PoolOrder, Pending,
               Stopping, Lines, NoLine, Running, Idle
<1>15. CASE SignalClose
  BY <1>15 DEF SignalClose, Queue, TypeOK, Control, HelperOwned, PoolOrder, Pending,
               Stopping, Lines, NoLine, Running, Idle
<1>16. CASE Join
  BY <1>16 DEF Join, Queue, TypeOK, Control, HelperOwned, PoolOrder, Pending, Stopping,
               Lines, NoLine, Running, Idle
<1>17. CASE SignalRow
  BY <1>17 DEF SignalRow, Queue, TypeOK, Control, HelperOwned, PoolOrder, Pending,
               Stopping, Lines, NoLine, Running, Idle
<1>18. CASE DrawFallenBack
  BY <1>18 DEF DrawFallenBack, Queue, TypeOK, Control, HelperOwned, PoolOrder, Pending,
               Stopping, Lines, NoLine, Running, Idle
<1>19. CASE WriteFallenBack
  BY <1>19 DEF WriteFallenBack, Queue, TypeOK, Control, HelperOwned, PoolOrder, Pending,
               Stopping, Lines, NoLine, Running, Idle
<1>20. CASE FreezeCapture
  BY <1>20 DEF FreezeCapture, Queue, TypeOK, Control, HelperOwned, PoolOrder, Pending,
               Stopping, Lines, NoLine, Running, Idle
<1>21. CASE WorkerStart
  BY <1>21 DEF WorkerStart, Queue, TypeOK, Control, HelperOwned, PoolOrder, Pending,
               Stopping, Lines, NoLine, Running, Idle
<1>22. CASE PollPublished
  BY <1>22 DEF PollPublished, Queue, TypeOK, Control, HelperOwned, PoolOrder, Pending,
               Stopping, Lines, NoLine, Running, Idle
<1>23. CASE RasterizeRow
  BY <1>23 DEF RasterizeRow, Queue, TypeOK, Control, HelperOwned, PoolOrder, Pending,
               Stopping, Lines, NoLine, Running, Idle
<1>23a. CASE RasterizeEarly
  BY <1>23a DEF RasterizeEarly, Queue, TypeOK, Control, HelperOwned, PoolOrder, Pending,
                Stopping, Lines, NoLine, Running, Idle
<1>24. CASE RecordRow
  BY <1>24 DEF RecordRow, Queue, TypeOK, Control, HelperOwned, PoolOrder, Pending,
               Stopping, Lines, NoLine, Running, Idle
<1>25. CASE PollClosing
  BY <1>25 DEF PollClosing, Queue, TypeOK, Control, HelperOwned, PoolOrder, Pending,
               Stopping, Lines, NoLine, Running, Idle
<1>26. CASE PollLast
  BY <1>26 DEF PollLast, Queue, TypeOK, Control, HelperOwned, PoolOrder, Pending,
               Stopping, Lines, NoLine, Running, Idle
<1>27. CASE Pause
  BY <1>27 DEF Pause, Queue, TypeOK, Control, HelperOwned, PoolOrder, Pending, Stopping,
               Lines, NoLine, Running, Idle
<1>28. CASE UNCHANGED vars
  BY <1>28 DEF Queue, TypeOK, Control, HelperOwned, PoolOrder, Pending, Stopping, Lines,
               NoLine, Running, Idle
<1>. QED
  BY <1>1, <1>2, <1>3, <1>4, <1>5, <1>6, <1>7, <1>8, <1>9, <1>10, <1>11, 
     <1>12, <1>13, <1>14, <1>15, <1>16, <1>17, <1>18, <1>19, <1>20, <1>21, 
     <1>22, <1>23, <1>23a, <1>24, <1>25, <1>26, <1>27, <1>28
     DEF Next, GuestStep, Helper

\* The queue starts empty.
LEMMA InitQueue == Init => Queue
<1>. SUFFICES ASSUME Init PROVE Queue
  OBVIOUS
<1>1. \E s \in Sliver : s.words = Later
  <2>1. PICK x \in Columns, t \in Tiles : TRUE
    OBVIOUS
  <2>2. [x |-> x, tile |-> t, words |-> Later] \in Sliver
    BY DEF Sliver
  <2>. QED
    BY <2>2
<1>2. (CHOOSE s \in Sliver : s.words = Later) \in Sliver
  BY <1>1
<1>3. pool \in [0 .. Pool - 1 -> Sliver]
  BY <1>2 DEF Init
<1>4. 0 \in 0 .. Rows /\ 0 \in 0 .. Pool
  OBVIOUS
<1>5. TypeOK
  BY <1>3, <1>4, EmptyRecordType DEF Init, TypeOK, Resume
<1>6. Control /\ HelperOwned
  BY DEF Init, Control, HelperOwned, Stopping, Running, Idle, NoLine, Resume
<1>7. PoolOrder
  BY DEF Init, PoolOrder, Pending, Running, Idle
<1>. QED
  BY <1>5, <1>6, <1>7 DEF Queue

\* Queue is inductive.
LEMMA QueueStep == Queue /\ [Next]_vars => Queue'
  BY TypeStep, ControlStep, PoolStep DEF Queue

\* Queue holds in every state.
THEOREM QueueInvariant == Spec => []Queue
<1>1. Init => Queue
  BY InitQueue
<1>2. Queue /\ [Next]_vars => Queue'
  BY QueueStep
<1>. QED
  BY <1>1, <1>2, PTL DEF Spec

\* Every variable keeps its type.
THEOREM TypeCorrect == Spec => []TypeOK
<1>1. Queue => TypeOK
  BY DEF Queue
<1>. QED
  BY <1>1, QueueInvariant, PTL

\* The helper runs exactly while rows are deferred or a Stop is under way:
\* Start submits it and Join (snesrecomp_task_wait) takes it back.
THEOREM HelperOwnership == Spec => []HelperOwned
<1>1. Queue => HelperOwned
  BY DEF Queue
<1>. QED
  BY <1>1, QueueInvariant, PTL

\* The invariant keeps the helper off the open row and its slots.
LEMMA QueueSeparates == Queue => NoSharedRow
<1>. SUFFICES ASSUME Queue PROVE NoSharedRow
  OBVIOUS
<1>1. wpc \in {"raster", "record"} => done < published /\ done # open
  BY DEF Queue, TypeOK, Control, HelperOwned, Stopping, Running, Idle, NoLine, Lines
<1>2. Running /\ open # NoLine => open = published
  BY DEF Queue, Control
<1>3. open # NoLine => \A y \in Pending : lines[y].first + lines[y].count <= lines[open].first
  BY DEF Queue, PoolOrder
<1>. QED
  BY <1>1, <1>2, <1>3 DEF NoSharedRow

\* The helper never reads a line record or a pool slot that the guest thread
\* is still filling (Lufia2PpuObjDeferSliver against Rasterize).
THEOREM RowsSeparate == Spec => []NoSharedRow
<1>. QED
  BY QueueSeparates, QueueInvariant, PTL

-----------------------------------------------------------------------------
(***************************************************************************)
(* What the helper draws is what the guest thread would have drawn.  Each  *)
(* published row continues from the one before it, so the row the helper   *)
(* holds, the rows still waiting and the serial row form one chain; joining*)
(* the helper closes it.  A row that the helper reads before Stop's barrier*)
(* comes out with any pixels: it ends the chain, and nothing else follows  *)
(* from it than that the row handed back is that one.                      *)
(***************************************************************************)

Exact == Queue /\ Chain /\ Recorded /\ LiveRowExact

\* A waiting row is painted alike while its record, its slots and VRAM stay.
LEMMA SliversFrame ==
  ASSUME NEW y, lines'[y] = lines[y], vram' = vram,
         lines[y] \in LineRecord,
         \A i \in lines[y].first .. lines[y].first + lines[y].count - 1 : pool'[i] = pool[i]
  PROVE  Painted(y)' = Painted(y)
<1>1. Slivers(lines[y])' = Slivers(lines[y])
  BY DEF Slivers, LineRecord
<1>. QED
  BY <1>1 DEF Painted

\* Waiting rows are lines below s_published.
LEMMA PendingLines ==
  ASSUME Queue
  PROVE  Pending \subseteq 0 .. published - 1 /\ Pending \subseteq Lines
  BY DEF Pending, Queue, TypeOK, Lines

\* The slots of a waiting row lie below s_used.
LEMMA PendingBelow ==
  ASSUME Queue, NEW y \in Pending
  PROVE  /\ y \in Lines /\ lines[y] \in LineRecord
         /\ lines[y].first \in Nat /\ lines[y].count \in Nat
         /\ lines[y].first + lines[y].count <= used
<1>1. y \in Lines /\ lines[y] \in LineRecord
  BY PendingLines DEF Queue, TypeOK
<1>2. lines[y].first + lines[y].count <= (IF open = NoLine THEN used ELSE lines[open].first)
  BY DEF Queue, PoolOrder
<1>3. open # NoLine => lines[open].first <= used /\ lines[open] \in LineRecord
  BY DEF Queue, PoolOrder, TypeOK
<1>. QED
  BY <1>1, <1>2, <1>3 DEF LineRecord, Queue, TypeOK

\* A write past the end of VRAM decodes no waiting sliver differently: such
\* words were read when the sliver was selected.
LEMMA PastEndDecode ==
  ASSUME Queue, WritePastEnd, NEW y \in Pending, NEW i \in DOMAIN Slivers(lines[y])
  PROVE  Decode(Slivers(lines[y])[i], vram') = Decode(Slivers(lines[y])[i], vram)
<1>1. /\ i \in 1 .. lines[y].count
      /\ Slivers(lines[y])[i] = pool[lines[y].first + i - 1]
  BY DEF Slivers
<1>2. lines[y].first + i - 1 \in 0 .. used - 1
  BY <1>1, PendingBelow DEF Queue, TypeOK
<1>3. pool[lines[y].first + i - 1].words = Later
        => pool[lines[y].first + i - 1].tile \notin PastEnd
  BY <1>2 DEF Queue, PoolOrder
<1>4. pool[lines[y].first + i - 1] \in Sliver
  <2>1. lines[y].first + i - 1 \in 0 .. Pool - 1
    BY <1>2 DEF Queue, TypeOK
  <2>. QED
    BY <2>1 DEF Queue, TypeOK
<1>5. PICK t \in PastEnd, w \in Words : vram' = [vram EXCEPT ![t] = w]
  BY DEF WritePastEnd
<1>. QED
  BY <1>1, <1>3, <1>4, <1>5 DEF Decode, Sliver, Queue, TypeOK

\* Nor does it paint a waiting row differently.
LEMMA PastEndFrame ==
  ASSUME Queue, WritePastEnd, NEW y \in Pending
  PROVE  Painted(y)' = Painted(y)
<1>1. Slivers(lines[y])' = Slivers(lines[y])
  BY DEF Slivers, WritePastEnd
<1>2. Paints(Slivers(lines[y]), vram') = Paints(Slivers(lines[y]), vram)
  BY PastEndDecode DEF Paints
<1>. QED
  BY <1>1, <1>2 DEF Painted

\* The rows still to be rasterized are waiting, and so is the one just
\* rasterized and not yet recorded.
LEMMA WaitingRows ==
  ASSUME Queue, Running
  PROVE  /\ Rastered \in 0 .. published
         /\ Rastered .. published - 1 \subseteq Pending
         /\ wpc = "record" => done \in Pending /\ done \notin Rastered .. published - 1
  BY DEF Rastered, Pending, Queue, TypeOK, Control

\* The row that the helper may read too early is the one Stop handed over.
LEMMA EarlyRow ==
  ASSUME Queue, RasterizeEarly
  PROVE  lines[done].rowOnly /\ done \in Pending
<1>1. /\ late /\ Running /\ wpc = "raster" /\ done = published - 1
  BY DEF RasterizeEarly, Running, Idle
<1>2. done = beam /\ Stopping /\ resume = "draw"
  BY <1>1 DEF Queue, Control, Stopping, TypeOK
<1>3. done \in Pending
  BY <1>1 DEF Pending, Queue, TypeOK
<1>. QED
  BY <1>2, <1>3 DEF Queue, PoolOrder

\* A step that neither publishes, rasterizes nor records keeps the chain.
LEMMA ChainFrame ==
  ASSUME Queue, Chain,
         Running' = Running, Rastered' = Rastered, Pending' = Pending,
         published' = published, trail' = trail, wanted' = wanted, serial' = serial,
         row' = row, captured' = captured,
         wpc' = "record" => wpc = "record" /\ done' = done /\ current' = current,
         \A y \in Pending : lines'[y] = lines[y] /\ Painted(y)' = Painted(y)
  PROVE  Chain'
<1>1. CASE ~Running
  BY <1>1 DEF Chain, Pending, Running, Idle
<1>2. CASE Running
  <2>1. /\ Rastered .. published - 1 \subseteq Pending
        /\ wpc = "record" => done \in Pending
    BY <1>2, WaitingRows
  <2>. QED
    BY <1>2, <2>1 DEF Chain
<1>. QED
  BY <1>1, <1>2

\* Join hands back the end of the chain; SerialRow draws on it.
LEMMA LiveStep ==
  ASSUME Exact, [Next]_vars
  PROVE  LiveRowExact'
<1>1. CASE Begin
  BY <1>1 DEF Begin, Start, Exact, Queue, TypeOK, Control, HelperOwned, LiveRowExact,
              Stopping, Running, Idle
<1>2. CASE NextFrame
  BY <1>2 DEF NextFrame, Exact, Queue, TypeOK, Control, HelperOwned, LiveRowExact,
              Stopping, Running, Idle
<1>3. CASE WriteVram
  BY <1>3 DEF WriteVram, Exact, Queue, TypeOK, Control, HelperOwned, LiveRowExact,
              Stopping, Running, Idle
<1>4. CASE WritePastEnd
  BY <1>4 DEF WritePastEnd, Exact, Queue, TypeOK, Control, HelperOwned, LiveRowExact,
              Stopping, Running, Idle
<1>5. CASE BeginLine
  BY <1>5 DEF BeginLine, LineFits, Exact, Queue, TypeOK, Control, HelperOwned,
              LiveRowExact, Stopping, Running, Idle
<1>6. CASE SelectSliver
  BY <1>6 DEF SelectSliver, Exact, Queue, TypeOK, Control, HelperOwned, LiveRowExact,
              Stopping, Running, Idle
<1>7. CASE PublishRow
  BY <1>7 DEF PublishRow, Exact, Queue, TypeOK, Control, HelperOwned, LiveRowExact,
              Stopping, Running, Idle
<1>8. CASE SerialRow
  BY <1>8 DEF SerialRow, Exact, Queue, TypeOK, Control, HelperOwned, LiveRowExact,
              Stopping, Running, Idle
<1>9. CASE RefuseLine
  BY <1>9 DEF RefuseLine, Stop, Exact, Queue, TypeOK, Control, HelperOwned,
              LiveRowExact, Stopping, Running, Idle
<1>10. CASE FallBackRow
  BY <1>10 DEF FallBackRow, Stop, Exact, Queue, TypeOK, Control, HelperOwned,
               LiveRowExact, Stopping, Running, Idle
<1>11. CASE FallBackWrite
  BY <1>11 DEF FallBackWrite, Stop, Exact, Queue, TypeOK, Control, HelperOwned,
               LiveRowExact, Stopping, Running, Idle
<1>12. CASE EndCapture
  BY <1>12 DEF EndCapture, Stop, Exact, Queue, TypeOK, Control, HelperOwned,
               LiveRowExact, Stopping, Running, Idle
<1>13. CASE EndRecording
  BY <1>13 DEF EndRecording, Exact, Queue, TypeOK, Control, HelperOwned, LiveRowExact,
               Stopping, Running, Idle
<1>14. CASE CloseQueue
  BY <1>14 DEF CloseQueue, Exact, Queue, TypeOK, Control, HelperOwned, LiveRowExact,
               Stopping, Running, Idle
<1>15. CASE SignalClose
  BY <1>15 DEF SignalClose, Exact, Queue, TypeOK, Control, HelperOwned, LiveRowExact,
               Stopping, Running, Idle
<1>16. CASE Join
  <2>1. Running /\ wpc = "exited" /\ ppuRow' = row /\ serial' = serial
    BY <1>16 DEF Join, Running, Idle
  <2>2. done = published /\ Rastered = done
    BY <2>1 DEF Exact, Queue, Control, Rastered
  <2>3. serial = row
    BY <2>1, <2>2 DEF Exact, Chain, Queue, TypeOK
  <2>. QED
    BY <2>1, <2>3 DEF LiveRowExact
<1>17. CASE SignalRow
  BY <1>17 DEF SignalRow, Exact, Queue, TypeOK, Control, HelperOwned, LiveRowExact,
               Stopping, Running, Idle
<1>18. CASE DrawFallenBack
  BY <1>18 DEF DrawFallenBack, Exact, Queue, TypeOK, Control, HelperOwned, LiveRowExact,
               Stopping, Running, Idle
<1>19. CASE WriteFallenBack
  BY <1>19 DEF WriteFallenBack, Exact, Queue, TypeOK, Control, HelperOwned,
               LiveRowExact, Stopping, Running, Idle
<1>20. CASE FreezeCapture
  BY <1>20 DEF FreezeCapture, Exact, Queue, TypeOK, Control, HelperOwned, LiveRowExact,
               Stopping, Running, Idle
<1>21. CASE WorkerStart
  BY <1>21 DEF WorkerStart, Exact, Queue, TypeOK, Control, HelperOwned, LiveRowExact,
               Stopping, Running, Idle
<1>22. CASE PollPublished
  BY <1>22 DEF PollPublished, Exact, Queue, TypeOK, Control, HelperOwned, LiveRowExact,
               Stopping, Running, Idle
<1>23. CASE RasterizeRow
  BY <1>23 DEF RasterizeRow, Exact, Queue, TypeOK, Control, HelperOwned,
               LiveRowExact, Stopping, Running, Idle
<1>23a. CASE RasterizeEarly
  BY <1>23a DEF RasterizeEarly, Exact, Queue, TypeOK, Control, HelperOwned,
                LiveRowExact, Stopping, Running, Idle
<1>24. CASE RecordRow
  BY <1>24 DEF RecordRow, Exact, Queue, TypeOK, Control, HelperOwned, LiveRowExact,
               Stopping, Running, Idle
<1>25. CASE PollClosing
  BY <1>25 DEF PollClosing, Exact, Queue, TypeOK, Control, HelperOwned, LiveRowExact,
               Stopping, Running, Idle
<1>26. CASE PollLast
  BY <1>26 DEF PollLast, Exact, Queue, TypeOK, Control, HelperOwned, LiveRowExact,
               Stopping, Running, Idle
<1>27. CASE Pause
  BY <1>27 DEF Pause, Exact, Queue, TypeOK, Control, HelperOwned, LiveRowExact,
               Stopping, Running, Idle
<1>28. CASE UNCHANGED vars
  BY <1>28 DEF Exact, Queue, TypeOK, Control, HelperOwned, LiveRowExact, Stopping,
               Running, Idle
<1>. QED
  BY <1>1, <1>2, <1>3, <1>4, <1>5, <1>6, <1>7, <1>8, <1>9, <1>10, <1>11, 
     <1>12, <1>13, <1>14, <1>15, <1>16, <1>17, <1>18, <1>19, <1>20, <1>21, 
     <1>22, <1>23, <1>23a, <1>24, <1>25, <1>26, <1>27, <1>28
     DEF Next, GuestStep, Helper

\* RecordRow and SerialRow put the wanted row in the capture, and no other
\* step writes it.
LEMMA RecordedStep ==
  ASSUME Exact, [Next]_vars
  PROVE  Recorded'
<1>1. CASE Begin
  BY <1>1 DEF Begin, Start, Exact, Queue, TypeOK, Control, HelperOwned, LiveRowExact,
              Stopping, Running, Idle, Recorded, Pending, Resume
<1>2. CASE NextFrame
  BY <1>2 DEF NextFrame, Exact, Queue, TypeOK, Control, HelperOwned, LiveRowExact,
              Stopping, Running, Idle, Recorded, Pending, Resume
<1>3. CASE WriteVram
  BY <1>3 DEF WriteVram, Exact, Queue, TypeOK, Control, HelperOwned, LiveRowExact,
              Stopping, Running, Idle, Recorded, Pending, Resume
<1>4. CASE WritePastEnd
  BY <1>4 DEF WritePastEnd, Exact, Queue, TypeOK, Control, HelperOwned, LiveRowExact,
              Stopping, Running, Idle, Recorded, Pending, Resume
<1>5. CASE BeginLine
  BY <1>5 DEF BeginLine, LineFits, Exact, Queue, TypeOK, Control, HelperOwned,
              LiveRowExact, Stopping, Running, Idle, Recorded, Pending, Resume
<1>6. CASE SelectSliver
  BY <1>6 DEF SelectSliver, Exact, Queue, TypeOK, Control, HelperOwned, LiveRowExact,
              Stopping, Running, Idle, Recorded, Pending, Resume
<1>7. CASE PublishRow
  BY <1>7 DEF PublishRow, Exact, Queue, TypeOK, Control, HelperOwned, LiveRowExact,
              Stopping, Running, Idle, Recorded, Pending, Resume
<1>8. CASE SerialRow
  <2>1. ~Running /\ Pending = {} /\ Pending' = {} /\ ~Running'
    BY <1>8 DEF SerialRow, Exact, Queue, HelperOwned, Pending, Running, Resume
  <2>2. CASE recording' = FALSE
    BY <1>8, <2>2 DEF SerialRow, Recorded, Resume, Stopping
  <2>3. CASE recording' # FALSE
    <3>1. PICK span \in Spans, slivers \in Selection :
            /\ ppuRow' = Raster(ppuRow, span, Paints(slivers, vram))
            /\ serial' = Raster(serial, span, Paints(slivers, vram))
            /\ recording
            /\ captured' = [captured EXCEPT ![beam] = Captured(ppuRow', slivers # <<>>)]
            /\ wanted' = [wanted EXCEPT ![beam] = Captured(serial', slivers # <<>>)]
      BY <1>8, <2>3 DEF SerialRow
    <3>2. ppuRow' = serial'
      BY <2>1, <3>1 DEF Exact, LiveRowExact
    <3>3. beam' = beam + 1 /\ beam \in Nat
      BY <1>8 DEF SerialRow, Exact, Queue, TypeOK
    <3>4. \A y \in 0 .. beam - 1 : captured[y] = wanted[y]
      BY <2>1, <3>1 DEF Exact, Recorded
    <3>5. DOMAIN captured = Lines /\ DOMAIN wanted = Lines
      BY DEF Exact, Chain
    <3>6. \A y \in 0 .. beam : captured'[y] = wanted'[y]
      <4>1. \A y : captured[y] = wanted[y] /\ y # beam /\ y \in Lines => captured'[y] = wanted'[y]
        BY <3>1, <3>5
      <4>2. beam \in Lines
        BY <1>8 DEF SerialRow, Exact, Queue, TypeOK, Lines
      <4>3. captured'[beam] = wanted'[beam]
        BY <3>1, <3>2, <3>5, <4>2
      <4>4. \A y \in 0 .. beam : y \in Lines /\ (y = beam \/ y \in 0 .. beam - 1)
        BY <4>2 DEF Lines
      <4>. QED
        BY <3>4, <4>1, <4>3, <4>4
    <3>. QED
      BY <3>3, <3>6 DEF Recorded
  <2>. QED
    BY <2>2, <2>3
<1>9. CASE RefuseLine
  BY <1>9 DEF RefuseLine, Stop, Exact, Queue, TypeOK, Control, HelperOwned,
              LiveRowExact, Stopping, Running, Idle, Recorded, Pending, Resume
<1>10. CASE FallBackRow
  <2>1. /\ open = beam /\ beam' = beam /\ captured' = captured /\ recording
        /\ Pending \subseteq Pending' /\ beam \in Nat
    BY <1>10 DEF FallBackRow, Stop, Exact, Queue, TypeOK, Control, Pending, Running,
                 Lines, NoLine
  <2>2. \A y \in Lines : y # open => wanted'[y] = wanted[y]
    <3>1. wanted' = [wanted EXCEPT ![open] = captured[open]]
      BY <1>10 DEF FallBackRow, Stop, Exact, Queue, Control
    <3>. QED
      BY <3>1 DEF Exact, Chain
  <2>. QED
    BY <2>1, <2>2 DEF Exact, Recorded, Queue, TypeOK, Lines
<1>11. CASE FallBackWrite
  BY <1>11 DEF FallBackWrite, Stop, Exact, Queue, TypeOK, Control, HelperOwned,
               LiveRowExact, Stopping, Running, Idle, Recorded, Pending, Resume
<1>12. CASE EndCapture
  BY <1>12 DEF EndCapture, Stop, Exact, Queue, TypeOK, Control, HelperOwned,
               LiveRowExact, Stopping, Running, Idle, Recorded, Pending, Resume
<1>13. CASE EndRecording
  BY <1>13 DEF EndRecording, Exact, Queue, TypeOK, Control, HelperOwned, LiveRowExact,
               Stopping, Running, Idle, Recorded, Pending, Resume
<1>14. CASE CloseQueue
  BY <1>14 DEF CloseQueue, Exact, Queue, TypeOK, Control, HelperOwned, LiveRowExact,
               Stopping, Running, Idle, Recorded, Pending, Resume
<1>15. CASE SignalClose
  BY <1>15 DEF SignalClose, Exact, Queue, TypeOK, Control, HelperOwned, LiveRowExact,
               Stopping, Running, Idle, Recorded, Pending, Resume
<1>16. CASE Join
  BY <1>16 DEF Join, Exact, Queue, TypeOK, Control, HelperOwned, LiveRowExact, Stopping,
               Running, Idle, Recorded, Pending, Resume
<1>17. CASE SignalRow
  BY <1>17 DEF SignalRow, Exact, Queue, TypeOK, Control, HelperOwned, LiveRowExact,
               Stopping, Running, Idle, Recorded, Pending, Resume
<1>18. CASE DrawFallenBack
  BY <1>18 DEF DrawFallenBack, Exact, Queue, TypeOK, Control, HelperOwned, LiveRowExact,
               Stopping, Running, Idle, Recorded, Pending, Resume
<1>19. CASE WriteFallenBack
  BY <1>19 DEF WriteFallenBack, Exact, Queue, TypeOK, Control, HelperOwned,
               LiveRowExact, Stopping, Running, Idle, Recorded, Pending, Resume
<1>20. CASE FreezeCapture
  BY <1>20 DEF FreezeCapture, Exact, Queue, TypeOK, Control, HelperOwned, LiveRowExact,
               Stopping, Running, Idle, Recorded, Pending, Resume
<1>21. CASE WorkerStart
  BY <1>21 DEF WorkerStart, Exact, Queue, TypeOK, Control, HelperOwned, LiveRowExact,
               Stopping, Running, Idle, Recorded, Pending, Resume
<1>22. CASE PollPublished
  BY <1>22 DEF PollPublished, Exact, Queue, TypeOK, Control, HelperOwned, LiveRowExact,
               Stopping, Running, Idle, Recorded, Pending, Resume
<1>23. CASE RasterizeRow
  BY <1>23 DEF RasterizeRow, Exact, Queue, TypeOK, Control, HelperOwned,
               LiveRowExact, Stopping, Running, Idle, Recorded, Pending, Resume
<1>23a. CASE RasterizeEarly
  <2>1. /\ done \in Pending /\ Pending' = Pending
        /\ UNCHANGED <<recording, gpc, resume, beam, captured>>
    BY <1>23a DEF RasterizeEarly, Exact, Queue, TypeOK, Control, Pending, Running, Idle
  <2>2. \A y : y # done => wanted'[y] = wanted[y]
    BY <1>23a DEF RasterizeEarly
  <2>. QED
    BY <2>1, <2>2 DEF Exact, Recorded, Stopping
<1>24. CASE RecordRow
  <2>1. /\ Running /\ wpc = "record" /\ done < published /\ done \in Lines
        /\ done' = done + 1 /\ wpc' = "poll"
        /\ UNCHANGED <<published, beam, lines, recording, gpc, resume, wanted>>
    BY <1>24 DEF RecordRow, Exact, Queue, TypeOK, Control, Running, Idle, Lines
  <2>2. done \in Pending /\ Pending' = Pending \ {done}
    BY <2>1 DEF Pending, Running, Idle, Exact, Queue, TypeOK
  <2>4. \A y : y # done => captured'[y] = captured[y]
    BY <1>24 DEF RecordRow
  <2>5. captured'[done] = wanted[done]
    BY <1>24, <2>1 DEF RecordRow, Exact, Chain
  <2>6. ASSUME Recorded, recording \/ Stopping \/ gpc \in Resume,
               NEW y \in 0 .. beam - 1, y \notin Pending'
        PROVE  captured'[y] = wanted[y]
    BY <2>2, <2>4, <2>5, <2>6 DEF Recorded
  <2>. QED
    BY <2>1, <2>6 DEF Recorded, Stopping, Exact
<1>25. CASE PollClosing
  BY <1>25 DEF PollClosing, Exact, Queue, TypeOK, Control, HelperOwned, LiveRowExact,
               Stopping, Running, Idle, Recorded, Pending, Resume
<1>26. CASE PollLast
  BY <1>26 DEF PollLast, Exact, Queue, TypeOK, Control, HelperOwned, LiveRowExact,
               Stopping, Running, Idle, Recorded, Pending, Resume
<1>27. CASE Pause
  BY <1>27 DEF Pause, Exact, Queue, TypeOK, Control, HelperOwned, LiveRowExact,
               Stopping, Running, Idle, Recorded, Pending, Resume
<1>28. CASE UNCHANGED vars
  BY <1>28 DEF Exact, Queue, TypeOK, Control, HelperOwned, LiveRowExact, Stopping,
               Running, Idle, Recorded, Pending, Resume
<1>. QED
  BY <1>1, <1>2, <1>3, <1>4, <1>5, <1>6, <1>7, <1>8, <1>9, <1>10, <1>11, 
     <1>12, <1>13, <1>14, <1>15, <1>16, <1>17, <1>18, <1>19, <1>20, <1>21, 
     <1>22, <1>23, <1>23a, <1>24, <1>25, <1>26, <1>27, <1>28
     DEF Next, GuestStep, Helper

\* Every step keeps the chain: PublishRow and Stop extend it at its end,
\* RasterizeRow shortens it at its head.
LEMMA ChainStep ==
  ASSUME Exact, [Next]_vars
  PROVE  Chain'
<1>1. CASE Begin
  <2>1. ~Running /\ serial = ppuRow /\ UNCHANGED <<serial, trail, wanted, captured>>
    BY <1>1 DEF Begin, Exact, Queue, Control, HelperOwned, LiveRowExact
  <2>2. CASE Start
    <3>1. /\ wpc' = "start" \/ wpc' = "idle"
          /\ row' = ppuRow /\ published' = 0
      BY <2>1, <2>2 DEF Start, Running, Idle
    <3>2. Pending' = {}
      BY <3>1 DEF Pending, Running, Idle
    <3>3. wpc' = "start" => Rastered' = 0
      BY DEF Rastered
    <3>. QED
      BY <2>1, <3>1, <3>2, <3>3 DEF Chain, Exact, Running, Idle
  <2>3. CASE UNCHANGED <<queueVars, row, wpc, done, current>>
    BY <2>1, <2>3 DEF Chain, Exact, Pending, Running, Idle
  <2>. QED
    BY <1>1, <2>2, <2>3 DEF Begin
<1>2. CASE NextFrame
  BY <1>2 DEF NextFrame, Exact, Queue, TypeOK, Control, HelperOwned, Chain, Stopping,
              Running, Idle, Rastered, Pending, Painted, Slivers
<1>3. CASE WriteVram
  BY <1>3 DEF WriteVram, Exact, Queue, TypeOK, Control, HelperOwned, Chain, Stopping,
              Running, Idle, Rastered, Pending, Painted, Slivers
<1>4. CASE WritePastEnd
  <2>1. /\ Running' = Running /\ Rastered' = Rastered /\ Pending' = Pending
        /\ UNCHANGED <<published, trail, wanted, serial, row, wpc, done, current,
                      captured>>
    BY <1>4 DEF WritePastEnd, Running, Rastered, Pending, Exact, Chain
  <2>2. \A y \in Pending : lines'[y] = lines[y] /\ Painted(y)' = Painted(y)
    BY <1>4, PastEndFrame DEF WritePastEnd, Exact
  <2>. QED
    BY <2>1, <2>2, ChainFrame DEF Exact
<1>5. CASE BeginLine
  <2>1. /\ Running' = Running /\ Rastered' = Rastered /\ Pending' = Pending
        /\ UNCHANGED <<published, trail, wanted, serial, row, wpc, done, current,
                      captured>>
    BY <1>5 DEF BeginLine, Running, Rastered, Pending, Exact, Chain
  <2>2. ASSUME NEW y \in Pending
        PROVE  lines'[y] = lines[y] /\ Painted(y)' = Painted(y)
    <3>1. y \in Lines /\ y # beam /\ lines[y] \in LineRecord
      BY <1>5, PendingLines DEF BeginLine, Exact, Queue, TypeOK, Control
    <3>2. lines'[y] = lines[y]
      BY <1>5, <3>1 DEF BeginLine, Exact, Queue, TypeOK
    <3>3. pool' = pool /\ vram' = vram
      BY <1>5 DEF BeginLine
    <3>. QED
      BY <3>1, <3>2, <3>3, SliversFrame
  <2>. QED
    BY <2>1, <2>2, ChainFrame DEF Exact
<1>6. CASE SelectSliver
  <2>1. /\ Running' = Running /\ Rastered' = Rastered /\ Pending' = Pending
        /\ UNCHANGED <<published, trail, wanted, serial, row, wpc, done, current,
                      captured>>
    BY <1>6 DEF SelectSliver, Running, Rastered, Pending, Exact, Chain
  <2>2. ASSUME NEW y \in Pending
        PROVE  lines'[y] = lines[y] /\ Painted(y)' = Painted(y)
    <3>1. /\ lines[y] \in LineRecord /\ lines[y].first \in Nat /\ lines[y].count \in Nat
          /\ lines[y].first + lines[y].count <= used
      BY PendingBelow DEF Exact
    <3>2. \A i : i # used => pool'[i] = pool[i]
      BY <1>6 DEF SelectSliver
    <3>3. \A i \in lines[y].first .. lines[y].first + lines[y].count - 1 : pool'[i] = pool[i]
      BY <3>1, <3>2 DEF Exact, Queue, TypeOK
    <3>4. lines'[y] = lines[y] /\ vram' = vram
      BY <1>6 DEF SelectSliver
    <3>. QED
      BY <3>1, <3>3, <3>4, SliversFrame
  <2>. QED
    BY <2>1, <2>2, ChainFrame DEF Exact
<1>7. CASE PublishRow
  <2>0. PICK p : p = open
    OBVIOUS
  <2>1. /\ p = open /\ p # NoLine /\ p \in Lines /\ published = p /\ published' = p + 1
        /\ Running /\ Running' /\ UNCHANGED <<pool, vram, row, wpc, done, current, captured>>
    BY <2>0, <1>7 DEF PublishRow, Exact, Queue, TypeOK, Control, HelperOwned, Stopping,
                        Lines, NoLine, Running
  <2>2. DOMAIN trail = Lines /\ DOMAIN wanted = Lines
    BY DEF Exact, Chain
  <2>3. /\ Rastered' = Rastered /\ Rastered \in 0 .. p
        /\ Pending \subseteq 0 .. p - 1
        /\ \A y \in Pending' : y = p \/ y \in Pending
    <3>1. Rastered' = Rastered /\ Rastered \in 0 .. p
      BY <2>1, WaitingRows DEF Rastered, Exact
    <3>2. Pending \subseteq 0 .. p - 1
      BY <2>1, PendingLines DEF Exact
    <3>3. \A y \in Pending' : y = p \/ y \in Pending
      BY <2>1 DEF Pending, Running, Exact, Queue, TypeOK, Lines
    <3>. QED
      BY <3>1, <3>2, <3>3
  <2>4. /\ trail'[p] = serial'
        /\ serial' = Raster(serial, lines'[p].span, Painted(p)')
    <3>1. trail' = [trail EXCEPT ![p] = serial']
      BY <1>7, <2>1 DEF PublishRow
    <3>2. serial' = Raster(serial, lines[p].span, Paints(Slivers(lines'[p]), vram))
      BY <1>7, <2>1 DEF PublishRow
    <3>3. Painted(p)' = Paints(Slivers(lines'[p]), vram)
      <4>1. p \in Lines /\ pool' = pool /\ vram' = vram
        BY <2>1
      <4>. QED
        BY <4>1 DEF Painted, Slivers
    <3>4. lines'[p].span = lines[p].span
      BY <1>7, <2>1 DEF PublishRow, Exact, Queue, TypeOK, LineRecord
    <3>. QED
      BY <2>1, <2>2, <3>1, <3>2, <3>3, <3>4
  <2>5. ASSUME NEW y \in Pending, y # p
        PROVE  lines'[y] = lines[y] /\ Painted(y)' = Painted(y) /\ trail'[y] = trail[y]
    <3>0. y \in Lines /\ lines[y] \in LineRecord
      BY PendingBelow DEF Exact
    <3>1. lines'[y] = lines[y] /\ lines[y] \in LineRecord
      BY <1>7, <2>1, <2>5, <3>0 DEF PublishRow, Exact, Queue, TypeOK
    <3>2. trail'[y] = trail[y]
      BY <1>7, <2>1, <2>2, <2>5, <3>0 DEF PublishRow
    <3>. QED
      BY <2>1, <3>1, <3>2, SliversFrame
  <2>6. /\ Rastered .. published - 1 \subseteq Pending
        /\ wpc = "record" => done \in Pending
    BY <2>1, WaitingRows DEF Exact
  <2>7. serial = IF p = Rastered THEN row ELSE trail[p - 1]
    BY <2>1, <2>3 DEF Exact, Chain, Lines
  <2>8. ASSUME NEW y \in Rastered .. p
        PROVE  trail'[y] = Raster(IF y = Rastered THEN row ELSE trail'[y - 1],
                                  lines'[y].span, Painted(y)')
    <3>1. y # Rastered => trail'[y - 1] = trail[y - 1]
      <4>1. y # Rastered => y - 1 \in Rastered .. p - 1 /\ y - 1 # p
        BY <2>1, <2>3 DEF Lines
      <4>. QED
        BY <2>1, <2>5, <2>6, <4>1
    <3>2. CASE y = p
      BY <2>4, <2>7, <3>1, <3>2
    <3>3. CASE y # p
      <4>1. y \in Rastered .. published - 1 /\ y \in Pending
        BY <2>1, <2>3, <2>6, <3>3 DEF Lines
      <4>2. trail[y] = Raster(IF y = Rastered THEN row ELSE trail[y - 1],
                              lines[y].span, Painted(y))
        BY <2>1, <4>1 DEF Exact, Chain
      <4>. QED
        BY <2>5, <3>1, <3>3, <4>1, <4>2
    <3>. QED
      BY <3>2, <3>3
  <2>9. ASSUME NEW y \in Rastered .. p
        PROVE  wanted'[y] = IF lines'[y].rowOnly THEN captured'[y]
                            ELSE Captured(trail'[y], lines'[y].hasSprites)
    <3>1. CASE y = p
      <4>1. wanted'[p] = Captured(serial', used - lines[p].first > 0)
        BY <1>7, <2>1, <2>2 DEF PublishRow
      <4>2. lines'[p].hasSprites = (used - lines[p].first > 0)
        BY <1>7, <2>1 DEF PublishRow, Exact, Queue, TypeOK, LineRecord
      <4>3. ~lines'[p].rowOnly
        BY <1>7, <2>1 DEF PublishRow, Exact, Queue, TypeOK, PoolOrder, LineRecord
      <4>. QED
        BY <3>1, <4>1, <4>2, <4>3, <2>4
    <3>2. CASE y # p
      <4>0. y \in Rastered .. published - 1 /\ y \in Pending
        BY <2>1, <2>3, <2>6, <3>2 DEF Lines
      <4>1. wanted'[y] = wanted[y]
        BY <1>7, <2>1, <3>2 DEF PublishRow
      <4>. QED
        BY <2>1, <2>5, <3>2, <4>0, <4>1 DEF Exact, Chain
    <3>. QED
      BY <3>1, <3>2
  <2>10. DOMAIN trail' = Lines /\ DOMAIN wanted' = Lines /\ DOMAIN captured' = Lines
    BY <1>7, <2>1, <2>2 DEF PublishRow, Exact, Chain
  <2>11. serial' = IF Rastered' < published' THEN trail'[published' - 1] ELSE row'
    BY <2>1, <2>3, <2>4 DEF Lines
  <2>12. wpc' = "record" =>
           /\ row' = trail'[done']
           /\ wanted'[done'] = IF current'.rowOnly THEN captured'[done']
                               ELSE Captured(row', current'.hasSprites)
    <3>1. wpc = "record" => done \in Pending /\ done # p
      BY <2>1, <2>3, <2>6 DEF Lines
    <3>2. \A y : y # p => wanted'[y] = wanted[y]
      BY <1>7, <2>1 DEF PublishRow
    <3>. QED
      BY <2>1, <2>5, <3>1, <3>2 DEF Exact, Chain
  <2>13. \A y \in Rastered' .. published' - 1 :
            trail'[y] = Raster(IF y = Rastered' THEN row' ELSE trail'[y - 1],
                               lines'[y].span, Painted(y)')
    BY <2>1, <2>3, <2>8 DEF Lines
  <2>14. \A y \in Rastered' .. published' - 1 :
            wanted'[y] = IF lines'[y].rowOnly THEN captured'[y]
                         ELSE Captured(trail'[y], lines'[y].hasSprites)
    BY <2>1, <2>3, <2>9 DEF Lines
  <2>. QED
    BY <2>10, <2>11, <2>12, <2>13, <2>14 DEF Chain
<1>8. CASE SerialRow
  BY <1>8 DEF SerialRow, Exact, Queue, TypeOK, Control, HelperOwned, Chain, Stopping,
              Running, Idle, Rastered, Pending, Painted, Slivers
<1>9. CASE RefuseLine
  BY <1>9 DEF RefuseLine, Stop, Exact, Queue, TypeOK, Control, HelperOwned, Chain,
              Stopping, Running, Idle, Rastered, Pending, Painted, Slivers
<1>10. CASE FallBackRow
  <2>0. PICK p : p = open
    OBVIOUS
  <2>1. /\ p = open /\ p # NoLine /\ p \in Lines /\ published = p /\ published' = p + 1
        /\ Running /\ Running' /\ UNCHANGED <<pool, vram, row, wpc, done, current, captured>>
    BY <2>0, <1>10 DEF FallBackRow, Stop, Exact, Queue, TypeOK, Control, HelperOwned,
                       Stopping,
                        Lines, NoLine, Running
  <2>2. DOMAIN trail = Lines /\ DOMAIN wanted = Lines
    BY DEF Exact, Chain
  <2>2a. wanted' = [wanted EXCEPT ![p] = captured[p]]
    BY <1>10, <2>1 DEF FallBackRow, Stop
  <2>3. /\ Rastered' = Rastered /\ Rastered \in 0 .. p
        /\ Pending \subseteq 0 .. p - 1
        /\ \A y \in Pending' : y = p \/ y \in Pending
    <3>1. Rastered' = Rastered /\ Rastered \in 0 .. p
      BY <2>1, WaitingRows DEF Rastered, Exact
    <3>2. Pending \subseteq 0 .. p - 1
      BY <2>1, PendingLines DEF Exact
    <3>3. \A y \in Pending' : y = p \/ y \in Pending
      BY <2>1 DEF Pending, Running, Exact, Queue, TypeOK, Lines
    <3>. QED
      BY <3>1, <3>2, <3>3
  <2>4. /\ trail'[p] = serial'
        /\ serial' = Raster(serial, lines'[p].span, Painted(p)')
    <3>1. trail' = [trail EXCEPT ![p] = serial']
      BY <1>10, <2>1 DEF FallBackRow, Stop
    <3>2. serial' = Raster(serial, lines[p].span, Paints(Slivers(lines'[p]), vram))
      BY <1>10, <2>1 DEF FallBackRow, Stop
    <3>3. Painted(p)' = Paints(Slivers(lines'[p]), vram)
      <4>1. p \in Lines /\ pool' = pool /\ vram' = vram
        BY <2>1
      <4>. QED
        BY <4>1 DEF Painted, Slivers
    <3>4. lines'[p].span = lines[p].span
      BY <1>10, <2>1 DEF FallBackRow, Stop, Exact, Queue, TypeOK, LineRecord
    <3>. QED
      BY <2>1, <2>2, <3>1, <3>2, <3>3, <3>4
  <2>5. ASSUME NEW y \in Pending, y # p
        PROVE  lines'[y] = lines[y] /\ Painted(y)' = Painted(y) /\ trail'[y] = trail[y]
    <3>0. y \in Lines /\ lines[y] \in LineRecord
      BY PendingBelow DEF Exact
    <3>1. lines'[y] = lines[y] /\ lines[y] \in LineRecord
      BY <1>10, <2>1, <2>5, <3>0 DEF FallBackRow, Stop, Exact, Queue, TypeOK
    <3>2. trail'[y] = trail[y]
      BY <1>10, <2>1, <2>2, <2>5, <3>0 DEF FallBackRow, Stop
    <3>. QED
      BY <2>1, <3>1, <3>2, SliversFrame
  <2>6. /\ Rastered .. published - 1 \subseteq Pending
        /\ wpc = "record" => done \in Pending
    BY <2>1, WaitingRows DEF Exact
  <2>7. serial = IF p = Rastered THEN row ELSE trail[p - 1]
    BY <2>1, <2>3 DEF Exact, Chain, Lines
  <2>8. ASSUME NEW y \in Rastered .. p
        PROVE  trail'[y] = Raster(IF y = Rastered THEN row ELSE trail'[y - 1],
                                  lines'[y].span, Painted(y)')
    <3>1. y # Rastered => trail'[y - 1] = trail[y - 1]
      <4>1. y # Rastered => y - 1 \in Rastered .. p - 1 /\ y - 1 # p
        BY <2>1, <2>3 DEF Lines
      <4>. QED
        BY <2>1, <2>5, <2>6, <4>1
    <3>2. CASE y = p
      BY <2>4, <2>7, <3>1, <3>2
    <3>3. CASE y # p
      <4>1. y \in Rastered .. published - 1 /\ y \in Pending
        BY <2>1, <2>3, <2>6, <3>3 DEF Lines
      <4>2. trail[y] = Raster(IF y = Rastered THEN row ELSE trail[y - 1],
                              lines[y].span, Painted(y))
        BY <2>1, <4>1 DEF Exact, Chain
      <4>. QED
        BY <2>5, <3>1, <3>3, <4>1, <4>2
    <3>. QED
      BY <3>2, <3>3
  <2>9. ASSUME NEW y \in Rastered .. p
        PROVE  wanted'[y] = IF lines'[y].rowOnly THEN captured'[y]
                            ELSE Captured(trail'[y], lines'[y].hasSprites)
    <3>1. lines'[p].rowOnly = TRUE
      BY <1>10, <2>1 DEF FallBackRow, Stop, Exact, Queue, TypeOK, LineRecord
    <3>2. wanted'[p] = captured[p] /\ \A z \in Lines : z # p => wanted'[z] = wanted[z]
      BY <2>1, <2>2, <2>2a
    <3>3. CASE y # p
      <4>0. y \in Rastered .. published - 1 /\ y \in Pending
        BY <2>1, <2>3, <2>6, <3>3 DEF Lines
      <4>1. y \in Lines
        BY <4>0, PendingLines DEF Exact
      <4>. QED
        BY <2>1, <2>5, <3>2, <3>3, <4>0, <4>1 DEF Exact, Chain
    <3>. QED
      BY <2>1, <3>1, <3>2, <3>3
  <2>10. DOMAIN trail' = Lines /\ DOMAIN wanted' = Lines /\ DOMAIN captured' = Lines
    BY <1>10, <2>1, <2>2 DEF FallBackRow, Stop, Exact, Chain
  <2>11. serial' = IF Rastered' < published' THEN trail'[published' - 1] ELSE row'
    BY <2>1, <2>3, <2>4 DEF Lines
  <2>12. wpc' = "record" =>
           /\ row' = trail'[done']
           /\ wanted'[done'] = IF current'.rowOnly THEN captured'[done']
                               ELSE Captured(row', current'.hasSprites)
    <3>1. wpc = "record" => done \in Pending /\ done # p
      BY <2>1, <2>3, <2>6 DEF Lines
    <3>2. \A y \in Lines : y # p => wanted'[y] = wanted[y]
      BY <2>2, <2>2a
    <3>. QED
      BY <2>1, <2>5, <3>1, <3>2, PendingLines DEF Exact, Chain
  <2>13. \A y \in Rastered' .. published' - 1 :
            trail'[y] = Raster(IF y = Rastered' THEN row' ELSE trail'[y - 1],
                               lines'[y].span, Painted(y)')
    BY <2>1, <2>3, <2>8 DEF Lines
  <2>14. \A y \in Rastered' .. published' - 1 :
            wanted'[y] = IF lines'[y].rowOnly THEN captured'[y]
                         ELSE Captured(trail'[y], lines'[y].hasSprites)
    BY <2>1, <2>3, <2>9 DEF Lines
  <2>. QED
    BY <2>10, <2>11, <2>12, <2>13, <2>14 DEF Chain
<1>11. CASE FallBackWrite
  BY <1>11 DEF FallBackWrite, Stop, Exact, Queue, TypeOK, Control, HelperOwned, Chain,
               Stopping, Running, Idle, Rastered, Pending, Painted, Slivers
<1>12. CASE EndCapture
  BY <1>12 DEF EndCapture, Stop, Exact, Queue, TypeOK, Control, HelperOwned, Chain,
               Stopping, Running, Idle, Rastered, Pending, Painted, Slivers
<1>13. CASE EndRecording
  BY <1>13 DEF EndRecording, Exact, Queue, TypeOK, Control, HelperOwned, Chain,
               Stopping, Running, Idle, Rastered, Pending, Painted, Slivers
<1>14. CASE CloseQueue
  BY <1>14 DEF CloseQueue, Exact, Queue, TypeOK, Control, HelperOwned, Chain, Stopping,
               Running, Idle, Rastered, Pending, Painted, Slivers
<1>15. CASE SignalClose
  BY <1>15 DEF SignalClose, Exact, Queue, TypeOK, Control, HelperOwned, Chain, Stopping,
               Running, Idle, Rastered, Pending, Painted, Slivers
<1>16. CASE Join
  BY <1>16 DEF Join, Exact, Queue, TypeOK, Control, HelperOwned, Chain, Stopping,
               Running, Idle, Rastered, Pending, Painted, Slivers
<1>17. CASE SignalRow
  BY <1>17 DEF SignalRow, Exact, Queue, TypeOK, Control, HelperOwned, Chain, Stopping,
               Running, Idle, Rastered, Pending, Painted, Slivers
<1>18. CASE DrawFallenBack
  BY <1>18 DEF DrawFallenBack, Exact, Queue, TypeOK, Control, HelperOwned, Chain,
               Stopping, Running, Idle, Rastered, Pending, Painted, Slivers
<1>19. CASE WriteFallenBack
  BY <1>19 DEF WriteFallenBack, Exact, Queue, TypeOK, Control, HelperOwned, Chain,
               Stopping, Running, Idle, Rastered, Pending, Painted, Slivers
<1>20. CASE FreezeCapture
  BY <1>20 DEF FreezeCapture, Exact, Queue, TypeOK, Control, HelperOwned, Chain,
               Stopping, Running, Idle, Rastered, Pending, Painted, Slivers
<1>21. CASE WorkerStart
  BY <1>21 DEF WorkerStart, Exact, Queue, TypeOK, Control, HelperOwned, Chain, Stopping,
               Running, Idle, Rastered, Pending, Painted, Slivers
<1>22. CASE PollPublished
  BY <1>22 DEF PollPublished, Exact, Queue, TypeOK, Control, HelperOwned, Chain,
               Stopping, Running, Idle, Rastered, Pending, Painted, Slivers
<1>23. CASE RasterizeRow
  <2>1. /\ Running /\ wpc = "raster" /\ wpc' = "record" /\ done < published /\ Running'
        /\ UNCHANGED <<lines, pool, vram, published, done, trail, wanted, captured, serial>>
        /\ current' = lines[done]
    BY <1>23 DEF RasterizeRow, Running, Idle, Exact, Queue, Control
  <2>2. Rastered = done /\ Rastered' = done + 1
    BY <2>1 DEF Rastered
  <2>3. row' = Raster(row, lines[done].span, Painted(done))
    BY <1>23, <2>1 DEF RasterizeRow, Painted
  <2>4. published \in Nat /\ done \in Nat
    BY DEF Exact, Queue, TypeOK
  <2>5. row' = trail[done]
    BY <2>1, <2>2, <2>3, <2>4 DEF Exact, Chain
  <2>6. wanted[done] = IF current'.rowOnly THEN captured[done]
                       ELSE Captured(row', current'.hasSprites)
    BY <2>1, <2>2, <2>4, <2>5 DEF Exact, Chain
  <2>7. \A y : Painted(y)' = Painted(y)
    BY <2>1 DEF Painted, Slivers
  <2>. QED
    BY <2>1, <2>2, <2>4, <2>5, <2>6, <2>7 DEF Exact, Chain
<1>23a. CASE RasterizeEarly
  <2>1. /\ Running' /\ wpc' = "record" /\ done = published - 1 /\ done \in Lines
        /\ serial' = row' /\ trail' = [trail EXCEPT ![done] = row']
        /\ wanted' = [wanted EXCEPT ![done] =
                        IF current'.rowOnly THEN @ ELSE Captured(row', current'.hasSprites)]
        /\ UNCHANGED <<published, done, captured>>
    BY <1>23a DEF RasterizeEarly, Running, Idle, Exact, Queue, TypeOK, Lines, Control
  <2>2. published \in Nat /\ done \in Nat
    BY DEF Exact, Queue, TypeOK
  <2>3. Rastered = done /\ Rastered' = published' /\ done \in Rastered .. published - 1
    BY <1>23a, <2>1, <2>2 DEF RasterizeEarly, Rastered
  <2>4. wanted[done] = captured[done]
    <3>1. lines[done].rowOnly
      BY <1>23a, <2>1, EarlyRow DEF Exact
    <3>2. Running
      BY <1>23a DEF RasterizeEarly, Running, Idle
    <3>. QED
      BY <2>3, <3>1, <3>2 DEF Exact, Chain
  <2>5. DOMAIN trail' = Lines /\ DOMAIN wanted' = Lines /\ DOMAIN captured' = Lines
    BY <2>1 DEF Exact, Chain
  <2>6. row' = trail'[done'] /\ wanted'[done'] = IF current'.rowOnly THEN captured'[done']
                                                ELSE Captured(row', current'.hasSprites)
    BY <2>1, <2>4 DEF Exact, Chain
  <2>. QED
    BY <2>1, <2>2, <2>3, <2>5, <2>6 DEF Chain
<1>24. CASE RecordRow
  <2>1. /\ Running /\ wpc = "record" /\ wpc' = "poll" /\ Running' /\ done' = done + 1
        /\ UNCHANGED <<lines, pool, vram, published, trail, wanted, serial, row>>
    BY <1>24 DEF RecordRow, Running, Idle
  <2>2. Rastered' = Rastered
    BY <2>1 DEF Rastered
  <2>3. \A y \in Rastered .. published - 1 : captured'[y] = captured[y]
    <3>1. Rastered = done + 1 /\ done \in Nat
      BY <2>1 DEF Rastered, Exact, Queue, TypeOK
    <3>. QED
      BY <1>24, <3>1 DEF RecordRow
  <2>4. \A y : Painted(y)' = Painted(y)
    BY <2>1 DEF Painted, Slivers
  <2>5. DOMAIN captured' = Lines
    BY <1>24 DEF RecordRow, Exact, Chain
  <2>. QED
    BY <2>1, <2>2, <2>3, <2>4, <2>5 DEF Exact, Chain
<1>25. CASE PollClosing
  BY <1>25 DEF PollClosing, Exact, Queue, TypeOK, Control, HelperOwned, Chain, Stopping,
               Running, Idle, Rastered, Pending, Painted, Slivers
<1>26. CASE PollLast
  BY <1>26 DEF PollLast, Exact, Queue, TypeOK, Control, HelperOwned, Chain, Stopping,
               Running, Idle, Rastered, Pending, Painted, Slivers
<1>27. CASE Pause
  BY <1>27 DEF Pause, Exact, Queue, TypeOK, Control, HelperOwned, Chain, Stopping,
               Running, Idle, Rastered, Pending, Painted, Slivers
<1>28. CASE UNCHANGED vars
  BY <1>28 DEF Exact, Queue, TypeOK, Control, HelperOwned, Chain, Stopping, Running,
               Idle, Rastered, Pending, Painted, Slivers
<1>. QED
  BY <1>1, <1>2, <1>3, <1>4, <1>5, <1>6, <1>7, <1>8, <1>9, <1>10, <1>11, 
     <1>12, <1>13, <1>14, <1>15, <1>16, <1>17, <1>18, <1>19, <1>20, <1>21, 
     <1>22, <1>23, <1>23a, <1>24, <1>25, <1>26, <1>27, <1>28
     DEF Next, GuestStep, Helper

\* The chain starts empty.
LEMMA InitExact == Init => Exact
<1>. SUFFICES ASSUME Init PROVE Exact
  OBVIOUS
<1>1. ~Running /\ Pending = {} /\ beam = 0 /\ ppuRow = serial
  BY DEF Init, Running, Pending, Idle
<1>2. Chain
  BY <1>1 DEF Init, Chain, Running, Idle
<1>3. Recorded
  BY <1>1 DEF Recorded
<1>. QED
  BY <1>1, <1>2, <1>3, InitQueue DEF Exact, LiveRowExact

\* Exact is inductive.
LEMMA ExactStep == Exact /\ [Next]_vars => Exact'
<1>. SUFFICES ASSUME Exact, [Next]_vars PROVE Exact'
  OBVIOUS
<1>1. Queue'
  BY QueueStep DEF Exact
<1>. QED
  BY <1>1, ChainStep, RecordedStep, LiveStep DEF Exact

\* Exact holds in every state.
THEOREM ExactInvariant == Spec => []Exact
<1>1. Init => Exact
  BY InitExact
<1>2. Exact /\ [Next]_vars => Exact'
  BY ExactStep
<1>. QED
  BY <1>1, <1>2, PTL DEF Spec

\* The row Stop hands back to the PPU is the one serial evaluation would have
\* reached, whatever the sizes of the pool, the line and the frame.
THEOREM LiveRowIsSerial == Spec => []LiveRowExact
<1>1. Exact => LiveRowExact
  BY DEF Exact
<1>. QED
  BY <1>1, ExactInvariant, PTL

\* Past Stop every captured row is the one serial evaluation would have
\* captured, so the fallback replays and the freeze copies the right rows.
THEOREM CaptureIsSerial == Spec => []CaptureExact
<1>1. Exact => CaptureExact
  BY DEF Exact, Recorded, CaptureExact, Pending
<1>. QED
  BY <1>1, ExactInvariant, PTL

\* The whole strengthening TLC checks, as one invariant.
THEOREM InductiveHolds == Spec => []Inductive
<1>1. Init => Inductive
  BY InitExact DEF Exact, Queue, Inductive
<1>2. Inductive /\ [Next]_vars => Inductive'
  BY QueueStep, ExactStep DEF Exact, Queue, Inductive
<1>. QED
  BY <1>1, <1>2, PTL DEF Spec

-----------------------------------------------------------------------------
(***************************************************************************)
(* Deferring sprite rows implements the serial evaluator of SpriteRows: with*)
(* the helper hidden, each step is one row drawn, one row captured, one word*)
(* written, the row that Stop handed over arriving or getting lost, or     *)
(* nothing.                                                                *)
(***************************************************************************)

\* The instance rasterizes as the model does.
LEMMA SameRaster ==
  \A old, span, paints : Serial!Raster(old, span, paints) = Raster(old, span, paints)
  BY DEF Raster, Serial!Raster, Backdrop, Serial!Backdrop

\* The instance decodes slivers as the model does.
LEMMA SamePaints ==
  \A slivers, mem : Serial!Paints(slivers, mem) = Paints(slivers, mem)
  BY DEF Paints, Serial!Paints, Decode, Serial!Decode, Later, Serial!Later

\* The instance copies rows as the model does.
LEMMA SameCaptured ==
  \A pixels, has : Serial!Captured(pixels, has) = Captured(pixels, has)
  BY DEF Captured, Serial!Captured, NoSprites, Serial!NoSprites

\* The instance ranges over the model's lines and selections.
LEMMA SameSets ==
  Serial!Lines = Lines /\ Serial!Selection = Selection /\ Serial!Sliver = Sliver
  BY DEF Lines, Serial!Lines, Selection, Serial!Selection, Sliver, Serial!Sliver,
         Later, Serial!Later

\* What the abstract evaluator sees of a step: nothing, a memory write, a row
\* drawn, a row captured, or a row handed over that arrives or gets lost.
Hidden == UNCHANGED <<vram, serial, Taken, HandedOver>>
Writes == ~HandedOver /\ UNCHANGED <<serial, Taken, HandedOver>>
          /\ \E t \in Tiles, w \in Words : vram' = [vram EXCEPT ![t] = w]
Draws == ~HandedOver /\ UNCHANGED <<vram, Taken>>
         /\ \E span \in SUBSET Columns, slivers \in Selection :
              serial' = Raster(serial, span, Paints(slivers, vram))
Captures == ~HandedOver /\ ~HandedOver' /\ vram' = vram
            /\ \E y \in Lines, span \in SUBSET Columns, slivers \in Selection :
                 /\ serial' = Raster(serial, span, Paints(slivers, vram))
                 /\ Taken' = [Taken EXCEPT ![y] = Captured(serial', slivers # <<>>)]
Arrives == HandedOver /\ ~HandedOver' /\ UNCHANGED <<vram, serial, Taken>>
Loses == /\ HandedOver /\ ~HandedOver' /\ vram' = vram /\ serial' \in [Columns -> Words]
         /\ \/ Taken' = Taken
            \/ \E y \in Lines, hasSprites \in BOOLEAN :
                 Taken' = [Taken EXCEPT ![y] = Captured(serial', hasSprites)]

\* The capture with the waiting rows in it follows the queue.
LEMMA TakenFrame ==
  ASSUME UNCHANGED <<captured, wanted>>, Pending' = Pending
  PROVE  Taken' = Taken
  BY DEF Taken

\* The pool slots of one line are something the evaluator may select.
LEMMA SelectedSlivers ==
  ASSUME NEW l, l.first \in Nat, l.count \in 0 .. LineSlivers, l.first + l.count <= Pool,
         pool \in [0 .. Pool - 1 -> Sliver]
  PROVE  Slivers(l) \in Selection /\ (Slivers(l) # <<>>) = (l.count > 0)
<1>1. Slivers(l) \in [1 .. l.count -> Sliver]
  <2>1. ASSUME NEW i \in 1 .. l.count PROVE pool[l.first + i - 1] \in Sliver
    <3>1. l.first + i - 1 \in 0 .. Pool - 1
      OBVIOUS
    <3>. QED
      BY <3>1
  <2>. QED
    BY <2>1 DEF Slivers
<1>2. Slivers(l) \in Selection
  BY <1>1 DEF Selection
<1>3. CASE l.count = 0
  <2>1. Slivers(l) \in Seq(Sliver) /\ Len(Slivers(l)) = 0
    BY <1>1, <1>3
  <2>. QED
    BY <1>2, <1>3, <2>1
<1>4. CASE l.count # 0
  <2>1. Slivers(l) \in Seq(Sliver) /\ Len(Slivers(l)) = l.count
    BY <1>1
  <2>. QED
    BY <1>2, <1>4, <2>1
<1>. QED
  BY <1>3, <1>4

\* What the serial evaluator sees of each step.  A row is drawn or captured
\* when it is published, not when the helper reaches it.
LEMMA SeenStep ==
  ASSUME Exact, [Next]_vars
  PROVE  Hidden \/ Writes \/ Draws \/ Captures \/ Arrives \/ Loses
<1>1. CASE Begin
  BY <1>1, TakenFrame DEF Begin, Start, Exact, Queue, TypeOK, Control, HelperOwned,
                          Stopping, Running, Idle, Pending, Hidden, Writes, Arrives,
                          HandedOver, Rastered, Resume
<1>2. CASE NextFrame
  BY <1>2, TakenFrame DEF NextFrame, Exact, Queue, TypeOK, Control, HelperOwned,
                          Stopping, Running, Idle, Pending, Hidden, Writes, Arrives,
                          HandedOver, Rastered, Resume
<1>3. CASE WriteVram
  BY <1>3, TakenFrame DEF WriteVram, Exact, Queue, TypeOK, Control, HelperOwned,
                          Stopping, Running, Idle, Pending, Hidden, Writes, Arrives,
                          HandedOver, Rastered, Resume
<1>4. CASE WritePastEnd
  BY <1>4, TakenFrame DEF WritePastEnd, Exact, Queue, TypeOK, Control, HelperOwned,
                          Stopping, Running, Idle, Pending, Hidden, Writes, Arrives,
                          HandedOver, Rastered, Resume
<1>5. CASE BeginLine
  BY <1>5, TakenFrame DEF BeginLine, Exact, Queue, TypeOK, Control, Pending, Running, Idle,
                          Hidden, HandedOver, Rastered
<1>6. CASE SelectSliver
  BY <1>6, TakenFrame DEF SelectSliver, Exact, Queue, TypeOK, Control, HelperOwned,
                          Stopping, Running, Idle, Pending, Hidden, Writes, Arrives,
                          HandedOver, Rastered, Resume
<1>7. CASE PublishRow
  <2>0. PICK p : p = open
    OBVIOUS
  <2>1. /\ p = open /\ p # NoLine /\ p \in Lines /\ published = p /\ published' = p + 1
        /\ Running /\ Running' /\ p = beam /\ UNCHANGED <<pool, vram, wpc, done, captured>>
    BY <2>0, <1>7 DEF PublishRow, Exact, Queue, TypeOK, Control, HelperOwned, Stopping,
                        Lines, NoLine, Running
  <2>2. Pending' = Pending \cup {p} /\ p \notin Pending /\ Pending \subseteq Lines
    BY <2>1, PendingLines DEF Pending, Running, Exact, Queue, TypeOK, Control, Lines
  <2>3. lines'[p] = [lines[p] EXCEPT !.hasSprites = (used - lines[p].first > 0), !.count = used - lines[p].first]
        /\ \A y \in Lines : y # p => lines'[y] = lines[y]
    BY <1>7, <2>1 DEF PublishRow, Exact, Queue, TypeOK
  <2>4. /\ lines[p] \in LineRecord /\ used \in 0 .. Pool
        /\ lines[p].first <= used /\ used - lines[p].first <= LineSlivers
        /\ lines[p].rowOnly = FALSE
    BY <2>1 DEF Exact, Queue, TypeOK, PoolOrder, LineRecord
  <2>5. /\ lines'[p].first = lines[p].first /\ lines'[p].span = lines[p].span
        /\ lines'[p].count = used - lines[p].first /\ lines[p].first \in Nat
        /\ lines'[p].rowOnly = FALSE /\ lines[p].span \in Spans \cup {{}}
    BY <2>3, <2>4 DEF LineRecord
  <2>6. Slivers(lines'[p]) \in Selection
        /\ (Slivers(lines'[p]) # <<>>) = (used - lines[p].first > 0)
    <3>1. /\ lines'[p].first \in Nat /\ lines'[p].count \in 0 .. LineSlivers
          /\ lines'[p].first + lines'[p].count <= Pool
      BY <2>4, <2>5
    <3>2. pool \in [0 .. Pool - 1 -> Sliver]
      BY DEF Exact, Queue, TypeOK
    <3>3. Slivers(lines'[p]) \in Selection
          /\ (Slivers(lines'[p]) # <<>>) = (lines'[p].count > 0)
      BY <3>1, <3>2, SelectedSlivers
    <3>. QED
      BY <2>5, <3>3
  <2>7. serial' = Raster(serial, lines[p].span, Paints(Slivers(lines'[p]), vram))
    BY <1>7, <2>1 DEF PublishRow
  <2>8. wanted' = [wanted EXCEPT ![p] = Captured(serial', used - lines[p].first > 0)]
    BY <1>7, <2>1 DEF PublishRow
  <2>9. Taken' = [Taken EXCEPT ![p] = Captured(serial', Slivers(lines'[p]) # <<>>)]
    <3>1. DOMAIN wanted = Lines
      BY DEF Exact, Chain
    <3>2. wanted'[p] = Captured(serial', Slivers(lines'[p]) # <<>>)
      BY <2>1, <2>6, <2>8, <3>1
    <3>3. Taken'[p] = wanted'[p]
      BY <2>1, <2>2 DEF Taken
    <3>4. ASSUME NEW y \in Lines, y # p PROVE Taken'[y] = Taken[y]
      <4>1. wanted'[y] = wanted[y] /\ lines'[y] = lines[y] /\ captured' = captured
            /\ (y \in Pending' <=> y \in Pending)
        BY <2>1, <2>2, <2>3, <2>8, <3>1, <3>4
      <4>. QED
        BY <4>1 DEF Taken
    <3>. QED
      BY <2>1, <3>2, <3>3, <3>4 DEF Taken
  <2>10. ~HandedOver /\ ~HandedOver'
    BY <1>7 DEF PublishRow, HandedOver, Exact, Queue, Control
  <2>. QED
    BY <2>1, <2>5, <2>6, <2>7, <2>9, <2>10 DEF Captures
<1>8. CASE SerialRow
  <2>1. /\ ~Running /\ Pending = {} /\ Pending' = {} /\ ppuRow = serial
        /\ beam \in Lines /\ vram' = vram
    BY <1>8 DEF SerialRow, Exact, Queue, TypeOK, HelperOwned, LiveRowExact, Pending,
                Running,
                Resume, Lines
  <2>2. PICK span \in Spans, slivers \in Selection, takes \in BOOLEAN :
          /\ ppuRow' = Raster(ppuRow, span, Paints(slivers, vram))
          /\ serial' = Raster(serial, span, Paints(slivers, vram))
          /\ IF recording /\ takes
               THEN captured' = [captured EXCEPT ![beam] = Captured(ppuRow', slivers # <<>>)]
               ELSE captured' = captured
    BY <1>8 DEF SerialRow
  <2>3. Taken = [y \in Lines |-> captured[y]] /\ Taken' = [y \in Lines |-> captured'[y]]
    BY <2>1 DEF Taken
  <2>3a. ~HandedOver /\ ~HandedOver'
    BY <1>8 DEF SerialRow, HandedOver, Exact, Queue, Control, Resume
  <2>4. CASE captured' = captured
    BY <2>1, <2>2, <2>3, <2>4, <2>3a DEF Draws
  <2>5. CASE captured' = [captured EXCEPT ![beam] = Captured(ppuRow', slivers # <<>>)]
    <3>1. DOMAIN captured = Lines
      BY DEF Exact, Chain
    <3>2. Taken' = [Taken EXCEPT ![beam] = Captured(serial', slivers # <<>>)]
      BY <2>1, <2>2, <2>3, <2>5, <3>1
    <3>. QED
      BY <2>1, <2>2, <2>3a, <3>2 DEF Captures
  <2>. QED
    BY <2>2, <2>4, <2>5
<1>9. CASE RefuseLine
  BY <1>9, TakenFrame DEF RefuseLine, Stop, Exact, Queue, TypeOK, Control, HelperOwned,
                          Stopping, Running, Idle, Pending, Hidden, Writes, Arrives,
                          HandedOver, Rastered, Resume
<1>10. CASE FallBackRow
  <2>0. PICK p : p = open
    OBVIOUS
  <2>1. /\ p = open /\ p # NoLine /\ p \in Lines /\ published = p /\ published' = p + 1
        /\ Running /\ Running' /\ p = beam /\ UNCHANGED <<pool, vram, wpc, done, captured>>
    BY <2>0, <1>10 DEF FallBackRow, Stop, Exact, Queue, TypeOK, Control, HelperOwned,
                       Stopping,
                        Lines, NoLine, Running
  <2>2. Pending' = Pending \cup {p} /\ p \notin Pending /\ Pending \subseteq Lines
    BY <2>1, PendingLines DEF Pending, Running, Exact, Queue, TypeOK, Control, Lines
  <2>3. lines'[p] = [lines[p] EXCEPT !.rowOnly = TRUE, !.count = used - lines[p].first]
        /\ \A y \in Lines : y # p => lines'[y] = lines[y]
    BY <1>10, <2>1 DEF FallBackRow, Stop, Exact, Queue, TypeOK
  <2>4. /\ lines[p] \in LineRecord /\ used \in 0 .. Pool
        /\ lines[p].first <= used /\ used - lines[p].first <= LineSlivers
        /\ lines[p].rowOnly = FALSE
    BY <2>1 DEF Exact, Queue, TypeOK, PoolOrder, LineRecord
  <2>5. /\ lines'[p].first = lines[p].first /\ lines'[p].span = lines[p].span
        /\ lines'[p].count = used - lines[p].first /\ lines[p].first \in Nat
        /\ lines'[p].rowOnly = TRUE /\ lines[p].span \in Spans \cup {{}}
    BY <2>3, <2>4 DEF LineRecord
  <2>6. Slivers(lines'[p]) \in Selection
        /\ (Slivers(lines'[p]) # <<>>) = (used - lines[p].first > 0)
    <3>1. /\ lines'[p].first \in Nat /\ lines'[p].count \in 0 .. LineSlivers
          /\ lines'[p].first + lines'[p].count <= Pool
      BY <2>4, <2>5
    <3>2. pool \in [0 .. Pool - 1 -> Sliver]
      BY DEF Exact, Queue, TypeOK
    <3>3. Slivers(lines'[p]) \in Selection
          /\ (Slivers(lines'[p]) # <<>>) = (lines'[p].count > 0)
      BY <3>1, <3>2, SelectedSlivers
    <3>. QED
      BY <2>5, <3>3
  <2>7. serial' = Raster(serial, lines[p].span, Paints(Slivers(lines'[p]), vram))
    BY <1>10, <2>1 DEF FallBackRow, Stop
  <2>8. wanted'[p] = captured[p] /\ \A y \in Lines : y # p => wanted'[y] = wanted[y]
    <3>1. wanted' = [wanted EXCEPT ![p] = captured[p]]
      BY <1>10, <2>1 DEF FallBackRow, Stop
    <3>. QED
      BY <2>1, <3>1 DEF Exact, Chain
  <2>9. Taken' = Taken
    BY <2>1, <2>2, <2>8 DEF Taken
  <2>10. ~HandedOver
    BY <1>10 DEF FallBackRow, HandedOver, Exact, Queue, Control
  <2>. QED
    BY <2>1, <2>5, <2>6, <2>7, <2>9, <2>10 DEF Draws
<1>11. CASE FallBackWrite
  BY <1>11, TakenFrame DEF FallBackWrite, Stop, Exact, Queue, TypeOK, Control,
                           HelperOwned, Stopping, Running, Idle, Pending, Hidden, Writes,
                           Arrives, HandedOver, Rastered, Resume
<1>12. CASE EndCapture
  BY <1>12, TakenFrame DEF EndCapture, Stop, Exact, Queue, TypeOK, Control, HelperOwned,
                           Stopping, Running, Idle, Pending, Hidden, Writes, Arrives,
                           HandedOver, Rastered, Resume
<1>13. CASE EndRecording
  BY <1>13, TakenFrame DEF EndRecording, Exact, Queue, TypeOK, Control, HelperOwned,
                           Stopping, Running, Idle, Pending, Hidden, Writes, Arrives,
                           HandedOver, Rastered, Resume
<1>14. CASE CloseQueue
  BY <1>14, TakenFrame DEF CloseQueue, Exact, Queue, TypeOK, Control, HelperOwned,
                           Stopping, Running, Idle, Pending, Hidden, Writes, Arrives,
                           HandedOver, Rastered, Resume
<1>15. CASE SignalClose
  BY <1>15, TakenFrame DEF SignalClose, Exact, Queue, TypeOK, Control, HelperOwned,
                           Stopping, Running, Idle, Pending, Hidden, Writes, Arrives,
                           HandedOver, Rastered, Resume
<1>16. CASE Join
  BY <1>16, TakenFrame DEF Join, Exact, Queue, TypeOK, Control, HelperOwned, Stopping,
                           Running, Idle, Pending, Hidden, Writes, Arrives, HandedOver,
                           Rastered, Resume
<1>17. CASE SignalRow
  BY <1>17, TakenFrame DEF SignalRow, Exact, Queue, TypeOK, Control, HelperOwned,
                           Stopping, Running, Idle, Pending, Hidden, Writes, Arrives,
                           HandedOver, Rastered, Resume
<1>18. CASE DrawFallenBack
  BY <1>18, TakenFrame DEF DrawFallenBack, Exact, Queue, TypeOK, Control, HelperOwned,
                           Stopping, Running, Idle, Pending, Hidden, Writes, Arrives,
                           HandedOver, Rastered, Resume
<1>19. CASE WriteFallenBack
  BY <1>19, TakenFrame DEF WriteFallenBack, Exact, Queue, TypeOK, Control, HelperOwned,
                           Stopping, Running, Idle, Pending, Hidden, Writes, Arrives,
                           HandedOver, Rastered, Resume
<1>20. CASE FreezeCapture
  BY <1>20, TakenFrame DEF FreezeCapture, Exact, Queue, TypeOK, Control, HelperOwned,
                           Stopping, Running, Idle, Pending, Hidden, Writes, Arrives,
                           HandedOver, Rastered, Resume
<1>21. CASE WorkerStart
  BY <1>21, TakenFrame DEF WorkerStart, Exact, Queue, TypeOK, Control, HelperOwned,
                           Stopping, Running, Idle, Pending, Hidden, Writes, Arrives,
                           HandedOver, Rastered, Resume
<1>22. CASE PollPublished
  BY <1>22, TakenFrame DEF PollPublished, Exact, Queue, TypeOK, Control, HelperOwned,
                           Stopping, Running, Idle, Pending, Hidden, Writes, Arrives,
                           HandedOver, Rastered, Resume
<1>23. CASE RasterizeRow
  <2>1. UNCHANGED <<vram, serial, Taken>>
    BY <1>23, TakenFrame DEF RasterizeRow, Pending, Running, Idle
  <2>2. HandedOver' => HandedOver
    BY <1>23 DEF RasterizeRow, HandedOver, Rastered, Exact, Queue, TypeOK
  <2>. QED
    BY <2>1, <2>2 DEF Hidden, Arrives, HandedOver
<1>23a. CASE RasterizeEarly
  <2>1. /\ late /\ wpc = "raster" /\ wpc' = "record" /\ done = published - 1
        /\ serial' = row' /\ row' \in [Columns -> Words]
        /\ UNCHANGED <<vram, captured, done, published>>
    BY <1>23a DEF RasterizeEarly
  <2>2. HandedOver /\ ~HandedOver'
    BY <2>1 DEF HandedOver, Rastered, Exact, Queue, TypeOK
  <2>3. done \in Pending /\ Pending' = Pending /\ done \in Lines
    BY <1>23a, <2>1, EarlyRow, PendingLines DEF Exact, Pending, Running, Idle
  <2>4. CASE current'.rowOnly
    <3>1. \A y \in Lines : wanted'[y] = wanted[y]
      BY <1>23a, <2>4 DEF RasterizeEarly, Exact, Chain
    <3>2. Taken' = Taken
      BY <2>1, <2>3, <3>1 DEF Taken
    <3>. QED
      BY <2>1, <2>2, <3>2 DEF Loses
  <2>5. CASE ~current'.rowOnly
    <3>1. PICK hasSprites \in BOOLEAN :
            wanted' = [wanted EXCEPT ![done] = Captured(serial', hasSprites)]
      <4>1. current'.hasSprites \in BOOLEAN
        BY <1>23a, TypeStep DEF Exact, Queue, TypeOK, LineRecord
      <4>. QED
        BY <1>23a, <2>1, <2>5, <4>1 DEF RasterizeEarly
    <3>2. Taken' = [Taken EXCEPT ![done] = Captured(serial', hasSprites)]
      BY <2>1, <2>3, <3>1 DEF Taken, Exact, Chain
    <3>. QED
      BY <2>1, <2>2, <2>3, <3>2 DEF Loses
  <2>. QED
    BY <2>4, <2>5
<1>24. CASE RecordRow
  <2>1. /\ Running /\ wpc = "record" /\ done < published /\ done \in Lines
        /\ done' = done + 1 /\ wpc' = "poll"
        /\ UNCHANGED <<published, lines, wanted, serial, vram>>
    BY <1>24 DEF RecordRow, Exact, Queue, TypeOK, Control, Running, Idle, Lines
  <2>2. done \in Pending /\ Pending' = Pending \ {done}
    BY <2>1 DEF Pending, Running, Idle, Exact, Queue, TypeOK
  <2>3. captured'[done] = wanted[done] /\ \A y : y # done => captured'[y] = captured[y]
    BY <1>24, <2>1 DEF RecordRow, Exact, Chain
  <2>4. Taken' = Taken
    BY <2>1, <2>2, <2>3 DEF Taken
  <2>5. HandedOver' = HandedOver
    BY <1>24, <2>1 DEF RecordRow, HandedOver, Rastered
  <2>. QED
    BY <2>1, <2>4, <2>5 DEF Hidden
<1>25. CASE PollClosing
  BY <1>25, TakenFrame DEF PollClosing, Exact, Queue, TypeOK, Control, HelperOwned,
                           Stopping, Running, Idle, Pending, Hidden, Writes, Arrives,
                           HandedOver, Rastered, Resume
<1>26. CASE PollLast
  BY <1>26, TakenFrame DEF PollLast, Exact, Queue, TypeOK, Control, HelperOwned,
                           Stopping, Running, Idle, Pending, Hidden, Writes, Arrives,
                           HandedOver, Rastered, Resume
<1>27. CASE Pause
  BY <1>27, TakenFrame DEF Pause, Exact, Queue, TypeOK, Control, HelperOwned, Stopping,
                           Running, Idle, Pending, Hidden, Writes, Arrives, HandedOver,
                           Rastered, Resume
<1>28. CASE UNCHANGED vars
  BY <1>28, TakenFrame DEF Exact, Queue, TypeOK, Control, HelperOwned, Stopping,
                           Running, Idle, Pending, Hidden, Writes, Arrives, HandedOver,
                           Rastered, Resume
<1>. QED
  BY <1>1, <1>2, <1>3, <1>4, <1>5, <1>6, <1>7, <1>8, <1>9, <1>10, <1>11, 
     <1>12, <1>13, <1>14, <1>15, <1>16, <1>17, <1>18, <1>19, <1>20, <1>21, 
     <1>22, <1>23, <1>23a, <1>24, <1>25, <1>26, <1>27, <1>28
     DEF Next, GuestStep, Helper

\* The mapped row is the serial evaluator's.
LEMMA LiveRowSerial == Exact => LiveRow = serial
  BY DEF Exact, LiveRowExact, LiveRow

\* The initial states map to the serial evaluator's.
LEMMA InitRefines == Init => Serial!SRInit
<1>. SUFFICES ASSUME Init PROVE Serial!SRInit
  OBVIOUS
<1>1. LiveRow = [c \in Columns |-> Backdrop]
  BY DEF Init, LiveRow
<1>2. Taken = [y \in Lines |-> NoSprites]
  BY DEF Init, Taken, Pending, Running, Idle
<1>3. HandedOver = FALSE
  BY DEF Init, HandedOver
<1>. QED
  BY <1>1, <1>2, <1>3, SameSets
  DEF Init, Serial!SRInit, Backdrop, Serial!Backdrop, NoSprites, Serial!NoSprites

\* Every step maps to a step of the serial evaluator or to none.
LEMMA StepRefines ==
  ASSUME Exact, Exact', [Next]_vars
  PROVE  [Serial!SRNext]_(Serial!srvars)
<1>1. LiveRow = serial /\ LiveRow' = serial'
  BY LiveRowSerial DEF Exact, LiveRowExact, LiveRow
<1>0. HandedOver \in BOOLEAN /\ HandedOver' \in BOOLEAN
  BY DEF HandedOver
<1>2. CASE Hidden
  BY <1>1, <1>2 DEF Hidden, Serial!srvars
<1>3. CASE Writes
  BY <1>1, <1>3 DEF Writes, Serial!SRNext, Serial!WriteWord
<1>4. CASE Draws
  BY <1>0, <1>1, <1>4, SameRaster, SamePaints, SameSets DEF Draws, Serial!SRNext, Serial!DrawRow
<1>5. CASE Captures
  BY <1>0, <1>1, <1>5, SameRaster, SamePaints, SameSets, SameCaptured
  DEF Captures, Serial!SRNext, Serial!CaptureRow
<1>6. CASE Arrives
  BY <1>0, <1>1, <1>6 DEF Arrives, Serial!SRNext, Serial!Arrive
<1>7. CASE Loses
  BY <1>0, <1>1, <1>7, SameSets, SameCaptured
  DEF Loses, Serial!SRNext, Serial!LoseRow
<1>. QED
  BY <1>2, <1>3, <1>4, <1>5, <1>6, <1>7, SeenStep

\* Deferring sprite rows is invisible: the helper, its queue and the hand-over
\* of the row (Lufia2PpuObjDeferStart to Stop) implement serial evaluation.
THEOREM DeferralIsSerial == Spec => ImplementsSerial
<1>1. Init => Serial!SRInit
  BY InitRefines
<1>2. Exact /\ Exact' /\ [Next]_vars => [Serial!SRNext]_(Serial!srvars)
  BY StepRefines
<1>. QED
  BY <1>1, <1>2, ExactInvariant, PTL DEF Spec, ImplementsSerial, Serial!SRSpec

\* No write reaches a word that a published row still has to read: the ports
\* fall back first, and words past VRAM were read at selection.
THEOREM SourcesStable == Spec => SourceStable
<1>1. ASSUME Queue, [Next]_vars, NEW y \in Pending, NEW i \in DOMAIN Slivers(lines[y])
      PROVE  Decode(Slivers(lines[y])[i], vram') = Decode(Slivers(lines[y])[i], vram)
  <2>1. CASE WritePastEnd
    BY <2>1, <1>1, PastEndDecode
  <2>2. CASE ~WritePastEnd
    <3>1. vram' = vram
      BY <1>1, <2>2
      DEF Next, GuestStep, Helper, Begin, NextFrame, WriteVram, BeginLine, SelectSliver,
          PublishRow, SerialRow, RefuseLine, FallBackRow, FallBackWrite, EndCapture,
          EndRecording, Stop, CloseQueue, SignalClose, Join, SignalRow, DrawFallenBack,
          WriteFallenBack, FreezeCapture, WorkerStart, PollPublished, RasterizeRow,
          RasterizeEarly, RecordRow, PollClosing, PollLast, Pause, Queue, Control, HelperOwned, Stopping,
          Pending, Resume
    <3>. QED
      BY <3>1
  <2>. QED
    BY <2>1, <2>2
<1>2. Queue /\ [Next]_vars =>
        [\A y \in Pending : \A i \in DOMAIN Slivers(lines[y]) :
           LET sliver == Slivers(lines[y])[i]
           IN  Decode(sliver, vram') = Decode(sliver, vram)]_vram
  BY <1>1
<1>. QED
  BY <1>2, QueueInvariant, PTL DEF Spec, SourceStable
=============================================================================
