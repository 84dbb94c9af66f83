------------------------------ MODULE MCSpcNative ------------------------------
(* SpcNative for TLC. *)
EXTENDS SpcNative

\* What nothing looks at does not tell two states apart: where the SPC stands
\* while the driver has the APU; what was written last in a state that has
\* strayed; and, while the SPC has the APU and nothing is queued, the clock.
\* Each is set anew before it is looked at, and the driver meets every value of
\* the clock.
PlaceSeen(owned, at) == IF owned THEN "native" ELSE at
WrittenSeen(astray, what) == IF astray THEN <<>> ELSE what
ClockSeen == IF active THEN cycles ELSE 0

View ==
  <<ClockSeen, PlaceSeen(Used, place), hardware, queue, runDelay, runDeferred, mode,
    running, accesses, WrittenSeen(strayed, written), strayed,
    [saved EXCEPT !.place = PlaceSeen(saved.active, @),
                  !.written = WrittenSeen(saved.strayed, @)]>>
=============================================================================
