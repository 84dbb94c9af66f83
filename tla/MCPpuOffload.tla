----------------------------- MODULE MCPpuOffload -----------------------------
(* Frames of two rows.  EpochSpan is small enough for the epoch to wrap.   *)
EXTENDS PpuOffload
=============================================================================
