----------------------------- MODULE MCConsole -----------------------------
(***************************************************************************)
(* A console small enough to check: periods of a few cycles, two of them   *)
(* equal as the scanline's and the counters' are, so that ties happen.     *)
(***************************************************************************)
EXTENDS Console

MCPeriod == [Hblank |-> 1, CdRom |-> 2, Timers |-> 1, Spu |-> 3]
=============================================================================
