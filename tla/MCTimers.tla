------------------------------ MODULE MCTimers ------------------------------
(***************************************************************************)
(* Counters small enough to check: two or three bits wide, scanlines of    *)
(* three cycles, frames of two or three scanlines.                         *)
(***************************************************************************)
EXTENDS Timers

Plain == [synced |-> FALSE, sync |-> 0, resets |-> FALSE, onTarget |-> TRUE, onWrap |-> FALSE,
          repeats |-> FALSE, fast |-> TRUE]

\* Every sync setting on both clocks, and a reset at the target with the
\* counter free and with one that blanking zeroes.
SyncModes ==
  {[Plain EXCEPT !.synced = TRUE, !.sync = s, !.fast = f] : s \in 0 .. 3, f \in BOOLEAN}
    \cup {[Plain EXCEPT !.synced = z, !.sync = 1, !.resets = TRUE, !.fast = f] :
            z \in BOOLEAN, f \in BOOLEAN}
    \cup {[Plain EXCEPT !.fast = f] : f \in BOOLEAN}

\* The ways of asking for an interrupt, with the counter free to run.
InterruptModes ==
  {[Plain EXCEPT !.resets = r, !.onWrap = w, !.repeats = p] :
     r \in BOOLEAN, w \in BOOLEAN, p \in BOOLEAN}
=============================================================================
