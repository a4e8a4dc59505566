------------------------------- MODULE MCSpu --------------------------------
(***************************************************************************)
(* A sound chip small enough to check: two blocks of two samples, an       *)
(* envelope of four bits, sectors of two frames.                           *)
(***************************************************************************)
EXTENDS Spu

\* Blocks that go on, end a sound, loop, and are looped to.
MCFlags ==
  {{}, {"end"}, {"end", "repeat"}, {"start"}, {"start", "end", "repeat"}}

\* A quick note that dies away, and a slow one that does not.
MCPatches ==
  {[attack |-> [shift |-> 0, step |-> 0, exponential |-> FALSE], decay |-> 1,
    sustainLevel |-> 0, falling |-> TRUE, release |-> 1, dying |-> TRUE,
    sustain |-> [shift |-> 1, step |-> 3, exponential |-> TRUE]],
   [attack |-> [shift |-> 2, step |-> 3, exponential |-> TRUE], decay |-> 0,
    sustainLevel |-> 15, falling |-> FALSE, release |-> 3, dying |-> FALSE,
    sustain |-> [shift |-> 1, step |-> 0, exponential |-> FALSE]]}
=============================================================================
