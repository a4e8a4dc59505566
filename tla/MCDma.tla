------------------------------- MODULE MCDma -------------------------------
(***************************************************************************)
(* A controller small enough to check: the GPU's channel and the ordering  *)
(* table's, transfers of a word or two.                                    *)
(***************************************************************************)
EXTENDS Dma

\* Either channel may come first, and they may tie.
MCPriorities ==
  {[c \in Channels |-> 0], [c \in Channels |-> IF c = OTC THEN 1 ELSE 0]}

\* No software touches the priorities.
OnePriority == {[c \in Channels |-> 0]}
=============================================================================
