------------------------------- MODULE MCCpu --------------------------------
(***************************************************************************)
(* Every obedient program of four instructions out of these, in a ring.    *)
(***************************************************************************)
EXTENDS Cpu

MCAlphabet ==
  {[op |-> "alu", d |-> "a", s |-> "b"], [op |-> "alu", d |-> "b", s |-> "b"],
   [op |-> "load", d |-> "a"], [op |-> "load", d |-> "b"],
   [op |-> "merge", d |-> "a"], [op |-> "store", s |-> "a"],
   [op |-> "jump", s |-> "b"], [op |-> "gte"], [op |-> "trap"],
   [op |-> "branch", s |-> "a", to |-> 0], [op |-> "branch", s |-> "b", to |-> 3],
   [op |-> "link", d |-> "b", to |-> 2]}
=============================================================================
