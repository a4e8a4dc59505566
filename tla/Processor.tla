----------------------------- MODULE Processor ------------------------------
(***************************************************************************)
(* The processor a program is written for: one instruction after another,  *)
(* a branch taking its delay slot with it, a load there as soon as it is   *)
(* made, a trap served in between, and no interrupts.                      *)
(***************************************************************************)
EXTENDS Mips

VARIABLES
  code,    \* the program
  at,      \* the instruction to run
  after,   \* the one after it
  regs,
  mem,
  gte,     \* the commands the geometry engine has run
  traps    \* the traps the kernel has served

vars == <<code, at, after, regs, mem, gte, traps>>

Init ==
  /\ code \in [Word -> Instruction]
  /\ at = 0 /\ after = Following(0)
  /\ regs = [r \in Registers |-> 0] /\ mem = 0
  /\ gte = 0 /\ traps = 0

Instr == code[at]

Moves == at' = after /\ after' = Following(after)
Goes(to) == at' = after /\ after' = to

Compute ==
  \/ Instr.op = "alu"   /\ regs' = [regs EXCEPT ![Instr.d] = Computed(regs[Instr.s])]
  \/ Instr.op = "load"  /\ regs' = [regs EXCEPT ![Instr.d] = mem]
  \/ Instr.op = "merge" /\ regs' = [regs EXCEPT ![Instr.d] = Merged(@, mem)]

Execute ==
  \/ Compute /\ Moves /\ UNCHANGED <<mem, gte, traps>>
  \/ Instr.op = "store" /\ mem' = regs[Instr.s] /\ Moves /\ UNCHANGED <<regs, gte, traps>>
  \/ /\ Instr.op = "branch"
     /\ IF regs[Instr.s] # 0 THEN Goes(Instr.to) ELSE Moves
     /\ UNCHANGED <<regs, mem, gte, traps>>
  \/ /\ Instr.op = "link"
     /\ regs' = [regs EXCEPT ![Instr.d] = Following(after)] /\ Goes(Instr.to)
     /\ UNCHANGED <<mem, gte, traps>>
  \/ Instr.op = "jump" /\ Goes(regs[Instr.s]) /\ UNCHANGED <<regs, mem, gte, traps>>
  \/ Instr.op = "gte"  /\ gte' = (gte + 1) % 2 /\ Moves /\ UNCHANGED <<regs, mem, traps>>
  \/ Instr.op = "trap" /\ traps' = (traps + 1) % 2 /\ Moves /\ UNCHANGED <<regs, mem, gte>>

Next == Execute /\ UNCHANGED code

Spec == Init /\ [][Next]_vars
=============================================================================
