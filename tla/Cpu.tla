-------------------------------- MODULE Cpu ---------------------------------
(***************************************************************************)
(* The processor as it is built (src/cpu.cpp): two program counters for the*)
(* branch delay, one pending load for the load delay, exceptions that may  *)
(* come in either, and the kernel's handler, which returns by the address  *)
(* the exception left it.  A step is Cpu::step; the interrupt line is the  *)
(* interrupt controller's, unmasked.                                       *)
(*                                                                         *)
(* Not followed: the coprocessors' enable bits (COP2 is on), user mode, bus*)
(* errors and unaligned accesses, which are traps as any other, halting on *)
(* an unknown instruction, and the registers that are only stored.         *)
(***************************************************************************)
EXTENDS Mips, Sequences

VARIABLES
  code,       \* the program in RAM
  pc, next,   \* pc and next_pc
  branching,
  regs,       \* regs, which out_regs equal between steps
  load,       \* load_reg and load_value, or NoLoad
  mem,
  epc, cause, \* COP0 r14; r13 as its code and its branch-delay bit
  sr,         \* the three interrupt enables of COP0 r12, the current one first
  line,       \* Irq::active
  gte, traps, \* the commands run, the traps served, modulo 2
  redo        \* history: a branch waits to be run again for its delay slot

vars == <<code, pc, next, branching, regs, load, mem, epc, cause, sr, line,
          gte, traps, redo>>

-----------------------------------------------------------------------------
(* The kernel: its handler, and the one register it keeps for itself.      *)

K0 == "k0"
Vector == Length
KernelCode == <<"mfc0 k0, epc", "acknowledge", "step over", "jr k0", "rfe">>
InKernel == pc >= Vector
Kernel(a) == KernelCode[a - Vector + 1]

\* The address after, in the program or in the kernel.
After(a) == IF a \in Word THEN Following(a) ELSE a + 1

\* Where the handler goes back to: over a trap, and over a command of the
\* geometry engine that an interrupt found under way.
Return(address, code_) ==
  IF cause.code = "trap" \/ (cause.code = "interrupt" /\ code_[address].op = "gte")
  THEN Following(address) ELSE address

NoLoad == [reg |-> "zero", value |-> 0]

\* A program's registers are those it may write and keep: neither $zero nor $k0.
ASSUME CpuAssumption == Registers \cap {NoLoad.reg, K0} = {}

Init ==
  /\ code \in {c \in [Word -> Alphabet] : Obedient(c)}
  /\ pc = 0 /\ next = Following(0) /\ branching = FALSE
  /\ regs = [r \in Registers \cup {K0} |-> 0]
  /\ load = NoLoad /\ mem = 0
  /\ epc = 0 /\ cause = [code |-> "none", bd |-> FALSE]
  /\ sr = <<TRUE, FALSE, FALSE>> /\ line = FALSE
  /\ gte = 0 /\ traps = 0 /\ redo = FALSE

-----------------------------------------------------------------------------
(* Cpu::step.                                                              *)

\* The last instruction's load lands, whatever becomes of this one.
Landed ==
  IF load = NoLoad THEN regs ELSE [regs EXCEPT ![load.reg] = load.value]

\* Mutant: a load that follows another to its register leaves what that brought.
RetiresLanded(out, loads) == regs' = out /\ load' = loads

\* The step's registers, and the load it leaves: one to the register a load has
\* just landed in puts back what that displaced.
Retires(out, loads) ==
  /\ regs' = IF loads # NoLoad /\ loads.reg = load.reg
             THEN [out EXCEPT ![load.reg] = regs[load.reg]] ELSE out
  /\ load' = loads

\* interrupt_pending.
Interrupted == sr[1] /\ line

\* Mutant: the address of the instruction itself, slot or not.
ReturnPointHere == pc

\* What raise_exception puts into epc: in a delay slot, the branch.
ReturnPoint == IF branching THEN Preceding(pc) ELSE pc

\* Mutant: the stack of modes is pushed and the current one left.
PushedOn(s) == <<s[1], s[1], s[2]>>

\* raise_exception pushes a mode with interrupts off; RFE pops, the oldest
\* staying where it is.
Pushed(s) == <<FALSE, s[1], s[2]>>
Popped(s) == <<s[2], s[3], s[3]>>

\* raise_exception.
Raises(why, out) ==
  /\ Retires(out, NoLoad)
  /\ sr' = Pushed(sr)
  /\ cause' = [code |-> why, bd |-> branching]
  /\ epc' = ReturnPoint
  /\ pc' = Vector /\ next' = Vector + 1 /\ branching' = FALSE
  /\ redo' = (redo \/ branching)

\* The counters move on, with or without a branch.
Runs(out, loads) ==
  /\ Retires(out, loads)
  /\ pc' = next /\ next' = After(next) /\ branching' = FALSE
  /\ UNCHANGED <<epc, cause>>
Branches(out, to) ==
  /\ Retires(out, NoLoad)
  /\ pc' = next /\ next' = to /\ branching' = TRUE
  /\ UNCHANGED <<epc, cause>>

\* Taken in place of the instruction, which runs on return.
TakeInterrupt ==
  /\ Interrupted
  /\ ~InKernel => code[pc].op # "gte"
  /\ Raises("interrupt", Landed)
  /\ UNCHANGED <<mem, gte, traps>>

\* An instruction of the program's, no interrupt in its place.
I == code[pc]
Fetched(ops) == ~InKernel /\ I.op \in ops /\ ~Interrupted

Alu ==
  /\ Fetched({"alu"})
  /\ Runs([Landed EXCEPT ![I.d] = Computed(regs[I.s])], NoLoad)
  /\ UNCHANGED <<mem, sr, gte, traps, redo>>

Load ==
  /\ Fetched({"load"})
  /\ Runs(Landed, [reg |-> I.d, value |-> mem])
  /\ UNCHANGED <<mem, sr, gte, traps, redo>>

\* LWL and LWR merge into the register as it will be, the delay passed by.
Merge ==
  /\ Fetched({"merge"})
  /\ Runs(Landed, [reg |-> I.d, value |-> Merged(Landed[I.d], mem)])
  /\ UNCHANGED <<mem, sr, gte, traps, redo>>

Store ==
  /\ Fetched({"store"})
  /\ mem' = regs[I.s]
  /\ Runs(Landed, NoLoad)
  /\ UNCHANGED <<sr, gte, traps, redo>>

Branch ==
  /\ Fetched({"branch"})
  /\ IF regs[I.s] # 0 THEN Branches(Landed, I.to) ELSE Runs(Landed, NoLoad)
  /\ redo' = FALSE
  /\ UNCHANGED <<mem, sr, gte, traps>>

Link ==
  /\ Fetched({"link"})
  /\ Branches([Landed EXCEPT ![I.d] = After(next)], I.to)
  /\ redo' = FALSE
  /\ UNCHANGED <<mem, sr, gte, traps>>

Jump ==
  /\ Fetched({"jump"})
  /\ Branches(Landed, regs[I.s])
  /\ redo' = FALSE
  /\ UNCHANGED <<mem, sr, gte, traps>>

Trap ==
  /\ Fetched({"trap"})
  /\ Raises("trap", Landed)
  /\ traps' = (traps + 1) % 2
  /\ UNCHANGED <<mem, gte>>

\* Mutant: an interrupt takes the place of the command too.
GteReplaced ==
  /\ ~InKernel /\ I.op = "gte"
  /\ IF Interrupted THEN Raises("interrupt", Landed) /\ UNCHANGED gte
     ELSE Runs(Landed, NoLoad) /\ gte' = (gte + 1) % 2 /\ UNCHANGED <<sr, redo>>
  /\ UNCHANGED <<mem, traps>>

\* A command of the geometry engine runs, interrupt or not; the interrupt is
\* taken after it and reports its address.
Gte ==
  /\ ~InKernel /\ I.op = "gte"
  /\ gte' = (gte + 1) % 2
  /\ IF Interrupted THEN Raises("interrupt", Landed)
     ELSE Runs(Landed, NoLoad) /\ UNCHANGED <<sr, redo>>
  /\ UNCHANGED <<mem, traps>>

\* The handler's instructions, which run with interrupts off.
Handler ==
  /\ InKernel /\ ~Interrupted
  /\ \/ /\ Kernel(pc) = "mfc0 k0, epc"
        /\ Runs(Landed, [reg |-> K0, value |-> epc])
        /\ UNCHANGED <<sr, line>>
     \/ /\ Kernel(pc) = "acknowledge"
        /\ line' = (line /\ cause.code # "interrupt")
        /\ Runs(Landed, NoLoad) /\ UNCHANGED sr
     \/ /\ Kernel(pc) = "step over"
        /\ Runs([Landed EXCEPT ![K0] = Return(regs[K0], code)], NoLoad)
        /\ UNCHANGED <<sr, line>>
     \/ /\ Kernel(pc) = "jr k0"
        /\ Branches(Landed, regs[K0])
        /\ UNCHANGED <<sr, line>>
     \/ /\ Kernel(pc) = "rfe"
        /\ sr' = Popped(sr)
        /\ Runs(Landed, NoLoad) /\ UNCHANGED line
  /\ UNCHANGED <<mem, gte, traps, redo>>

Program ==
  Alu \/ Load \/ Merge \/ Store \/ Branch \/ Link \/ Jump \/ Trap \/ Gte

\* A device asks for the processor.
RaiseLine ==
  /\ ~line /\ line' = TRUE
  /\ UNCHANGED <<code, pc, next, branching, regs, load, mem, epc, cause, sr,
                 gte, traps, redo>>

Next ==
  \/ (Program \/ TakeInterrupt) /\ UNCHANGED <<code, line>>
  \/ Handler /\ UNCHANGED code
  \/ RaiseLine

Spec == Init /\ [][Next]_vars

-----------------------------------------------------------------------------
(* What is checked.                                                        *)

TypeOK ==
  /\ pc \in 0 .. Vector + Len(KernelCode) - 1 /\ next \in Nat
  /\ regs \in [Registers \cup {K0} -> Word]
  /\ load = NoLoad \/ load \in [reg : Registers \cup {K0}, value : Word]
  /\ mem \in Word /\ epc \in Word
  /\ sr \in BOOLEAN \X BOOLEAN \X BOOLEAN

\* Wherever the program runs its interrupts are on as it had them, and the
\* handler has them off until the instruction that leaves it, however an
\* interrupt and a trap fall together (raise_exception, RFE).
InterruptsBackOn == sr[1] = ~InKernel

\* The instruction after a load never reads what it brings, nor what a load
\* just before it to the same register brought (Cpu::step's order of landing,
\* schedule_load, set_reg).
LoadDelay ==
  [][~InKernel /\ IsLoad(I) /\ pc' = next => regs'[I.d] = regs[I.d]]_vars

\* The program's place: where the handler returns to, and past a branch that
\* only waits to be run again.  Nothing but a branch may wait for that.
Place == IF InKernel THEN Return(epc, code) ELSE pc
Target(i) ==
  IF i.op = "jump" THEN regs[i.s] ELSE IF IsBranch(i) THEN i.to ELSE Vector

At == IF redo THEN Following(Place) ELSE Place
Later ==
  IF redo THEN Target(code[Place]) ELSE IF InKernel THEN Following(Place) ELSE next

\* Its registers, a load on its way to one included.
Seen == [r \in Registers |-> IF load.reg = r THEN load.value ELSE regs[r]]

Programme == INSTANCE Processor WITH at <- At, after <- Later, regs <- Seen

\* An obedient program runs as though there were no interrupts, no delayed loads
\* and no handler: whatever instruction an interrupt comes at, in a branch's
\* delay slot, behind a load or at a command of the geometry engine, every
\* instruction takes effect once and goes on with what it should find.
InterruptsUnseen == Programme!Spec
=============================================================================
