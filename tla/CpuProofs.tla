----------------------------- MODULE CpuProofs ------------------------------
(***************************************************************************)
(* What is proved of the processor (Cpu), for programs of any length, any  *)
(* registers and any alphabet of instructions.                             *)
(***************************************************************************)
EXTENDS Cpu, TLAPS

Kept == Registers \cup {K0}
Loads == {NoLoad} \cup [reg : Kept, value : Word]

Typed ==
  /\ code \in [Word -> Instruction]
  /\ regs \in [Kept -> Word] /\ load \in Loads
  /\ mem \in Word /\ epc \in Word
  /\ sr \in BOOLEAN \X BOOLEAN \X BOOLEAN

\* In the program both counters are in it and interrupts are on.
InProgram == pc \in Word /\ next \in Word /\ sr[1]

\* In the handler they are off, and were on; the counters go through it, and
\* out of it behind its jump.
Served ==
  /\ ~sr[1] /\ sr[2]
  /\ \/ pc \in {Vector, Vector + 1, Vector + 2, Vector + 3} /\ next = pc + 1
     \/ pc = Vector + 4 /\ next \in Word

Inductive == Typed /\ (InProgram \/ Served)

-----------------------------------------------------------------------------
(* The operators a step is made of.                                        *)

LEMMA Rounds ==
  ASSUME NEW a \in Word
  PROVE  /\ Following(a) \in Word /\ Preceding(a) \in Word
         /\ Computed(a) \in Word /\ After(a) \in Word
  BY MipsAssumption DEF Following, Preceding, Computed, After, Word

LEMMA Merges ==
  ASSUME NEW a \in Word, NEW b \in Word
  PROVE  Merged(a, b) \in Word
  BY MipsAssumption DEF Merged, Word

LEMMA Places ==
  /\ Vector \in Nat /\ Vector \notin Word
  /\ \A a \in Word : a < Vector
  /\ \A n \in Nat : Vector + n \notin Word /\ After(Vector + n) = Vector + n + 1
  BY MipsAssumption DEF Vector, Word, After

LEMMA Fields ==
  ASSUME NEW i \in Instruction
  PROVE  /\ i.op \in {"alu", "load", "merge", "link"} => i.d \in Registers
         /\ i.op \in {"alu", "store", "jump", "branch"} => i.s \in Registers
         /\ i.op \in {"branch", "link"} => i.to \in Word
  BY DEF Instruction

LEMMA Lands ==
  ASSUME regs \in [Kept -> Word], load \in Loads
  PROVE  Landed \in [Kept -> Word]
  BY DEF Landed, Loads, NoLoad

LEMMA Retired ==
  ASSUME regs \in [Kept -> Word], load \in Loads,
         NEW out \in [Kept -> Word], NEW loads \in Loads,
         Retires(out, loads)
  PROVE  regs' \in [Kept -> Word] /\ load' \in Loads
  BY DEF Retires, Loads, NoLoad

\* An instruction that goes on, in the program, with the counters it leaves.
LEMMA GoesOn ==
  ASSUME Inductive, InProgram,
         NEW out \in [Kept -> Word], NEW loads \in Loads,
         Retires(out, loads), pc' = next, next' \in Word,
         mem' \in Word, UNCHANGED <<code, epc, sr>>
  PROVE  Inductive'
<1>1. regs' \in [Kept -> Word] /\ load' \in Loads
  BY Retired DEF Inductive, Typed
<1>2. Typed'
  BY <1>1 DEF Inductive, Typed
<1>3. InProgram'
  BY DEF InProgram
<1> QED
  BY <1>2, <1>3 DEF Inductive

\* An exception, from the program.
LEMMA Excepts ==
  ASSUME Inductive, InProgram, NEW why, Raises(why, Landed),
         UNCHANGED <<code, mem>>
  PROVE  Inductive'
<1>1. Landed \in [Kept -> Word] /\ NoLoad \in Loads
  BY Lands DEF Inductive, Typed, Loads
<1>2. regs' \in [Kept -> Word] /\ load' \in Loads
  BY <1>1, Retired DEF Inductive, Typed, Raises
<1>3. epc' \in Word
  BY Rounds DEF Raises, ReturnPoint, InProgram
<1>4. sr' = <<FALSE, sr[1], sr[2]>>
  BY DEF Raises, Pushed
<1>5. Typed'
  BY <1>2, <1>3, <1>4 DEF Inductive, Typed
<1>6. ~sr'[1] /\ sr'[2]
  BY <1>4 DEF InProgram
<1>7. pc' = Vector /\ next' = Vector + 1
  BY DEF Raises
<1>8. Served'
  BY <1>6, <1>7 DEF Served
<1> QED
  BY <1>5, <1>8 DEF Inductive

\* Where the processor is, it tells by the program counter.
LEMMA Where ==
  ASSUME Inductive
  PROVE  /\ InKernel <=> Served
         /\ ~InKernel <=> InProgram
         /\ InKernel => ~Interrupted
<1>1. InProgram => pc < Vector /\ sr[1] = TRUE
  BY Places DEF InProgram
<1>2. Served => pc >= Vector /\ sr[1] = FALSE
  BY Places DEF Served
<1> QED
  BY <1>1, <1>2, Places DEF Inductive, InKernel, InProgram, Served, Interrupted, Word

-----------------------------------------------------------------------------
(* The steps.                                                              *)

LEMMA ProgramKeeps ==
  ASSUME Inductive, Program \/ TakeInterrupt, UNCHANGED <<code, line>>
  PROVE  Inductive'
<1> USE DEF Fetched
<1>1. InProgram
  BY Where DEF Program, Alu, Load, Merge, Store, Branch, Link, Jump, Trap, Gte,
               TakeInterrupt
<1>2. /\ I \in Instruction /\ Landed \in [Kept -> Word] /\ NoLoad \in Loads
      /\ next \in Word /\ After(next) \in Word /\ mem \in Word
      /\ regs \in [Kept -> Word] /\ Registers \subseteq Kept
  BY <1>1, Lands, Rounds DEF Inductive, Typed, InProgram, I, Loads, Kept
<1>3. CASE Alu
  <2> DEFINE out == [Landed EXCEPT ![I.d] = Computed(regs[I.s])]
  <2>1. out \in [Kept -> Word]
    BY <1>2, <1>3, Fields, Rounds DEF Alu
  <2>2. Retires(out, NoLoad) /\ pc' = next /\ next' = After(next)
        /\ UNCHANGED <<epc, sr, mem>>
    BY <1>3 DEF Alu, Runs
  <2> HIDE DEF out
  <2> QED
    BY <1>1, <1>2, <2>1, <2>2, GoesOn
<1>4. CASE Load
  <2> DEFINE loads == [reg |-> I.d, value |-> mem]
  <2>1. loads \in Loads
    BY <1>2, <1>4, Fields DEF Load, Loads
  <2>2. Retires(Landed, loads) /\ pc' = next /\ next' = After(next)
        /\ UNCHANGED <<epc, sr, mem>>
    BY <1>4 DEF Load, Runs
  <2> HIDE DEF loads
  <2> QED
    BY <1>1, <1>2, <2>1, <2>2, GoesOn
<1>5. CASE Merge
  <2> DEFINE loads == [reg |-> I.d, value |-> Merged(Landed[I.d], mem)]
  <2>1. loads \in Loads
    BY <1>2, <1>5, Fields, Merges DEF Merge, Loads
  <2>2. Retires(Landed, loads) /\ pc' = next /\ next' = After(next)
        /\ UNCHANGED <<epc, sr, mem>>
    BY <1>5 DEF Merge, Runs
  <2> HIDE DEF loads
  <2> QED
    BY <1>1, <1>2, <2>1, <2>2, GoesOn
<1>6. CASE Store
  <2>1. mem' \in Word
    BY <1>2, <1>6, Fields DEF Store
  <2>2. Retires(Landed, NoLoad) /\ pc' = next /\ next' = After(next)
        /\ UNCHANGED <<epc, sr>>
    BY <1>6 DEF Store, Runs
  <2> QED
    BY <1>1, <1>2, <2>1, <2>2, GoesOn
<1>7. CASE Branch
  <2>1. Retires(Landed, NoLoad) /\ pc' = next /\ next' \in Word
        /\ UNCHANGED <<epc, sr, mem>>
    BY <1>2, <1>7, Fields DEF Branch, Runs, Branches
  <2> QED
    BY <1>1, <1>2, <2>1, GoesOn
<1>8. CASE Link
  <2> DEFINE out == [Landed EXCEPT ![I.d] = After(next)]
  <2>1. out \in [Kept -> Word]
    BY <1>2, <1>8, Fields DEF Link
  <2>2. Retires(out, NoLoad) /\ pc' = next /\ next' \in Word
        /\ UNCHANGED <<epc, sr, mem>>
    BY <1>2, <1>8, Fields DEF Link, Branches
  <2> HIDE DEF out
  <2> QED
    BY <1>1, <1>2, <2>1, <2>2, GoesOn
<1>9. CASE Jump
  <2>1. Retires(Landed, NoLoad) /\ pc' = next /\ next' \in Word
        /\ UNCHANGED <<epc, sr, mem>>
    BY <1>2, <1>9, Fields DEF Jump, Branches
  <2> QED
    BY <1>1, <1>2, <2>1, GoesOn
<1>10. CASE Trap
  BY <1>1, <1>10, Excepts DEF Trap
<1>11. CASE Gte /\ Interrupted
  BY <1>1, <1>11, Excepts DEF Gte
<1>12. CASE Gte /\ ~Interrupted
  <2>1. Retires(Landed, NoLoad) /\ pc' = next /\ next' = After(next)
        /\ UNCHANGED <<epc, sr, mem>>
    BY <1>12 DEF Gte, Runs
  <2> QED
    BY <1>1, <1>2, <2>1, GoesOn
<1>13. CASE TakeInterrupt
  BY <1>1, <1>13, Excepts DEF TakeInterrupt
<1> QED
  BY <1>3, <1>4, <1>5, <1>6, <1>7, <1>8, <1>9, <1>10, <1>11, <1>12, <1>13
     DEF Program

LEMMA HandlerKeeps ==
  ASSUME Inductive, Handler, UNCHANGED code
  PROVE  Inductive'
<1> USE DEF Kernel, KernelCode
<1>1. Served
  BY Where DEF Handler
<1>2. /\ Landed \in [Kept -> Word] /\ NoLoad \in Loads /\ K0 \in Kept
      /\ regs \in [Kept -> Word] /\ epc \in Word /\ UNCHANGED mem
      /\ Vector \in Nat
  BY <1>1, Lands, Places DEF Inductive, Typed, Loads, Kept, Handler
<1>3. CASE pc \in {Vector, Vector + 1, Vector + 2} /\ next = pc + 1
  <2>1. PICK out \in [Kept -> Word], loads \in Loads :
          Runs(out, loads) /\ UNCHANGED sr
    <3>1. CASE pc = Vector
      <4> DEFINE loads == [reg |-> K0, value |-> epc]
      <4>1. loads \in Loads
        BY <1>2 DEF Loads
      <4>2. Runs(Landed, loads) /\ UNCHANGED sr
        BY <1>2, <3>1 DEF Handler
      <4> HIDE DEF loads
      <4> QED
        BY <1>2, <4>1, <4>2
    <3>2. CASE pc = Vector + 1
      BY <1>2, <3>2 DEF Handler
    <3>3. CASE pc = Vector + 2
      <4> DEFINE out == [Landed EXCEPT ![K0] = Return(regs[K0], code)]
      <4>1. out \in [Kept -> Word]
        BY <1>2, Rounds DEF Return
      <4>2. Runs(out, NoLoad) /\ UNCHANGED sr
        BY <1>2, <3>3 DEF Handler
      <4> HIDE DEF out
      <4> QED
        BY <1>2, <4>1, <4>2
    <3> QED
      BY <1>3, <3>1, <3>2, <3>3
  <2>2. Typed'
    BY <1>2, <2>1, Retired DEF Inductive, Typed, Runs
  <2>3. pc' \in {Vector + 1, Vector + 2, Vector + 3} /\ next' = pc' + 1
    BY <1>2, <1>3, <2>1, Places DEF Runs
  <2>4. ~sr'[1] /\ sr'[2]
    BY <1>1, <2>1 DEF Served
  <2> QED
    BY <2>2, <2>3, <2>4 DEF Inductive, Served
<1>4. CASE pc = Vector + 3 /\ next = pc + 1
  <2>1. Branches(Landed, regs[K0]) /\ UNCHANGED sr
    BY <1>2, <1>4 DEF Handler
  <2>2. Typed'
    BY <1>2, <2>1, Retired DEF Inductive, Typed, Branches
  <2>3. pc' = Vector + 4 /\ next' \in Word
    BY <1>2, <1>4, <2>1 DEF Branches
  <2>4. ~sr'[1] /\ sr'[2]
    BY <1>1, <2>1 DEF Served
  <2> QED
    BY <2>2, <2>3, <2>4 DEF Inductive, Served
<1>5. CASE pc = Vector + 4 /\ next \in Word
  <2>1. Runs(Landed, NoLoad) /\ sr' = Popped(sr)
    BY <1>2, <1>5 DEF Handler
  <2>2. sr' = <<sr[2], sr[3], sr[3]>>
    BY <2>1 DEF Popped
  <2>3. Typed'
    BY <1>2, <2>1, <2>2, Retired DEF Inductive, Typed, Runs
  <2>4. pc' \in Word /\ next' \in Word
    BY <1>5, <2>1, Rounds DEF Runs
  <2>5. sr'[1]
    BY <1>1, <2>2 DEF Served
  <2> QED
    BY <2>3, <2>4, <2>5 DEF Inductive, InProgram
<1> QED
  BY <1>1, <1>3, <1>4, <1>5 DEF Served

LEMMA Begins ==
  ASSUME Init
  PROVE  Inductive
<1>1. 0 \in Word
  BY MipsAssumption DEF Word
<1>2. Typed
  BY <1>1, MipsAssumption DEF Init, Typed, Kept, Loads
<1>3. InProgram
  BY <1>1, Rounds DEF Init, InProgram
<1> QED
  BY <1>2, <1>3 DEF Inductive

LEMMA Steps ==
  ASSUME Inductive, [Next]_vars
  PROVE  Inductive'
<1>1. CASE (Program \/ TakeInterrupt) /\ UNCHANGED <<code, line>>
  BY <1>1, ProgramKeeps
<1>2. CASE Handler /\ UNCHANGED code
  BY <1>2, HandlerKeeps
<1>3. CASE RaiseLine \/ UNCHANGED vars
  BY <1>3 DEF RaiseLine, vars, Inductive, Typed, InProgram, Served
<1> QED
  BY <1>1, <1>2, <1>3 DEF Next

-----------------------------------------------------------------------------
(* The theorems.                                                           *)

\* The registers, the pending load, memory and the address an exception leaves
\* hold words, and the counters stay in the program or in the handler: an
\* address computed, linked or returned to is never astray (Cpu::step).
THEOREM CpuTyped == Spec => []Inductive
<1>1. Init => Inductive
  BY Begins
<1>2. Inductive /\ [Next]_vars => Inductive'
  BY Steps
<1> QED
  BY <1>1, <1>2, PTL DEF Spec

\* Interrupts are off in the handler and back on, as the program had them, with
\* the instruction that leaves it, for every program and wherever interrupts and
\* traps come in it (raise_exception, RFE).
THEOREM CpuInterruptsBackOn == Spec => []InterruptsBackOn
<1>1. Inductive => InterruptsBackOn
  <2> SUFFICES ASSUME Inductive PROVE InterruptsBackOn
    OBVIOUS
  <2>1. sr[1] \in BOOLEAN
    BY DEF Inductive, Typed
  <2>2. InKernel \/ ~InKernel
    OBVIOUS
  <2> QED
    BY <2>1, Where DEF InterruptsBackOn, InProgram, Served, Inductive
<1> QED
  BY <1>1, CpuTyped, PTL

-----------------------------------------------------------------------------
(* The load delay.                                                         *)

\* The instruction after a load finds in its register what was there before the
\* load, whatever the load before it was to (schedule_load, set_reg).
THEOREM CpuLoadDelay == Spec => LoadDelay
<1> DEFINE Delayed == ~InKernel /\ IsLoad(I) /\ pc' = next => regs'[I.d] = regs[I.d]
<1>1. ASSUME Inductive, [Next]_vars, ~InKernel, IsLoad(I), pc' = next
      PROVE  regs'[I.d] = regs[I.d]
  <2>1. /\ InProgram /\ pc \in Word /\ next \in Word /\ I \in Instruction
        /\ regs \in [Kept -> Word] /\ load \in Loads
    BY <1>1, Where DEF Inductive, Typed, InProgram, I
  <2>2. I.op \in {"load", "merge"} /\ I.d \in Registers /\ I.d \in Kept /\ I.d # NoLoad.reg
    BY <1>1, <2>1, Fields, CpuAssumption DEF IsLoad, Kept
  <2>3. CASE \E v : Retires(Landed, [reg |-> I.d, value |-> v])
    <3>1. PICK v : Retires(Landed, [reg |-> I.d, value |-> v])
      BY <2>3
    <3> DEFINE loads == [reg |-> I.d, value |-> v]
    <3>2. loads # NoLoad /\ loads.reg = I.d
      BY <2>2 DEF NoLoad
    <3> HIDE DEF loads
    <3>3. Landed \in [Kept -> Word]
      BY <2>1, Lands
    <3>4. regs' = IF I.d = load.reg THEN [Landed EXCEPT ![load.reg] = regs[load.reg]] ELSE Landed
      BY <3>1, <3>2 DEF Retires, loads
    <3>5. CASE I.d = load.reg
      BY <2>2, <3>3, <3>4, <3>5
    <3>6. CASE I.d # load.reg
      BY <2>1, <2>2, <3>4, <3>6 DEF Landed
    <3> QED
      BY <3>5, <3>6
  <2>4. CASE Load \/ Merge
    BY <2>3, <2>4 DEF Load, Merge, Runs
  <2>5. ~(TakeInterrupt \/ Alu \/ Store \/ Branch \/ Link \/ Jump \/ Trap \/ Gte \/ Handler)
    <3>1. ~TakeInterrupt
      BY <1>1, <2>1, Places DEF TakeInterrupt, Raises
    <3> QED
      BY <1>1, <2>2, <3>1 DEF Alu, Store, Branch, Link, Jump, Trap, Gte, Handler, Fetched
  <2>6. CASE UNCHANGED regs
    BY <2>6
  <2> QED
    BY <1>1, <2>4, <2>5, <2>6 DEF Next, Program, RaiseLine, vars
<1>2. Inductive /\ [Next]_vars => [Delayed]_vars
  BY <1>1
<1> QED
  BY <1>2, CpuTyped, PTL DEF Spec, LoadDelay

-----------------------------------------------------------------------------
(* No interrupt seen: what the processor keeps for the program while the   *)
(* handler runs, and while a branch waits to be run again.                 *)

\* The branch there would be taken again, and leave what it left.
Again(a) ==
  LET i == code[a] IN
  /\ IsBranch(i)
  /\ i.op = "branch" => regs[i.s] # 0
  /\ i.op = "link" => regs[i.d] = Following(Following(a))

\* Between two instructions of the program: the next one follows, or is where
\* the branch goes in whose slot this one is; and this one does not read what
\* has still to land.
Ready ==
  /\ ~branching => next = Following(pc)
  /\ branching => /\ Again(Preceding(pc)) /\ load = NoLoad
                  /\ next = Target(code[Preceding(pc)])
  /\ load.reg \notin Reads(code[pc])

\* How far the handler has brought the address it returns to.
Serving ==
  /\ pc = Vector + 1 => load = [reg |-> K0, value |-> epc]
  /\ pc # Vector + 1 => load = NoLoad
  /\ pc = Vector + 2 => regs[K0] = epc
  /\ pc = Vector + 3 => regs[K0] = Return(epc, code)
  /\ pc = Vector + 4 => next = Return(epc, code)

Unseen ==
  /\ Obedient(code)
  /\ InProgram => Ready
  /\ Served => Serving
  /\ redo => Again(Place) /\ (InProgram => load = NoLoad)

\* The word before the one after.
LEMMA Around ==
  ASSUME NEW a \in Word
  PROVE  Preceding(Following(a)) = a /\ Following(Preceding(a)) = a
<1>1. Length \in Nat \ {0} /\ a \in 0 .. Length - 1
  BY MipsAssumption DEF Word
<1>2. \A x \in 0 .. Length - 1 : x % Length = x /\ (x + Length) % Length = x
  BY <1>1
<1>3. Length % Length = 0
  BY <1>1
<1>4. CASE a + 1 < Length
  <2>1. Following(a) = a + 1
    BY <1>1, <1>2, <1>4 DEF Following
  <2> QED
    BY <1>1, <1>2, <1>4, <2>1 DEF Following, Preceding
<1> QED
  BY <1>1, <1>2, <1>3 DEF Following, Preceding

\* Where the program is, between its instructions and in the handler.
LEMMA Viewed ==
  ASSUME Inductive
  PROVE  /\ InProgram => Place = pc
         /\ Served => Place = Return(epc, code)
         /\ Place \in Word
<1>1. (InKernel <=> Served) /\ (~InKernel <=> InProgram)
  BY Where
<1>2. epc \in Word /\ (InProgram => pc \in Word)
  BY DEF Inductive, Typed, InProgram
<1>3. Return(epc, code) \in Word
  BY <1>2, Rounds DEF Return
<1> QED
  BY <1>1, <1>2, <1>3 DEF Place, Inductive

\* The registers the program sees are those it will find.
LEMMA LandedSeen ==
  ASSUME Inductive
  PROVE  /\ Seen \in [Registers -> Word]
         /\ \A r \in Registers : Landed[r] = Seen[r]
         /\ \A r \in Registers : r # load.reg => regs[r] = Seen[r]
         /\ load = NoLoad => Landed = regs
<1>1. regs \in [Kept -> Word] /\ load \in Loads /\ Registers \subseteq Kept
  BY DEF Inductive, Typed, Kept
<1>2. \A r \in Registers : r # NoLoad.reg /\ Seen[r] = IF load.reg = r THEN load.value ELSE regs[r]
  BY CpuAssumption DEF Seen
<1>3. load = NoLoad \/ load \in [reg : Kept, value : Word]
  BY <1>1 DEF Loads
<1>4. load = NoLoad => Landed = regs
  BY DEF Landed
<1>5. load # NoLoad => Landed = [regs EXCEPT ![load.reg] = load.value]
  BY DEF Landed
<1>6. \A r \in Registers : Landed[r] = Seen[r]
  BY <1>1, <1>2, <1>3, <1>4, <1>5
<1>7. \A r \in Registers : Seen[r] \in Word
  BY <1>1, <1>2, <1>3
<1>8. Seen \in [Registers -> Word]
  BY <1>7 DEF Seen
<1> QED
  BY <1>2, <1>4, <1>6, <1>8

\* What an instruction leaves is seen at once.
LEMMA RetiredSeen ==
  ASSUME Inductive, NEW out \in [Kept -> Word], NEW loads \in Loads, Retires(out, loads)
  PROVE  /\ Seen' = [r \in Registers |-> IF loads.reg = r THEN loads.value ELSE out[r]]
         /\ load' = loads
         /\ loads = NoLoad => regs' = out
<1>1. load' = loads /\ (loads = NoLoad => regs' = out)
  BY DEF Retires
<1>2. \A r \in Registers : r # loads.reg => regs'[r] = out[r]
  BY DEF Retires
<1>3. Seen' = [r \in Registers |-> IF load'.reg = r THEN load'.value ELSE regs'[r]]
  BY DEF Seen
<1> QED
  BY <1>1, <1>2, <1>3

\* A branch, a trap or a command of the geometry engine is not in a delay slot.
LEMMA NotInSlot ==
  ASSUME Inductive, InProgram, Unseen, IsBranch(I) \/ I.op \in {"gte", "trap"}
  PROVE  ~branching /\ next = Following(pc)
<1>1. pc \in Word /\ Preceding(pc) \in Word /\ Following(Preceding(pc)) = pc
  BY Rounds, Around DEF InProgram
<1>2. IsBranch(code[Preceding(pc)]) => ~IsBranch(code[pc]) /\ code[pc].op \notin {"gte", "trap"}
  BY <1>1 DEF Unseen, Obedient
<1>3. ~branching
  BY <1>2 DEF Unseen, Ready, Again, I
<1> QED
  BY <1>3 DEF Unseen, Ready

\* What waits to be run again is a branch, so nothing else does.
LEMMA OnlyBranches ==
  ASSUME Inductive, InProgram, Unseen, redo
  PROVE  /\ Again(pc) /\ IsBranch(I) /\ load = NoLoad
         /\ ~branching /\ next = Following(pc)
         /\ At = next /\ Later = Target(I)
<1>1. Place = pc
  BY Viewed
<1>2. Again(pc) /\ load = NoLoad
  BY <1>1 DEF Unseen
<1>3. IsBranch(I)
  BY <1>2 DEF Again, I
<1>4. ~branching /\ next = Following(pc)
  BY <1>3, NotInSlot
<1> QED
  BY <1>1, <1>2, <1>3, <1>4 DEF At, Later, I

\* The instruction to run, where none waits to be run again.
LEMMA Plainly ==
  ASSUME Inductive, InProgram, ~redo
  PROVE  At = pc /\ Later = next
<1>1. Place = pc /\ ~InKernel
  BY Viewed, Where
<1> QED
  BY <1>1 DEF At, Later

LEMMA PlainlyNext ==
  ASSUME Inductive', InProgram', ~redo'
  PROVE  At' = pc' /\ Later' = next'
<1>1. pc' \in Word /\ Vector \in Nat
  BY Places DEF InProgram
<1>2. ~(pc' >= Vector)
  BY <1>1, Places DEF Word
<1> QED
  BY <1>2 DEF At, Later, Place, InKernel

\* What a load is made to is not read by the next instruction, wherever that is.
LEMMA LoadUnread ==
  ASSUME Inductive, InProgram, Unseen, IsLoad(I)
  PROVE  I.d \notin Reads(code[next])
<1>1. pc \in Word /\ Preceding(pc) \in Word
  BY Rounds DEF InProgram
<1>2. /\ I.d \notin Reads(code[Following(pc)])
      /\ IsBranch(code[Preceding(pc)]) =>
           /\ code[Preceding(pc)].op # "jump"
           /\ I.d \notin Reads(code[code[Preceding(pc)].to])
  BY <1>1 DEF Unseen, Obedient, I
<1>3. CASE branching
  <2>1. IsBranch(code[Preceding(pc)]) /\ next = Target(code[Preceding(pc)])
    BY <1>3 DEF Unseen, Ready, Again
  <2>2. next = code[Preceding(pc)].to
    BY <1>2, <2>1 DEF Target
  <2> QED
    BY <1>2, <2>1, <2>2
<1>4. CASE ~branching
  BY <1>2, <1>4 DEF Unseen, Ready
<1> QED
  BY <1>3, <1>4

\* An instruction that goes on to the next.
LEMMA RunsUnseen ==
  ASSUME Inductive, InProgram, Unseen, ~redo, Inductive', InProgram',
         NEW out \in [Kept -> Word], NEW loads \in Loads, Runs(out, loads),
         loads.reg \notin Reads(code[next]), UNCHANGED code, ~redo'
  PROVE  /\ Unseen'
         /\ At = pc /\ Later = next /\ At' = Later /\ Later' = Following(Later)
         /\ Seen' = [r \in Registers |-> IF loads.reg = r THEN loads.value ELSE out[r]]
<1>1. /\ pc' = next /\ next' = After(next) /\ branching' = FALSE /\ Retires(out, loads)
      /\ next \in Word
  BY DEF Runs, InProgram
<1>2. next' = Following(next)
  BY <1>1 DEF After
<1>3. Seen' = [r \in Registers |-> IF loads.reg = r THEN loads.value ELSE out[r]] /\ load' = loads
  BY <1>1, RetiredSeen
<1>4. Ready'
  BY <1>1, <1>2, <1>3 DEF Ready
<1>5. ~Served'
  BY DEF InProgram, Served
<1>6. Unseen'
  BY <1>4, <1>5 DEF Unseen, Obedient
<1>7. At = pc /\ Later = next /\ At' = pc' /\ Later' = next'
  BY Plainly, PlainlyNext
<1> QED
  BY <1>1, <1>2, <1>3, <1>6, <1>7

\* A branch taken, for the first time or again: it leaves it to its slot.
LEMMA BranchUnseen ==
  ASSUME Inductive, InProgram, Unseen, Inductive', InProgram',
         NEW out \in [Kept -> Word], Branches(out, Target(I)), IsBranch(I),
         I.op \in {"branch", "jump"} => out[I.s] = regs[I.s],
         I.op = "branch" => regs[I.s] # 0,
         I.op = "link" => out[I.d] = Following(next),
         UNCHANGED code, ~redo'
  PROVE  /\ Unseen'
         /\ At' = next /\ Later' = Target(I) /\ Seen' = [r \in Registers |-> out[r]]
<1>1. /\ pc' = next /\ next' = Target(I) /\ branching' = TRUE /\ Retires(out, NoLoad)
      /\ NoLoad \in Loads
  BY DEF Branches, Loads
<1>2. /\ load' = NoLoad /\ regs' = out
      /\ Seen' = [r \in Registers |-> IF NoLoad.reg = r THEN NoLoad.value ELSE out[r]]
  BY <1>1, RetiredSeen
<1>3. Seen' = [r \in Registers |-> out[r]]
  <2>1. \A r \in Registers : NoLoad.reg # r
    BY CpuAssumption
  <2> QED
    BY <1>2, <2>1
<1>4. next = Following(pc) /\ pc \in Word /\ next \in Word
  BY NotInSlot DEF InProgram
<1>5. Preceding(pc') = pc
  BY <1>1, <1>4, Around
<1>6. code'[Preceding(pc')] = I
  BY <1>5 DEF I
<1>7. Again(Preceding(pc))' /\ Target(code[Preceding(pc)])' = next'
  <2>1. /\ I.op = "branch" => regs'[I.s] # 0
        /\ I.op = "link" => regs'[I.d] = Following(Following(Preceding(pc')))
    BY <1>2, <1>4, <1>5
  <2>2. Target(I) = IF I.op = "jump" THEN regs[I.s] ELSE I.to
    BY DEF Target
  <2>3. Target(code[Preceding(pc)])' = IF I.op = "jump" THEN regs'[I.s] ELSE I.to
    BY <1>6 DEF Target
  <2>4. Target(code[Preceding(pc)])' = next'
    BY <1>1, <1>2, <2>2, <2>3
  <2>5. Again(Preceding(pc))'
    BY <1>6, <2>1 DEF Again
  <2> QED
    BY <2>4, <2>5
<1>8. load'.reg \notin Reads(code[pc'])
  <2>1. code[pc'] \in Instruction
    BY <1>1, <1>4 DEF Inductive, Typed
  <2>2. Reads(code[pc']) \subseteq Registers
    BY <2>1, Fields DEF Reads
  <2> QED
    BY <1>2, <2>2, CpuAssumption
<1>9. Ready'
  BY <1>1, <1>2, <1>7, <1>8 DEF Ready
<1>10. ~Served'
  BY DEF InProgram, Served
<1>11. Unseen'
  BY <1>9, <1>10 DEF Unseen, Obedient
<1>12. At' = pc' /\ Later' = next'
  BY PlainlyNext
<1> QED
  BY <1>1, <1>3, <1>11, <1>12

\* An exception: the registers are those the program sees, and the handler
\* begins with none of its own.
LEMMA RaisesUnseen ==
  ASSUME Inductive, InProgram, Unseen, Inductive', NEW why, Raises(why, Landed), UNCHANGED code
  PROVE  /\ Seen' = Seen /\ Served' /\ Serving'
         /\ \A r \in Registers : regs'[r] = Seen[r]
         /\ load = NoLoad => regs' = regs
         /\ epc' = ReturnPoint /\ cause'.code = why /\ redo' = (redo \/ branching)
         /\ Place' = Return(epc, code)'
<1>1. /\ Retires(Landed, NoLoad) /\ pc' = Vector /\ epc' = ReturnPoint
      /\ cause' = [code |-> why, bd |-> branching] /\ redo' = (redo \/ branching)
      /\ NoLoad \in Loads
  BY DEF Raises, Loads
<1>2. Landed \in [Kept -> Word]
  BY Lands DEF Inductive, Typed
<1>3. /\ load' = NoLoad /\ regs' = Landed
      /\ Seen' = [r \in Registers |-> IF NoLoad.reg = r THEN NoLoad.value ELSE Landed[r]]
  BY <1>1, <1>2, RetiredSeen
<1>4. \A r \in Registers : NoLoad.reg # r /\ Landed[r] = Seen[r]
  BY LandedSeen, CpuAssumption
<1>5. Seen' = Seen
  BY <1>3, <1>4, LandedSeen
<1>6. \A r \in Registers : regs'[r] = Seen[r]
  BY <1>3, <1>4
<1>7. load = NoLoad => regs' = regs
  BY <1>3, LandedSeen
<1>8. Vector \in Nat /\ Vector \notin Word
  BY Places
<1>9. Serving'
  BY <1>1, <1>3, <1>8 DEF Serving
<1>10. Served'
  BY <1>1, <1>8 DEF Inductive, InProgram
<1>11. InKernel'
  BY <1>1, <1>8 DEF InKernel
<1>12. Place' = Return(epc, code)'
  BY <1>11 DEF Place
<1> QED
  BY <1>1, <1>5, <1>6, <1>7, <1>9, <1>10, <1>12

\* An interrupt in an instruction's place: it is still the one to run, and if it
\* is in a slot the branch before it is run again for it.
LEMMA InterruptUnseen ==
  ASSUME Inductive, InProgram, Unseen, Inductive', Raises("interrupt", Landed), UNCHANGED code,
         I.op # "gte"
  PROVE  Unseen' /\ At' = At /\ Later' = Later /\ Seen' = Seen
<1>1. /\ Seen' = Seen /\ Served' /\ Serving'
      /\ load = NoLoad => regs' = regs
      /\ epc' = ReturnPoint /\ cause'.code = "interrupt" /\ redo' = (redo \/ branching)
      /\ Place' = Return(epc, code)'
  BY RaisesUnseen
<1>2. InKernel' /\ ~InProgram'
  BY <1>1, Places DEF Served, InKernel, InProgram
<1>3. /\ redo' => At' = Following(Place') /\ Later' = Target(code[Place])'
      /\ ~redo' => At' = Place' /\ Later' = Following(Place')
  BY <1>2 DEF At, Later
<1>4. ASSUME redo' => Again(Place)' PROVE Unseen'
  BY <1>1, <1>2, <1>4 DEF Unseen, Obedient
<1>5. CASE branching
  <2> DEFINE b == Preceding(pc)
  <2>1. /\ ~redo /\ b \in Word /\ Following(b) = pc /\ load = NoLoad /\ Again(b)
        /\ next = Target(code[b])
    BY <1>5, OnlyBranches, Rounds, Around DEF InProgram, Unseen, Ready
  <2>2. epc' = b
    BY <1>1, <1>5 DEF ReturnPoint
  <2>3. code[b].op # "gte"
    BY <2>1 DEF Again, IsBranch
  <2>4. Place' = b
    BY <1>1, <2>2, <2>3 DEF Return
  <2>5. regs' = regs /\ redo' = TRUE
    BY <1>1, <1>5, <2>1
  <2> HIDE DEF b
  <2>6. Again(Place)' /\ Target(code[Place])' = Target(code[b])
    BY <2>1, <2>4, <2>5 DEF Again, Target
  <2>7. At = pc /\ Later = next
    BY <2>1, Plainly
  <2> QED
    BY <1>1, <1>3, <1>4, <2>1, <2>4, <2>5, <2>6, <2>7
<1>6. CASE ~branching
  <2>1. epc' = pc /\ Place' = pc
    <3>1. epc' = pc
      BY <1>1, <1>6 DEF ReturnPoint
    <3> QED
      BY <1>1, <3>1 DEF Return, I
  <2>2. CASE redo
    <3>1. Again(pc) /\ load = NoLoad /\ next = Following(pc) /\ At = next /\ Later = Target(I)
      BY <2>2, OnlyBranches
    <3>2. regs' = regs /\ redo' = TRUE
      BY <1>1, <2>2, <3>1
    <3>3. Again(Place)' /\ Target(code[Place])' = Target(I)
      BY <2>1, <3>1, <3>2 DEF Again, Target, I
    <3> QED
      BY <1>1, <1>3, <1>4, <2>1, <3>1, <3>2, <3>3
  <2>3. CASE ~redo
    <3>1. At = pc /\ Later = next /\ next = Following(pc)
      BY <1>6, <2>3, Plainly DEF Unseen, Ready
    <3>2. ~redo'
      BY <1>1, <1>6, <2>3
    <3> QED
      BY <1>1, <1>3, <1>4, <2>1, <3>1, <3>2
  <2> QED
    BY <2>2, <2>3
<1> QED
  BY <1>5, <1>6

\* A trap, or a command under which an interrupt was found: it has run, and the
\* handler steps over it.
LEMMA OverUnseen ==
  ASSUME Inductive, InProgram, Unseen, Inductive', NEW why, Raises(why, Landed), UNCHANGED code,
         \/ why = "trap" /\ I.op = "trap"
         \/ why = "interrupt" /\ I.op = "gte"
  PROVE  /\ Unseen' /\ At = pc /\ Later = next
         /\ At' = Later /\ Later' = Following(Later) /\ Seen' = Seen
<1>1. /\ Seen' = Seen /\ Served' /\ Serving'
      /\ epc' = ReturnPoint /\ cause'.code = why /\ redo' = (redo \/ branching)
      /\ Place' = Return(epc, code)'
  BY RaisesUnseen
<1>2. InKernel' /\ ~InProgram'
  BY <1>1, Places DEF Served, InKernel, InProgram
<1>3. ~branching /\ next = Following(pc)
  BY NotInSlot
<1>4. ~redo
  BY OnlyBranches DEF IsBranch
<1>5. At = pc /\ Later = next
  BY <1>4, Plainly
<1>6. epc' = pc /\ ~redo'
  BY <1>1, <1>3, <1>4 DEF ReturnPoint
<1>7. Place' = Following(pc)
  BY <1>1, <1>6 DEF Return, I
<1>8. At' = Place' /\ Later' = Following(Place')
  BY <1>2, <1>6 DEF At, Later
<1>9. Unseen'
  BY <1>1, <1>2, <1>6 DEF Unseen, Obedient
<1> QED
  BY <1>1, <1>3, <1>5, <1>7, <1>8, <1>9

\* The handler moves no part of the program.
LEMMA HandlerUnseen ==
  ASSUME Inductive, Unseen, Inductive', Handler, UNCHANGED code
  PROVE  Unseen' /\ At' = At /\ Later' = Later /\ Seen' = Seen
<1>1. /\ Served /\ Serving /\ InKernel /\ ~InProgram
      /\ Vector \in Nat /\ \A n \in Nat : Vector + n \notin Word
  BY Where, Places DEF Handler, Unseen, InProgram, Served
<1>2. UNCHANGED <<epc, cause, redo, mem, gte, traps>>
  BY DEF Handler, Runs, Branches
<1>3. PICK w \in Word : w = Return(epc, code) /\ w = Place
  BY <1>1, Viewed
<1>4. Return(epc, code)' = w /\ code[w] \in Instruction
  BY <1>2, <1>3 DEF Return, Inductive, Typed
<1>5. load \in {NoLoad, [reg |-> K0, value |-> epc]} /\ load.reg \in {NoLoad.reg, K0}
  BY <1>1 DEF Serving
<1>6. /\ \A r \in Registers : r \notin {NoLoad.reg, K0} /\ r # load.reg
      /\ regs \in [Kept -> Word] /\ Landed \in [Kept -> Word] /\ epc \in Word
      /\ Registers \subseteq Kept /\ K0 \in Kept /\ NoLoad \in Loads
  BY <1>5, Lands, CpuAssumption DEF Inductive, Typed, Kept, Loads
<1>7. \A r \in Registers : Landed[r] = regs[r] /\ Seen[r] = regs[r]
  BY <1>6, LandedSeen
<1>8. /\ redo => At = Following(w) /\ Later = Target(code[w]) /\ Again(w)
      /\ ~redo => At = w /\ Later = Following(w)
  BY <1>1, <1>3 DEF At, Later, Unseen
<1>9. ASSUME NEW out \in [Kept -> Word], NEW loads \in Loads, Retires(out, loads),
             loads.reg \in {NoLoad.reg, K0}, \A r \in Registers : out[r] = regs[r]
      PROVE  /\ Seen' = Seen /\ load' = loads
             /\ loads = NoLoad => regs' = out
             /\ \A r \in Registers : regs'[r] = regs[r]
  <2>1. /\ Seen' = [r \in Registers |-> IF loads.reg = r THEN loads.value ELSE out[r]]
        /\ load' = loads /\ (loads = NoLoad => regs' = out)
    BY <1>9, RetiredSeen
  <2>2. \A r \in Registers : loads.reg # r /\ out[r] = Seen[r]
    BY <1>6, <1>7, <1>9
  <2>3. Seen' = Seen
    BY <2>1, <2>2, LandedSeen
  <2>4. regs' \in {out, [out EXCEPT ![load.reg] = regs[load.reg]]}
    BY <1>9 DEF Retires
  <2>5. \A r \in Registers : regs'[r] = regs[r]
    BY <1>6, <1>9, <2>4
  <2> QED
    BY <2>1, <2>3, <2>5
<1>10. ASSUME \A r \in Registers : regs'[r] = regs[r], Seen' = Seen,
              Place' = w, ~InKernel' => next' = Following(w),
              InProgram' => Ready' /\ load' = NoLoad, Served' => Serving'
       PROVE  Unseen' /\ At' = At /\ Later' = Later /\ Seen' = Seen
  <2>1. /\ IsBranch(code[w]) => Target(code[w])' = Target(code[w])
        /\ Again(w) => Again(w)'
    BY <1>4, <1>10, Fields DEF Target, Again, IsBranch
  <2>2. redo => /\ At' = Following(w) /\ Later' = Target(code[w])'
                /\ Again(Place)' = Again(w)'
    BY <1>2, <1>10 DEF At, Later, Again
  <2>3. ~redo => At' = w /\ Later' = Following(w)
    BY <1>2, <1>10 DEF At, Later
  <2>4. Again(w) => IsBranch(code[w])
    BY DEF Again
  <2>5. At' = At /\ Later' = Later
    BY <1>8, <2>1, <2>2, <2>3, <2>4
  <2>6. redo' => Again(Place)'
    BY <1>2, <1>8, <2>1, <2>2
  <2> QED
    BY <1>10, <2>5, <2>6 DEF Unseen, Obedient
<1>11. ASSUME pc' \in {Vector + 1, Vector + 2, Vector + 3, Vector + 4}
       PROVE  Place' = w /\ InKernel' /\ ~InProgram'
  <2>1. InKernel'
    BY <1>1, <1>11 DEF InKernel
  <2>2. ~InProgram'
    BY <1>1, <1>11 DEF InProgram
  <2> QED
    BY <1>4, <2>1, <2>2 DEF Place
<1> USE DEF Kernel, KernelCode
<1>12. CASE pc = Vector /\ next = pc + 1
  <2> DEFINE loads == [reg |-> K0, value |-> epc]
  <2>1. Runs(Landed, loads)
    BY <1>1, <1>12 DEF Handler
  <2>2. loads \in Loads /\ loads.reg = K0
    BY <1>6 DEF Loads
  <2> HIDE DEF loads
  <2>3. pc' = Vector + 1 /\ Retires(Landed, loads)
    BY <1>12, <2>1 DEF Runs
  <2>4. Seen' = Seen /\ load' = loads /\ \A r \in Registers : regs'[r] = regs[r]
    BY <1>6, <1>7, <1>9, <2>2, <2>3
  <2>5. Serving'
    BY <1>1, <1>2, <2>3, <2>4 DEF Serving, loads
  <2> QED
    BY <1>10, <1>11, <2>3, <2>4, <2>5
<1>13. CASE pc = Vector + 1 /\ next = pc + 1
  <2>1. Runs(Landed, NoLoad)
    BY <1>1, <1>13 DEF Handler
  <2>2. pc' = Vector + 2 /\ Retires(Landed, NoLoad)
    BY <1>1, <1>13, <2>1 DEF Runs
  <2>3. /\ Seen' = Seen /\ load' = NoLoad /\ regs' = Landed
        /\ \A r \in Registers : regs'[r] = regs[r]
    BY <1>6, <1>7, <1>9, <2>2
  <2>4. Landed[K0] = epc
    BY <1>1, <1>6, <1>13 DEF Serving, Landed, NoLoad, K0
  <2>5. Serving'
    BY <1>1, <1>2, <2>2, <2>3, <2>4 DEF Serving
  <2> QED
    BY <1>10, <1>11, <2>2, <2>3, <2>5
<1>14. CASE pc = Vector + 2 /\ next = pc + 1
  <2> DEFINE out == [Landed EXCEPT ![K0] = Return(regs[K0], code)]
  <2>1. Runs(out, NoLoad)
    BY <1>1, <1>14 DEF Handler
  <2>2. regs[K0] = epc
    BY <1>1, <1>14 DEF Serving
  <2>3. out \in [Kept -> Word] /\ out[K0] = w /\ \A r \in Registers : out[r] = regs[r]
    BY <1>3, <1>6, <1>7, <2>2
  <2> HIDE DEF out
  <2>4. pc' = Vector + 3 /\ Retires(out, NoLoad)
    BY <1>1, <1>14, <2>1 DEF Runs
  <2>5. /\ Seen' = Seen /\ load' = NoLoad /\ regs' = out
        /\ \A r \in Registers : regs'[r] = regs[r]
    BY <1>6, <1>9, <2>3, <2>4
  <2>6. Serving'
    BY <1>1, <1>4, <2>3, <2>4, <2>5 DEF Serving
  <2> QED
    BY <1>10, <1>11, <2>4, <2>5, <2>6
<1>15. CASE pc = Vector + 3 /\ next = pc + 1
  <2>1. Branches(Landed, regs[K0])
    BY <1>1, <1>15 DEF Handler
  <2>2. pc' = Vector + 4 /\ next' = w /\ Retires(Landed, NoLoad)
    BY <1>1, <1>3, <1>15, <2>1 DEF Branches, Serving
  <2>3. Seen' = Seen /\ load' = NoLoad /\ \A r \in Registers : regs'[r] = regs[r]
    BY <1>6, <1>7, <1>9, <2>2
  <2>4. Serving'
    BY <1>1, <1>4, <2>2, <2>3 DEF Serving
  <2> QED
    BY <1>10, <1>11, <2>2, <2>3, <2>4
<1>16. CASE pc = Vector + 4
  <2>1. Runs(Landed, NoLoad)
    BY <1>1, <1>16 DEF Handler
  <2>2. next = w
    BY <1>1, <1>3, <1>16 DEF Serving
  <2>3. pc' = w /\ next' = Following(w) /\ branching' = FALSE /\ Retires(Landed, NoLoad)
    BY <2>1, <2>2 DEF Runs, After
  <2>4. Seen' = Seen /\ load' = NoLoad /\ \A r \in Registers : regs'[r] = regs[r]
    BY <1>6, <1>7, <1>9, <2>3
  <2>5. ~InKernel' /\ ~Served'
    BY <1>1, <2>3, Places DEF InKernel, Served, Word
  <2>6. Place' = w
    BY <2>3, <2>5 DEF Place
  <2>7. NoLoad.reg \notin Reads(code[w])
    BY <1>4, <1>6, Fields DEF Reads
  <2>8. Ready'
    BY <2>3, <2>4, <2>7 DEF Ready
  <2> QED
    BY <1>10, <2>3, <2>4, <2>5, <2>6, <2>8
<1> QED
  BY <1>1, <1>12, <1>13, <1>14, <1>15, <1>16 DEF Served

\* An instruction of the program with no load of its own, and what is seen of it.
LEMMA SimplyUnseen ==
  ASSUME Inductive, InProgram, Unseen, ~redo, Inductive',
         NEW out \in [Kept -> Word], Runs(out, NoLoad), UNCHANGED code, ~redo'
  PROVE  /\ Unseen' /\ code[At] = I /\ Programme!Moves
         /\ Seen' = [r \in Registers |-> out[r]]
<1>1. pc' = next /\ next \in Word /\ NoLoad \in Loads /\ code[next] \in Instruction
  BY DEF Runs, InProgram, Loads, Inductive, Typed
<1>2. InProgram'
  BY <1>1, Places DEF Inductive, Served
<1>3. \A r \in Registers : NoLoad.reg # r
  BY CpuAssumption
<1>4. NoLoad.reg \notin Reads(code[next])
  BY <1>1, <1>3, Fields DEF Reads
<1>5. /\ Unseen' /\ At = pc /\ At' = Later /\ Later' = Following(Later)
      /\ Seen' = [r \in Registers |-> IF NoLoad.reg = r THEN NoLoad.value ELSE out[r]]
  BY <1>1, <1>2, <1>4, RunsUnseen
<1>6. Seen' = [r \in Registers |-> out[r]]
  BY <1>3, <1>5
<1> QED
  BY <1>5, <1>6 DEF I, Programme!Moves, Programme!Following, Following

\* And one that loads.
LEMMA LoadUnseen ==
  ASSUME Inductive, InProgram, Unseen, ~redo, Inductive', IsLoad(I),
         NEW v \in Word, Runs(Landed, [reg |-> I.d, value |-> v]), UNCHANGED code, ~redo'
  PROVE  /\ Unseen' /\ code[At] = I /\ Programme!Moves
         /\ Seen' = [Seen EXCEPT ![I.d] = v]
<1> DEFINE loads == [reg |-> I.d, value |-> v]
<1>1. /\ pc' = next /\ next \in Word /\ I \in Instruction /\ Landed \in [Kept -> Word]
  BY Lands DEF Runs, InProgram, Inductive, Typed, I
<1>2. InProgram'
  BY <1>1, Places DEF Inductive, Served
<1>3. loads \in Loads /\ loads.reg = I.d /\ loads.value = v /\ I.d \in Registers
  BY <1>1, Fields DEF IsLoad, Loads, Kept
<1>4. I.d \notin Reads(code[next])
  BY LoadUnread
<1>5. Runs(Landed, loads)
  OBVIOUS
<1> HIDE DEF loads
<1>6. /\ Unseen' /\ At = pc /\ At' = Later /\ Later' = Following(Later)
      /\ Seen' = [r \in Registers |-> IF loads.reg = r THEN loads.value ELSE Landed[r]]
  BY <1>1, <1>2, <1>3, <1>4, <1>5, RunsUnseen
<1>7. Seen' = [Seen EXCEPT ![I.d] = v]
  BY <1>3, <1>6, LandedSeen
<1> QED
  BY <1>6, <1>7 DEF I, Programme!Moves, Programme!Following, Following

\* Whatever the program's instruction, it takes effect as the program means it,
\* and whatever takes its place leaves it to be run.
LEMMA ProgramUnseen ==
  ASSUME Inductive, Unseen, Inductive', Program \/ TakeInterrupt, UNCHANGED code
  PROVE  Unseen' /\ [Programme!Next]_(Programme!vars)
<1> USE DEF Fetched
<1>1. InProgram
  BY Where DEF Program, Alu, Load, Merge, Store, Branch, Link, Jump, Trap, Gte,
               TakeInterrupt
<1>3. /\ I \in Instruction /\ Landed \in [Kept -> Word] /\ next \in Word /\ pc \in Word
      /\ mem \in Word /\ regs \in [Kept -> Word] /\ Registers \subseteq Kept
      /\ Seen \in [Registers -> Word]
      /\ \A r \in Registers : Landed[r] = Seen[r]
      /\ \A r \in Registers : r # load.reg => regs[r] = Seen[r]
  BY <1>1, Lands, LandedSeen DEF Inductive, Typed, InProgram, I, Kept
<1>4. load.reg \notin Reads(I)
  BY <1>1 DEF Unseen, Ready, I
<1>5. ~IsBranch(I) => ~redo
  BY <1>1, OnlyBranches
<1>6. ASSUME Programme!Execute PROVE [Programme!Next]_(Programme!vars)
  BY <1>6 DEF Programme!Next
<1>7. ASSUME At' = At, Later' = Later, Seen' = Seen, UNCHANGED <<mem, gte, traps>>
      PROVE  [Programme!Next]_(Programme!vars)
  BY <1>7 DEF Programme!vars
<1>8. CASE Alu
  <2> DEFINE out == [Landed EXCEPT ![I.d] = Computed(regs[I.s])]
  <2>1. I.op = "alu" /\ I.d \in Registers /\ I.s \in Registers /\ ~redo
    BY <1>3, <1>5, <1>8, Fields DEF Alu, IsBranch
  <2>2. regs[I.s] = Seen[I.s] /\ regs[I.s] \in Word
    BY <1>3, <1>4, <2>1 DEF Reads
  <2>3. out \in [Kept -> Word]
    BY <1>3, <2>1, <2>2, Rounds
  <2>4. \A r \in Registers : out[r] = [Seen EXCEPT ![I.d] = Computed(Seen[I.s])][r]
    BY <1>3, <2>1, <2>2
  <2>5. Runs(out, NoLoad) /\ UNCHANGED <<mem, gte, traps, redo>>
    BY <1>8 DEF Alu
  <2> HIDE DEF out
  <2>6. /\ Unseen' /\ code[At] = I /\ Programme!Moves
        /\ Seen' = [r \in Registers |-> out[r]]
    BY <1>1, <2>1, <2>3, <2>5, SimplyUnseen
  <2>7. Seen' = [Seen EXCEPT ![I.d] = Computed(Seen[I.s])]
    BY <1>3, <2>4, <2>6
  <2>8. Programme!Compute
    BY <2>1, <2>6, <2>7 DEF Programme!Compute, Programme!Instr, Programme!Computed, Computed
  <2> QED
    BY <1>6, <2>5, <2>6, <2>8 DEF Programme!Execute
<1>9. CASE Load
  <2>1. I.op = "load" /\ IsLoad(I) /\ ~redo
    BY <1>5, <1>9 DEF Load, IsBranch, IsLoad
  <2>2. Runs(Landed, [reg |-> I.d, value |-> mem]) /\ UNCHANGED <<mem, gte, traps, redo>>
    BY <1>9 DEF Load
  <2>3. Unseen' /\ code[At] = I /\ Programme!Moves /\ Seen' = [Seen EXCEPT ![I.d] = mem]
    BY <1>1, <1>3, <2>1, <2>2, LoadUnseen
  <2>4. Programme!Compute
    BY <2>1, <2>3 DEF Programme!Compute, Programme!Instr
  <2> QED
    BY <1>6, <2>2, <2>3, <2>4 DEF Programme!Execute
<1>10. CASE Merge
  <2> DEFINE v == Merged(Landed[I.d], mem)
  <2>1. I.op = "merge" /\ IsLoad(I) /\ ~redo /\ I.d \in Registers
    BY <1>3, <1>5, <1>10, Fields DEF Merge, IsBranch, IsLoad
  <2>2. Runs(Landed, [reg |-> I.d, value |-> v]) /\ UNCHANGED <<mem, gte, traps, redo>>
    BY <1>10 DEF Merge
  <2>3. v \in Word /\ v = Merged(Seen[I.d], mem)
    BY <1>3, <2>1, Merges
  <2> HIDE DEF v
  <2>4. Unseen' /\ code[At] = I /\ Programme!Moves /\ Seen' = [Seen EXCEPT ![I.d] = v]
    BY <1>1, <2>1, <2>2, <2>3, LoadUnseen
  <2>5. Seen' = [Seen EXCEPT ![I.d] = Merged(@, mem)]
    BY <2>3, <2>4
  <2>6. Programme!Compute
    BY <2>1, <2>4, <2>5 DEF Programme!Compute, Programme!Instr, Programme!Merged, Merged
  <2> QED
    BY <1>6, <2>2, <2>4, <2>6 DEF Programme!Execute
<1>11. CASE Store
  <2>1. I.op = "store" /\ I.s \in Registers /\ ~redo
    BY <1>3, <1>5, <1>11, Fields DEF Store, IsBranch
  <2>2. regs[I.s] = Seen[I.s]
    BY <1>3, <1>4, <2>1 DEF Reads
  <2>3. Runs(Landed, NoLoad) /\ mem' = regs[I.s] /\ UNCHANGED <<gte, traps, redo>>
    BY <1>11 DEF Store
  <2>4. /\ Unseen' /\ code[At] = I /\ Programme!Moves
        /\ Seen' = [r \in Registers |-> Landed[r]]
    BY <1>1, <1>3, <2>1, <2>3, SimplyUnseen
  <2>5. Seen' = Seen
    BY <1>3, <2>4
  <2> QED
    BY <1>6, <2>1, <2>2, <2>3, <2>4, <2>5 DEF Programme!Execute, Programme!Instr
<1>12. CASE Gte /\ ~Interrupted
  <2>1. I.op = "gte" /\ ~redo
    BY <1>5, <1>12 DEF Gte, IsBranch
  <2>2. Runs(Landed, NoLoad) /\ gte' = (gte + 1) % 2 /\ UNCHANGED <<mem, traps, redo>>
    BY <1>12 DEF Gte
  <2>3. /\ Unseen' /\ code[At] = I /\ Programme!Moves
        /\ Seen' = [r \in Registers |-> Landed[r]]
    BY <1>1, <1>3, <2>1, <2>2, SimplyUnseen
  <2>4. Seen' = Seen
    BY <1>3, <2>3
  <2> QED
    BY <1>6, <2>1, <2>2, <2>3, <2>4 DEF Programme!Execute, Programme!Instr
<1>13. CASE Gte /\ Interrupted
  <2>1. /\ I.op = "gte" /\ Raises("interrupt", Landed)
        /\ gte' = (gte + 1) % 2 /\ UNCHANGED <<mem, traps>>
    BY <1>13 DEF Gte
  <2>2. /\ Unseen' /\ At = pc /\ At' = Later /\ Later' = Following(Later) /\ Seen' = Seen
    BY <1>1, <2>1, OverUnseen
  <2> QED
    BY <1>6, <2>1, <2>2 DEF Programme!Execute, Programme!Instr, Programme!Moves,
                            Programme!Following, Following, I
<1>14. CASE Trap
  <2>1. /\ I.op = "trap" /\ Raises("trap", Landed)
        /\ traps' = (traps + 1) % 2 /\ UNCHANGED <<mem, gte>>
    BY <1>14 DEF Trap
  <2>2. /\ Unseen' /\ At = pc /\ At' = Later /\ Later' = Following(Later) /\ Seen' = Seen
    BY <1>1, <2>1, OverUnseen
  <2> QED
    BY <1>6, <2>1, <2>2 DEF Programme!Execute, Programme!Instr, Programme!Moves,
                            Programme!Following, Following, I
<1>15. CASE TakeInterrupt
  <2>1. I.op # "gte" /\ Raises("interrupt", Landed) /\ UNCHANGED <<mem, gte, traps>>
    BY <1>1, <1>15, Where DEF TakeInterrupt, I
  <2>2. Unseen' /\ At' = At /\ Later' = Later /\ Seen' = Seen
    BY <1>1, <2>1, InterruptUnseen
  <2> QED
    BY <1>7, <2>1, <2>2
<1>16. ASSUME NEW out \in [Kept -> Word], Branches(out, Target(I)), IsBranch(I),
              ~redo', UNCHANGED <<mem, gte, traps>>,
              \/ I.op = "branch" /\ regs[I.s] # 0 /\ out = Landed
              \/ I.op = "jump" /\ out = Landed
              \/ I.op = "link" /\ out = [Landed EXCEPT ![I.d] = After(next)]
       PROVE  Unseen' /\ [Programme!Next]_(Programme!vars)
  <2>1. next = Following(pc) /\ After(next) = Following(next) /\ Following(next) \in Word
    BY <1>1, <1>3, <1>16, NotInSlot, Rounds DEF After
  <2>2. /\ I.op \in {"branch", "jump"} => I.s \in Registers /\ regs[I.s] = Seen[I.s]
        /\ I.op = "link" => I.d \in Registers
    BY <1>3, <1>4, <1>16, Fields DEF Reads
  <2>3. /\ I.op \in {"branch", "jump"} => out[I.s] = regs[I.s] /\ \A r \in Registers : out[r] = Seen[r]
        /\ I.op = "link" => /\ out[I.d] = Following(next)
                            /\ \A r \in Registers : out[r] = [Seen EXCEPT ![I.d] = Following(next)][r]
    BY <1>3, <1>16, <2>1, <2>2
  <2>4. pc' = next
    BY <1>16 DEF Branches
  <2>5. InProgram'
    BY <1>3, <2>4, Places DEF Inductive, Served
  <2>6. /\ I.op \in {"branch", "jump"} => out[I.s] = regs[I.s]
        /\ I.op = "branch" => regs[I.s] # 0
        /\ I.op = "link" => out[I.d] = Following(next)
    BY <1>16, <2>3
  <2>7. /\ Unseen'
        /\ At' = next /\ Later' = Target(I) /\ Seen' = [r \in Registers |-> out[r]]
    BY <1>1, <1>16, <2>5, <2>6, BranchUnseen
  <2>8. /\ I.op \in {"branch", "jump"} => Seen' = Seen
        /\ I.op = "link" => Seen' = [Seen EXCEPT ![I.d] = Following(next)]
    BY <1>3, <2>3, <2>7
  <2>9. Target(I) = IF I.op = "jump" THEN Seen[I.s] ELSE I.to
    BY <1>16, <2>2 DEF Target
  <2>10. CASE ~redo
    <3>1. code[At] = I /\ Later = next
      BY <1>1, <2>10, Plainly DEF I
    <3>2. At' = Later /\ Later' = IF I.op = "jump" THEN Seen[I.s] ELSE I.to
      BY <2>7, <2>9, <3>1
    <3>3. Programme!Instr = I /\ Programme!Goes(IF I.op = "jump" THEN Seen[I.s] ELSE I.to)
      BY <3>1, <3>2 DEF Programme!Instr, Programme!Goes
    <3>4. I.op = "link" => Seen' = [Seen EXCEPT ![I.d] = Programme!Following(Later)]
      BY <2>8, <3>1 DEF Programme!Following, Following
    <3>5. CASE I.op = "branch"
      BY <1>6, <1>16, <2>2, <2>7, <2>8, <3>3, <3>5 DEF Programme!Execute
    <3>6. CASE I.op = "jump"
      BY <1>6, <1>16, <2>7, <2>8, <3>3, <3>6 DEF Programme!Execute
    <3>7. CASE I.op = "link"
      BY <1>6, <1>16, <2>7, <3>3, <3>4, <3>7 DEF Programme!Execute
    <3> QED
      BY <1>16, <3>5, <3>6, <3>7
  <2>11. CASE redo
    <3>1. Again(pc) /\ load = NoLoad /\ At = next /\ Later = Target(I)
      BY <1>1, <2>11, OnlyBranches
    <3>2. I.op = "link" => Seen[I.d] = Following(next)
      <4>1. I.op = "link" => regs[I.d] = Following(next)
        BY <2>1, <3>1 DEF Again, I
      <4>2. I.op = "link" => I.d # load.reg
        BY <2>2, <3>1, CpuAssumption
      <4> QED
        BY <1>3, <2>2, <4>1, <4>2
    <3>3. Seen' = Seen
      BY <1>3, <1>16, <2>2, <2>8, <3>2
    <3> QED
      BY <1>7, <1>16, <2>7, <3>1, <3>3
  <2> QED
    BY <2>10, <2>11
<1>17. CASE Branch
  <2>1. I.op = "branch" /\ IsBranch(I) /\ ~redo' /\ UNCHANGED <<mem, gte, traps>>
    BY <1>17 DEF Branch, IsBranch
  <2>2. CASE regs[I.s] # 0
    <3>1. Branches(Landed, Target(I))
      BY <1>17, <2>1, <2>2 DEF Branch, Target
    <3> QED
      BY <1>3, <1>16, <2>1, <2>2, <3>1
  <2>3. CASE ~(regs[I.s] # 0)
    <3>1. Runs(Landed, NoLoad)
      BY <1>17, <2>3 DEF Branch
    <3>2. ~redo
      <4>1. redo => Again(pc)
        BY <1>1, OnlyBranches
      <4> QED
        BY <2>1, <2>3, <4>1 DEF Again, I
    <3>3. /\ Unseen' /\ code[At] = I /\ Programme!Moves
          /\ Seen' = [r \in Registers |-> Landed[r]]
      BY <1>1, <1>3, <2>1, <3>1, <3>2, SimplyUnseen
    <3>4. Seen' = Seen
      BY <1>3, <3>3
    <3>5. I.s \in Registers /\ Seen[I.s] = 0
      <4>1. I.s \in Registers /\ I.s # load.reg
        BY <1>3, <1>4, <2>1, Fields DEF Reads
      <4> QED
        BY <1>3, <2>3, <4>1
    <3> QED
      BY <1>6, <2>1, <3>3, <3>4, <3>5 DEF Programme!Execute, Programme!Instr
  <2> QED
    BY <2>2, <2>3
<1>18. CASE Link
  <2> DEFINE out == [Landed EXCEPT ![I.d] = After(next)]
  <2>1. I.op = "link" /\ IsBranch(I) /\ ~redo' /\ UNCHANGED <<mem, gte, traps>>
    BY <1>18 DEF Link, IsBranch
  <2>2. Branches(out, Target(I))
    BY <1>18, <2>1 DEF Link, Target, IsBranch
  <2>3. out \in [Kept -> Word]
    BY <1>3, <2>1, Fields, Rounds
  <2> QED
    BY <1>16, <2>1, <2>2, <2>3
<1>19. CASE Jump
  <2>1. I.op = "jump" /\ IsBranch(I) /\ ~redo' /\ UNCHANGED <<mem, gte, traps>>
    BY <1>19 DEF Jump, IsBranch
  <2>2. Branches(Landed, Target(I))
    BY <1>19, <2>1 DEF Jump, Target
  <2> QED
    BY <1>3, <1>16, <2>1, <2>2
<1> QED
  BY <1>8, <1>9, <1>10, <1>11, <1>12, <1>13, <1>14, <1>15, <1>17, <1>18, <1>19 DEF Program

\* Nothing is lost or done twice, wherever it starts and whatever comes.
LEMMA StepUnseen ==
  ASSUME Inductive, Unseen, [Next]_vars
  PROVE  Unseen' /\ [Programme!Next]_(Programme!vars)
<1>1. Inductive'
  BY Steps
<1>2. CASE (Program \/ TakeInterrupt) /\ UNCHANGED <<code, line>>
  BY <1>1, <1>2, ProgramUnseen
<1>3. CASE Handler /\ UNCHANGED code
  <2>1. UNCHANGED <<mem, gte, traps>>
    BY <1>3 DEF Handler
  <2> QED
    BY <1>1, <1>3, <2>1, HandlerUnseen DEF Programme!vars
<1>4. CASE RaiseLine \/ UNCHANGED vars
  <2>1. UNCHANGED <<code, pc, next, branching, regs, load, mem, epc, cause, sr,
                    gte, traps, redo>>
    BY <1>4 DEF RaiseLine, vars
  <2>2. At' = At /\ Later' = Later /\ Seen' = Seen /\ (Again(Place)' <=> Again(Place))
    BY <2>1 DEF At, Later, Seen, Place, InKernel, Return, Target, Again
  <2>3. Unseen'
    BY <2>1, <2>2 DEF Unseen, Ready, Serving, InProgram, Served, Obedient, Again, Target, Return
  <2> QED
    BY <2>1, <2>2, <2>3 DEF Programme!vars
<1> QED
  BY <1>2, <1>3, <1>4 DEF Next

LEMMA UnseenBegins ==
  ASSUME Init
  PROVE  Unseen /\ Programme!Init
<1>1. Inductive
  BY Begins
<1>2. /\ pc = 0 /\ next = Following(0) /\ branching = FALSE /\ redo = FALSE
      /\ load = NoLoad /\ regs = [r \in Kept |-> 0] /\ Obedient(code)
      /\ code \in [Word -> Instruction] /\ mem = 0 /\ gte = 0 /\ traps = 0
  BY MipsAssumption DEF Init, Kept
<1>3. 0 \in Word /\ InProgram /\ ~Served
  <2>1. 0 \in Word
    BY MipsAssumption DEF Word
  <2> QED
    BY <1>1, <1>2, <2>1, Places DEF Inductive, Served
<1>4. At = 0 /\ Later = Following(0)
  BY <1>1, <1>2, <1>3, Plainly
<1>5. code[pc] \in Instruction
  BY <1>2, <1>3
<1>6. load.reg \notin Reads(code[pc])
  BY <1>2, <1>5, Fields, CpuAssumption DEF Reads
<1>7. Unseen
  BY <1>2, <1>3, <1>6 DEF Unseen, Ready
<1>8. Seen = [r \in Registers |-> 0]
  <2>1. \A r \in Registers : r # NoLoad.reg /\ r \in Kept
    BY CpuAssumption DEF Kept
  <2> QED
    BY <1>2, <2>1 DEF Seen
<1> QED
  BY <1>2, <1>4, <1>7, <1>8 DEF Programme!Init, Programme!Word, Word, Programme!Instruction, Instruction,
                                Programme!Following, Following

\* The processor with its delays, its interrupts and the kernel's handler runs
\* every obedient program, of any length, as one without any of them would.
THEOREM CpuInterruptsUnseen == Spec => InterruptsUnseen
<1>1. Init => Unseen /\ Programme!Init
  BY UnseenBegins
<1>2. Inductive /\ Unseen /\ [Next]_vars => Unseen' /\ [Programme!Next]_(Programme!vars)
  BY StepUnseen
<1> QED
  BY <1>1, <1>2, CpuTyped, PTL DEF Spec, InterruptsUnseen, Programme!Spec
=============================================================================
