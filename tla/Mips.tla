-------------------------------- MODULE Mips --------------------------------
(***************************************************************************)
(* The instructions that the processor's delays, exceptions and returns    *)
(* tell apart (Cpu::execute in src/cpu.cpp).  All the arithmetic is one    *)
(* operation, all of memory one word, and a program a ring of a few words; *)
(* a register holds a word's number or an address, which are the same      *)
(* here.                                                                   *)
(***************************************************************************)
EXTENDS Naturals

CONSTANTS
  Length,     \* bound: the words of a program
  Registers,  \* the registers a program has: not $k0, which is the kernel's
  Alphabet    \* bound: the instructions programs are made of

Word == 0 .. Length - 1

Instruction ==
  [op : {"alu"}, d : Registers, s : Registers]
    \cup [op : {"load", "merge"}, d : Registers]
    \cup [op : {"store", "jump"}, s : Registers]
    \cup [op : {"branch"}, s : Registers, to : Word]
    \cup [op : {"link"}, d : Registers, to : Word]
    \cup [op : {"gte", "trap"}]

ASSUME MipsAssumption == Length \in Nat \ {0} /\ Alphabet \subseteq Instruction

\* The word after and the word before.
Following(a) == (a + 1) % Length
Preceding(a) == (a + Length - 1) % Length

\* Any operation on a register, and what LWL or LWR makes of a register and the
\* word it reads.
Computed(v) == (v + 1) % Length
Merged(old, word) == (2 * old + word) % Length

IsBranch(i) == i.op \in {"branch", "link", "jump"}
IsLoad(i) == i.op \in {"load", "merge"}

\* The register an instruction reads before a load ahead of it has landed, the
\* merging loads taking theirs past the delay.
Reads(i) == IF i.op \in {"alu", "store", "branch", "jump"} THEN {i.s} ELSE {}

\* What software keeps to when interrupts are on: nothing reads a register in
\* the delay slot of its load; a delay slot has neither a branch, nor a trap, nor
\* a command of the geometry engine, which the handler would have to step over
\* and cannot; and a branch is run again with what it left.
Obedient(code) ==
  \A a \in Word :
    LET i == code[a]
        j == code[Following(a)]
    IN /\ IsBranch(i) => ~IsBranch(j) /\ j.op \notin {"gte", "trap"}
       /\ IsLoad(i) =>
            /\ i.d \notin Reads(j)
            /\ IsBranch(code[Preceding(a)]) =>
                 /\ code[Preceding(a)].op # "jump"
                 /\ i.d \notin Reads(code[code[Preceding(a)].to])
=============================================================================
