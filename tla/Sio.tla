-------------------------------- MODULE Sio --------------------------------
(***************************************************************************)
(* The controller port (src/sio.cpp) with its slot in the scheduler and    *)
(* its bit of I_STAT: a digital pad in the first socket, nothing in the    *)
(* second, and no memory card.                                             *)
(*                                                                         *)
(* A byte written is shifted out and the answer shifted in within the      *)
(* store; the acknowledge comes an event later.  Bytes are named by what   *)
(* the port makes of them.  `due` is the acknowledge's deadline less now.  *)
(***************************************************************************)
EXTENDS Integers

CONSTANTS
  Buttons,      \* the buttons of the pad
  LowButtons,   \* those the first of the two bytes carries
  Delays,       \* acknowledge_delay() under the rates software sets
  ResetDelay,   \* and under the rate a reset leaves
  CpuCycles     \* what an instruction may cost

ASSUME SioAssumption ==
  /\ LowButtons \subseteq Buttons
  /\ Delays \subseteq Nat \ {0} /\ ResetDelay \in Delays
  /\ CpuCycles \subseteq Nat \ {0}

VARIABLES
  pad,        \* the buttons the port takes for pressed
  control,    \* JOY_CTRL: the acknowledge interrupt, and the second socket
  delay,      \* acknowledge_delay(), of JOY_BAUD and JOY_MODE
  received,   \* the byte in JOY_DATA, and whether it is still there
  interrupt,  \* the acknowledge, until software clears it
  target,     \* the device the exchange addresses
  step,       \* how far into the exchange it is
  irq,        \* the controller's bit of I_STAT
  pending,    \* the scheduler's Sio slot holds a deadline
  due         \* that deadline, less now

port == <<pad, control, delay, received, interrupt, target, step>>
slot == <<pending, due>>
vars == <<port, irq, slot>>

\* What software may write to JOY_DATA, and what may come back.
Sent == {"pad", "card", "read", "other"}
Answer == [byte : {"idle", "idLow", "idHigh", "low", "high"}, pressed : SUBSET Buttons]

Plainly(byte) == [byte |-> byte, pressed |-> {}]
Idle == Plainly("idle")

-----------------------------------------------------------------------------
Init ==
  /\ pad = {}
  /\ control = [wanted |-> FALSE, second |-> FALSE]
  /\ delay = ResetDelay
  /\ received = [answer |-> Idle, full |-> FALSE]
  /\ interrupt = FALSE
  /\ target = "None" /\ step = 0
  /\ irq = FALSE
  /\ pending = FALSE /\ due = 0

\* The event loop has run dry: instructions run only then.
BetweenInstructions == pending => due > 0

\* The clock moves on c cycles, with a deadline d cycles off pending if p.
Elapse(p, d, c) == pending' = p /\ due' = IF p THEN d - c ELSE 0

-----------------------------------------------------------------------------
(***************************************************************************)
(* exchange: what the port makes of a byte, as the device the exchange is  *)
(* with from then on, how far into it, what comes back, and whether the    *)
(* device has more to say.                                                 *)
(***************************************************************************)
Shifted(t, s, a, more) == [target |-> t, step |-> s, answer |-> a, more |-> more]

\* The byte that picks the device.
Addressed(v) ==
  IF v = "pad" /\ ~control.second THEN Shifted("Controller", 1, Idle, TRUE)
  ELSE IF v = "card" THEN Shifted("MemoryCard", step, Idle, FALSE)
  ELSE Shifted("None", step, Idle, FALSE)

\* Mutant: both bytes carry the low half of the buttons.
PadAnswersLowTwice(v) ==
  CASE step = 1 -> IF v = "read" THEN Shifted("Controller", 2, Plainly("idLow"), TRUE)
                   ELSE Shifted("None", 0, Idle, FALSE)
    [] step = 2 -> Shifted("Controller", 3, Plainly("idHigh"), TRUE)
    [] step = 3 -> Shifted("Controller", 4,
                           [byte |-> "low", pressed |-> pad \cap LowButtons], TRUE)
    [] OTHER -> Shifted("None", 0, [byte |-> "high", pressed |-> pad \cap LowButtons], FALSE)

\* Mutant: the last byte does not end the exchange.
PadAnswersOn(v) ==
  CASE step = 1 -> IF v = "read" THEN Shifted("Controller", 2, Plainly("idLow"), TRUE)
                   ELSE Shifted("None", 0, Idle, FALSE)
    [] step = 2 -> Shifted("Controller", 3, Plainly("idHigh"), TRUE)
    [] step = 3 -> Shifted("Controller", 4,
                           [byte |-> "low", pressed |-> pad \cap LowButtons], TRUE)
    [] OTHER -> Shifted("Controller", step + 1, Idle, FALSE)

\* A byte to the pad: any command but "read the buttons" ends the exchange,
\* and so does the last byte of the answer.
PadAnswers(v) ==
  CASE step = 1 -> IF v = "read" THEN Shifted("Controller", 2, Plainly("idLow"), TRUE)
                   ELSE Shifted("None", 0, Idle, FALSE)
    [] step = 2 -> Shifted("Controller", 3, Plainly("idHigh"), TRUE)
    [] step = 3 -> Shifted("Controller", 4,
                           [byte |-> "low", pressed |-> pad \cap LowButtons], TRUE)
    [] OTHER -> Shifted("None", 0, [byte |-> "high", pressed |-> pad \ LowButtons], FALSE)

Exchange(v) ==
  CASE target = "None" -> Addressed(v)
    [] target = "Controller" -> PadAnswers(v)
    [] target = "MemoryCard" -> Shifted(target, step, Idle, FALSE)

-----------------------------------------------------------------------------
(***************************************************************************)
(* The processor, an instruction of c cycles at a time.                    *)
(***************************************************************************)

\* Anything that leaves the port alone.
Plain(c) ==
  /\ BetweenInstructions
  /\ Elapse(pending, due, c)
  /\ UNCHANGED <<port, irq>>

\* Mutant: the acknowledge comes with the byte.
AcknowledgedAt == 0

\* When the acknowledge of a byte written now comes.
AcknowledgeAt == delay

\* A byte to JOY_DATA, and the acknowledge scheduled over any before it.
SendByte(v, c) ==
  /\ BetweenInstructions
  /\ LET x == Exchange(v) IN
       /\ target' = x.target /\ step' = x.step
       /\ received' = [answer |-> x.answer, full |-> TRUE]
       /\ IF x.more THEN Elapse(TRUE, AcknowledgeAt, c) ELSE Elapse(pending, due, c)
  /\ UNCHANGED <<pad, control, delay, interrupt, irq>>

\* JOY_DATA read: what the load returns is Received.
Received == IF received.full THEN received.answer ELSE Idle

ReadData(c) ==
  /\ BetweenInstructions
  /\ received' = [received EXCEPT !.full = FALSE]
  /\ Elapse(pending, due, c)
  /\ UNCHANGED <<pad, control, delay, interrupt, target, step, irq>>

\* Mutant: dropping the select line leaves the step where it was.
DeselectedMidway == [target |-> "None", step |-> step]

\* Target and step once the select line has dropped.
Deselected == [target |-> "None", step |-> 0]

\* JOY_CTRL.  Its reset puts the whole port back to its power-on state, the
\* buttons and this register with it, but not the scheduler's slot.
WriteControl(select, w, reset, acknowledge, c) ==
  /\ BetweenInstructions
  /\ control' = IF reset THEN [wanted |-> FALSE, second |-> FALSE] ELSE w
  /\ interrupt' = (interrupt /\ ~acknowledge /\ ~reset)
  /\ IF select /\ ~reset
     THEN UNCHANGED <<target, step>>
     ELSE target' = Deselected.target /\ step' = Deselected.step
  /\ IF reset
     THEN /\ pad' = {} /\ delay' = ResetDelay
          /\ received' = [answer |-> Idle, full |-> FALSE]
     ELSE UNCHANGED <<pad, delay, received>>
  /\ Elapse(pending, due, c)
  /\ UNCHANGED irq

\* JOY_BAUD and JOY_MODE.
SetRate(d, c) ==
  /\ BetweenInstructions
  /\ delay' = d
  /\ Elapse(pending, due, c)
  /\ UNCHANGED <<pad, control, received, interrupt, target, step, irq>>

\* I_STAT's bit acknowledged.
AckIrq(c) ==
  /\ BetweenInstructions
  /\ irq' = FALSE
  /\ Elapse(pending, due, c)
  /\ UNCHANGED <<port>>

\* Mutant: the slot keeps what it has delivered.
KeptSlot == UNCHANGED slot

\* The slot emptied, as next_due does before it returns an event.
EmptiedSlot == pending' = FALSE /\ due' = 0

\* The Sio event: deliver_acknowledge.
Deliver ==
  /\ pending /\ due <= 0
  /\ interrupt' = TRUE
  /\ irq' = (irq \/ control.wanted)
  /\ EmptiedSlot
  /\ UNCHANGED <<pad, control, delay, received, target, step>>

\* A key of the host's keyboard goes down, or comes up.  One the debugger is
\* using (handle_pad_key) gets no further: `pad` is not what fingers do.
Press(b) ==
  /\ pad' = pad \cup {b}
  /\ UNCHANGED <<control, delay, received, interrupt, target, step, irq, slot>>

Release(b) ==
  /\ pad' = pad \ {b}
  /\ UNCHANGED <<control, delay, received, interrupt, target, step, irq, slot>>

Player == \E b \in Buttons : Press(b) \/ Release(b)

\* Software that does as it pleases.
Next ==
  \/ \E c \in CpuCycles :
       \/ Plain(c)
       \/ \E v \in Sent : SendByte(v, c)
       \/ ReadData(c)
       \/ \E select, reset, acknowledge, wanted, second \in BOOLEAN :
            WriteControl(select, [wanted |-> wanted, second |-> second], reset,
                         acknowledge, c)
       \/ \E d \in Delays : SetRate(d, c)
       \/ AckIrq(c)
  \/ Deliver
  \/ Player

Spec == Init /\ [][Next]_vars

-----------------------------------------------------------------------------
(***************************************************************************)
(* Properties.                                                             *)
(***************************************************************************)

\* The type invariant.
TypeOK ==
  /\ pad \in SUBSET Buttons
  /\ control \in [wanted : BOOLEAN, second : BOOLEAN]
  /\ delay \in Delays
  /\ received \in [answer : Answer, full : BOOLEAN]
  /\ interrupt \in BOOLEAN /\ irq \in BOOLEAN /\ pending \in BOOLEAN
  /\ target \in {"None", "Controller", "MemoryCard"} /\ step \in 0 .. 4
  /\ due \in Int

\* An exchange is either with the pad and under way or has no step at all,
\* so the next one with the pad always begins at its beginning (exchange,
\* which looks at the step only once the target is the pad).
ExchangeShape == target = "Controller" <=> step > 0

\* What sio.h says of the acknowledge: the device pulls the line low to say
\* it has more to send, between the bytes of an exchange.
AcknowledgeMeansMore == [][ Deliver => target = "Controller" ]_vars

\* What debugger.cpp says of a button: held is state, and pressing one means
\* leaving it pressed until it is released.
ButtonsStayPressed == [][ pad \ pad' # {} => Player ]_vars
=============================================================================
