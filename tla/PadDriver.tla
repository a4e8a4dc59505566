----------------------------- MODULE PadDriver -----------------------------
(***************************************************************************)
(* A driver reading the pad through the port: the conversation sio.h       *)
(* describes and test_sio.cpp holds.  It sends a byte, clears what the     *)
(* last one left behind, waits for this one's acknowledge, takes the       *)
(* answer and sends the next.  An acknowledge that does not come is how it *)
(* tells an empty socket.                                                  *)
(***************************************************************************)
EXTENDS Sio, Sequences

CONSTANT Patience  \* how many times the driver looks for an acknowledge

ASSUME DriverAssumption == Patience \in Nat

VARIABLES
  pc,       \* what the driver does next
  answers,  \* the bytes it has got back
  looks,    \* how often it has looked for this acknowledge
  shifted,  \* history: the buttons pressed as each byte was shifted
  stale     \* history: an exchange given up had its acknowledge still to come
            \* when this one began

driver == <<pc, answers, looks, shifted, stale>>
allVars == <<vars, driver>>

\* The bytes of the conversation.
Conversation == <<"pad", "read", "other", "other", "other">>

\* The answers of a pad on which h[i] was pressed as the i-th byte went by.
PadRead(h) ==
  <<Idle, Plainly("idLow"), Plainly("idHigh"),
    [byte |-> "low", pressed |-> h[4] \cap LowButtons],
    [byte |-> "high", pressed |-> h[5] \ LowButtons]>>

DriverInit ==
  /\ Init
  /\ pc = "idle" /\ answers = <<>> /\ looks = 0 /\ shifted = <<>>
  /\ stale = FALSE

\* JOY_CTRL for a socket, acknowledging what the last byte left or not.
Select(second, acknowledge, c) ==
  WriteControl(TRUE, [wanted |-> TRUE, second |-> second], FALSE, acknowledge, c)

Begin(c) ==
  /\ pc = "idle" /\ pc' = "send"
  /\ \E second \in BOOLEAN : Select(second, TRUE, c)
  /\ answers' = <<>> /\ shifted' = <<>> /\ stale' = pending
  /\ UNCHANGED looks

\* The last byte is not acknowledged, and the driver does not wait for one.
Send(c) ==
  /\ pc = "send"
  /\ SendByte(Conversation[Len(answers) + 1], c)
  /\ pc' = IF Len(answers) + 1 = Len(Conversation) THEN "take" ELSE "clear"
  /\ looks' = 0
  /\ shifted' = Append(shifted, pad)
  /\ UNCHANGED <<answers, stale>>

\* Both places the last acknowledge may still stand.
Clear(c) ==
  /\ pc = "clear" /\ pc' = "clearIrq"
  /\ Select(control.second, TRUE, c)
  /\ UNCHANGED <<answers, looks, shifted, stale>>

ClearIrq(c) ==
  /\ pc = "clearIrq" /\ pc' = "wait"
  /\ AckIrq(c)
  /\ UNCHANGED <<answers, looks, shifted, stale>>

Look(c) ==
  /\ pc = "wait"
  /\ Plain(c)
  /\ pc' = IF irq THEN "take" ELSE IF looks < Patience THEN "wait" ELSE "empty"
  /\ looks' = IF irq THEN looks ELSE looks + 1
  /\ UNCHANGED <<answers, shifted, stale>>

Take(c) ==
  /\ pc = "take"
  /\ answers' = Append(answers, Received)
  /\ ReadData(c)
  /\ pc' = IF Len(answers) + 1 = Len(Conversation) THEN "done" ELSE "send"
  /\ UNCHANGED <<looks, shifted, stale>>

\* The select line dropped: the end, or giving up halfway.
Deselect(c) ==
  /\ pc # "idle"
  /\ pc' = "idle" /\ looks' = 0
  /\ WriteControl(FALSE, [wanted |-> FALSE, second |-> FALSE], FALSE, FALSE, c)
  /\ UNCHANGED <<answers, shifted, stale>>

Drive ==
  \E c \in CpuCycles :
    Begin(c) \/ Send(c) \/ Clear(c) \/ ClearIrq(c) \/ Look(c) \/ Take(c) \/ Deselect(c)

DriverNext ==
  \/ Drive
  \/ Deliver /\ UNCHANGED driver
  \/ Player /\ UNCHANGED driver

DriverSpec == DriverInit /\ [][DriverNext]_allVars

\* The processor runs on, and the event loop is run to its end.
FairDriverSpec ==
  DriverSpec /\ WF_allVars(Drive) /\ WF_allVars(Deliver /\ UNCHANGED driver)

-----------------------------------------------------------------------------
(***************************************************************************)
(* Properties.                                                             *)
(***************************************************************************)

\* The pad, once the driver has its bytes, was read: the identifier, and
\* each half of the buttons as the port had them when it was shifted, whatever
\* was pressed between the bytes and however slow the port.
PadIsRead == pc = "done" => ~control.second /\ answers = PadRead(shifted)

\* The driver takes a socket for empty exactly when nothing is in it: the
\* acknowledge is never cleared before it is looked for, and never looked
\* for in vain (the reason sio.h gives for its coming an event later).  Not
\* so of a conversation begun while the acknowledge of one given up is still
\* to come, which an empty socket then seems to give.
SocketsToldApart ==
  ~stale =>
    /\ pc = "empty" => control.second
    /\ (control.second /\ pc # "idle") => answers = <<>>

\* A conversation begun comes to an end, the port's answers coming or not.
ConversationsEnd == pc # "idle" ~> pc = "idle"

\* What sio.h says of an empty socket, that it never acknowledges, whatever
\* was given up before.
EmptySocketSilent == control.second /\ pc # "idle" => answers = <<>>
=============================================================================
