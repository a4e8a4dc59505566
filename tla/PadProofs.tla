----------------------------- MODULE PadProofs ------------------------------
(***************************************************************************)
(* What is proved of the controller port (Sio) and of the driver that      *)
(* reads the pad through it (PadDriver), for any buttons, any rates and    *)
(* instructions of any length.                                             *)
(***************************************************************************)
EXTENDS PadDriver, SequenceTheorems, TLAPS

-----------------------------------------------------------------------------
(* The port, whatever software does.                                       *)

SioInv == TypeOK /\ ExchangeShape

LEMMA Constants ==
  /\ Delays \subseteq Nat \ {0} /\ CpuCycles \subseteq Nat \ {0}
  /\ ResetDelay \in Nat \ {0} /\ ResetDelay \in Delays
  /\ \A a, b \in CpuCycles : a \in Nat \ {0} /\ b \in Nat \ {0}
  BY SioAssumption

LEMMA Answers ==
  /\ Idle \in Answer
  /\ \A b \in {"idle", "idLow", "idHigh"} : Plainly(b) \in Answer
  /\ \A p \in SUBSET Buttons :
       /\ [byte |-> "low", pressed |-> p \cap LowButtons] \in Answer
       /\ [byte |-> "high", pressed |-> p \ LowButtons] \in Answer
  BY DEF Answer, Idle, Plainly

LEMMA Records ==
  /\ \A a \in Answer : \A f \in BOOLEAN :
       [answer |-> a, full |-> f] \in [answer : Answer, full : BOOLEAN]
  /\ \A w, s \in BOOLEAN :
       [wanted |-> w, second |-> s] \in [wanted : BOOLEAN, second : BOOLEAN]
  /\ \A r \in [answer : Answer, full : BOOLEAN] :
       [r EXCEPT !.full = FALSE] \in [answer : Answer, full : BOOLEAN]
  OBVIOUS

\* What a byte makes of an exchange is an exchange.
LEMMA Exchanged ==
  ASSUME SioInv, NEW v \in Sent
  PROVE  /\ Exchange(v).target \in {"None", "Controller", "MemoryCard"}
         /\ Exchange(v).step \in 0 .. 4
         /\ Exchange(v).answer \in Answer
         /\ Exchange(v).more \in BOOLEAN
         /\ Exchange(v).target = "Controller" <=> Exchange(v).step > 0
<1>1. /\ target \in {"None", "Controller", "MemoryCard"} /\ step \in 0 .. 4
      /\ target = "Controller" <=> step > 0
      /\ pad \in SUBSET Buttons
  BY DEF SioInv, TypeOK, ExchangeShape
<1>2. CASE target = "None"
  <2>1. Exchange(v) = Addressed(v) /\ step = 0
    BY <1>1, <1>2 DEF Exchange
  <2> QED
    BY <2>1, Answers DEF Addressed, Shifted
<1>3. CASE target = "MemoryCard"
  <2>1. Exchange(v) = Shifted(target, step, Idle, FALSE)
    BY <1>3 DEF Exchange
  <2> QED
    BY <1>1, <1>3, <2>1, Answers DEF Shifted
<1>4. CASE target = "Controller"
  <2>1. Exchange(v) = PadAnswers(v) /\ step \in 1 .. 4
    BY <1>1, <1>4 DEF Exchange
  <2>2. CASE step = 1
    <3>1. PadAnswers(v) = IF v = "read" THEN Shifted("Controller", 2, Plainly("idLow"), TRUE)
                          ELSE Shifted("None", 0, Idle, FALSE)
      BY <2>2 DEF PadAnswers
    <3> QED
      BY <2>1, <3>1, Answers DEF Shifted
  <2>3. CASE step = 2
    <3>1. PadAnswers(v) = Shifted("Controller", 3, Plainly("idHigh"), TRUE)
      BY <2>3 DEF PadAnswers
    <3> QED
      BY <2>1, <3>1, Answers DEF Shifted
  <2>4. CASE step = 3
    <3> DEFINE a == [byte |-> "low", pressed |-> pad \cap LowButtons]
    <3>1. PadAnswers(v) = Shifted("Controller", 4, a, TRUE)
      BY <2>4 DEF PadAnswers
    <3>2. a \in Answer
      BY <1>1, Answers
    <3> HIDE DEF a
    <3> QED
      BY <2>1, <3>1, <3>2 DEF Shifted
  <2>5. CASE step = 4
    <3> DEFINE a == [byte |-> "high", pressed |-> pad \ LowButtons]
    <3>1. PadAnswers(v) = Shifted("None", 0, a, FALSE)
      BY <2>5 DEF PadAnswers
    <3>2. a \in Answer
      BY <1>1, Answers
    <3> HIDE DEF a
    <3> QED
      BY <2>1, <3>1, <3>2 DEF Shifted
  <2> QED
    BY <2>1, <2>2, <2>3, <2>4, <2>5
<1> QED
  BY <1>1, <1>2, <1>3, <1>4

LEMMA SioStarts == Init => SioInv
<1> SUFFICES ASSUME Init PROVE SioInv
  OBVIOUS
<1>1. /\ control \in [wanted : BOOLEAN, second : BOOLEAN]
      /\ received \in [answer : Answer, full : BOOLEAN]
  BY Records, Answers DEF Init
<1>2. /\ pad \in SUBSET Buttons
      /\ delay \in Delays /\ target = "None" /\ step = 0 /\ due = 0
  BY Constants DEF Init
<1>3. interrupt \in BOOLEAN /\ irq \in BOOLEAN /\ pending \in BOOLEAN
  BY DEF Init
<1> QED
  BY <1>1, <1>2, <1>3 DEF SioInv, TypeOK, ExchangeShape

LEMMA Elapsed ==
  ASSUME NEW p \in BOOLEAN, NEW d \in Int, NEW c \in CpuCycles, Elapse(p, d, c)
  PROVE  pending' \in BOOLEAN /\ due' \in Int
  BY Constants DEF Elapse

LEMMA SioHeld == SioInv /\ [Next]_vars => SioInv'
<1> SUFFICES ASSUME SioInv, [Next]_vars PROVE SioInv'
  OBVIOUS
<1> USE DEF SioInv, TypeOK, ExchangeShape
<1>1. ASSUME NEW c \in CpuCycles, Plain(c) PROVE SioInv'
  BY <1>1, Elapsed DEF Plain, port
<1>2. ASSUME NEW c \in CpuCycles, NEW v \in Sent, SendByte(v, c) PROVE SioInv'
  <2>1. /\ target' = Exchange(v).target /\ step' = Exchange(v).step
        /\ received' = [answer |-> Exchange(v).answer, full |-> TRUE]
        /\ UNCHANGED <<pad, control, delay, interrupt, irq>>
    BY <1>2 DEF SendByte
  <2>2. pending' \in BOOLEAN /\ due' \in Int
    <3>1. delay \in Int
      BY Constants
    <3>2. CASE Exchange(v).more
      BY <1>2, <3>1, <3>2, Elapsed DEF SendByte, AcknowledgeAt
    <3>3. CASE ~Exchange(v).more
      BY <1>2, <3>3, Elapsed DEF SendByte
    <3> QED
      BY <3>2, <3>3
  <2> QED
    BY <2>1, <2>2, Exchanged
<1>3. ASSUME NEW c \in CpuCycles, ReadData(c) PROVE SioInv'
  BY <1>3, Elapsed DEF ReadData
<1>4. ASSUME NEW c \in CpuCycles,
             NEW select \in BOOLEAN, NEW reset \in BOOLEAN,
             NEW acknowledge \in BOOLEAN,
             NEW w \in [wanted : BOOLEAN, second : BOOLEAN],
             WriteControl(select, w, reset, acknowledge, c)
      PROVE  SioInv'
  <2>1. /\ control' \in [wanted : BOOLEAN, second : BOOLEAN]
        /\ interrupt' \in BOOLEAN
    BY <1>4 DEF WriteControl
  <2>2. \/ target' = target /\ step' = step
        \/ target' = "None" /\ step' = 0
    BY <1>4 DEF WriteControl, Deselected
  <2>3. /\ pad' \in SUBSET Buttons /\ delay' \in Delays
        /\ received' \in [answer : Answer, full : BOOLEAN]
    <3>1. CASE reset
      <4>1. /\ pad' = {} /\ delay' = ResetDelay
            /\ received' = [answer |-> Idle, full |-> FALSE]
        BY <1>4, <3>1 DEF WriteControl
      <4>2. received' \in [answer : Answer, full : BOOLEAN]
        BY <4>1, Answers, Records
      <4> QED
        BY <4>1, <4>2, Constants
    <3>2. CASE ~reset
      BY <1>4, <3>2 DEF WriteControl
    <3> QED
      BY <3>1, <3>2
  <2>4. pending' \in BOOLEAN /\ due' \in Int /\ UNCHANGED irq
    BY <1>4, Elapsed DEF WriteControl
  <2> QED
    BY <2>1, <2>2, <2>3, <2>4
<1>5. ASSUME NEW c \in CpuCycles, NEW d \in Delays, SetRate(d, c) PROVE SioInv'
  BY <1>5, Elapsed DEF SetRate
<1>6. ASSUME NEW c \in CpuCycles, AckIrq(c) PROVE SioInv'
  BY <1>6, Elapsed DEF AckIrq, port
<1>7. ASSUME Deliver PROVE SioInv'
  <2>1. /\ interrupt' = TRUE /\ pending' = FALSE /\ due' = 0
        /\ UNCHANGED <<pad, control, delay, received, target, step>>
    BY <1>7 DEF Deliver, EmptiedSlot
  <2>2. irq' \in BOOLEAN
    <3>1. control.wanted \in BOOLEAN
      OBVIOUS
    <3> QED
      BY <1>7, <3>1 DEF Deliver
  <2>3. interrupt' \in BOOLEAN /\ pending' \in BOOLEAN
    BY <2>1, Zenon
  <2>4. due' \in Int
    BY <2>1
  <2> QED
    BY <2>1, <2>2, <2>3, <2>4
<1>8. ASSUME Player PROVE SioInv'
  BY <1>8 DEF Player, Press, Release, slot
<1>9. CASE UNCHANGED vars
  BY <1>9 DEF vars, port, slot
<1>10. CASE Next
  <2>1. ASSUME NEW c \in CpuCycles,
               NEW select \in BOOLEAN, NEW reset \in BOOLEAN,
               NEW acknowledge \in BOOLEAN, NEW wanted \in BOOLEAN,
               NEW second \in BOOLEAN,
               WriteControl(select, [wanted |-> wanted, second |-> second], reset,
                            acknowledge, c)
        PROVE  SioInv'
    <3>1. [wanted |-> wanted, second |-> second] \in [wanted : BOOLEAN, second : BOOLEAN]
      OBVIOUS
    <3> HIDE DEF SioInv
    <3> QED
      BY <1>4, <2>1, <3>1
  <2> HIDE DEF SioInv
  <2> QED
    BY <1>10, <1>1, <1>2, <1>3, <1>5, <1>6, <1>7, <1>8, <2>1, ZenonT(30) DEF Next
<1> QED
  BY <1>9, <1>10

\* The port's state keeps to its types, the step to the five bytes of an
\* exchange (exchange, write_register, deliver_acknowledge).
THEOREM SioTypeOK == Spec => []TypeOK
<1>1. SioInv => TypeOK
  BY DEF SioInv
<1> QED
  BY <1>1, SioStarts, SioHeld, PTL DEF Spec

\* Whatever software does, an exchange is with the pad and under way or has no
\* step, so the next with the pad begins at its beginning (exchange).
THEOREM SioExchangeShape == Spec => []ExchangeShape
<1>1. SioInv => ExchangeShape
  BY DEF SioInv
<1> QED
  BY <1>1, SioStarts, SioHeld, PTL DEF Spec

-----------------------------------------------------------------------------
(* The driver.                                                             *)

\* The bytes sent so far.
Count == IF pc \in {"clear", "clearIrq", "wait", "take", "empty"}
         THEN Len(answers) + 1 ELSE Len(answers)

\* What the driver and the port are in any conversation.
Driving ==
  /\ pc \in {"idle", "send", "clear", "clearIrq", "wait", "take", "empty", "done"}
  /\ answers \in Seq(Answer) /\ shifted \in Seq(SUBSET Buttons)
  /\ Len(answers) <= 5 /\ looks \in Nat /\ stale \in BOOLEAN
  /\ pc = "send" => Len(answers) <= 4
  /\ pc \in {"clear", "clearIrq"} => looks = 0
  /\ delay = ResetDelay
  /\ pc = "idle" => target = "None"
  /\ pc # "idle" => control.wanted

\* A conversation with the pad: so many bytes sent, so far into the exchange,
\* and the answers so far those of the pad.
WithPad ==
  pc # "idle" /\ ~control.second =>
    /\ Len(shifted) = Count
    /\ Count \in 1 .. 4 => target = "Controller" /\ step = Count
    /\ Count \in {0, 5} => target = "None"
    /\ pc \in {"clear", "clearIrq", "wait", "empty"} => Len(answers) <= 3
    /\ pc = "take" => Len(answers) <= 4
    /\ pc = "done" => Len(answers) = 5
    /\ \A i \in 1 .. Len(answers) : answers[i] = PadRead(shifted)[i]
    /\ Count = Len(answers) + 1 =>
         received = [answer |-> PadRead(shifted)[Count], full |-> TRUE]

\* One with the empty socket: nothing is acknowledged but what an exchange given
\* up has still to come, and that once.
WithNothing ==
  pc # "idle" /\ control.second =>
    /\ target = "None" /\ pc # "done"
    /\ Len(answers) <= 1
    /\ Len(answers) = 1 => ~pending /\ pc # "take"
    /\ pc = "take" => ~pending
    /\ pc = "wait" /\ irq => ~pending /\ Len(answers) = 0
    /\ ~stale => /\ ~pending /\ answers = <<>> /\ pc # "take"
                 /\ pc = "wait" => ~irq

DriverInv == SioInv /\ Driving /\ WithPad /\ WithNothing

\* The answer to the driver's next byte, and where it leaves the exchange.
LEMMA NextAnswer ==
  ASSUME SioInv, Driving, WithPad, WithNothing, pc = "send"
  PROVE  LET n == Len(answers)
             x == Exchange(Conversation[n + 1])
         IN /\ Conversation[n + 1] \in Sent
            /\ ~control.second =>
                 /\ x.answer = PadRead(Append(shifted, pad))[n + 1]
                 /\ n < 4 => x.target = "Controller" /\ x.step = n + 1 /\ x.more
                 /\ n = 4 => x.target = "None" /\ ~x.more
            /\ control.second =>
                 x.target = "None" /\ ~x.more
<1> DEFINE n == Len(answers)
<1> DEFINE h == Append(shifted, pad)
<1> DEFINE toPad == ~control.second
<1>1. /\ n \in 0 .. 4 /\ target \in {"None", "Controller", "MemoryCard"}
      /\ pad \in SUBSET Buttons
  <2>1. n \in Nat /\ n <= 4
    BY LenProperties DEF Driving
  <2>2. /\ target \in {"None", "Controller", "MemoryCard"}
        /\ pad \in SUBSET Buttons
    BY DEF Driving, SioInv, TypeOK
  <2> HIDE DEF n
  <2> QED
    BY <2>1, <2>2
<1>2. /\ Conversation[1] = "pad" /\ Conversation[2] = "read" /\ Conversation[3] = "other"
      /\ Conversation[4] = "other" /\ Conversation[5] = "other"
  BY DEF Conversation
<1>3. /\ PadRead(h)[1] = Idle /\ PadRead(h)[2] = Plainly("idLow")
      /\ PadRead(h)[3] = Plainly("idHigh")
      /\ PadRead(h)[4] = [byte |-> "low", pressed |-> h[4] \cap LowButtons]
      /\ PadRead(h)[5] = [byte |-> "high", pressed |-> h[5] \ LowButtons]
  BY DEF PadRead
<1>4. ASSUME toPad
      PROVE  /\ h[n + 1] = pad
             /\ n = 0 => target = "None"
             /\ n > 0 => target = "Controller" /\ step = n
  <2>1. Len(shifted) = n /\ Count = n /\ shifted \in Seq(SUBSET Buttons)
    BY <1>4 DEF WithPad, Count, Driving
  <2> HIDE DEF n
  <2>2. h[n + 1] = pad
    BY <1>1, <2>1, AppendProperties
  <2> HIDE DEF h
  <2> QED
    BY <1>1, <1>4, <2>1, <2>2 DEF WithPad
<1>10. ASSUME ~toPad PROVE target = "None"
  BY <1>10 DEF WithNothing
<1> DEFINE x == Exchange(Conversation[n + 1])
<1> SUFFICES /\ Conversation[n + 1] \in Sent
             /\ toPad => /\ x.answer = PadRead(h)[n + 1]
                         /\ n < 4 => x.target = "Controller" /\ x.step = n + 1 /\ x.more
                         /\ n = 4 => x.target = "None" /\ ~x.more
             /\ ~toPad => x.target = "None" /\ ~x.more
  BY Zenon
<1> HIDE DEF n, h, toPad
<1>5. CASE n = 0
  <2>1. target = "None" /\ n + 1 = 1
    BY <1>1, <1>4, <1>5, <1>10
  <2>2. x = Addressed("pad")
    BY <1>2, <2>1 DEF Exchange
  <2>3. x = IF toPad THEN Shifted("Controller", 1, Idle, TRUE)
            ELSE Shifted("None", step, Idle, FALSE)
    BY <2>2 DEF Addressed, toPad
  <2> HIDE DEF x
  <2> QED
    BY <1>2, <1>3, <1>5, <2>1, <2>3 DEF Shifted, Sent
<1>6. ASSUME ~toPad, n > 0
      PROVE  x.target = "None" /\ ~x.more /\ Conversation[n + 1] \in Sent
  <2>1. Conversation[n + 1] \in {"read", "other"}
    BY <1>1, <1>2, <1>6
  <2>2. x = Addressed(Conversation[n + 1])
    BY <1>6, <1>10 DEF Exchange
  <2>3. x = Shifted("None", step, Idle, FALSE)
    BY <2>1, <2>2 DEF Addressed
  <2> QED
    BY <2>1, <2>3 DEF Shifted, Sent
<1>7. ASSUME toPad, n > 0
      PROVE  x = PadAnswers(Conversation[n + 1])
  <2>1. target = "Controller"
    BY <1>4, <1>7
  <2> QED
    BY <2>1 DEF Exchange
<1>8. ASSUME toPad, n > 0
      PROVE  /\ Conversation[n + 1] \in Sent
             /\ x.answer = PadRead(h)[n + 1]
             /\ n < 4 => x.target = "Controller" /\ x.step = n + 1 /\ x.more
             /\ n = 4 => x.target = "None" /\ ~x.more
  <2> DEFINE low == [byte |-> "low", pressed |-> pad \cap LowButtons]
  <2> DEFINE high == [byte |-> "high", pressed |-> pad \ LowButtons]
  <2>1. step = n /\ h[n + 1] = pad /\ x = PadAnswers(Conversation[n + 1])
    BY <1>4, <1>7, <1>8
  <2>2. PadRead(h)[n + 1] = IF n = 1 THEN Plainly("idLow") ELSE IF n = 2 THEN Plainly("idHigh")
                            ELSE IF n = 3 THEN low ELSE high
    BY <1>1, <1>3, <1>8, <2>1
  <2>3. x = IF n = 1 THEN Shifted("Controller", 2, Plainly("idLow"), TRUE)
            ELSE IF n = 2 THEN Shifted("Controller", 3, Plainly("idHigh"), TRUE)
            ELSE IF n = 3 THEN Shifted("Controller", 4, low, TRUE)
            ELSE Shifted("None", 0, high, FALSE)
    <3>1. CASE n = 1
      <4>1. x = PadAnswers("read") /\ step = 1
        BY <1>2, <2>1, <3>1
      <4>2. PadAnswers("read") = Shifted("Controller", 2, Plainly("idLow"), TRUE)
        BY <4>1 DEF PadAnswers
      <4> QED
        BY <3>1, <4>1, <4>2
    <3>2. CASE n = 2
      <4>1. x = PadAnswers("other") /\ step = 2
        BY <1>2, <2>1, <3>2
      <4>2. PadAnswers("other") = Shifted("Controller", 3, Plainly("idHigh"), TRUE)
        BY <4>1 DEF PadAnswers
      <4>3. n # 1
        BY <3>2
      <4> HIDE DEF x, low, high
      <4> QED
        BY <3>2, <4>1, <4>2, <4>3, Zenon
    <3>3. CASE n = 3
      <4>1. x = PadAnswers("other") /\ step = 3
        BY <1>2, <2>1, <3>3
      <4>2. PadAnswers("other") = Shifted("Controller", 4, low, TRUE)
        BY <1>1, <4>1 DEF PadAnswers
      <4>3. n # 1 /\ n # 2
        BY <3>3
      <4> HIDE DEF x, low, high
      <4> QED
        BY <3>3, <4>1, <4>2, <4>3, Zenon
    <3>4. CASE n = 4
      <4>1. x = PadAnswers("other") /\ step = 4
        BY <1>2, <2>1, <3>4
      <4>2. PadAnswers("other") = Shifted("None", 0, high, FALSE)
        BY <1>1, <4>1 DEF PadAnswers
      <4>3. n # 1 /\ n # 2 /\ n # 3
        BY <3>4
      <4> HIDE DEF x, low, high
      <4> QED
        BY <3>4, <4>1, <4>2, <4>3, Zenon
    <3>5. n = 1 \/ n = 2 \/ n = 3 \/ n = 4
      BY <1>1, <1>8
    <3> HIDE DEF x, low, high
    <3> QED
      BY <3>1, <3>2, <3>3, <3>4, <3>5, Zenon
  <2> HIDE DEF low, high, x
  <2>4. Conversation[n + 1] \in Sent
    BY <1>1, <1>2, <1>8 DEF Sent
  <2> QED
    BY <1>1, <1>8, <2>2, <2>3, <2>4 DEF Shifted
<1> HIDE DEF x
<1>9. n = 0 \/ n > 0
  BY <1>1
<1> QED
  BY <1>5, <1>6, <1>8, <1>9

\* The answers of a pad so far do not change with the buttons to come.
LEMMA PadReadOn ==
  ASSUME NEW h \in Seq(SUBSET Buttons), NEW b \in SUBSET Buttons,
         NEW i \in 1 .. 5, i <= Len(h)
  PROVE  PadRead(Append(h, b))[i] = PadRead(h)[i]
<1>1. \A k \in 1 .. Len(h) : Append(h, b)[k] = h[k]
  BY AppendProperties
<1> DEFINE g == Append(h, b)
<1> HIDE DEF g
<1>2. CASE i = 4
  <2>1. g[4] = h[4]
    BY <1>1, <1>2 DEF g
  <2> QED
    BY <1>2, <2>1 DEF PadRead, g
<1>3. CASE i = 5
  <2>1. g[5] = h[5]
    BY <1>1, <1>3 DEF g
  <2> QED
    BY <1>3, <2>1 DEF PadRead, g
<1>4. CASE i = 1
  BY <1>4 DEF PadRead
<1>5. CASE i = 2
  BY <1>5 DEF PadRead
<1>6. CASE i = 3
  BY <1>6 DEF PadRead
<1> QED
  BY <1>2, <1>3, <1>4, <1>5, <1>6

LEMMA DriverStarts == DriverInit => DriverInv
<1> SUFFICES ASSUME DriverInit PROVE DriverInv
  OBVIOUS
<1>1. SioInv
  BY SioStarts DEF DriverInit
<1>2. /\ pc = "idle" /\ answers = <<>> /\ shifted = <<>> /\ looks = 0 /\ stale = FALSE
      /\ pad = {} /\ delay = ResetDelay /\ target = "None"
  BY DEF DriverInit, Init
<1>3. /\ answers \in Seq(Answer) /\ shifted \in Seq(SUBSET Buttons) /\ Len(answers) = 0
      /\ stale \in BOOLEAN
  BY <1>2, EmptySeq
<1> QED
  BY <1>1, <1>2, <1>3 DEF DriverInv, Driving, WithPad, WithNothing

\* A driver is software: its steps are the port's.
LEMMA DriverSteps == DriverInv /\ [DriverNext]_allVars => [Next]_vars
<1> SUFFICES ASSUME DriverInv, [DriverNext]_allVars PROVE [Next]_vars
  OBVIOUS
<1>1. control.second \in BOOLEAN
  BY DEF DriverInv, SioInv, TypeOK
<1>2. ASSUME NEW c \in CpuCycles, NEW second \in BOOLEAN, Select(second, TRUE, c) PROVE Next
  BY <1>2 DEF Select, Next
<1>3. ASSUME NEW c \in CpuCycles, Begin(c) PROVE Next
  BY <1>2, <1>3 DEF Begin
<1>4. ASSUME NEW c \in CpuCycles, Send(c) PROVE Next
  <2>1. pc = "send" /\ SendByte(Conversation[Len(answers) + 1], c)
    BY <1>4 DEF Send
  <2>2. Conversation[Len(answers) + 1] \in Sent
    BY <2>1, NextAnswer DEF DriverInv
  <2> QED
    BY <2>1, <2>2 DEF Next
<1>5. ASSUME NEW c \in CpuCycles, Clear(c) PROVE Next
  BY <1>1, <1>2, <1>5 DEF Clear
<1>6. ASSUME NEW c \in CpuCycles, ClearIrq(c) PROVE Next
  BY <1>6 DEF ClearIrq, Next
<1>7. ASSUME NEW c \in CpuCycles, Look(c) PROVE Next
  BY <1>7 DEF Look, Next
<1>8. ASSUME NEW c \in CpuCycles, Take(c) PROVE Next
  BY <1>8 DEF Take, Next
<1>9. ASSUME NEW c \in CpuCycles, Deselect(c) PROVE Next
  BY <1>9 DEF Deselect, Next
<1> QED
  BY <1>3, <1>4, <1>5, <1>6, <1>7, <1>8, <1>9 DEF DriverNext, Drive, Next, allVars

\* A store to the control register that neither resets nor deselects.
LEMMA Selected ==
  ASSUME NEW c, NEW second, NEW acknowledge, Select(second, acknowledge, c)
  PROVE  /\ control'.wanted /\ control'.second = second
         /\ BetweenInstructions /\ Elapse(pending, due, c)
         /\ pending' = pending
         /\ UNCHANGED <<irq, target, step, pad, delay, received>>
<1>1. control' = [wanted |-> TRUE, second |-> second]
  BY DEF Select, WriteControl
<1>2. control'.wanted /\ control'.second = second
  <2>1. [wanted |-> TRUE, second |-> second].wanted
    OBVIOUS
  <2>2. [wanted |-> TRUE, second |-> second].second = second
    OBVIOUS
  <2> QED
    BY <1>1, <2>1, <2>2, Zenon
<1> QED
  BY <1>2 DEF Select, WriteControl, Elapse

LEMMA DriverHeld == DriverInv /\ [DriverNext]_allVars => DriverInv'
<1> SUFFICES ASSUME DriverInv, [DriverNext]_allVars PROVE DriverInv'
  OBVIOUS
<1> USE DEF DriverInv
<1>1. SioInv'
  BY DriverSteps, SioHeld
<1>2. Len(answers) \in Nat /\ Len(shifted) \in Nat /\ control.second \in BOOLEAN
  BY LenProperties DEF Driving, SioInv, TypeOK
<1>3. ASSUME NEW c \in CpuCycles, Begin(c) PROVE DriverInv'
  <2>1. PICK second \in BOOLEAN : Select(second, TRUE, c)
    BY <1>3 DEF Begin
  <2>2. /\ pc = "idle" /\ pc' = "send" /\ answers' = <<>> /\ shifted' = <<>>
        /\ stale' = pending /\ looks' = looks
    BY <1>3 DEF Begin
  <2>3. /\ control'.wanted /\ control'.second = second /\ pending' = pending
        /\ UNCHANGED <<irq, target, step, pad, delay, received>>
    BY <2>1, Selected, Zenon
  <2>4. /\ <<>> \in Seq(Answer) /\ <<>> \in Seq(SUBSET Buttons) /\ Len(<<>>) = 0
        /\ pending \in BOOLEAN
    BY EmptySeq DEF SioInv, TypeOK
  <2>5. Driving'
    BY <2>2, <2>3, <2>4 DEF Driving
  <2>6. Count' = 0 /\ Len(shifted') = 0 /\ Len(answers') = 0
    BY <2>2, <2>4 DEF Count
  <2>7. WithPad'
    BY <2>2, <2>3, <2>6 DEF WithPad, Driving
  <2>8. WithNothing'
    BY <2>2, <2>3, <2>6 DEF WithNothing, Driving
  <2> QED
    BY <1>1, <2>5, <2>7, <2>8
<1>4. ASSUME NEW c \in CpuCycles, Send(c) PROVE DriverInv'
  <2> DEFINE n == Len(answers)
  <2> DEFINE x == Exchange(Conversation[n + 1])
  <2>1. /\ pc = "send" /\ pc' = IF n + 1 = 5 THEN "take" ELSE "clear"
        /\ looks' = 0 /\ shifted' = Append(shifted, pad)
        /\ answers' = answers /\ stale' = stale
    BY <1>4 DEF Send, Conversation
  <2>2. /\ target' = x.target /\ step' = x.step
        /\ received' = [answer |-> x.answer, full |-> TRUE]
        /\ ~x.more => pending' = pending
        /\ UNCHANGED <<pad, control, delay, interrupt, irq>>
    BY <1>4 DEF Send, SendByte, Elapse
  <2>3. /\ ~control.second =>
             /\ x.answer = PadRead(Append(shifted, pad))[n + 1]
             /\ n < 4 => x.target = "Controller" /\ x.step = n + 1 /\ x.more
             /\ n = 4 => x.target = "None" /\ ~x.more
        /\ control.second => x.target = "None" /\ ~x.more
    BY <2>1, NextAnswer
  <2>4. n \in 0 .. 4 /\ pad \in SUBSET Buttons /\ Count = n
    <3>1. n <= 4 /\ pad \in SUBSET Buttons /\ Count = n
      BY <2>1 DEF Driving, SioInv, TypeOK, Count
    <3> QED
      BY <1>2, <3>1
  <2>5. /\ Append(shifted, pad) \in Seq(SUBSET Buttons)
        /\ Len(Append(shifted, pad)) = Len(shifted) + 1
    BY <2>4, AppendProperties DEF Driving
  <2> HIDE DEF x
  <2>6. Driving'
    <3>1. pc' \in {"take", "clear"}
      BY <2>1
    <3> QED
      BY <2>1, <2>2, <2>5, <3>1 DEF Driving
  <2>7. Count' = n + 1 /\ Len(answers') = n
    BY <2>1 DEF Count
  <2>8. ASSUME ~control.second
        PROVE  WithPad'
    <3>1. /\ Len(shifted) = n
          /\ \A i \in 1 .. n : answers[i] = PadRead(shifted)[i]
      BY <2>1, <2>4, <2>8 DEF WithPad
    <3>2. \A i \in 1 .. n : answers'[i] = PadRead(shifted')[i]
      <4>1. ASSUME NEW i \in 1 .. n PROVE answers[i] = PadRead(Append(shifted, pad))[i]
        <5>1. /\ shifted \in Seq(SUBSET Buttons) /\ pad \in SUBSET Buttons
              /\ i \in 1 .. 5 /\ i <= Len(shifted)
          BY <2>4, <3>1, <4>1 DEF Driving
        <5>2. PadRead(Append(shifted, pad))[i] = PadRead(shifted)[i]
          BY ONLY <5>1, PadReadOn
        <5> QED
          BY <3>1, <5>2
      <4> QED
        BY <2>1, <4>1
    <3>3. received' = [answer |-> PadRead(shifted')[n + 1], full |-> TRUE]
      BY <2>1, <2>2, <2>3, <2>8
    <3>4. /\ n + 1 \in 1 .. 4 => target' = "Controller" /\ step' = n + 1
          /\ n + 1 \in {0, 5} => target' = "None"
      BY <2>2, <2>3, <2>4, <2>8
    <3>5. Len(shifted') = n + 1
      BY <2>1, <2>5, <3>1
    <3>6. /\ pc' \in {"clear", "clearIrq", "wait", "empty"} => n <= 3
          /\ pc' = "take" => n <= 4
          /\ pc' # "done"
      BY <2>1, <2>4
    <3> HIDE DEF n
    <3> QED
      BY <2>7, <3>2, <3>3, <3>4, <3>5, <3>6 DEF WithPad
  <2>9. ASSUME control.second
        PROVE  WithNothing'
    <3>1. n <= 1 /\ target' = "None" /\ pending' = pending /\ pc' = "clear"
      BY <2>1, <2>2, <2>3, <2>4, <2>9 DEF WithNothing
    <3> QED
      BY <2>1, <2>9, <3>1 DEF WithNothing
  <2>10. control' = control
    BY <2>2
  <2> QED
    BY <1>1, <1>2, <2>6, <2>8, <2>9, <2>10 DEF WithPad, WithNothing
<1>5. ASSUME NEW c \in CpuCycles, Clear(c) PROVE DriverInv'
  <2>1. /\ pc = "clear" /\ pc' = "clearIrq"
        /\ UNCHANGED <<answers, looks, shifted, stale>>
        /\ Select(control.second, TRUE, c)
    BY <1>5 DEF Clear
  <2>2. /\ control'.wanted /\ control'.second = control.second /\ pending' = pending
        /\ UNCHANGED <<irq, target, step, pad, delay, received>>
    BY <2>1, Selected, Zenon
  <2>3. Count' = Count
    BY <2>1 DEF Count
  <2> QED
    BY <1>1, <2>1, <2>2, <2>3 DEF Driving, WithPad, WithNothing
<1>6. ASSUME NEW c \in CpuCycles, ClearIrq(c) PROVE DriverInv'
  <2>1. /\ pc = "clearIrq" /\ pc' = "wait"
        /\ UNCHANGED <<answers, looks, shifted, stale>>
        /\ irq' = FALSE /\ pending' = pending
        /\ UNCHANGED <<pad, control, delay, received, interrupt, target, step>>
    BY <1>6 DEF ClearIrq, AckIrq, Elapse, port
  <2>2. Count' = Count
    BY <2>1 DEF Count
  <2> QED
    BY <1>1, <2>1, <2>2 DEF Driving, WithPad, WithNothing
<1>7. ASSUME NEW c \in CpuCycles, Look(c) PROVE DriverInv'
  <2>1. /\ pc = "wait" /\ pc' = IF irq THEN "take" ELSE IF looks < Patience THEN "wait" ELSE "empty"
        /\ looks' = IF irq THEN looks ELSE looks + 1
        /\ UNCHANGED <<answers, shifted, stale>> /\ pending' = pending
        /\ UNCHANGED <<pad, control, delay, received, interrupt, target, step, irq>>
    BY <1>7 DEF Look, Plain, Elapse, port
  <2>2. pc' \in {"wait", "take", "empty"} /\ looks' \in Nat
    BY <2>1 DEF Driving
  <2>3. Count' = Count
    BY <2>1, <2>2 DEF Count
  <2>4. Driving'
    BY <2>1, <2>2 DEF Driving
  <2>5. WithPad'
    BY <1>2, <2>1, <2>2, <2>3 DEF WithPad
  <2>6. WithNothing'
    <3>1. pc' = "take" => irq
      BY <2>1
    <3>2. pc' = "wait" => ~irq
      BY <2>1
    <3>3. control' = control /\ pending' = pending /\ answers' = answers /\ stale' = stale
          /\ target' = target /\ irq' = irq /\ pc = "wait"
      BY <2>1
    <3> QED
      BY <1>2, <2>2, <3>1, <3>2, <3>3 DEF WithNothing
  <2> QED
    BY <1>1, <2>4, <2>5, <2>6
<1>8. ASSUME NEW c \in CpuCycles, Take(c) PROVE DriverInv'
  <2> DEFINE n == Len(answers)
  <2>1. /\ pc = "take" /\ pc' = IF n + 1 = 5 THEN "done" ELSE "send"
        /\ answers' = Append(answers, Received)
        /\ UNCHANGED <<looks, shifted, stale>> /\ pending' = pending
        /\ UNCHANGED <<pad, control, delay, interrupt, target, step, irq>>
    BY <1>8 DEF Take, ReadData, Elapse, Conversation
  <2>2. Received \in Answer
    <3>1. received.answer \in Answer
      BY DEF SioInv, TypeOK
    <3> QED
      BY <3>1, Answers DEF Received
  <2>3. /\ answers' \in Seq(Answer) /\ Len(answers') = n + 1
        /\ \A i \in 1 .. n : answers'[i] = answers[i]
        /\ answers'[n + 1] = Received
    BY <2>1, <2>2, AppendProperties DEF Driving
  <2>4. n \in 0 .. 4
    <3>1. control.second => n <= 1
      BY <2>1 DEF WithNothing
    <3>2. ~control.second => n <= 4
      BY <2>1 DEF WithPad
    <3> HIDE DEF n, DriverInv
    <3>3. n \in Nat
      BY <1>2 DEF n
    <3> QED
      BY <3>1, <3>2, <3>3
  <2>5. /\ pc' \in {"send", "done"}
        /\ pc' = "send" => n + 1 <= 4
        /\ pc' = "done" => n + 1 = 5
    <3>1. pc' = IF n + 1 = 5 THEN "done" ELSE "send"
      BY <2>1
    <3> HIDE DEF n
    <3>2. CASE n + 1 = 5
      BY <3>1, <3>2
    <3>3. CASE n + 1 # 5
      BY <2>4, <3>1, <3>3
    <3> QED
      BY <3>2, <3>3
  <2>6. Count = n + 1 /\ Count' = n + 1
    BY <2>1, <2>3, <2>5 DEF Count
  <2>7. Driving'
    BY <2>1, <2>3, <2>4, <2>5 DEF Driving
  <2>8. ASSUME ~control.second PROVE WithPad'
    <3>1. /\ received = [answer |-> PadRead(shifted)[n + 1], full |-> TRUE]
          /\ \A i \in 1 .. n : answers[i] = PadRead(shifted)[i]
          /\ Len(shifted) = n + 1
          /\ n + 1 \in 1 .. 4 => target = "Controller" /\ step = n + 1
          /\ n + 1 \in {0, 5} => target = "None"
      BY <2>1, <2>6, <2>8 DEF WithPad
    <3>2. Received = PadRead(shifted)[n + 1]
      BY <3>1 DEF Received
    <3>3. \A i \in 1 .. n + 1 : answers'[i] = PadRead(shifted')[i]
      <4> TAKE i \in 1 .. n + 1
      <4>1. CASE i = n + 1
        BY <2>1, <2>3, <3>2, <4>1
      <4>2. CASE i # n + 1
        <5>1. i \in 1 .. n
          BY <2>4, <4>2
        <5> QED
          BY <2>1, <2>3, <3>1, <5>1
      <4> QED
        BY <4>1, <4>2
    <3>4. Count' # Len(answers') + 1
      BY <2>3, <2>4, <2>6
    <3> HIDE DEF n
    <3> QED
      BY <2>1, <2>3, <2>5, <2>6, <3>1, <3>3, <3>4 DEF WithPad
  <2>9. ASSUME control.second PROVE WithNothing'
    <3>1. n # 1 /\ n <= 1 /\ ~pending /\ stale /\ target = "None"
      <4>1. pc # "idle" /\ pc = "take"
        BY <2>1
      <4> QED
        BY <2>9, <4>1, Zenon DEF WithNothing
    <3>4. n = 0
      BY <2>4, <3>1
    <3>2. pc' = "send" /\ Len(answers') = 1
      BY <2>1, <2>3, <3>4
    <3> QED
      BY <2>1, <3>1, <3>2 DEF WithNothing
  <2> QED
    BY <1>1, <1>2, <2>1, <2>7, <2>8, <2>9 DEF WithPad, WithNothing
<1>9. ASSUME NEW c \in CpuCycles, Deselect(c) PROVE DriverInv'
  <2>1. /\ pc' = "idle" /\ looks' = 0 /\ target' = "None"
        /\ UNCHANGED <<answers, shifted, stale, pad, delay>>
    BY <1>9 DEF Deselect, WriteControl, Deselected
  <2> QED
    BY <1>1, <2>1 DEF Driving, WithPad, WithNothing
<1>10. ASSUME Deliver, UNCHANGED driver PROVE DriverInv'
  <2>1. /\ UNCHANGED <<pad, control, delay, received, target, step>>
        /\ UNCHANGED <<pc, answers, looks, shifted, stale>>
        /\ pending /\ pending' = FALSE
    BY <1>10 DEF Deliver, EmptiedSlot, driver
  <2>2. Count' = Count
    BY <2>1 DEF Count
  <2>3. WithNothing'
    <3>1. pc # "idle" /\ control.second =>
            stale /\ Len(answers) # 1 /\ Len(answers) <= 1 /\ pc # "take"
      BY <2>1, Zenon DEF WithNothing
    <3>2. ASSUME pc # "idle" /\ control.second PROVE Len(answers) = 0
      <4> DEFINE n == Len(answers)
      <4>1. n # 1 /\ n <= 1 /\ n \in Nat
        BY <1>2, <3>1, <3>2
      <4> HIDE DEF n
      <4>2. n = 0
        BY <4>1
      <4> QED
        BY <4>2 DEF n
    <3> QED
      BY <2>1, <3>1, <3>2 DEF WithNothing
  <2> QED
    BY <1>1, <2>1, <2>2, <2>3 DEF Driving, WithPad
<1>11. ASSUME Player, UNCHANGED driver PROVE DriverInv'
  <2>1. /\ UNCHANGED <<control, delay, received, target, step, irq, pending>>
        /\ UNCHANGED <<pc, answers, looks, shifted, stale>>
    BY <1>11 DEF Player, Press, Release, driver, slot, Driving
  <2>2. Count' = Count
    BY <2>1 DEF Count
  <2> QED
    BY <1>1, <2>1, <2>2 DEF Driving, WithPad, WithNothing
<1>12. CASE UNCHANGED allVars
  <2>1. /\ UNCHANGED <<pad, control, delay, received, target, step, irq, pending>>
        /\ UNCHANGED <<pc, answers, looks, shifted, stale>>
    BY <1>12 DEF allVars, vars, port, slot, driver
  <2>2. Count' = Count
    BY <2>1 DEF Count
  <2> QED
    BY <1>1, <2>1, <2>2 DEF Driving, WithPad, WithNothing
<1> HIDE DEF DriverInv
<1> QED
  BY <1>3, <1>4, <1>5, <1>6, <1>7, <1>8, <1>9, <1>10, <1>11, <1>12 DEF DriverNext, Drive

-----------------------------------------------------------------------------
(* The acknowledge in time.                                                *)

\* The acknowledge comes no sooner than software can clear the one before it,
Slow == \A c, d \in CpuCycles : c + d < ResetDelay
\* and software waits for it as long as it takes.
Patient == ResetDelay <= Patience + 3

\* Every byte that is acknowledged is waited for, and while no acknowledge has
\* been seen it is still to come, and before the last look.
InTime ==
  pc # "idle" /\ ~control.second =>
    /\ pc = "clear" => pending /\ \E c \in CpuCycles : due = ResetDelay - c
    /\ pc = "clearIrq" => pending /\ due > 0 /\ due <= ResetDelay - 2
    /\ pc = "wait" => irq \/ (pending /\ due + looks <= ResetDelay - 3)
    /\ pc # "empty"

LEMMA TimeHeld ==
  ASSUME Slow, Patient
  PROVE  DriverInv /\ InTime /\ [DriverNext]_allVars => InTime'
<1> SUFFICES ASSUME DriverInv, InTime, [DriverNext]_allVars PROVE InTime'
  OBVIOUS
<1>1. /\ due \in Int /\ looks \in Nat /\ Patience \in Nat
      /\ ResetDelay \in Nat \ {0} /\ CpuCycles \subseteq Nat \ {0}
  BY DriverAssumption, SioAssumption DEF DriverInv, SioInv, TypeOK, Driving
<1>2. ASSUME NEW c \in CpuCycles, Begin(c) PROVE InTime'
  BY <1>2 DEF Begin, InTime
<1>3. ASSUME NEW c \in CpuCycles, Send(c) PROVE InTime'
  <2> DEFINE n == Len(answers)
  <2> DEFINE x == Exchange(Conversation[n + 1])
  <2>1. /\ pc = "send" /\ pc' = IF n + 1 = 5 THEN "take" ELSE "clear"
        /\ control' = control
        /\ x.more => Elapse(TRUE, delay, c)
    BY <1>3 DEF Send, Conversation, SendByte, AcknowledgeAt
  <2>2. ~control.second => (n < 4 => x.more)
    BY <2>1, NextAnswer DEF DriverInv
  <2>3. n \in 0 .. 4 /\ delay = ResetDelay
    <3>1. n \in Nat /\ n <= 4 /\ delay = ResetDelay
      BY <2>1, LenProperties DEF DriverInv, Driving
    <3> HIDE DEF n
    <3> QED
      BY <3>1
  <2>4. pc' \in {"take", "clear"} /\ pc' = "clear" => n < 4
    <3> HIDE DEF n, x
    <3> QED
      BY <2>1, <2>3
  <2> HIDE DEF n, x
  <2>5. ASSUME ~control.second, pc' = "clear"
        PROVE  pending' /\ due' = ResetDelay - c
    BY <2>1, <2>2, <2>3, <2>4, <2>5 DEF Elapse
  <2> QED
    BY <2>1, <2>4, <2>5 DEF InTime
<1>4. ASSUME NEW c \in CpuCycles, Clear(c) PROVE InTime'
  <2>1. /\ pc = "clear" /\ pc' = "clearIrq" /\ Select(control.second, TRUE, c)
    BY <1>4 DEF Clear
  <2>2. control'.second = control.second /\ Elapse(pending, due, c)
    BY <2>1, Selected, Zenon
  <2>3. ASSUME ~control.second
        PROVE  pending' /\ due' > 0 /\ due' <= ResetDelay - 2
    <3>1. PICK d \in CpuCycles : due = ResetDelay - d
      BY <2>1, <2>3 DEF InTime
    <3>2. pending' /\ due' = due - c
      BY <2>1, <2>2, <2>3 DEF InTime, Elapse
    <3>3. d + c < ResetDelay /\ c >= 1 /\ d >= 1 /\ c \in Nat /\ d \in Nat
      BY <1>1 DEF Slow
    <3> QED
      BY <1>1, <3>1, <3>2, <3>3
  <2> QED
    BY <2>1, <2>2, <2>3 DEF InTime
<1>5. ASSUME NEW c \in CpuCycles, ClearIrq(c) PROVE InTime'
  <2>1. /\ pc = "clearIrq" /\ pc' = "wait" /\ control' = control /\ looks' = looks
        /\ Elapse(pending, due, c)
    BY <1>5 DEF ClearIrq, AckIrq, port
  <2>3. looks = 0
    BY <2>1 DEF DriverInv, Driving
  <2>2. ASSUME ~control.second
        PROVE  pending' /\ due' + looks' <= ResetDelay - 3
    <3>1. pending /\ due <= ResetDelay - 2
      BY <2>1, <2>2 DEF InTime
    <3>2. pending' /\ due' = due - c
      BY <2>1, <3>1 DEF Elapse
    <3> QED
      BY <1>1, <2>1, <2>3, <3>1, <3>2
  <2> QED
    BY <2>1, <2>2 DEF InTime
<1>6. ASSUME NEW c \in CpuCycles, Look(c) PROVE InTime'
  <2>1. /\ pc = "wait" /\ pc' = IF irq THEN "take" ELSE IF looks < Patience THEN "wait" ELSE "empty"
        /\ looks' = IF irq THEN looks ELSE looks + 1
        /\ control' = control /\ BetweenInstructions /\ Elapse(pending, due, c)
    BY <1>6 DEF Look, Plain, port
  <2>2. CASE irq
    BY <2>1, <2>2 DEF InTime
  <2>3. ASSUME ~irq, ~control.second PROVE InTime'
    <3>1. pending /\ due + looks <= ResetDelay - 3 /\ due > 0
      BY <2>1, <2>3 DEF InTime, BetweenInstructions
    <3>2. pending' /\ due' = due - c
      BY <2>1, <3>1 DEF Elapse
    <3>3. looks < Patience
      BY <1>1, <3>1 DEF Patient
    <3>4. pc' = "wait" /\ looks' = looks + 1
      BY <2>1, <2>3, <3>3
    <3>5. due' + looks' <= ResetDelay - 3
      BY <1>1, <3>1, <3>2, <3>4
    <3> QED
      BY <3>2, <3>4, <3>5 DEF InTime
  <2> QED
    BY <2>1, <2>2, <2>3 DEF InTime
<1>7. ASSUME NEW c \in CpuCycles, Take(c) PROVE InTime'
  <2>1. pc' \in {"done", "send"}
    BY <1>7 DEF Take
  <2> QED
    BY <2>1 DEF InTime
<1>8. ASSUME NEW c \in CpuCycles, Deselect(c) PROVE InTime'
  BY <1>8 DEF Deselect, InTime
<1>9. ASSUME Deliver, UNCHANGED driver PROVE InTime'
  <2>1. /\ pending /\ due <= 0 /\ irq' = (irq \/ control.wanted)
        /\ control' = control /\ pc' = pc /\ looks' = looks
    BY <1>9 DEF Deliver, driver
  <2>2. ASSUME pc # "idle", ~control.second, pc # "idle" => control.wanted
        PROVE  pc \notin {"clear", "clearIrq", "empty"} /\ irq'
    <3>1. ASSUME pc = "clear" PROVE FALSE
      <4>1. PICK d \in CpuCycles : due = ResetDelay - d
        BY <2>2, <3>1 DEF InTime
      <4>2. d + d < ResetDelay /\ d \in Nat
        BY <1>1 DEF Slow
      <4> QED
        BY <1>1, <2>1, <4>1, <4>2
    <3>2. pc # "clearIrq"
      BY <1>1, <2>1, <2>2 DEF InTime
    <3>3. pc # "empty"
      BY <2>2 DEF InTime
    <3>4. irq'
      BY <2>1, <2>2
    <3> QED
      BY <3>1, <3>2, <3>3, <3>4
  <2>3. pc # "idle" => control.wanted
    BY DEF DriverInv, Driving
  <2> QED
    BY <2>1, <2>2, <2>3 DEF InTime
<1>10. ASSUME Player, UNCHANGED driver PROVE InTime'
  <2>1. UNCHANGED <<control, irq, pending, due, pc, looks>>
    BY <1>10 DEF Player, Press, Release, driver, slot
  <2> QED
    BY <2>1 DEF InTime
<1>11. CASE UNCHANGED allVars
  <2>1. UNCHANGED <<control, irq, pending, due, pc, looks>>
    BY <1>11 DEF allVars, vars, port, slot, driver
  <2> QED
    BY <2>1 DEF InTime
<1> QED
  BY <1>2, <1>3, <1>4, <1>5, <1>6, <1>7, <1>8, <1>9, <1>10, <1>11 DEF DriverNext, Drive

-----------------------------------------------------------------------------

LEMMA DriverInvariant == DriverSpec => []DriverInv
  BY DriverStarts, DriverHeld, PTL DEF DriverSpec

\* A driver is software like any other: what holds of the port whatever is done
\* to it holds when a driver has it.
THEOREM DriverIsSoftware == DriverSpec => Spec
<1>1. DriverInit => Init
  BY DEF DriverInit
<1> QED
  BY <1>1, DriverSteps, DriverInvariant, PTL DEF DriverSpec, Spec

\* Once the driver has its five bytes the pad has been read, each half of the
\* buttons as the port had it when that byte was shifted, for any delay and any
\* patience, and whatever was given up before (exchange, read_register).
THEOREM DriverReadsPad == DriverSpec => []PadIsRead
<1>1. DriverInv => PadIsRead
  <2> SUFFICES ASSUME DriverInv, pc = "done"
               PROVE  ~control.second /\ answers = PadRead(shifted)
    BY DEF PadIsRead
  <2>1. ~control.second
    BY DEF DriverInv, WithNothing
  <2>2. /\ Len(answers) = 5 /\ answers \in Seq(Answer)
        /\ \A i \in 1 .. 5 : answers[i] = PadRead(shifted)[i]
    BY <2>1 DEF DriverInv, WithPad, Driving
  <2>3. DOMAIN PadRead(shifted) = 1 .. 5 /\ Len(PadRead(shifted)) = 5
    BY DEF PadRead
  <2>4. answers = [i \in 1 .. 5 |-> answers[i]]
    BY <2>2, LenProperties
  <2>5. PadRead(shifted) = [i \in 1 .. 5 |-> PadRead(shifted)[i]]
    BY DEF PadRead
  <2> QED
    BY <2>1, <2>2, <2>4, <2>5
<1> QED
  BY <1>1, DriverInvariant, PTL

\* A driver that waits as long as an acknowledge takes takes a socket for empty
\* exactly when nothing is in it, if the acknowledge leaves it time to clear the
\* one before: the reason sio.h gives for the acknowledge being an event
\* (acknowledge_delay, deliver_acknowledge).
THEOREM DriverTellsSockets == Slow /\ Patient => (DriverSpec => []SocketsToldApart)
<1> SUFFICES ASSUME Slow, Patient PROVE DriverSpec => []SocketsToldApart
  OBVIOUS
<1>1. DriverInit => InTime
  BY DEF DriverInit, InTime
<1>2. DriverInv /\ InTime => SocketsToldApart
  BY DEF DriverInv, WithNothing, InTime, SocketsToldApart
<1> QED
  BY <1>1, <1>2, DriverInvariant, TimeHeld, PTL DEF DriverSpec
=============================================================================
