----------------------------- MODULE DmaProofs -----------------------------
(***************************************************************************)
(* Proofs about the DMA controller, for every set of channels, every       *)
(* transfer size, every cost and every choice of sync modes.               *)
(***************************************************************************)
EXTENDS Dma, TLAPS

\* What the parts of the invariant say of one channel.
Whole(ch) ==
  /\ ch.running <=> ch.remaining > 0
  /\ ch.running => ch.enable

\* The invariant: the three parts are inductive together, the second and
\* third resting on the types.
Inductive == TypeOK /\ ArmedIsScheduled /\ TransferIsWhole

-----------------------------------------------------------------------------
\* The constants, as the proofs use them.
LEMMA SizeFacts ==
  /\ FullSize \in Nat \ {0} /\ ChopWords \in Nat \ {0} /\ Gap \in Nat
  /\ RetryCycles \in Nat \ {0}
  /\ ListHolds \subseteq Nat \ {0} /\ Backlogs \subseteq Nat
  /\ CpuCycles \subseteq Nat \ {0}
  /\ Syncs \subseteq Sync
BY DmaAssumption

\* Putting a channel down, field by field.
LEMMA PutDown ==
  ASSUME NEW ch \in Channel
  PROVE  LET new == [ch EXCEPT !.running = FALSE, !.remaining = 0]
         IN new \in Channel /\ ~new.running /\ new.remaining = 0
BY DEF Channel

\* A channel taken up has a whole transfer ahead of it.
LEMMA BegunFacts ==
  ASSUME NEW ch \in Channel, Whole(ch), ch.enable
  PROVE  /\ Begun(ch) \in Channel /\ Begun(ch).running /\ Begun(ch).enable
         /\ Begun(ch).sync = ch.sync
         /\ Begun(ch).sync # "Request" => Begun(ch).remaining > 0
<1>1. ch.sync \in Sync /\ ch.size \in 0 .. MaxWords /\ ch.count \in Nat
      /\ ch.remaining \in Nat
  BY DEF Channel
<1>2. Words(ch) \in Nat \ {0}
  BY <1>1, SizeFacts, DmaAssumption DEF Words
<1>3. CASE ch.running
  BY <1>3 DEF Begun, Whole
<1>4. CASE ~ch.running /\ ch.sync = "Manual"
  <2>1. Begun(ch) = [ch EXCEPT !.running = TRUE, !.remaining = Words(ch)]
    BY <1>4 DEF Begun
  <2>2. /\ Begun(ch) \in Channel /\ Begun(ch).running
        /\ Begun(ch).remaining = Words(ch)
        /\ Begun(ch).sync = ch.sync /\ Begun(ch).enable = ch.enable
    <3>1. [ch EXCEPT !.running = TRUE, !.remaining = Words(ch)] \in Channel
      BY <1>1, <1>2 DEF Channel
    <3>2. Begun(ch) \in Channel
      BY <2>1, <3>1, Zenon
    <3> QED
      BY <2>1, <3>2 DEF Channel
  <2> QED
    BY <1>2, <1>4, <2>2
<1>5. CASE ~ch.running /\ ch.sync = "Request"
  <2>1. Begun(ch) = [ch EXCEPT !.running = TRUE, !.remaining = ch.count]
    BY <1>5 DEF Begun
  <2>2. /\ Begun(ch) \in Channel /\ Begun(ch).running
        /\ Begun(ch).remaining = ch.count
        /\ Begun(ch).sync = ch.sync /\ Begun(ch).enable = ch.enable
    <3>1. [ch EXCEPT !.running = TRUE, !.remaining = ch.count] \in Channel
      BY <1>1, <1>2 DEF Channel
    <3>2. Begun(ch) \in Channel
      BY <2>1, <3>1, Zenon
    <3> QED
      BY <2>1, <3>2 DEF Channel
  <2> QED
    BY <1>2, <1>5, <2>2
<1>6. CASE ~ch.running /\ ch.sync = "LinkedList"
  <2>1. Begun(ch) = [ch EXCEPT !.running = TRUE, !.remaining = 1]
    BY <1>6 DEF Begun
  <2>2. /\ Begun(ch) \in Channel /\ Begun(ch).running
        /\ Begun(ch).remaining = 1
        /\ Begun(ch).sync = ch.sync /\ Begun(ch).enable = ch.enable
    <3>1. [ch EXCEPT !.running = TRUE, !.remaining = 1] \in Channel
      BY <1>1, <1>2 DEF Channel
    <3>2. Begun(ch) \in Channel
      BY <2>1, <3>1, Zenon
    <3> QED
      BY <2>1, <3>2 DEF Channel
  <2> QED
    BY <1>2, <1>6, <2>2
<1> QED
  BY <1>1, <1>3, <1>4, <1>5, <1>6 DEF Sync

\* A turn leaves a channel that is still running, with what is left of its
\* transfer, and holds the bus for some cycles.
LEMMA StepFacts ==
  ASSUME NEW ch \in Channel, ch.running, ch.enable, NEW m \in Step(ch)
  PROVE  /\ m.ch \in Channel /\ m.ch.running /\ m.ch.enable
         /\ m.hold \in Nat /\ m.gap \in Nat
<1>1. ch.sync \in Sync /\ ch.size \in 0 .. MaxWords /\ ch.count \in Nat
      /\ ch.remaining \in Nat
  BY DEF Channel
<1>2. Words(ch) \in Nat \ {0}
  BY <1>1, SizeFacts, DmaAssumption DEF Words
<1>3. CASE ch.sync = "Manual"
  <2>1. m \in StepManual(ch)
    BY <1>3 DEF Step
  <2>2. PICK w \in 0 .. ch.remaining :
          m = Moved([ch EXCEPT !.remaining = @ - w], w, Gap)
    BY <1>1, <2>1, SizeFacts DEF StepManual, Min2
  <2>3. ch.remaining - w \in Nat
    BY <1>1
  <2> QED
    BY <1>1, <2>2, <2>3, SizeFacts DEF Moved, Channel
<1>4. CASE ch.sync = "Request"
  <2>1. m \in StepRequest(ch)
    BY <1>4 DEF Step
  <2>2. CASE ch.remaining = 0
    BY <2>1, <2>2 DEF StepRequest, Moved
  <2>3. CASE ch.remaining # 0
    <3>1. m = Moved([ch EXCEPT !.remaining = @ - 1, !.count = ch.remaining - 1],
                    Words(ch), Gap)
      BY <2>1, <2>3 DEF StepRequest
    <3>2. ch.remaining - 1 \in Nat
      BY <1>1, <2>3
    <3> QED
      BY <1>2, <3>1, <3>2, SizeFacts DEF Moved, Channel
  <2> QED
    BY <2>2, <2>3
<1>5. CASE ch.sync = "LinkedList"
  <2>1. m \in StepLinkedList(ch)
    BY <1>5 DEF Step
  <2>2. PICK h \in ListHolds :
          \/ m = Moved([ch EXCEPT !.remaining = 0], h, 0)
          \/ m = Moved([ch EXCEPT !.remaining = 1], h, (h * 4) \div 3)
    BY <2>1 DEF StepLinkedList
  <2>3. h \in Nat /\ (h * 4) \div 3 \in Nat
    BY SizeFacts
  <2> QED
    BY <2>2, <2>3 DEF Moved, Channel
<1> QED
  BY <1>1, <1>3, <1>4, <1>5 DEF Sync

\* A store to CHCR leaves a channel whose transfer is whole.
LEMMA ControlFacts ==
  ASSUME NEW c, NEW ch \in Channel, Whole(ch),
         NEW enable \in BOOLEAN, NEW trigger \in BOOLEAN,
         NEW sync \in Sync, NEW chopping \in BOOLEAN
  PROVE  /\ Control(c, ch, enable, trigger, sync, chopping) \in Channel
         /\ Whole(Control(c, ch, enable, trigger, sync, chopping))
<1> DEFINE kept == IF c = OTC
                   THEN [ch EXCEPT !.enable = enable, !.trigger = trigger]
                   ELSE [ch EXCEPT !.enable = enable, !.trigger = trigger,
                                   !.sync = sync, !.chopping = chopping]
<1>1. /\ kept \in Channel /\ kept.enable = enable
      /\ kept.running = ch.running /\ kept.remaining = ch.remaining
  BY DEF Channel
<1>2. Control(c, ch, enable, trigger, sync, chopping) =
        IF enable THEN kept ELSE Idle(kept)
  BY DEF Control
<1> HIDE DEF kept
<1>3. CASE enable
  BY <1>1, <1>2, <1>3 DEF Whole
<1>4. CASE ~enable
  <2>1. Control(c, ch, enable, trigger, sync, chopping) =
          [kept EXCEPT !.running = FALSE, !.remaining = 0]
    BY <1>2, <1>4 DEF Idle
  <2>2. /\ Control(c, ch, enable, trigger, sync, chopping) \in Channel
        /\ ~Control(c, ch, enable, trigger, sync, chopping).running
        /\ Control(c, ch, enable, trigger, sync, chopping).remaining = 0
    BY <1>1, <2>1, PutDown
  <2> QED
    BY <2>2 DEF Whole
<1> QED
  BY <1>3, <1>4

-----------------------------------------------------------------------------
\* Reset leaves the controller with nothing armed and nothing going on.
LEMMA InitInductive == Init => Inductive
<1> SUFFICES ASSUME Init PROVE Inductive
  OBVIOUS
<1> DEFINE off == [enable |-> FALSE, trigger |-> FALSE, sync |-> "Manual",
                   chopping |-> FALSE, size |-> 0, count |-> 0,
                   running |-> FALSE, remaining |-> 0]
<1>1. off \in Channel
  BY DmaAssumption DEF Channel, Sync
<1>2. chan \in [Channels -> Channel]
  BY <1>1 DEF Init
<1>3. dicr \in Dicr
  BY DEF Init, Dicr
<1>4. irq \in BOOLEAN /\ pending \in BOOLEAN
  BY Zenon DEF Init
<1>5. TypeOK
  BY <1>2, <1>3, <1>4, DmaAssumption DEF Init, TypeOK
<1>6. ArmedIsScheduled
  BY DEF Init, ArmedIsScheduled, Ready, ReadyIn
<1> HIDE DEF off
<1>7. TransferIsWhole
  <2>1. \A c \in Channels : ~chan[c].running /\ chan[c].remaining = 0
    BY DEF Init
  <2>2. ~(0 > 0)
    OBVIOUS
  <2> QED
    BY <2>1, <2>2, Zenon DEF TransferIsWhole
<1> QED
  BY <1>5, <1>6, <1>7 DEF Inductive

\* The clock moving on keeps the types of what it moves.
LEMMA ElapseFacts ==
  ASSUME TypeOK, NEW c \in CpuCycles, NEW p \in BOOLEAN, NEW d \in Int,
         Elapse(p, d, c)
  PROVE  /\ pending' \in BOOLEAN /\ pending' = p /\ due' \in Int
         /\ hold' \in Nat /\ asking' \in SUBSET Paced
BY SizeFacts DEF TypeOK, Elapse

\* A store to any register keeps the invariant, as long as what it leaves in
\* the channels is whole: whatever it armed, dma_wake has seen.
LEMMA StoreInductive ==
  ASSUME Inductive, NEW c \in CpuCycles, NEW C \in [Channels -> Channel],
         NEW E \in SUBSET Channels, NEW P \in [Channels -> 0 .. 7],
         NEW d \in Dicr, \A x \in Channels : Whole(C[x]),
         Store(c, C, E, P, d)
  PROVE  Inductive'
<1>1. TypeOK
  BY DEF Inductive
<1>2. chan' = C /\ enabled' = E /\ priority' = P /\ dicr' = d
  BY DEF Store
<1>3. stores' \in Nat /\ irq' \in BOOLEAN
  BY <1>1 DEF Store, TypeOK, Raised
<1>4. CASE Wake(pending, due, C, E)
  <2>1. Elapse(TRUE, 0, c)
    BY <1>4 DEF Store
  <2>2. pending' /\ pending' \in BOOLEAN /\ due' \in Int
        /\ hold' \in Nat /\ asking' \in SUBSET Paced
    <3>1. pending' = TRUE /\ due' = 0 - (hold + c)
      BY <2>1 DEF Elapse
    <3>2. hold' = 0 /\ asking' \in SUBSET Paced /\ hold + c \in Int
      BY <1>1, <2>1, SizeFacts DEF Elapse, TypeOK
    <3> QED
      BY <3>1, <3>2
  <2>3. TypeOK'
    BY <1>2, <1>3, <2>1, <2>2 DEF TypeOK
  <2> QED
    BY <1>2, <2>2, <2>3
    DEF Inductive, ArmedIsScheduled, TransferIsWhole, Whole
<1>5. CASE ~Wake(pending, due, C, E)
  <2>1. Elapse(pending, due, c)
    BY <1>5 DEF Store
  <2>2. pending' = pending /\ pending' \in BOOLEAN /\ due' \in Int
        /\ hold' \in Nat /\ asking' \in SUBSET Paced
    BY <1>1, <2>1, ElapseFacts DEF TypeOK
  <2>3. TypeOK'
    BY <1>1, <1>2, <1>3, <2>1, <2>2 DEF TypeOK
  <2>4. (\E x \in Channels : ReadyIn(C, E, x)) => pending
    BY <1>5 DEF Wake
  <2>5. ArmedIsScheduled'
    BY <1>2, <2>2, <2>4 DEF ArmedIsScheduled, Ready, ReadyIn, Started
  <2> QED
    BY <1>2, <2>3, <2>5 DEF Inductive, TransferIsWhole, Whole
<1> QED
  BY <1>4, <1>5

\* The processor's instructions keep the invariant.
LEMMA CpuStepInductive ==
  ASSUME Inductive, CpuStep PROVE Inductive'
<1>1. TypeOK /\ ArmedIsScheduled /\ \A x \in Channels : Whole(chan[x])
  BY DEF Inductive, TransferIsWhole, Whole
<1>2. /\ chan \in [Channels -> Channel] /\ enabled \in SUBSET Channels
      /\ priority \in [Channels -> 0 .. 7] /\ dicr \in Dicr
      /\ pending \in BOOLEAN /\ due \in Int
  BY <1>1 DEF TypeOK
<1>3. PICK c \in CpuCycles :
        \/ Plain(c)
        \/ AckIrq(c)
        \/ WriteMadr(c)
        \/ \E ch \in Channels, size \in 0 .. MaxWords, count \in 0 .. MaxBlocks :
             WriteBcr(c, ch, size, count)
        \/ \E ch \in Channels, enable, trigger, chopping \in BOOLEAN, sync \in Syncs :
             WriteChcr(c, ch, enable, trigger, sync, chopping)
        \/ \E E \in SUBSET Channels, P \in Priorities : WriteDpcr(c, E, P)
        \/ \E force, master \in BOOLEAN, enables, acked \in SUBSET Channels :
             WriteDicr(c, force, master, enables, acked)
  BY DEF CpuStep
<1>4. CASE Plain(c) \/ AckIrq(c)
  <2>1. Elapse(pending, due, c) /\ UNCHANGED <<registers, stores>>
    BY <1>4 DEF Plain, AckIrq
  <2>2. irq' \in BOOLEAN
    BY <1>1, <1>4 DEF Plain, AckIrq, TypeOK
  <2>3. pending' = pending /\ pending' \in BOOLEAN /\ due' \in Int
        /\ hold' \in Nat /\ asking' \in SUBSET Paced
    BY <1>1, <1>2, <2>1, ElapseFacts
  <2>4. TypeOK'
    BY <1>1, <2>1, <2>2, <2>3 DEF TypeOK, registers
  <2>5. ArmedIsScheduled' /\ TransferIsWhole'
    BY <1>1, <2>1, <2>3
    DEF registers, ArmedIsScheduled, Ready, ReadyIn, Started, TransferIsWhole, Whole
  <2> QED
    BY <2>4, <2>5 DEF Inductive
<1>5. CASE WriteMadr(c)
  BY <1>1, <1>2, <1>5, StoreInductive DEF WriteMadr
<1>6. ASSUME NEW ch \in Channels, NEW size \in 0 .. MaxWords,
             NEW count \in 0 .. MaxBlocks, WriteBcr(c, ch, size, count)
      PROVE  Inductive'
  <2> DEFINE C == [chan EXCEPT ![ch].size = size, ![ch].count = count]
  <2>1. chan[ch] \in Channel /\ Whole(chan[ch])
    BY <1>1, <1>2
  <2>2. [chan[ch] EXCEPT !.size = size, !.count = count] \in Channel
    <3>1. count \in Nat
      BY DmaAssumption
    <3> QED
      BY <2>1, <3>1 DEF Channel
  <2>3. C \in [Channels -> Channel]
    BY <1>2, <2>2
  <2>4. \A x \in Channels : Whole(C[x])
    BY <1>1, <1>2, <2>1 DEF Whole, Channel
  <2>5. Store(c, C, enabled, priority, dicr)
    BY <1>6 DEF WriteBcr
  <2> HIDE DEF C
  <2> QED
    BY <1>2, <2>3, <2>4, <2>5, StoreInductive
<1>7. ASSUME NEW ch \in Channels, NEW enable \in BOOLEAN, NEW trigger \in BOOLEAN,
             NEW chopping \in BOOLEAN, NEW sync \in Syncs,
             WriteChcr(c, ch, enable, trigger, sync, chopping)
      PROVE  Inductive'
  <2> DEFINE new == Control(ch, chan[ch], enable, trigger, sync, chopping)
  <2> DEFINE C == [chan EXCEPT ![ch] = new]
  <2>1. new \in Channel /\ Whole(new)
    BY <1>1, <1>2, SizeFacts, ControlFacts
  <2>2. Store(c, C, enabled, priority, dicr)
    BY <1>7 DEF WriteChcr
  <2> HIDE DEF new
  <2>3. C \in [Channels -> Channel] /\ \A x \in Channels : Whole(C[x])
    BY <1>1, <1>2, <2>1
  <2> HIDE DEF C
  <2> QED
    BY <1>2, <2>2, <2>3, StoreInductive
<1>8. ASSUME NEW E \in SUBSET Channels, NEW P \in Priorities, WriteDpcr(c, E, P)
      PROVE  Inductive'
  <2>1. P \in [Channels -> 0 .. 7]
    BY DmaAssumption
  <2> QED
    BY <1>1, <1>2, <1>8, <2>1, StoreInductive DEF WriteDpcr
<1>9. ASSUME NEW force \in BOOLEAN, NEW master \in BOOLEAN,
             NEW enables \in SUBSET Channels, NEW acked \in SUBSET Channels,
             WriteDicr(c, force, master, enables, acked)
      PROVE  Inductive'
  <2> DEFINE d == [force |-> force, master |-> master, enables |-> enables,
                   flags |-> dicr.flags \ acked]
  <2>1. d \in Dicr
    BY <1>2 DEF Dicr
  <2>2. Store(c, chan, enabled, priority, d)
    BY <1>9 DEF WriteDicr
  <2> HIDE DEF d
  <2> QED
    BY <1>1, <1>2, <2>1, <2>2, StoreInductive
<1> QED
  BY <1>3, <1>4, <1>5, <1>6, <1>7, <1>8, <1>9
-----------------------------------------------------------------------------
\* A channel put down by finish() is whole, and so is one with some left.
LEMMA FinishedFacts ==
  ASSUME NEW ch \in Channel
  PROVE  Finished(ch) \in Channel /\ Whole(Finished(ch))
<1>1. /\ Finished(ch) \in Channel
      /\ ~Finished(ch).running /\ Finished(ch).remaining = 0
  BY DEF Finished, Idle, Channel
<1>2. ~(0 > 0)
  OBVIOUS
<1> QED
  BY <1>1, <1>2, Zenon DEF Whole

LEMMA UnfinishedFacts ==
  ASSUME NEW ch \in Channel, ch.running, ch.enable, ch.remaining # 0
  PROVE  Whole(ch)
<1>1. ch.remaining > 0
  BY DEF Channel
<1> QED
  BY <1>1, Zenon DEF Whole

\* The flags complete() leaves.
LEMMA CompletedFacts ==
  ASSUME dicr \in Dicr, NEW c \in Channels
  PROVE  /\ Completed(c) \in Dicr
         /\ Completed(c).enables = dicr.enables
         /\ Completed(c).flags \subseteq dicr.flags \cup {c}
         /\ c \notin dicr.enables => Completed(c).flags = dicr.flags
BY DEF Dicr, Completed

\* A turn of the controller keeps the invariant: it gives the appointment up
\* only with nothing armed, and puts a channel down once it is done.
LEMMA TurnInductive ==
  ASSUME Inductive, Turn PROVE Inductive'
<1>1. TypeOK /\ ArmedIsScheduled /\ \A x \in Channels : Whole(chan[x])
  BY DEF Inductive, TransferIsWhole, Whole
<1>2. CASE TurnIdle
  <2>1. TypeOK'
    <3>1. pending' \in BOOLEAN
      BY <1>2, Zenon DEF TurnIdle
    <3> QED
      BY <1>1, <1>2, <3>1 DEF TurnIdle, TypeOK, registers
  <2>2. ArmedIsScheduled'
    BY <1>2 DEF TurnIdle, registers, ArmedIsScheduled, Ready, ReadyIn, Started
  <2>3. TransferIsWhole'
    BY <1>2 DEF TurnIdle, registers, Inductive, TransferIsWhole
  <2> QED
    BY <2>1, <2>2, <2>3 DEF Inductive
<1>3. CASE TurnRetry
  <2>1. UNCHANGED <<registers, irq, pending, hold, asking, stores>>
        /\ due' = due + RetryCycles
    BY <1>3 DEF TurnRetry, Retry
  <2>2. TypeOK'
    BY <1>1, <2>1, SizeFacts DEF TypeOK, registers
  <2>3. ArmedIsScheduled'
    BY <1>1, <2>1 DEF registers, ArmedIsScheduled, Ready, ReadyIn, Started
  <2>4. TransferIsWhole'
    BY <2>1 DEF registers, Inductive, TransferIsWhole
  <2> QED
    BY <2>2, <2>3, <2>4 DEF Inductive
<1>4. ASSUME NEW c \in Channels, TurnMove(c) PROVE Inductive'
  <2>1. chan[c] \in Channel /\ Whole(chan[c]) /\ chan[c].enable
    BY <1>1, <1>4 DEF TypeOK, TurnMove, Wins, Ready, ReadyIn, Started
  <2>2. Begun(chan[c]) \in Channel /\ Begun(chan[c]).running
        /\ Begun(chan[c]).enable
    BY <2>1, BegunFacts
  <2>3. PICK m \in Step(Begun(chan[c])), b \in (IF c = GPU THEN Backlogs ELSE {0}) :
          /\ hold' = Max2(due + m.hold, 0)
          /\ due' = due + Max2(m.hold + m.gap + b, 1)
          /\ IF m.ch.remaining = 0
             THEN /\ chan' = [chan EXCEPT ![c] = Finished(m.ch)]
                  /\ dicr' = Completed(c)
                  /\ irq' = Raised(Completed(c))
             ELSE /\ chan' = [chan EXCEPT ![c] = m.ch]
                  /\ UNCHANGED <<dicr, irq>>
    BY <1>4 DEF TurnMove
  <2>4. /\ m.ch \in Channel /\ m.ch.running /\ m.ch.enable
        /\ m.hold \in Nat /\ m.gap \in Nat /\ b \in Nat
    <3>1. b \in Nat
      BY SizeFacts
    <3> QED
      BY <2>2, <3>1, StepFacts
  <2>5. due \in Int /\ chan \in [Channels -> Channel] /\ dicr \in Dicr
        /\ irq \in BOOLEAN
    BY <1>1 DEF TypeOK
  <2>6. hold' \in Nat /\ due' \in Int
    BY <2>3, <2>4, <2>5 DEF Max2
  <2>7. /\ chan' \in [Channels -> Channel] /\ \A x \in Channels : Whole(chan'[x])
        /\ dicr' \in Dicr /\ irq' \in BOOLEAN
    <3>1. CASE m.ch.remaining = 0
      <4>1. Finished(m.ch) \in Channel /\ Whole(Finished(m.ch))
        BY <2>4, FinishedFacts
      <4>2. chan' = [chan EXCEPT ![c] = Finished(m.ch)] /\ dicr' = Completed(c)
            /\ irq' = Raised(Completed(c))
        BY <2>3, <3>1
      <4>3. irq' \in BOOLEAN
        BY <4>2, Zenon DEF Raised
      <4> QED
        BY <1>1, <2>5, <4>1, <4>2, <4>3, CompletedFacts
    <3>2. CASE m.ch.remaining # 0
      <4>1. Whole(m.ch)
        BY <2>4, <3>2, UnfinishedFacts
      <4>2. chan' = [chan EXCEPT ![c] = m.ch] /\ UNCHANGED <<dicr, irq>>
        BY <2>3, <3>2
      <4> QED
        BY <1>1, <2>4, <2>5, <4>1, <4>2
    <3> QED
      BY <3>1, <3>2
  <2>8. UNCHANGED <<pending, enabled, priority, asking, stores>>
    BY <1>4 DEF TurnMove
  <2>9. TypeOK'
    BY <1>1, <2>6, <2>7, <2>8 DEF TypeOK
  <2>10. ArmedIsScheduled'
    BY <1>4, <2>8 DEF TurnMove, TurnDue, ArmedIsScheduled
  <2> QED
    BY <2>7, <2>9, <2>10 DEF Inductive, TransferIsWhole, Whole
<1> QED
  BY <1>2, <1>3, <1>4 DEF Turn

\* The inductive invariant of the controller.
THEOREM DmaInductive == Spec => []Inductive
<1>1. Inductive /\ UNCHANGED vars => Inductive'
  BY DEF vars, registers, slot, Inductive, TypeOK, ArmedIsScheduled, Ready,
         ReadyIn, Started, TransferIsWhole
<1>2. Inductive /\ [Next]_vars => Inductive'
  BY <1>1, CpuStepInductive, TurnInductive DEF Next
<1> QED
  BY <1>2, InitInductive, PTL DEF Spec

\* Type correctness; in particular no count of words or blocks left to move
\* is ever taken below zero.
THEOREM DmaTypeOK == Spec => []TypeOK
<1>1. Inductive => TypeOK
  BY DEF Inductive
<1> QED
  BY <1>1, DmaInductive, PTL

\* A channel armed and switched on always has the controller's next turn to
\* look forward to: the wake-up is never lost.
THEOREM DmaArmedIsScheduled == Spec => []ArmedIsScheduled
<1>1. Inductive => ArmedIsScheduled
  BY DEF Inductive
<1> QED
  BY <1>1, DmaInductive, PTL

\* No operation ever leaves half a transfer behind.
THEOREM DmaTransferIsWhole == Spec => []TransferIsWhole
<1>1. Inductive => TransferIsWhole
  BY DEF Inductive
<1> QED
  BY <1>1, DmaInductive, PTL

-----------------------------------------------------------------------------
\* What a step does to the interrupt line: a store and a transfer's end pass
\* an edge of it on, and nothing else touches it.
LEMMA LineStep ==
  ASSUME TypeOK, Next
  PROVE  /\ (~Active /\ Active') => irq'
         /\ (~irq /\ irq') => (~Active /\ Active')
<1> USE DEF Active, Raised
<1>1. ASSUME NEW c, NEW C, NEW E, NEW P, NEW d, Store(c, C, E, P, d)
      PROVE  dicr' = d /\ irq' = Raised(d)
  BY <1>1 DEF Store
<1>2. CASE Turn
  <2>1. CASE TurnIdle \/ TurnRetry
    BY <2>1 DEF TurnIdle, TurnRetry, registers, ActiveIn
  <2>2. ASSUME NEW c \in Channels, TurnMove(c)
        PROVE  \/ UNCHANGED <<dicr, irq>>
               \/ dicr' = Completed(c) /\ irq' = Raised(Completed(c))
    BY <2>2 DEF TurnMove
  <2> QED
    BY <1>2, <2>1, <2>2 DEF Turn, ActiveIn
<1>3. CASE CpuStep
  <2>1. \/ UNCHANGED <<dicr, irq>>
        \/ UNCHANGED dicr /\ irq' = FALSE
        \/ \E c, C, E, P, d : Store(c, C, E, P, d)
    BY <1>3, Zenon
    DEF CpuStep, Plain, AckIrq, registers, WriteMadr, WriteBcr, WriteChcr,
        WriteDpcr, WriteDicr
  <2>2. CASE UNCHANGED <<dicr, irq>>
    BY <2>2 DEF ActiveIn
  <2>3. CASE UNCHANGED dicr /\ irq' = FALSE
    BY <2>3, Zenon DEF ActiveIn
  <2>4. ASSUME NEW c, NEW C, NEW E, NEW P, NEW d, Store(c, C, E, P, d)
        PROVE  /\ (~Active /\ Active') => irq'
               /\ (~irq /\ irq') => (~Active /\ Active')
    <3>1. dicr' = d /\ irq' = Raised(d)
      BY <1>1, <2>4
    <3>2. Active' = ActiveIn(d)
      BY <3>1
    <3> QED
      BY <3>1, <3>2, Zenon
  <2> QED
    BY <2>1, <2>2, <2>3, <2>4
<1> QED
  BY <1>2, <1>3 DEF Next

\* It is the edge of the controller's interrupt line that reaches I_STAT:
\* every rise does, and nothing else does.
THEOREM DmaInterruptOnEdge == Spec => InterruptOnEdge
<1>1. TypeOK /\ [Next]_vars =>
        [ /\ (~Active /\ Active') => irq'
          /\ (~irq /\ irq') => (~Active /\ Active') ]_vars
  BY LineStep
<1> QED
  BY <1>1, DmaTypeOK, PTL DEF Spec, InterruptOnEdge

-----------------------------------------------------------------------------
\* What a step does to the flags: a store takes some away, a transfer's end adds
\* the one its enable lets it, and nothing else touches them.
LEMMA FlagStep ==
  ASSUME TypeOK, Next
  PROVE  \A c \in dicr'.flags \ dicr.flags : c \in dicr.enables /\ c \in dicr'.enables
<1>1. dicr \in Dicr
  BY DEF TypeOK
<1>2. ASSUME NEW c \in CpuCycles,
             NEW force \in BOOLEAN, NEW master \in BOOLEAN,
             NEW enables \in SUBSET Channels, NEW acked \in SUBSET Channels,
             WriteDicr(c, force, master, enables, acked)
      PROVE  dicr'.flags \subseteq dicr.flags
  BY <1>2 DEF WriteDicr, Store
<1>3. ASSUME NEW c, NEW C, NEW E, NEW P, Store(c, C, E, P, dicr)
      PROVE  UNCHANGED dicr
  BY <1>3 DEF Store
<1>4. ASSUME NEW c \in Channels, TurnMove(c)
      PROVE  \A d \in dicr'.flags \ dicr.flags : d \in dicr.enables /\ d \in dicr'.enables
  <2>1. dicr' = dicr \/ dicr' = Completed(c)
    BY <1>4 DEF TurnMove
  <2> QED
    BY <1>1, <2>1 DEF Completed, Dicr
<1>5. CASE CpuStep
  <2>1. \/ UNCHANGED dicr
        \/ \E c, C, E, P : Store(c, C, E, P, dicr)
        \/ \E c \in CpuCycles, force, master \in BOOLEAN, enables, acked \in SUBSET Channels :
             WriteDicr(c, force, master, enables, acked)
    BY <1>5, Zenon
    DEF CpuStep, Plain, AckIrq, registers, WriteMadr, WriteBcr, WriteChcr, WriteDpcr
  <2>2. dicr'.flags \subseteq dicr.flags
    BY <1>2, <1>3, <2>1
  <2> QED
    BY <2>2
<1>6. CASE TurnIdle \/ TurnRetry
  BY <1>6 DEF TurnIdle, TurnRetry, registers
<1> QED
  BY <1>4, <1>5, <1>6 DEF Next, Turn

\* A flag is never set for a channel whose interrupt is off, and so enabling one
\* never finds an old flag waiting.
THEOREM DmaFlagNeedsEnable == Spec => FlagNeedsEnable
<1>1. TypeOK /\ [Next]_vars =>
        [ \A c \in dicr'.flags \ dicr.flags :
            c \in dicr.enables /\ c \in dicr'.enables ]_vars
  BY FlagStep
<1> QED
  BY <1>1, DmaTypeOK, PTL DEF Spec, FlagNeedsEnable

=============================================================================
