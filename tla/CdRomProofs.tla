---------------------------- MODULE CdRomProofs -----------------------------
(***************************************************************************)
(* What is proved of the CD-ROM controller and its drive (CdRom), for any  *)
(* delays, any disc and any depth of queue, whatever software commands in  *)
(* whatever order and whenever the lid moves.                              *)
(***************************************************************************)
EXTENDS CdRom, SequenceTheorems, TLAPS

Answers == [int : {1, 2, 3, 5}, to : {"command", "lid", "read", "sector"},
            left : Nat, lba : Lba \cup {NoSector}]

Queues == {q \in Seq(Answers) : Len(q) <= QueueCapacity}

\* An answer to a command that found room stays in the queue until it is given.
Owing ==
  owed /\ ~dropped => \E i \in DOMAIN queue : queue[i].to = "command"

\* The half of the state that is about answers, and the half that is not.
Queued ==
  /\ queue \in Queues /\ flag \subseteq {0, 1, 2}
  /\ busy \in BOOLEAN /\ owed \in BOOLEAN /\ dropped \in BOOLEAN
  /\ Owing

Shape ==
  /\ status \subseteq StatusBit
  /\ mode \subseteq {"XA_ADPCM", "DOUBLE_SPEED"}
  /\ seekLba \in Lba /\ readLba \in Lba
  /\ reading \in BOOLEAN /\ seeking \in BOOLEAN /\ headerValid \in BOOLEAN
  /\ sectorRemaining \in Nat
  /\ sector \in Lba \cup {NoSector}
  /\ dataLeft \in 0 .. SectorPieces
  /\ sound \in 0 .. SoundCapacity /\ playing \in BOOLEAN
  /\ shellOpen \in BOOLEAN /\ shellReportPending \in BOOLEAN
  /\ spinDownRemaining \in Nat

Driven == Shape /\ StatusHonest /\ LidSeen

Inductive == Queued /\ Driven

-----------------------------------------------------------------------------
(* The queue.                                                              *)

LEMMA AnswerTypes ==
  /\ \A int \in {1, 2, 3, 5}, left \in Nat,
        to \in {"command", "lid", "read", "sector"} : Answer(int, to, left) \in Answers
  /\ \A lba \in Lba : SectorReady(lba) \in Answers
  BY DEF Answer, SectorReady, Answers

\* What fits is kept in its order, and the answers waiting are never lost.
LEMMA Fitting ==
  ASSUME NEW q \in Queues, NEW more \in Seq(Answers)
  PROVE  /\ Fit(q, more) \in Queues
         /\ Len(Fit(q, more)) >= Len(q)
         /\ \A i \in 1 .. Len(q) : Fit(q, more)[i] = q[i]
         /\ ~Overflows(q, more) /\ more # <<>> =>
              /\ Len(Fit(q, more)) > Len(q)
              /\ Fit(q, more)[Len(q) + 1] = more[1]
<1> DEFINE n == IF Len(q) + Len(more) < QueueCapacity
                THEN Len(q) + Len(more) ELSE QueueCapacity
<1>1. /\ q \in Seq(Answers) /\ Len(q) \in Nat /\ Len(q) <= QueueCapacity
      /\ Len(more) \in Nat /\ QueueCapacity \in Nat
  BY CdRomAssumption, LenProperties DEF Queues
<1>2. /\ n \in Nat /\ n >= Len(q) /\ n <= Len(q) + Len(more)
      /\ n <= QueueCapacity
  BY <1>1
<1>3. /\ q \o more \in Seq(Answers)
      /\ Len(q \o more) = Len(q) + Len(more)
      /\ \A i \in 1 .. Len(q) + Len(more) :
           (q \o more)[i] = IF i <= Len(q) THEN q[i] ELSE more[i - Len(q)]
  BY <1>1, ConcatProperties
<1>4. \A i \in 1 .. n : (q \o more)[i] \in Answers
  BY <1>1, <1>2, <1>3, ElementOfSeq
<1>5. /\ Fit(q, more) \in Seq(Answers)
      /\ Len(Fit(q, more)) = n
      /\ \A i \in 1 .. n : Fit(q, more)[i] = (q \o more)[i]
  <2>1. Fit(q, more) = SubSeq(q \o more, 1, n)
    BY DEF Fit
  <2>2. n - 1 + 1 = n /\ (1 <= n \/ n = 0)
    BY <1>2
  <2> HIDE DEF n
  <2>3. /\ SubSeq(q \o more, 1, n) \in Seq(Answers)
        /\ Len(SubSeq(q \o more, 1, n)) = IF 1 <= n THEN n - 1 + 1 ELSE 0
        /\ \A i \in 1 .. n - 1 + 1 : SubSeq(q \o more, 1, n)[i] = (q \o more)[1 + i - 1]
    BY <1>2, <1>4, SubSeqProperties
  <2> QED
    BY <2>1, <2>2, <2>3, <1>2
<1>6. ASSUME ~Overflows(q, more), more # <<>>
      PROVE  /\ Len(Fit(q, more)) > Len(q)
             /\ Fit(q, more)[Len(q) + 1] = more[1]
  <2>1. Len(more) \in Nat \ {0} /\ Len(q) + Len(more) <= QueueCapacity
    BY <1>1, <1>6, EmptySeq DEF Overflows
  <2>2. n = Len(q) + Len(more) /\ Len(q) + 1 \in 1 .. n
    BY <2>1, <1>1
  <2> HIDE DEF n
  <2> QED
    BY <2>1, <2>2, <1>1, <1>3, <1>5
<1> HIDE DEF n
<1> QED
  BY <1>1, <1>2, <1>3, <1>5, <1>6 DEF Queues

\* One more behind a queue that has room.
LEMMA Joining ==
  ASSUME NEW q \in Queues, Len(q) < QueueCapacity, NEW a \in Answers
  PROVE  /\ Append(q, a) \in Queues
         /\ \A i \in 1 .. Len(q) : Append(q, a)[i] = q[i]
         /\ Len(Append(q, a)) = Len(q) + 1
  BY AppendProperties, LenProperties, CdRomAssumption DEF Queues

LEMMA LidJoins ==
  ASSUME Inductive
  PROVE  /\ QueueLid \in Queues
         /\ Len(QueueLid) >= Len(queue)
         /\ \A i \in 1 .. Len(queue) : QueueLid[i] = queue[i]
<1>1. <<Answer(5, "lid", 0)>> \in Seq(Answers)
  BY AnswerTypes
<1>2. queue \in Queues /\ Len(queue) \in Nat
  BY LenProperties DEF Inductive, Queued, Queues
<1> QED
  <2>1. CASE LidReports
    BY <1>1, <1>2, <2>1, Fitting DEF QueueLid
  <2>2. CASE ~LidReports
    BY <1>2, <2>2 DEF QueueLid
  <2> QED
    BY <2>1, <2>2

\* Handing over takes the first answer and leaves the others in their order.
LEMMA HandsOver ==
  ASSUME NEW q \in Queues, HandOver(q), flag \subseteq {0, 1, 2},
         busy \in BOOLEAN, owed \in BOOLEAN
  PROVE  /\ queue' \in Queues /\ flag' \subseteq {0, 1, 2}
         /\ busy' \in BOOLEAN /\ owed' \in BOOLEAN
         /\ flag # {} => flag' = flag /\ shown' = shown
         /\ (owed' => owed)
         /\ owed' /\ (\E i \in DOMAIN q : q[i].to = "command")
              => \E i \in DOMAIN queue' : queue'[i].to = "command"
<1>1. q \in Seq(Answers) /\ Len(q) \in Nat /\ Len(q) <= QueueCapacity
      /\ DOMAIN q = 1 .. Len(q) /\ QueueCapacity \in Nat
  BY LenProperties, CdRomAssumption DEF Queues
<1>2. CASE Deliverable(q)
  <2>1. q # <<>> /\ flag = {}
    BY <1>2 DEF Deliverable
  <2>2. /\ Head(q) \in Answers /\ Tail(q) \in Seq(Answers)
        /\ Len(Tail(q)) = Len(q) - 1 /\ Head(q) = q[1]
        /\ \A i \in 1 .. Len(Tail(q)) : Tail(q)[i] = q[i + 1]
    BY <1>1, <2>1, HeadTailProperties
  <2>3. /\ flag' = Bits(Head(q).int) /\ queue' = Tail(q) /\ busy' = FALSE
        /\ owed' = (owed /\ Head(q).to # "command")
    BY <1>2 DEF HandOver
  <2>4. Bits(Head(q).int) \subseteq {0, 1, 2}
    <3>1. Head(q).int \in {1, 2, 3, 5}
      BY <2>2 DEF Answers
    <3> QED
      BY <3>1 DEF Bits
  <2>5. Tail(q) \in Queues
    BY <1>1, <2>2 DEF Queues
  <2>6. ASSUME owed', NEW i \in DOMAIN q, q[i].to = "command"
        PROVE  \E j \in DOMAIN queue' : queue'[j].to = "command"
    <3>0. Head(q).to # "command"
      BY <2>6, <2>3
    <3>1. i # 1 /\ i - 1 \in 1 .. Len(Tail(q))
      BY <3>0, <2>6, <2>2, <1>1
    <3>2. DOMAIN Tail(q) = 1 .. Len(Tail(q)) /\ Tail(q)[i - 1] = q[i]
      BY <2>2, <3>1, <1>1, LenProperties
    <3> QED
      BY <3>1, <3>2, <2>3, <2>6
  <2> QED
    BY <2>1, <2>3, <2>4, <2>5, <2>6
<1>3. CASE ~Deliverable(q)
  <2>1. UNCHANGED <<flag, busy, shown, owed>>
    BY <1>3 DEF HandOver
  <2>2. CASE q = <<>>
    BY <1>1, <1>3, <2>1, <2>2 DEF HandOver
  <2>3. CASE q # <<>>
    <3> DEFINE left == IF q[1].left > TickCycles THEN q[1].left - TickCycles ELSE 0
    <3>1. queue' = [q EXCEPT ![1].left = left]
      BY <1>3, <2>3 DEF HandOver
    <3>2. 1 \in 1 .. Len(q) /\ q[1] \in Answers
      BY <1>1, <2>3, EmptySeq
    <3>3. left \in Nat
      BY <3>2, CdRomAssumption DEF Answers
    <3> HIDE DEF left
    <3>4. [q[1] EXCEPT !.left = left] \in Answers
          /\ [q[1] EXCEPT !.left = left].to = q[1].to
      BY <3>2, <3>3 DEF Answers
    <3>5. queue' = [q EXCEPT ![1] = [q[1] EXCEPT !.left = left]]
      BY <3>1
    <3>6. /\ queue' \in Seq(Answers) /\ Len(queue') = Len(q)
          /\ \A j \in 1 .. Len(q) :
               queue'[j] = IF j = 1 THEN [q[1] EXCEPT !.left = left] ELSE q[j]
      BY <3>2, <3>4, <3>5, <1>1, ExceptSeq
    <3>7. queue' \in Queues /\ DOMAIN queue' = DOMAIN q
      BY <3>6, <1>1, LenProperties DEF Queues
    <3>8. \A j \in DOMAIN q : queue'[j].to = q[j].to
      BY <3>4, <3>6, <1>1
    <3> QED
      BY <2>1, <3>7, <3>8
  <2> QED
    BY <2>2, <2>3
<1> QED
  BY <1>2, <1>3

LEMMA Waits ==
  ASSUME queue \in Queues
  PROVE  /\ Len(queue) <= QueueCapacity
         /\ \A i \in DOMAIN queue : queue[i].int \in {1, 2, 3, 5} /\ queue[i].left \in Nat
<1>1. queue \in Seq(Answers) /\ Len(queue) <= QueueCapacity
      /\ DOMAIN queue = 1 .. Len(queue)
  BY LenProperties DEF Queues
<1>2. \A i \in DOMAIN queue : queue[i] \in Answers
  BY <1>1, ElementOfSeq
<1> QED
  BY <1>1, <1>2 DEF Answers

LEMMA InductiveTyped == Inductive => TypeOK
  BY Waits DEF Inductive, Queued, Driven, Shape, TypeOK

-----------------------------------------------------------------------------
(* Commands.                                                               *)

LEMMA Sends ==
  ASSUME Queued, NEW command, NEW more \in Seq(Answers),
         more # <<>>, more[1].to = "command", Send(command, more)
  PROVE  Queued'
<1>1. queue \in Queues /\ Len(queue) \in Nat
  BY LenProperties DEF Queued, Queues
<1>2. /\ queue' = Fit(queue, more) /\ busy' = TRUE /\ owed' = TRUE
      /\ dropped' = (dropped \/ Overflows(queue, more)) /\ flag' = flag
  BY DEF Send
<1>3. queue' \in Queues
  BY <1>1, <1>2, Fitting
<1>4. dropped' \in BOOLEAN
  BY <1>2
<1>5. ASSUME ~dropped'
      PROVE  \E i \in DOMAIN queue' : queue'[i].to = "command"
  <2>1. ~Overflows(queue, more)
    BY <1>2, <1>5
  <2>2. /\ Len(queue') > Len(queue) /\ queue'[Len(queue) + 1] = more[1]
        /\ Len(queue') \in Nat /\ DOMAIN queue' = 1 .. Len(queue')
    BY <2>1, <1>1, <1>2, <1>3, Fitting, LenProperties DEF Queues
  <2>3. Len(queue) + 1 \in DOMAIN queue'
    BY <2>2, <1>1
  <2> QED
    BY <2>2, <2>3
<1>6. flag' \subseteq {0, 1, 2} /\ busy' \in BOOLEAN /\ owed' \in BOOLEAN
  BY <1>2 DEF Queued
<1> QED
  BY <1>3, <1>4, <1>5, <1>6 DEF Queued, Owing

LEMMA Replies ==
  /\ \A int \in {3, 5} :
       /\ <<Ack(int)>> \in Seq(Answers) /\ <<Ack(int)>> # <<>>
       /\ <<Ack(int)>>[1].to = "command"
  /\ \A left \in Nat :
       LET two == <<Ack(3), Answer(2, "command", left)>>
       IN two \in Seq(Answers) /\ two # <<>> /\ two[1].to = "command"
  /\ \A int \in {2, 5} :
       /\ Refused(int) \in Seq(Answers) /\ Refused(int) # <<>>
       /\ Refused(int)[1].to = "command"
<1>1. {AcknowledgeCycles, SecondAnswerCycles} \subseteq Nat
  BY CdRomAssumption
<1>2. \A int \in {3, 5} : Ack(int) \in Answers /\ Ack(int).to = "command"
  BY <1>1, AnswerTypes DEF Ack, Answer
<1>3. \A int \in {2, 5}, left \in Nat : Answer(int, "command", left) \in Answers
  BY AnswerTypes
<1> QED
  BY <1>1, <1>2, <1>3 DEF Refused

LEMMA Delays ==
  /\ InitCycles \in Nat /\ PauseCycles \in Nat /\ SeekCycles \in Nat
  /\ SecondAnswerCycles \in Nat /\ AcknowledgeCycles \in Nat
  /\ SpinDownCycles \in Nat /\ SectorPieces \in Nat \ {0}
  /\ SoundCapacity \in Nat /\ SoundPrime \in 1 .. SoundCapacity
  /\ TickCycles \in Nat \ {0}
  /\ \A m : CyclesPerSector(m) \in Nat
<1>1. SectorCycles \in Nat
  BY CdRomAssumption
<1>2. SectorCycles \div 2 \in Nat
  BY <1>1
<1> QED
  BY <1>1, <1>2, CdRomAssumption DEF CyclesPerSector

LEMMA CommandKeeps ==
  ASSUME Inductive, Command
  PROVE  Inductive'
<1> USE DEF Inductive, Driven, StatusHonest, LidSeen, StatusBit
<1> USE DEF drive, buffer, audio, lid
<1>1. CASE GetStat
  <2>1. Queued'
    BY <1>1, Replies, Sends DEF GetStat
  <2>2. Driven'
    <3>1. UNCHANGED lid
      BY <1>1 DEF GetStat, Send
    <3>2. Shape'
      BY <1>1, <3>1 DEF GetStat, Shape
    <3>3. StatusHonest' /\ LidSeen'
      BY <1>1, <3>1 DEF GetStat, Shape
    <3> QED
      BY <3>2, <3>3
  <2> QED
    BY <2>1, <2>2
<1>2. ASSUME NEW command, NEW ok, Query(command, ok)
      PROVE  Inductive'
  <2>1. Queued'
    BY <1>2, Replies, Sends DEF Query
  <2>2. Driven'
    <3>1. UNCHANGED lid
      BY <1>2 DEF Query, Send
    <3>2. Shape'
      BY <1>2, <3>1 DEF Query, Shape
    <3>3. StatusHonest' /\ LidSeen'
      BY <1>2, <3>1 DEF Query, Shape
    <3> QED
      BY <3>2, <3>3
  <2> QED
    BY <2>1, <2>2
<1>3. ASSUME NEW lba \in Lba, SetLoc(lba)
      PROVE  Inductive'
  <2>1. Queued'
    BY <1>3, Replies, Sends DEF SetLoc
  <2>2. Driven'
    <3>1. UNCHANGED lid
      BY <1>3 DEF SetLoc, Send
    <3>2. Shape'
      BY <1>3, <3>1 DEF SetLoc, Shape
    <3>3. StatusHonest' /\ LidSeen'
      BY <1>3, <3>1 DEF SetLoc, Shape
    <3> QED
      BY <3>2, <3>3
  <2> QED
    BY <2>1, <2>2
<1>4. ASSUME NEW bits \in Modes, SetMode(bits)
      PROVE  Inductive'
  <2>1. Queued'
    BY <1>4, Replies, Sends DEF SetMode
  <2>2. Driven'
    <3>1. UNCHANGED lid
      BY <1>4, CdRomAssumption DEF SetMode, Send
    <3>2. Shape'
      BY <1>4, CdRomAssumption, <3>1 DEF SetMode, Shape
    <3>3. StatusHonest' /\ LidSeen'
      BY <1>4, CdRomAssumption, <3>1 DEF SetMode, Shape
    <3> QED
      BY <3>2, <3>3
  <2> QED
    BY <2>1, <2>2
<1>5. CASE InitDrive
  <2>1. Queued'
    BY <1>5, Replies, Sends, Delays DEF InitDrive
  <2>2. Driven'
    <3>1. UNCHANGED lid
      BY <1>5 DEF InitDrive, StopAudio, SetStatus, Send
    <3>0. status' = (status \cap {"SHELL_OPEN"}) \cup {"MOTOR"} /\ sound' = 0 /\ playing' = FALSE
      BY <1>5 DEF InitDrive, StopAudio, SetStatus
    <3>2. status' \subseteq StatusBit /\ sound' \in 0 .. SoundCapacity
      BY <3>0, Delays
    <3>4. Shape'
      BY <1>5, <3>0, <3>1, <3>2 DEF InitDrive, Shape
    <3>3. StatusHonest' /\ LidSeen'
      BY <1>5, Delays, <3>1 DEF InitDrive, StopAudio, SetStatus, Shape
    <3> QED
      BY <3>4, <3>3
  <2> QED
    BY <2>1, <2>2
<1>6. ASSUME NEW command, NEW parked \in SUBSET {"MOTOR"},
             StopReading(command, parked)
      PROVE  Inductive'
  <2>1. Queued'
    BY <1>6, Replies, Sends, Delays DEF StopReading
  <2>2. Driven'
    <3>1. UNCHANGED lid
      BY <1>6 DEF StopReading, StopAudio, Send
    <3>2. status' \subseteq StatusBit /\ sound' = 0 /\ playing' = FALSE
      BY <1>6 DEF StopReading, StopAudio, Shape
    <3>4. sound' \in 0 .. SoundCapacity
      BY <3>2, Delays
    <3>5. Shape'
      BY <1>6, <3>1, <3>2, <3>4 DEF StopReading, Shape
    <3>3. StatusHonest' /\ LidSeen'
      BY <1>6, Delays, <3>1 DEF StopReading, StopAudio, Shape
    <3> QED
      BY <3>5, <3>3
  <2> QED
    BY <2>1, <2>2
<1>7. CASE Read
  <2>1. CASE ~HasDisc
    <3>1. Queued'
      BY <1>7, <2>1, Replies, Sends DEF Read
    <3>2. Driven'
      <4>1. UNCHANGED lid
        BY <1>7, <2>1 DEF Read, Send
      <4>2. Shape'
        BY <1>7, <2>1, <4>1 DEF Read, Shape
      <4>3. StatusHonest' /\ LidSeen'
        BY <1>7, <2>1, <4>1 DEF Read, Shape
      <4> QED
        BY <4>2, <4>3
    <3> QED
      BY <3>1, <3>2
  <2>2. CASE HasDisc
    <3>1. Queued'
      BY <1>7, <2>2, Replies, Sends DEF Read
    <3>2. Driven'
      <4>1. UNCHANGED lid
        BY <1>7, <2>2 DEF Read, HasDisc, Send
      <4>5. sectorRemaining' = SeekCycles + CyclesPerSector(mode)
            /\ status' = (status \ {"READING"}) \cup {"SEEKING"}
        BY <1>7, <2>2 DEF Read
      <4>6. sectorRemaining' \in Nat
        BY <4>5, Delays
      <4>7. status' \subseteq StatusBit
        BY <4>5 DEF Shape
      <4>2. sectorRemaining' \in Nat /\ status' \subseteq StatusBit
        BY <4>6, <4>7
      <4>4. Shape'
        BY <1>7, <2>2, <4>1, <4>2 DEF Read, HasDisc, Shape
      <4>3. StatusHonest' /\ LidSeen'
        BY <1>7, <2>2, Delays, <4>1 DEF Read, HasDisc, Shape
      <4> QED
        BY <4>4, <4>3
    <3> QED
      BY <3>1, <3>2
  <2> QED
    BY <2>1, <2>2
<1>8. CASE Seek
  <2> DEFINE Lost ==
        /\ Send("SeekL", Refused(5))
        /\ LosePosition /\ SetStatus({"SEEK_ERROR"})
        /\ UNCHANGED <<mode, seekLba, readLba, sectorRemaining, buffer>>
  <2> DEFINE Found ==
        /\ HasDisc
        /\ reading' = FALSE /\ seeking' = FALSE
        /\ readLba' = seekLba
        /\ status' = status \ {"READING", "SEEKING"}
        /\ sector' = seekLba /\ headerValid' = TRUE
        /\ Send("SeekL", <<Ack(3), Answer(2, "command", SeekCycles)>>)
        /\ UNCHANGED <<mode, seekLba, sectorRemaining, dataLeft, audio>>
  <2>1. CASE Lost
    <3>1. Queued'
      BY <2>1, Replies, Sends
    <3>2. UNCHANGED lid
      BY <2>1 DEF Send
    <3>3. /\ status' = (status \cap {"SHELL_OPEN"}) \cup {"SEEK_ERROR"}
          /\ sound' = 0 /\ playing' = FALSE
          /\ reading' = FALSE /\ seeking' = FALSE /\ headerValid' = FALSE
      BY <2>1 DEF LosePosition, StopAudio, SetStatus
    <3>4. status' \subseteq StatusBit /\ sound' \in 0 .. SoundCapacity
      BY <3>3, Delays
    <3>5. Shape'
      BY <2>1, <3>2, <3>3, <3>4 DEF Shape
    <3>6. StatusHonest' /\ LidSeen'
      BY <3>2, <3>3
    <3> QED
      BY <3>1, <3>5, <3>6
  <2>2. CASE Found
    <3>1. Queued'
      BY <2>2, Replies, Sends, Delays
    <3>2. UNCHANGED lid
      BY <2>2 DEF Send
    <3>3. status' \subseteq StatusBit
      BY <2>2 DEF Shape
    <3>4. Shape'
      BY <2>2, <3>2, <3>3 DEF Shape
    <3>5. StatusHonest' /\ LidSeen'
      BY <2>2, <3>2 DEF HasDisc
    <3> QED
      BY <3>1, <3>4, <3>5
  <2>3. Lost \/ Found
    BY <1>8 DEF Seek
  <2> HIDE DEF Lost, Found
  <2> QED
    BY <2>1, <2>2, <2>3
<1>9. CASE ReadToc
  <2>1. Queued'
    BY <1>9, Replies, Sends, Delays DEF ReadToc
  <2>2. Driven'
    <3>1. UNCHANGED lid
      BY <1>9 DEF ReadToc, Send
    <3>2. Shape'
      BY <1>9, <3>1 DEF ReadToc, Shape
    <3>3. StatusHonest' /\ LidSeen'
      BY <1>9, <3>1 DEF ReadToc, Shape
    <3> QED
      BY <3>2, <3>3
  <2> QED
    BY <2>1, <2>2
<1>10. CASE GetId
  <2>1. Queued'
    BY <1>10, Replies, Sends DEF GetId
  <2>2. Driven'
    <3>1. UNCHANGED lid
      BY <1>10 DEF GetId, Send
    <3>2. Shape'
      BY <1>10, <3>1 DEF GetId, Shape
    <3>3. StatusHonest' /\ LidSeen'
      BY <1>10, <3>1 DEF GetId, Shape
    <3> QED
      BY <3>2, <3>3
  <2> QED
    BY <2>1, <2>2
<1> QED
  BY <1>1, <1>2, <1>3, <1>4, <1>5, <1>6, <1>7, <1>8, <1>9, <1>10
  DEF Command, Setting, Unknown, GetLocP, GetLocL, GetTrack, Stop, Pause

-----------------------------------------------------------------------------
(* The registers, the sound, the lid and the reset button.                 *)

LEMMA RestKeeps ==
  ASSUME Inductive, Registers \/ TakeAudio \/ OpenShell \/ CloseShell \/ Reset
  PROVE  Inductive'
<1> USE DEF Inductive, Driven, StatusHonest, LidSeen, StatusBit
<1> USE DEF drive, buffer, audio, lid, history
<1>1. ASSUME NEW bits, Acknowledge(bits)
      PROVE  Inductive'
  <2>1. Queued'
    BY <1>1 DEF Acknowledge, Queued, Owing
  <2>2. Driven'
    BY <1>1 DEF Acknowledge, Shape
  <2> QED
    BY <2>1, <2>2
<1>2. ASSUME NEW want \in BOOLEAN, Request(want)
      PROVE  Inductive'
  <2>1. Queued'
    BY <1>2 DEF Request, Queued, Owing
  <2>2. dataLeft' \in 0 .. SectorPieces
    BY <1>2, Delays DEF Request, Shape
  <2>3. Driven'
    BY <1>2, <2>2 DEF Request, Shape
  <2> QED
    BY <2>1, <2>3
<1>3. CASE ReadData
  <2>1. Queued'
    BY <1>3 DEF ReadData, Queued, Owing
  <2>2. dataLeft' \in 0 .. SectorPieces
    BY <1>3, Delays DEF ReadData, Shape
  <2>3. Driven'
    BY <1>3, <2>2 DEF ReadData, Shape
  <2> QED
    BY <2>1, <2>3
<1>4. CASE TakeAudio
  <2>1. Queued'
    BY <1>4 DEF TakeAudio, Queued, Owing
  <2>2. ~shellOpen
    BY <1>4, Delays DEF TakeAudio
  <2>3. sound' \in 0 .. SoundCapacity
    BY <1>4, Delays DEF TakeAudio, Shape
  <2>4. playing' \in BOOLEAN
    BY <1>4 DEF TakeAudio
  <2>5. Driven'
    BY <1>4, <2>2, <2>3, <2>4 DEF TakeAudio, Shape
  <2> QED
    BY <2>1, <2>5
<1>5. CASE OpenShell
  <2>1. Queued'
    BY <1>5 DEF OpenShell, Queued, Owing
  <2>2. sound' = 0 /\ playing' = FALSE
    BY <1>5 DEF OpenShell, StopAudio
  <2>3. sound' \in 0 .. SoundCapacity /\ dataLeft' \in 0 .. SectorPieces
        /\ spinDownRemaining' \in Nat
    BY <1>5, <2>2, Delays DEF OpenShell
  <2>4. Driven'
    BY <1>5, <2>2, <2>3 DEF OpenShell, Shape
  <2> QED
    BY <2>1, <2>4
<1>6. CASE CloseShell
  <2>1. Queued'
    BY <1>6 DEF CloseShell, Queued, Owing
  <2>2. Driven'
    BY <1>6 DEF CloseShell, Shape
  <2> QED
    BY <2>1, <2>2
<1>7. CASE Reset
  <2>1. <<>> \in Queues
    BY CdRomAssumption, EmptySeq DEF Queues
  <2>2. Queued'
    BY <1>7, <2>1 DEF Reset, Queued, Owing
  <2>3. sound' = 0 /\ playing' = FALSE
    BY <1>7 DEF Reset, StopAudio
  <2>4. 0 \in Lba /\ 0 \in 0 .. SoundCapacity /\ 0 \in 0 .. SectorPieces
    BY CdRomAssumption DEF Lba
  <2>5. Shape'
    BY <1>7, <2>3, <2>4 DEF Reset, Shape
  <2>6. StatusHonest' /\ LidSeen'
    BY <1>7, <2>3 DEF Reset, Shape
  <2> QED
    BY <2>2, <2>5, <2>6
<1> QED
  BY <1>1, <1>2, <1>3, <1>4, <1>5, <1>6, <1>7 DEF Registers

-----------------------------------------------------------------------------
(* The tick.                                                               *)

\* Handing over keeps an answer that is owed in the queue, as long as
\* the queue it works on holds all the answers that were waiting.
LEMMA TickQueues ==
  ASSUME Queued, NEW q \in Queues, HandOver(q), UNCHANGED dropped,
         Len(q) >= Len(queue), \A i \in 1 .. Len(queue) : q[i] = queue[i]
  PROVE  Queued'
<1>1. /\ queue' \in Queues /\ flag' \subseteq {0, 1, 2}
      /\ busy' \in BOOLEAN /\ owed' \in BOOLEAN /\ (owed' => owed)
      /\ owed' /\ (\E i \in DOMAIN q : q[i].to = "command")
           => \E i \in DOMAIN queue' : queue'[i].to = "command"
  BY HandsOver DEF Queued
<1>2. /\ DOMAIN queue = 1 .. Len(queue) /\ Len(queue) \in Nat
      /\ DOMAIN q = 1 .. Len(q) /\ Len(q) \in Nat
  BY LenProperties DEF Queued, Queues
<1>3. ASSUME NEW i \in DOMAIN queue, queue[i].to = "command"
      PROVE  \E j \in DOMAIN q : q[j].to = "command"
  BY <1>2, <1>3
<1>4. Owing'
  BY <1>1, <1>3 DEF Queued, Owing
<1> QED
  BY <1>1, <1>4 DEF Queued

LEMMA TickKeeps ==
  ASSUME Inductive, Tick
  PROVE  Inductive'
<1> DEFINE q == QueueLid
<1>1. /\ QueueLid \in Queues /\ Len(QueueLid) >= Len(queue)
      /\ \A i \in 1 .. Len(queue) : QueueLid[i] = queue[i]
      /\ Len(queue) \in Nat /\ Len(QueueLid) \in Nat
  BY LidJoins, LenProperties DEF Inductive, Queued, Queues
<1>2. Queued'
  <2>1. CASE HandOver(QueueLid) /\ UNCHANGED dropped
    BY <1>1, <2>1, TickQueues DEF Inductive
  <2>2. ASSUME NEW a \in Answers, Len(QueueLid) < QueueCapacity,
               HandOver(Append(QueueLid, a)), UNCHANGED dropped
        PROVE  Queued'
    <3>1. /\ Append(QueueLid, a) \in Queues
          /\ Len(Append(QueueLid, a)) = Len(QueueLid) + 1
          /\ \A i \in 1 .. Len(QueueLid) : Append(QueueLid, a)[i] = QueueLid[i]
      BY <1>1, <2>2, Joining
    <3>2. /\ Len(Append(QueueLid, a)) >= Len(queue)
          /\ \A i \in 1 .. Len(queue) : Append(QueueLid, a)[i] = queue[i]
      BY <1>1, <3>1
    <3> QED
      BY <2>2, <3>1, <3>2, TickQueues DEF Inductive
  <2>3. CASE TickWaiting
    BY <2>1, <2>3 DEF TickWaiting
  <2>4. CASE TickHeld
    BY <2>1, <2>4 DEF TickHeld
  <2>5. CASE TickOffTheEnd
    BY <2>2, <2>5, AnswerTypes DEF TickOffTheEnd, Arrives
  <2>6. CASE TickSound
    BY <2>1, <2>6 DEF TickSound
  <2>7. CASE TickData
    BY <2>2, <2>7, AnswerTypes
    DEF TickData, ReadsOn, Arrives, Inductive, Driven, Shape
  <2> QED
    BY <2>3, <2>4, <2>5, <2>6, <2>7 DEF Tick
<1>3. /\ shellOpen' = shellOpen /\ mode' = mode
      /\ shellReportPending' \in BOOLEAN /\ spinDownRemaining' \in Nat
  <2>1. shellReportPending' \in BOOLEAN /\ shellOpen' = shellOpen /\ mode' = mode
    BY DEF Tick
  <2>2. spinDownRemaining' \in Nat
    BY Delays DEF Tick, WindDown, Winding, Wound, Inductive, Driven, Shape
  <2> QED
    BY <2>1, <2>2
<1>4. /\ StatusWound \subseteq status
      /\ \A bit \in StatusBit \ {"MOTOR"} : bit \in status => bit \in StatusWound
  BY DEF StatusWound
<1>5. /\ "READING" \in StatusBit \ {"MOTOR"} /\ "SEEKING" \in StatusBit \ {"MOTOR"}
      /\ "SHELL_OPEN" \in StatusBit \ {"MOTOR"}
  BY DEF StatusBit
<1> USE DEF Inductive, Driven, buffer, audio
<1>6. ASSUME TickWaiting \/ TickHeld
      PROVE  Driven'
  <2>1. /\ status' = StatusWound
        /\ UNCHANGED <<seekLba, readLba, reading, seeking, headerValid, buffer, audio>>
    BY <1>6 DEF TickWaiting, TickHeld
  <2>2. sectorRemaining' \in Nat
    BY <1>6, Delays DEF TickWaiting, TickHeld, Shape
  <2>3. Shape'
    BY <1>3, <1>4, <2>1, <2>2 DEF Shape
  <2>4. StatusHonest' /\ LidSeen'
    BY <1>3, <1>4, <1>5, <2>1 DEF StatusHonest, LidSeen
  <2> QED
    BY <2>3, <2>4
<1>7. ASSUME TickOffTheEnd
      PROVE  Driven'
  <2>1. /\ status' = (StatusWound \cap {"SHELL_OPEN"}) \cup {"SEEK_ERROR"}
        /\ reading' = FALSE /\ seeking' = FALSE /\ headerValid' = FALSE
        /\ sound' = 0 /\ playing' = FALSE
        /\ UNCHANGED <<seekLba, readLba, sectorRemaining, buffer>>
    BY <1>7 DEF TickOffTheEnd, LosePosition, StopAudio
  <2>2. status' \subseteq StatusBit /\ sound' \in 0 .. SoundCapacity
    BY <2>1, Delays DEF StatusBit
  <2>3. Shape'
    BY <1>3, <2>1, <2>2 DEF Shape
  <2>4. StatusHonest' /\ LidSeen'
    BY <1>3, <1>4, <1>5, <2>1 DEF StatusHonest, LidSeen
  <2> QED
    BY <2>3, <2>4
<1>8. ASSUME ReadsOn, sound' \in 0 .. SoundCapacity, playing' = playing,
             dataLeft' = dataLeft, sector' \in Lba \cup {NoSector}
      PROVE  Driven'
  <2>1. /\ reading = TRUE /\ readLba < DiscEnd
        /\ sectorRemaining <= TickCycles
        /\ seeking' = FALSE /\ headerValid' = TRUE /\ reading' = reading
        /\ status' = (StatusWound \ {"SEEKING"}) \cup {"READING"}
        /\ readLba' = readLba + 1 /\ seekLba' = seekLba
        /\ sectorRemaining' = NextSectorIn
    BY <1>8 DEF ReadsOn, Arrives, SectorDue, Shape
  <2>2. status' \subseteq StatusBit
    BY <1>4, <2>1 DEF StatusBit, Shape
  <2>3. readLba' \in Lba
    BY <2>1, CdRomAssumption DEF Lba, Shape
  <2>4. sectorRemaining' \in Nat
    BY <2>1, Delays DEF NextSectorIn, Shape
  <2>5. Shape'
    BY <1>3, <1>8, <2>1, <2>2, <2>3, <2>4 DEF Shape
  <2>6. ~shellOpen
    BY <2>1 DEF LidSeen
  <2>7. StatusHonest' /\ LidSeen'
    BY <1>3, <2>1, <2>6 DEF StatusHonest, LidSeen
  <2> QED
    BY <2>5, <2>7
<1>9. ASSUME TickSound
      PROVE  Driven'
  <2>1. sound' \in 0 .. SoundCapacity
    BY <1>9, Delays DEF TickSound, Shape
  <2> QED
    BY <1>8, <1>9, <2>1 DEF TickSound, Shape
<1>10. ASSUME TickData
       PROVE  Driven'
  BY <1>8, <1>10 DEF TickData, Shape
<1>11. Driven'
  BY <1>6, <1>7, <1>9, <1>10 DEF Tick
<1> QED
  BY <1>2, <1>11

-----------------------------------------------------------------------------
(* The theorems.                                                           *)

LEMMA Starts == Init => Inductive
<1> SUFFICES ASSUME Init PROVE Inductive
  OBVIOUS
<1>1. <<>> \in Queues /\ 0 \in Lba
  BY CdRomAssumption, EmptySeq DEF Queues, Lba
<1>2. Queued
  BY <1>1 DEF Init, Queued, Owing
<1>3. 0 \in 0 .. SectorPieces /\ 0 \in 0 .. SoundCapacity
  BY Delays
<1>4. Shape
  BY <1>1, <1>3 DEF Init, Shape, StatusBit
<1>5. StatusHonest /\ LidSeen
  BY DEF Init, StatusHonest, LidSeen
<1> QED
  BY <1>2, <1>4, <1>5 DEF Inductive, Driven

LEMMA StepKeeps == Inductive /\ [Next]_vars => Inductive'
<1> SUFFICES ASSUME Inductive, [Next]_vars PROVE Inductive'
  OBVIOUS
<1>1. CASE UNCHANGED vars
  BY <1>1 DEF vars, drive, buffer, audio, lid, history, Inductive, Queued, Owing,
              Driven, Shape, StatusHonest, LidSeen
<1> QED
  BY <1>1, CommandKeeps, RestKeeps, TickKeeps DEF Next

LEMMA CdRomInductive == Spec => []Inductive
  BY Starts, StepKeeps, PTL DEF Spec

\* The state keeps its types: no count goes below nought, no more answers wait
\* than there is room for, and the head stays where there is a disc under it
\* or software sent it.
THEOREM CdRomTypeOK == Spec => []TypeOK
  BY CdRomInductive, InductiveTyped, PTL

\* The status byte never claims a read or a seek that is not going on.
THEOREM CdRomStatusHonest == Spec => []StatusHonest
<1>1. Inductive => StatusHonest
  BY DEF Inductive, Driven
<1> QED
  BY <1>1, CdRomInductive, PTL

\* With the lid open the drive does nothing, and its status byte says so.
THEOREM CdRomLidSeen == Spec => []LidSeen
<1>1. Inductive => LidSeen
  BY DEF Inductive, Driven
<1> QED
  BY <1>1, CdRomInductive, PTL

\* While a command is without its answer and none has been dropped, the answer
\* is in the queue: what a reset, a read or the lid does to the drive takes no
\* answer out of it (answer and tick of cdrom.cpp).
THEOREM CdRomOwing == Spec => []Owing
<1>1. Inductive => Owing
  BY DEF Inductive, Queued
<1> QED
  BY <1>1, CdRomInductive, PTL

-----------------------------------------------------------------------------
(* What a step may do.                                                     *)

\* Nothing is handed over while an interrupt is unacknowledged.
THEOREM CdRomHeldUntilAcknowledged == Spec => HeldUntilAcknowledged
<1> DEFINE Held == flag # {} => Reset \/ (flag' \subseteq flag /\ (flag' # {} => shown' = shown))
<1>1. ASSUME Inductive, [Next]_vars
      PROVE  Held
  <2>1. CASE UNCHANGED <<flag, shown>>
    BY <2>1
  <2>2. CASE Command
    BY <2>1, <2>2 DEF Command, GetStat, Setting, Unknown, GetLocP, GetLocL, GetTrack,
       Query, SetLoc, SetMode, InitDrive, Stop, Pause, StopReading, Read, Seek,
       ReadToc, GetId, Send
  <2>3. ASSUME NEW bits, Acknowledge(bits)
        PROVE  Held
    BY <2>3 DEF Acknowledge
  <2>4. CASE Registers
    <3>1. (UNCHANGED history /\ flag' = flag) \/ \E bits : Acknowledge(bits)
      BY <2>4 DEF Registers, Request, ReadData
    <3> QED
      BY <2>1, <2>3, <3>1 DEF history
  <2>5. CASE TakeAudio \/ OpenShell \/ CloseShell \/ UNCHANGED vars
    BY <2>1, <2>5 DEF TakeAudio, OpenShell, CloseShell, vars, history
  <2>6. CASE Reset
    BY <2>6
  <2>7. ASSUME NEW q, HandOver(q)
        PROVE  Held
    BY <2>7 DEF HandOver, Deliverable
  <2>8. CASE Tick
    BY <2>7, <2>8 DEF Tick, TickWaiting, TickHeld, TickOffTheEnd, TickSound, TickData
  <2> QED
    BY <1>1, <2>2, <2>4, <2>5, <2>6, <2>8 DEF Next
<1> QED
  BY <1>1, CdRomInductive, PTL DEF Spec, HeldUntilAcknowledged

\* The lid's bit goes at a Getstat with the lid shut, or a reset.
THEOREM CdRomLidBitSticks == Spec => LidBitSticks
<1> DEFINE Sticks == "SHELL_OPEN" \in status /\ "SHELL_OPEN" \notin status' =>
                       ~shellOpen /\ (GetStat \/ Reset)
<1>1. ASSUME [Next]_vars
      PROVE  Sticks
  <2>1. CASE UNCHANGED status
    BY <2>1
  <2>2. CASE Command
    <3>1. CASE GetStat
      BY <3>1 DEF GetStat
    <3>2. CASE InitDrive \/ Stop \/ Pause
      BY <3>2 DEF InitDrive, SetStatus, Stop, Pause, StopReading
    <3>3. CASE Read
      BY <3>3 DEF Read
    <3>4. CASE Seek
      BY <3>4 DEF Seek, SetStatus
    <3>5. CASE \/ Setting \/ Unknown \/ GetLocP \/ GetLocL \/ GetTrack
               \/ ReadToc \/ GetId
               \/ (\E lba \in Lba : SetLoc(lba)) \/ (\E bits \in Modes : SetMode(bits))
      <4>1. UNCHANGED status
        BY <3>5 DEF Setting, Unknown, GetLocP, GetLocL, GetTrack, Query, SetLoc,
                    SetMode, ReadToc, GetId
      <4> QED
        BY <4>1
    <3> QED
      BY <2>2, <3>1, <3>2, <3>3, <3>4, <3>5 DEF Command
  <2>3. CASE Registers \/ TakeAudio \/ UNCHANGED vars
    <3>1. UNCHANGED status
      BY <2>3 DEF Registers, Acknowledge, Request, ReadData, TakeAudio, vars
    <3> QED
      BY <3>1
  <2>4. CASE OpenShell \/ CloseShell \/ Reset
    BY <2>4 DEF OpenShell, CloseShell, Reset
  <2>5. CASE Tick
    <3>1. "SHELL_OPEN" \in status => "SHELL_OPEN" \in StatusWound
      BY DEF StatusWound
    <3> QED
      BY <2>5, <3>1 DEF Tick, TickWaiting, TickHeld, TickOffTheEnd, TickSound,
                        TickData, ReadsOn
  <2> QED
    BY <1>1, <2>2, <2>3, <2>4, <2>5 DEF Next
<1> QED
  BY <1>1, PTL DEF Spec, LidBitSticks

\* One turn of the queue, as AnswersInOrder has it.
Turned ==
  \E n \in {0, 1} :
    /\ n = 1 => /\ queue # <<>> /\ flag = {}
                /\ shown' = [queue[1] EXCEPT !.left = 0]
    /\ \A i \in n + 1 .. Len(queue) :
         /\ i - n \in DOMAIN queue'
         /\ [queue'[i - n] EXCEPT !.left = 0] = [queue[i] EXCEPT !.left = 0]

\* A queue that only grew has not turned.
LEMMA GrownTurns ==
  ASSUME Inductive, queue' \in Queues, Len(queue') >= Len(queue),
         \A i \in 1 .. Len(queue) : queue'[i] = queue[i]
  PROVE  Turned
<1>1. /\ Len(queue) \in Nat /\ Len(queue') \in Nat
      /\ DOMAIN queue' = 1 .. Len(queue')
  BY LenProperties DEF Inductive, Queued, Queues
<1>2. \A i \in 0 + 1 .. Len(queue) :
        /\ i - 0 \in DOMAIN queue'
        /\ [queue'[i - 0] EXCEPT !.left = 0] = [queue[i] EXCEPT !.left = 0]
  BY <1>1
<1> QED
  BY <1>2 DEF Turned

\* Handing over from a queue that holds all that was waiting.
LEMMA HandOverTurns ==
  ASSUME Inductive, NEW q \in Queues, HandOver(q),
         Len(q) >= Len(queue), \A i \in 1 .. Len(queue) : q[i] = queue[i]
  PROVE  Turned
<1>1. /\ q \in Seq(Answers) /\ queue \in Seq(Answers)
      /\ Len(queue) \in Nat /\ Len(q) \in Nat
      /\ DOMAIN q = 1 .. Len(q)
      /\ queue = <<>> \/ Len(queue) > 0
  BY LenProperties, EmptySeq DEF Inductive, Queued, Queues
<1>2. CASE Deliverable(q)
  <2>1. q # <<>> /\ flag = {} /\ queue' = Tail(q) /\ shown' = [Head(q) EXCEPT !.left = 0]
    BY <1>2 DEF HandOver, Deliverable
  <2>2. /\ Len(Tail(q)) = Len(q) - 1 /\ Head(q) = q[1]
        /\ Tail(q) \in Seq(Answers)
        /\ \A i \in 1 .. Len(Tail(q)) : Tail(q)[i] = q[i + 1]
    BY <1>1, <2>1, HeadTailProperties
  <2>3. DOMAIN queue' = 1 .. Len(q) - 1
    BY <2>1, <2>2, LenProperties
  <2>4. CASE queue = <<>>
    <3>1. \A i \in 0 + 1 .. Len(queue) : FALSE
      BY <2>4
    <3> QED
      BY <3>1 DEF Turned
  <2>5. CASE queue # <<>>
    <3>1. Len(queue) > 0 /\ q[1] = queue[1]
      BY <1>1, <2>5
    <3>2. \A i \in 1 + 1 .. Len(queue) :
            i - 1 \in DOMAIN queue' /\ queue'[i - 1] = queue[i]
      <4> TAKE i \in 1 + 1 .. Len(queue)
      <4>1. i \in Int /\ i >= 2 /\ i <= Len(q) /\ i <= Len(queue)
        BY <1>1
      <4>2. i - 1 \in 1 .. Len(Tail(q)) /\ (i - 1) + 1 = i
        BY <1>1, <2>2, <4>1
      <4>3. Tail(q)[i - 1] = q[i] /\ q[i] = queue[i]
        BY <1>1, <2>2, <4>1, <4>2
      <4> QED
        BY <2>1, <2>2, <2>3, <4>2, <4>3
    <3> QED
      BY <2>1, <2>2, <2>5, <3>1, <3>2 DEF Turned
  <2> QED
    BY <2>4, <2>5
<1>3. CASE ~Deliverable(q)
  <2>1. CASE q = <<>>
    <3>1. \A i \in 0 + 1 .. Len(queue) : FALSE
      BY <1>1, <2>1
    <3> QED
      BY <3>1 DEF Turned
  <2>2. CASE q # <<>>
    <3> DEFINE left == IF q[1].left > TickCycles THEN q[1].left - TickCycles ELSE 0
    <3>1. queue' = [q EXCEPT ![1].left = left]
      BY <1>3, <2>2 DEF HandOver
    <3> HIDE DEF left
    <3>2. /\ DOMAIN queue' = DOMAIN q
          /\ \A i \in DOMAIN q :
               queue'[i] = IF i = 1 THEN [q[1] EXCEPT !.left = left] ELSE q[i]
      BY <3>1
    <3>3. 1 \in 1 .. Len(q) /\ q[1] \in Answers
      BY <1>1, <2>2, EmptySeq
    <3>4. [[q[1] EXCEPT !.left = left] EXCEPT !.left = 0] = [q[1] EXCEPT !.left = 0]
      BY <3>3 DEF Answers
    <3>5. \A i \in 0 + 1 .. Len(queue) :
            /\ i - 0 \in DOMAIN queue'
            /\ [queue'[i - 0] EXCEPT !.left = 0] = [queue[i] EXCEPT !.left = 0]
      <4> TAKE i \in 0 + 1 .. Len(queue)
      <4>1. i - 0 = i /\ i \in DOMAIN q /\ q[i] = queue[i]
        BY <1>1
      <4>2. [queue'[i] EXCEPT !.left = 0] = [q[i] EXCEPT !.left = 0]
        BY <3>2, <3>4, <4>1
      <4> QED
        BY <3>2, <4>1, <4>2
    <3> QED
      BY <3>5 DEF Turned
  <2> QED
    BY <2>1, <2>2
<1> QED
  BY <1>2, <1>3

\* What a tick hands over from: the queue, with what the lid and the read add.
LEMMA TickHandsOver ==
  ASSUME Inductive, Tick
  PROVE  \E q \in Queues :
           /\ HandOver(q) /\ Len(q) >= Len(QueueLid)
           /\ \A i \in 1 .. Len(QueueLid) : q[i] = QueueLid[i]
<1>1. QueueLid \in Queues /\ Len(QueueLid) \in Nat
  BY LidJoins, LenProperties DEF Queues
<1>2. CASE HandOver(QueueLid)
  BY <1>1, <1>2
<1>3. ASSUME NEW a \in Answers, Len(QueueLid) < QueueCapacity,
             HandOver(Append(QueueLid, a))
      PROVE  \E q \in Queues :
               /\ HandOver(q) /\ Len(q) >= Len(QueueLid)
               /\ \A i \in 1 .. Len(QueueLid) : q[i] = QueueLid[i]
  <2>1. /\ Append(QueueLid, a) \in Queues
        /\ Len(Append(QueueLid, a)) = Len(QueueLid) + 1
        /\ \A i \in 1 .. Len(QueueLid) : Append(QueueLid, a)[i] = QueueLid[i]
    BY <1>1, <1>3, Joining
  <2>2. Len(Append(QueueLid, a)) >= Len(QueueLid)
    BY <1>1, <2>1
  <2> USE <2>1
  <2> WITNESS Append(QueueLid, a) \in Queues
  <2> QED
    BY <1>3, <2>1, <2>2
<1>4. CASE TickWaiting \/ TickHeld \/ TickSound
  BY <1>2, <1>4 DEF TickWaiting, TickHeld, TickSound
<1>5. CASE TickOffTheEnd
  BY <1>3, <1>5, AnswerTypes DEF TickOffTheEnd, Arrives
<1>6. CASE TickData
  BY <1>3, <1>6, AnswerTypes DEF TickData, ReadsOn, Arrives, Inductive, Driven, Shape
<1> QED
  BY <1>4, <1>5, <1>6 DEF Tick

LEMMA SendGrows ==
  ASSUME Inductive, NEW command, NEW more \in Seq(Answers), Send(command, more)
  PROVE  Turned
<1>1. queue' \in Queues /\ queue' = Fit(queue, more)
  BY Fitting DEF Send, Inductive, Queued
<1> QED
  BY <1>1, Fitting, GrownTurns DEF Inductive, Queued

\* What waits is handed over in the order it was prepared, and nothing but a
\* reset takes it away.
THEOREM CdRomAnswersInOrder == Spec => AnswersInOrder
<1>1. ASSUME Inductive, [Next]_vars
      PROVE  Reset \/ Turned
  <2>1. CASE UNCHANGED queue
    <3>1. queue' \in Queues /\ Len(queue) \in Nat
      BY <1>1, <2>1, LenProperties DEF Inductive, Queued, Queues
    <3> QED
      BY <1>1, <2>1, <3>1, GrownTurns
  <2>2. CASE Command
    <3>1. ASSUME NEW command, NEW ok, Query(command, ok)
          PROVE  Turned
      BY <1>1, <3>1, Replies, SendGrows DEF Query
    <3>2. CASE GetStat \/ (\E lba \in Lba : SetLoc(lba)) \/ (\E bits \in Modes : SetMode(bits))
      BY <1>1, <3>2, Replies, SendGrows DEF GetStat, SetLoc, SetMode
    <3>3. CASE InitDrive \/ Stop \/ Pause
      BY <1>1, <3>3, Replies, SendGrows, Delays DEF InitDrive, Stop, Pause, StopReading
    <3>4. CASE Read
      BY <1>1, <3>4, Replies, SendGrows DEF Read
    <3>5. CASE Seek
      BY <1>1, <3>5, Replies, SendGrows, Delays DEF Seek
    <3>6. CASE ReadToc \/ GetId
      BY <1>1, <3>6, Replies, SendGrows, Delays DEF ReadToc, GetId
    <3> QED
      BY <2>2, <3>1, <3>2, <3>3, <3>4, <3>5, <3>6
      DEF Command, Setting, Unknown, GetLocP, GetLocL, GetTrack
  <2>3. CASE Registers \/ TakeAudio \/ OpenShell \/ CloseShell \/ UNCHANGED vars
    BY <2>1, <2>3 DEF Registers, Acknowledge, Request, ReadData, TakeAudio,
                      OpenShell, CloseShell, vars
  <2>4. CASE Tick
    <3>1. PICK q \in Queues :
            /\ HandOver(q) /\ Len(q) >= Len(QueueLid)
            /\ \A i \in 1 .. Len(QueueLid) : q[i] = QueueLid[i]
      BY <1>1, <2>4, TickHandsOver
    <3>2. /\ Len(QueueLid) >= Len(queue) /\ QueueLid \in Queues
          /\ \A i \in 1 .. Len(queue) : QueueLid[i] = queue[i]
      BY <1>1, LidJoins
    <3>3. Len(queue) \in Nat /\ Len(QueueLid) \in Nat /\ Len(q) \in Nat
      BY <1>1, <3>2, LenProperties DEF Inductive, Queued, Queues
    <3>4. Len(q) >= Len(queue) /\ \A i \in 1 .. Len(queue) : q[i] = queue[i]
      BY <3>1, <3>2, <3>3
    <3> QED
      BY <1>1, <3>1, <3>4, HandOverTurns
  <2> QED
    BY <1>1, <2>2, <2>3, <2>4 DEF Next
<1> QED
  BY <1>1, CdRomInductive, PTL DEF Spec, AnswersInOrder, Turned

\* The lid's answer stops waiting for room only once it is in the queue.
THEOREM CdRomLidTold == Spec => LidTold
<1> DEFINE Told == shellReportPending /\ ~shellReportPending' =>
                     \/ Reset
                     \/ shown'.to = "lid"
                     \/ \E i \in DOMAIN queue' : queue'[i].to = "lid"
<1>1. ASSUME Inductive, [Next]_vars
      PROVE  Told
  <2>1. CASE UNCHANGED shellReportPending
    BY <2>1
  <2>2. CASE Command
    BY <2>1, <2>2 DEF Command, GetStat, Setting, Unknown, GetLocP, GetLocL, GetTrack,
       Query, SetLoc, SetMode, InitDrive, Stop, Pause, StopReading, Read, Seek,
       ReadToc, GetId, Send, lid
  <2>3. CASE Registers \/ TakeAudio \/ CloseShell \/ UNCHANGED vars
    BY <2>1, <2>3 DEF Registers, Acknowledge, Request, ReadData, TakeAudio,
                      CloseShell, vars, lid
  <2>4. CASE OpenShell \/ Reset
    BY <2>4 DEF OpenShell
  <2>5. CASE Tick
    <3> SUFFICES ASSUME shellReportPending, ~shellReportPending'
                 PROVE  shown'.to = "lid" \/ \E i \in DOMAIN queue' : queue'[i].to = "lid"
      OBVIOUS
    <3>1. LidReports
      BY <2>5 DEF Tick
    <3>2. /\ queue \in Queues /\ Len(queue) \in Nat
          /\ <<Answer(5, "lid", 0)>> \in Seq(Answers)
          /\ ~Overflows(queue, <<Answer(5, "lid", 0)>>)
      <4>1. Len(queue) + 1 <= QueueCapacity
        BY <1>1, <3>1, LenProperties, CdRomAssumption
        DEF Inductive, Queued, Queues, LidReports
      <4> QED
        BY <1>1, <4>1, LenProperties, AnswerTypes, CdRomAssumption
        DEF Inductive, Queued, Queues, Overflows
    <3>3. /\ Len(QueueLid) > Len(queue)
          /\ QueueLid[Len(queue) + 1].to = "lid" /\ Len(QueueLid) \in Nat
      <4>1. /\ Fit(queue, <<Answer(5, "lid", 0)>>) \in Queues
            /\ Len(Fit(queue, <<Answer(5, "lid", 0)>>)) > Len(queue)
            /\ Fit(queue, <<Answer(5, "lid", 0)>>)[Len(queue) + 1] = Answer(5, "lid", 0)
        BY <3>2, Fitting
      <4> QED
        BY <3>1, <4>1, LenProperties DEF QueueLid, Answer, Queues
    <3>4. PICK q \in Queues :
            /\ HandOver(q) /\ Len(q) >= Len(QueueLid)
            /\ \A i \in 1 .. Len(QueueLid) : q[i] = QueueLid[i]
      BY <1>1, <2>5, TickHandsOver
    <3>5. PICK k \in 1 .. Len(q) : q[k].to = "lid"
      <4>1. Len(q) \in Nat /\ Len(queue) + 1 \in 1 .. Len(QueueLid)
        BY <3>2, <3>3, <3>4, LenProperties DEF Queues
      <4> QED
        BY <3>2, <3>3, <3>4, <4>1
    <3>6. q \in Seq(Answers) /\ Len(q) \in Nat /\ DOMAIN q = 1 .. Len(q)
      BY LenProperties DEF Queues
    <3>7. CASE Deliverable(q)
      <4>1. q # <<>> /\ queue' = Tail(q) /\ shown' = [Head(q) EXCEPT !.left = 0]
        BY <3>4, <3>7 DEF HandOver, Deliverable
      <4>2. /\ Len(Tail(q)) = Len(q) - 1 /\ Head(q) = q[1] /\ Head(q) \in Answers
            /\ Tail(q) \in Seq(Answers)
            /\ \A i \in 1 .. Len(Tail(q)) : Tail(q)[i] = q[i + 1]
        BY <3>6, <4>1, HeadTailProperties
      <4>3. CASE k = 1
        BY <3>5, <4>1, <4>2, <4>3 DEF Answers
      <4>4. CASE k # 1
        <5>1. k - 1 \in 1 .. Len(Tail(q)) /\ (k - 1) + 1 = k
          BY <3>6, <4>2, <4>4
        <5>2. DOMAIN queue' = 1 .. Len(Tail(q)) /\ queue'[k - 1] = q[k]
          BY <4>1, <4>2, <5>1, LenProperties
        <5> QED
          BY <3>5, <5>1, <5>2
      <4> QED
        BY <4>3, <4>4
    <3>8. CASE ~Deliverable(q)
      <4> DEFINE left == IF q[1].left > TickCycles THEN q[1].left - TickCycles ELSE 0
      <4>1. queue' = [q EXCEPT ![1].left = left]
        BY <3>4, <3>5, <3>6, <3>8 DEF HandOver
      <4> HIDE DEF left
      <4>2. /\ DOMAIN queue' = DOMAIN q
            /\ \A i \in DOMAIN q :
                 queue'[i] = IF i = 1 THEN [q[1] EXCEPT !.left = left] ELSE q[i]
        BY <4>1
      <4>3. q[1] \in Answers
        BY <3>5, <3>6, ElementOfSeq
      <4>4. [q[1] EXCEPT !.left = left].to = q[1].to
        BY <4>3 DEF Answers
      <4> QED
        BY <3>5, <3>6, <4>2, <4>4
    <3> QED
      BY <3>7, <3>8
  <2> QED
    BY <1>1, <2>2, <2>3, <2>4, <2>5 DEF Next
<1> QED
  BY <1>1, CdRomInductive, PTL DEF Spec, LidTold
=============================================================================
