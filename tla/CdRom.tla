------------------------------- MODULE CdRom -------------------------------
(***************************************************************************)
(* The CD-ROM controller and the drive behind it (src/cdrom.cpp).          *)
(*                                                                         *)
(* Software writes commands and acknowledges interrupts; the drive         *)
(* prepares answers in a queue two deep and hands over one at a time, each *)
(* once its delay has run out and the interrupt before it has been         *)
(* acknowledged.  A read in progress puts a sector in the one sector       *)
(* buffer, and an INT1 in the queue, every time one passes under the head. *)
(* The lid may be lifted and shut at any moment.                           *)
(*                                                                         *)
(* Delays are in cycles and the drive is looked at every TickCycles, as in *)
(* the code.  A sector is the address it was read from, the data FIFO the  *)
(* number of pieces left to take, decoded sound the number of sectors'     *)
(* worth waiting for the mixer.  Left out, as nothing above depends on     *)
(* them: the bytes of answers and parameters, the volume, filter and mute  *)
(* settings, and the interrupt enable register, which only decides whether *)
(* a delivered answer also raises the CPU's interrupt line.                *)
(***************************************************************************)
EXTENDS Integers, Sequences

CONSTANTS
  TickCycles, AcknowledgeCycles, SecondAnswerCycles, InitCycles, PauseCycles,
  SeekCycles, SectorCycles, SpinDownCycles,   \* the delays of cdrom.cpp
  QueueCapacity,   \* answers that can wait (2)
  DiscEnd,         \* sectors on the disc: reading at or past it fails
  SeekLimit,       \* SEEK_LIMIT_LBA: a seek beyond it fails
  MaxLba,          \* bound: the farthest address software aims at
  SoundLbas,       \* the sectors written as a movie's sound
  SectorPieces,    \* pieces a sector is taken out of the FIFO in
  SoundCapacity,   \* AUDIO_CAPACITY, in sectors of sound
  SoundPrime,      \* AUDIO_PRIME, in sectors of sound
  Commands,        \* bound: the commands software uses in the run
  Modes,           \* bound: the values it gives the mode register
  Patient,         \* software sends nothing until the last command is answered
  HostOps          \* which of "lid" and "reset" the host performs

Lba == 0 .. MaxLba
NoSector == -1     \* the sector buffer of a drive that has read nothing

ASSUME CdRomAssumption ==
  /\ TickCycles \in Nat \ {0}
  /\ {AcknowledgeCycles, SecondAnswerCycles, InitCycles, PauseCycles,
      SeekCycles, SectorCycles, SpinDownCycles} \subseteq Nat \ {0}
  /\ QueueCapacity \in Nat \ {0}
  /\ MaxLba \in Nat /\ DiscEnd \in Lba /\ SeekLimit \in Lba
  /\ SoundLbas \subseteq Lba
  /\ SectorPieces \in Nat \ {0}
  /\ SoundCapacity \in Nat \ {0} /\ SoundPrime \in 1 .. SoundCapacity
  /\ Modes \subseteq SUBSET {"XA_ADPCM", "DOUBLE_SPEED"}
  /\ Patient \in BOOLEAN

VARIABLES
  status,       \* the stored bits of the status byte that are up
  mode,         \* the bits of the mode register that steer a read
  flag,         \* interrupt_flag, as the set of its bits that are up
  busy,
  queue,        \* answers prepared and not yet delivered
  seekLba, readLba, reading, seeking, headerValid, sectorRemaining,
  sector,       \* the address of the sector in the sector buffer
  dataLeft,     \* pieces of it left in the data FIFO
  sound,        \* decoded - played, in sectors
  playing,
  shellOpen, shellReportPending, spinDownRemaining,
  owed,         \* history: no command's answer delivered since the last command
  dropped,      \* history: an answer has been dropped
  shown         \* history: the answer in the flag register, until acknowledged

drive == <<seekLba, readLba, reading, seeking, headerValid, sectorRemaining>>
buffer == <<sector, dataLeft>>
audio == <<sound, playing>>
lid == <<shellOpen, shellReportPending, spinDownRemaining>>
history == <<owed, dropped, shown>>
vars == <<status, mode, flag, busy, queue, drive, buffer, audio, lid, history>>

StatusBit == {"MOTOR", "SEEK_ERROR", "SHELL_OPEN", "READING", "SEEKING"}

\* An answer: its interrupt number, what it is an answer to, the cycles left
\* before the drive is ready to give it, and the sector an INT1 is about.
Answer(int, to, left) == [int |-> int, to |-> to, left |-> left, lba |-> NoSector]
SectorReady(lba) == [int |-> 1, to |-> "sector", left |-> 0, lba |-> lba]

\* The bits of the flag register an interrupt number puts up.
Bits(int) == CASE int = 1 -> {0}
               [] int = 2 -> {1}
               [] int = 3 -> {0, 1}
               [] int = 5 -> {0, 2}

NoAnswer == Answer(0, "nothing", 0)

\* There is a disc in the drive throughout; with the lid open it is out of
\* reach, as it is in a drive that has none.
HasDisc == ~shellOpen

\* cycles_per_sector, at the speed mode m asks for.
CyclesPerSector(m) ==
  IF "DOUBLE_SPEED" \in m THEN SectorCycles \div 2 ELSE SectorCycles

\* answer() called for each of `as` in turn: what does not fit is dropped.
Fit(q, as) ==
  SubSeq(q \o as, 1, IF Len(q) + Len(as) < QueueCapacity
                     THEN Len(q) + Len(as) ELSE QueueCapacity)

Overflows(q, as) == Len(q) + Len(as) > QueueCapacity

\* stop_audio.
StopAudio == sound' = 0 /\ playing' = FALSE

\* Mutant: the status byte replaced, lid bit and all.
SetStatusForgetsLid(bits) == status' = bits

\* set_status: the drive's bits replaced, the lid's kept.
SetStatus(bits) == status' = (status \cap {"SHELL_OPEN"}) \cup bits

\* lose_position, of what it does to the drive and its sound.
LosePosition ==
  /\ reading' = FALSE /\ seeking' = FALSE /\ headerValid' = FALSE
  /\ StopAudio

-----------------------------------------------------------------------------
Init ==
  /\ status = {"MOTOR"} /\ mode = {}
  /\ flag = {} /\ busy = FALSE /\ queue = <<>>
  /\ seekLba = 0 /\ readLba = 0 /\ reading = FALSE /\ seeking = FALSE
  /\ headerValid = FALSE /\ sectorRemaining = 0
  /\ sector = NoSector /\ dataLeft = 0
  /\ sound = 0 /\ playing = FALSE
  /\ shellOpen = FALSE /\ shellReportPending = FALSE /\ spinDownRemaining = 0
  /\ owed = FALSE /\ dropped = FALSE /\ shown = NoAnswer

-----------------------------------------------------------------------------
(***************************************************************************)
(* Commands: a store to the command register, busy put up and execute().   *)
(***************************************************************************)

\* Whether software has had all the answers of its last command.
Settled == ~owed /\ flag = {} /\ \A i \in DOMAIN queue : queue[i].to # "command"

Ack(int) == Answer(int, "command", AcknowledgeCycles)

\* The part every command shares: it queues its answers as far as they fit.
Send(command, as) ==
  /\ command \in Commands
  /\ Patient => Settled
  /\ busy' = TRUE
  /\ queue' = Fit(queue, as)
  /\ owed' = TRUE
  /\ dropped' = (dropped \/ Overflows(queue, as))
  /\ UNCHANGED <<flag, lid, shown>>

\* Getstat also puts the lid's bit down, unless the lid is still open.
GetStat ==
  /\ Send("Getstat", <<Ack(3)>>)
  /\ status' = IF shellOpen THEN status ELSE status \ {"SHELL_OPEN"}
  /\ UNCHANGED <<mode, drive, buffer, audio>>

\* Commands that only answer: Mute, Demute, Setfilter, Getparam, Test and the
\* unknown ones, Getloc, and the ones about tracks, which a drive that
\* cannot reach a disc refuses.
Query(command, ok) ==
  /\ Send(command, <<Ack(IF ok THEN 3 ELSE 5)>>)
  /\ UNCHANGED <<status, mode, drive, buffer, audio>>

Setting == Query("Mute", TRUE)
Unknown == Query("unknown", FALSE)
GetLocP == Query("GetlocP", "SEEK_ERROR" \notin status)
GetLocL == Query("GetlocL", HasDisc /\ headerValid)
GetTrack == Query("GetTN", HasDisc)

SetLoc(lba) ==
  /\ Send("Setloc", <<Ack(3)>>)
  /\ seekLba' = lba
  /\ UNCHANGED <<status, mode, readLba, reading, seeking, headerValid,
                 sectorRemaining, buffer, audio>>

SetMode(bits) ==
  /\ Send("Setmode", <<Ack(3)>>)
  /\ mode' = bits
  /\ UNCHANGED <<status, drive, buffer, audio>>

\* Init (the command).
InitDrive ==
  /\ mode' = {}
  /\ reading' = FALSE /\ seeking' = FALSE
  /\ StopAudio
  /\ SetStatus({"MOTOR"})
  /\ Send("Init", <<Ack(3), Answer(2, "command", InitCycles)>>)
  /\ UNCHANGED <<seekLba, readLba, headerValid, sectorRemaining, buffer>>

\* Mutant: the read stops and the status byte goes on reporting it.
StopReadingUnsaid(command, parked) ==
  /\ Send(command, <<Ack(3), Answer(2, "command", PauseCycles)>>)
  /\ reading' = FALSE /\ seeking' = FALSE
  /\ StopAudio
  /\ status' = status \ parked
  /\ UNCHANGED <<mode, seekLba, readLba, headerValid, sectorRemaining, buffer>>

\* Stop and Pause; Stop also stops the motor.
StopReading(command, parked) ==
  /\ Send(command, <<Ack(3), Answer(2, "command", PauseCycles)>>)
  /\ reading' = FALSE /\ seeking' = FALSE
  /\ StopAudio
  /\ status' = status \ ({"READING", "SEEKING"} \cup parked)
  /\ UNCHANGED <<mode, seekLba, readLba, headerValid, sectorRemaining, buffer>>

Stop == StopReading("Stop", {"MOTOR"})
Pause == StopReading("Pause", {})

\* A command the drive accepts and then fails for want of a disc.
Refused(int2) == <<Ack(3), Answer(int2, "command", SecondAnswerCycles)>>

\* ReadN and ReadS.
Read ==
  \/ /\ ~HasDisc
     /\ Send("ReadN", Refused(5))
     /\ UNCHANGED <<status, mode, drive, buffer, audio>>
  \/ /\ HasDisc
     /\ readLba' = seekLba
     /\ reading' = TRUE /\ seeking' = TRUE
     /\ status' = (status \ {"READING"}) \cup {"SEEKING"}
     /\ sectorRemaining' = SeekCycles + CyclesPerSector(mode)
     /\ Send("ReadN", <<Ack(3)>>)
     /\ UNCHANGED <<mode, seekLba, headerValid, buffer, audio>>

\* SeekL and SeekP; load_header leaves the sector arrived at in the buffer.
Seek ==
  \/ /\ ~HasDisc \/ seekLba > SeekLimit
     /\ Send("SeekL", Refused(5))
     /\ LosePosition /\ SetStatus({"SEEK_ERROR"})
     /\ UNCHANGED <<mode, seekLba, readLba, sectorRemaining, buffer>>
  \/ /\ HasDisc /\ seekLba <= SeekLimit
     /\ reading' = FALSE /\ seeking' = FALSE
     /\ readLba' = seekLba
     /\ status' = status \ {"READING", "SEEKING"}
     /\ sector' = seekLba /\ headerValid' = TRUE
     /\ Send("SeekL", <<Ack(3), Answer(2, "command", SeekCycles)>>)
     /\ UNCHANGED <<mode, seekLba, sectorRemaining, dataLeft, audio>>

ReadToc ==
  /\ Send("ReadTOC", IF HasDisc THEN <<Ack(3), Answer(2, "command", InitCycles)>>
                     ELSE Refused(5))
  /\ UNCHANGED <<status, mode, drive, buffer, audio>>

GetId ==
  /\ Send("GetID", Refused(IF HasDisc THEN 2 ELSE 5))
  /\ UNCHANGED <<status, mode, drive, buffer, audio>>

Command ==
  \/ GetStat
  \/ Setting
  \/ Unknown
  \/ GetLocP
  \/ GetLocL
  \/ GetTrack
  \/ \E lba \in Lba : SetLoc(lba)
  \/ \E bits \in Modes : SetMode(bits)
  \/ InitDrive
  \/ Stop
  \/ Pause
  \/ Read
  \/ Seek
  \/ ReadToc
  \/ GetId

-----------------------------------------------------------------------------
(***************************************************************************)
(* The other registers.                                                    *)
(***************************************************************************)

\* A store to the flag register clears the bits it has a one for.
Acknowledge(bits) ==
  /\ flag \cap bits # {}
  /\ flag' = flag \ bits
  /\ shown' = IF flag \subseteq bits THEN NoAnswer ELSE shown
  /\ UNCHANGED <<status, mode, busy, queue, drive, buffer, audio, lid, owed,
                 dropped>>

\* The request register: asking presents the sector in the buffer unless
\* some of one is still in hand; withdrawing throws away what is left.
Request(want) ==
  /\ dataLeft' = IF ~want THEN 0
                 ELSE IF dataLeft = 0 THEN SectorPieces ELSE dataLeft
  /\ UNCHANGED <<status, mode, flag, busy, queue, drive, sector, audio, lid,
                 history>>

\* read_data, by the CPU or the DMA channel.
ReadData ==
  /\ dataLeft > 0
  /\ dataLeft' = dataLeft - 1
  /\ UNCHANGED <<status, mode, flag, busy, queue, drive, sector, audio, lid,
                 history>>

\* take_audio, over as many samples as a sector of sound holds: nothing is
\* played before the queue is primed, and a queue run dry stops once the
\* last sample has been held long enough.
TakeAudio ==
  /\ playing \/ sound >= SoundPrime
  /\ IF sound > 0 THEN sound' = sound - 1 /\ playing' = TRUE
                  ELSE UNCHANGED sound /\ playing' = FALSE
  /\ UNCHANGED <<status, mode, flag, busy, queue, drive, buffer, lid, history>>

-----------------------------------------------------------------------------
(***************************************************************************)
(* tick(TickCycles): the motor winds down, the lid's answer takes its      *)
(* place in the queue, the read moves on, and the front of the queue is    *)
(* handed over when it is ready and may be.                                *)
(***************************************************************************)

\* The motor winding down: what becomes of it and of the status byte.
Winding == spinDownRemaining > 0
Wound == Winding /\ spinDownRemaining <= TickCycles
StatusWound == IF Wound THEN status \ {"MOTOR"} ELSE status

WindDown ==
  spinDownRemaining' = IF Wound \/ ~Winding THEN 0
                       ELSE spinDownRemaining - TickCycles

\* Mutant: the lid's answer does not wait for room.
LidReportsOnce == shellReportPending

LidReports == shellReportPending /\ Len(queue) < QueueCapacity

\* The queue once the lid has had its chance at it.
QueueLid == IF LidReports THEN Fit(queue, <<Answer(5, "lid", 0)>>) ELSE queue

\* Mutant: an answer that is ready does not wait for the one before it.
DeliverableAnyway(q) == q # <<>> /\ Head(q).left <= TickCycles

\* Mutant: an answer is ready on the tick its delay runs out and no other.
DeliverableOnTime(q) == q # <<>> /\ Head(q).left = TickCycles /\ flag = {}

\* The first answer of q is ready, and the one before it acknowledged.
Deliverable(q) == q # <<>> /\ Head(q).left <= TickCycles /\ flag = {}

\* The last part of tick, on the queue q the read has left.
HandOver(q) ==
  IF Deliverable(q)
  THEN /\ flag' = Bits(Head(q).int)
       /\ queue' = Tail(q)
       /\ busy' = FALSE
       /\ shown' = [Head(q) EXCEPT !.left = 0]
       /\ owed' = (owed /\ Head(q).to # "command")
  ELSE /\ queue' = IF q = <<>> THEN q
                   ELSE [q EXCEPT ![1].left = IF @ > TickCycles
                                              THEN @ - TickCycles ELSE 0]
       /\ UNCHANGED <<flag, busy, shown, owed>>

\* No read in progress, or its next sector not yet under the head.
TickWaiting ==
  /\ ~reading \/ sectorRemaining > TickCycles
  /\ sectorRemaining' = IF reading THEN sectorRemaining - TickCycles
                        ELSE sectorRemaining
  /\ status' = StatusWound
  /\ HandOver(QueueLid)
  /\ UNCHANGED <<seekLba, readLba, reading, seeking, headerValid, buffer, audio,
                 dropped>>

SectorDue == reading /\ sectorRemaining <= TickCycles

\* A sector is due and the queue is full: the drive waits with it.
TickHeld ==
  /\ SectorDue /\ Len(QueueLid) >= QueueCapacity
  /\ sectorRemaining' = 0
  /\ status' = StatusWound
  /\ HandOver(QueueLid)
  /\ UNCHANGED <<seekLba, readLba, reading, seeking, headerValid, buffer, audio,
                 dropped>>

Arrives == SectorDue /\ Len(QueueLid) < QueueCapacity

\* Nothing to read at readLba: the drive loses its position and says so.
TickOffTheEnd ==
  /\ Arrives /\ readLba >= DiscEnd
  /\ LosePosition
  /\ status' = (StatusWound \cap {"SHELL_OPEN"}) \cup {"SEEK_ERROR"}
  /\ HandOver(Append(QueueLid, Answer(5, "read", 0)))
  /\ UNCHANGED <<seekLba, readLba, sectorRemaining, buffer, dropped>>

\* Mutant: the overshoot taken off whatever a sector takes.
NextSectorUnclamped == CyclesPerSector(mode) - (TickCycles - sectorRemaining)

\* The next sector is timed from the moment this one passed, not from the
\* tick that noticed it.
NextSectorIn ==
  LET overshoot == TickCycles - sectorRemaining
      whole == CyclesPerSector(mode)
  IN IF overshoot < whole THEN whole - overshoot ELSE 0

\* A sector read: the head moves on and the seek the read began with is over.
ReadsOn ==
  /\ Arrives /\ readLba < DiscEnd
  /\ seeking' = FALSE /\ headerValid' = TRUE
  /\ status' = (StatusWound \ {"SEEKING"}) \cup {"READING"}
  /\ readLba' = readLba + 1
  /\ sectorRemaining' = NextSectorIn
  /\ UNCHANGED <<seekLba, reading>>

\* A sector of sound is decoded, as far as there is room, or dropped when
\* the filter names another stream; software hears nothing of it.
TickSound ==
  /\ ReadsOn
  /\ "XA_ADPCM" \in mode /\ readLba \in SoundLbas
  /\ sound' \in {sound, IF sound < SoundCapacity THEN sound + 1 ELSE sound}
  /\ HandOver(QueueLid)
  /\ UNCHANGED <<buffer, playing, dropped>>

\* A sector of data replaces the one in the buffer and is announced.
TickData ==
  /\ ReadsOn
  /\ ~("XA_ADPCM" \in mode /\ readLba \in SoundLbas)
  /\ sector' = readLba
  /\ HandOver(Append(QueueLid, SectorReady(readLba)))
  /\ UNCHANGED <<dataLeft, audio, dropped>>

Tick ==
  /\ WindDown
  /\ shellReportPending' = (shellReportPending /\ ~LidReports)
  /\ UNCHANGED <<mode, shellOpen>>
  /\ \/ TickWaiting
     \/ TickHeld
     \/ TickOffTheEnd
     \/ TickSound
     \/ TickData

-----------------------------------------------------------------------------
(***************************************************************************)
(* The lid and the reset button.                                           *)
(***************************************************************************)

OpenShell ==
  /\ "lid" \in HostOps
  /\ ~shellOpen
  /\ shellOpen' = TRUE
  /\ reading' = FALSE /\ seeking' = FALSE /\ headerValid' = FALSE
  /\ dataLeft' = 0
  /\ StopAudio
  /\ status' = {"MOTOR", "SHELL_OPEN"}
  /\ spinDownRemaining' = SpinDownCycles
  /\ shellReportPending' = TRUE
  /\ UNCHANGED <<mode, flag, busy, queue, seekLba, readLba, sectorRemaining,
                 sector, history>>

\* Guarded by nothing: the debugger shuts a lid that is shut as well.
CloseShell ==
  /\ "lid" \in HostOps
  /\ shellOpen' = FALSE
  /\ spinDownRemaining' = 0
  /\ status' = {"SHELL_OPEN"}
  /\ UNCHANGED <<mode, flag, busy, queue, drive, buffer, audio,
                 shellReportPending, history>>

\* CdRom::reset, with the console around it.  The lid stays where it is.
Reset ==
  /\ "reset" \in HostOps
  /\ status' = IF shellOpen THEN {"SHELL_OPEN"} ELSE {"MOTOR"}
  /\ mode' = {} /\ flag' = {} /\ busy' = FALSE /\ queue' = <<>>
  /\ seekLba' = 0 /\ readLba' = 0 /\ reading' = FALSE /\ seeking' = FALSE
  /\ headerValid' = FALSE /\ sectorRemaining' = 0
  /\ sector' = NoSector /\ dataLeft' = 0
  /\ StopAudio
  /\ shellReportPending' = FALSE /\ spinDownRemaining' = 0
  /\ owed' = FALSE /\ dropped' = FALSE /\ shown' = NoAnswer
  /\ UNCHANGED shellOpen

-----------------------------------------------------------------------------
\* What the registers can be asked to do, commands aside.
Registers ==
  \/ \E bits \in {{0, 1, 2}, {0}} : Acknowledge(bits)
  \/ \E want \in BOOLEAN : Request(want)
  \/ ReadData

Next ==
  \/ Command
  \/ Registers
  \/ TakeAudio
  \/ Tick
  \/ OpenShell
  \/ CloseShell
  \/ Reset

Spec == Init /\ [][Next]_vars

\* Software whose interrupt handler acknowledges what it is handed.
Acknowledges == Acknowledge({0, 1, 2})

\* The heartbeat of the console ticks the drive for ever.
FairSpec == Spec /\ WF_vars(Tick) /\ WF_vars(Acknowledges)

-----------------------------------------------------------------------------
(***************************************************************************)
(* Properties.                                                             *)
(***************************************************************************)

\* The type invariant.  The counters are unsigned in the code: a negative
\* one here is one wrapped round there.
TypeOK ==
  /\ status \subseteq StatusBit
  /\ mode \subseteq {"XA_ADPCM", "DOUBLE_SPEED"}
  /\ flag \subseteq {0, 1, 2}
  /\ busy \in BOOLEAN
  /\ Len(queue) <= QueueCapacity
  /\ \A i \in DOMAIN queue :
       /\ queue[i].int \in {1, 2, 3, 5}
       /\ queue[i].left \in Nat
  /\ seekLba \in Lba /\ readLba \in Lba
  /\ reading \in BOOLEAN /\ seeking \in BOOLEAN /\ headerValid \in BOOLEAN
  /\ sectorRemaining \in Nat
  /\ sector \in Lba \cup {NoSector}
  /\ dataLeft \in 0 .. SectorPieces
  /\ sound \in 0 .. SoundCapacity
  /\ playing \in BOOLEAN
  /\ shellOpen \in BOOLEAN /\ shellReportPending \in BOOLEAN
  /\ spinDownRemaining \in Nat

\* The status byte, put together a bit at a time by nine commands, the tick
\* and the lid, never claims a read or a seek that is not going on, and
\* never both (cdrom.cpp, ReadN: "the two bits are never both up").
StatusHonest ==
  /\ "READING" \in status => reading /\ ~seeking /\ headerValid
  /\ "SEEKING" \in status => reading /\ seeking

\* With the lid open the drive does nothing and its status byte says so,
\* whatever software commands it to do: no read, no sound, no header for
\* Getloc, and the bit cannot be acknowledged away (set_status, GET_STAT).
LidSeen ==
  shellOpen =>
    /\ "SHELL_OPEN" \in status
    /\ ~reading /\ ~headerValid /\ sound = 0 /\ ~playing

\* A game that was not watching when the lid moved still finds out: once up
\* the lid's bit only goes at a Getstat with the lid shut, or a reset
\* (close_shell and set_status of cdrom.cpp).
LidBitSticks ==
  [][ "SHELL_OPEN" \in status /\ "SHELL_OPEN" \notin status' =>
        ~shellOpen /\ (GetStat \/ Reset) ]_vars

\* The drive hands over nothing while software has an unacknowledged
\* interrupt: until the flag register is clear it keeps showing the same
\* answer and only ever loses bits (tick of cdrom.cpp).
HeldUntilAcknowledged ==
  [][ flag # {} => Reset \/ (flag' \subseteq flag /\ (flag' # {} => shown' = shown)) ]_vars

\* What waits is handed over in the order it was prepared, one at a time and
\* only when the flag register is clear: no command, no sector, no seek given
\* up and no move of the lid takes an answer out of the queue or puts one
\* before another (answer and tick of cdrom.cpp).
AnswersInOrder ==
  [][ Reset \/ \E n \in {0, 1} :
        /\ n = 1 => /\ queue # <<>> /\ flag = {}
                    /\ shown' = [queue[1] EXCEPT !.left = 0]
        /\ \A i \in n + 1 .. Len(queue) :
             /\ i - n \in DOMAIN queue'
             /\ [queue'[i - n] EXCEPT !.left = 0] = [queue[i] EXCEPT !.left = 0] ]_vars

\* The lid's answer is given up for lost by nothing but a reset: it stops
\* waiting for room only when it has taken its place in the queue, or has
\* been handed over from it at once (tick of cdrom.cpp).
LidTold ==
  [][ shellReportPending /\ ~shellReportPending' =>
        \/ Reset
        \/ shown'.to = "lid"
        \/ \E i \in DOMAIN queue' : queue'[i].to = "lid" ]_vars

\* Software that sends one command at a time and acknowledges what it is
\* handed is told that the lid was opened, however full the queue was when
\* it moved and whatever it commands meanwhile ("Software that was between
\* commands when the lid moved must still be told", tick of cdrom.cpp).
LidReported == shellReportPending ~> shown.to = "lid"

\* A command whose answers found room in the queue is answered: behind the
\* sectors of a read and the lid's own answer, its turn comes.
AnswersArrive == owed /\ ~dropped ~> ~owed \/ dropped

\* What advance_read says of the sector buffer: it is not overwritten while
\* it holds the sector software has been told of and has not acknowledged.
SectorNotOverwritten == shown.lba # NoSector => sector = shown.lba

\* What cdrom.h says of the queue: software that sends one command at a time
\* never has an answer dropped for want of room.
NoAnswerDropped == ~dropped

\* What cdrom.h says of the busy bit: it is up from the store of a command
\* until that command's first answer is delivered.
BusyUntilAnswered == owed => busy

\* What cdrom.h says of stop_audio: a drive that has stopped reading owes
\* the mixer nothing.
StoppedDriveIsSilent == ~reading => sound = 0

\* What cdrom.cpp says of the motor: a drive asked to read spins up, so one
\* that reports itself reading reports its motor on.
ReadingSpinsMotor == "READING" \in status => "MOTOR" \in status

\* What GET_LOC_L says of its answer: it is the header of the sector last
\* read, so a drive that answers has one in its buffer.
HeaderWasRead == headerValid => sector # NoSector

\* What lose_position says of the seek error bit: it is how the drive says
\* it has nothing to answer Getloc with, so it is not up once it has.
PositionKnown == headerValid => "SEEK_ERROR" \notin status
=============================================================================
