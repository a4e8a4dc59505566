-------------------------------- MODULE Dma --------------------------------
(***************************************************************************)
(* The DMA controller (src/dma.cpp) with the CPU that programs it and the  *)
(* scheduler slot that wakes it.                                           *)
(*                                                                         *)
(* A store to one of its registers returns at once and asks the controller *)
(* to look again (dma_wake); the controller moves one block to an event    *)
(* (dma_event), keeps the bus for the block's hold, during which the next  *)
(* instruction stalls, and comes back after the hold and the gap.          *)
(*                                                                         *)
(* Time is relative to the clock: `due` is the controller's deadline less  *)
(* now, `hold` is dma_hold_until less now, or 0 once it is past.  Words    *)
(* are counted and not moved; the contents of RAM, where a list ends and   *)
(* what the GPU is left drawing are choices.                               *)
(***************************************************************************)
EXTENDS Integers

CONSTANTS
  Channels,     \* the channels of the run, a subset of 0 .. 6
  Paced,        \* those whose device does not always ask: MdecOut, Gpu, CdRom
  Syncs,        \* bound: the sync modes software uses
  MaxWords,     \* bound: the largest BCR size software writes
  MaxBlocks,    \* bound: the largest BCR count
  FullSize,     \* the words a BCR size of zero stands for (0x10000)
  ChopWords,    \* the words a chopped transfer moves at a time
  Gap,          \* cycles between two blocks, the device's slowness included
  ListHolds,    \* how long a slice of a list may hold the bus
  Backlogs,     \* how long the GPU may be left drawing
  RetryCycles,  \* RETRY_CYCLES
  CpuCycles,    \* what an instruction may cost, the stall aside
  Priorities,   \* bound: the priorities software gives the channels
  MaxStores     \* bound: stores to the controller's registers, -1 for no bound

OTC == 6        \* OTC_CHANNEL: the ordering table, with no device behind it
GPU == 2

Sync == {"Manual", "Request", "LinkedList"}

ASSUME DmaAssumption ==
  /\ Channels \subseteq 0 .. 6 /\ Paced \subseteq Channels \ {OTC}
  /\ Syncs \subseteq Sync
  /\ MaxWords \in Nat /\ MaxBlocks \in Nat
  /\ FullSize \in Nat \ {0} /\ ChopWords \in Nat \ {0}
  /\ Gap \in Nat /\ RetryCycles \in Nat \ {0}
  /\ ListHolds \subseteq Nat \ {0} /\ Backlogs \subseteq Nat /\ Backlogs # {}
  /\ CpuCycles \subseteq Nat \ {0}
  /\ Priorities \subseteq [Channels -> 0 .. 7] /\ Priorities # {}
  /\ MaxStores \in Nat \cup {-1}

VARIABLES
  chan,      \* channels[c]: CHCR and BCR, and how far the transfer has got
  enabled,   \* the channels DPCR has switched on
  priority,  \* their priorities there, 0 the highest
  dicr,      \* the stored bits of DICR
  irq,       \* the DMA bit of I_STAT
  pending,   \* the scheduler's Dma slot holds a deadline
  due,       \* that deadline, less now
  hold,      \* dma_hold_until less now, at least 0
  asking,    \* the paced channels whose device wants the bus
  stores     \* bound: stores made so far

registers == <<chan, enabled, priority, dicr>>
slot == <<pending, due>>
vars == <<registers, irq, slot, hold, asking, stores>>

Channel ==
  [enable : BOOLEAN, trigger : BOOLEAN, sync : Sync, chopping : BOOLEAN,
   size : 0 .. MaxWords, count : Nat,
   running : BOOLEAN, remaining : Nat]

Dicr ==
  [force : BOOLEAN, master : BOOLEAN, enables : SUBSET Channels,
   flags : SUBSET Channels]

-----------------------------------------------------------------------------
\* transfer_words and block_words: a size of zero is the largest there is.
Words(ch) == IF ch.size = 0 THEN FullSize ELSE ch.size

\* Channel::started: the ordering table alone needs a trigger.
Started(c, ch) ==
  ch.enable /\ (ch.sync = "Manual" /\ c = OTC => ch.trigger)

\* channel_ready, of the channels C and the DPCR enables E.
ReadyIn(C, E, c) == c \in E /\ Started(c, C[c])
Ready(c) == ReadyIn(chan, enabled, c)

\* device_asking.
DeviceAsking(c) == c \in Paced => c \in asking

\* interrupt_active: the level of the controller's interrupt line.
ActiveIn(d) == d.force \/ (d.master /\ d.enables \cap d.flags # {})
Active == ActiveIn(dicr)

\* Mutant: the level of the line raises it, not the edge.
RaisedByLevel(d) == irq \/ ActiveIn(d)

\* The DMA bit of I_STAT once DICR holds d: the line going up sets it.
Raised(d) == irq \/ (~Active /\ ActiveIn(d))

\* Channel::finish, and what a store that clears the enable bit does.
Idle(ch) == [ch EXCEPT !.running = FALSE, !.remaining = 0]
Finished(ch) == [Idle(ch) EXCEPT !.enable = FALSE, !.trigger = FALSE]

Min2(a, b) == IF a < b THEN a ELSE b
Max2(a, b) == IF a < b THEN b ELSE a

-----------------------------------------------------------------------------
\* Dma::reset; the ordering table's channel walks backwards and no other way.
Init ==
  /\ chan = [c \in Channels |->
               [enable |-> FALSE, trigger |-> FALSE, sync |-> "Manual",
                chopping |-> FALSE, size |-> 0, count |-> 0,
                running |-> FALSE, remaining |-> 0]]
  /\ enabled = {}
  /\ priority \in Priorities
  /\ dicr = [force |-> FALSE, master |-> FALSE, enables |-> {}, flags |-> {}]
  /\ irq = FALSE
  /\ pending = FALSE /\ due = 0 /\ hold = 0
  /\ asking = {}
  /\ stores = 0

-----------------------------------------------------------------------------
(***************************************************************************)
(* The CPU.  An instruction runs with the clock where it was, the stall    *)
(* not yet paid, and then the clock moves by the stall and its cost.       *)
(***************************************************************************)

\* The event loop has run dry.
BetweenInstructions == pending => due > 0

\* The slot on a table where a deadline d cycles off is pending if p, once
\* the clock has moved past the stall and c cycles.
Elapse(p, d, c) ==
  /\ pending' = p
  /\ due' = IF p THEN d - (hold + c) ELSE 0
  /\ hold' = 0
  /\ asking' \in SUBSET Paced

\* Anything but a store to these registers.
Plain(c) ==
  /\ BetweenInstructions
  /\ Elapse(pending, due, c)
  /\ UNCHANGED <<registers, irq, stores>>

\* Software acknowledges the interrupt in I_STAT.
AckIrq(c) ==
  /\ BetweenInstructions
  /\ irq /\ irq' = FALSE
  /\ Elapse(pending, due, c)
  /\ UNCHANGED <<registers, stores>>

\* Mutant: the store leaves the controller asleep.
WakeNever(p, d, C, E) == FALSE

\* dma_wake, on the registers the store has left: the deadline is brought to
\* this cycle when some channel is ready and none is due by now.
Wake(p, d, C, E) == ~(p /\ d <= 0) /\ \E c \in Channels : ReadyIn(C, E, c)

\* A store to a DMA register (Bus::write_io): the registers take it, an edge
\* of the interrupt line goes to the interrupt controller, and the
\* controller looks again whichever register it was.
Store(c, C, E, P, d) ==
  /\ BetweenInstructions
  /\ MaxStores # -1 => stores < MaxStores
  /\ stores' = IF MaxStores # -1 THEN stores + 1 ELSE stores
  /\ chan' = C /\ enabled' = E /\ priority' = P /\ dicr' = d
  /\ irq' = Raised(d)
  /\ IF Wake(pending, due, C, E)
     THEN Elapse(TRUE, 0, c)
     ELSE Elapse(pending, due, c)

\* MADR, or a store that leaves everything as it was.
WriteMadr(c) == Store(c, chan, enabled, priority, dicr)

WriteBcr(c, ch, size, count) ==
  Store(c, [chan EXCEPT ![ch].size = size, ![ch].count = count],
        enabled, priority, dicr)

\* Mutant: clearing the enable bit does not call the transfer off.
ControlKeepsRunning(ch, old, enable, trigger, sync, chopping) ==
  LET kept == IF ch = OTC THEN [old EXCEPT !.enable = enable, !.trigger = trigger]
              ELSE [old EXCEPT !.enable = enable, !.trigger = trigger,
                               !.sync = sync, !.chopping = chopping]
  IN kept

\* A channel after a store to its CHCR.  The ordering table takes the start
\* bits alone; clearing the enable bit calls off a transfer halfway.
Control(ch, old, enable, trigger, sync, chopping) ==
  LET kept == IF ch = OTC THEN [old EXCEPT !.enable = enable, !.trigger = trigger]
              ELSE [old EXCEPT !.enable = enable, !.trigger = trigger,
                               !.sync = sync, !.chopping = chopping]
  IN IF enable THEN kept ELSE Idle(kept)

WriteChcr(c, ch, enable, trigger, sync, chopping) ==
  Store(c,
        [chan EXCEPT ![ch] = Control(ch, @, enable, trigger, sync, chopping)],
        enabled, priority, dicr)

WriteDpcr(c, E, P) == Store(c, chan, E, P, dicr)

\* Flags are acknowledged by writing a one to them.
WriteDicr(c, force, master, enables, acknowledged) ==
  Store(c, chan, enabled, priority,
        [force |-> force, master |-> master, enables |-> enables,
         flags |-> dicr.flags \ acknowledged])

CpuStep ==
  \E c \in CpuCycles :
    \/ Plain(c)
    \/ AckIrq(c)
    \/ WriteMadr(c)
    \/ \E ch \in Channels, size \in 0 .. MaxWords, count \in 0 .. MaxBlocks :
         WriteBcr(c, ch, size, count)
    \/ \E ch \in Channels, enable, trigger, chopping \in BOOLEAN, sync \in Syncs :
         WriteChcr(c, ch, enable, trigger, sync, chopping)
    \/ \E E \in SUBSET Channels, P \in Priorities : WriteDpcr(c, E, P)
    \/ \E force, master \in BOOLEAN, enables, acked \in SUBSET Channels :
         WriteDicr(c, force, master, enables, acked)

-----------------------------------------------------------------------------
(***************************************************************************)
(* dma_event.                                                              *)
(***************************************************************************)

TurnDue == pending /\ due <= 0

\* Nothing is armed: nothing to wake for.
TurnIdle ==
  /\ TurnDue
  /\ ~\E c \in Channels : Ready(c)
  /\ pending' = FALSE /\ due' = 0
  /\ UNCHANGED <<registers, irq, hold, asking, stores>>

\* Mutant: a controller nobody asks goes to sleep.
RetryNever == pending' = FALSE /\ due' = 0

\* Look again shortly.
Retry == UNCHANGED pending /\ due' = due + RetryCycles

\* Something is armed and no device asks.
TurnRetry ==
  /\ TurnDue
  /\ \E c \in Channels : Ready(c)
  /\ ~\E c \in Channels : Ready(c) /\ DeviceAsking(c)
  /\ Retry
  /\ UNCHANGED <<registers, irq, hold, asking, stores>>

\* arbitrate: c has the best priority of those asking, and of those as good
\* the highest number.
Wins(c) ==
  /\ Ready(c) /\ DeviceAsking(c)
  /\ \A o \in Channels : Ready(o) /\ DeviceAsking(o) =>
       priority[c] < priority[o] \/ (priority[c] = priority[o] /\ o <= c)

\* Mutant: a channel taken up already begins again.
BegunAgain(ch) ==
  [ch EXCEPT !.running = TRUE,
             !.remaining = CASE ch.sync = "Manual" -> Words(ch)
                             [] ch.sync = "Request" -> ch.count
                             [] ch.sync = "LinkedList" -> 1]

\* begin, for a channel not yet taken up.
Begun(ch) ==
  IF ch.running THEN ch
  ELSE [ch EXCEPT !.running = TRUE,
                  !.remaining = CASE ch.sync = "Manual" -> Words(ch)
                                  [] ch.sync = "Request" -> ch.count
                                  [] ch.sync = "LinkedList" -> 1]

\* What a turn makes of the channel, how long it holds the bus and how long
\* it leaves it after that.
Moved(ch, h, g) == [ch |-> ch, hold |-> h, gap |-> g]

\* step_manual.
StepManual(ch) ==
  LET words == IF ch.chopping THEN Min2(ch.remaining, ChopWords) ELSE ch.remaining
  IN {Moved([ch EXCEPT !.remaining = @ - words], words, Gap)}

\* Mutant: a count of nought is counted down from.
StepRequestWraps(ch) ==
  {Moved([ch EXCEPT !.remaining = @ - 1, !.count = ch.remaining - 1], Words(ch), Gap)}

\* step_request: a block count of nought asks for nothing.
StepRequest(ch) ==
  IF ch.remaining = 0 THEN {Moved(ch, 0, 0)}
  ELSE {Moved([ch EXCEPT !.remaining = @ - 1, !.count = ch.remaining - 1], Words(ch), Gap)}

\* step_linked_list: a slice of the list, which ends in it or does not.
StepLinkedList(ch) ==
  {Moved([ch EXCEPT !.remaining = 0], h, 0) : h \in ListHolds} \cup
  {Moved([ch EXCEPT !.remaining = 1], h, (h * 4) \div 3) : h \in ListHolds}

Step(ch) ==
  CASE ch.sync = "Manual" -> StepManual(ch)
    [] ch.sync = "Request" -> StepRequest(ch)
    [] ch.sync = "LinkedList" -> StepLinkedList(ch)

\* Mutant: the flag goes up whether or not its enable lets it.
CompletedAnyway(c) == [dicr EXCEPT !.flags = @ \cup {c}]

\* complete: the enable is what lets the flag be set.
Completed(c) ==
  IF c \in dicr.enables THEN [dicr EXCEPT !.flags = @ \cup {c}] ELSE dicr

\* The channel that wins takes the bus, moves a block and, when that was the
\* last of it, is done: its start bits clear and its interrupt is flagged.
TurnMove(c) ==
  /\ TurnDue /\ Wins(c)
  /\ \E m \in Step(Begun(chan[c])), b \in (IF c = GPU THEN Backlogs ELSE {0}) :
       /\ hold' = Max2(due + m.hold, 0)
       /\ due' = due + Max2(m.hold + m.gap + b, 1)
       /\ IF m.ch.remaining = 0
          THEN /\ chan' = [chan EXCEPT ![c] = Finished(m.ch)]
               /\ dicr' = Completed(c)
               /\ irq' = Raised(Completed(c))
          ELSE /\ chan' = [chan EXCEPT ![c] = m.ch]
               /\ UNCHANGED <<dicr, irq>>
  /\ UNCHANGED <<pending, enabled, priority, asking, stores>>

Turn ==
  \/ TurnIdle
  \/ TurnRetry
  \/ \E c \in Channels : TurnMove(c)

Next == CpuStep \/ Turn

Spec == Init /\ [][Next]_vars

\* The processor runs on and the event loop is run to its end after every
\* instruction; instructions that leave the controller alone are always
\* possible.
FairSpec == Spec /\ WF_vars(Turn) /\ WF_vars(\E c \in CpuCycles : Plain(c))

-----------------------------------------------------------------------------
(***************************************************************************)
(* Properties.                                                             *)
(***************************************************************************)

\* The type invariant.  `remaining` is unsigned in the code: a negative one
\* here is one wrapped round there.
TypeOK ==
  /\ chan \in [Channels -> Channel]
  /\ enabled \in SUBSET Channels
  /\ priority \in [Channels -> 0 .. 7]
  /\ dicr \in Dicr
  /\ irq \in BOOLEAN
  /\ pending \in BOOLEAN
  /\ due \in Int
  /\ hold \in Nat
  /\ asking \in SUBSET Paced
  /\ stores \in Nat

\* A channel that is armed and switched on is never forgotten: the scheduler
\* holds a turn for the controller, whichever register armed it and
\* whatever the controller was doing (dma_wake, and the rescheduling at the
\* end of dma_event, which only ever lapses with nothing armed).
ArmedIsScheduled == (\E c \in Channels : Ready(c)) => pending

\* A transfer is in progress exactly as long as something of it is left, and
\* only on a channel software sees as busy: neither finishing, nor calling
\* it off, nor changing the sync mode halfway leaves half a transfer behind.
TransferIsWhole ==
  \A c \in Channels :
    /\ chan[c].running <=> chan[c].remaining > 0
    /\ chan[c].running => chan[c].enable

\* It is the moment the line goes up that reaches the interrupt controller,
\* not the level, whichever of a transfer's end and a store to DICR it was
\* that raised it (dma.h on interrupt_active).
InterruptOnEdge ==
  [][ /\ (~Active /\ Active') => irq'
      /\ (~irq /\ irq') => (~Active /\ Active') ]_vars

\* A flag stands only for a transfer finished with its interrupt enabled, so
\* enabling a channel's interrupt never finds an old one waiting: a flag
\* that goes up was enabled before and is enabled still (complete).
FlagNeedsEnable ==
  [][ \A c \in dicr'.flags \ dicr.flags :
        c \in dicr.enables /\ c \in dicr'.enables ]_vars

\* Once software leaves the controller alone every transfer that is armed
\* comes to its end, behind whatever else wants the bus, when the devices
\* all come to ask and no list is followed for ever.
TransfersFinish ==
  <>[](asking = Paced /\ \A c \in Channels : Ready(c) => chan[c].sync # "LinkedList")
    => \A c \in Channels : Ready(c) ~> ~Ready(c)
=============================================================================
