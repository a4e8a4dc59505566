------------------------------ MODULE Console ------------------------------
(***************************************************************************)
(* The run loop of the console (src/console.cpp): the CPU retires one      *)
(* instruction, the clock moves by what it cost, and every event that has  *)
(* come due is dispatched, oldest first, before the next instruction.      *)
(*                                                                         *)
(* What is kept of the machine is its time: the clock, the event table,    *)
(* the beam position that vertical blank falls out of, the interrupt       *)
(* status register, how long the DMA controller keeps the bus, and what a  *)
(* save state carries of those.  The devices behind the events have        *)
(* modules of their own; here a device's answer to its event (whether the  *)
(* drive's tick raises an interrupt, how long a block holds the bus) is a  *)
(* choice among everything it may answer.                                  *)
(***************************************************************************)
EXTENDS Scheduler

CONSTANTS
  Period,         \* Period[k]: cycles between two events of a periodic kind
  LinesPerFrame,  \* Gpu::SCANLINES_PER_FRAME
  VisibleLines,   \* Gpu::VISIBLE_SCANLINES
  CpuCycles,      \* what an instruction may cost, stalls on DMA aside
  DmaHolds,       \* how long a block may keep the bus
  DmaGaps,        \* how long a block may make the next one wait after that
  RetryCycles,    \* RETRY_CYCLES of dma.cpp
  AckDelays,      \* what Sio::acknowledge_delay may return
  HostOps,        \* which of "reset", "save", "load" the host performs
  Watched         \* bound: the interrupt lines whose pending bit is followed

\* The kinds that ask for their next occurrence as they fire.
Periodic == {"Hblank", "CdRom", "Timers", "Spu"}

\* The interrupt lines the events can raise; "Timer" stands for the three.
Line == {"VBlank", "CdRom", "Dma", "Timer", "Controller", "Spu"}

ASSUME ConsoleAssumption ==
  /\ Horizon \in Nat
  /\ Period \in [Periodic -> Nat \ {0}]
  /\ LinesPerFrame \in Nat /\ VisibleLines \in Nat
  /\ 0 < VisibleLines /\ VisibleLines < LinesPerFrame
  /\ CpuCycles \subseteq Nat \ {0}
  /\ DmaHolds \subseteq Nat /\ DmaGaps \subseteq Nat
  /\ RetryCycles \in Nat \ {0}
  /\ AckDelays \subseteq Nat \ {0}
  /\ NEVER \in Nat
  /\ Watched \subseteq Line

\* NEVER is out of the reach of anything scheduled before the horizon.
ASSUME NeverIsNever ==
  /\ Horizon < NEVER
  /\ \A k \in Periodic : Horizon + Period[k] < NEVER
  /\ \A h \in DmaHolds, g \in DmaGaps : Horizon + h + g + 1 < NEVER
  /\ Horizon + RetryCycles < NEVER
  /\ \A a \in AckDelays : Horizon + a < NEVER

VARIABLES
  phase,       \* "cpu": between instructions; "dispatch": in the event loop
  hold,        \* Bus::dma_hold_until
  dmaReady,    \* whether some DMA channel is armed (Dma::channel_ready)
  scanline,    \* Gpu::scanline
  frames,      \* Console::frames
  status,      \* I_STAT, as the set of watched lines pending
  saved,       \* the last state written by save_state
  fired,       \* history: how often each periodic kind has fired
  lastFired,   \* history: the deadline of the last event dispatched
  beamMoved    \* history: GP1(00h) has put the beam back to the top

clock == <<now, deadlines>>
history == <<fired, lastFired, beamMoved>>
vars == <<clock, phase, hold, dmaReady, scanline, frames, status, saved,
          history>>

\* The cycles the next instruction waits for the bus.
DmaStall == IF now >= hold THEN 0 ELSE hold - now

-----------------------------------------------------------------------------
\* The table reset() leaves: everything empty, then one schedule_in each for
\* the four kinds that repeat, counted from a clock put back to zero.
PowerOnDeadlines ==
  [k \in Kind |-> IF k \in Periodic THEN Period[k] ELSE NEVER]

\* What save_state writes, of what is modelled here: not dma_hold_until, which
\* the bus does not visit.  The history variables go with the clock they tell of.
Snapshot ==
  [now |-> now, deadlines |-> deadlines, dmaReady |-> dmaReady,
   scanline |-> scanline, frames |-> frames, status |-> status,
   fired |-> fired, lastFired |-> lastFired, beamMoved |-> beamMoved]

PowerOn ==
  [now |-> 0, deadlines |-> PowerOnDeadlines, dmaReady |-> FALSE,
   scanline |-> 0, frames |-> 0, status |-> {},
   fired |-> [k \in Periodic |-> 0], lastFired |-> 0, beamMoved |-> FALSE]

\* The machine just built and reset, and a state file saved at that moment.
Init ==
  /\ now = 0 /\ deadlines = PowerOnDeadlines
  /\ phase = "cpu"
  /\ hold = 0
  /\ dmaReady = FALSE
  /\ scanline = 0 /\ frames = 0
  /\ status = {}
  /\ fired = [k \in Periodic |-> 0] /\ lastFired = 0
  /\ beamMoved = FALSE
  /\ saved = PowerOn

-----------------------------------------------------------------------------
(***************************************************************************)
(* Console::step, first half: the instruction runs with the clock where it *)
(* was, and then the clock moves by the stall and the instruction's cost.  *)
(***************************************************************************)

\* The end of an instruction that cost c cycles beyond its stall.
Retire(c) ==
  /\ phase = "cpu"
  /\ now + DmaStall + c <= Horizon
  /\ now' = now + DmaStall + c
  /\ phase' = "dispatch"
  /\ UNCHANGED <<hold, frames, saved, fired, lastFired>>

\* An instruction that touches none of the devices modelled here.
Plain(c) ==
  /\ Retire(c)
  /\ UNCHANGED <<deadlines, dmaReady, scanline, status, beamMoved>>

\* Irq::raise for each line of S: it latches, masked or not.
Raised(S) == status' = status \cup (S \cap Watched)

\* A store to a DMA register: it may arm or disarm channels, or raise the
\* interrupt as one to DICR may, and dma_wake then brings the controller's event
\* to this very cycle when a channel is ready and none is due already.
WriteDma(c, ready) ==
  /\ Retire(c)
  /\ dmaReady' = ready
  /\ deadlines' = IF ready /\ deadlines["Dma"] > now
                  THEN ScheduledAt(deadlines, "Dma", now)
                  ELSE deadlines
  /\ \E S \in {{}, {"Dma"}} : Raised(S)
  /\ UNCHANGED <<scanline, beamMoved>>

\* A store to I_STAT keeps the lines it has a one for.
WriteIStat(c, kept) ==
  /\ Retire(c)
  /\ status' = status \cap kept
  /\ UNCHANGED <<deadlines, dmaReady, scanline, beamMoved>>

\* A byte sent to the controller port that its device will acknowledge.  The
\* slot is overwritten, a pending acknowledge and all.
SendByte(c, delay) ==
  /\ Retire(c)
  /\ deadlines' = ScheduledAt(deadlines, "Sio", now + delay)
  /\ UNCHANGED <<dmaReady, scanline, status, beamMoved>>

\* GP1(00h): the GPU is reset from software, its scanline with it.
WriteGp1Reset(c) ==
  /\ Retire(c)
  /\ scanline' = 0
  /\ beamMoved' = TRUE
  /\ UNCHANGED <<deadlines, dmaReady, status>>

CpuStep ==
  \E c \in CpuCycles :
    \/ Plain(c)
    \/ \E ready \in BOOLEAN : WriteDma(c, ready)
    \/ \E line \in Watched : WriteIStat(c, Line \ {line})
    \/ \E delay \in AckDelays : SendByte(c, delay)
    \/ WriteGp1Reset(c)

-----------------------------------------------------------------------------
(***************************************************************************)
(* Console::step, second half: dispatch_due_events, one event to an action.*)
(***************************************************************************)

\* next_due has handed over the event of kind k: its slot is empty.
Fires(k) ==
  /\ phase = "dispatch"
  /\ NextDue(k)
  /\ lastFired' = deadlines[k]
  /\ UNCHANGED <<now, phase, saved, beamMoved>>

\* Mutant: the next occurrence is counted from the clock.
RepeatsFromNow(k) ==
  /\ deadlines' = ScheduledAt(deadlines, k, now + Period[k])
  /\ fired' = [fired EXCEPT ![k] = @ + 1]

\* A periodic event asks for its next occurrence, counted from the deadline
\* it fired for and not from the clock.
Repeats(k) ==
  /\ deadlines' = ScheduledAt(deadlines, k, deadlines[k] + Period[k])
  /\ fired' = [fired EXCEPT ![k] = @ + 1]

\* Mutant: the frame is one line too long.
NextScanlineLate ==
  scanline' = IF scanline + 1 > LinesPerFrame THEN 0 ELSE scanline + 1

\* Gpu::next_scanline.
NextScanline ==
  scanline' = IF scanline + 1 >= LinesPerFrame THEN 0 ELSE scanline + 1

VBlankBegins == scanline + 1 = VisibleLines

Hblank ==
  /\ Fires("Hblank")
  /\ NextScanline
  /\ frames' = IF VBlankBegins THEN frames + 1 ELSE frames
  /\ Raised(IF VBlankBegins THEN {"VBlank"} ELSE {})
  /\ Repeats("Hblank")
  /\ UNCHANGED <<hold, dmaReady>>

\* The drive, the sound processor and the root counters: a heartbeat each,
\* at which the device may or may not raise its line.
Heartbeat(k, line) ==
  /\ Fires(k)
  /\ \E S \in {{}, {line}} : Raised(S)
  /\ Repeats(k)
  /\ UNCHANGED <<hold, dmaReady, scanline, frames>>

\* The controller's acknowledge.  Not repeated.
Sio ==
  /\ Fires("Sio")
  /\ \E S \in {{}, {"Controller"}} : Raised(S)
  /\ deadlines' = Cleared(deadlines, "Sio")
  /\ UNCHANGED <<hold, dmaReady, scanline, frames, fired>>

\* dma_event, no channel armed: nothing to wake for.
DmaIdle ==
  /\ Fires("Dma")
  /\ ~dmaReady
  /\ deadlines' = Cleared(deadlines, "Dma")
  /\ UNCHANGED <<hold, dmaReady, scanline, frames, status, fired>>

\* dma_event, channels armed but no device asking: look again shortly.
DmaRetry ==
  /\ Fires("Dma")
  /\ dmaReady
  /\ deadlines' = ScheduledAt(deadlines, "Dma", deadlines["Dma"] + RetryCycles)
  /\ UNCHANGED <<hold, dmaReady, scanline, frames, status, fired>>

\* Mutant: a block that costs nothing asks for the same cycle again.
SpentNothing(h, g) == h + g

\* The clocks between one turn of the controller and the next, never zero.
Spent(h, g) == IF h + g = 0 THEN 1 ELSE h + g

\* dma_event, a block moved: the bus is kept for h cycles from the deadline,
\* and the next turn is for when the block and its gap have been paid for,
\* whether or not a channel is still armed.
DmaBlock ==
  /\ Fires("Dma")
  /\ dmaReady
  /\ \E h \in DmaHolds, g \in DmaGaps :
       /\ hold' = deadlines["Dma"] + h
       /\ deadlines' =
            ScheduledAt(deadlines, "Dma", deadlines["Dma"] + Spent(h, g))
  /\ dmaReady' \in BOOLEAN
  /\ \E S \in {{}, {"Dma"}} : Raised(S)
  /\ UNCHANGED <<scanline, frames, fired>>

\* No event is due: the loop ends and the next instruction may run.
Drained ==
  /\ phase = "dispatch"
  /\ Due = {}
  /\ phase' = "cpu"
  /\ UNCHANGED <<clock, hold, dmaReady, scanline, frames, status, saved,
                 history>>

Dispatch ==
  \/ Hblank
  \/ Heartbeat("CdRom", "CdRom")
  \/ Heartbeat("Timers", "Timer")
  \/ Heartbeat("Spu", "Spu")
  \/ Sio
  \/ DmaIdle
  \/ DmaRetry
  \/ DmaBlock
  \/ Drained

-----------------------------------------------------------------------------
(***************************************************************************)
(* What the host does between two instructions.                            *)
(***************************************************************************)

\* Console::reset.  Every part is reset but the bus itself, so
\* dma_hold_until keeps the value it had on the clock just discarded.
Reset ==
  /\ "reset" \in HostOps
  /\ phase = "cpu"
  /\ now' = 0 /\ deadlines' = PowerOnDeadlines
  /\ dmaReady' = FALSE
  /\ scanline' = 0 /\ frames' = 0
  /\ status' = {}
  /\ fired' = [k \in Periodic |-> 0] /\ lastFired' = 0
  /\ beamMoved' = FALSE
  /\ UNCHANGED <<phase, hold, saved>>

\* Console::save_state.
Save ==
  /\ "save" \in HostOps
  /\ phase = "cpu"
  /\ saved' = Snapshot
  /\ UNCHANGED <<clock, phase, hold, dmaReady, scanline, frames, status,
                 history>>

\* Console::load_state of a complete state: what it carries is put back,
\* dma_hold_until is left as it was.
Load ==
  /\ "load" \in HostOps
  /\ phase = "cpu"
  /\ now' = saved.now /\ deadlines' = saved.deadlines
  /\ dmaReady' = saved.dmaReady
  /\ scanline' = saved.scanline /\ frames' = saved.frames
  /\ status' = saved.status
  /\ fired' = saved.fired /\ lastFired' = saved.lastFired
  /\ beamMoved' = saved.beamMoved
  /\ UNCHANGED <<phase, hold, saved>>

Next == CpuStep \/ Dispatch \/ Reset \/ Save \/ Load

Spec == Init /\ [][Next]_vars

-----------------------------------------------------------------------------
(***************************************************************************)
(* Properties.                                                             *)
(***************************************************************************)

\* The type invariant.
TypeOK ==
  /\ now \in 0 .. Horizon
  /\ deadlines \in [Kind -> Timestamp]
  /\ phase \in {"cpu", "dispatch"}
  /\ hold \in Nat
  /\ dmaReady \in BOOLEAN
  /\ scanline \in 0 .. LinesPerFrame - 1
  /\ frames \in Nat
  /\ status \in SUBSET Watched
  /\ fired \in [Periodic -> Nat]
  /\ lastFired \in Nat
  /\ beamMoved \in BOOLEAN

\* Every heartbeat stays exactly on rate, whatever the instructions overshoot
\* and however long the bus stalls them: the event pending is the one after
\* those that fired, none is ahead of the clock, and between instructions
\* none is behind it.  (scheduler.h: an event that counted from `now` would
\* slowly drift late.)
OnRate ==
  \A k \in Periodic :
    /\ deadlines[k] = (fired[k] + 1) * Period[k]
    /\ fired[k] * Period[k] <= now
    /\ phase = "cpu" => now < deadlines[k]

\* Events fire in chronological order over the whole run, across devices and
\* across instructions: nothing is ever pending for a moment before one that
\* has been dispatched, the DMA event an instruction brings forward included.
Chronological ==
  /\ lastFired <= now
  /\ \A k \in Kind : lastFired <= deadlines[k]

\* An instruction only runs once everything due before it has been
\* dispatched, what the last instruction scheduled for "now" included.
NothingOverdue == phase = "cpu" => \A k \in Kind : now < deadlines[k]

\* The beam the GPU steps line by line is where the root counters work it
\* out to be from the clock (blanking() of timers.cpp), and frames counts
\* the vertical blanks begun, as long as software leaves the GPU running.
BeamFollowsClock ==
  phase = "cpu" /\ ~beamMoved =>
    LET line == now \div Period["Hblank"] IN
    /\ scanline = line % LinesPerFrame
    /\ frames = (line + LinesPerFrame - VisibleLines) \div LinesPerFrame

\* A turn of the event loop that is not its last takes one event that is due,
\* leaves the clock alone, puts that event's own slot strictly later and moves
\* no other.
DispatchMovesOn ==
  phase = "dispatch" /\ phase' = "dispatch" =>
    /\ now' = now
    /\ \E k \in Due :
         /\ deadlines'[k] > deadlines[k]
         /\ \A j \in Kind \ {k} : deadlines'[j] = deadlines[j]

\* The event loop inside step() always runs dry: every turn of it moves on,
\* whatever the event's handler asks for next, so nothing due is dispatched
\* twice for one moment (the DMA turn that transferred nothing included:
\* dma_event, "Always strictly later").
DispatchAdvances == [][DispatchMovesOn]_vars

\* What timers.cpp says of the two signals, with no condition on what
\* software does to the GPU: frames begin on multiples of a frame's cycles.
BeamAlwaysFollowsClock ==
  phase = "cpu" =>
    LET frame == Period["Hblank"] * LinesPerFrame
        picture == Period["Hblank"] * VisibleLines
    IN (scanline >= VisibleLines) <=> (now % frame >= picture)

\* What console.h says of reset: every part is back at its power-on state,
\* where no transfer has the bus and the first instruction does not wait.
ResetIsPowerOn == now = 0 => DmaStall = 0
=============================================================================
