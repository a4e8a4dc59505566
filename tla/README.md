# wobble-psx in TLA+

A verification development of wobble-psx, a PlayStation emulator written in
C++ (`src/`).  The modules here are translated from the source of the machine
(`src/src/*.cpp`); the TLC configurations check them on small machines, and
the `*Proofs` modules prove what matters most of them with TLAPS for every
value of the constants.  Paths below are relative to the repository (`src/` is
its sources directory).

To check something: `tlc -workers 2 -config MCDma.cfg MCDma`, `tlapm
DmaProofs.tla`.

## The system

One thread runs the machine.  `Console::step` has the CPU retire an
instruction, moves the master clock by what it cost, and then dispatches every
event that has come due, oldest first, before the next.  The devices do not
run between events: a store to a register takes effect there and then, and
what must happen later is a slot in the scheduler's table.  What makes this
hard is not threads but time: several devices act on one clock, each lazily,
each with its own idea of when it was last looked at, and software may touch
any of them between any two events.

| Part | State it keeps | Operations | Interacts through |
|---|---|---|---|
| Scheduler (`scheduler`) | the clock, a deadline for each kind of event | `schedule_at/in`, `cancel`, `next_due` | the run loop, and every device that schedules |
| Run loop (`console`) | frames counted | `step`, `dispatch_due_events`, `reset`, `save_state`, `load_state` | calls each device's handler; the DMA hold stalls the CPU |
| CPU (`cpu`) | registers, two program counters, a load in its delay, COP0 | `step`, exceptions, interrupts | the bus; the interrupt controller |
| Bus (`bus`, `memctrl`) | RAM, ROM, `dma_hold_until`, wait states | loads and stores, dispatch to registers | everything |
| Interrupt controller (`irq`) | `I_STAT`, `I_MASK` | `raise`, `acknowledge`, `set_mask` | every device; the CPU samples it |
| DMA controller (`dma`) | seven channels, `DPCR`, `DICR`, what is left of each transfer | register stores, `dma_wake`, `dma_event` | scheduler, bus hold, interrupt controller, devices' readiness |
| CD-ROM drive (`cdrom`) | status, queue of answers, head, sector buffer, data FIFO, ring of decoded sound, lid | commands, acknowledgements, `tick`, lid opened and shut | heartbeat event, interrupt line, DMA, the mixer |
| Root counters (`timers`) | three counters, each correct as of a recorded moment | register accesses, `advance` | clock, heartbeat event, the picture's settings |
| Controller port (`sio`) | select line, exchange in progress, buttons, acknowledge | bytes exchanged, `deliver_acknowledge`, press and release | scheduler slot, interrupt line, the player |
| GPU (`gpu`, `raster`) | beam, command words, VRAM transfer, drawing backlog | GP0, GP1, `next_scanline` | Hblank event, DMA, counters |
| SPU (`spu`) | 24 voices, envelopes, IRQ address, transfer port | registers, `tick` | heartbeat event, DMA, drive's sound |
| MDEC (`mdec`) | command in progress, words left, output waiting | words in, words out, reset | two DMA channels |
| GTE (`gte`) | registers | commands | the CPU, stalls |
| Debugger, GDB stub (`debugger`, `gdbstub`) | breakpoints, watches, rewind, session | run, step, inspect, packets | the console, a socket |
| Discs, files (`disc`, `chd`, `archive`, `exe`, `disasm`) | an image | reading sectors, parsing | the drive, the loader |
| Host (`main`, `savestate`, `log`) | window, sound stream, files | frames, keys, saved states | the console |

What makes each correct, and what a test hardly reaches:

- **Scheduler and run loop.** Events fire in the order of their deadlines,
  heartbeats do not drift, nothing is overdue when an instruction runs, the
  loop in a step ends.  Hard: an instruction long enough for several events,
  ties, a store that brings an event to *now*, a reset or a loaded state
  between any two instructions.
- **CD-ROM.** The status byte, put together a bit at a time in a dozen places,
  never claims what is not so; answers wait for acknowledgements and are all
  given; an opened lid is noticed whatever else goes on.  Hard: answers of
  commands, sectors of a read and the lid's report share a queue of two.
- **DMA.** An armed channel always has a turn coming; a transfer is never left
  half done by being called off or reprogrammed; the interrupt line's edges,
  and nothing else, raise the interrupt.  Hard: software stores between any
  two blocks of a transfer.
- **Counters.** A value worked out in one go after any lapse of time is the
  value counting would have given.  Hard: gates that open, zero and free the
  counter in the middle of the lapse.
- **Port.** A driver reads the buttons as they stood, tells an empty socket,
  and never hangs.  Hard: exchanges given up, an acknowledge that comes late.
- **GPU.** GP0's words, which nothing frames but a count, are never taken for
  what they are not, whatever GP1 gives up in between; the palette a primitive
  is drawn with is the one it names; waiting for the GPU ends.
- **Rasteriser.** Pixels on a seam are drawn once; fixed-point planes and lines
  stay where exact arithmetic would have them; a copy over itself is right.
  Hard: it goes wrong for one slope in hundreds, by one pixel or one shade.
- **SPU.** A voice stands at the sample its pitch has brought it to, over the
  ends of blocks and round loops, as long as the note's samples and loop point are
  left alone; every note settles, whatever its registers are rewritten to; a disc's sound is heard in order, nothing twice.
- **MDEC.** What the decoder makes of a stream does not depend on how it was cut
  into words, bursts and commands; the two channels never wait for each other
  for ever.
- **CPU.** A program runs as though interrupts, delayed loads and the handler
  were not there.  Hard: an interrupt in a delay slot, behind a load, at a GTE
  command, together with a trap.

## The modules

| Module | Models | State, and what it is in the code |
|---|---|---|
| `Scheduler` | `scheduler.cpp` | `now`, `deadlines` of `Scheduler`; operators for `schedule_at`, `cancel`, `next_due` |
| `Console` | `console.cpp`, the parts of `bus`, `dma`, `gpu`, `irq` that keep time | `phase` (where in `step`), `hold` (`Bus::dma_hold_until`), `dmaReady` (some `channel_ready`), `scanline`, `frames`, `status` (`I_STAT`), `saved` (the last state file) |
| `CdRom` | `cdrom.cpp` | the members of `CdRom` by the same names, camel-cased |
| `Dma` | `dma.cpp` | `chan` (`channels`), `enabled` and `priority` (`DPCR`), `dicr`, `irq` (the bit of `I_STAT`), `pending` and `due` (the scheduler's slot), `hold`, `asking` (which devices want the bus) |
| `Timers` | `timers.cpp` | `timer` (one `Timers::Timer`), `beat` (the scheduler's slot), `dot` and `hblank` (what `gpu.cpp` derives from GP1), and `exact`, the reference |
| `Sio` | `sio.cpp` | `pad`, `control`, `received`, `interrupt`, `target`, `step`, `irq`, the slot |
| `PadDriver` | software that reads a pad (external) | `pc`, the `answers` it has, how often it `looks` |
| `Gpu` | `gpu.cpp`'s two ports, `hold_clut` of `raster.cpp` | `mode`, `op` and `words` (`gp0_mode`, the command words gathered), `transfer`, `palette` (`clut`, `clut_source`, `clut_entries`), `behind` (`busy_until` less now), `owed`, `fifo`; `sender`, software's own account of what it has to send |
| `Raster` | `raster.cpp`, `Gpu::draw_polygon` and its like | `vram`; `set` (draw area, mask setting, draw mode, window); `last`, the primitive drawn |
| `Mdec` | `mdec.cpp` and channels 0 and 1 of `dma.cpp` | the members of `Mdec` by shorter names; `inFirst` (`DPCR`), `channelIn` and `channelOut` (what the channels have left, and in what mode); `stream`, `decoded`, `shifted`, `careless`: what was sent, decoded and taken, and whether software took care |
| `Processor` | nothing: the abstract specification of a processor | one instruction after another |
| `Mips` | the instructions that `Cpu::execute` makes differ in their delays | |
| `Cpu` | `cpu.cpp` and the kernel's handler (external) | `pc`, `next` (`next_pc`), `branching`, `regs`, `load`, `epc`, `cause`, `sr`, and `line` (`Irq::active`) |
| `Voice` | a voice of `spu.cpp` | `voice` (`Spu::Voice` and its bit of `ended`), `ram` (the flags of blocks), `patch` and `pitch` (its registers), `note`, the reference |
| `SoundStream` | nothing: the abstract specification of a disc's sound | what waits, what is heard, what was made |
| `SoundPath` | the rings of `cdrom.cpp` and `spu.cpp`, the host | `audio`, `decoded`, `played`, `playing`, `dry`, `lastFrame`; `output`, `produced`, `taken` |
| `Spu` | the Spu event of `console.cpp` | `Voice` and `SoundPath` moved on together |
| `MCConsole`, `MCCdRom`, `MCDma`, `MCTimers`, `MCGpu`, `MCRaster`, `MCMdec`, `MCCpu`, `MCSpu` | definitions for TLC | |
| `ConsoleProofs`, `DmaProofs`, `CpuProofs`, `CdRomProofs`, `PadProofs` (of `Sio` and `PadDriver`), `GpuProofs` (of `Gpu`, and of `Timers`, which it clocks), `SoundProofs` (of `SoundPath` and `Voice` in `Spu`), `MdecProofs` (of `Mdec` and of `Raster`, the two that make pictures) | proofs | invariants stronger than those that are run |

`Console EXTENDS Scheduler`, `PadDriver EXTENDS Sio`, `Cpu` and `Processor EXTENDS
Mips`, `Spu EXTENDS Voice` and `SoundPath`; the MC and proof modules extend what
they are about.  Each device module carries its own slice of the
scheduler (its one slot, as cycles still to go), its bit of the interrupt
controller and the instructions of the CPU as far as they touch it, so each is
a closed system; `Console` has the whole table with every device's answer a
choice.

One action is one event handler, one register store (with the instruction it
belongs to and the clock moved by its cost), or one thing the host does.  An
instruction's store happens with the clock where it was; then the clock moves
by the stall and the cost, as in `Console::step`.  Operators named as a
*Mutant* in their comment are altered copies of the operator after them: a
plausible slip each, for showing that a property would notice.  They are used
by nothing.

### What is abstracted

- `CdRom`: bytes of answers and parameters; the volume matrix, the filter
  (what it decides is a choice), muting; the ADPCM decoder (a sector of sound
  is one unit of sound); the interrupt enable register.  There is a disc
  throughout.  The drive is not saved or loaded; a load leaves `shell_open` as the host
  has it (`visit_state`), so that the lid's bit and the lid may differ after one.
- `Dma`: words are counted and not moved.  Where a list ends, when a device
  asks, and how far behind the GPU is are choices.
- `Timers`: one counter at a time, as the three share only code.
- `Sio`: bytes are named by what the port makes of them.  A key the debugger's
  window is using goes no further than `handle_pad_key`, so that the port may keep a
  button nobody holds or miss one that is held: `pad` is what the port has, and what is
  promised is of that and not of fingers.  Loading a state is no action of `Sio` or
  `PadDriver`: it takes the port, its slot and the driver (which is in RAM) back
  together to where they were at the save, a state that is reachable already.
- `Gpu`: registers that are only echoed or only shape the picture; a word is
  counted and not held.  "clear" stands for GP0(01h) and for GP0(00h) alike: the
  code's no-operation falls through to the clearing of the cache.
- `Raster`: one colour channel for three; an indexed texel's palette (it is in
  `Gpu`); the texture window is one mask.  A textured primitive is not drawn over
  its own page.  The widths of fractions are constants that
  `RasterAssumption` relates to the size of VRAM, as lines need them to be; the
  code's values meet it.  Shades are promised only of triangles whose extents add up
  to less than half a plane's unit (`Small`; 2048 pixels in the code), which the code
  does not ask of polygons (it culls lines and not polygons).  A texture window
  does not leave its page at the foot of VRAM, as the code's 256 rows below a page
  at 0 or 256 do not.
- `Mdec`: levels, tables, the transform; a block is its place in the stream.  The
  channel in moves a word at a turn, the channel out a block (Request) or a burst, whole or
  chopped (Manual).  Software stops the channel in before it aborts, as its words
  would be taken for commands; an abort leaves the channel out armed.  The port is read
  only when there is a word to read.
- `Cpu`: the arithmetic, addresses' translation, caches, cycles, user mode, the
  coprocessors' enables.  Programs are *obedient* (`Mips`): they do not read a
  register behind its load, nor put a branch, a trap or a GTE command into a
  delay slot, as no compiler of the machine's does.
- `Voice`: the ADPCM filter, interpolation, volumes, noise; a sample is its place
  in memory.  The envelope has the code's arithmetic on fewer bits.
- `SoundPath`: a frame is its number; volumes and mixing are left out.  It ends where
  the host has collected a frame (`take_output`): `push_audio` drops what it has
  collected when SDL has too much queued, and that is behind the stream of
  `FramesInOrder`, not in it.
- `Console`: what a handler or a store does to its device; only what it schedules,
  raises and holds.

## The runs

Eleven passing runs.  Every property has a mutant that breaks it (`PROJECT.json`).

| Run | Question and answer |
|---|---|
| `MCConsole` | With instructions of 1 or 3 cycles, blocks that hold the bus for 0 or 2, resets, saves and loads between any two instructions: `OnRate`, `Chronological`, `NothingOverdue`, `BeamFollowsClock` (the scanline stepped by events is the one the counters divide out of the clock), and `DispatchAdvances` (each turn of the event loop puts one due slot strictly later, so the loop ends). |
| `MCCdRom` | Eight commands, three read modes, lid and reset at any moment: `StatusHonest`, `LidSeen`, `HeldUntilAcknowledged`. |
| `MCCdRomLive` | With eleven commands and the lid, under fairness: `LidReported`, `AnswersArrive`. |
| `MCDma` | The GPU's channel and the ordering table's, stores to any register at any moment: `ArmedIsScheduled`, `TransferIsWhole`, `InterruptOnEdge`, and under fairness `TransfersFinish`, chopped and competing transfers included. |
| `MCTimers` | Each counter, each sync setting on both clocks: `ValueExact`, `TargetNotInvented`. |
| `MCPadDriver` | A driver, keys pressed and let go between any two of its steps, and the port: `PadIsRead`, `SocketsToldApart`, `ExchangeShape`, and under fairness `ConversationsEnd`. |
| `MCGpu` | Software that feeds GP0 commands, images and polylines, collects readbacks, and through GP1 gives any of it up, saves and loads: `InStep` (what the GPU takes the next word for is what software sent it as), `PaletteWhole`, and under fairness `SyncReturns`. |
| `MCRaster` | Every triangle and convex quad on a small grid, lines of every slope, rectangles, fills and copies, in two drawing states: `SeamDrawnOnce` (against the top-left rule stated without edges), `ShadeInRange`, `LineExact` (against rounding), `SpriteIsQuad`, `CopyFaithful`. |
| `MCMdec` | Commands, words, tables and both channels in any order, ranked either way and called off anywhere, the port read between, aborts anywhere: `StreamFollowed` (against the stream read once from end to end), `BlocksTogether`, `NoZeroesTaken` (software asking for no more words in Manual mode than there are), and under fairness `NeitherStarves`. |
| `MCCpu` | Every obedient program of four instructions out of twelve, the interrupt line going up at any moment: `InterruptsUnseen` (`Cpu` implements `Processor`), `LoadDelay`, `InterruptsBackOn`. |
| `MCSpu` | A voice and whatever software does to it: `NoteFollowed` (against the note's blocks walked without the voice, until a sample of it or its loop point is rewritten) and under fairness `NoteEnds`; a disc's sound on its way out: `FramesInOrder` (`SoundPath` implements `SoundStream`). |

One run shows the code at odds with what it says of itself:

| Run | What TLC finds |
|---|---|
| `MCConsoleReset` | A block takes the bus; before its hold is over the console is reset.  The clock is back at 0 and `dma_hold_until` is not: the first instruction of the new machine is stalled.  (`console.h`: reset "Puts every part back to its power-on state".) |

### Divergences stated but not run

The modules state a few more sentences of the code's that its behaviour
refutes, under the comment "What ... says".  No run lists them; to see one,
name it as an INVARIANT (PROPERTY for `AcknowledgeMeansMore` and
`ButtonsStayPressed`) in a copy of the component's configuration.

- `SectorNotOverwritten` (`CdRom`): an INT1 is delivered, the queue is empty again,
  the next sector replaces the one in the buffer before software has collected it.
  (`cdrom.cpp`: a read "must not overwrite the sector it has not collected yet".)
  The check is on the queue, and the queue does not know what was collected.
- `StoppedDriveIsSilent` (`CdRom`): a read of sound, then SeekL: reading stops,
  `stop_audio` is not called, what was decoded goes on being heard.  (`cdrom.h`:
  "What a drive that has stopped reading owes the mixer is nothing".)
- `TargetNoticed` (`Timers`): the counter starts a lapse above its target, wraps,
  passes the target: no flag, no interrupt.  (`scheduler.h`: the heartbeat is there
  "so a target they pass unread still raises its interrupt on time".)
- `BeamAlwaysFollowsClock` (`Console`): GP1(00h) puts the beam back to the top
  and not the Hblank event; the counters' vertical blank and the GPU's then
  disagree for good.  `BeamFollowsClock` is what holds otherwise.
- `NoAnswerDropped` (`CdRom`): a sector waiting in the queue leaves room for one
  of a command's two answers.  `AnswersArrive` is of the commands that fitted.
- `BusyUntilAnswered`: delivering a sector's INT1 or the lid's report puts busy
  down with a command still unanswered.
- `ReadingSpinsMotor`: a read after Stop, or after the lid was shut again,
  reports reading with the motor off.
- `HeaderWasRead`: a sector of sound validates the header and leaves the buffer
  empty, so GetlocL may answer with an empty header.
- `PositionKnown`: a read after a failed seek leaves the seek error up.
- `AlwaysExact` (`Timers`): GP1(08h) changes the dot clock, GP1(06h) the blanking,
  without bringing counter 0 up to date, so the new rate is applied to time
  already past.  `ValueExact` is of a picture left alone.
- `EmptySocketSilent` (`PadDriver`): dropping the select line leaves the
  acknowledge scheduled; the conversation after next may take it for its own.
  `SocketsToldApart` excepts exactly that.
- `AcknowledgeMeansMore`, `ButtonsStayPressed` (`Sio`): an acknowledge delivered
  after the exchange is over; a port reset letting go of buttons nobody released.
- `PictureNeverShifted` (`Mdec`): a Manual transfer of more words than were made.
  (`dma.cpp`: "The decoder asks once it has a whole block to hand over", as a transfer
  that asks sooner would take zeroes; but in any mode other than Request it asks with
  one word.)  `NoZeroesTaken` is what holds: it takes software to ask for too much.

Two more, seen while modelling and not stated as formulas: a save state does not
carry `dma_hold_until`, so a loaded machine waits for the bus as the machine it
replaced would have; and a counter that resets at its target is flagged for a
wrap when its unreduced count would have carried it there (`timers.cpp`, `step`).
A store to a DMA register during a hold brings the next turn into the hold
(`dma_wake` does not look at it), which shortens the pacing and nothing else.

The formulas `TypeOK` of `CdRom`, `Sio`, `Gpu`, `Mdec`, `Cpu` and `Spu`, `TimersTypeOK`,
`RasterTypeOK`, `LidBitSticks`, `AnswersInOrder` and `LidTold` of `CdRom` and `FlagNeedsEnable` of
`Dma` hold and no run lists them.  They are proved instead.

Seen in the modules of this list, and not stated as formulas:

- GPU: a save state leaves the held palette's key out, and a reset keeps it, so
  the first primitive after either may be drawn with another picture's; a line or
  a transfer begun while a readback is still being collected gives the rest of
  the readback up without a word; GP0(1Fh) sets the GPU's interrupt flag and
  raises nothing; the mask bit of a texel is not copied to the pixel.
- MDEC: a change of depth in the middle of a macroblock emits blocks of both; END codes
  behind the last block stay in the input for the next command.
- CPU: `reset` leaves `jump_dest`, `bpc`, `bda`, `dcic`, `bdam` and `bpcm` as they
  were, where `cpu.h` speaks of the power-on state; with COP2 disabled, a GTE
  command with an interrupt pending raises two exceptions in one step.
- SPU: a DMA transfer that touches the armed address sets `irq_flag` and nothing
  looks at it until software stores to an SPU register, and any such store while
  the flag is up raises `I_STAT` again; `read_dma` does not compare the address at
  all; the tail of a stream shorter than `AUDIO_PRIME` is not heard until more
  comes.

### Bounds, and why they are enough

- `MCConsole`: periods of 1, 2, 1 and 3 cycles, so that instructions skip several
  events of one kind and two kinds are always tied; frames of three lines;
  the clock stops at 5, by when every kind has fired, all have coincided and a
  second frame is under way.  What it checks of the table is proved without the
  bounds.  Only the vertical blank's bit of `I_STAT` is followed, as no property
  looks at another.
- `MCCdRom`: delays keep the order of the real ones where it decides anything, a
  tick is less than a sector; a disc of one sector and addresses on it, at its
  end and beyond the seek limit.  `MCCdRomLive` leaves sound and modes out: they
  do not reach the queue.
- `MCDma`: the channel with a device and arbitration and the channel with neither,
  sizes 0 to 1, counts 0 to 1, all sync modes, chopping, three stores: an arming
  and two of a disarming, a change of mode or an acknowledgement after it.  What
  it checks of safety is proved without the bound.
- `MCTimers`: two bits wide, so that a lapse wraps; scanlines of 3 cycles, frames
  of 2 lines; heartbeats every 3 cycles and up to one late; 8 cycles.
- `MCGpu`: seven commands, one of each kind that reads its words or leaves the
  port differently; VRAM of four pixels, so that a transfer is one word or two,
  the size nought standing for all; two palettes; a backlog of one word or none.
- `MCRaster`: VRAM of eight by eight; polygons on a grid of four or five; fractions
  of 5 and 8 bits, the least that `RasterAssumption` takes for that size, so that
  rounding is as close to failing as it may be.
- `MCMdec`: blocks of three coefficients, two to a colour macroblock, commands of
  none to two words, counters of three bits; a command to decode begins with at most one
  block decoded since the last abort.  The channel out is armed for one or three blocks of
  two words, or for one or three words in bursts of two, so that a burst is whole, is
  cut short at the end, or is more than there is.
- `MCCpu`: a ring of four words has room for a branch, its slot, its target and a
  load before or after it; the interrupt may come at every one of them, again and
  again.
- `MCSpu`: two blocks of two samples with every flag that matters; pitches of one
  and a half and three and a half samples a tick, so that a tick crosses one end of
  a block or two; an envelope of four bits, in which a rounding that stops short
  is reached in a few steps; sectors of two frames in a ring of five, so that it
  wraps, runs full and runs dry; an output ring of two; two stores of software's,
  a key on and one thing more.
- `MCPadDriver`: two buttons, one in each of the two bytes; instructions
  of 1 or 2 cycles; an acknowledge after 8 cycles, later than the driver's next
  three instructions as in the real port, and a driver that looks often enough.

### Fairness

- `WF(Tick)` of the drive: its heartbeat reschedules itself from its own deadline
  and the event loop runs in every step (`DispatchAdvances`, `OnRate`).
- `WF(Acknowledges)`: software whose handler acknowledges the interrupts it is
  handed.  An assumption about software, not code; without it nothing is
  promised.  The live run also has software wait for the answers to one command
  before sending the next (`Patient`), as the comments of `cdrom.h` assume.
- `WF(Turn)` and `WF` of plain instructions in `Dma`: the processor runs on, and
  the event loop runs to its end after each.  In the live run all devices ask.
- `WF(Wait)` and `WF(EndSync)` in `Gpu`: the clock runs on, and software that spins on
  the status goes round its loop.  Software owes the GPU nothing else.
- `WF(Turn)` in `Mdec`: the controller's event comes back while a channel is armed.
  `NeitherStarves` makes one exception: software that ranks the channel in above the
  channel out and arms it again and again for ever may keep the channel out waiting, as
  the lower of two has no claim on the bus; nothing less than that may.
- `WF(Tick)` in `Spu`: its heartbeat, as the drive's.
- `WF(Drive)` and `WF(Deliver)` in `PadDriver`: likewise.  The driver is never
  obliged to give a conversation up.

## The proofs

`ConsoleProofs` proves, for all periods, costs, holds, horizons and hosts that
meet `ConsoleAssumption` and `NeverIsNever` (no timestamp within a period or a
hold of the horizon reaches NEVER, which is 2^64 - 1 in the code):

- `ConsoleTypeOK`, `ConsoleOnRate`, `ConsoleChronological`,
  `ConsoleNothingOverdue`: from one inductive invariant, `Inductive`.  It says
  that the heartbeats are on rate, that nothing is pending for a moment before
  the last event fired, and that between instructions nothing is due — and says
  all of that of the saved state too, without which a load would break it; a
  snapshot has nothing due because it is only taken between instructions.  The
  lemmas split the invariant into what an event can disturb (`Dispatched`) and
  the rest, and treat heartbeats, one-shot events and instructions once each.
- `ConsoleDispatchAdvances`: every turn of the event loop but its last moves one
  due slot strictly later and no other, and not the clock.  Termination follows:
  each of the six slots passes the clock after finitely many turns.

`DmaProofs` proves, for any set of channels, sizes, priorities and devices that
meets `DmaAssumption`: `DmaTypeOK` (the counts never go below nought),
`DmaArmedIsScheduled`, `DmaTransferIsWhole` from `Inductive == TypeOK /\
ArmedIsScheduled /\ TransferIsWhole`, and `DmaInterruptOnEdge` and
`DmaFlagNeedsEnable` as action properties.  `TransferIsWhole` is needed in the type's proof (a running transfer has
something left, so counting down from it does not wrap) and the type in the
others', so the three are proved together.

`CpuProofs` proves, for programs of any length over any registers and alphabet:
`CpuTyped` (`Inductive`: whatever is computed, linked or returned to is a word of the
program, and the counters go through the handler in order) and
`CpuInterruptsBackOn`.  The invariant has to say where the counters are in the
handler, as only the last instruction of it may leave, and that the mode pushed
was one with interrupts on, as the RFE pops it.  `CpuLoadDelay` follows from the type.

`CpuInterruptsUnseen` is the refinement: `Cpu`, with its delay slots, its pending
load, interrupts anywhere and the handler, implements `Processor`, which has none of
them, for every obedient program of any length.  The mapping is `At`, `Later` and
`Seen`: the instruction the program is at (in the handler, the one it will return
to), the one after it, and the registers with the pending load landed.  Each step of
`Cpu` is one step of `Processor` or a stutter (`StepUnseen`, with a lemma for each
kind of step).  The invariant it needs, `Unseen`, has three parts: `Ready`, what the
slot, the branch before it and the pending load mean between two instructions;
`Serving`, how far the handler has brought the return address it read; and `Again`,
that a branch waiting to be run again, as an interrupt took its slot, would be taken
as before and leave what it left.  It rests on `CpuAssumption`: the program's registers are neither
$zero, where an empty pending load points, nor $k0, which the kernel keeps for itself.

`CdRomProofs` proves, for any disc, delays and depth of queue: `CdRomTypeOK`,
`CdRomStatusHonest`, `CdRomLidSeen` and `CdRomOwing` (an answer promised to a
command is in the queue until it is given) from `Inductive == Queued /\ Driven`.
The two halves are proved apart, what is about answers and what is about the
drive, because the commands disturb them in different ways; `Fitting` says once what
appending to a full queue keeps.  Four action properties follow:
`CdRomHeldUntilAcknowledged`, `CdRomAnswersInOrder`, `CdRomLidBitSticks`,
`CdRomLidTold`.  The order is proved by comparing the queues before and after a
step from either end (`Turned`).

`MdecProofs` proves, for blocks of any size cut up in any way: `MdecTypeOK`,
`MdecStreamFollowed`, `MdecBlocksTogether`, `MdecNoZeroesTaken`, from `MdecInv`, which
has a conjunct for each: `Counts` (the counter, which wraps, is what software has
still to send), `Followed` (the codes waiting in the input are those of the block
under way, and `decode_block` run over them is where a single reading of the stream
is), `Assembled` (the macroblock under way holds the last blocks decoded and the
words that wait are of earlier ones), and `InPlace` (unless software was careless, no
zero has been taken and what a Manual transfer has left to move is there to be moved,
which is what chopping has to keep up: the last burst is cut to what is left).
`decode_block` runs over a sequence, so its
lemmas (`PlacesWork`, `PlacesPrefix`, `PlacesStay`) are proved by induction over its length;
`Induction` is that principle for a set, derived from the pigeonhole principle, as
the library's theorem takes an operator.

`PadProofs` proves of the port, whatever software does, `SioTypeOK` and
`SioExchangeShape`; that the driver is such software (`DriverIsSoftware`); and of the
driver, from `DriverInv`, `DriverReadsPad` and `DriverTellsSockets`.  The invariant
counts the bytes sent and ties to the count the step of the exchange, the answers
taken and the one that waits in the receive register (`WithPad`), and says of an
empty socket that the one acknowledge seen there is that of an exchange given up
(`WithNothing`).  `DriverTellsSockets` has two hypotheses.  `Slow` (two instructions take less
than an acknowledge) is why `sio.h` has the acknowledge come as an event; the
code's acknowledge takes 346 cycles at the least (`acknowledge_delay`), and an
instruction takes a few, unless a transfer by DMA stalls it: the hypothesis is of a
driver that does not run alongside a long one.  `Patient` is of the driver, which has to wait as
long as that.  `MCPadDriver` meets both.  `InTime` is what they add to the invariant.

`GpuProofs` proves, for any set of commands, palettes and depths and any VRAM:
`GpuTypeOK`, `GpuInStep`, `GpuPaletteWhole`.  `LengthOfOperands` is that `gp0_length`
counts what the drawing code reads, for commands of every shape.  `InStep` is not
inductive: the words go on being taken for what they are only if a transfer under
way has pixels left and an even number done, if words are gathered only where
commands are, and if nothing that would take the port is half sent while pixels are
read back.  `Place` says so.  `Holding` is what `hold_clut` leaves, from which
`PaletteWhole` follows.

`SoundProofs` proves `SpuFramesInOrder`, the refinement: with rings of any size,
sectors of any number of frames and a wrapping count of the output, `SoundPath`
implements `SoundStream` under the mapping of its two rings to sequences (`Waiting`,
`Made`).  Every action maps to a step of the stream (`PathIsStream`): decoding to
`Read`, a tick to `Sample`, the host's collecting to `Collect`.  The invariant is
`Rings` (neither ring's counters are further apart than it is long; `SpuRings`).  The
lemmas are about what a ring read as a sequence does when a slot is put, taken or
overrun (`RingAppend`, `RingHead`, `RingOverrun`), and about remainders, which the
solver does not find.  `RingWraps` is where the size of the output ring has to
divide the count's modulus, as 2^64 is divided by the code's.

`ConsoleBeamFollowsClock` is proved with `BeamInv`: the lines fired are so many whole
frames and a part of one, in which the vertical blank has begun or has not, in the
machine and in its saved state.

`GpuProofs` proves of the root counters, for any width, clocks and picture that meet
`TimersAssumption`: `TimersTyped`, `ValueIsExact` and `NoTargetInvented`.  The
invariant is `Abreast`: brought up to date now, the lazy counter would stand where the
one counted cycle by cycle stands, and claim no more than it (`Within`).  What has to be
shown is that it does not matter where a count is interrupted.  It is shown of one
reckoning (`StepSplit`: two steps make one, wraps, targets and all), of one turn of
the loop, in which the gate does not change (`StretchSplit`), and by induction over what
is left of the lapse of the loop (`AdvanceSplits`).  `AdvanceWorks` is that the
loop ends: each stretch ends at an edge later than where it began.  The properties are
of a picture left alone since the counter last ran; see `AlwaysExact` above.

`SoundProofs` also proves of a voice, for any memory, block, pitch and envelope:
`SpuNoteFollowed` and `SpuTyped`.  The invariant, `NoteKept`, is that the note's path is
one the blocks and their flags make (`Walked`) and that the voice is so far along it
(`Into`): its sample and the one before, the block it will go to next, the loop point the
code keeps as it goes, which is the last of the path's loop starts, and the fraction of
a sample it is into.  The lemmas advance the voice by one sample, inside a block, over
the end of one and round a loop; then by as many as a pitch comes to, by induction.

`MdecProofs` also proves, for a VRAM of any size and primitives of any shape that meet
`RasterAssumption`, all that is run of the rasteriser.  The invariant, `Drawn`, has
little to say (VRAM is what the primitive drawn last makes of what it found); the
proofs are of what a primitive makes of any VRAM.

- `RasterTyped`: every blend, tint, dither and texel ends as a level of five bits.
- `RasterCopyFaithful`: the rows of a copy, one after another, are one move
  (`RowsCopied`, by induction over the rows).  A row that the copy has not overtaken
  reads what was there; one it comes to again, all the way round VRAM, it writes as
  it did (`CopiedAgain`).
- `RasterLineExact`: a step rounded away from zero is less than a unit over for every
  step there is, so after n of them the walk is over by less than the nudge or
  than the least distance from the middle between two pixels, whatever the slope
  (`NudgedPlace`, `PlainPlace`): it rounds as the exact line does.
- `RasterShadeInRange`: a pixel that is drawn is a mean of the corners, with the three
  edge functions for weights (`Weights`), and so is a plane's exact value there
  (`Mean`); `plane_of`'s truncated steps are off by less than half a shade in a
  triangle that is `Small` (`Drift`, `DriftBound`), which the half unit at the
  anchor makes up for.  For lines the shade's truncated step never overshoots.
- `RasterSeamDrawnOnce`: `top_or_left` is the rule that the point drawn for is a
  hair right of the pixel's own and less than a hair below (`InsideIs`): moved so, the
  point is on no edge (`SideSign`).  A point strictly inside a triangle is what its
  three sides say (`TriangleCovers`); in a convex quad the diagonal's two sides
  divide the points inside it between the two triangles, and no point outside
  is in either (`Seam`, from the identity that weighs the four corners about a
  point).  `FlatPolygon` puts pixels to it.
- `RasterSpriteIsQuad`: a rectangle is cut in two by its diagonal (`Halves`), the edge
  rule leaving out the row and the column that `draw_rectangle` does not draw; where a
  plane's step is a whole number of texels nothing is lost (`PlaneExact`), so both
  look up the same texel (`CutTriangle`, `Sampled`).

The identities these rest on (products of differences of coordinates) are steps of
their own, over named integers, as the solver does not see them inside anything else.

Only model-checked: `LidReported`, `AnswersArrive`, `TransfersFinish`, `SyncReturns`,
`NeitherStarves`, `NoteEnds` and `ConversationsEnd`.  They are liveness under fairness,
which is out of the prover's reach.  Every safety property of a passing run is
proved.

## Not modelled, and why

The CPU's arithmetic, the GTE, the ADPCM filters, the mixer and the inverse cosine
transform are arithmetic on machine words, which tests reach and a model checker
does not.  Disc formats, archives, executables, the disassembler, logging and the
byte format of save states are parsing and formatting, and so is most of the
debugger and of the GDB stub, which drive the machine through `Console::step`.
The host's window and sound stream are calls into SDL.  Of the SPU, the IRQ
address; of the drive, its interrupt enable register.

## Plan

In this order, the most consequential first.  Modules get constants with named
assumptions and no recursive operators where proofs are meant.

1. The SPU's IRQ address, the drive's interrupt enable register and `I_MASK`, each
   composed with the interrupt controller: that no interrupt asked for is lost.
2. An abstract event calendar that `Console` implements; `Dma` as an implementation
   of `Console`'s DMA choices, which would join the two modules; the GPU's channel
   composed with `Gpu`.
3. `memctrl`'s wait states as an operator against a reference; the debugger's
   stops; the GDB stub's session; the GTE's division and saturation.
4. Proofs: of what 1 and 2 add; that `Console`'s event loop implements the calendar.
