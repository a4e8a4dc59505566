------------------------------- MODULE Timers -------------------------------
(***************************************************************************)
(* A root counter (src/timers.cpp).  A counter is not stepped as time      *)
(* passes: it records the moment its value is correct as of, and is        *)
(* brought up to date in one go when software touches it and on a          *)
(* heartbeat.                                                              *)
(*                                                                         *)
(* Beside the counter of the code runs `exact`, the same counter brought   *)
(* up to date after every single cycle: what the code promises is that the *)
(* two cannot be told apart.  Which of the three counters it is is chosen  *)
(* at the start; they share nothing but the code.                          *)
(***************************************************************************)
EXTENDS Integers

CONSTANTS
  Wrap,           \* WRAP: the counter is counted modulo this
  Tick,           \* TICK_CYCLES, between two heartbeats
  Overshoot,      \* bound: how late an instruction may make a heartbeat
  Scanline,       \* CYCLES_PER_SCANLINE
  HblankWidths,   \* the values Gpu::hblank_cycles may be given
  LinesPerFrame, VisibleLines,
  Eighth,         \* the division of counter 2's slow clock (8)
  DotModes,       \* the values Gpu::dot_cycles may be given
  Indexes,        \* bound: the counters of the run
  Modes,          \* bound: the settings software writes to the mode register
  Targets,        \* bound: the targets it writes
  Values,         \* bound: the values it writes
  Horizon         \* bound: the run stops at this cycle

\* What a write to the mode register says.  sync is what its two bits hold,
\* synced whether they are heeded; fast means the CPU clock.
Setting ==
  [synced : BOOLEAN, sync : 0 .. 3, resets : BOOLEAN, onTarget : BOOLEAN,
   onWrap : BOOLEAN, repeats : BOOLEAN, fast : BOOLEAN]

ASSUME TimersAssumption ==
  /\ {Wrap, Tick, Scanline, Eighth} \subseteq Nat \ {0}
  /\ Overshoot \in Nat /\ Horizon \in Nat
  /\ HblankWidths \subseteq 0 .. Scanline
  /\ LinesPerFrame \in Nat /\ VisibleLines \in 1 .. LinesPerFrame - 1
  /\ DotModes \subseteq Nat \ {0} /\ Indexes \subseteq 0 .. 2
  /\ Modes \subseteq Setting
  /\ Targets \subseteq 0 .. Wrap - 1 /\ Values \subseteq 0 .. Wrap - 1

VARIABLES
  index,   \* which counter
  now,     \* the master clock
  beat,    \* when the next heartbeat is due
  dot,     \* Gpu::dot_cycles
  hblank,  \* Gpu::hblank_cycles
  timer,   \* the counter
  exact,   \* the same, brought up to date every cycle
  redrawn  \* history: software has changed the picture counter 0 goes by

timersVars == <<index, now, beat, dot, hblank, timer, exact, redrawn>>

\* A counter.  `line` is its bit of I_STAT, `raised` how often it has been
\* raised since the mode was written, counted up to two.
PoweredOn ==
  [value |-> 0, target |-> 0,
   mode |-> [synced |-> FALSE, sync |-> 0, resets |-> FALSE, onTarget |-> FALSE,
             onWrap |-> FALSE, repeats |-> FALSE, fast |-> TRUE],
   noInterrupt |-> FALSE, reachedTarget |-> FALSE, reachedWrap |-> FALSE,
   updated |-> 0, fired |-> FALSE, released |-> FALSE, raised |-> 0]

-----------------------------------------------------------------------------
\* clock_at: the counts the counter's clock has delivered by cycle `at`.
ClockAt(fast, at) ==
  IF fast THEN at
  ELSE CASE index = 0 -> (at * 11) \div (7 * dot)
         [] index = 1 -> at \div Scanline
         [] index = 2 -> at \div Eighth

\* blanking: the signal the counter watches.
Blank ==
  IF index = 0
  THEN [period |-> Scanline, begins |-> 0, ends |-> hblank]
  ELSE [period |-> Scanline * LinesPerFrame,
        begins |-> Scanline * VisibleLines, ends |-> Scanline * LinesPerFrame]

\* Mutant: a signal not asserted yet is taken for one past.
EdgeAfter(at) == (at - (at % Blank.period)) + Blank.period + Blank.begins

\* Where the signal next changes after `at`.
Edge(at) ==
  LET offset == at % Blank.period
      started == at - offset
  IN IF offset < Blank.begins THEN started + Blank.begins
     ELSE IF offset < Blank.ends THEN started + Blank.ends
     ELSE started + Blank.period + Blank.begins

Asserted(at) ==
  at % Blank.period >= Blank.begins /\ at % Blank.period < Blank.ends

\* What the sync setting does to a counter at a given moment: whether it is
\* clocked, and whether the signal's next change zeroes or frees it.
Free == [counting |-> TRUE, ends |-> FALSE, until |-> 0, zeroes |-> FALSE, frees |-> FALSE]
Gated(counting, at, zeroes, frees) ==
  [counting |-> counting, ends |-> TRUE, until |-> Edge(at), zeroes |-> zeroes,
   frees |-> frees]

\* gate_at.
GateAt(t, at) ==
  LET sync == t.mode.sync IN
  IF ~t.mode.synced \/ t.released THEN Free
  ELSE IF index = 2 THEN [Free EXCEPT !.counting = sync \in {1, 2}]
  ELSE CASE sync = 0 -> Gated(~Asserted(at), at, FALSE, FALSE)
         [] sync = 1 -> Gated(TRUE, at, ~Asserted(at), FALSE)
         [] sync = 2 -> Gated(Asserted(at), at, ~Asserted(at), FALSE)
         [] sync = 3 -> Gated(FALSE, at, FALSE, ~Asserted(at))

\* Mutant: the sum is not cut down to the counter's width.
ReducedWide(t, reached) ==
  IF t.mode.resets /\ t.target # 0 THEN reached % (t.target + 1) ELSE reached

\* The value a counter is left at once it has been clocked up to `reached`.
Reduced(t, reached) ==
  IF t.mode.resets /\ t.target # 0 THEN reached % (t.target + 1) ELSE reached % Wrap

\* Whether the counter is taken past its target on the way.
HitsTarget(t, reached) == t.value < t.target /\ reached >= t.target

\* A one-shot interrupt fires once until the mode is written again.
MayFire(t) == ~t.fired \/ t.mode.repeats

\* step: the counter clocked `counted` times in one go.
Step(t, counted) ==
  LET reached == t.value + counted
      hit == HitsTarget(t, reached)
      wrapped == reached >= Wrap
      wanted == (hit /\ t.mode.onTarget) \/ (wrapped /\ t.mode.onWrap)
      clocked == [t EXCEPT !.value = Reduced(t, reached),
                           !.reachedTarget = @ \/ hit,
                           !.reachedWrap = @ \/ wrapped]
  IN IF counted = 0 THEN t
     ELSE IF ~wanted \/ ~MayFire(t) THEN clocked
     ELSE [clocked EXCEPT !.fired = TRUE, !.noInterrupt = FALSE,
                          !.raised = IF @ < 2 THEN @ + 1 ELSE @]

\* One turn of advance's loop: up to `upTo` or to where the gate changes.
Stretch(t, upTo) ==
  LET gate == GateAt(t, t.updated)
      cut == gate.ends /\ gate.until <= upTo
      until == IF cut THEN gate.until ELSE upTo
      counted == IF gate.counting
                 THEN ClockAt(t.mode.fast, until) - ClockAt(t.mode.fast, t.updated)
                 ELSE 0
      stepped == [Step(t, counted) EXCEPT !.updated = until]
  IN [stepped EXCEPT !.value = IF cut /\ gate.zeroes THEN 0 ELSE @,
                     !.released = @ \/ (cut /\ gate.frees)]

\* advance, for one counter: a turn after the other until it is up to date, which
\* takes no more of them than there are cycles.
Advance(t, upTo) ==
  LET turns[n \in 0 .. upTo - t.updated] ==
        IF n = 0 THEN t
        ELSE IF turns[n - 1].updated >= upTo THEN turns[n - 1]
        ELSE Stretch(turns[n - 1], upTo)
  IN IF t.updated >= upTo THEN t ELSE turns[upTo - t.updated]

-----------------------------------------------------------------------------
TimersInit ==
  /\ index \in Indexes
  /\ now = 0 /\ beat = Tick
  /\ dot \in DotModes /\ hblank \in HblankWidths
  /\ timer = PoweredOn /\ exact = PoweredOn /\ redrawn = FALSE

\* A cycle goes by, and with the heartbeat overdue no more than it can be.
Cycle ==
  /\ now < Horizon /\ now < beat + Overshoot
  /\ now' = now + 1
  /\ exact' = Advance(exact, now + 1)
  /\ UNCHANGED <<index, beat, dot, hblank, timer, redrawn>>

\* The Timers event: the next is counted from the deadline.
Heartbeat ==
  /\ now >= beat
  /\ beat' = beat + Tick
  /\ timer' = Advance(timer, now)
  /\ UNCHANGED <<index, now, dot, hblank, exact, redrawn>>

\* An access: the counter is brought up to date and then both change.
Access(Change(_)) ==
  /\ timer' = Change(Advance(timer, now))
  /\ exact' = Change(exact)
  /\ UNCHANGED <<index, now, beat, dot, hblank, redrawn>>

\* Reading the value or the target.
Read == Access(LAMBDA t : t)

\* Reading the mode clears the two flags.
ReadMode ==
  Access(LAMBDA t : [t EXCEPT !.reachedTarget = FALSE, !.reachedWrap = FALSE,
                              !.noInterrupt = TRUE])

WriteValue(v) == Access(LAMBDA t : [t EXCEPT !.value = v])

WriteTarget(v) == Access(LAMBDA t : [t EXCEPT !.target = v])

\* Writing the mode restarts the counter.
WriteMode(m) ==
  Access(LAMBDA t : [t EXCEPT !.mode = m, !.noInterrupt = TRUE, !.value = 0,
                              !.reachedTarget = FALSE, !.reachedWrap = FALSE,
                              !.fired = FALSE, !.released = FALSE, !.raised = 0])

\* GP1(08h), the width of the picture and with it the dot clock, and
\* GP1(06h), the window and with it the blanking.  The counters are not told.  (Bound: followed for
\* counter 0 alone, no other looks at either.)
SetDisplayMode(d) ==
  /\ index = 0 /\ d # dot
  /\ dot' = d /\ redrawn' = TRUE
  /\ UNCHANGED <<index, now, beat, hblank, timer, exact>>

SetDisplayRange(h) ==
  /\ index = 0 /\ h # hblank
  /\ hblank' = h /\ redrawn' = TRUE
  /\ UNCHANGED <<index, now, beat, dot, timer, exact>>

TimersNext ==
  \/ Cycle
  \/ Heartbeat
  \/ Read
  \/ ReadMode
  \/ \E v \in Values : WriteValue(v)
  \/ \E v \in Targets : WriteTarget(v)
  \/ \E m \in Modes : WriteMode(m)
  \/ \E d \in DotModes : SetDisplayMode(d)
  \/ \E h \in HblankWidths : SetDisplayRange(h)

TimersSpec == TimersInit /\ [][TimersNext]_timersVars

-----------------------------------------------------------------------------
(***************************************************************************)
(* Properties.                                                             *)
(***************************************************************************)

\* The counter as software would find it now.
Found == Advance(timer, now)

\* The type invariant.
TimersTypeOK ==
  /\ index \in Indexes /\ dot \in DotModes /\ hblank \in HblankWidths
  /\ now \in 0 .. Horizon /\ beat \in Nat /\ redrawn \in BOOLEAN
  /\ \A t \in {timer, exact} :
       /\ t.value \in 0 .. Wrap - 1 /\ t.target \in 0 .. Wrap - 1
       /\ t.mode \in Setting
       /\ t.updated \in 0 .. now
       /\ t.raised \in 0 .. 2

\* A value software reads is always exact (timers.h), whenever it reads it
\* and whatever stretches of blanking went by unobserved: the counter worked
\* out in one go stands where the one counted cycle by cycle does, for as
\* long as software leaves the picture counter 0 goes by as it was.
ValueExact ==
  ~redrawn =>
  /\ exact.updated = now
  /\ Found.value = exact.value
  /\ Found.released = exact.released

\* The lazy counter never claims a target that was not reached, by the same
\* picture, nor interrupts for one (step, which works out from the two ends of
\* a span what was passed within it).
TargetNotInvented ==
  ~redrawn =>
    /\ Found.reachedTarget => exact.reachedTarget
    /\ ~Found.mode.onWrap /\ Found.raised > 0 => exact.raised > 0

\* What timers.h says of a value read, whatever becomes of the picture.
AlwaysExact == Found.value = exact.value

\* What scheduler.h says of the heartbeat: a target passed unread still
\* raises its interrupt, by the time the counter is next brought up to date.
TargetNoticed == timer.updated = now /\ exact.raised > 0 => timer.raised > 0
=============================================================================
