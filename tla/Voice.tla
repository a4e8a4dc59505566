------------------------------- MODULE Voice --------------------------------
(***************************************************************************)
(* One voice of the SPU (src/spu.cpp): the walk through sample memory that *)
(* the flags of its blocks direct, at whatever pitch, and the envelope,    *)
(* while software keys it on and off and rewrites its registers and the    *)
(* memory it is playing from.                                              *)
(*                                                                         *)
(* A sample is its place in memory; what the ADPCM filter makes of it, the *)
(* interpolation and the volumes are not followed.  The envelope has the   *)
(* code's arithmetic on fewer bits.  The voices do not touch one another.  *)
(***************************************************************************)
EXTENDS Integers, SequencesExt

CONSTANTS
  Blocks,       \* the blocks of sample memory: RAM_SIZE
  Samples,      \* SAMPLES_PER_BLOCK
  Flags,        \* bound: what a block's flag byte may say
  PitchUnit,    \* PITCH_UNIT
  Pitches,      \* bound: the pitches software asks for
  EnvelopeMax,  \* ENVELOPE_MAX, one less than a power of two
  Knee,         \* where an exponential rise slows down: 0x6000
  SustainUnit,  \* 0x800
  ShiftBase,    \* the shift at which a step is a step a sample: 11
  Patches,      \* bound: what software writes to the two ADSR registers
  Levels,       \* bound: where software puts the envelope
  MaxTravel,    \* bound: how far the history of a note is kept, in pitch units
  MaxStores     \* bound: the stores software makes

Block == 0 .. Blocks - 1
Flag == {"end", "repeat", "start"}
Phase == {"Off", "Attack", "Decay", "Sustain", "Release"}
Rate == [shift : Nat, step : 0 .. 3, exponential : BOOLEAN]
Patch ==
  [attack : Rate, decay : Nat, sustainLevel : 0 .. 15, sustain : Rate,
   falling : BOOLEAN, release : Nat, dying : BOOLEAN]

ASSUME VoiceAssumption ==
  /\ Blocks \in Nat \ {0} /\ Samples \in Nat \ {0}
  /\ Flags \subseteq SUBSET Flag
  /\ PitchUnit \in Nat \ {0} /\ Pitches \subseteq 0 .. 4 * PitchUnit - 1
  /\ EnvelopeMax \in Nat /\ Knee \in 0 .. EnvelopeMax
  /\ SustainUnit \in Nat /\ ShiftBase \in Nat
  /\ Patches \subseteq Patch /\ Levels \subseteq 0 .. EnvelopeMax
  /\ MaxTravel \in Nat /\ MaxStores \in Nat

VARIABLES
  ram,      \* the flags of each block
  patch,    \* the ADSR registers
  pitch,
  voice,    \* Voice, with its bit of ENDX
  note,     \* history: the blocks of the note keyed on, unless software has
            \* rewritten them or its loop point, and how far it was played
  stores    \* the stores software has made

voiceVars == <<ram, patch, pitch, voice, note, stores>>

NoSample == <<Blocks, 0>>
Sample == Block \X (0 .. Samples - 1) \cup {NoSample}
Voice ==
  [phase : Phase, level : 0 .. EnvelopeMax, wait : Nat, address : Block,
   repeat : Block, flags : SUBSET Flag, index : 0 .. Samples,
   counter : 0 .. PitchUnit - 1, sample : Sample, previous : Sample,
   ended : BOOLEAN]
Quiet ==
  [phase |-> "Off", level |-> 0, wait |-> 0, address |-> 0, repeat |-> 0,
   flags |-> {}, index |-> 0, counter |-> 0, sample |-> NoSample,
   previous |-> NoSample, ended |-> FALSE]

VoiceInit ==
  /\ ram \in [Block -> Flags] /\ patch \in Patches /\ pitch \in Pitches
  /\ voice = Quiet
  /\ note = [path |-> <<>>, travel |-> 0]
  /\ stores = 0

-----------------------------------------------------------------------------
(* The walk through sample memory.                                         *)

\* decode_block: its flags are kept, and it may be where the loop comes back to.
Decode[v \in Voice] ==
  [v EXCEPT !.flags = ram[v.address],
            !.repeat = IF "start" \in ram[v.address] THEN v.address ELSE @]

\* next_block: on to the next, or back to the loop point, or to the end of a
\* sound that does not repeat.
NextBlock[v \in Voice] ==
  LET ends  == "end" \in v.flags
      stops == ends /\ "repeat" \notin v.flags
      moved == [v EXCEPT !.ended = @ \/ ends,
                         !.address = IF ends THEN v.repeat ELSE (@ + 1) % Blocks,
                         !.phase = IF stops THEN "Off" ELSE @,
                         !.level = IF stops THEN 0 ELSE @]
  IN IF moved.phase = "Off" THEN moved ELSE [Decode[moved] EXCEPT !.index = 0]

\* advance_voice.
Advance[v \in Voice] ==
  LET at == IF v.index >= Samples THEN NextBlock[v] ELSE v
  IN IF at.phase = "Off"
     THEN [at EXCEPT !.previous = v.sample, !.sample = NoSample]
     ELSE [at EXCEPT !.previous = v.sample, !.sample = <<at.address, at.index>>,
                     !.index = @ + 1]

\* advance_voice, so many times.
Advances(n, v) ==
  LET after[k \in 0 .. n] == IF k = 0 THEN v ELSE Advance[after[k - 1]]
  IN after[n]

\* Mutant: a tick goes one sample on at most.
PlayedOnce(v) ==
  LET total == v.counter + pitch
  IN Advances(IF total >= PitchUnit THEN 1 ELSE 0,
              [v EXCEPT !.counter = total % PitchUnit])

\* voice_output: as many samples on as the pitch has come to.
Played(v) ==
  LET total == v.counter + pitch
  IN Advances(total \div PitchUnit, [v EXCEPT !.counter = total % PitchUnit])

-----------------------------------------------------------------------------
(* The envelope.                                                           *)

Smaller(a, b) == IF a < b THEN a ELSE b
SustainLevel == Smaller((patch.sustainLevel + 1) * SustainUnit, EnvelopeMax)

\* The phase the level says the voice is in.
Settled(v) ==
  LET risen  == IF v.phase = "Attack" /\ v.level >= EnvelopeMax THEN "Decay"
                ELSE v.phase
      fallen == IF risen = "Decay" /\ v.level <= SustainLevel THEN "Sustain"
                ELSE risen
  IN IF fallen = "Release" /\ v.level <= 0 THEN "Off" ELSE fallen

\* The rate of a phase.
RateOf(phase) ==
  CASE phase = "Attack" ->
         [shift |-> patch.attack.shift, step |-> 7 - patch.attack.step,
          exponential |-> patch.attack.exponential]
    [] phase = "Decay" ->
         [shift |-> patch.decay, step |-> -8, exponential |-> TRUE]
    [] phase = "Sustain" ->
         [shift |-> patch.sustain.shift,
          step |-> IF patch.falling THEN patch.sustain.step - 8
                   ELSE 7 - patch.sustain.step,
          exponential |-> patch.sustain.exponential]
    [] phase = "Release" ->
         [shift |-> patch.release, step |-> -8, exponential |-> patch.dying]

\* Mutant: the falling step divided, which rounds it away near the bottom.
FractionDivided(step, level) == -((-step * level) \div (EnvelopeMax + 1))

\* The fraction of the level an exponential fall takes, rounded down.
Fraction(step, level) == (step * level) \div (EnvelopeMax + 1)

\* slope_of: how long to wait, and how far to go.
SlopeOf(rate, level) ==
  LET far  == IF rate.shift > ShiftBase THEN rate.step
              ELSE rate.step * 2 ^ (ShiftBase - rate.shift)
      slow == rate.exponential /\ far > 0 /\ level > Knee
  IN [wait |-> (IF rate.shift > ShiftBase THEN 2 ^ (rate.shift - ShiftBase) ELSE 1)
                 * (IF slow THEN 4 ELSE 1),
      step |-> IF rate.exponential /\ far < 0 THEN Fraction(far, level) ELSE far]

Clamped(level) ==
  IF level < 0 THEN 0 ELSE Smaller(level, EnvelopeMax)

\* step_envelope.
StepEnvelope[v \in Voice] ==
  IF v.wait > 0 THEN [v EXCEPT !.wait = @ - 1]
  ELSE LET phase == Settled(v)
           slope == SlopeOf(RateOf(phase), v.level)
       IN IF phase = "Off" THEN [v EXCEPT !.phase = phase]
          ELSE [v EXCEPT !.phase = phase, !.level = Clamped(@ + slope.step),
                         !.wait = slope.wait - 1]

-----------------------------------------------------------------------------
(* The note as its blocks have it, walked without the voice.               *)

\* The blocks played so far and the one after them, the loop point being the
\* last of them that says it is one, or the first of all.
Following[played \in Seq(Block) \ {<<>>}] ==
  LET last  == played[Len(played)]
      loops == {i \in DOMAIN played : "start" \in ram[played[i]]}
      after == IF "end" \notin ram[last] THEN (last + 1) % Blocks
               ELSE IF loops = {} THEN played[1]
               ELSE played[Max(loops)]
  IN Append(played, after)

\* The blocks of a note from b on, as many as the history is kept for.
Path(b) ==
  LET kept == MaxTravel \div (PitchUnit * Samples)
      path[n \in 0 .. kept] == IF n = 0 THEN <<b>> ELSE Following[path[n - 1]]
  IN path[kept]

-----------------------------------------------------------------------------
(* What happens.                                                           *)

\* A tick, as far as one voice goes: one that is off is passed over.
VoiceTick ==
  /\ IF voice.phase = "Off" THEN UNCHANGED <<voice, note>>
     ELSE /\ voice' = StepEnvelope[Played(voice)]
          /\ note' = [note EXCEPT !.travel = Smaller(@ + pitch, MaxTravel)]
  /\ UNCHANGED <<ram, patch, pitch, stores>>

Stores == stores < MaxStores /\ stores' = stores + 1

\* Mutant: the first sample is heard again.
StartedOver(b) ==
  [Decode[[Quiet EXCEPT !.phase = "Attack", !.address = b, !.repeat = b]]
     EXCEPT !.sample = <<b, 0>>]

\* start_voice: the first sample is ready at once.
Started(b) ==
  [Decode[[Quiet EXCEPT !.phase = "Attack", !.address = b, !.repeat = b]]
     EXCEPT !.sample = <<b, 0>>, !.index = 1]

KeyOn ==
  /\ Stores
  /\ \E b \in Block :
       /\ voice' = Started(b)
       /\ note' = [path |-> Path(b), travel |-> 0]
  /\ UNCHANGED <<ram, patch, pitch>>

\* stop_voice.
KeyOff ==
  /\ Stores
  /\ voice' = IF voice.phase = "Off" THEN voice
              ELSE [voice EXCEPT !.phase = "Release", !.wait = 0]
  /\ UNCHANGED <<ram, patch, pitch, note>>

\* The voice's other registers.
WriteRates ==
  /\ Stores /\ patch' \in Patches
  /\ UNCHANGED <<ram, pitch, voice, note>>
WritePitch ==
  /\ Stores /\ pitch' \in Pitches
  /\ UNCHANGED <<ram, patch, voice, note>>
WriteLevel ==
  /\ Stores
  /\ \E level \in Levels : voice' = [voice EXCEPT !.level = level]
  /\ UNCHANGED <<ram, patch, pitch, note>>
WriteRepeat ==
  /\ Stores
  /\ \E b \in Block : voice' = [voice EXCEPT !.repeat = b]
  /\ note' = [note EXCEPT !.path = <<>>]
  /\ UNCHANGED <<ram, patch, pitch>>

\* A transfer into sample memory, under the voice as it may be.
WriteSample ==
  /\ Stores
  /\ \E b \in Block, f \in Flags : ram' = [ram EXCEPT ![b] = f]
  /\ note' = [note EXCEPT !.path = <<>>]
  /\ UNCHANGED <<patch, pitch, voice>>

Software ==
  \/ KeyOn \/ KeyOff \/ WriteRates \/ WritePitch \/ WriteLevel \/ WriteRepeat
  \/ WriteSample

-----------------------------------------------------------------------------
(* What is checked.                                                        *)

\* How many of them are played in full: all up to a sound's end.
Stops(b) == "end" \in ram[b] /\ "repeat" \notin ram[b]
Place == note.travel \div PitchUnit
Nth(n) ==
  LET k == n \div Samples + 1
  IN IF n < 0 \/ \E i \in 1 .. k - 1 : Stops(note.path[i]) THEN NoSample
     ELSE <<note.path[k], n % Samples>>

\* However the pitch moves it on, the voice stands at the sample its travel has
\* brought it to, neither a sample heard twice nor one left out, over the ends
\* of blocks and round their loops; and ENDX, which software waits on, says that
\* the note's end was passed exactly when it was (voice_output, advance_voice,
\* next_block, start_voice).
NoteFollowed ==
  note.path # <<>> /\ note.travel < MaxTravel =>
    /\ voice.phase # "Off" =>
         /\ voice.sample = Nth(Place) /\ voice.sample # NoSample
         /\ voice.previous = Nth(Place - 1)
    /\ voice.ended <=>
         \E k \in 1 .. Place \div Samples : "end" \in ram[note.path[k]]

\* A note, once software leaves it alone, has come to its end or is held where
\* software means it to be held, whatever the rates: no rise stops short of the
\* top, and no fall of the level it falls to (slope_of, step_envelope).
NoteEnds == []<>(voice.phase \in {"Off", "Sustain"})
=============================================================================
