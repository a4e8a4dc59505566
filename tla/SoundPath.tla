----------------------------- MODULE SoundPath ------------------------------
(***************************************************************************)
(* The way of a disc's sound out of the machine: the drive's ring of       *)
(* decoded frames (queue_audio, take_audio and stop_audio in               *)
(* src/cdrom.cpp), the SPU's input and its ring of finished ones           *)
(* (push_output and take_output in src/spu.cpp), and the host.             *)
(*                                                                         *)
(* A frame is its number in the order they are decoded in, Silence none;   *)
(* a sector's are all decoded at once.  Volumes and mixing are not         *)
(* followed: what a tick makes is the drive's frame, or silence.           *)
(***************************************************************************)
EXTENDS Integers, Sequences

CONSTANTS
  SectorFrames,   \* AUDIO_SECTOR_SAMPLES
  AudioCapacity,  \* AUDIO_CAPACITY
  AudioPrime,     \* AUDIO_PRIME
  AudioHold,      \* AUDIO_HOLD
  OutputFrames,   \* OUTPUT_FRAMES
  CountMod,       \* 2^64, the width of produced and taken
  Batches,        \* bound: how many frames the host asks for
  MaxSectors      \* bound: the sectors read

ASSUME SoundPathAssumption ==
  /\ SectorFrames \in Nat \ {0} /\ AudioCapacity \in Nat \ {0}
  /\ AudioPrime \in 1 .. AudioCapacity /\ AudioHold \in Nat
  /\ OutputFrames \in Nat \ {0} /\ CountMod \in Nat
  /\ CountMod % OutputFrames = 0 /\ CountMod > OutputFrames + 1
  /\ Batches \subseteq Nat \ {0} /\ MaxSectors \in Nat

VARIABLES
  audio, decoded, played,    \* the drive's ring
  playing, dry, lastFrame,
  mutedDrive,                \* muted or xa_muted
  output, produced, taken,   \* the SPU's ring
  sounds                     \* history: the frames decoded

ring == <<audio, decoded, played>>
drive == <<ring, playing, dry, lastFrame, mutedDrive>>
finished == <<output, produced, taken>>
pathVars == <<drive, finished, sounds>>

Silence == 0

PathInit ==
  /\ audio = [i \in 0 .. AudioCapacity - 1 |-> Silence]
  /\ decoded = 0 /\ played = 0
  /\ playing = FALSE /\ dry = 0 /\ lastFrame = Silence
  /\ mutedDrive = FALSE
  /\ output = [i \in 0 .. OutputFrames - 1 |-> Silence]
  /\ produced = 0 /\ taken = 0
  /\ sounds = 0

-----------------------------------------------------------------------------
(* The drive.                                                              *)

\* Mutant: a full ring goes on being filled.
KeptAll == SectorFrames

\* queue_audio drops what will not fit.
Kept ==
  LET room == AudioCapacity - (decoded - played)
  IN IF SectorFrames < room THEN SectorFrames ELSE room

\* A sector of sound is decoded, a frame after the other queued.
DecodeSector ==
  /\ sounds < MaxSectors * SectorFrames
  /\ audio' = [i \in DOMAIN audio |->
                 LET n == (i - decoded) % AudioCapacity
                 IN IF n < Kept THEN sounds + n + 1 ELSE audio[i]]
  /\ decoded' = decoded + Kept
  /\ sounds' = sounds + SectorFrames
  /\ UNCHANGED <<played, playing, dry, lastFrame, mutedDrive, finished>>

\* Mutant: the ring is emptied and the drive goes on playing it.
StopAudioPlaying ==
  /\ decoded' = 0 /\ played' = 0 /\ dry' = 0 /\ lastFrame' = Silence
  /\ UNCHANGED <<audio, playing>>

\* stop_audio: what is in the ring stays there, out of reach.
StopAudio ==
  /\ decoded' = 0 /\ played' = 0
  /\ playing' = FALSE /\ dry' = 0 /\ lastFrame' = Silence
  /\ UNCHANGED audio

StopSound == StopAudio /\ UNCHANGED <<mutedDrive, finished, sounds>>

\* Mute and Demute, and the mute of compressed sound.
MuteDrive ==
  /\ mutedDrive' \in BOOLEAN
  /\ UNCHANGED <<ring, playing, dry, lastFrame, finished, sounds>>

-----------------------------------------------------------------------------
(* The mixer.                                                              *)

\* Mutant: the frames lost are the newest.
PushedNewest(frame) ==
  IF (produced - taken) % CountMod >= OutputFrames THEN UNCHANGED finished
  ELSE /\ output' = [output EXCEPT ![produced % OutputFrames] = frame]
       /\ produced' = (produced + 1) % CountMod
       /\ UNCHANGED taken

\* push_output: a host that does not collect loses the oldest.
Pushed(frame) ==
  /\ output' = [output EXCEPT ![produced % OutputFrames] = frame]
  /\ produced' = (produced + 1) % CountMod
  /\ taken' = IF (produced' - taken) % CountMod > OutputFrames
              THEN (produced' - OutputFrames) % CountMod ELSE taken

\* take_audio and Spu::tick: one frame for one sample.
PathTick ==
  /\ \/ /\ ~playing /\ decoded - played < AudioPrime
        /\ Pushed(Silence)
        /\ UNCHANGED <<played, playing, dry, lastFrame>>
     \/ /\ playing \/ decoded - played >= AudioPrime
        /\ played < decoded
        /\ playing' = TRUE /\ dry' = 0 /\ played' = played + 1
        /\ lastFrame' = audio[played % AudioCapacity]
        /\ Pushed(IF mutedDrive THEN Silence ELSE lastFrame')
     \/ /\ playing /\ played >= decoded
        /\ dry' = dry + 1
        /\ IF dry' > AudioHold
           THEN playing' = FALSE /\ lastFrame' = Silence /\ Pushed(Silence)
           ELSE /\ UNCHANGED <<playing, lastFrame>>
                /\ Pushed(IF mutedDrive THEN Silence ELSE lastFrame)
        /\ UNCHANGED played
  /\ UNCHANGED <<audio, decoded, mutedDrive, sounds>>

-----------------------------------------------------------------------------
(* The host.                                                               *)

\* take_output, of as many as the host asks for.  What the host then makes of
\* them, as it drops them when it has too many queued, is not followed.
TakeOutput ==
  /\ produced # taken
  /\ \E count \in Batches :
       LET there == (produced - taken) % CountMod
       IN taken' = (taken + (IF count < there THEN count ELSE there)) % CountMod
  /\ UNCHANGED <<drive, output, produced, sounds>>

\* CdRom::reset and Spu::reset.
ResetSound ==
  /\ StopAudio /\ mutedDrive' = FALSE
  /\ output' = [i \in DOMAIN output |-> Silence] /\ produced' = 0 /\ taken' = 0
  /\ UNCHANGED sounds

\* What comes between two ticks.
PathStep == DecodeSector \/ StopSound \/ MuteDrive \/ TakeOutput \/ ResetSound

-----------------------------------------------------------------------------
(* What is checked.                                                        *)

\* What is in the rings, the oldest first.
Waiting ==
  [i \in 1 .. decoded - played |-> audio[(played + i - 1) % AudioCapacity]]
Made ==
  [i \in 1 .. (produced - taken) % CountMod |-> output[(taken + i - 1) % OutputFrames]]

Stream == INSTANCE SoundStream WITH
  Sector <- SectorFrames, Capacity <- AudioCapacity, Prime <- AudioPrime,
  Hold <- AudioHold, Room <- OutputFrames,
  read <- sounds, waiting <- Waiting, running <- playing, bridged <- dry,
  newest <- lastFrame, muted <- mutedDrive, made <- Made

\* The two rings between them are the stream a listener is promised: frames in
\* the order they were decoded, none heard twice but to bridge a gap, none of
\* what a stop threw away, the newest lost at the one ring and the oldest at
\* the other (queue_audio, take_audio, stop_audio, push_output, take_output).
FramesInOrder == Stream!Spec
=============================================================================
