-------------------------------- MODULE Spu ---------------------------------
(***************************************************************************)
(* The sound of the machine: a voice (Voice) and the way of a disc's sound *)
(* to the host (SoundPath), which one event of the console moves on        *)
(* together (EventKind::Spu in src/console.cpp).                           *)
(***************************************************************************)
EXTENDS Voice, SoundPath

VARIABLE
  plays   \* bound: what a behaviour follows, a voice or a disc; the mixer adds
          \* the one to the other and neither sees it

vars == <<voiceVars, pathVars, plays>>

Init ==
  /\ VoiceInit /\ PathInit
  /\ plays \in {"voice", "disc"}
  /\ plays = "disc" =>
       /\ ram = [b \in Block |-> CHOOSE f \in Flags : TRUE]
       /\ patch = (CHOOSE p \in Patches : TRUE) /\ pitch = (CHOOSE p \in Pitches : TRUE)

\* A sample is due.
Tick == VoiceTick /\ PathTick

\* Whatever else happens, between two samples.
Between ==
  \/ plays = "voice" /\ Software /\ UNCHANGED pathVars
  \/ plays = "disc" /\ PathStep /\ UNCHANGED voiceVars

Next == (Tick \/ Between) /\ UNCHANGED plays

Spec == Init /\ [][Next]_vars

\* The console runs on: a sample is due every so many cycles.
FairSpec == Spec /\ WF_vars(Tick /\ UNCHANGED plays)

TypeOK ==
  /\ voice \in Voice
  /\ decoded \in Nat /\ played \in 0 .. decoded /\ decoded - played <= AudioCapacity
  /\ (produced - taken) % CountMod <= OutputFrames
=============================================================================
