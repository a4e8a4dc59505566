---------------------------- MODULE SoundStream -----------------------------
(***************************************************************************)
(* What a listener is promised of the sound on a disc: the frames read     *)
(* are heard in the order they were read, each of them once, but for those *)
(* a full queue turned away and the oldest the host was too slow for.      *)
(* While it runs, a frame that is late is bridged by the one before it,    *)
(* and not for long; before it runs, and after, there is silence.          *)
(***************************************************************************)
EXTENDS Integers, Sequences

CONSTANTS
  Sector,    \* the frames of a sector
  Capacity,  \* the frames that may wait to be heard
  Prime,     \* the frames gathered before the first is heard
  Hold,      \* how often a frame bridges a gap
  Room       \* the frames the host may leave uncollected

VARIABLES
  read,      \* the frames read, which are named by their number
  waiting,   \* the frames read and not yet heard, in order
  running,   \* sound is being heard
  bridged,   \* how often the last frame has been heard again
  newest,    \* that frame
  muted,
  made       \* the frames heard and not yet collected, in order

vars == <<read, waiting, running, bridged, newest, muted, made>>

Silent == 0

Init ==
  /\ read = 0
  /\ waiting = <<>> /\ running = FALSE /\ bridged = 0 /\ newest = Silent
  /\ muted = FALSE /\ made = <<>>

\* A sector is read; those of its frames there is no room for are lost.
Read ==
  /\ read' = read + Sector
  /\ \E n \in 0 .. Sector :
       /\ n = Sector \/ Len(waiting) + n = Capacity
       /\ waiting' = waiting \o [i \in 1 .. n |-> read + i]
  /\ UNCHANGED <<running, bridged, newest, muted, made>>

\* A frame is heard, the oldest there is no room for being given up.
Hear(frame) ==
  LET all == Append(made, IF muted THEN Silent ELSE frame)
  IN made' = SubSeq(all, IF Len(all) > Room THEN 2 ELSE 1, Len(all))

Sample ==
  /\ \/ /\ running \/ Len(waiting) >= Prime
        /\ waiting # <<>>
        /\ running' = TRUE /\ bridged' = 0
        /\ newest' = Head(waiting) /\ waiting' = Tail(waiting)
        /\ Hear(newest')
     \/ /\ running /\ waiting = <<>> /\ bridged < Hold
        /\ bridged' = bridged + 1
        /\ Hear(newest)
        /\ UNCHANGED <<waiting, running, newest>>
     \/ /\ running /\ waiting = <<>> /\ bridged = Hold
        /\ running' = FALSE /\ newest' = Silent
        /\ bridged' \in Nat
        /\ Hear(Silent)
        /\ UNCHANGED waiting
     \/ /\ ~running /\ Len(waiting) < Prime
        /\ Hear(Silent)
        /\ UNCHANGED <<waiting, running, bridged, newest>>
  /\ UNCHANGED <<read, muted>>

\* The listener collects some frames.
Collect ==
  /\ \E n \in 1 .. Len(made) : made' = SubSeq(made, n + 1, Len(made))
  /\ UNCHANGED <<read, waiting, running, bridged, newest, muted>>

Stop ==
  /\ waiting' = <<>> /\ running' = FALSE /\ bridged' = 0 /\ newest' = Silent
  /\ UNCHANGED <<read, muted, made>>

Mute ==
  /\ muted' \in BOOLEAN
  /\ UNCHANGED <<read, waiting, running, bridged, newest, made>>

\* The machine is switched off and on.
Restart ==
  /\ waiting' = <<>> /\ running' = FALSE /\ bridged' = 0 /\ newest' = Silent
  /\ muted' = FALSE /\ made' = <<>>
  /\ UNCHANGED read

Next == Read \/ Sample \/ Collect \/ Stop \/ Mute \/ Restart

Spec == Init /\ [][Next]_vars
=============================================================================
