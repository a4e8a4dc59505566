-------------------------------- MODULE Mdec --------------------------------
(***************************************************************************)
(* The macroblock decoder (src/mdec.cpp) between the two DMA channels that *)
(* feed it and empty it (src/dma.cpp).                                     *)
(*                                                                         *)
(* A command says how many words follow it, and whatever arrives is        *)
(* counted off against that.  The words of a decode command are a stream   *)
(* of run-length codes that is cut into words, bursts and commands without *)
(* regard for where a block ends; the decoder makes what blocks it can of  *)
(* what it has each time a word arrives, and puts back the codes of a      *)
(* block that is not all there.                                            *)
(*                                                                         *)
(* A code is its run, or End; levels, tables and pixels are not followed.  *)
(* A decoded block is known by its place in the stream, and a word of      *)
(* output by the blocks it was made of.                                    *)
(***************************************************************************)
EXTENDS Integers, Sequences

CONSTANTS
  Size,         \* BLOCK_PIXELS, the coefficients of a block
  Runs,         \* bound: the runs in the stream, a subset of 0 .. Size - 1
  Blocks,       \* BLOCKS_PER_MACROBLOCK
  Words,        \* the words a macroblock is emitted as, by depth
  OutBlock,     \* the words of a block of the channel out
  Amounts,      \* bound: the blocks or words the channel out is armed for
  Bursts,       \* and the words it moves of them in one go when not by blocks
  Lengths,      \* bound: how many words a decode command asks for
  TableWords,   \* the words of one quantisation table; the scale table is two
  CountMod,     \* 2^16, the width of words_left
  MaxBlocks,    \* bound: the blocks decoded between two aborts
  MaxWaiting    \* bound: the codes software leaves waiting, padding and all

Depths == {"mono", "colour"}
End == Size     \* END_OF_BLOCK

ASSUME MdecAssumption ==
  /\ Size \in Nat \ {0, 1} /\ Runs \subseteq 0 .. Size - 1
  /\ Blocks \in Nat \ {0} /\ Words \in [Depths -> Nat \ {0}]
  /\ OutBlock \in Nat \ {0} /\ TableWords \in Nat \ {0}
  /\ CountMod \in Nat /\ 2 * TableWords < CountMod
  /\ Lengths \subseteq 0 .. CountMod - 1
  /\ Amounts \subseteq Nat \ {0} /\ Bursts \subseteq Nat \ {0}
  /\ MaxBlocks \in Nat /\ MaxWaiting \in Nat

VARIABLES
  expecting,  \* what the words after the command are for
  busy,
  left,       \* words_left: one less than the words still wanted
  index,      \* parameter_index
  depth,
  current,    \* current_block
  blocks,     \* which block of the stream each of `blocks` holds, 0 for none
  input,      \* the codes waiting, from input_position on
  output,     \* the words waiting, from output_position on
  want,       \* software: words it still has to send for the command
  stream,     \* history: the codes sent, read once from end to end
  decoded,    \* history: the blocks decoded since the last abort
  inFirst,    \* DPCR ranks the channel in above the channel out
  channelIn,  \* words channel 0 has left to move
  channelOut, \* channel 1: its sync mode, the blocks (Request) or words
              \* (Manual) it has left, and the words it moves in one go
  shifted,    \* history: a transfer has taken a zero for a word since the
              \* last abort, and the picture behind it is out of its place
  careless    \* history: software has since left a Manual transfer with more
              \* words to move than there were

command == <<expecting, busy, left, index, depth>>
decoder == <<current, blocks, input, output>>
history == <<stream, decoded>>
channels == <<inFirst, channelIn, channelOut>>
conduct == <<shifted, careless>>
vars == <<command, decoder, want, history, channels, conduct>>

\* A channel at rest: how it was set no longer matters.
Idle == [mode |-> "Request", left |-> 0, burst |-> OutBlock]
Fresh == [at |-> 0, blocks |-> 0]

Init ==
  /\ expecting = "None" /\ busy = FALSE /\ left = 0 /\ index = 0
  /\ depth = "mono"
  /\ current = 0 /\ blocks = [b \in 0 .. Blocks - 1 |-> 0]
  /\ input = <<>> /\ output = <<>>
  /\ want = 0 /\ stream = Fresh /\ decoded = 0
  /\ inFirst \in BOOLEAN /\ channelIn = 0 /\ channelOut = Idle
  /\ shifted = FALSE /\ careless = FALSE

-----------------------------------------------------------------------------
(* The stream, read once: `at` counts the coefficients of the block under  *)
(* way, 0 between blocks.  This is what decode_block is measured against.  *)

ReadCode(s, code) ==
  IF s.at = 0 /\ code = End THEN s
  ELSE LET reach == IF s.at = 0 THEN 1 ELSE s.at + code + 1
       IN IF reach >= Size THEN [at |-> 0, blocks |-> s.blocks + 1]
          ELSE [s EXCEPT !.at = reach]

-----------------------------------------------------------------------------
(* Decoding.                                                               *)

\* Mutant: the padding before a block is taken for its first code.
MovesPadded(code) ==
  [i \in -1 .. Size - 1 |->
     IF i = Size - 1 THEN i
     ELSE IF i = -1 THEN 0
     ELSE IF i + code + 1 > Size - 1 THEN Size - 1
     ELSE i + code + 1]

\* decode_block over a code: from the coefficient set last, -1 before any, to
\* the one set next, and Size - 1 for good once the block is all there.
\* Padding is passed over, and the first code is a coefficient whatever its run.
Moves(code) ==
  [i \in -1 .. Size - 1 |->
     IF i = Size - 1 THEN i
     ELSE IF i = -1 THEN IF code = End THEN -1 ELSE 0
     ELSE IF i + code + 1 > Size - 1 THEN Size - 1
     ELSE i + code + 1]

\* The coefficient decode_block has got to after each of the codes.
Places(codes) ==
  LET at[k \in 0 .. Len(codes)] ==
        IF k = 0 THEN -1 ELSE Moves(codes[k])[at[k - 1]]
  IN at

\* The position after the block at the front of the codes, or 0 if they run
\* out first.
AfterBlock(codes) ==
  LET at   == Places(codes)
      ends == {k \in DOMAIN at : at[k] = Size - 1}
  IN IF ends = {} THEN 0 ELSE 1 + CHOOSE k \in ends : \A j \in ends : k <= j

Needed == IF depth = "colour" THEN Blocks ELSE 1

\* Mutant: the codes of a block that is not all there are not put back.
DecodeOnceDropping(state) ==
  LET p == AfterBlock(state.input) IN
  IF p = 0 THEN [state EXCEPT !.input = <<>>]
  ELSE [state EXCEPT !.input = SubSeq(@, p, Len(@)), !.decoded = @ + 1]

\* decode_available once round its loop: the next block, if it is all there,
\* and a macroblock emitted if that was the last block of it.
DecodeOnce(state) ==
  LET p      == AfterBlock(state.input)
      serial == state.decoded + 1
      held   == [state.blocks EXCEPT ![state.current] = serial]
      full   == state.current + 1 >= Needed
      of     == [b \in 0 .. Needed - 1 |-> held[b]]
      made   == [w \in 1 .. Words[depth] |-> [of |-> of, word |-> w]]
  IN IF p = 0 THEN state
     ELSE [input   |-> SubSeq(state.input, p, Len(state.input)),
           decoded |-> serial,
           blocks  |-> held,
           current |-> IF full THEN 0 ELSE state.current + 1,
           output  |-> IF full THEN state.output \o made ELSE state.output]

\* decode_available: a word has two codes and so ends two blocks at most.
DecodeAvailable(codes) ==
  DecodeOnce(DecodeOnce(
    [input |-> input \o codes, decoded |-> decoded, blocks |-> blocks,
     current |-> current, output |-> output]))

-----------------------------------------------------------------------------
(* Words in.                                                               *)

\* start_command: how many words it brings, and what they are for.
Starts(kind, n) ==
  /\ ~busy /\ want = 0
  /\ index' = 0
  /\ busy' = (n > 0)
  /\ left' = (n + CountMod - 1) % CountMod
  /\ expecting' = IF n > 0 THEN kind ELSE "None"
  /\ want' = n

\* A store of a command.  Software finishes a macroblock before it asks for
\* another depth: see BlocksTogether.
Start ==
  /\ channelIn = 0
  /\ \/ \E n \in Lengths, d \in Depths :
          /\ d # depth => current = 0
          /\ decoded <= MaxBlocks /\ Len(input) <= MaxWaiting
          /\ Starts("Macroblocks", n) /\ depth' = d
     \/ \E n \in {TableWords, 2 * TableWords} :
          Starts("QuantTables", n) /\ UNCHANGED depth
     \/ Starts("ScaleTable", 2 * TableWords) /\ UNCHANGED depth
     \/ \E n \in Lengths : Starts("Ignored", n) /\ UNCHANGED depth
  /\ UNCHANGED <<decoder, history, channels, conduct>>

\* Mutant: the last word is known by the count it leaves.
CountedLast ==
  /\ left' = (left + CountMod - 1) % CountMod
  /\ index' = index + 1
  /\ busy' = (left' # 0) /\ expecting' = IF left' = 0 THEN "None" ELSE expecting

\* take_parameter's account of the word.
Counted ==
  /\ left' = (left + CountMod - 1) % CountMod
  /\ index' = index + 1
  /\ busy' = (left # 0) /\ expecting' = IF left = 0 THEN "None" ELSE expecting

\* take_parameter: a word of two codes, or of a table.
Take ==
  /\ busy /\ want > 0
  /\ Counted
  /\ want' = want - 1
  /\ \/ /\ expecting = "Macroblocks"
        /\ \E first, second \in Runs \cup {End} :
           \E d \in {DecodeAvailable(<<first, second>>)} :
             /\ stream' = ReadCode(ReadCode(stream, first), second)
             /\ input' = d.input /\ decoded' = d.decoded
             /\ blocks' = d.blocks /\ current' = d.current
             /\ output' = d.output
     \/ /\ expecting # "Macroblocks"
        /\ UNCHANGED <<decoder, history>>
  /\ UNCHANGED depth

\* The processor feeds the decoder itself.
Feed ==
  /\ channelIn = 0 /\ Take
  /\ UNCHANGED <<channels, conduct>>

-----------------------------------------------------------------------------
(* Words out, and the two channels.                                        *)

InArmed == channelIn > 0
OutArmed == channelOut.left > 0

\* A Manual transfer with more to move than the decoder has made.
Overdrawn == channelOut.mode = "Manual" /\ channelOut.left > Len(output)

\* read_data n times: what is left, an empty FIFO answering with a zero.
Rest(n) == SubSeq(output, n + 1, Len(output))

\* The processor reads the data port, where it has seen a word to read.
ReadPort ==
  /\ output # <<>>
  /\ output' = Rest(1)
  /\ UNCHANGED <<command, current, blocks, input, want, history, channels, shifted>>
  /\ careless' = (careless \/ Overdrawn')

\* Software arms a channel,
ArmIn ==
  /\ ~InArmed /\ want > 0 /\ channelIn' = want
  /\ UNCHANGED <<command, decoder, want, history, inFirst, channelOut, conduct>>
\* by blocks, or a burst of words or what chopping leaves of it at a time;
ArmOut ==
  /\ ~OutArmed
  /\ \E n \in Amounts :
       \/ channelOut' = [mode |-> "Request", left |-> n, burst |-> OutBlock]
       \/ \E b \in Bursts : channelOut' = [mode |-> "Manual", left |-> n, burst |-> b]
  /\ UNCHANGED <<command, decoder, want, history, inFirst, channelIn, shifted>>
  /\ careless' = (careless \/ Overdrawn')
\* calls one off, in the middle of whatever it moves;
CallOff ==
  /\ \/ InArmed /\ channelIn' = 0 /\ UNCHANGED channelOut
     \/ OutArmed /\ channelOut' = Idle /\ UNCHANGED channelIn
  /\ UNCHANGED <<command, decoder, want, history, inFirst, conduct>>
\* or ranks them.
WriteDpcr ==
  /\ inFirst' \in BOOLEAN
  /\ UNCHANGED <<command, decoder, want, history, channelIn, channelOut, conduct>>

\* device_asking: channel 0 always does, channel 1 with a block to hand over,
\* or with a word in any mode but Request.
OutAsks ==
  Len(output) >= IF channelOut.mode = "Request" THEN channelOut.burst ELSE 1

\* Mutant: arbitrate looks at the channels armed, whoever asks.
WinsArmed(in) ==
  IF in THEN InArmed /\ (~OutArmed \/ inFirst) ELSE OutArmed /\ ~(InArmed /\ inFirst)
                                                   /\ OutAsks

\* arbitrate, of the channels that ask.
Wins(in) ==
  LET out == OutArmed /\ OutAsks IN
  IF in THEN InArmed /\ (inFirst \/ ~out) ELSE out /\ ~(InArmed /\ inFirst)

\* dma_event moves a word in,
TurnIn ==
  /\ Wins(TRUE) /\ Take
  /\ channelIn' = channelIn - 1 /\ UNCHANGED <<inFirst, channelOut, conduct>>

\* Mutant: the end of a chopped transfer is another whole burst.
BurstWhole == channelOut.burst

\* The words step_request moves, and step_manual.
Burst ==
  IF channelOut.mode = "Manual" /\ channelOut.left < channelOut.burst
  THEN channelOut.left ELSE channelOut.burst

\* What either leaves to move: blocks are counted, or words.
Left == channelOut.left - (IF channelOut.mode = "Manual" THEN Burst ELSE 1)

\* or a block or a burst of words out.
TurnOut ==
  /\ Wins(FALSE)
  /\ output' = Rest(Burst)
  /\ shifted' = (shifted \/ Burst > Len(output))
  /\ channelOut' = IF Left > 0 THEN [channelOut EXCEPT !.left = Left] ELSE Idle
  /\ UNCHANGED <<command, current, blocks, input, want, history, inFirst, channelIn,
                 careless>>

\* Mutant: an abort in the middle of a macroblock leaves its place there.
PlaceKept == current

\* Where an abort leaves current_block.
PlaceReset == 0

\* A store with bit 31 to the control register.  It does nothing to the
\* channels: software stops the one in first, whose words would be commands.
Abort ==
  /\ ~InArmed
  /\ expecting' = "None" /\ busy' = FALSE /\ left' = 0 /\ index' = 0
  /\ depth' = "mono" /\ current' = PlaceReset /\ input' = <<>> /\ output' = <<>>
  /\ want' = 0 /\ stream' = Fresh /\ decoded' = 0
  /\ blocks' = [b \in 0 .. Blocks - 1 |-> 0]    \* serials start over
  /\ UNCHANGED channels
  /\ shifted' = FALSE /\ careless' = Overdrawn'

Turn == TurnIn \/ TurnOut
Next ==
  \/ Start \/ Feed \/ ReadPort \/ Abort
  \/ ArmIn \/ ArmOut \/ CallOff \/ WriteDpcr
  \/ Turn

Spec == Init /\ [][Next]_vars

\* The controller's event comes back as long as a channel is armed.
FairSpec == Spec /\ WF_vars(Turn)

-----------------------------------------------------------------------------
(* What is checked.                                                        *)

\* parameter_index stays inside the tables it indexes.
TypeOK ==
  /\ expecting \in {"None", "Macroblocks", "QuantTables", "ScaleTable", "Ignored"}
  /\ busy \in BOOLEAN /\ left \in 0 .. CountMod - 1 /\ index \in Nat
  /\ expecting \in {"QuantTables", "ScaleTable"} => index < 2 * TableWords
  /\ depth \in Depths /\ current \in 0 .. Needed - 1
  /\ blocks \in [0 .. Blocks - 1 -> Nat]
  /\ input \in Seq(Runs \cup {End})
  /\ want \in Nat /\ inFirst \in BOOLEAN /\ channelIn \in Nat
  /\ channelOut \in [mode : {"Request", "Manual"}, left : Nat, burst : Nat \ {0}]
  /\ shifted \in BOOLEAN /\ careless \in BOOLEAN

\* Every block all of whose codes have arrived has been decoded, and no other,
\* however the stream was cut up, by words, by bursts or by commands, and
\* wherever there is padding in it (decode_block, decode_available).
StreamFollowed ==
  /\ decoded = stream.blocks
  /\ stream.at = 0 <=> \A i \in DOMAIN input : input[i] = End

\* A word of the picture is made of blocks that follow one another in the
\* stream, from the first in its macroblock, and the words wait in the order
\* the stream has them in: none is missing, twice there, or of two pictures
\* (decode_available, reset).
BlocksTogether ==
  /\ \A i \in DOMAIN output :
       /\ output[i].of[0] > 0
       /\ \A b \in DOMAIN output[i].of : output[i].of[b] = output[i].of[0] + b
  /\ \A i \in DOMAIN output : i > 1 =>
       LET was == output[i - 1] IN
       \/ output[i].of = was.of /\ output[i].word = was.word + 1
       \/ output[i].word = 1 /\ output[i].of[0] > was.of[0]

\* No transfer takes a zero for a word of the picture, and so puts the rest of
\* it out of its place, unless software has asked for words in Manual mode that
\* were not made, or took some of them another way: by blocks the channel waits
\* for what it moves, and a burst cut into pieces asks for no more in all than
\* was there when it was armed (device_asking, step_manual, step_request,
\* read_data, whatever the channel in, the port and an abort do meanwhile).
NoZeroesTaken == shifted => careless

\* Neither channel stops the other (device_asking, arbitrate), whichever of them
\* DPCR puts first and however it is changed: what is armed to go in goes in, and
\* a block that is there to be taken is taken - but for software that ranks the
\* channel in first again and again and arms it anew for ever, as the lower of
\* two has no claim on the bus.
NeitherStarves ==
  /\ InArmed ~> ~InArmed
  /\ \/ OutArmed /\ OutAsks ~> ~(OutArmed /\ OutAsks)
     \/ []<>inFirst /\ []<><<ArmIn>>_vars

\* What dma.cpp says of the decoder, that it asks once it has a whole block to
\* hand over, as a transfer beside the one that feeds it would else take zeroes.
PictureNeverShifted == ~shifted
=============================================================================
