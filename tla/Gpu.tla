-------------------------------- MODULE Gpu --------------------------------
(***************************************************************************)
(* The GPU as its two ports show it (src/gpu.cpp), with the palette it     *)
(* holds between primitives (src/raster.cpp, hold_clut) and the software   *)
(* that feeds it.                                                          *)
(*                                                                         *)
(* GP0 is a stream of words that nothing frames but the count gp0_length   *)
(* gives; GP1 acts at once, whatever GP0 is in the middle of.  A word is   *)
(* only counted here: a command is a record of the bits of its command     *)
(* byte that decide its length and its meaning, and what its other words   *)
(* carry is chosen when it executes.  `sender` is the software's own       *)
(* account of what it still has to send, kept by what the drawing code     *)
(* reads of a command and not by gp0_length.                               *)
(*                                                                         *)
(* Time is relative: `behind` is busy_until less now, at least 0.          *)
(* Registers that are only echoed or only shape the picture (GP0(E2h..E6h),*)
(* GP1(03h), GP1(05h..10h), the interrupt flag, the texture disable bit)   *)
(* are not followed.                                                       *)
(***************************************************************************)
EXTENDS Integers, FiniteSets

CONSTANTS
  Commands,     \* bound: the commands software sends, a subset of Command
  Cluts,        \* the palettes in VRAM
  Width,        \* VRAM_WIDTH, a power of two
  Height,       \* VRAM_HEIGHT, a power of two
  Sizes,        \* bound: the size words of transfers, <<width, height>>
  Costs,        \* what a primitive, or a word of a readback, may cost
  CostScale,    \* PIXEL_COST_SCALE
  FifoWords,    \* FIFO_WORDS
  MaxBehind     \* bound: the backlog beyond which software stops feeding it

-----------------------------------------------------------------------------
\* What gp0_length and execute_gp0 tell commands apart by.
Family ==
  {"bare", "clear", "setting", "drawMode", "fill", "polygon", "line",
   "rectangle", "copy", "load", "store"}
Command ==
  [family : Family, corners : 3 .. 4, textured : BOOLEAN, shaded : BOOLEAN,
   sized : BOOLEAN, more : BOOLEAN]

\* Mutant: the first corner of a shaded polygon counted a colour of its own.
ColourWordsAll(c) == IF c.shaded THEN c.corners ELSE 0

\* A shaded polygon's first colour is in its command word.
ColourWords(c) == IF c.shaded THEN c.corners - 1 ELSE 0

\* gp0_length.
Length(c) ==
  CASE c.family = "polygon" ->
         1 + c.corners * (IF c.textured THEN 2 ELSE 1) + ColourWords(c)
    [] c.family = "line" -> 3 + (IF c.shaded THEN 1 ELSE 0)
    [] c.family = "rectangle" ->
         2 + (IF c.sized THEN 1 ELSE 0) + (IF c.textured THEN 1 ELSE 0)
    [] c.family = "copy" -> 4
    [] c.family \in {"fill", "load", "store"} -> 3
    [] OTHER -> 1

\* The words after the command word that the code drawing it reads:
\* draw_polygon's, draw_line_command's and draw_sprite's cursors, and the
\* words execute_gp0 and begin_transfer take apart.
Operands(c) ==
  LET Corners(n) == {"vertex"} \X (1 .. n)
      Colours(n) == IF c.shaded THEN {"colour"} \X (2 .. n) ELSE {}
      Texels(n)  == IF c.textured THEN {"texture"} \X (1 .. n) ELSE {}
      Size       == IF c.sized THEN {<<"size", 1>>} ELSE {}
  IN CASE c.family = "polygon" ->
            Corners(c.corners) \cup Colours(c.corners) \cup Texels(c.corners)
       [] c.family = "line" -> Corners(2) \cup Colours(2)
       [] c.family = "rectangle" -> Corners(1) \cup Texels(1) \cup Size
       [] c.family = "copy" -> {<<"from", 1>>, <<"to", 1>>, <<"size", 1>>}
       [] c.family \in {"fill", "load", "store"} ->
            {<<"corner", 1>>, <<"size", 1>>}
       [] OTHER -> {}

\* transfer_extent: a size of zero is the largest there is.
Extent(v, limit) == ((v + limit - 1) % limit) + 1
Pixels(t) == t.width * t.height

ASSUME GpuAssumption ==
  /\ Commands \subseteq Command /\ Commands # {}
  /\ Width \in Nat \ {0} /\ Height \in Nat \ {0}
  /\ Sizes \subseteq Nat \X Nat /\ Sizes # {}
  /\ Costs \in [Family -> SUBSET Nat] /\ CostScale \in Nat \ {0}
  /\ FifoWords \in Nat \ {0} /\ MaxBehind \in Nat

VARIABLES
  mode,       \* what GP0 does with the next word: Gp0Mode
  op,         \* command[0], kept after the command for a polyline's sake
  words,      \* command_words
  transfer,   \* the copy in or out of VRAM: its size and pixels_done
  colour,     \* polyline_has_colour
  depth,      \* draw_mode: how the texture page's texels are stored
  palette,    \* clut_source, clut_entries, and where its contents came from
  behind,     \* busy_until less now
  owed,       \* cost_owed
  fifo,       \* fifo_words
  drawn,      \* history: the last primitive that used a palette, or NoDraw
  sender,     \* what software has left to send, by its own account
  waiting     \* software spins on GPUSTAT bit 28 (DrawSync)

port == <<mode, op, words, transfer, colour>>
backlog == <<behind, owed, fifo>>
vars == <<port, depth, palette, backlog, drawn, sender, waiting>>

Bare == [family |-> "bare", corners |-> 3, textured |-> FALSE,
         shaded |-> FALSE, sized |-> FALSE, more |-> FALSE]
NoTransfer == [width |-> 0, height |-> 0, done |-> 0]
NoDraw == [clut |-> "none", depth |-> 0]
Silent == [words |-> 0, image |-> 0, vertices |-> FALSE, colour |-> FALSE,
           read |-> 0]
Depths == {4, 8, 15}

\* What the GPU may be holding.
Palette ==
  [source : Cluts \cup {"none"}, entries : {0, 16, 256},
   upper : Cluts \cup {"none"}, together : BOOLEAN]
Held ==
  {p \in Palette : p.entries = 256 => p.together /\ p.upper = p.source}

\* Transfer::done.
Done(t) == t.done >= Pixels(t)
Drawing == behind > 0
\* Mutant: a GPU holding pixels for the CPU says it takes no block.
ReadyForBlockIdle == mode = "Command" /\ ~Drawing

\* ready_for_block: GPUSTAT bit 28.
ReadyForBlock == mode = "ImageStore" \/ ~Drawing

Init ==
  /\ mode = "Command" /\ op = Bare /\ words = 0
  /\ transfer = NoTransfer /\ colour = FALSE
  /\ depth = 4
  /\ palette = [source |-> "none", entries |-> 0, upper |-> "none",
                together |-> TRUE]
  /\ behind = 0 /\ owed = 0 /\ fifo = 0
  /\ drawn = NoDraw
  /\ sender = Silent /\ waiting = FALSE

-----------------------------------------------------------------------------
(* The backlog.                                                            *)

\* catch_up and the count of a word that arrives behind work still going on.
Queued ==
  IF ~Drawing THEN 0 ELSE IF fifo < FifoWords THEN fifo + 1 ELSE FifoWords

\* charge, with a cost already multiplied by its pixels.
Charge(cost) ==
  /\ behind' = behind + (owed + cost) \div CostScale
  /\ owed' = (owed + cost) % CostScale

-----------------------------------------------------------------------------
(* The palette.                                                            *)

\* Mutant: one palette held is as good as another of its name.
HoldByName(clut, d) ==
  IF palette.source = clut THEN palette
  ELSE [source |-> clut, entries |-> IF d = 4 THEN 16 ELSE 256,
        upper |-> IF d = 4 THEN palette.upper ELSE clut,
        together |-> d # 4]

\* hold_clut: read anew unless it is the one held, and enough of it.
Hold(clut, d) ==
  LET wanted == IF d = 4 THEN 16 ELSE 256 IN
  IF d = 15 \/ (palette.source = clut /\ wanted <= palette.entries)
  THEN palette
  ELSE [source |-> clut, entries |-> wanted,
        upper |-> IF wanted = 256 THEN clut ELSE palette.upper,
        together |-> wanted = 256]

\* A textured primitive: a polygon's page comes with it (apply_texpage), a
\* rectangle's is the draw mode's.  A polygon with no inside is given up before
\* its palette is looked at.
Texture(c, clut, own, empty) ==
  /\ depth' = IF c.family = "polygon" THEN own ELSE depth
  /\ palette' = IF empty THEN palette ELSE Hold(clut, depth')
  /\ drawn' = IF empty \/ depth' = 15 THEN NoDraw
              ELSE [clut |-> clut, depth |-> depth']

-----------------------------------------------------------------------------
(* The software.                                                           *)

WordsOf(t) == (Pixels(t) + 1) \div 2

\* What is left to send once command c is sent in full, its size being t.
After(c, t) ==
  CASE c.family = "load"  -> [sender EXCEPT !.words = 0, !.image = WordsOf(t)]
    [] c.family = "store" -> [sender EXCEPT !.words = 0, !.read = WordsOf(t)]
    [] c.family = "line" /\ c.more ->
         [sender EXCEPT !.words = 0, !.vertices = TRUE, !.colour = FALSE]
    [] OTHER -> [sender EXCEPT !.words = 0]

\* Software begins a command between commands, and while it reads pixels back
\* none that would take the port from the readback.
Sendable(c) ==
  \/ sender.words > 0 /\ c = op
  \/ /\ sender.words = 0 /\ sender.image = 0 /\ ~sender.vertices
     /\ sender.read > 0 => c.family \notin {"load", "store"} /\ ~c.more

\* What the sender has left of command c after one word more.
Remaining(c) ==
  IF sender.words > 0 THEN sender.words - 1 ELSE Cardinality(Operands(c))

\* Software sends: not while it waits, nor too far ahead.
Sends == ~waiting /\ behind <= MaxBehind

-----------------------------------------------------------------------------
(* GP0.                                                                    *)

Plain == UNCHANGED <<depth, palette>> /\ drawn' = NoDraw

\* execute_gp0: what command c does to everything but the port and the clock.
Effect(c) ==
  CASE c.family = "clear" ->
         /\ palette' = [palette EXCEPT !.entries = 0]
         /\ drawn' = NoDraw /\ UNCHANGED depth
    [] c.family = "drawMode" ->
         /\ depth' \in Depths
         /\ drawn' = NoDraw /\ UNCHANGED palette
    [] c.family \in {"polygon", "rectangle"} /\ c.textured ->
         \E clut \in Cluts, own \in Depths, empty \in BOOLEAN :
           /\ empty => c.family = "polygon"
           /\ Texture(c, clut, own, empty)
    [] OTHER -> Plain

\* The copy a command starts, if it starts one: begin_transfer.
Begun(c, s) ==
  IF c.family \in {"load", "store"}
  THEN [width |-> Extent(s[1], Width), height |-> Extent(s[2], Height),
        done |-> 0]
  ELSE transfer

\* A word of a command, in Command mode or while pixels wait to be read.
CommandWord(c) ==
  /\ Sends /\ Sendable(c)
  /\ mode \in {"Command", "ImageStore"}
  /\ fifo' = Queued
  /\ op' = IF words = 0 THEN c ELSE op
  /\ \/ /\ words + 1 < Length(op')
        /\ words' = words + 1
        /\ sender' = [sender EXCEPT !.words = Remaining(c)]
        /\ Plain /\ UNCHANGED <<mode, transfer, colour, behind, owed>>
     \/ /\ words + 1 >= Length(op')
        /\ words' = 0
        /\ Effect(op')
        /\ \E s \in Sizes :
             /\ transfer' = Begun(op', s)
             /\ sender' = IF Remaining(c) = 0 THEN After(c, transfer')
                          ELSE [sender EXCEPT !.words = Remaining(c)]
        /\ mode' = CASE op'.family = "load" -> "ImageLoad"
                     [] op'.family = "store" -> "ImageStore"
                     [] op'.family = "line" /\ op'.more -> "PolyLine"
                     [] OTHER -> mode
        /\ colour' = (op'.family # "line" /\ colour)
        /\ IF op'.family \in {"load", "store"} THEN UNCHANGED <<behind, owed>>
           ELSE \E cost \in Costs[op'.family] : Charge(cost)
  /\ UNCHANGED waiting

\* Mutant: an odd pixel is waited for, the word it shares not being full.
PairsOnly(t) ==
  [t EXCEPT !.done = IF @ + 2 > t.width * t.height THEN @ ELSE @ + 2]

\* store_pixel and load_pixel, twice: two pixels to a word, the second of the
\* last one unused when the count is odd.
TwoPixels(t) ==
  [t EXCEPT !.done = IF @ + 2 > Pixels(t) THEN Pixels(t) ELSE @ + 2]

\* A word of pixels on its way into VRAM, which costs the GPU nothing.
PixelWord ==
  /\ Sends /\ sender.image > 0
  /\ mode = "ImageLoad"
  /\ fifo' = Queued
  /\ transfer' = TwoPixels(transfer)
  /\ mode' = IF Done(transfer') THEN "Command" ELSE mode
  /\ sender' = [sender EXCEPT !.image = @ - 1]
  /\ Plain
  /\ UNCHANGED <<op, words, colour, behind, owed, waiting>>

\* A polyline's terminator.
LastWord ==
  /\ Sends /\ sender.vertices /\ ~sender.colour
  /\ mode = "PolyLine"
  /\ fifo' = Queued
  /\ mode' = "Command"
  /\ sender' = [sender EXCEPT !.vertices = FALSE]
  /\ Plain
  /\ UNCHANGED <<op, words, transfer, colour, behind, owed, waiting>>

\* extend_polyline: a colour for the next vertex, or a vertex.
VertexWord ==
  /\ Sends /\ sender.vertices
  /\ mode = "PolyLine"
  /\ fifo' = Queued
  /\ \/ op.shaded /\ ~colour /\ colour' = TRUE /\ UNCHANGED <<behind, owed>>
     \/ /\ ~op.shaded \/ colour
        /\ colour' = FALSE
        /\ \E cost \in Costs["line"] : Charge(cost)
  /\ sender' = [sender EXCEPT !.colour = op.shaded /\ ~@]
  /\ Plain
  /\ UNCHANGED <<mode, op, words, transfer, waiting>>

\* GPUREAD with pixels waiting.
ReadWord ==
  /\ Sends /\ sender.read > 0
  /\ mode = "ImageStore"
  /\ fifo' = IF Drawing THEN fifo ELSE 0
  /\ transfer' = TwoPixels(transfer)
  /\ \E cost \in Costs["store"] : Charge(cost)
  /\ mode' = IF Done(transfer') THEN "Command" ELSE mode
  /\ sender' = [sender EXCEPT !.read = @ - 1]
  /\ Plain
  /\ UNCHANGED <<op, words, colour, waiting>>

-----------------------------------------------------------------------------
(* GP1, time, and the host.                                                *)

\* GP1(00h), and Gpu::reset: the palette held is not let go of.
Gp1Reset ==
  /\ ~waiting
  /\ mode' = "Command" /\ words' = 0 /\ transfer' = NoTransfer
  /\ colour' = FALSE
  /\ depth' = 4
  /\ behind' = 0 /\ owed' = 0 /\ fifo' = 0
  /\ sender' = Silent /\ drawn' = NoDraw
  /\ UNCHANGED <<op, palette, waiting>>

\* Mutant: the words collected so far are kept.
Gp1AbandonHalf ==
  /\ ~waiting
  /\ mode' = "Command" /\ transfer' = NoTransfer /\ fifo' = 0
  /\ sender' = Silent /\ drawn' = NoDraw
  /\ UNCHANGED <<op, words, colour, depth, palette, behind, owed, waiting>>

\* GP1(01h): what GP0 was collecting is given up, what it was drawing is not.
Gp1Abandon ==
  /\ ~waiting
  /\ mode' = "Command" /\ words' = 0 /\ transfer' = NoTransfer /\ fifo' = 0
  /\ sender' = Silent /\ drawn' = NoDraw
  /\ UNCHANGED <<op, colour, depth, palette, behind, owed, waiting>>

\* Software begins to spin on bit 28, and leaves off once it is up.
BeginSync ==
  /\ ~waiting
  /\ waiting' = TRUE /\ drawn' = NoDraw
  /\ UNCHANGED <<port, depth, palette, backlog, sender>>
EndSync ==
  /\ waiting /\ ReadyForBlock
  /\ waiting' = FALSE /\ drawn' = NoDraw
  /\ UNCHANGED <<port, depth, palette, backlog, sender>>

\* The clock moves on.
Wait ==
  /\ Drawing
  /\ behind' = behind - 1 /\ drawn' = NoDraw
  /\ UNCHANGED <<port, depth, palette, owed, fifo, sender, waiting>>

\* Mutant: how much of a command has arrived is left out of the file.
SnapshotWordless ==
  [mode |-> mode, op |-> op, words |-> 0, transfer |-> transfer,
   colour |-> colour, depth |-> depth,
   behind |-> behind, owed |-> owed, fifo |-> fifo]

\* visit_state: the palette the GPU holds is not in it.
Snapshot ==
  [mode |-> mode, op |-> op, words |-> words, transfer |-> transfer,
   colour |-> colour, depth |-> depth,
   behind |-> behind, owed |-> owed, fifo |-> fifo]

\* The machine is saved, and loaded into one that holds some other palette; the
\* software is in the same file, and goes on.
Restore ==
  /\ mode' = Snapshot.mode /\ op' = Snapshot.op /\ words' = Snapshot.words
  /\ transfer' = Snapshot.transfer /\ colour' = Snapshot.colour
  /\ depth' = Snapshot.depth
  /\ behind' = Snapshot.behind /\ owed' = Snapshot.owed /\ fifo' = Snapshot.fifo
  /\ palette' \in Held
  /\ drawn' = NoDraw
  /\ UNCHANGED <<sender, waiting>>

Gp0 ==
  \/ \E c \in Commands : CommandWord(c)
  \/ PixelWord \/ LastWord \/ VertexWord \/ ReadWord
Gp1 == Gp1Reset \/ Gp1Abandon

Next == Gp0 \/ Gp1 \/ BeginSync \/ EndSync \/ Wait \/ Restore

Spec == Init /\ [][Next]_vars

\* The clock runs on, and software that spins goes round its loop.
FairSpec == Spec /\ WF_vars(Wait) /\ WF_vars(EndSync)

-----------------------------------------------------------------------------
(* What is checked.                                                        *)

TypeOK ==
  /\ mode \in {"Command", "ImageLoad", "ImageStore", "PolyLine"}
  /\ op \in Commands \cup {Bare}
  /\ words \in 0 .. Length(op) - 1
  /\ transfer \in [width : 0 .. Width, height : 0 .. Height,
                   done : 0 .. Width * Height]
  /\ transfer.done <= Pixels(transfer)
  /\ colour \in BOOLEAN /\ waiting \in BOOLEAN
  /\ depth \in Depths
  /\ palette \in Held
  /\ behind \in Nat /\ owed \in 0 .. CostScale - 1 /\ fifo \in 0 .. FifoWords
  /\ drawn \in [clut : Cluts, depth : {4, 8}] \cup {NoDraw}
  /\ sender \in [words : Nat, image : Nat, vertices : BOOLEAN,
                 colour : BOOLEAN, read : Nat]

\* The GPU's place in the stream is the software's: what gp0_length counts off
\* is what the drawing code reads, a transfer takes the words its pixels fill,
\* a vertex of a shaded polyline is never taken for its colour; whatever GP1
\* gives up in between, in the middle of a readback, and after a state loaded.
InStep ==
  /\ words > 0 <=> sender.words > 0
  /\ words > 0 => Length(op) - words = sender.words
  /\ mode = "ImageLoad" <=> sender.image > 0
  /\ mode = "ImageStore" <=> sender.read > 0
  /\ mode = "PolyLine" <=> sender.vertices
  /\ mode = "PolyLine" => colour = sender.colour
  /\ mode \in {"ImageLoad", "ImageStore"} =>
       WordsOf(transfer) - transfer.done \div 2 = sender.image + sender.read

\* A primitive is drawn with the palette it names, all the entries its texels
\* can ask for among it, and none of them left over from another reading.
PaletteWhole ==
  drawn # NoDraw =>
    /\ palette.source = drawn.clut
    /\ drawn.depth = 8 => palette.upper = drawn.clut /\ palette.together
    /\ palette.entries >= (IF drawn.depth = 8 THEN 256 ELSE 16)

\* Software that waits for the GPU comes back, pixels left to collect or not:
\* gpu.cpp says what saying otherwise would hang.
SyncReturns == waiting ~> ~waiting
=============================================================================
