----------------------------- MODULE GpuProofs ------------------------------
(***************************************************************************)
(* What is proved of the GPU's ports and its palette (Gpu), for any set of *)
(* commands, any VRAM and any costs, and, from "The root counters" on, of  *)
(* the counters it clocks and gates (Timers), for any width of the counter *)
(* and any picture.  The two specifications share no variable.             *)
(***************************************************************************)
EXTENDS Gpu, Timers, FiniteSetTheorems, TLAPS

-----------------------------------------------------------------------------
(* Commands.                                                               *)

LEMMA Fields ==
  ASSUME NEW c \in Command
  PROVE  /\ c.family \in Family /\ c.corners \in 3 .. 4
         /\ c.textured \in BOOLEAN /\ c.shaded \in BOOLEAN /\ c.sized \in BOOLEAN
         /\ c.more \in BOOLEAN
  BY DEF Command

\* So many words, named and numbered.
LEMMA Numbered ==
  ASSUME NEW name, NEW n \in 1 .. 4
  PROVE  /\ IsFiniteSet({name} \X (1 .. n)) /\ Cardinality({name} \X (1 .. n)) = n
         /\ IsFiniteSet({name} \X (2 .. n)) /\ Cardinality({name} \X (2 .. n)) = n - 1
<1>1. IsFiniteSet({name}) /\ Cardinality({name}) = 1
  BY FS_Singleton
<1>2. ASSUME NEW I, IsFiniteSet(I)
      PROVE  /\ IsFiniteSet({name} \X I)
             /\ Cardinality({name} \X I) = Cardinality(I)
  <2>1. IsFiniteSet({name} \X I) /\ Cardinality({name} \X I) = 1 * Cardinality(I)
    BY <1>1, <1>2, FS_Product
  <2>2. Cardinality(I) \in Nat
    BY <1>2, FS_CardinalityType
  <2> QED
    BY <2>1, <2>2
<1>3. /\ IsFiniteSet(1 .. n) /\ Cardinality(1 .. n) = n
      /\ IsFiniteSet(2 .. n) /\ Cardinality(2 .. n) = n - 1
  BY FS_Interval
<1> QED
  BY <1>2, <1>3, Zenon

LEMMA Two ==
  ASSUME NEW x, NEW y, x # y
  PROVE  IsFiniteSet({x} \cup {y}) /\ Cardinality({x} \cup {y}) = 2
<1> DEFINE S == {x}
<1>1. IsFiniteSet(S) /\ Cardinality(S) = 1 /\ y \notin S
  BY FS_Singleton
<1> HIDE DEF S
<1>2. IsFiniteSet(S \cup {y}) /\ Cardinality(S \cup {y}) = 2
  BY <1>1, FS_AddElement
<1> QED
  BY <1>2 DEF S

LEMMA Joined ==
  ASSUME NEW S, NEW T, IsFiniteSet(S), IsFiniteSet(T), S \cap T = {}
  PROVE  /\ IsFiniteSet(S \cup T)
         /\ Cardinality(S \cup T) = Cardinality(S) + Cardinality(T)
<1>1. Cardinality(S \cap T) = 0 /\ Cardinality(S) \in Nat /\ Cardinality(T) \in Nat
  BY FS_EmptySet, FS_CardinalityType
<1>2. /\ IsFiniteSet(S \cup T)
      /\ Cardinality(S \cup T) = Cardinality(S) + Cardinality(T) - Cardinality(S \cap T)
  BY FS_Union
<1> QED
  BY <1>1, <1>2

\* gp0_length counts the words the drawing code reads, and the command itself.
LEMMA LengthOfOperands ==
  ASSUME NEW c \in Command
  PROVE  /\ Length(c) \in Nat \ {0}
         /\ Cardinality(Operands(c)) = Length(c) - 1
<1> DEFINE Corners(n) == {"vertex"} \X (1 .. n)
<1> DEFINE Colours(n) == IF c.shaded THEN {"colour"} \X (2 .. n) ELSE {}
<1> DEFINE Texels(n) == IF c.textured THEN {"texture"} \X (1 .. n) ELSE {}
<1> DEFINE Extents == IF c.sized THEN {<<"size", 1>>} ELSE {}
<1>1. ASSUME NEW n \in 1 .. 4
      PROVE  /\ IsFiniteSet(Corners(n)) /\ Cardinality(Corners(n)) = n
             /\ IsFiniteSet(Colours(n))
             /\ Cardinality(Colours(n)) = IF c.shaded THEN n - 1 ELSE 0
             /\ IsFiniteSet(Texels(n))
             /\ Cardinality(Texels(n)) = IF c.textured THEN n ELSE 0
  <2>1. IsFiniteSet({}) /\ Cardinality({}) = 0
    BY FS_EmptySet
  <2>2. IsFiniteSet(Corners(n)) /\ Cardinality(Corners(n)) = n
    BY Numbered, Zenon
  <2>3. IsFiniteSet({"colour"} \X (2 .. n)) /\ Cardinality({"colour"} \X (2 .. n)) = n - 1
    BY Numbered, Zenon
  <2>4. IsFiniteSet({"texture"} \X (1 .. n)) /\ Cardinality({"texture"} \X (1 .. n)) = n
    BY Numbered, Zenon
  <2> QED
    BY <2>1, <2>2, <2>3, <2>4
<1>2. /\ IsFiniteSet(Extents)
      /\ Cardinality(Extents) = IF c.sized THEN 1 ELSE 0
  BY FS_EmptySet, FS_Singleton
<1>3. ASSUME NEW n, NEW m, NEW k
      PROVE  /\ Corners(n) \cap Colours(m) = {}
             /\ (Corners(n) \cup Colours(m)) \cap Texels(k) = {}
             /\ Corners(n) \cap Texels(m) = {}
             /\ (Corners(n) \cup Texels(m)) \cap Extents = {}
  <2>1. \A w \in Corners(n) : w[1] = "vertex"
    OBVIOUS
  <2>2. \A w \in Colours(m) : w[1] = "colour"
    OBVIOUS
  <2>3. \A w \in Texels(k) : w[1] = "texture"
    OBVIOUS
  <2>4. \A w \in Texels(m) : w[1] = "texture"
    OBVIOUS
  <2>5. \A w \in Extents : w[1] = "size"
    OBVIOUS
  <2> HIDE DEF Corners, Colours, Texels, Extents
  <2>6. "vertex" # "colour" /\ "vertex" # "texture" /\ "colour" # "texture"
        /\ "vertex" # "size" /\ "texture" # "size"
    OBVIOUS
  <2> QED
    BY <2>1, <2>2, <2>3, <2>4, <2>5, <2>6
<1>4. /\ c.corners \in 3 .. 4 /\ c.family \in Family
      /\ c.shaded \in BOOLEAN /\ c.textured \in BOOLEAN /\ c.sized \in BOOLEAN
  BY Fields
<1> HIDE DEF Corners, Colours, Texels, Extents
<1>5. CASE c.family = "polygon"
  <2> DEFINE n == c.corners
  <2>1. n \in 1 .. 4 /\ n \in 3 .. 4
    BY <1>4
  <2> HIDE DEF n
  <2>2. /\ IsFiniteSet(Corners(n) \cup Colours(n))
        /\ Cardinality(Corners(n) \cup Colours(n)) = Cardinality(Corners(n)) + Cardinality(Colours(n))
    BY <1>1, <1>3, <2>1, Joined
  <2>3. Cardinality((Corners(n) \cup Colours(n)) \cup Texels(n))
          = Cardinality(Corners(n) \cup Colours(n)) + Cardinality(Texels(n))
    BY <1>1, <1>3, <2>1, <2>2, Joined, ZenonT(40)
  <2>4. Operands(c) = (Corners(n) \cup Colours(n)) \cup Texels(n)
    BY <1>5 DEF Operands, Corners, Colours, Texels, n
  <2>5. Length(c) = 1 + n * (IF c.textured THEN 2 ELSE 1) + (IF c.shaded THEN n - 1 ELSE 0)
    BY <1>5 DEF Length, ColourWords, n
  <2>6. Cardinality(Operands(c)) = n + (IF c.shaded THEN n - 1 ELSE 0)
                                     + (IF c.textured THEN n ELSE 0)
    BY <1>1, <2>1, <2>2, <2>3, <2>4
  <2> QED
    BY <1>4, <2>1, <2>5, <2>6
<1>6. CASE c.family = "line"
  <2>1. Cardinality(Corners(2) \cup Colours(2)) = Cardinality(Corners(2)) + Cardinality(Colours(2))
    <3>1. 2 \in 1 .. 4
      OBVIOUS
    <3>2. /\ IsFiniteSet(Corners(2)) /\ IsFiniteSet(Colours(2))
          /\ Corners(2) \cap Colours(2) = {}
      BY <1>1, <1>3, <3>1
    <3> QED
      BY <3>2, Joined
  <2>2. Operands(c) = Corners(2) \cup Colours(2)
    BY <1>6 DEF Operands, Corners, Colours
  <2>3. Length(c) = 3 + (IF c.shaded THEN 1 ELSE 0)
    BY <1>6 DEF Length
  <2>4. Cardinality(Corners(2)) = 2 /\ Cardinality(Colours(2)) = IF c.shaded THEN 1 ELSE 0
    BY <1>1
  <2> QED
    BY <2>1, <2>2, <2>3, <2>4
<1>7. CASE c.family = "rectangle"
  <2>1. /\ IsFiniteSet(Corners(1) \cup Texels(1))
        /\ Cardinality(Corners(1) \cup Texels(1)) = Cardinality(Corners(1)) + Cardinality(Texels(1))
    <3>1. 1 \in 1 .. 4
      OBVIOUS
    <3>2. /\ IsFiniteSet(Corners(1)) /\ IsFiniteSet(Texels(1))
          /\ Corners(1) \cap Texels(1) = {}
      BY <1>1, <1>3, <3>1
    <3> QED
      BY <3>2, Joined
  <2>2. Cardinality((Corners(1) \cup Texels(1)) \cup Extents)
          = Cardinality(Corners(1) \cup Texels(1)) + Cardinality(Extents)
    BY <1>2, <1>3, <2>1, Joined
  <2>3. Operands(c) = (Corners(1) \cup Texels(1)) \cup Extents
    BY <1>7 DEF Operands, Corners, Texels, Extents
  <2>4. Length(c) = 2 + (IF c.sized THEN 1 ELSE 0) + (IF c.textured THEN 1 ELSE 0)
    BY <1>7 DEF Length
  <2>5. Cardinality(Corners(1)) = 1 /\ Cardinality(Texels(1)) = IF c.textured THEN 1 ELSE 0
    BY <1>1
  <2> QED
    BY <1>2, <2>1, <2>2, <2>3, <2>4, <2>5
<1>8. CASE c.family = "copy"
  <2>1. Operands(c) = ({<<"from", 1>>} \cup {<<"to", 1>>}) \cup {<<"size", 1>>}
    BY <1>8 DEF Operands
  <2>2. <<"from", 1>> # <<"to", 1>> /\ <<"from", 1>> # <<"size", 1>> /\ <<"to", 1>> # <<"size", 1>>
    OBVIOUS
  <2> DEFINE S == {<<"from", 1>>} \cup {<<"to", 1>>}
  <2>3. /\ IsFiniteSet(S) /\ Cardinality(S) = 2 /\ <<"size", 1>> \notin S
    BY <2>2, Two
  <2>4. Cardinality(Operands(c)) = 3
    <3>1. Operands(c) = S \cup {<<"size", 1>>}
      BY <2>1
    <3> HIDE DEF S
    <3>2. Cardinality(S \cup {<<"size", 1>>}) = Cardinality(S) + 1
      BY <2>3, FS_AddElement
    <3> QED
      BY <2>3, <3>1, <3>2
  <2>5. Length(c) = 4
    BY <1>8 DEF Length
  <2> QED
    BY <2>4, <2>5
<1>9. CASE c.family \in {"fill", "load", "store"}
  <2>1. Operands(c) = {<<"corner", 1>>} \cup {<<"size", 1>>}
    BY <1>9 DEF Operands
  <2>2. Cardinality(Operands(c)) = 2
    <3>1. <<"corner", 1>> # <<"size", 1>>
      OBVIOUS
    <3> QED
      BY <2>1, <3>1, Two, Zenon
  <2>3. Length(c) = 3
    BY <1>9 DEF Length
  <2> QED
    BY <2>2, <2>3
<1>10. CASE c.family \in {"bare", "clear", "setting", "drawMode"}
  <2>1. Operands(c) = {} /\ Length(c) = 1
    BY <1>10 DEF Operands, Length
  <2> QED
    BY <2>1, FS_EmptySet
<1> QED
  BY <1>4, <1>5, <1>6, <1>7, <1>8, <1>9, <1>10 DEF Family

-----------------------------------------------------------------------------
(* Transfers.                                                              *)

Transfers ==
  {t \in [width : 0 .. Width, height : 0 .. Height, done : 0 .. Width * Height] :
     t.done <= Pixels(t)}

LEMMA Extents ==
  ASSUME NEW v \in Nat, NEW limit \in Nat \ {0}
  PROVE  Extent(v, limit) \in 1 .. limit
<1>1. (v + limit - 1) % limit \in 0 .. limit - 1
  OBVIOUS
<1> QED
  BY <1>1 DEF Extent

LEMMA Area ==
  ASSUME NEW w \in Nat, NEW h \in Nat, NEW w2 \in Nat, NEW h2 \in Nat, w <= w2, h <= h2
  PROVE  /\ w * h \in Nat /\ w * h <= w2 * h2 /\ w2 * h2 \in Nat
         /\ w > 0 /\ h > 0 => w * h > 0
<1>1. w * h \in Nat /\ w2 * h2 \in Nat
  OBVIOUS
<1>2. w * h <= w * h2
  <2>1. w * (h2 - h) >= 0
    OBVIOUS
  <2>2. w * (h2 - h) = (w * h2) - (w * h)
    OBVIOUS
  <2> QED
    BY <2>1, <2>2
<1>3. w * h2 <= w2 * h2
  <2>1. (w2 - w) * h2 >= 0
    OBVIOUS
  <2>2. (w2 - w) * h2 = (w2 * h2) - (w * h2)
    OBVIOUS
  <2> QED
    BY <2>1, <2>2
<1>4. w > 0 /\ h > 0 => w * h > 0
  OBVIOUS
<1>5. w * h2 \in Nat
  OBVIOUS
<1> QED
  BY <1>1, <1>2, <1>3, <1>4, <1>5

LEMMA TransferType ==
  ASSUME NEW t \in Transfers
  PROVE  /\ Pixels(t) \in Nat /\ Pixels(t) <= Width * Height
         /\ t.done \in Nat /\ t.done <= Pixels(t) /\ Width * Height \in Nat
         /\ \A d \in 0 .. Pixels(t) :
              [t EXCEPT !.done = d] \in Transfers /\ Pixels([t EXCEPT !.done = d]) = Pixels(t)
<1>1. /\ Width \in Nat /\ Height \in Nat /\ t.width \in 0 .. Width /\ t.height \in 0 .. Height
      /\ t.done \in 0 .. Width * Height /\ t.done <= Pixels(t)
      /\ t \in [width : 0 .. Width, height : 0 .. Height, done : 0 .. Width * Height]
  BY GpuAssumption DEF Transfers
<1>2. t.width \in Nat /\ t.height \in Nat /\ t.width <= Width /\ t.height <= Height
  BY <1>1
<1>3. Pixels(t) \in Nat /\ Pixels(t) <= Width * Height /\ Width * Height \in Nat
  BY <1>1, <1>2, Area DEF Pixels
<1>4. ASSUME NEW d \in 0 .. Pixels(t)
      PROVE  [t EXCEPT !.done = d] \in Transfers /\ Pixels([t EXCEPT !.done = d]) = Pixels(t)
  <2> DEFINE u == [t EXCEPT !.done = d]
  <2>1. u.width = t.width /\ u.height = t.height /\ u.done = d
    BY <1>1
  <2>2. Pixels(u) = Pixels(t)
    BY <2>1 DEF Pixels
  <2>3. d \in 0 .. Width * Height
    <3> HIDE DEF u
    <3> QED
      BY <1>3
  <2>4. u \in [width : 0 .. Width, height : 0 .. Height, done : 0 .. Width * Height]
    BY <1>1, <2>3
  <2> HIDE DEF u
  <2>5. u.done <= Pixels(u)
    BY <1>3, <2>1, <2>2
  <2>6. u \in Transfers
    BY <2>4, <2>5 DEF Transfers
  <2> QED
    BY <2>2, <2>6 DEF u
<1> QED
  BY <1>1, <1>3, <1>4

\* begin_transfer: something to move, and none of it moved.
LEMMA TransferBegun ==
  ASSUME NEW c, NEW s \in Sizes, transfer \in Transfers
  PROVE  /\ Begun(c, s) \in Transfers
         /\ c.family \in {"load", "store"} =>
              Begun(c, s).done = 0 /\ Pixels(Begun(c, s)) > 0
<1>1. CASE c.family \in {"load", "store"}
  <2> DEFINE b == Begun(c, s)
  <2> DEFINE w == Extent(s[1], Width)
  <2> DEFINE h == Extent(s[2], Height)
  <2>1. s[1] \in Nat /\ s[2] \in Nat /\ Width \in Nat \ {0} /\ Height \in Nat \ {0}
    BY GpuAssumption
  <2>2. w \in 1 .. Width /\ h \in 1 .. Height
    BY <2>1, Extents
  <2>3. b = [width |-> w, height |-> h, done |-> 0]
    BY <1>1 DEF Begun
  <2> HIDE DEF b, w, h
  <2>4. w * h \in Nat /\ w * h > 0 /\ Width * Height \in Nat
    BY <2>1, <2>2, Area
  <2>5. Pixels(b) = w * h /\ b.done = 0
    BY <2>3 DEF Pixels
  <2>6. b \in [width : 0 .. Width, height : 0 .. Height, done : 0 .. Width * Height]
    <3>1. w \in 0 .. Width /\ h \in 0 .. Height /\ 0 \in 0 .. Width * Height
      BY <2>1, <2>2, <2>4
    <3> QED
      BY <2>3, <3>1
  <2>7. b \in Transfers
    BY <2>4, <2>5, <2>6 DEF Transfers
  <2> QED
    BY <2>4, <2>5, <2>7 DEF b
<1>2. CASE c.family \notin {"load", "store"}
  BY <1>2 DEF Begun
<1> QED
  BY <1>1, <1>2

\* A word of pixels, of those that are left.
LEMMA WordMoved ==
  ASSUME NEW t \in Transfers, t.done < Pixels(t), t.done % 2 = 0
  PROVE  LET u == TwoPixels(t)
             left == WordsOf(t) - t.done \div 2
         IN /\ u \in Transfers /\ Pixels(u) = Pixels(t)
            /\ left \in Nat \ {0}
            /\ Done(u) <=> left = 1
            /\ ~Done(u) => /\ u.done < Pixels(u) /\ u.done % 2 = 0
                           /\ WordsOf(u) - u.done \div 2 = left - 1
<1> DEFINE p == Pixels(t)
<1> DEFINE n == t.done
<1> DEFINE m == IF n + 2 > p THEN p ELSE n + 2
<1> DEFINE u == [t EXCEPT !.done = m]
<1>1. p \in Nat /\ n \in Nat /\ n < p /\ n % 2 = 0
  BY TransferType
<1>2. u = TwoPixels(t)
  BY DEF TwoPixels
<1> HIDE DEF p, n
<1>3. m \in 0 .. p
  BY <1>1
<1>4. u \in Transfers /\ Pixels(u) = p
  <2> HIDE DEF m
  <2> QED
    BY <1>3, TransferType DEF p
<1>5. u.done = m
  <2> HIDE DEF m
  <2> QED
    BY DEF Transfers
<1> HIDE DEF u
<1>6. Done(u) <=> m >= p
  BY <1>4, <1>5 DEF Done
<1> DEFINE left == ((p + 1) \div 2) - (n \div 2)
<1>7. /\ left \in Nat \ {0}
      /\ m >= p <=> left = 1
      /\ ~(m >= p) => m < p /\ m % 2 = 0 /\ ((p + 1) \div 2) - (m \div 2) = left - 1
  BY <1>1
<1> HIDE DEF m, left
<1>8. left = WordsOf(t) - t.done \div 2 /\ WordsOf(u) = (p + 1) \div 2
  BY <1>4 DEF WordsOf, left, p, n
<1> QED
  BY <1>2, <1>4, <1>5, <1>6, <1>7, <1>8 DEF left, p

-----------------------------------------------------------------------------
(* The backlog, which no word runs past its bounds.                        *)

Backlog == behind \in Nat /\ owed \in 0 .. CostScale - 1 /\ fifo \in 0 .. FifoWords

LEMMA Charged ==
  ASSUME Backlog, NEW f \in Family, NEW cost \in Costs[f], Charge(cost)
  PROVE  behind' \in Nat /\ owed' \in 0 .. CostScale - 1
<1>1. cost \in Nat /\ CostScale \in Nat \ {0}
  BY GpuAssumption
<1> DEFINE sum == owed + cost
<1>2. sum \in Nat /\ behind \in Nat
  BY <1>1 DEF Backlog
<1>3. behind' = behind + sum \div CostScale /\ owed' = sum % CostScale
  BY DEF Charge
<1> HIDE DEF sum
<1>4. sum \div CostScale \in Nat /\ sum % CostScale \in 0 .. CostScale - 1
  BY <1>1, <1>2
<1> QED
  BY <1>2, <1>3, <1>4

LEMMA QueuedInFile ==
  ASSUME Backlog
  PROVE  Queued \in 0 .. FifoWords
BY GpuAssumption DEF Backlog, Queued

LEMMA BacklogKept ==
  ASSUME Backlog, op \in Command, \A c \in Commands : c \in Command, [Next]_vars
  PROVE  Backlog'
<1>1. FifoWords \in Nat /\ CostScale \in Nat \ {0} /\ 0 \in 0 .. FifoWords
      /\ 0 \in 0 .. CostScale - 1
  BY GpuAssumption
<1>2. Queued \in 0 .. FifoWords
  BY QueuedInFile
<1>3. ASSUME NEW c \in Commands, CommandWord(c) PROVE Backlog'
  <2>1. op' \in Command
    BY <1>3 DEF CommandWord
  <2>2. op'.family \in Family
    BY <2>1, Fields
  <2>3. fifo' = Queued
    BY <1>3 DEF CommandWord
  <2>4. \/ UNCHANGED <<behind, owed>>
        \/ \E cost \in Costs[op'.family] : Charge(cost)
    BY <1>3 DEF CommandWord
  <2> QED
    BY <1>2, <2>2, <2>3, <2>4, Charged DEF Backlog
<1>4. CASE PixelWord \/ LastWord
  BY <1>2, <1>4 DEF PixelWord, LastWord, Backlog
<1>5. CASE VertexWord
  <2>1. fifo' = Queued /\ (UNCHANGED <<behind, owed>> \/ \E cost \in Costs["line"] : Charge(cost))
    BY <1>5 DEF VertexWord
  <2>2. "line" \in Family
    BY DEF Family
  <2> QED
    BY <1>2, <2>1, <2>2, Charged DEF Backlog
<1>6. CASE ReadWord
  <2>1. fifo' \in {fifo, 0} /\ \E cost \in Costs["store"] : Charge(cost)
    BY <1>6 DEF ReadWord
  <2>2. "store" \in Family
    BY DEF Family
  <2> QED
    BY <1>1, <2>1, <2>2, Charged DEF Backlog
<1>7. CASE Gp1
  BY <1>1, <1>7 DEF Gp1, Gp1Reset, Gp1Abandon, Backlog
<1>8. CASE BeginSync \/ EndSync \/ UNCHANGED vars
  BY <1>8 DEF BeginSync, EndSync, vars, backlog, Backlog
<1>9. CASE Wait
  BY <1>9 DEF Wait, Drawing, Backlog
<1>10. CASE Restore
  BY <1>10 DEF Restore, Snapshot, Backlog
<1> QED
  BY <1>3, <1>4, <1>5, <1>6, <1>7, <1>8, <1>9, <1>10 DEF Next, Gp0

-----------------------------------------------------------------------------
(* The palette.                                                            *)

Textures ==
  /\ depth \in Depths /\ palette \in Held
  /\ drawn \in [clut : Cluts, depth : {4, 8}] \cup {NoDraw}

\* hold_clut leaves the GPU with all a primitive of that depth can ask of the
\* palette it names.
LEMMA Holding ==
  ASSUME palette \in Held, NEW clut \in Cluts, NEW d \in Depths
  PROVE  LET p == Hold(clut, d) IN
         /\ p \in Held
         /\ d # 15 => /\ p.source = clut
                      /\ p.entries >= (IF d = 8 THEN 256 ELSE 16)
                      /\ d = 8 => p.upper = clut /\ p.together
<1> DEFINE wanted == IF d = 4 THEN 16 ELSE 256
<1>1. /\ palette.source \in Cluts \cup {"none"} /\ palette.entries \in {0, 16, 256}
      /\ palette.upper \in Cluts \cup {"none"} /\ palette.together \in BOOLEAN
      /\ palette.entries = 256 => palette.together /\ palette.upper = palette.source
  BY DEF Held, Palette
<1>2. CASE d = 15 \/ (palette.source = clut /\ wanted <= palette.entries)
  <2>1. Hold(clut, d) = palette
    BY <1>2 DEF Hold
  <2>2. d # 15 => palette.source = clut /\ wanted <= palette.entries
    BY <1>2
  <2>3. d \in {4, 8, 15}
    BY DEF Depths
  <2>4. d # 15 => palette.entries >= (IF d = 8 THEN 256 ELSE 16)
    BY <1>1, <2>2, <2>3
  <2>5. d = 8 => palette.entries = 256
    BY <1>1, <2>4
  <2> QED
    BY <1>1, <2>1, <2>2, <2>4, <2>5
<1>3. CASE ~(d = 15 \/ (palette.source = clut /\ wanted <= palette.entries))
  <2> DEFINE q == [source |-> clut, entries |-> wanted,
                   upper |-> IF wanted = 256 THEN clut ELSE palette.upper,
                   together |-> wanted = 256]
  <2>1. Hold(clut, d) = q
    BY <1>3 DEF Hold
  <2>2. q \in Palette
    BY <1>1 DEF Palette
  <2>3. /\ q.source = clut /\ q.entries = wanted
        /\ wanted = 256 => q.upper = clut /\ q.together
    OBVIOUS
  <2>4. d \in {4, 8, 15}
    BY DEF Depths
  <2> HIDE DEF q
  <2>5. q \in Held
    BY <2>2, <2>3 DEF Held
  <2>6. wanted >= (IF d = 8 THEN 256 ELSE 16) /\ (d = 8 => wanted = 256)
    BY <1>3, <2>4
  <2> HIDE DEF wanted
  <2> QED
    BY <2>1, <2>3, <2>5, <2>6
<1> QED
  BY <1>2, <1>3

LEMMA EffectTextures ==
  ASSUME Textures, NEW c, Effect(c)
  PROVE  Textures' /\ PaletteWhole'
<1>1. ASSUME Plain PROVE Textures' /\ PaletteWhole'
  BY <1>1 DEF Plain, Textures, PaletteWhole
<1>2. CASE c.family = "clear"
  <2>1. /\ palette' = [palette EXCEPT !.entries = 0]
        /\ drawn' = NoDraw /\ UNCHANGED depth
    BY <1>2 DEF Effect
  <2>2. palette' \in Held
    BY <2>1 DEF Textures, Held, Palette
  <2> QED
    BY <2>1, <2>2 DEF Textures, PaletteWhole
<1>3. CASE c.family = "drawMode"
  BY <1>3 DEF Effect, Textures, PaletteWhole
<1>4. CASE c.family \in {"polygon", "rectangle"} /\ c.textured
  <2>1. PICK clut \in Cluts, own \in Depths, empty \in BOOLEAN : Texture(c, clut, own, empty)
    BY <1>4 DEF Effect
  <2>2. depth' \in Depths
    BY <2>1 DEF Texture, Textures
  <2>3. palette' = IF empty THEN palette ELSE Hold(clut, depth')
    BY <2>1 DEF Texture
  <2>4. palette \in Held
    BY DEF Textures
  <2>5. palette' \in Held
    BY <2>2, <2>3, <2>4, Holding
  <2>6. CASE empty \/ depth' = 15
    <3>1. drawn' = NoDraw
      BY <2>1, <2>6 DEF Texture
    <3> QED
      BY <2>2, <2>5, <3>1 DEF Textures, PaletteWhole
  <2>7. CASE ~empty /\ depth' # 15
    <3>1. drawn' = [clut |-> clut, depth |-> depth']
      BY <2>1, <2>7 DEF Texture
    <3>2. drawn'.clut = clut /\ drawn'.depth = depth'
      BY <3>1
    <3>3. palette' = Hold(clut, depth')
      BY <2>3, <2>7
    <3>4. /\ palette'.source = clut
          /\ palette'.entries >= (IF depth' = 8 THEN 256 ELSE 16)
          /\ depth' = 8 => palette'.upper = clut /\ palette'.together
      BY <2>2, <2>4, <2>7, <3>3, Holding
    <3>5. PaletteWhole'
      BY <3>2, <3>4 DEF PaletteWhole
    <3>6. drawn' \in [clut : Cluts, depth : {4, 8}]
      BY <2>2, <2>7, <3>1 DEF Depths
    <3> QED
      BY <2>2, <2>5, <3>5, <3>6 DEF Textures
  <2> QED
    BY <2>6, <2>7
<1> QED
  <2>1. CASE /\ c.family # "clear" /\ c.family # "drawMode"
             /\ ~(c.family \in {"polygon", "rectangle"} /\ c.textured)
    BY <1>1, <2>1 DEF Effect
  <2> QED
    BY <1>2, <1>3, <1>4, <2>1

LEMMA TexturesKept ==
  ASSUME Textures, [Next]_vars, PaletteWhole
  PROVE  Textures' /\ PaletteWhole'
<1>1. ASSUME Plain PROVE Textures' /\ PaletteWhole'
  BY <1>1 DEF Plain, Textures, PaletteWhole
<1>2. ASSUME NEW c \in Commands, CommandWord(c) PROVE Textures' /\ PaletteWhole'
  <2>1. Plain \/ Effect(op')
    BY <1>2 DEF CommandWord
  <2> QED
    BY <1>1, <2>1, EffectTextures
<1>3. CASE PixelWord \/ LastWord \/ VertexWord \/ ReadWord
  BY <1>1, <1>3 DEF PixelWord, LastWord, VertexWord, ReadWord
<1>4. CASE Gp1
  BY <1>4 DEF Gp1, Gp1Reset, Gp1Abandon, Textures, Depths, PaletteWhole
<1>5. CASE BeginSync \/ EndSync \/ Wait
  BY <1>5 DEF BeginSync, EndSync, Wait, Textures, PaletteWhole
<1>6. CASE Restore
  BY <1>6 DEF Restore, Snapshot, Textures, PaletteWhole
<1>7. CASE UNCHANGED vars
  BY <1>7 DEF vars, Textures, PaletteWhole
<1> QED
  BY <1>2, <1>3, <1>4, <1>5, <1>6, <1>7 DEF Next, Gp0

-----------------------------------------------------------------------------
(* The port.  The software and the GPU agree about where in the stream of  *)
(* words they are; for that to last, nothing that would take the port is   *)
(* sent while pixels are read back, and a transfer that is under way has   *)
(* pixels left, and an even number of them behind it.                      *)

Port ==
  /\ mode \in {"Command", "ImageLoad", "ImageStore", "PolyLine"}
  /\ op \in Commands \cup {Bare}
  /\ words \in 0 .. Length(op) - 1
  /\ transfer \in Transfers
  /\ colour \in BOOLEAN /\ waiting \in BOOLEAN
  /\ sender \in [words : Nat, image : Nat, vertices : BOOLEAN,
                 colour : BOOLEAN, read : Nat]

Place ==
  /\ InStep
  /\ mode \in {"ImageLoad", "PolyLine"} => words = 0
  /\ mode = "ImageStore" /\ words > 0 => op.family \notin {"load", "store"} /\ ~op.more
  /\ mode \in {"ImageLoad", "ImageStore"} =>
       transfer.done < Pixels(transfer) /\ transfer.done % 2 = 0

GpuInv == Port /\ Place /\ Backlog /\ Textures /\ PaletteWhole

LEMMA AllCommands == \A c \in Commands \cup {Bare} : c \in Command
<1>1. Bare \in Command
  BY DEF Bare, Command, Family
<1> QED
  BY <1>1, GpuAssumption

LEMMA NothingMoved == NoTransfer \in Transfers
<1>1. Width \in Nat /\ Height \in Nat
  BY GpuAssumption
<1>2. Width * Height \in Nat /\ 0 * 0 = 0
  BY <1>1
<1> QED
  BY <1>1, <1>2 DEF NoTransfer, Transfers, Pixels

\* A word of a command: the count the GPU has left of it is the software's.
LEMMA CommandInStep ==
  ASSUME Port, Place, NEW c \in Commands, CommandWord(c)
  PROVE  Port' /\ Place'
<1>1. /\ sender.words \in Nat /\ sender.image \in Nat /\ sender.read \in Nat
      /\ sender.vertices \in BOOLEAN /\ sender.colour \in BOOLEAN
      /\ sender \in [words : Nat, image : Nat, vertices : BOOLEAN,
                     colour : BOOLEAN, read : Nat]
  BY DEF Port
<1>2. words \in Nat
  BY DEF Port
<1>3. /\ op' = c
      /\ mode \in {"Command", "ImageStore"}
      /\ sender.image = 0 /\ ~sender.vertices
      /\ mode = "ImageStore" => c.family \notin {"load", "store"} /\ ~c.more
  <2>1. Sendable(c) /\ mode \in {"Command", "ImageStore"} /\ op' = IF words = 0 THEN c ELSE op
    BY DEF CommandWord
  <2>2. sender.image = 0 /\ ~sender.vertices
    BY <1>1, <2>1 DEF Place, InStep
  <2>3. CASE sender.words > 0
    BY <2>1, <2>2, <2>3 DEF Sendable, Place, InStep
  <2>4. CASE ~(sender.words > 0)
    <3>1. words = 0
      BY <1>2, <2>4 DEF Place, InStep
    <3> QED
      BY <1>1, <2>1, <2>2, <2>4, <3>1 DEF Sendable, Place, InStep
  <2> QED
    BY <2>3, <2>4
<1>4. c \in Command /\ Length(c) \in Nat \ {0} /\ Cardinality(Operands(c)) = Length(c) - 1
  BY AllCommands, LengthOfOperands
<1>5. /\ Remaining(c) \in Nat
      /\ Remaining(c) = Length(c) - words - 1
  <2>1. CASE sender.words > 0
    <3>1. c = op /\ words > 0
      BY <1>3, <2>1 DEF CommandWord, Sendable, Place, InStep
    <3>2. Length(op) - words = sender.words
      BY <3>1 DEF Place, InStep
    <3>3. Remaining(c) = sender.words - 1
      BY <2>1 DEF Remaining
    <3> QED
      BY <1>1, <1>2, <1>4, <2>1, <3>1, <3>2, <3>3
  <2>2. CASE ~(sender.words > 0)
    <3>1. words = 0
      BY <1>2, <2>2 DEF Place, InStep
    <3>2. Remaining(c) = Cardinality(Operands(c))
      BY <2>2 DEF Remaining
    <3> QED
      BY <1>4, <3>1, <3>2
  <2> QED
    BY <2>1, <2>2
<1> DEFINE left == Remaining(c)
<1> HIDE DEF left
<1>6. CASE words + 1 < Length(op')
  <2>1. /\ words' = words + 1
        /\ sender' = [sender EXCEPT !.words = left]
        /\ UNCHANGED <<mode, transfer, colour, waiting>>
    <3>1. op' = c /\ ~(words + 1 >= Length(op'))
      BY <1>2, <1>3, <1>4, <1>6
    <3> QED
      BY <3>1, Zenon DEF CommandWord, left
  <2>2. left \in Nat \ {0} /\ Length(c) - words' = left
    BY <1>2, <1>3, <1>4, <1>5, <1>6, <2>1 DEF left
  <2>3. /\ sender'.words = left /\ sender'.image = sender.image /\ sender'.read = sender.read
        /\ sender'.vertices = sender.vertices /\ sender'.colour = sender.colour
        /\ sender' \in [words : Nat, image : Nat, vertices : BOOLEAN,
                        colour : BOOLEAN, read : Nat]
    BY <1>1, <2>1, <2>2
  <2>4. words' \in 0 .. Length(c) - 1
    BY <1>2, <1>3, <1>4, <1>6, <2>1
  <2>5. Port'
    BY <1>3, <2>1, <2>3, <2>4 DEF Port
  <2>6. InStep'
    <3>1. words' > 0 /\ sender'.words > 0
      BY <1>2, <2>1, <2>2, <2>3
    <3>2. Length(op') - words' = sender'.words
      BY <1>3, <2>2, <2>3
    <3> QED
      BY <2>1, <2>3, <3>1, <3>2 DEF Place, InStep
  <2>7. mode' \notin {"ImageLoad", "PolyLine"}
    BY <1>3, <2>1
  <2> QED
    BY <1>3, <2>1, <2>5, <2>6, <2>7 DEF Place
<1>7. CASE ~(words + 1 < Length(op'))
  <2>1. /\ words' = 0 /\ waiting' = waiting
        /\ mode' = CASE op'.family = "load" -> "ImageLoad"
                     [] op'.family = "store" -> "ImageStore"
                     [] op'.family = "line" /\ op'.more -> "PolyLine"
                     [] OTHER -> mode
        /\ colour' = (op'.family # "line" /\ colour)
    BY <1>7 DEF CommandWord
  <2>2. left = 0
    BY <1>2, <1>3, <1>4, <1>5, <1>7 DEF left
  <2>3. PICK s \in Sizes : transfer' = Begun(op', s) /\ sender' = After(c, transfer')
    BY <1>7, <2>2 DEF CommandWord, left
  <2>4. /\ transfer' = Begun(c, s) /\ transfer' \in Transfers
        /\ c.family \in {"load", "store"} => transfer'.done = 0 /\ Pixels(transfer') > 0
    BY <1>3, <2>3, TransferBegun DEF Port
  <2>5. Pixels(transfer') \in Nat
    BY <2>4, TransferType
  <2>6. colour' \in BOOLEAN /\ (c.family = "line" => colour' = FALSE)
    BY <1>3, <2>1, Zenon DEF Port
  <2>7. 0 \in 0 .. Length(c) - 1
    BY <1>4
  <2> DEFINE half == WordsOf(transfer')
  <2>8. half \in Nat /\ (Pixels(transfer') > 0 => half > 0)
    BY <2>5 DEF WordsOf
  <2>9. c.family \in {"load", "store"} => WordsOf(transfer') - transfer'.done \div 2 = half
    BY <2>4, <2>8
  <2> HIDE DEF half
  <2>10. CASE c.family = "load"
    <3>1. mode' = "ImageLoad"
      BY <1>3, <2>1, <2>10
    <3>2. sender' = [sender EXCEPT !.words = 0, !.image = half]
      BY <2>3, <2>10 DEF After, half
    <3>3. /\ sender'.words = 0 /\ sender'.image = half /\ sender'.read = sender.read
          /\ sender'.vertices = sender.vertices
          /\ sender' \in [words : Nat, image : Nat, vertices : BOOLEAN,
                          colour : BOOLEAN, read : Nat]
      BY <1>1, <2>8, <3>2
    <3>4. sender.read = 0 /\ mode = "Command"
      BY <1>1, <1>3, <2>10 DEF Place, InStep
    <3>5. Port'
      BY <1>3, <2>1, <2>4, <2>6, <2>7, <3>1, <3>3 DEF Port
    <3>6. half > 0 /\ half = half + 0
      BY <2>4, <2>8, <2>10
    <3>7. InStep'
      BY <1>3, <2>1, <2>8, <2>9, <2>10, <3>1, <3>3, <3>4, <3>6 DEF InStep
    <3>8. transfer'.done < Pixels(transfer') /\ transfer'.done % 2 = 0
      BY <2>4, <2>5, <2>10
    <3> QED
      BY <2>1, <3>1, <3>5, <3>7, <3>8 DEF Place
  <2>11. CASE c.family = "store"
    <3>1. mode' = "ImageStore"
      BY <1>3, <2>1, <2>11
    <3>2. sender' = [sender EXCEPT !.words = 0, !.read = half]
      BY <2>3, <2>11 DEF After, half
    <3>3. /\ sender'.words = 0 /\ sender'.image = sender.image /\ sender'.read = half
          /\ sender'.vertices = sender.vertices
          /\ sender' \in [words : Nat, image : Nat, vertices : BOOLEAN,
                          colour : BOOLEAN, read : Nat]
      BY <1>1, <2>8, <3>2
    <3>4. Port'
      BY <1>3, <2>1, <2>4, <2>6, <2>7, <3>1, <3>3 DEF Port
    <3>5. half > 0 /\ half = 0 + half
      BY <2>4, <2>8, <2>11
    <3>6. InStep'
      BY <1>3, <2>1, <2>8, <2>9, <2>11, <3>1, <3>3, <3>5 DEF InStep
    <3>7. transfer'.done < Pixels(transfer') /\ transfer'.done % 2 = 0
      BY <2>4, <2>5, <2>11
    <3> QED
      BY <2>1, <3>1, <3>4, <3>6, <3>7 DEF Place
  <2>12. CASE c.family = "line" /\ c.more
    <3>1. mode' = "PolyLine"
      BY <1>3, <2>1, <2>12
    <3>2. sender' = [sender EXCEPT !.words = 0, !.vertices = TRUE, !.colour = FALSE]
      BY <2>3, <2>12 DEF After
    <3>3. /\ sender'.words = 0 /\ sender'.image = sender.image /\ sender'.read = sender.read
          /\ sender'.vertices = TRUE /\ sender'.colour = FALSE
          /\ sender' \in [words : Nat, image : Nat, vertices : BOOLEAN,
                          colour : BOOLEAN, read : Nat]
      BY <1>1, <3>2
    <3>4. Port'
      BY <1>3, <2>1, <2>4, <2>6, <2>7, <3>1, <3>3 DEF Port
    <3>5. mode = "Command" /\ sender.read = 0
      BY <1>1, <1>3, <2>12 DEF Place, InStep
    <3>6. colour' = sender'.colour
      BY <2>6, <2>12, <3>3
    <3>7. InStep'
      BY <1>3, <2>1, <3>1, <3>3, <3>5, <3>6 DEF InStep
    <3> QED
      BY <2>1, <3>1, <3>4, <3>7 DEF Place
  <2>13. CASE c.family \notin {"load", "store"} /\ ~(c.family = "line" /\ c.more)
    <3>1. mode' = mode
      BY <1>3, <2>1, <2>13
    <3>2. sender' = [sender EXCEPT !.words = 0] /\ transfer' = transfer
      BY <2>3, <2>4, <2>13 DEF After, Begun
    <3>3. /\ sender'.words = 0 /\ sender'.image = sender.image /\ sender'.read = sender.read
          /\ sender'.vertices = sender.vertices
          /\ sender' \in [words : Nat, image : Nat, vertices : BOOLEAN,
                          colour : BOOLEAN, read : Nat]
      BY <1>1, <3>2
    <3>4. Port'
      BY <1>3, <2>1, <2>4, <2>6, <2>7, <3>1, <3>3 DEF Port
    <3>5. InStep'
      BY <1>3, <2>1, <3>1, <3>2, <3>3 DEF Place, InStep
    <3> QED
      BY <1>3, <2>1, <3>1, <3>2, <3>4, <3>5 DEF Place
  <2> QED
    BY <2>10, <2>11, <2>12, <2>13
<1> QED
  BY <1>6, <1>7

\* A word of pixels, one way or the other.
LEMMA PixelsInStep ==
  ASSUME Port, Place, PixelWord \/ ReadWord
  PROVE  Port' /\ Place'
<1>1. /\ sender.words \in Nat /\ sender.image \in Nat /\ sender.read \in Nat
      /\ sender.vertices \in BOOLEAN /\ sender.colour \in BOOLEAN
      /\ sender \in [words : Nat, image : Nat, vertices : BOOLEAN,
                     colour : BOOLEAN, read : Nat]
      /\ transfer \in Transfers
  BY DEF Port
<1>2. /\ mode \in {"ImageLoad", "ImageStore"}
      /\ transfer' = TwoPixels(transfer)
      /\ mode' = IF Done(transfer') THEN "Command" ELSE mode
      /\ UNCHANGED <<op, words, colour, waiting>>
  BY DEF PixelWord, ReadWord
<1>3. /\ transfer.done < Pixels(transfer) /\ transfer.done % 2 = 0
      /\ WordsOf(transfer) - transfer.done \div 2 = sender.image + sender.read
  BY <1>2 DEF Place, InStep
<1> DEFINE left == WordsOf(transfer) - transfer.done \div 2
<1>4. /\ transfer' \in Transfers /\ left \in Nat \ {0}
      /\ Done(transfer') <=> left = 1
      /\ ~Done(transfer') => /\ transfer'.done < Pixels(transfer') /\ transfer'.done % 2 = 0
                             /\ WordsOf(transfer') - transfer'.done \div 2 = left - 1
  BY <1>1, <1>2, <1>3, WordMoved
<1>5. left = sender.image + sender.read
  BY <1>3
<1> HIDE DEF left
<1>6. CASE PixelWord
  <2>1. mode = "ImageLoad" /\ sender' = [sender EXCEPT !.image = @ - 1] /\ sender.image > 0
    BY <1>6 DEF PixelWord
  <2>2. sender.read = 0
    BY <1>1, <2>1 DEF Place, InStep
  <2>3. /\ sender'.image = sender.image - 1 /\ sender'.read = 0 /\ sender'.words = sender.words
        /\ sender'.vertices = sender.vertices /\ sender'.colour = sender.colour
        /\ sender' \in [words : Nat, image : Nat, vertices : BOOLEAN,
                        colour : BOOLEAN, read : Nat]
    BY <1>1, <2>1, <2>2
  <2>4. left - 1 = sender'.image + sender'.read /\ (left = 1 <=> ~(sender'.image > 0))
    BY <1>1, <1>4, <1>5, <2>1, <2>2, <2>3
  <2>5. Port'
    BY <1>2, <1>4, <2>1, <2>3 DEF Port
  <2>6. InStep'
    BY <1>2, <1>4, <2>1, <2>3, <2>4 DEF Place, InStep
  <2> QED
    BY <1>2, <1>4, <2>1, <2>5, <2>6 DEF Place
<1>7. CASE ReadWord
  <2>1. mode = "ImageStore" /\ sender' = [sender EXCEPT !.read = @ - 1] /\ sender.read > 0
    BY <1>7 DEF ReadWord
  <2>2. sender.image = 0
    BY <1>1, <2>1 DEF Place, InStep
  <2>3. /\ sender'.read = sender.read - 1 /\ sender'.image = 0 /\ sender'.words = sender.words
        /\ sender'.vertices = sender.vertices /\ sender'.colour = sender.colour
        /\ sender' \in [words : Nat, image : Nat, vertices : BOOLEAN,
                        colour : BOOLEAN, read : Nat]
    BY <1>1, <2>1, <2>2
  <2>4. left - 1 = sender'.image + sender'.read /\ (left = 1 <=> ~(sender'.read > 0))
    BY <1>1, <1>4, <1>5, <2>1, <2>2, <2>3
  <2>5. Port'
    BY <1>2, <1>4, <2>1, <2>3 DEF Port
  <2>6. InStep'
    BY <1>2, <1>4, <2>1, <2>3, <2>4 DEF Place, InStep
  <2> QED
    BY <1>2, <1>4, <2>1, <2>5, <2>6 DEF Place
<1> QED
  BY <1>6, <1>7

\* A polyline's words.
LEMMA PolyLineInStep ==
  ASSUME Port, Place, LastWord \/ VertexWord
  PROVE  Port' /\ Place'
<1>1. /\ sender.words \in Nat /\ sender.image \in Nat /\ sender.read \in Nat
      /\ sender.vertices \in BOOLEAN /\ sender.colour \in BOOLEAN
      /\ sender \in [words : Nat, image : Nat, vertices : BOOLEAN,
                     colour : BOOLEAN, read : Nat]
      /\ op.shaded \in BOOLEAN
  BY AllCommands, Fields DEF Port
<1>2. mode = "PolyLine" /\ words = 0 /\ UNCHANGED <<op, words, transfer, waiting>>
  BY DEF LastWord, VertexWord, Place
<1>3. CASE LastWord
  <2>1. mode' = "Command" /\ sender' = [sender EXCEPT !.vertices = FALSE] /\ colour' = colour
    BY <1>3 DEF LastWord
  <2>2. /\ sender'.words = sender.words /\ sender'.image = sender.image
        /\ sender'.read = sender.read /\ sender'.vertices = FALSE
        /\ sender' \in [words : Nat, image : Nat, vertices : BOOLEAN,
                        colour : BOOLEAN, read : Nat]
    BY <1>1, <2>1
  <2> QED
    BY <1>2, <2>1, <2>2 DEF Port, Place, InStep
<1>4. CASE VertexWord
  <2>1. /\ mode' = mode
        /\ sender' = [sender EXCEPT !.colour = op.shaded /\ ~@]
        /\ \/ op.shaded /\ ~colour /\ colour' = TRUE
           \/ (~op.shaded \/ colour) /\ colour' = FALSE
    BY <1>4 DEF VertexWord
  <2>2. colour = sender.colour
    BY <1>2 DEF Place, InStep
  <2>3. colour' \in BOOLEAN /\ colour' = (op.shaded /\ ~sender.colour)
    BY <1>1, <2>1, <2>2, Zenon
  <2>4. /\ sender'.words = sender.words /\ sender'.image = sender.image
        /\ sender'.read = sender.read /\ sender'.vertices = sender.vertices
        /\ sender' \in [words : Nat, image : Nat, vertices : BOOLEAN,
                        colour : BOOLEAN, read : Nat]
    BY <1>1, <2>1
  <2>5. sender'.colour = (op.shaded /\ ~sender.colour)
    <3> DEFINE v == op.shaded /\ ~sender.colour
    <3>1. sender' = [sender EXCEPT !.colour = v]
      BY <2>1
    <3> HIDE DEF v
    <3>2. sender'.colour = v
      BY <1>1, <3>1
    <3> QED
      BY <3>2 DEF v
  <2>6. colour' = sender'.colour
    BY <2>3, <2>5, Zenon
  <2> QED
    BY <1>2, <2>1, <2>3, <2>4, <2>6 DEF Port, Place, InStep
<1> QED
  BY <1>3, <1>4

LEMMA PortKept ==
  ASSUME Port, Place, [Next]_vars
  PROVE  Port' /\ Place'
<1>1. CASE Gp1
  <2>1. /\ mode' = "Command" /\ words' = 0 /\ transfer' = NoTransfer /\ op' = op
        /\ sender' = Silent /\ waiting' = waiting /\ colour' \in BOOLEAN
    BY <1>1 DEF Gp1, Gp1Reset, Gp1Abandon, Port
  <2>2. /\ sender' \in [words : Nat, image : Nat, vertices : BOOLEAN,
                        colour : BOOLEAN, read : Nat]
        /\ sender'.words = 0 /\ sender'.image = 0 /\ sender'.read = 0
        /\ sender'.vertices = FALSE
    BY <2>1 DEF Silent
  <2>3. 0 \in 0 .. Length(op) - 1
    BY AllCommands, LengthOfOperands DEF Port
  <2>4. Port'
    BY <2>1, <2>2, <2>3, NothingMoved DEF Port
  <2> QED
    BY <2>1, <2>2, <2>4 DEF Place, InStep
<1>2. CASE BeginSync \/ EndSync \/ Wait \/ Restore \/ UNCHANGED vars
  <2>1. UNCHANGED <<mode, op, words, transfer, colour, sender>> /\ waiting' \in BOOLEAN
    BY <1>2 DEF BeginSync, EndSync, Wait, Restore, Snapshot, vars, port, Port
  <2> QED
    BY <2>1 DEF Port, Place, InStep
<1> QED
  BY <1>1, <1>2, CommandInStep, PixelsInStep, PolyLineInStep DEF Next, Gp0

-----------------------------------------------------------------------------
(* Theorems.                                                               *)

LEMMA GpuStarts == Init => GpuInv
<1> SUFFICES ASSUME Init PROVE GpuInv
  OBVIOUS
<1>1. Length(Bare) = 1
  BY DEF Length, Bare
<1>2. FifoWords \in Nat /\ CostScale \in Nat \ {0}
  BY GpuAssumption
<1>3. /\ sender \in [words : Nat, image : Nat, vertices : BOOLEAN,
                     colour : BOOLEAN, read : Nat]
      /\ sender.words = 0 /\ sender.image = 0 /\ sender.read = 0 /\ sender.vertices = FALSE
  BY DEF Init, Silent
<1>4. mode = "Command" /\ words = 0
  BY DEF Init
<1>5. Place
  BY <1>3, <1>4 DEF Place, InStep
<1>6. Port
  <2>1. op = Bare /\ words \in 0 .. Length(op) - 1
    BY <1>1 DEF Init
  <2> QED
    BY <1>3, <2>1, NothingMoved DEF Init, Port
<1>7. palette \in Held
  BY DEF Init, Held, Palette
<1>8. Textures /\ PaletteWhole
  BY <1>7 DEF Init, Textures, Depths, PaletteWhole
<1>9. Backlog
  BY <1>2 DEF Init, Backlog
<1> QED
  BY <1>5, <1>6, <1>8, <1>9 DEF GpuInv

LEMMA GpuKept == GpuInv /\ [Next]_vars => GpuInv'
<1> SUFFICES ASSUME GpuInv, [Next]_vars PROVE GpuInv'
  OBVIOUS
<1>1. op \in Command /\ \A c \in Commands : c \in Command
  BY AllCommands DEF GpuInv, Port
<1>2. Port' /\ Place'
  BY PortKept DEF GpuInv
<1>3. Textures' /\ PaletteWhole'
  BY TexturesKept DEF GpuInv
<1>4. Backlog'
  BY <1>1, BacklogKept DEF GpuInv
<1> QED
  BY <1>2, <1>3, <1>4 DEF GpuInv

LEMMA GpuHolds == Spec => []GpuInv
  BY GpuStarts, GpuKept, PTL DEF Spec

\* The variables keep their types: no more words of a command are collected
\* than it has, no transfer moves a pixel past its rectangle, the file's count
\* stays within it, the change kept from a charge is less than a pixel's worth.
THEOREM GpuTypeOK == Spec => []TypeOK
<1>1. GpuInv => TypeOK
  BY DEF GpuInv, Port, Backlog, Textures, Transfers, TypeOK
<1> QED
  BY <1>1, GpuHolds, PTL

\* gp0_length counts off what the drawing code reads of every command there is,
\* and GP0 is where the software takes it to be in every state: whatever it
\* sends in the middle of a readback, GP1 gives up, or a file brings back.
THEOREM GpuInStep == Spec => []InStep
<1>1. GpuInv => InStep
  BY DEF GpuInv, Place
<1> QED
  BY <1>1, GpuHolds, PTL

\* No primitive is drawn with a palette that is not the one it names, or with
\* less of it than its texels can ask for, or with halves read at two times.
THEOREM GpuPaletteWhole == Spec => []PaletteWhole
<1>1. GpuInv => PaletteWhole
  BY DEF GpuInv
<1> QED
  BY <1>1, GpuHolds, PTL

-----------------------------------------------------------------------------
(***************************************************************************)
(* The root counters.                                                      *)
(*                                                                         *)
(* A picture and a counter are fixed in what follows, and it is shown that *)
(* it does not matter where a count is interrupted: of a step (StepSplit), *)
(* of a turn of the loop (StretchSplit) and of the loop (AdvanceSplits).   *)
(***************************************************************************)

-----------------------------------------------------------------------------
(* Induction, from what is known of finite sets.                           *)

\* No number is the first to be missing, for there is no room for the others
\* up to it to move up by one and stay among themselves.
LEMMA Induction ==
  ASSUME NEW S, 0 \in S, \A n \in Nat : n \in S => n + 1 \in S
  PROVE  Nat \subseteq S
<1> SUFFICES ASSUME NEW m \in Nat, m \notin S PROVE FALSE
  OBVIOUS
<1> DEFINE T == {x \in Nat : x \in S /\ x <= m}
<1> DEFINE U == T \ {0}
<1> DEFINE f == [x \in T |-> x + 1]
<1>1. IsFiniteSet(T)
  BY FS_BoundedSetOfNaturals
<1>2. IsFiniteSet(U) /\ Cardinality(U) = Cardinality(T) - 1
  <2>1. 0 \in T
    OBVIOUS
  <2> QED
    BY <1>1, <2>1, FS_RemoveElement
<1>3. f \in [T -> U]
  <2> SUFFICES ASSUME NEW x \in T PROVE x + 1 \in U
    OBVIOUS
  <2>1. x # m
    OBVIOUS
  <2> QED
    BY <2>1
<1>4. Cardinality(T) \in Nat
  BY <1>1, FS_CardinalityType
<1>5. \E x, y \in T : x # y /\ f[x] = f[y]
  <2> HIDE DEF T, U, f
  <2> QED
    BY <1>1, <1>2, <1>3, <1>4, FS_PigeonHole
<1> QED
  BY <1>5

-----------------------------------------------------------------------------
(* Remainders.                                                             *)

LEMMA Division ==
  ASSUME NEW C \in Nat \ {0}, NEW a \in Int
  PROVE  /\ a % C \in 0 .. C - 1 /\ a \div C \in Int
         /\ a = ((a \div C) * C) + (a % C)
  OBVIOUS

LEMMA Multiple ==
  ASSUME NEW C \in Nat \ {0}, NEW k \in Int, -C < k * C, k * C < C
  PROVE  k = 0
<1>1. CASE k >= 1
  <2>1. (k - 1) * C >= 0
    BY <1>1
  <2> QED
    BY <2>1
<1>2. CASE k <= -1
  <2>1. (-1 - k) * C >= 0
    BY <1>2
  <2> QED
    BY <2>1
<1> QED
  BY <1>1, <1>2

LEMMA Remainder ==
  ASSUME NEW C \in Nat \ {0}, NEW a \in Int, NEW k \in Int,
         NEW r \in 0 .. C - 1, a = k * C + r
  PROVE  a % C = r /\ a \div C = k
<1> DEFINE j == a \div C
<1>1. a % C \in 0 .. C - 1 /\ j \in Int /\ a = (j * C) + (a % C)
  BY Division
<1> HIDE DEF j
<1>2. (j - k) * C = r - (a % C)
  <2>1. (j - k) * C = (j * C) - (k * C)
    BY <1>1
  <2>2. a % C \in Int
    BY <1>1
  <2> QED
    BY <1>1, <2>1, <2>2
<1>3. j - k = 0
  BY <1>1, <1>2, Multiple
<1> QED
  BY <1>1, <1>2, <1>3 DEF j

LEMMA RemainderSum ==
  ASSUME NEW C \in Nat \ {0}, NEW a \in Int, NEW b \in Int
  PROVE  ((a % C) + b) % C = (a + b) % C
<1> DEFINE q == a \div C
           s == a % C
           u == (s + b) \div C
           r == (s + b) % C
<1>1. s \in 0 .. C - 1 /\ q \in Int /\ a = (q * C) + s
  BY Division
<1>2. r \in 0 .. C - 1 /\ u \in Int /\ s + b = (u * C) + r
  BY <1>1, Division
<1> HIDE DEF q, s, u, r
<1>3. a + b = ((q + u) * C) + r
  <2>1. (q + u) * C = (q * C) + (u * C)
    BY <1>1, <1>2
  <2> QED
    BY <1>1, <1>2, <2>1
<1>4. q + u \in Int /\ a + b \in Int
  BY <1>1, <1>2
<1> QED
  BY <1>2, <1>3, <1>4, Remainder DEF r, s

LEMMA QuotientGrows ==
  ASSUME NEW C \in Nat \ {0}, NEW a \in Int, NEW b \in Int, a <= b
  PROVE  a \div C <= b \div C
<1> DEFINE i == a \div C
           j == b \div C
<1>1. i \in Int /\ j \in Int /\ a - (i * C) \in 0 .. C - 1 /\ b - (j * C) \in 0 .. C - 1
  <2>1. a % C \in 0 .. C - 1 /\ i \in Int /\ a = (i * C) + (a % C)
    BY Division
  <2>2. b % C \in 0 .. C - 1 /\ j \in Int /\ b = (j * C) + (b % C)
    BY Division
  <2> HIDE DEF i, j
  <2> QED
    BY <2>1, <2>2
<1> HIDE DEF i, j
<1>2. SUFFICES ASSUME i > j PROVE FALSE
  BY <1>1 DEF i, j
<1>3. (i - j - 1) * C >= 0
  BY <1>1, <1>2
<1>4. (i - j - 1) * C = (i * C) - (j * C) - C
  BY <1>1
<1> QED
  BY <1>1, <1>3, <1>4

-----------------------------------------------------------------------------
(* The signal and the clock.                                               *)

\* The picture is one the GPU can have been told to show.
Pictured == index \in 0 .. 2 /\ dot \in Nat \ {0} /\ hblank \in 0 .. Scanline

LEMMA BlankFields ==
  ASSUME Pictured
  PROVE  /\ Blank.period \in Nat \ {0}
         /\ Blank.begins \in 0 .. Blank.period
         /\ Blank.ends \in Blank.begins .. Blank.period
         /\ Blank.begins < Blank.period
<1>1. Scanline \in Nat \ {0} /\ LinesPerFrame \in Nat /\ VisibleLines \in 1 .. LinesPerFrame - 1
  BY TimersAssumption
<1>2. CASE index = 0
  BY <1>1, <1>2 DEF Blank, Pictured
<1>3. CASE index # 0
  <2> DEFINE P == Scanline * LinesPerFrame
             B == Scanline * VisibleLines
  <2>1. P \in Nat /\ B \in Nat
    BY <1>1
  <2>2. Scanline * (LinesPerFrame - VisibleLines) = P - B
    BY <1>1
  <2>3. Scanline * (LinesPerFrame - VisibleLines) > 0
    BY <1>1
  <2> HIDE DEF P, B
  <2>4. Blank = [period |-> P, begins |-> B, ends |-> P]
    BY <1>3 DEF Blank, P, B
  <2> QED
    BY <2>1, <2>2, <2>3, <2>4
<1> QED
  BY <1>2, <1>3

\* The signal does not change before the edge it is next said to change at, and
\* until then that stays its next edge.
LEMMA NextEdge ==
  ASSUME Pictured, NEW at \in Nat
  PROVE  /\ Edge(at) \in Nat /\ Edge(at) > at
         /\ \A m \in at .. Edge(at) - 1 :
              Edge(m) = Edge(at) /\ (Asserted(m) <=> Asserted(at))
<1> DEFINE P == Blank.period
           B == Blank.begins
           E == Blank.ends
           o == at % P
           k == at \div P
<1>1. P \in Nat \ {0} /\ B \in 0 .. P - 1 /\ E \in B .. P
  BY BlankFields
<1>2. o \in 0 .. P - 1 /\ k \in Int /\ at = (k * P) + o
  <2> HIDE DEF P
  <2>1. at \in Int
    OBVIOUS
  <2> QED
    BY <1>1, <2>1, Division
<1>3. \A m \in Nat, r \in Nat : m % P = r =>
        /\ Edge(m) = IF r < B THEN (m - r) + B
                     ELSE IF r < E THEN (m - r) + E
                     ELSE (m - r) + P + B
        /\ Asserted(m) <=> r >= B /\ r < E
  BY DEF Edge, Asserted
<1> DEFINE w == k * P
<1>4. w \in Int /\ (k + 1) * P = w + P
  BY <1>1, <1>2, SMTT(30)
<1>5. \A m \in Nat : w <= m /\ m < w + P => m % P = m - w
  <2> TAKE m \in Nat
  <2> HAVE w <= m /\ m < w + P
  <2> HIDE DEF P, k
  <2>1. m - w \in 0 .. P - 1 /\ m = k * P + (m - w) /\ m \in Int
    BY <1>1, <1>4
  <2> HIDE DEF w
  <2> QED
    BY <1>1, <1>2, <2>1, Remainder
<1>6. \A m \in Nat : w + P <= m /\ m < w + P + P => m % P = m - w - P
  <2> TAKE m \in Nat
  <2> HAVE w + P <= m /\ m < w + P + P
  <2> HIDE DEF P, k
  <2>1. m - w - P \in 0 .. P - 1 /\ m = (k + 1) * P + (m - w - P) /\ k + 1 \in Int
        /\ m \in Int
    BY <1>1, <1>2, <1>4
  <2> HIDE DEF w
  <2> QED
    BY <1>1, <2>1, Remainder
<1> HIDE DEF P, B, E, k, w
<1>7. at = w + o
  BY <1>2 DEF w
<1> HIDE DEF o
<1>8. at % P = o
  BY DEF o
<1>9. /\ Edge(at) = IF o < B THEN w + B ELSE IF o < E THEN w + E ELSE w + P + B
      /\ Asserted(at) <=> o >= B /\ o < E
  <2>1. o \in Nat /\ at - o = w
    BY <1>1, <1>2, <1>4, <1>7
  <2> QED
    BY <1>3, <1>8, <2>1
<1>10. Edge(at) \in Nat /\ Edge(at) > at
  BY <1>1, <1>2, <1>4, <1>7, <1>9
<1>11. ASSUME NEW m \in at .. Edge(at) - 1
       PROVE  Edge(m) = Edge(at) /\ (Asserted(m) <=> Asserted(at))
  <2>1. m \in Nat /\ at <= m /\ m < Edge(at)
    BY <1>10
  <2>2. CASE m < w + P
    <3>1. m % P = m - w /\ m - w \in Nat
      BY <1>2, <1>4, <1>5, <1>7, <2>1, <2>2
    <3>2. /\ Edge(m) = IF m - w < B THEN (m - (m - w)) + B
                       ELSE IF m - w < E THEN (m - (m - w)) + E
                       ELSE (m - (m - w)) + P + B
          /\ Asserted(m) <=> m - w >= B /\ m - w < E
      BY <1>3, <2>1, <3>1
    <3> QED
      BY <1>1, <1>2, <1>4, <1>7, <1>9, <2>1, <2>2, <3>1, <3>2
  <2>3. CASE m >= w + P
    <3>1. o >= B /\ o >= E /\ m < w + P + B
      BY <1>1, <1>2, <1>4, <1>7, <1>9, <2>1, <2>3
    <3>2. m % P = m - w - P /\ m - w - P \in Nat
      BY <1>1, <1>4, <1>6, <2>1, <2>3, <3>1
    <3>3. /\ Edge(m) = IF m - w - P < B THEN (m - (m - w - P)) + B
                       ELSE IF m - w - P < E THEN (m - (m - w - P)) + E
                       ELSE (m - (m - w - P)) + P + B
          /\ Asserted(m) <=> m - w - P >= B /\ m - w - P < E
      BY <1>3, <2>1, <3>2
    <3> QED
      BY <1>1, <1>2, <1>4, <1>7, <1>9, <2>1, <2>3, <3>1, <3>2, <3>3
  <2> QED
    BY <1>1, <1>4, <2>1, <2>2, <2>3
<1> QED
  BY <1>10, <1>11

\* No count of a clock is taken back.
LEMMA ClockGrows ==
  ASSUME Pictured, NEW fast, NEW a \in Nat, NEW b \in Nat, a <= b
  PROVE  /\ ClockAt(fast, a) \in Int /\ ClockAt(fast, b) \in Int
         /\ ClockAt(fast, a) <= ClockAt(fast, b)
<1>1. CASE fast
  BY <1>1 DEF ClockAt
<1>2. CASE ~fast /\ index = 0
  <2>1. 7 * dot \in Nat \ {0} /\ a * 11 \in Int /\ b * 11 \in Int /\ a * 11 <= b * 11
    BY DEF Pictured
  <2> QED
    BY <1>2, <2>1, QuotientGrows, Division DEF ClockAt
<1>3. CASE ~fast /\ index = 1
  BY <1>3, QuotientGrows, Division, TimersAssumption DEF ClockAt
<1>4. CASE ~fast /\ index = 2
  BY <1>4, QuotientGrows, Division, TimersAssumption DEF ClockAt
<1> QED
  BY <1>1, <1>2, <1>3, <1>4 DEF Pictured

-----------------------------------------------------------------------------
(* One turn of the loop.                                                   *)

Counter ==
  {t \in [value : 0 .. Wrap - 1, target : 0 .. Wrap - 1, mode : Setting,
          noInterrupt : BOOLEAN, reachedTarget : BOOLEAN, reachedWrap : BOOLEAN,
          updated : Nat, fired : BOOLEAN, released : BOOLEAN, raised : 0 .. 2] :
     t.fired <=> t.raised > 0}

\* The one stands where the other does, and claims nothing the other does not.
Within(s, e) ==
  /\ s.value = e.value /\ s.target = e.target /\ s.mode = e.mode
  /\ s.released = e.released
  /\ s.reachedTarget => e.reachedTarget
  /\ ~s.mode.onWrap /\ s.fired => e.fired

\* What a gate with an end says.
Says(gate, counting, at, zeroes, frees) ==
  /\ gate.counting \in BOOLEAN /\ (gate.counting <=> counting)
  /\ gate.ends = TRUE /\ gate.until = Edge(at)
  /\ gate.zeroes \in BOOLEAN /\ (gate.zeroes <=> zeroes)
  /\ gate.frees \in BOOLEAN /\ (gate.frees <=> frees)

LEMMA GatedSays ==
  ASSUME NEW counting \in BOOLEAN, NEW at, NEW zeroes \in BOOLEAN, NEW frees \in BOOLEAN
  PROVE  Says(Gated(counting, at, zeroes, frees), counting, at, zeroes, frees)
  BY DEF Says, Gated

\* Is the counter one the signal has a say in.
Watching(t) == t.mode.synced /\ ~t.released

\* What the signal has the gate of a sync mode say.
Told(gate, sync, at) ==
  LET counting ==
        \/ sync = 0 /\ ~Asserted(at)
        \/ sync = 1
        \/ sync = 2 /\ Asserted(at)
  IN Says(gate, counting, at, sync \in {1, 2} /\ ~Asserted(at), sync = 3 /\ ~Asserted(at))

LEMMA GateSays ==
  ASSUME NEW t, NEW at \in Nat, Watching(t), index # 2, t.mode.sync \in 0 .. 3
  PROVE  Told(GateAt(t, at), t.mode.sync, at)
<1> DEFINE s == t.mode.sync
<1>1. GateAt(t, at) =
        CASE s = 0 -> Gated(~Asserted(at), at, FALSE, FALSE)
          [] s = 1 -> Gated(TRUE, at, ~Asserted(at), FALSE)
          [] s = 2 -> Gated(Asserted(at), at, ~Asserted(at), FALSE)
          [] s = 3 -> Gated(FALSE, at, FALSE, ~Asserted(at))
  BY Zenon DEF GateAt, Watching
<1>2. s = 0 \/ s = 1 \/ s = 2 \/ s = 3
  OBVIOUS
<1> HIDE DEF s
<1>3. Asserted(at) \in BOOLEAN /\ (~Asserted(at)) \in BOOLEAN
  BY DEF Asserted
<1>4. CASE s = 0
  <2>1. GateAt(t, at) = Gated(~Asserted(at), at, FALSE, FALSE)
    BY <1>1, <1>4
  <2>2. Says(GateAt(t, at), ~Asserted(at), at, FALSE, FALSE)
    BY <1>3, <2>1, GatedSays
  <2> QED
    BY <1>4, <2>2 DEF Told, Says, s
<1>5. CASE s = 1
  <2>1. GateAt(t, at) = Gated(TRUE, at, ~Asserted(at), FALSE)
    BY <1>1, <1>5
  <2>2. Says(GateAt(t, at), TRUE, at, ~Asserted(at), FALSE)
    BY <1>3, <2>1, GatedSays
  <2> QED
    BY <1>5, <2>2 DEF Told, Says, s
<1>6. CASE s = 2
  <2>1. GateAt(t, at) = Gated(Asserted(at), at, ~Asserted(at), FALSE)
    BY <1>1, <1>6
  <2>2. Says(GateAt(t, at), Asserted(at), at, ~Asserted(at), FALSE)
    BY <1>3, <2>1, GatedSays
  <2> QED
    BY <1>6, <2>2 DEF Told, Says, s
<1>7. CASE s = 3
  <2>1. GateAt(t, at) = Gated(FALSE, at, FALSE, ~Asserted(at))
    BY <1>1, <1>7
  <2>2. Says(GateAt(t, at), FALSE, at, FALSE, ~Asserted(at))
    BY <1>3, <2>1, GatedSays
  <2> QED
    BY <1>7, <2>2 DEF Told, Says, s
<1> QED
  BY <1>2, <1>4, <1>5, <1>6, <1>7

\* One gate does what the other does.
Alike(g, h) ==
  /\ (g.counting <=> h.counting) /\ (g.ends <=> h.ends)
  /\ g.ends => g.until = h.until
  /\ (g.zeroes <=> h.zeroes) /\ (g.frees <=> h.frees)

Boolean(gate) ==
  /\ gate.counting \in BOOLEAN /\ gate.ends \in BOOLEAN
  /\ gate.zeroes \in BOOLEAN /\ gate.frees \in BOOLEAN

\* Until the gate changes it is the same gate, of every counter set alike.
LEMMA GateHolds ==
  ASSUME Pictured, NEW t \in Counter, NEW at \in Nat
  PROVE  LET gate == GateAt(t, at)
         IN /\ Boolean(gate)
            /\ gate.ends => gate.until \in Nat /\ gate.until > at
            /\ \A u \in Counter, m \in Nat :
                 /\ u.mode = t.mode /\ u.released = t.released
                 /\ at <= m /\ (gate.ends => m < gate.until)
                 => Alike(GateAt(u, m), gate)
<1>1. /\ Edge(at) \in Nat /\ Edge(at) > at
      /\ \A m \in at .. Edge(at) - 1 :
           Edge(m) = Edge(at) /\ (Asserted(m) <=> Asserted(at))
  BY NextEdge
<1>2. t.mode.sync \in 0 .. 3 /\ t.mode.synced \in BOOLEAN /\ t.released \in BOOLEAN
  BY DEF Counter, Setting
<1>3. CASE ~Watching(t)
  <2>1. \A u \in Counter, m \in Nat :
          u.mode = t.mode /\ u.released = t.released => GateAt(u, m) = Free
    BY <1>3 DEF GateAt, Watching
  <2>2. GateAt(t, at) = Free
    BY <2>1
  <2>3. Boolean(Free) /\ ~Free.ends /\ Alike(Free, Free)
    BY DEF Free, Alike, Boolean
  <2> QED
    BY <2>1, <2>2, <2>3
<1>4. CASE Watching(t) /\ index = 2
  <2>1. \A u \in Counter, m \in Nat :
          u.mode = t.mode /\ u.released = t.released =>
            GateAt(u, m) = [Free EXCEPT !.counting = t.mode.sync \in {1, 2}]
    BY <1>4 DEF GateAt, Watching
  <2>2. GateAt(t, at) = [Free EXCEPT !.counting = t.mode.sync \in {1, 2}]
    BY <2>1
  <2>3. Boolean(GateAt(t, at)) /\ ~GateAt(t, at).ends /\ Alike(GateAt(t, at), GateAt(t, at))
    BY <2>2 DEF Free, Alike, Boolean
  <2> QED
    BY <2>1, <2>2, <2>3
<1>5. CASE Watching(t) /\ index # 2
  <2>1. ASSUME NEW u \in Counter, NEW m \in Nat, u.mode = t.mode,
               u.released = t.released, at <= m, m < Edge(at)
        PROVE  Told(GateAt(u, m), t.mode.sync, at)
    <3>1. Watching(u) /\ u.mode.sync \in 0 .. 3
      BY <1>2, <1>5, <2>1 DEF Watching
    <3>2. Told(GateAt(u, m), u.mode.sync, m)
      BY <1>5, <3>1, GateSays
    <3>3. Edge(m) = Edge(at) /\ (Asserted(m) <=> Asserted(at))
      BY <1>1, <2>1
    <3> QED
      BY <2>1, <3>2, <3>3 DEF Told, Says
  <2> DEFINE S(g) == Told(g, t.mode.sync, at)
  <2>2. ASSUME NEW g, NEW h, S(g), S(h)
        PROVE  Alike(g, h) /\ Boolean(g) /\ g.ends = TRUE /\ g.until = Edge(at)
    BY <2>2, Zenon DEF Told, Says, Alike, Boolean
  <2>3. S(GateAt(t, at))
    BY <1>1, <2>1
  <2>4. \A u \in Counter, m \in Nat :
          u.mode = t.mode /\ u.released = t.released /\ at <= m /\ m < Edge(at)
            => S(GateAt(u, m))
    BY <2>1
  <2> HIDE DEF S
  <2> QED
    BY <1>1, <2>2, <2>3, <2>4
<1> QED
  BY <1>3, <1>4, <1>5

\* What a counter counts up to before it starts over.
Period(t) == IF t.mode.resets /\ t.target # 0 THEN t.target + 1 ELSE Wrap

LEMMA StepWorks ==
  ASSUME NEW t \in Counter, NEW n \in Nat
  PROVE  LET s == Step(t, n)
             hit == n > 0 /\ HitsTarget(t, t.value + n)
         IN /\ s \in Counter
            /\ s.value = IF n = 0 THEN t.value ELSE (t.value + n) % Period(t)
            /\ s.target = t.target /\ s.mode = t.mode
            /\ s.updated = t.updated /\ s.released = t.released
            /\ s.reachedTarget <=> t.reachedTarget \/ hit
            /\ ~t.mode.onWrap => (s.fired <=> t.fired \/ (hit /\ t.mode.onTarget))
<1>1. /\ t.value \in 0 .. Wrap - 1 /\ t.target \in 0 .. Wrap - 1 /\ Wrap \in Nat \ {0}
      /\ t.raised \in 0 .. 2 /\ (t.fired <=> t.raised > 0)
      /\ t.mode \in Setting /\ t.fired \in BOOLEAN /\ t.reachedTarget \in BOOLEAN
      /\ t.reachedWrap \in BOOLEAN
  BY TimersAssumption DEF Counter
<1> DEFINE r == t.value + n
           hit == HitsTarget(t, r)
           past == r >= Wrap
           clocked == [t EXCEPT !.value = Reduced(t, r), !.reachedTarget = @ \/ hit,
                                !.reachedWrap = @ \/ past]
           flagged == [clocked EXCEPT !.fired = TRUE, !.noInterrupt = FALSE,
                                      !.raised = IF @ < 2 THEN @ + 1 ELSE @]
           wanted == (hit /\ t.mode.onTarget) \/ (past /\ t.mode.onWrap)
<1>2. Step(t, n) = IF n = 0 THEN t
                   ELSE IF ~wanted \/ ~MayFire(t) THEN clocked ELSE flagged
  BY DEF Step
<1> HIDE DEF clocked, flagged, wanted, hit, past
<1>3. /\ Reduced(t, r) = r % Period(t) /\ Reduced(t, r) \in 0 .. Wrap - 1
  <2>1. Period(t) \in 1 .. Wrap /\ r \in Int /\ Period(t) \in Nat \ {0}
    BY <1>1 DEF Period
  <2>2. Reduced(t, r) = r % Period(t)
    BY DEF Reduced, Period
  <2> DEFINE p == Period(t)
  <2> HIDE DEF p, r
  <2>3. r % p \in 0 .. p - 1
    BY <2>1, Division DEF p
  <2> QED
    BY <1>1, <2>1, <2>2, <2>3 DEF p
<1>4. hit \in BOOLEAN /\ past \in BOOLEAN
  BY DEF HitsTarget, hit, past
<1> HIDE DEF r
<1>5. /\ clocked \in Counter /\ clocked.value = Reduced(t, r)
      /\ clocked.target = t.target /\ clocked.mode = t.mode
      /\ clocked.updated = t.updated /\ clocked.released = t.released
      /\ (clocked.reachedTarget <=> t.reachedTarget \/ hit)
      /\ clocked.fired = t.fired /\ clocked.raised = t.raised
  BY <1>1, <1>3, <1>4 DEF Counter, clocked
<1>6. /\ flagged \in Counter /\ flagged.value = Reduced(t, r)
      /\ flagged.target = t.target /\ flagged.mode = t.mode
      /\ flagged.updated = t.updated /\ flagged.released = t.released
      /\ (flagged.reachedTarget <=> t.reachedTarget \/ hit)
      /\ flagged.fired
  <2>1. \A c \in Counter :
          LET up == IF c.raised < 2 THEN c.raised + 1 ELSE c.raised
              f == [c EXCEPT !.fired = TRUE, !.noInterrupt = FALSE, !.raised = up]
          IN /\ f \in Counter /\ f.value = c.value /\ f.target = c.target
             /\ f.mode = c.mode /\ f.updated = c.updated
             /\ f.released = c.released /\ f.reachedTarget = c.reachedTarget
             /\ f.fired
    <3> TAKE c \in Counter
    <3> DEFINE up == IF c.raised < 2 THEN c.raised + 1 ELSE c.raised
    <3>1. up \in 0 .. 2 /\ up > 0
      BY DEF Counter
    <3> HIDE DEF up
    <3> DEFINE f == [c EXCEPT !.fired = TRUE, !.noInterrupt = FALSE, !.raised = up]
    <3>2. /\ f.value = c.value /\ f.target = c.target /\ f.mode = c.mode
          /\ f.updated = c.updated /\ f.released = c.released
          /\ f.reachedTarget = c.reachedTarget /\ f.fired = TRUE /\ f.raised = up
      BY DEF Counter
    <3>3. f \in Counter
      BY <3>1 DEF Counter
    <3> QED
      BY <3>2, <3>3 DEF up
  <2> QED
    BY <1>5, <2>1 DEF flagged
<1>7. ~MayFire(t) => t.fired
  BY DEF MayFire
<1>8. CASE n = 0
  BY <1>2, <1>8
<1>9. CASE n # 0
  BY <1>2, <1>3, <1>5, <1>6, <1>7, <1>9 DEF r, hit, wanted
<1> QED
  BY <1>8, <1>9

LEMMA PeriodWorks ==
  ASSUME NEW t \in Counter
  PROVE  /\ Period(t) \in Nat \ {0}
         /\ \A n \in Nat : n < t.target => n % Period(t) = n
<1>1. /\ t.target \in 0 .. Wrap - 1 /\ Wrap \in Nat \ {0}
  BY TimersAssumption DEF Counter
<1>2. Period(t) \in Nat \ {0} /\ Period(t) > t.target
  BY <1>1 DEF Period
<1>3. ASSUME NEW n \in Nat, n < t.target
      PROVE  n % Period(t) = n
  <2> DEFINE p == Period(t)
  <2>1. n = 0 * p + n /\ n \in 0 .. p - 1 /\ n \in Int /\ 0 \in Int
    BY <1>1, <1>2, <1>3
  <2> HIDE DEF p
  <2> QED
    BY <1>2, <2>1, Remainder DEF p
<1> QED
  BY <1>2, <1>3

\* Clocked twice, a counter gets where it would in one go, and claims as much.
LEMMA StepSplit ==
  ASSUME NEW t \in Counter, NEW a \in Nat, NEW b \in Nat
  PROVE  Within(Step(t, a + b), Step(Step(t, a), b))
<1> DEFINE s == Step(t, a)
           e == Step(s, b)
           w == Step(t, a + b)
           p == Period(t)
           v == t.value
           g == t.target
<1>1. /\ v \in Nat /\ g \in Nat /\ a + b \in Nat
  BY TimersAssumption DEF Counter
<1>2. p \in Nat \ {0} /\ \A n \in Nat : n < g => n % p = n
  BY PeriodWorks
<1>3. /\ s \in Counter
      /\ s.value = IF a = 0 THEN v ELSE (v + a) % p
      /\ s.target = g /\ s.mode = t.mode
      /\ s.updated = t.updated /\ s.released = t.released
      /\ s.reachedTarget <=> t.reachedTarget \/ (a > 0 /\ HitsTarget(t, v + a))
      /\ ~t.mode.onWrap =>
           (s.fired <=> t.fired \/ ((a > 0 /\ HitsTarget(t, v + a)) /\ t.mode.onTarget))
  BY StepWorks
<1>4. /\ w.value = IF a + b = 0 THEN v ELSE (v + (a + b)) % p
      /\ w.target = g /\ w.mode = t.mode
      /\ w.updated = t.updated /\ w.released = t.released
      /\ w.reachedTarget <=>
           t.reachedTarget \/ (a + b > 0 /\ HitsTarget(t, v + (a + b)))
      /\ ~t.mode.onWrap =>
           (w.fired <=> t.fired
              \/ ((a + b > 0 /\ HitsTarget(t, v + (a + b))) /\ t.mode.onTarget))
  BY <1>1, StepWorks
<1> HIDE DEF s, w
<1>5. /\ e.value = IF b = 0 THEN s.value ELSE (s.value + b) % Period(s)
      /\ e.target = s.target /\ e.mode = s.mode
      /\ e.updated = s.updated /\ e.released = s.released
      /\ e.reachedTarget <=> s.reachedTarget \/ (b > 0 /\ HitsTarget(s, s.value + b))
      /\ ~s.mode.onWrap =>
           (e.fired <=> s.fired
              \/ ((b > 0 /\ HitsTarget(s, s.value + b)) /\ s.mode.onTarget))
  BY <1>3, StepWorks
<1>6. Period(s) = p
  BY <1>3 DEF Period
<1> HIDE DEF e, p
<1>7. w.value = e.value
  <2>1. CASE a = 0
    BY <1>1, <1>3, <1>4, <1>5, <1>6, <2>1
  <2>2. CASE b = 0
    BY <1>1, <1>3, <1>4, <1>5, <1>6, <2>2
  <2>3. CASE a # 0 /\ b # 0
    <3>1. v + a \in Int /\ b \in Int /\ (v + a) + b = v + (a + b)
      BY <1>1
    <3>2. (((v + a) % p) + b) % p = ((v + a) + b) % p
      BY <1>2, <3>1, RemainderSum
    <3> QED
      BY <1>1, <1>3, <1>4, <1>5, <1>6, <2>3, <3>1, <3>2
  <2> QED
    BY <2>1, <2>2, <2>3
<1>8. ASSUME a + b > 0, HitsTarget(t, v + (a + b))
      PROVE  \/ a > 0 /\ HitsTarget(t, v + a)
             \/ b > 0 /\ HitsTarget(s, s.value + b)
  <2>1. v < g /\ v + (a + b) >= g
    BY <1>8 DEF HitsTarget
  <2>2. CASE v + a >= g
    BY <1>1, <2>1, <2>2 DEF HitsTarget
  <2>3. CASE v + a < g
    <3>1. s.value = v + a
      BY <1>1, <1>2, <1>3, <2>3
    <3> QED
      BY <1>1, <1>3, <2>1, <2>3, <3>1 DEF HitsTarget
  <2> QED
    BY <1>1, <2>2, <2>3
<1> HIDE DEF v, g
<1>9. w.reachedTarget => e.reachedTarget
  BY <1>3, <1>4, <1>5, <1>8
<1>10. ~w.mode.onWrap /\ w.fired => e.fired
  BY <1>3, <1>4, <1>5, <1>8
<1> QED
  BY <1>3, <1>4, <1>5, <1>7, <1>9, <1>10 DEF Within, s, e, w

\* What is within another stays so when both are clocked.
LEMMA StepWithin ==
  ASSUME NEW s \in Counter, NEW e \in Counter, Within(s, e), NEW n \in Nat
  PROVE  Within(Step(s, n), Step(e, n))
<1> DEFINE u == Step(s, n)
           f == Step(e, n)
<1>1. /\ u.value = IF n = 0 THEN s.value ELSE (s.value + n) % Period(s)
      /\ u.target = s.target /\ u.mode = s.mode
      /\ u.updated = s.updated /\ u.released = s.released
      /\ u.reachedTarget <=> s.reachedTarget \/ (n > 0 /\ HitsTarget(s, s.value + n))
      /\ ~s.mode.onWrap =>
           (u.fired <=> s.fired \/ ((n > 0 /\ HitsTarget(s, s.value + n)) /\ s.mode.onTarget))
  BY StepWorks
<1>2. /\ f.value = IF n = 0 THEN e.value ELSE (e.value + n) % Period(e)
      /\ f.target = e.target /\ f.mode = e.mode
      /\ f.updated = e.updated /\ f.released = e.released
      /\ f.reachedTarget <=> e.reachedTarget \/ (n > 0 /\ HitsTarget(e, e.value + n))
      /\ ~e.mode.onWrap =>
           (f.fired <=> e.fired \/ ((n > 0 /\ HitsTarget(e, e.value + n)) /\ e.mode.onTarget))
  BY StepWorks
<1> HIDE DEF u, f
<1>3. Period(s) = Period(e) /\ (HitsTarget(s, s.value + n) <=> HitsTarget(e, e.value + n))
  BY DEF Period, HitsTarget, Within
<1> QED
  BY <1>1, <1>2, <1>3 DEF Within, u, f

LEMMA WithinTrans ==
  ASSUME NEW s, NEW e, NEW w, Within(s, e), Within(e, w)
  PROVE  Within(s, w)
  BY DEF Within

\* A turn: where it goes to, what is counted on the way, and what the signal
\* does there.
Cut(t, upTo) == GateAt(t, t.updated).ends /\ GateAt(t, t.updated).until <= upTo
Until(t, upTo) == IF Cut(t, upTo) THEN GateAt(t, t.updated).until ELSE upTo
Counted(t, until) ==
  IF GateAt(t, t.updated).counting
  THEN ClockAt(t.mode.fast, until) - ClockAt(t.mode.fast, t.updated) ELSE 0
Ends(s, until, zeroed, freed) ==
  [[s EXCEPT !.updated = until]
     EXCEPT !.value = IF zeroed THEN 0 ELSE @, !.released = @ \/ freed]

LEMMA EndsWorks ==
  ASSUME NEW s \in Counter, NEW until \in Nat, NEW zeroed, NEW freed
  PROVE  LET e == Ends(s, until, zeroed, freed)
         IN /\ e \in Counter /\ e.updated = until
            /\ e.value = IF zeroed THEN 0 ELSE s.value
            /\ e.released \in BOOLEAN /\ (e.released <=> s.released \/ freed)
            /\ e.target = s.target /\ e.mode = s.mode
            /\ e.reachedTarget = s.reachedTarget /\ e.fired = s.fired
<1>1. 0 \in 0 .. Wrap - 1
  BY TimersAssumption
<1> DEFINE value == IF zeroed THEN 0 ELSE s.value
           released == s.released \/ freed
           e == [[s EXCEPT !.updated = until] EXCEPT !.value = value, !.released = released]
<1>2. value \in 0 .. Wrap - 1 /\ released \in BOOLEAN
  BY <1>1 DEF Counter
<1>3. Ends(s, until, zeroed, freed) = e
  BY DEF Ends, Counter
<1> HIDE DEF value, released
<1>4. /\ e.updated = until /\ e.value = value /\ e.released = released
      /\ e.target = s.target /\ e.mode = s.mode
      /\ e.reachedTarget = s.reachedTarget /\ e.fired = s.fired /\ e.raised = s.raised
  BY DEF Counter
<1>5. e \in Counter
  BY <1>2, <1>4 DEF Counter
<1> HIDE DEF e
<1> QED
  BY <1>2, <1>3, <1>4, <1>5 DEF value, released

LEMMA EndsWithin ==
  ASSUME NEW s \in Counter, NEW e \in Counter, Within(s, e), NEW until \in Nat,
         NEW zeroed, NEW freed, NEW zeroedToo, NEW freedToo,
         zeroed <=> zeroedToo, freed <=> freedToo
  PROVE  Within(Ends(s, until, zeroed, freed), Ends(e, until, zeroedToo, freedToo))
<1> DEFINE u == Ends(s, until, zeroed, freed)
           f == Ends(e, until, zeroedToo, freedToo)
<1>1. /\ u.value = IF zeroed THEN 0 ELSE s.value
      /\ u.released \in BOOLEAN /\ (u.released <=> s.released \/ freed)
      /\ u.target = s.target /\ u.mode = s.mode
      /\ u.reachedTarget = s.reachedTarget /\ u.fired = s.fired
  BY EndsWorks
<1>2. /\ f.value = IF zeroedToo THEN 0 ELSE e.value
      /\ f.released \in BOOLEAN /\ (f.released <=> e.released \/ freedToo)
      /\ f.target = e.target /\ f.mode = e.mode
      /\ f.reachedTarget = e.reachedTarget /\ f.fired = e.fired
  BY EndsWorks
<1> HIDE DEF u, f
<1>3. u.value = f.value /\ (u.released <=> f.released)
  BY <1>1, <1>2 DEF Within
<1>4. u.released = f.released
  BY <1>1, <1>2, <1>3
<1> QED
  BY <1>1, <1>2, <1>3, <1>4 DEF Within, u, f

LEMMA StretchWorks ==
  ASSUME Pictured, NEW t \in Counter, NEW upTo \in Nat, t.updated < upTo
  PROVE  LET u == Until(t, upTo)
             n == Counted(t, u)
             gate == GateAt(t, t.updated)
         IN /\ t.updated \in Nat /\ u \in Nat /\ t.updated < u /\ u <= upTo
            /\ n \in Nat /\ Boolean(gate)
            /\ Step(t, n) \in Counter
            /\ Stretch(t, upTo) =
                 Ends(Step(t, n), u, Cut(t, upTo) /\ gate.zeroes, Cut(t, upTo) /\ gate.frees)
            /\ Stretch(t, upTo) \in Counter /\ Stretch(t, upTo).updated = u
            /\ Stretch(t, upTo).mode = t.mode /\ Stretch(t, upTo).target = t.target
<1> DEFINE u == Until(t, upTo)
           n == Counted(t, u)
           gate == GateAt(t, t.updated)
           z == Cut(t, upTo) /\ gate.zeroes
           f == Cut(t, upTo) /\ gate.frees
<1>1. t.updated \in Nat
  BY DEF Counter
<1>2. /\ Boolean(gate)
      /\ gate.ends => gate.until \in Nat /\ gate.until > t.updated
  BY <1>1, GateHolds
<1>3. u \in Nat /\ t.updated < u /\ u <= upTo
  BY <1>1, <1>2 DEF Until, Cut
<1>4. n \in Nat
  <2>1. /\ ClockAt(t.mode.fast, t.updated) \in Int /\ ClockAt(t.mode.fast, u) \in Int
        /\ ClockAt(t.mode.fast, t.updated) <= ClockAt(t.mode.fast, u)
    BY <1>1, <1>3, ClockGrows
  <2> QED
    BY <2>1 DEF Counted
<1>5. Stretch(t, upTo) = Ends(Step(t, n), u, z, f)
  BY Zenon DEF Stretch, Ends, Cut, Until, Counted
<1>6. Step(t, n) \in Counter /\ Step(t, n).mode = t.mode /\ Step(t, n).target = t.target
  BY <1>4, StepWorks
<1> DEFINE s == Step(t, n)
<1> HIDE DEF s, z, f, u, n, gate
<1>7. LET e == Ends(s, u, z, f)
      IN e \in Counter /\ e.updated = u /\ e.target = s.target /\ e.mode = s.mode
  BY <1>3, <1>6, EndsWorks DEF s
<1>8. /\ Stretch(t, upTo) \in Counter /\ Stretch(t, upTo).updated = u
      /\ Stretch(t, upTo).mode = t.mode /\ Stretch(t, upTo).target = t.target
  BY <1>5, <1>6, <1>7 DEF s
<1> QED
  BY <1>1, <1>2, <1>3, <1>4, <1>5, <1>6, <1>8, Zenon DEF z, f, u, n, gate

\* A turn the signal cuts short is the same however far there is to go.
LEMMA StretchCut ==
  ASSUME NEW t \in Counter, NEW n \in Nat, NEW m \in Nat, n <= m,
         Pictured, t.updated < n, Cut(t, n)
  PROVE  Stretch(t, m) = Stretch(t, n)
<1>1. GateAt(t, t.updated).ends => GateAt(t, t.updated).until \in Nat
  <2>1. t.updated \in Nat
    BY DEF Counter
  <2> QED
    BY <2>1, GateHolds
<1>2. t.updated < m /\ Cut(t, m) /\ Until(t, m) = Until(t, n) /\ (Cut(t, m) <=> Cut(t, n))
  <2>1. t.updated \in Nat
    BY DEF Counter
  <2> QED
    BY <1>1, <2>1 DEF Cut, Until
<1>3. \A k \in {n, m} :
        Stretch(t, k) = Ends(Step(t, Counted(t, Until(t, k))), Until(t, k),
                             Cut(t, k) /\ GateAt(t, t.updated).zeroes,
                             Cut(t, k) /\ GateAt(t, t.updated).frees)
  BY <1>2, StretchWorks
<1>4. Cut(t, m) = Cut(t, n)
  BY <1>2 DEF Cut
<1> QED
  BY <1>2, <1>3, <1>4

LEMMA StretchWithin ==
  ASSUME Pictured, NEW s \in Counter, NEW e \in Counter, Within(s, e),
         s.updated = e.updated, NEW m \in Nat, s.updated < m
  PROVE  /\ Within(Stretch(s, m), Stretch(e, m))
         /\ Stretch(s, m).updated = Stretch(e, m).updated
<1> DEFINE g == GateAt(s, s.updated)
           h == GateAt(e, e.updated)
           u == Until(s, m)
           v == Until(e, m)
           n == Counted(s, u)
           k == Counted(e, v)
<1>1. s.updated \in Nat /\ s.mode = e.mode /\ s.released = e.released
  BY DEF Counter, Within
<1>2. Alike(h, g) /\ Boolean(g) /\ (g.ends => g.until > s.updated)
  BY <1>1, GateHolds
<1>3. (Cut(s, m) <=> Cut(e, m)) /\ u = v
  BY <1>2 DEF Cut, Until, Alike
<1>4. n = k
  BY <1>1, <1>2, <1>3 DEF Counted, Alike
<1>5. /\ u \in Nat /\ n \in Nat /\ Step(s, n) \in Counter
      /\ Stretch(s, m) = Ends(Step(s, n), u, Cut(s, m) /\ g.zeroes, Cut(s, m) /\ g.frees)
      /\ Stretch(s, m).updated = u
  BY StretchWorks
<1>6. /\ Step(e, k) \in Counter
      /\ Stretch(e, m) = Ends(Step(e, k), v, Cut(e, m) /\ h.zeroes, Cut(e, m) /\ h.frees)
      /\ Stretch(e, m).updated = v
  BY StretchWorks
<1> HIDE DEF g, h, u, v, n, k
<1>7. Within(Step(s, n), Step(e, k))
  BY <1>4, <1>5, StepWithin
<1>8. /\ (Cut(s, m) /\ g.zeroes) <=> (Cut(e, m) /\ h.zeroes)
      /\ (Cut(s, m) /\ g.frees) <=> (Cut(e, m) /\ h.frees)
  BY <1>2, <1>3 DEF Alike
<1> QED
  BY <1>3, <1>5, <1>6, <1>7, <1>8, EndsWithin

\* A turn nothing cuts short may be stopped on the way and taken up again.
LEMMA StretchSplit ==
  ASSUME Pictured, NEW t \in Counter, NEW n \in Nat, NEW m \in Nat,
         t.updated < n, n < m, ~Cut(t, n)
  PROVE  /\ Within(Stretch(t, m), Stretch(Stretch(t, n), m))
         /\ Stretch(t, m).updated = Stretch(Stretch(t, n), m).updated
<1> DEFINE g == GateAt(t, t.updated)
           c == Counted(t, n)
           r == Step(t, c)
           a == Stretch(t, n)
           h == GateAt(a, a.updated)
           u == Until(t, m)
           d == Counted(a, u)
           zeroed == Cut(t, n) /\ g.zeroes
           freed == Cut(t, n) /\ g.frees
<1>1. /\ t.updated \in Nat /\ c \in Nat /\ Boolean(g) /\ r \in Counter
      /\ a = Ends(r, n, zeroed, freed) /\ a \in Counter /\ a.updated = n
      /\ a.mode = t.mode
  <2>1. Until(t, n) = n
    BY DEF Until
  <2> QED
    BY <2>1, StretchWorks
<1>2. t.updated < m
  BY <1>1
<1>3. /\ u \in Nat /\ t.updated < u /\ u <= m /\ Counted(t, u) \in Nat
      /\ Step(t, Counted(t, u)) \in Counter
      /\ Stretch(t, m) = Ends(Step(t, Counted(t, u)), u,
                              Cut(t, m) /\ g.zeroes, Cut(t, m) /\ g.frees)
      /\ Stretch(t, m).updated = u
  BY <1>2, StretchWorks
<1>4. /\ g.ends => g.until \in Nat /\ n < g.until
  BY <1>1, GateHolds DEF Cut
<1>5. r.released = t.released /\ r.mode = t.mode
  BY <1>1, StepWorks
<1> HIDE DEF c, r, zeroed, freed
<1>6. a.released = t.released /\ Within(r, a)
  <2> DEFINE e == Ends(r, n, zeroed, freed)
  <2>1. /\ e.value = r.value /\ e.released \in BOOLEAN /\ (e.released <=> r.released)
        /\ e.target = r.target /\ e.mode = r.mode
        /\ e.reachedTarget = r.reachedTarget /\ e.fired = r.fired
    <3>1. ~zeroed /\ ~freed
      BY DEF zeroed, freed
    <3> QED
      BY <1>1, <3>1, EndsWorks
  <2>2. r.released \in BOOLEAN
    BY <1>1 DEF Counter
  <2> HIDE DEF e
  <2> QED
    BY <1>1, <1>5, <2>1, <2>2 DEF Within, e
<1> HIDE DEF a
<1>7. Alike(h, g)
  <2>1. /\ a.updated \in Nat /\ t.updated <= a.updated
        /\ g.ends => a.updated < g.until
    BY <1>1, <1>4
  <2> QED
    BY <1>1, <1>6, <2>1, GateHolds
<1>8. (Cut(t, m) <=> Cut(a, m)) /\ Until(a, m) = u
  BY <1>7 DEF Cut, Until, Alike
<1>9. /\ d \in Nat /\ Step(a, d) \in Counter
      /\ Stretch(a, m) = Ends(Step(a, d), u, Cut(a, m) /\ h.zeroes, Cut(a, m) /\ h.frees)
      /\ Stretch(a, m).updated = u
  <2>1. a.updated < m
    BY <1>1
  <2> QED
    BY <1>1, <1>8, <2>1, StretchWorks
<1>10. n < u
  BY <1>4 DEF Until, Cut
<1>11. Counted(t, u) = c + d
  <2>1. /\ ClockAt(t.mode.fast, t.updated) \in Int /\ ClockAt(t.mode.fast, n) \in Int
        /\ ClockAt(t.mode.fast, u) \in Int
    BY <1>1, <1>3, <1>10, ClockGrows
  <2> HIDE DEF g, h, u
  <2>2. CASE g.counting
    <3>1. h.counting
      BY <1>7, <2>2 DEF Alike
    <3>2. c = ClockAt(t.mode.fast, n) - ClockAt(t.mode.fast, t.updated)
      BY <2>2 DEF Counted, c, g
    <3>3. d = ClockAt(t.mode.fast, u) - ClockAt(t.mode.fast, n)
      BY <1>1, <3>1 DEF Counted, h
    <3>4. Counted(t, u) = ClockAt(t.mode.fast, u) - ClockAt(t.mode.fast, t.updated)
      BY <2>2 DEF Counted, g
    <3> QED
      BY <2>1, <3>2, <3>3, <3>4
  <2>3. CASE ~g.counting
    <3>1. ~h.counting
      BY <1>7, <2>3 DEF Alike
    <3> QED
      BY <2>3, <3>1 DEF Counted, c, g, h
  <2> QED
    BY <2>2, <2>3
<1>12. Within(Step(t, c + d), Step(r, d))
  BY <1>1, <1>9, StepSplit DEF r
<1>13. Within(Step(r, d), Step(a, d))
  BY <1>1, <1>6, <1>9, StepWithin
<1>14. Within(Step(t, c + d), Step(a, d))
  BY <1>12, <1>13, WithinTrans
<1>15. /\ (Cut(t, m) /\ g.zeroes) <=> (Cut(a, m) /\ h.zeroes)
       /\ (Cut(t, m) /\ g.frees) <=> (Cut(a, m) /\ h.frees)
  BY <1>7, <1>8 DEF Alike
<1> HIDE DEF g, h, u, d
<1>16. Within(Stretch(t, m), Stretch(a, m))
  BY <1>3, <1>9, <1>11, <1>14, <1>15, EndsWithin
<1> QED
  BY <1>3, <1>9, <1>16 DEF a

-----------------------------------------------------------------------------
(* The loop.                                                               *)

Turn(s, upTo) == IF s.updated >= upTo THEN s ELSE Stretch(s, upTo)

\* T is t and what the turns after it make of it.
Turns(T, t, upTo, n) == T[0] = t /\ \A k \in 1 .. n : T[k] = Turn(T[k - 1], upTo)

\* The loop of Advance is there.
LEMMA AdvanceTurns ==
  ASSUME NEW t \in Counter, NEW upTo \in Nat, t.updated < upTo
  PROVE  \E T : Turns(T, t, upTo, upTo - t.updated) /\ Advance(t, upTo) = T[upTo - t.updated]
<1> DEFINE N == upTo - t.updated
<1>1. N \in Nat /\ ~(t.updated >= upTo) /\ N \in 0 .. N
  BY DEF Counter
<1> DEFINE F(f) == [n \in 0 .. N |->
                      IF n = 0 THEN t
                      ELSE IF f[n - 1].updated >= upTo THEN f[n - 1]
                      ELSE Stretch(f[n - 1], upTo)]
           turns == CHOOSE f : f = F(f)
<1>2. Advance(t, upTo) = turns[N]
  BY <1>1, Zenon DEF Advance
<1> HIDE DEF N
<1>3. \E f : Turns(f, t, upTo, N)
  <2> DEFINE S == {n \in Nat : \E f : Turns(f, t, upTo, n)}
  <2>1. 0 \in S
    <3> DEFINE f == [k \in {0} |-> t]
    <3>1. f[0] = t /\ \A k \in 1 .. 0 : f[k] = Turn(f[k - 1], upTo)
      OBVIOUS
    <3> QED
      BY <3>1 DEF Turns
  <2>2. ASSUME NEW n \in Nat, n \in S
        PROVE  n + 1 \in S
    <3>1. PICK f : Turns(f, t, upTo, n)
      BY <2>2
    <3> DEFINE g == [k \in 0 .. n + 1 |-> IF k = n + 1 THEN Turn(f[n], upTo) ELSE f[k]]
    <3>2. \A k \in 0 .. n : g[k] = f[k]
      OBVIOUS
    <3>3. g[n + 1] = Turn(f[n], upTo)
      OBVIOUS
    <3> HIDE DEF g
    <3>4. ASSUME NEW k \in 1 .. n + 1
          PROVE  g[k] = Turn(g[k - 1], upTo)
      <4>1. CASE k = n + 1
        BY <3>2, <3>3, <4>1
      <4>2. CASE k \in 1 .. n
        <5>1. k - 1 \in 0 .. n /\ k \in 0 .. n
          BY <4>2
        <5> QED
          BY <3>1, <3>2, <4>2, <5>1 DEF Turns
      <4> QED
        BY <4>1, <4>2
    <3>5. g[0] = t
      BY <3>1, <3>2 DEF Turns
    <3>6. Turns(g, t, upTo, n + 1)
      BY <3>4, <3>5 DEF Turns
    <3> QED
      BY <3>6
  <2> HIDE DEF S
  <2>3. Nat \subseteq S
    BY <2>1, <2>2, Induction
  <2> QED
    BY <1>1, <2>3 DEF S
<1>4. PICK f : Turns(f, t, upTo, N)
  BY <1>3
<1> DEFINE g == [n \in 0 .. N |-> f[n]]
<1>5. g = F(g)
  <2>1. ASSUME NEW n \in 0 .. N
        PROVE  g[n] = IF n = 0 THEN t
                      ELSE IF g[n - 1].updated >= upTo THEN g[n - 1]
                      ELSE Stretch(g[n - 1], upTo)
    <3>1. CASE n = 0
      BY <1>4, <3>1 DEF Turns
    <3>2. CASE n # 0
      <4>1. n \in 1 .. N /\ n - 1 \in 0 .. N
        BY <1>1, <3>2
      <4>2. g[n] = Turn(g[n - 1], upTo)
        BY <1>4, <4>1 DEF Turns
      <4> QED
        BY <3>2, <4>2 DEF Turn
    <3> QED
      BY <3>1, <3>2
  <2> QED
    BY <2>1
<1>6. turns = F(turns)
  <2> HIDE DEF F
  <2> QED
    BY <1>5
<1>7. Turns(turns, t, upTo, N)
  <2>1. \A n \in 0 .. N : turns[n] = IF n = 0 THEN t
                                     ELSE IF turns[n - 1].updated >= upTo THEN turns[n - 1]
                                     ELSE Stretch(turns[n - 1], upTo)
    <3> HIDE DEF turns
    <3> QED
      BY <1>6
  <2> HIDE DEF turns
  <2>2. 0 \in 0 .. N /\ \A n \in 1 .. N : n \in 0 .. N /\ n # 0
    BY <1>1
  <2> QED
    BY <2>1, <2>2 DEF Turns, Turn
<1> QED
  BY <1>2, <1>7 DEF N

\* Every turn gets a cycle on, until there are no more to go.
LEMMA TurnsGoOn ==
  ASSUME Pictured, NEW t \in Counter, NEW upTo \in Nat, t.updated <= upTo, NEW T,
         NEW n \in Nat, Turns(T, t, upTo, n)
  PROVE  \A k \in 0 .. n :
           /\ T[k] \in Counter /\ T[k].mode = t.mode /\ T[k].target = t.target
           /\ T[k].updated <= upTo
           /\ T[k].updated < upTo => T[k].updated >= t.updated + k
<1> DEFINE P(k) == /\ T[k] \in Counter /\ T[k].mode = t.mode /\ T[k].target = t.target
                   /\ T[k].updated <= upTo
                   /\ T[k].updated < upTo => T[k].updated >= t.updated + k
           S == {k \in Nat : k <= n => P(k)}
<1>0. t.updated \in Nat
  BY DEF Counter
<1>1. 0 \in S
  BY <1>0 DEF Turns
<1>2. ASSUME NEW k \in Nat, k \in S
      PROVE  k + 1 \in S
  <2> SUFFICES ASSUME k + 1 <= n PROVE P(k + 1)
    OBVIOUS
  <2>1. P(k)
    BY <1>2
  <2>2. T[k + 1] = Turn(T[k], upTo)
    <3>1. k + 1 \in 1 .. n /\ (k + 1) - 1 = k
      OBVIOUS
    <3> QED
      BY <3>1 DEF Turns
  <2>3. T[k].updated \in Nat
    BY <2>1 DEF Counter
  <2>4. CASE T[k].updated >= upTo
    BY <2>1, <2>2, <2>3, <2>4 DEF Turn
  <2>5. CASE T[k].updated < upTo
    <3> DEFINE s == T[k]
               u == Until(s, upTo)
    <3>1. T[k + 1] = Stretch(s, upTo)
      BY <2>2, <2>3, <2>5 DEF Turn
    <3>2. /\ u \in Nat /\ s.updated < u /\ u <= upTo
          /\ Stretch(s, upTo) \in Counter /\ Stretch(s, upTo).updated = u
          /\ Stretch(s, upTo).mode = s.mode /\ Stretch(s, upTo).target = s.target
      BY <2>1, <2>5, StretchWorks
    <3> HIDE DEF u
    <3> QED
      BY <1>0, <2>1, <2>3, <2>5, <3>1, <3>2
  <2> QED
    BY <2>3, <2>4, <2>5
<1> HIDE DEF S
<1>3. Nat \subseteq S
  BY <1>1, <1>2, Induction
<1>4. \A k \in 0 .. n : P(k)
  BY <1>3 DEF S
<1> QED
  BY <1>4

\* What advance leaves is up to date.
LEMMA AdvanceWorks ==
  ASSUME Pictured, NEW t \in Counter, NEW upTo \in Nat, t.updated <= upTo
  PROVE  /\ Advance(t, upTo) \in Counter /\ Advance(t, upTo).updated = upTo
         /\ Advance(t, upTo).mode = t.mode /\ Advance(t, upTo).target = t.target
<1>1. t.updated \in Nat
  BY DEF Counter
<1>2. CASE t.updated = upTo
  <2>1. Advance(t, upTo) = t
    BY <1>1, <1>2, Zenon DEF Advance
  <2> QED
    BY <1>2, <2>1
<1>3. CASE t.updated < upTo
  <2> DEFINE N == upTo - t.updated
  <2>1. N \in Nat /\ N \in 0 .. N
    BY <1>1, <1>3
  <2>2. PICK T : Turns(T, t, upTo, N) /\ Advance(t, upTo) = T[N]
    BY <1>3, AdvanceTurns
  <2>3. /\ T[N] \in Counter /\ T[N].mode = t.mode /\ T[N].target = t.target
        /\ T[N].updated <= upTo
        /\ T[N].updated < upTo => T[N].updated >= t.updated + N
    <3> HIDE DEF N
    <3> QED
      BY <2>1, <2>2, TurnsGoOn
  <2>4. T[N].updated \in Nat
    BY <2>3 DEF Counter
  <2> QED
    BY <1>1, <2>2, <2>3, <2>4
<1> QED
  BY <1>1, <1>2, <1>3

\* Once there is no more to go the turns change nothing.
LEMMA TurnsStay ==
  ASSUME NEW T, NEW t, NEW upTo \in Nat, NEW n \in Nat, Turns(T, t, upTo, n),
         NEW j \in 0 .. n, T[j].updated >= upTo
  PROVE  T[n] = T[j]
<1> DEFINE S == {d \in Nat : j + d <= n => T[j + d] = T[j]}
<1>1. 0 \in S
  OBVIOUS
<1>2. ASSUME NEW d \in Nat, d \in S
      PROVE  d + 1 \in S
  <2> SUFFICES ASSUME j + (d + 1) <= n PROVE T[j + (d + 1)] = T[j]
    OBVIOUS
  <2>1. T[j + d] = T[j]
    BY <1>2
  <2>2. j + (d + 1) \in 1 .. n /\ (j + (d + 1)) - 1 = j + d
    OBVIOUS
  <2>3. T[j + (d + 1)] = Turn(T[j + d], upTo)
    BY <2>2 DEF Turns
  <2> QED
    BY <2>1, <2>3 DEF Turn
<1> HIDE DEF S
<1>3. Nat \subseteq S
  BY <1>1, <1>2, Induction
<1>4. n - j \in Nat /\ j + (n - j) = n
  OBVIOUS
<1> QED
  BY <1>3, <1>4 DEF S

\* advance goes on from where its first turn leaves off.
LEMMA AdvanceUnfolds ==
  ASSUME Pictured, NEW t \in Counter, NEW upTo \in Nat, t.updated < upTo
  PROVE  Advance(t, upTo) = Advance(Stretch(t, upTo), upTo)
<1> DEFINE s == Stretch(t, upTo)
           N == upTo - t.updated
<1>1. t.updated \in Nat /\ N \in Nat \ {0} /\ 1 \in 1 .. N /\ 0 \in 0 .. N /\ 1 \in 0 .. N
  BY DEF Counter
<1>2. s \in Counter /\ s.updated \in Nat /\ t.updated < s.updated /\ s.updated <= upTo
  <2>1. s \in Counter /\ s.updated = Until(t, upTo)
        /\ Until(t, upTo) \in Nat /\ t.updated < Until(t, upTo) /\ Until(t, upTo) <= upTo
    BY StretchWorks
  <2> HIDE DEF s
  <2> QED
    BY <2>1
<1>3. PICK T : Turns(T, t, upTo, N) /\ Advance(t, upTo) = T[N]
  BY AdvanceTurns
<1>4. T[1] = s
  <2>1. T[1] = Turn(T[1 - 1], upTo) /\ T[0] = t
    BY <1>1, <1>3 DEF Turns
  <2>2. 1 - 1 = 0 /\ ~(t.updated >= upTo)
    BY <1>1
  <2> QED
    BY <2>1, <2>2 DEF Turn
<1> HIDE DEF s
<1>5. CASE s.updated = upTo
  <2>1. Advance(s, upTo) = s
    BY <1>2, <1>5, Zenon DEF Advance
  <2>2. T[1].updated >= upTo
    BY <1>4, <1>5
  <2>3. T[N] = T[1]
    <3> HIDE DEF N
    <3> QED
      BY <1>1, <1>3, <2>2, TurnsStay
  <2> QED
    BY <1>3, <1>4, <2>1, <2>3 DEF s
<1>6. CASE s.updated < upTo
  <2> DEFINE M == upTo - s.updated
  <2>1. M \in Nat /\ M + 1 \in 0 .. N
    BY <1>1, <1>2, <1>6
  <2>2. PICK U : Turns(U, s, upTo, M) /\ Advance(s, upTo) = U[M]
    BY <1>2, <1>6, AdvanceTurns
  <2>3. U[M] = T[M + 1]
    <3> DEFINE S == {k \in Nat : k <= M => U[k] = T[k + 1]}
    <3> HIDE DEF N, M
    <3>1. 0 \in S
      BY <1>4, <2>2 DEF Turns
    <3>2. ASSUME NEW k \in Nat, k \in S
          PROVE  k + 1 \in S
      <4> SUFFICES ASSUME k + 1 <= M PROVE U[k + 1] = T[(k + 1) + 1]
        OBVIOUS
      <4>1. U[k] = T[k + 1]
        BY <2>1, <3>2
      <4>2. k + 1 \in 1 .. M /\ (k + 1) - 1 = k /\ (k + 1) + 1 \in 1 .. N
            /\ ((k + 1) + 1) - 1 = k + 1
        BY <1>1, <2>1
      <4>3. U[k + 1] = Turn(U[k], upTo) /\ T[(k + 1) + 1] = Turn(T[k + 1], upTo)
        BY <1>3, <2>2, <4>2 DEF Turns
      <4> QED
        BY <4>1, <4>3
    <3> HIDE DEF S
    <3>3. Nat \subseteq S
      BY <3>1, <3>2, Induction
    <3>4. M <= M
      BY <2>1
    <3> QED
      BY <2>1, <3>3, <3>4 DEF S
  <2>4. U[M].updated = upTo
    BY <1>2, <2>2, AdvanceWorks
  <2>5. T[N] = T[M + 1]
    <3> HIDE DEF N, M
    <3>1. T[M + 1].updated >= upTo
      BY <2>3, <2>4
    <3> QED
      BY <1>1, <1>3, <2>1, <3>1, TurnsStay
  <2> QED
    BY <1>3, <2>2, <2>3, <2>5 DEF s
<1> QED
  BY <1>2, <1>5, <1>6

LEMMA AdvanceStays ==
  ASSUME NEW t \in Counter, NEW upTo \in Nat, t.updated = upTo
  PROVE  Advance(t, upTo) = t
<1>1. t.updated >= upTo
  OBVIOUS
<1> QED
  BY <1>1, Zenon DEF Advance

\* A counter whose first turn gets it there needs no other.
LEMMA AdvanceOnce ==
  ASSUME Pictured, NEW t \in Counter, NEW upTo \in Nat, t.updated < upTo,
         Until(t, upTo) = upTo
  PROVE  Advance(t, upTo) = Stretch(t, upTo)
<1>1. Stretch(t, upTo) \in Counter /\ Stretch(t, upTo).updated = upTo
  BY StretchWorks
<1> QED
  BY <1>1, AdvanceStays, AdvanceUnfolds

LEMMA WithinItself ==
  ASSUME NEW t
  PROVE  Within(t, t)
  BY Zenon DEF Within

\* Brought up to date in one go or stopping a cycle short on the way: what a
\* reader may find is the same.
LEMMA AdvanceSplits ==
  ASSUME Pictured, NEW t \in Counter, NEW n \in Nat, t.updated <= n
  PROVE  Within(Advance(t, n + 1), Advance(Advance(t, n), n + 1))
<1> DEFINE P(x) == Within(Advance(x, n + 1), Advance(Advance(x, n), n + 1))
           S == {d \in Nat : \A x \in Counter : x.updated <= n /\ n - x.updated <= d => P(x)}
<1>1. ASSUME NEW x \in Counter, x.updated = n
      PROVE  P(x)
  <2>1. Advance(x, n) = x
    BY <1>1, AdvanceStays
  <2> QED
    BY <2>1, WithinItself
<1>2. 0 \in S
  <2>1. ASSUME NEW x \in Counter, x.updated <= n, n - x.updated <= 0
        PROVE  x.updated = n
    BY <2>1 DEF Counter
  <2> HIDE DEF P
  <2> QED
    BY <1>1, <2>1
<1>3. ASSUME NEW d \in Nat, d \in S
      PROVE  d + 1 \in S
  <2> SUFFICES ASSUME NEW x \in Counter, x.updated <= n, n - x.updated <= d + 1
               PROVE  P(x)
    OBVIOUS
  <2>1. x.updated \in Nat /\ n + 1 \in Nat
    BY DEF Counter
  <2>2. CASE x.updated = n
    BY <1>1, <2>2
  <2>3. CASE x.updated < n /\ Cut(x, n)
    <3> DEFINE s == Stretch(x, n)
    <3>1. s = Stretch(x, n + 1)
      <4>1. n <= n + 1
        OBVIOUS
      <4> QED
        BY <2>1, <2>3, <4>1, StretchCut
    <3>2. s \in Counter /\ s.updated \in Nat /\ x.updated < s.updated /\ s.updated <= n
      <4>1. s \in Counter /\ s.updated = Until(x, n)
            /\ Until(x, n) \in Nat /\ x.updated < Until(x, n) /\ Until(x, n) <= n
        BY <2>3, StretchWorks
      <4> HIDE DEF s
      <4> QED
        BY <4>1
    <3>3. Advance(x, n) = Advance(s, n)
      BY <2>3, AdvanceUnfolds
    <3>4. Advance(x, n + 1) = Advance(s, n + 1)
      <4>1. x.updated < n + 1
        BY <2>1
      <4> QED
        BY <2>1, <3>1, <4>1, AdvanceUnfolds
    <3> HIDE DEF s
    <3>5. P(s)
      <4>1. n - s.updated <= d
        BY <2>1, <3>2
      <4> HIDE DEF P
      <4> QED
        BY <1>3, <3>2, <4>1
    <3> QED
      BY <3>3, <3>4, <3>5
  <2>4. CASE x.updated < n /\ ~Cut(x, n)
    <3> DEFINE a == Stretch(x, n)
    <3>1. Until(x, n) = n /\ x.updated < n + 1 /\ n < n + 1
      BY <2>1, <2>4 DEF Until
    <3>2. a \in Counter /\ a.updated = n
      BY <2>4, <3>1, StretchWorks
    <3>3. Advance(x, n) = a
      BY <2>4, <3>1, AdvanceOnce
    <3>4. Until(x, n + 1) = n + 1
      <4>1. GateAt(x, x.updated).ends => GateAt(x, x.updated).until \in Nat
        BY <2>1, GateHolds
      <4> QED
        BY <2>1, <2>4, <4>1 DEF Until, Cut
    <3>5. Advance(x, n + 1) = Stretch(x, n + 1)
      BY <2>1, <3>1, <3>4, AdvanceOnce
    <3>6. Within(Stretch(x, n + 1), Stretch(a, n + 1))
      BY <2>1, <2>4, <3>1, StretchSplit
    <3> HIDE DEF a
    <3>7. Advance(a, n + 1) = Stretch(a, n + 1)
      <4>1. /\ Until(a, n + 1) \in Nat /\ a.updated < Until(a, n + 1)
            /\ Until(a, n + 1) <= n + 1
        BY <2>1, <3>1, <3>2, StretchWorks
      <4>2. Until(a, n + 1) = n + 1
        BY <3>2, <4>1
      <4> QED
        BY <2>1, <3>1, <3>2, <4>2, AdvanceOnce
    <3> QED
      BY <3>3, <3>5, <3>6, <3>7
  <2> QED
    BY <2>1, <2>2, <2>3, <2>4
<1> HIDE DEF S
<1>4. Nat \subseteq S
  BY <1>2, <1>3, Induction
<1>5. n - t.updated \in Nat /\ n - t.updated <= n - t.updated
  BY DEF Counter
<1> HIDE DEF P
<1>6. P(t)
  BY <1>4, <1>5 DEF S
<1> QED
  BY <1>6 DEF P

\* Two counters that stand alike still do a cycle later.
LEMMA AdvanceWithin ==
  ASSUME Pictured, NEW s \in Counter, NEW e \in Counter, NEW n \in Nat,
         s.updated = n, e.updated = n, Within(s, e)
  PROVE  Within(Advance(s, n + 1), Advance(e, n + 1))
<1>1. n + 1 \in Nat /\ n < n + 1
  OBVIOUS
<1>2. ASSUME NEW x \in {s, e}
      PROVE  Advance(x, n + 1) = Stretch(x, n + 1)
  <2>1. x \in Counter /\ x.updated < n + 1
    BY <1>1
  <2>2. Until(x, n + 1) \in Nat /\ x.updated < Until(x, n + 1) /\ Until(x, n + 1) <= n + 1
    BY <1>1, <2>1, StretchWorks
  <2>3. Until(x, n + 1) = n + 1
    BY <2>2
  <2> QED
    BY <1>1, <2>1, <2>3, AdvanceOnce
<1>3. Within(Stretch(s, n + 1), Stretch(e, n + 1))
  <2>1. s.updated = e.updated /\ s.updated < n + 1
    BY <1>1
  <2> QED
    BY <1>1, <2>1, StretchWithin
<1> QED
  BY <1>2, <1>3

-----------------------------------------------------------------------------
(* What is kept.                                                           *)

Typed ==
  /\ index \in Indexes /\ dot \in DotModes /\ hblank \in HblankWidths
  /\ now \in 0 .. Horizon /\ beat \in Nat /\ redrawn \in BOOLEAN
  /\ timer \in Counter /\ exact \in Counter
  /\ timer.updated <= now /\ exact.updated = now

\* The counter brought up to date in one go stands where the other does.
Abreast == Typed /\ (~redrawn => Within(Advance(timer, now), exact))

LEMMA Pictures ==
  ASSUME Typed
  PROVE  Pictured /\ now \in Nat
  BY TimersAssumption DEF Typed, Pictured

-----------------------------------------------------------------------------
(* A step that leaves the picture alone leaves everything worked out from  *)
(* it alone.                                                               *)

Undisturbed == UNCHANGED <<index, dot, hblank>>

LEMMA SameClock ==
  ASSUME Undisturbed, NEW f, NEW a
  PROVE  ClockAt(f, a)' = ClockAt(f, a)
  BY DEF ClockAt, Undisturbed

LEMMA SameSignal ==
  ASSUME Undisturbed, NEW a
  PROVE  (Asserted(a)' <=> Asserted(a)) /\ Edge(a)' = Edge(a)
  <1>1. Blank' = Blank
    BY Zenon DEF Blank, Undisturbed
  <1> QED
    BY <1>1, Zenon DEF Asserted, Edge

LEMMA SameGate ==
  ASSUME Undisturbed, NEW t, NEW a
  PROVE  GateAt(t, a)' = GateAt(t, a)
<1> DEFINE s == t.mode.sync
           G(as, e) ==
             LET Gat(c, z, f) == [counting |-> c, ends |-> TRUE, until |-> e, zeroes |-> z, frees |-> f]
             IN CASE s = 0 -> Gat(~as, FALSE, FALSE)
                  [] s = 1 -> Gat(TRUE, ~as, FALSE)
                  [] s = 2 -> Gat(as, ~as, FALSE)
                  [] s = 3 -> Gat(FALSE, FALSE, ~as)
           H(as, e) ==
             IF ~t.mode.synced \/ t.released THEN Free
             ELSE IF index = 2 THEN [Free EXCEPT !.counting = t.mode.sync \in {1, 2}]
             ELSE G(as, e)
<1> DEFINE J == H(Asserted(a), Edge(a))
<1>1. GateAt(t, a) = J
  BY Zenon DEF GateAt, Gated, Undisturbed
<1>2. GateAt(t, a)' = J'
  BY Zenon DEF GateAt, Gated, Undisturbed
<1>3. J' = J
  <2>1. G(Asserted(a), Edge(a))' = G(Asserted(a)', Edge(a)')
    OBVIOUS
  <2>2. Asserted(a)' = Asserted(a) /\ Edge(a)' = Edge(a)
    BY SameSignal DEF Asserted
  <2>3. index' = index
    BY DEF Undisturbed
  <2> HIDE DEF G
  <2> QED
    BY <2>1, <2>2, <2>3, Zenon
<1> HIDE DEF J
<1> QED
  BY <1>1, <1>2, <1>3, Zenon

LEMMA SameStretch ==
  ASSUME Undisturbed, NEW t, NEW a
  PROVE  Stretch(t, a)' = Stretch(t, a)
  BY SameClock, SameGate, ZenonT(60) DEF Stretch

LEMMA SameAdvance ==
  ASSUME Undisturbed, NEW t, NEW a
  PROVE  Advance(t, a)' = Advance(t, a)
<1> DEFINE G(f) == [n \in 0 .. a - t.updated |->
                      IF n = 0 THEN t
                      ELSE IF f[n - 1].updated >= a THEN f[n - 1]
                      ELSE Stretch(f[n - 1], a)]
<1>1. \A f : G(f)' = G(f)
  BY SameStretch
<1>2. (CHOOSE f : f = G(f))' = CHOOSE f : f = G(f)
  <2> HIDE DEF G
  <2> QED
    BY <1>1, Zenon
<1> DEFINE turns == CHOOSE f : f = G(f)
<1>3. Advance(t, a) = IF t.updated >= a THEN t ELSE turns[a - t.updated]
  BY Zenon DEF Advance
<1>4. Advance(t, a)' = IF t.updated >= a THEN t ELSE turns'[a - t.updated]
  BY Zenon DEF Advance
<1> HIDE DEF turns
<1>5. turns' = turns
  BY <1>2 DEF turns
<1> QED
  BY <1>3, <1>4, <1>5, Zenon
-----------------------------------------------------------------------------
(* The steps.                                                              *)

LEMMA AbreastInit == TimersInit => Abreast
<1> SUFFICES ASSUME TimersInit PROVE Abreast
  OBVIOUS
<1>1. PoweredOn \in Counter
  BY TimersAssumption DEF PoweredOn, Counter, Setting
<1>2. Typed /\ timer = exact /\ timer.updated = now /\ now \in Nat
  <2>1. PoweredOn.updated = 0
    BY DEF PoweredOn
  <2>2. Tick \in Nat /\ Horizon \in Nat
    BY TimersAssumption
  <2>3. now \in 0 .. Horizon /\ beat \in Nat /\ timer.updated <= now /\ exact.updated = now
    BY <2>1, <2>2 DEF TimersInit
  <2>4. timer = PoweredOn /\ exact = PoweredOn /\ now \in Nat
    BY DEF TimersInit
  <2>5. index \in Indexes /\ dot \in DotModes /\ hblank \in HblankWidths
    BY DEF TimersInit
  <2>6. redrawn \in BOOLEAN
    BY DEF TimersInit
  <2> QED
    BY <1>1, <2>3, <2>4, <2>5, <2>6 DEF Typed
<1>3. Advance(timer, now) = timer
  BY <1>2, AdvanceStays DEF Typed
<1> QED
  BY <1>2, <1>3, WithinItself DEF Abreast

LEMMA CycleAbreast ==
  ASSUME Abreast, Cycle
  PROVE  Abreast'
<1>1. Typed /\ Pictured /\ now \in Nat /\ now + 1 \in Nat
  BY Pictures DEF Abreast
<1>2. Advance(exact, now + 1) \in Counter /\ Advance(exact, now + 1).updated = now + 1
  <2>1. exact \in Counter /\ exact.updated <= now + 1
    BY <1>1 DEF Typed
  <2> QED
    BY <1>1, <2>1, AdvanceWorks
<1>3. Typed'
  <2>1. timer.updated \in Nat
    BY <1>1 DEF Typed, Counter
  <2> QED
    BY <1>1, <1>2, <2>1, TimersAssumption DEF Typed, Cycle
<1>4. ASSUME ~redrawn
      PROVE  Within(Advance(timer, now + 1), Advance(exact, now + 1))
  <2> DEFINE a == Advance(timer, now)
  <2>1. timer \in Counter /\ timer.updated <= now /\ exact \in Counter /\ exact.updated = now
    BY <1>1 DEF Typed
  <2>2. a \in Counter /\ a.updated = now
    BY <1>1, <2>1, AdvanceWorks
  <2>3. Within(a, exact)
    BY <1>4 DEF Abreast
  <2>4. Within(Advance(timer, now + 1), Advance(a, now + 1))
    BY <1>1, <2>1, AdvanceSplits
  <2> HIDE DEF a
  <2>5. Within(Advance(a, now + 1), Advance(exact, now + 1))
    BY <1>1, <2>1, <2>2, <2>3, AdvanceWithin
  <2> QED
    BY <2>4, <2>5, WithinTrans
<1>5. Advance(timer, now)' = Advance(timer, now + 1)
  <2>1. Undisturbed /\ timer' = timer /\ now' = now + 1
    BY DEF Undisturbed, Cycle
  <2> QED
    BY <2>1, SameAdvance, Zenon
<1>6. (~redrawn => Within(Advance(timer, now), exact))'
  BY <1>4, <1>5 DEF Cycle, Within
<1> QED
  BY <1>3, <1>6 DEF Abreast

LEMMA HeartbeatAbreast ==
  ASSUME Abreast, Heartbeat
  PROVE  Abreast'
<1> DEFINE a == Advance(timer, now)
<1>1. Typed /\ Pictured /\ now \in Nat /\ timer \in Counter /\ timer.updated <= now
  BY Pictures DEF Abreast, Typed
<1>2. a \in Counter /\ a.updated = now
  BY <1>1, AdvanceWorks
<1>3. Advance(a, now) = a
  BY <1>1, <1>2, AdvanceStays
<1>4. timer' = a /\ now' = now /\ exact' = exact /\ redrawn' = redrawn /\ Undisturbed
  BY DEF Heartbeat, Undisturbed
<1>5. ~redrawn => Within(a, exact)
  BY DEF Abreast
<1> HIDE DEF a
<1>6. Advance(timer, now)' = a
  BY <1>3, <1>4, SameAdvance, Zenon
<1>7. Typed'
  BY <1>1, <1>2, <1>4, TimersAssumption DEF Typed, Heartbeat
<1>8. (~redrawn => Within(Advance(timer, now), exact))'
  BY <1>4, <1>5, <1>6 DEF Within
<1> QED
  BY <1>7, <1>8 DEF Abreast

\* An access keeps the two in step when it does the same to both.
LEMMA AccessAbreast ==
  ASSUME Abreast, NEW c \in Counter, NEW e \in Counter,
         Advance(timer, now).updated = c.updated, exact.updated = e.updated,
         Within(Advance(timer, now), exact) => Within(c, e),
         timer' = c, exact' = e,
         UNCHANGED <<index, now, beat, dot, hblank, redrawn>>
  PROVE  Abreast'
<1>1. Typed /\ Pictured /\ now \in Nat /\ timer \in Counter /\ timer.updated <= now
      /\ exact.updated = now
  BY Pictures DEF Abreast, Typed
<1>2. c.updated = now
  BY <1>1, AdvanceWorks
<1>3. Advance(c, now) = c
  BY <1>1, <1>2, AdvanceStays
<1>4. Advance(timer, now)' = c
  <2>1. Undisturbed /\ now' = now
    BY DEF Undisturbed
  <2> QED
    BY <1>3, <2>1, SameAdvance, Zenon
<1>5. Typed'
  BY <1>1, <1>2 DEF Typed
<1>6. (~redrawn => Within(Advance(timer, now), exact))'
  BY <1>4 DEF Abreast, Within
<1> QED
  BY <1>5, <1>6 DEF Abreast

LEMMA Accessed ==
  ASSUME Abreast
  PROVE  Advance(timer, now) \in Counter /\ exact \in Counter
  BY Pictures, AdvanceWorks DEF Abreast, Typed

LEMMA ReadAbreast ==
  ASSUME Abreast, Read
  PROVE  Abreast'
<1>1. timer' = Advance(timer, now) /\ exact' = exact
      /\ UNCHANGED <<index, now, beat, dot, hblank, redrawn>>
  BY Zenon DEF Read, Access
<1> QED
  BY <1>1, Accessed, AccessAbreast

LEMMA ReadModeAbreast ==
  ASSUME Abreast, ReadMode
  PROVE  Abreast'
<1> DEFINE C(t) == [t EXCEPT !.reachedTarget = FALSE, !.reachedWrap = FALSE,
                             !.noInterrupt = TRUE]
           a == Advance(timer, now)
<1>1. timer' = C(a) /\ exact' = C(exact)
      /\ UNCHANGED <<index, now, beat, dot, hblank, redrawn>>
  BY Zenon DEF ReadMode, Access
<1>2. a \in Counter /\ exact \in Counter
  BY Accessed
<1> HIDE DEF a
<1>3. \A t \in Counter : C(t) \in Counter /\ C(t).updated = t.updated
  BY DEF Counter
<1>4. Within(a, exact) => Within(C(a), C(exact))
  BY <1>2 DEF Within, Counter
<1> HIDE DEF C
<1> QED
  BY <1>1, <1>2, <1>3, <1>4, AccessAbreast DEF a

LEMMA WriteValueAbreast ==
  ASSUME Abreast, NEW v \in Values, WriteValue(v)
  PROVE  Abreast'
<1> DEFINE C(t) == [t EXCEPT !.value = v]
           a == Advance(timer, now)
<1>1. timer' = C(a) /\ exact' = C(exact)
      /\ UNCHANGED <<index, now, beat, dot, hblank, redrawn>>
  BY Zenon DEF WriteValue, Access
<1>2. a \in Counter /\ exact \in Counter
  BY Accessed
<1> HIDE DEF a
<1>3. \A t \in Counter : C(t) \in Counter /\ C(t).updated = t.updated
  <2>1. v \in 0 .. Wrap - 1
    BY TimersAssumption
  <2> QED
    BY <2>1 DEF Counter
<1>4. Within(a, exact) => Within(C(a), C(exact))
  BY <1>2 DEF Within, Counter
<1> HIDE DEF C
<1> QED
  BY <1>1, <1>2, <1>3, <1>4, AccessAbreast DEF a

LEMMA WriteTargetAbreast ==
  ASSUME Abreast, NEW v \in Targets, WriteTarget(v)
  PROVE  Abreast'
<1> DEFINE C(t) == [t EXCEPT !.target = v]
           a == Advance(timer, now)
<1>1. timer' = C(a) /\ exact' = C(exact)
      /\ UNCHANGED <<index, now, beat, dot, hblank, redrawn>>
  BY Zenon DEF WriteTarget, Access
<1>2. a \in Counter /\ exact \in Counter
  BY Accessed
<1> HIDE DEF a
<1>3. \A t \in Counter : C(t) \in Counter /\ C(t).updated = t.updated
  <2>1. v \in 0 .. Wrap - 1
    BY TimersAssumption
  <2> QED
    BY <2>1 DEF Counter
<1>4. Within(a, exact) => Within(C(a), C(exact))
  BY <1>2 DEF Within, Counter
<1> HIDE DEF C
<1> QED
  BY <1>1, <1>2, <1>3, <1>4, AccessAbreast DEF a

LEMMA WriteModeAbreast ==
  ASSUME Abreast, NEW m \in Modes, WriteMode(m)
  PROVE  Abreast'
<1> DEFINE C(t) == [t EXCEPT !.mode = m, !.noInterrupt = TRUE, !.value = 0,
                             !.reachedTarget = FALSE, !.reachedWrap = FALSE,
                             !.fired = FALSE, !.released = FALSE, !.raised = 0]
           a == Advance(timer, now)
<1>1. timer' = C(a) /\ exact' = C(exact)
      /\ UNCHANGED <<index, now, beat, dot, hblank, redrawn>>
  BY Zenon DEF WriteMode, Access
<1>2. a \in Counter /\ exact \in Counter
  BY Accessed
<1> HIDE DEF a
<1>3. \A t \in Counter : C(t) \in Counter /\ C(t).updated = t.updated
  <2>1. m \in Setting /\ 0 \in 0 .. Wrap - 1
    BY TimersAssumption
  <2>2. ASSUME NEW t \in Counter
        PROVE  C(t) \in Counter /\ C(t).updated = t.updated
    <3> DEFINE d == C(t)
    <3>0. 0 \in 0 .. 2 /\ t \in [value : 0 .. Wrap - 1, target : 0 .. Wrap - 1,
            mode : Setting, noInterrupt : BOOLEAN, reachedTarget : BOOLEAN,
            reachedWrap : BOOLEAN, updated : Nat, fired : BOOLEAN, released : BOOLEAN,
            raised : 0 .. 2]
      BY DEF Counter
    <3>1. d \in [value : 0 .. Wrap - 1, target : 0 .. Wrap - 1, mode : Setting,
                 noInterrupt : BOOLEAN, reachedTarget : BOOLEAN, reachedWrap : BOOLEAN,
                 updated : Nat, fired : BOOLEAN, released : BOOLEAN, raised : 0 .. 2]
      BY <2>1, <3>0, Zenon
    <3>2. d.fired = FALSE /\ d.raised = 0 /\ d.updated = t.updated
      BY DEF Counter
    <3> HIDE DEF C
    <3>3. d.fired <=> d.raised > 0
      BY <3>2
    <3> QED
      BY <3>1, <3>2, <3>3, Zenon DEF Counter
  <2> QED
    BY <2>2
<1>4. Within(a, exact) => Within(C(a), C(exact))
  BY <1>2 DEF Within, Counter
<1> HIDE DEF C
<1> QED
  BY <1>1, <1>2, <1>3, <1>4, AccessAbreast DEF a

LEMMA RedrawnAbreast ==
  ASSUME Abreast, (\E d \in DotModes : SetDisplayMode(d))
                   \/ (\E h \in HblankWidths : SetDisplayRange(h))
  PROVE  Abreast'
  BY DEF Abreast, Typed, SetDisplayMode, SetDisplayRange

LEMMA NothingAbreast ==
  ASSUME Abreast, UNCHANGED timersVars
  PROVE  Abreast'
<1>1. Undisturbed /\ timer' = timer /\ now' = now
  BY DEF timersVars, Undisturbed
<1>2. Advance(timer, now)' = Advance(timer, now)
  BY <1>1, SameAdvance, Zenon
<1> QED
  BY <1>2 DEF Abreast, Typed, timersVars, Within

LEMMA AlwaysAbreast == TimersSpec => []Abreast
<1>1. Abreast /\ [TimersNext]_timersVars => Abreast'
  BY CycleAbreast, HeartbeatAbreast, ReadAbreast, ReadModeAbreast, WriteValueAbreast,
     WriteTargetAbreast, WriteModeAbreast, RedrawnAbreast, NothingAbreast, Zenon DEF TimersNext
<1> QED
  BY <1>1, AbreastInit, PTL DEF TimersSpec

\* Everything a counter holds is in its range, and no counter is ahead of the
\* clock (timers.cpp).
THEOREM TimersTyped == TimersSpec => []TimersTypeOK
<1>1. Abreast => TimersTypeOK
  BY DEF Abreast, Typed, Counter, TimersTypeOK
<1> QED
  BY <1>1, AlwaysAbreast, PTL

\* A counter brought up to date in one go, however long after and whatever the
\* signal did meanwhile, stands where one counted cycle by cycle does, for every
\* width of the counter, picture, division, setting and target (Timers::advance).
THEOREM ValueIsExact == TimersSpec => []ValueExact
<1>1. Abreast => ValueExact
  BY DEF Abreast, Typed, ValueExact, Found, Within
<1> QED
  BY <1>1, AlwaysAbreast, PTL

\* It claims no target the cycle by cycle counter did not reach and, where the
\* wrap raises none, no interrupt for one (step).
THEOREM NoTargetInvented == TimersSpec => []TargetNotInvented
<1>1. Abreast => TargetNotInvented
  <2> SUFFICES ASSUME Abreast, ~redrawn
               PROVE  /\ Found.reachedTarget => exact.reachedTarget
                      /\ ~Found.mode.onWrap /\ Found.raised > 0 => exact.raised > 0
    BY DEF TargetNotInvented
  <2>1. Found \in Counter /\ exact \in Counter
    BY Accessed DEF Found
  <2>2. (Found.fired <=> Found.raised > 0) /\ (exact.fired <=> exact.raised > 0)
    BY <2>1 DEF Counter
  <2>3. Within(Found, exact)
    BY DEF Abreast, Found
  <2> QED
    BY <2>2, <2>3 DEF Within
<1> QED
  BY <1>1, AlwaysAbreast, PTL
=============================================================================
