---------------------------- MODULE MdecProofs ------------------------------
(***************************************************************************)
(* What is proved of the macroblock decoder (Mdec), for blocks of any      *)
(* size, macroblocks of any number of blocks and words, and a stream cut   *)
(* up in any way; and, from "The rasteriser" on, of what the GPU draws     *)
(* (Raster), for a VRAM of any size and any primitives.  The two           *)
(* specifications share no variable.                                       *)
(***************************************************************************)
EXTENDS Mdec, Raster, SequenceTheorems, FiniteSetTheorems, TLAPS

Codes == Runs \cup {End}
Coefficients == -1 .. Size - 1

-----------------------------------------------------------------------------
(* Induction over the natural numbers, of a set and not of a predicate: if *)
(* m were left out, adding one would map the members up to m injectively   *)
(* into themselves without 0, which are one fewer.                         *)

LEMMA Induction ==
  ASSUME NEW S, 0 \in S, \A n \in Nat : n \in S => n + 1 \in S
  PROVE  Nat \subseteq S
<1> SUFFICES ASSUME NEW m \in Nat, m \notin S PROVE FALSE
  OBVIOUS
<1> DEFINE T == {x \in Nat : x \in S /\ x <= m}
<1> DEFINE U == T \ {0}
<1> DEFINE f == [x \in T |-> x + 1]
<1>1. IsFiniteSet(T)
  BY FS_BoundedSetOfNaturals
<1>2. IsFiniteSet(U) /\ Cardinality(U) = Cardinality(T) - 1
  <2>1. 0 \in T
    OBVIOUS
  <2> QED
    BY <1>1, <2>1, FS_RemoveElement
<1>3. f \in [T -> U]
  <2> SUFFICES ASSUME NEW x \in T PROVE x + 1 \in U
    OBVIOUS
  <2>1. x # m
    OBVIOUS
  <2> QED
    BY <2>1
<1>4. Cardinality(T) \in Nat
  BY <1>1, FS_CardinalityType
<1>5. \E x, y \in T : x # y /\ f[x] = f[y]
  <2> HIDE DEF T, U, f
  <2>1. Cardinality(U) < Cardinality(T)
    BY <1>2, <1>4
  <2> QED
    BY <1>1, <1>2, <1>3, <2>1, FS_PigeonHole
<1> QED
  BY <1>5

-----------------------------------------------------------------------------
(* Where decode_block gets to.                                             *)

LEMMA Sizes ==
  /\ Size \in Nat /\ Size >= 2 /\ End = Size
  /\ \A code \in Codes : code \in 0 .. Size
  /\ -1 \in Coefficients /\ Size - 1 \in Coefficients
  BY MdecAssumption DEF Codes, End, Coefficients

LEMMA Moving ==
  ASSUME NEW code \in Codes
  PROVE  /\ Moves(code) \in [Coefficients -> Coefficients]
         /\ Moves(code)[Size - 1] = Size - 1
         /\ Moves(code)[-1] = IF code = End THEN -1 ELSE 0
         /\ \A i \in Coefficients : i # -1 => Moves(code)[i] # -1
         /\ \A i \in 0 .. Size - 2 :
              Moves(code)[i] = IF i + code + 1 > Size - 1 THEN Size - 1 ELSE i + code + 1
<1>1. \A i \in Coefficients : Moves(code)[i] =
        IF i = Size - 1 THEN i
        ELSE IF i = -1 THEN IF code = End THEN -1 ELSE 0
        ELSE IF i + code + 1 > Size - 1 THEN Size - 1
        ELSE i + code + 1
  BY DEF Moves, Coefficients
<1>2. \A i \in Coefficients : Moves(code)[i] \in Coefficients
  BY <1>1, Sizes DEF Coefficients
<1>3. Moves(code) \in [Coefficients -> Coefficients]
  BY <1>2 DEF Moves, Coefficients
<1>4. /\ Moves(code)[Size - 1] = Size - 1
      /\ Moves(code)[-1] = IF code = End THEN -1 ELSE 0
  BY <1>1, Sizes DEF Coefficients
<1>5. \A i \in Coefficients : i # -1 => Moves(code)[i] # -1
  BY <1>1, Sizes DEF Coefficients
<1>6. \A i \in 0 .. Size - 2 :
        Moves(code)[i] = IF i + code + 1 > Size - 1 THEN Size - 1 ELSE i + code + 1
  BY <1>1, Sizes DEF Coefficients
<1> QED
  BY <1>3, <1>4, <1>5, <1>6

\* The recursion is well-founded: a function that satisfies it up to n can be
\* extended to satisfy it up to n + 1.
LEMMA PlacesWork ==
  ASSUME NEW codes \in Seq(Codes)
  PROVE  /\ Places(codes) \in [0 .. Len(codes) -> Coefficients]
         /\ Places(codes)[0] = -1
         /\ \A k \in 1 .. Len(codes) :
              Places(codes)[k] = Moves(codes[k])[Places(codes)[k - 1]]
<1> DEFINE L == Len(codes)
<1> DEFINE D == 0 .. L
<1> DEFINE S == {n \in Nat : n <= L => \E g \in [D -> Coefficients] :
                   /\ g[0] = -1
                   /\ \A k \in 1 .. n : g[k] = Moves(codes[k])[g[k - 1]]}
<1>1. L \in Nat /\ \A k \in 1 .. L : codes[k] \in Codes
  BY LenProperties, ElementOfSeq
<1>2. 0 \in S
  <2> DEFINE g == [d \in D |-> -1]
  <2>1. g \in [D -> Coefficients] /\ g[0] = -1
    BY <1>1, Sizes
  <2>2. 1 .. 0 = {}
    OBVIOUS
  <2> HIDE DEF g
  <2> QED
    BY <2>1, <2>2
<1>3. ASSUME NEW n \in Nat, n \in S
      PROVE  n + 1 \in S
  <2> SUFFICES ASSUME n + 1 <= L
               PROVE  \E h \in [D -> Coefficients] :
                        /\ h[0] = -1
                        /\ \A k \in 1 .. n + 1 : h[k] = Moves(codes[k])[h[k - 1]]
    OBVIOUS
  <2>1. n <= L
    BY <1>1
  <2>2. PICK g \in [D -> Coefficients] :
               /\ g[0] = -1
               /\ \A k \in 1 .. n : g[k] = Moves(codes[k])[g[k - 1]]
    BY <1>3, <2>1
  <2> DEFINE next == Moves(codes[n + 1])[g[n]]
  <2> DEFINE h == [g EXCEPT ![n + 1] = next]
  <2>3. n \in D /\ n + 1 \in 1 .. L /\ n + 1 \in D /\ 0 \in D /\ 0 # n + 1
    BY <1>1
  <2>4. next \in Coefficients
    BY <1>1, <2>3, Moving
  <2> HIDE DEF next
  <2>5. /\ h \in [D -> Coefficients] /\ h[n + 1] = next
        /\ \A k \in D : k # n + 1 => h[k] = g[k]
    BY <2>3, <2>4
  <2> HIDE DEF h, D
  <2>6. ASSUME NEW k \in 1 .. n + 1
        PROVE  h[k] = Moves(codes[k])[h[k - 1]]
    <3>1. k - 1 # n + 1 /\ k - 1 \in D /\ k \in D
      BY <1>1 DEF D
    <3>2. h[k - 1] = g[k - 1]
      BY <2>5, <3>1
    <3>3. CASE k = n + 1
      <4>1. k - 1 = n
        BY <3>3
      <4> QED
        BY <2>5, <3>2, <3>3, <4>1 DEF next
    <3>4. CASE k # n + 1
      <4>1. k \in 1 .. n
        BY <3>4
      <4> QED
        BY <2>2, <2>5, <3>1, <3>2, <3>4, <4>1
    <3> QED
      BY <3>3, <3>4
  <2>7. h[0] = -1
    BY <2>2, <2>3, <2>5
  <2> QED
    BY <2>5, <2>6, <2>7
<1>4. L \in S
  <2> HIDE DEF S
  <2> QED
    BY <1>1, <1>2, <1>3, Induction
<1>5. PICK g \in [D -> Coefficients] :
             /\ g[0] = -1
             /\ \A k \in 1 .. L : g[k] = Moves(codes[k])[g[k - 1]]
  BY <1>1, <1>4
<1> DEFINE F(f) == [k \in 0 .. L |-> IF k = 0 THEN -1 ELSE Moves(codes[k])[f[k - 1]]]
<1>6. g = F(g)
  <2>1. \A k \in 0 .. L : g[k] = IF k = 0 THEN -1 ELSE Moves(codes[k])[g[k - 1]]
    BY <1>1, <1>5
  <2> QED
    BY <1>5, <2>1
<1>7. Places(codes) = CHOOSE f : f = F(f)
  BY DEF Places
<1>8. Places(codes) = F(Places(codes))
  <2> HIDE DEF F
  <2> QED
    BY <1>6, <1>7
<1>9. /\ Places(codes)[0] = -1
      /\ \A k \in 1 .. L :
           Places(codes)[k] = Moves(codes[k])[Places(codes)[k - 1]]
  <2>1. \A k \in 0 .. L :
          Places(codes)[k] = IF k = 0 THEN -1 ELSE Moves(codes[k])[Places(codes)[k - 1]]
    BY <1>8
  <2>2. 0 \in 0 .. L /\ \A k \in 1 .. L : k \in 0 .. L /\ k # 0
    BY <1>1
  <2> QED
    BY <2>1, <2>2
<1> DEFINE T == {n \in Nat : n <= L => Places(codes)[n] \in Coefficients}
<1>10. 0 \in T
  BY <1>9, Sizes
<1>11. ASSUME NEW n \in Nat, n \in T
       PROVE  n + 1 \in T
  <2> SUFFICES ASSUME n + 1 <= L
               PROVE  Places(codes)[n + 1] \in Coefficients
    OBVIOUS
  <2>1. n <= L /\ n + 1 \in 1 .. L /\ (n + 1) - 1 = n
    BY <1>1
  <2>2. Places(codes)[n + 1] = Moves(codes[n + 1])[Places(codes)[n]]
    BY <1>9, <2>1
  <2> QED
    BY <1>1, <1>11, <2>1, <2>2, Moving
<1>12. Nat \subseteq T
  <2> HIDE DEF T
  <2> QED
    BY <1>10, <1>11, Induction
<1>13. \A k \in 0 .. L : Places(codes)[k] \in Coefficients
  BY <1>1, <1>12
<1>14. Places(codes) = [k \in 0 .. L |-> Places(codes)[k]]
  BY <1>8
<1> QED
  BY <1>9, <1>13, <1>14

\* What follows a sequence of codes does not change where it gets to.
LEMMA PlacesPrefix ==
  ASSUME NEW codes \in Seq(Codes), NEW more \in Seq(Codes)
  PROVE  \A k \in 0 .. Len(codes) : Places(codes \o more)[k] = Places(codes)[k]
<1> DEFINE all == codes \o more
<1> DEFINE S == {n \in Nat : n <= Len(codes) => Places(all)[n] = Places(codes)[n]}
<1>1. /\ Len(codes) \in Nat /\ Len(more) \in Nat
      /\ all \in Seq(Codes) /\ Len(all) = Len(codes) + Len(more)
      /\ \A k \in 1 .. Len(codes) : all[k] = codes[k]
  BY LenProperties, ConcatProperties
<1> HIDE DEF all
<1>2. 0 \in S
  BY <1>1, PlacesWork
<1>3. ASSUME NEW n \in Nat, n \in S
      PROVE  n + 1 \in S
  <2> SUFFICES ASSUME n + 1 <= Len(codes)
               PROVE  Places(all)[n + 1] = Places(codes)[n + 1]
    OBVIOUS
  <2>1. /\ n <= Len(codes) /\ (n + 1) - 1 = n
        /\ n + 1 \in 1 .. Len(codes) /\ n + 1 \in 1 .. Len(all)
    BY <1>1
  <2>2. /\ Places(all)[n + 1] = Moves(all[n + 1])[Places(all)[n]]
        /\ Places(codes)[n + 1] = Moves(codes[n + 1])[Places(codes)[n]]
    BY <1>1, <2>1, PlacesWork, ZenonT(40)
  <2> QED
    BY <1>1, <1>3, <2>1, <2>2
<1>4. Nat \subseteq S
  <2> HIDE DEF S
  <2> QED
    BY <1>2, <1>3, Induction
<1> QED
  BY <1>1, <1>4 DEF all

\* Once a block is all there it stays so, and until then nothing but padding
\* leaves it where it began.
LEMMA PlacesStay ==
  ASSUME NEW codes \in Seq(Codes)
  PROVE  /\ Places(codes)[Len(codes)] # Size - 1 =>
              \A k \in 0 .. Len(codes) : Places(codes)[k] # Size - 1
         /\ Places(codes)[Len(codes)] = -1 <=>
              \A k \in 1 .. Len(codes) : codes[k] = End
<1> DEFINE L == Len(codes)
<1> DEFINE P == Places(codes)
<1>1. /\ L \in Nat /\ P[0] = -1
      /\ \A k \in 0 .. L : P[k] \in Coefficients
      /\ \A k \in 1 .. L : codes[k] \in Codes /\ P[k] = Moves(codes[k])[P[k - 1]]
  BY LenProperties, ElementOfSeq, PlacesWork
<1> HIDE DEF P
<1>2. \A n \in Nat : \A k \in 0 .. L : k + n <= L /\ P[k] = Size - 1 => P[k + n] = Size - 1
  <2> DEFINE S == {n \in Nat :
        \A k \in 0 .. L : k + n <= L /\ P[k] = Size - 1 => P[k + n] = Size - 1}
  <2>1. 0 \in S
    BY <1>1
  <2>2. ASSUME NEW n \in Nat, n \in S
        PROVE  n + 1 \in S
    <3> SUFFICES ASSUME NEW k \in 0 .. L, k + (n + 1) <= L, P[k] = Size - 1
                 PROVE  P[k + (n + 1)] = Size - 1
      OBVIOUS
    <3>1. k + n <= L /\ k + (n + 1) \in 1 .. L /\ (k + (n + 1)) - 1 = k + n
      BY <1>1
    <3>2. P[k + n] = Size - 1
      BY <2>2, <3>1
    <3>3. P[k + (n + 1)] = Moves(codes[k + (n + 1)])[P[k + n]]
      BY <1>1, <3>1
    <3> QED
      BY <1>1, <3>1, <3>2, <3>3, Moving
  <2>3. Nat \subseteq S
    <3> HIDE DEF S
    <3> QED
      BY <2>1, <2>2, Induction
  <2> QED
    BY <2>3
<1>3. ASSUME NEW k \in 0 .. L, P[k] = Size - 1
      PROVE  P[L] = Size - 1
  <2> DEFINE n == L - k
  <2>1. n \in Nat /\ k + n = L /\ k + n <= L
    BY <1>1
  <2> HIDE DEF n
  <2>2. P[k + n] = Size - 1
    BY <1>2, <1>3, <2>1
  <2> QED
    BY <2>1, <2>2
<1>4. \A n \in Nat : n <= L => (P[n] = -1 <=> \A k \in 1 .. n : codes[k] = End)
  <2> DEFINE S == {n \in Nat : n <= L => (P[n] = -1 <=> \A k \in 1 .. n : codes[k] = End)}
  <2>1. 0 \in S
    BY <1>1
  <2>2. ASSUME NEW n \in Nat, n \in S
        PROVE  n + 1 \in S
    <3> SUFFICES ASSUME n + 1 <= L
                 PROVE  P[n + 1] = -1 <=> \A k \in 1 .. n + 1 : codes[k] = End
      OBVIOUS
    <3>1. n <= L /\ n + 1 \in 1 .. L /\ (n + 1) - 1 = n /\ n \in 0 .. L
      BY <1>1
    <3>2. P[n] = -1 <=> \A k \in 1 .. n : codes[k] = End
      BY <2>2, <3>1
    <3>3. P[n + 1] = Moves(codes[n + 1])[P[n]]
      BY <1>1, <3>1
    <3>4. P[n + 1] = -1 <=> P[n] = -1 /\ codes[n + 1] = End
      BY <1>1, <3>1, <3>3, Moving, Sizes, SMTT(20)
    <3>5. \A k \in 1 .. n + 1 : k = n + 1 \/ k \in 1 .. n
      OBVIOUS
    <3>6. \A k \in 1 .. n : k \in 1 .. n + 1
      OBVIOUS
    <3>7. n + 1 \in 1 .. n + 1
      OBVIOUS
    <3> QED
      BY <3>2, <3>4, <3>5, <3>6, <3>7
  <2>3. Nat \subseteq S
    <3> HIDE DEF S
    <3> QED
      BY <2>1, <2>2, Induction
  <2> QED
    BY <2>3
<1>5. L <= L
  BY <1>1
<1> QED
  BY <1>1, <1>3, <1>4, <1>5 DEF P

LEMMA NoBlockYet ==
  ASSUME NEW codes \in Seq(Codes), Places(codes)[Len(codes)] # Size - 1
  PROVE  AfterBlock(codes) = 0
<1>1. DOMAIN Places(codes) = 0 .. Len(codes)
  BY PlacesWork
<1>2. {k \in DOMAIN Places(codes) : Places(codes)[k] = Size - 1} = {}
  BY <1>1, PlacesStay
<1> QED
  BY <1>2 DEF AfterBlock

\* The block ends with the code that is the first to complete it.
LEMMA BlockEnds ==
  ASSUME NEW codes \in Seq(Codes), NEW n \in 1 .. Len(codes),
         Places(codes)[n] = Size - 1,
         \A k \in 0 .. n - 1 : Places(codes)[k] # Size - 1
  PROVE  AfterBlock(codes) = n + 1
<1> DEFINE ends == {k \in DOMAIN Places(codes) : Places(codes)[k] = Size - 1}
<1>1. DOMAIN Places(codes) = 0 .. Len(codes) /\ Len(codes) \in Nat
  BY PlacesWork, LenProperties
<1>2. n \in ends /\ \A j \in ends : j \in Nat /\ n <= j
  BY <1>1
<1>3. \A k \in ends : (\A j \in ends : k <= j) <=> k = n
  BY <1>2
<1>4. AfterBlock(codes) = IF ends = {} THEN 0
                          ELSE 1 + CHOOSE k \in ends : \A j \in ends : k <= j
  BY DEF AfterBlock
<1> HIDE DEF ends
<1>5. (CHOOSE k \in ends : \A j \in ends : k <= j) = n
  BY <1>2, <1>3
<1>6. ends # {}
  BY <1>2
<1> QED
  BY <1>1, <1>4, <1>5, <1>6

-----------------------------------------------------------------------------
(* The stream.                                                             *)

Streams == [at : 0 .. Size - 1, blocks : Nat]

\* The codes waiting are those of the block under way, padding before it and
\* all, and the decoder and the reader of the stream are at the same place.
Followed ==
  /\ input \in Seq(Codes) /\ decoded \in Nat /\ stream \in Streams
  /\ decoded = stream.blocks
  /\ Places(input)[Len(input)] # Size - 1
  /\ stream.at = Places(input)[Len(input)] + 1

\* A block is over for decode_block with the code it is over with for ReadCode.
LEMMA Reading ==
  ASSUME NEW s \in Streams, NEW code \in Codes
  PROVE  /\ s.at - 1 \in -1 .. Size - 2
         /\ Moves(code)[s.at - 1] \in Coefficients
         /\ ReadCode(s, code) =
              IF Moves(code)[s.at - 1] = Size - 1
              THEN [at |-> 0, blocks |-> s.blocks + 1]
              ELSE [at |-> Moves(code)[s.at - 1] + 1, blocks |-> s.blocks]
<1> DEFINE i == s.at - 1
<1> DEFINE j == Moves(code)[i]
<1>1. /\ s.at \in 0 .. Size - 1 /\ s.blocks \in Nat
      /\ s = [at |-> s.at, blocks |-> s.blocks]
      /\ i \in -1 .. Size - 2 /\ i \in Coefficients /\ i + 1 = s.at
  BY Sizes DEF Streams, Coefficients
<1>2. j \in Coefficients
  BY <1>1, Moving
<1>3. CASE s.at = 0
  <2>1. i = -1 /\ j = IF code = End THEN -1 ELSE 0
    BY <1>1, <1>3, Moving
  <2>2. CASE code = End
    <3>1. ReadCode(s, code) = s
      BY <1>3, <2>2 DEF ReadCode
    <3>2. j + 1 = 0 /\ j # Size - 1
      BY <2>1, <2>2, Sizes
    <3> QED
      BY <1>1, <1>2, <1>3, <3>1, <3>2
  <2>3. CASE code # End
    <3>1. ReadCode(s, code) = [s EXCEPT !.at = 1]
      BY <1>3, <2>3, Sizes DEF ReadCode
    <3>2. j + 1 = 1 /\ j # Size - 1
      BY <2>1, <2>3, Sizes
    <3>3. [s EXCEPT !.at = 1] = [at |-> 1, blocks |-> s.blocks]
      BY <1>1
    <3> QED
      BY <1>1, <1>2, <3>1, <3>2, <3>3
  <2> QED
    BY <2>2, <2>3
<1>4. CASE s.at # 0
  <2>1. i \in 0 .. Size - 2
    BY <1>1, <1>4
  <2>2. j = IF i + code + 1 > Size - 1 THEN Size - 1 ELSE i + code + 1
    BY <2>1, Moving
  <2>3. code \in 0 .. Size /\ Size \in Nat /\ Size >= 2
    BY Sizes
  <2>4. ReadCode(s, code) = IF s.at + code + 1 >= Size
                            THEN [at |-> 0, blocks |-> s.blocks + 1]
                            ELSE [s EXCEPT !.at = s.at + code + 1]
    BY <1>4 DEF ReadCode
  <2>5. CASE s.at + code + 1 >= Size
    <3>1. j = Size - 1
      BY <1>1, <2>1, <2>2, <2>3, <2>5
    <3> QED
      BY <1>1, <1>2, <2>4, <2>5, <3>1
  <2>6. CASE ~(s.at + code + 1 >= Size)
    <3>1. j = i + code + 1 /\ j # Size - 1 /\ j + 1 = s.at + code + 1
      BY <1>1, <2>1, <2>2, <2>3, <2>6
    <3>2. [s EXCEPT !.at = s.at + code + 1] = [at |-> s.at + code + 1, blocks |-> s.blocks]
      BY <1>1
    <3> HIDE DEF i, j
    <3>3. ReadCode(s, code) = [at |-> j + 1, blocks |-> s.blocks]
      BY <2>4, <2>6, <3>1, <3>2
    <3> QED
      BY <1>1, <1>2, <3>1, <3>3 DEF i, j
  <2> QED
    BY <2>5, <2>6
<1> QED
  BY <1>3, <1>4

\* Short sequences of codes hold no block.
LEMMA Short ==
  /\ <<>> \in Seq(Codes) /\ Len(<<>>) = 0 /\ Places(<<>>)[0] = -1
  /\ \A code \in Codes :
       /\ <<code>> \in Seq(Codes) /\ Len(<<code>>) = 1
       /\ Places(<<code>>)[1] = Moves(code)[-1]
<1>1. <<>> \in Seq(Codes) /\ Len(<<>>) = 0
  BY EmptySeq
<1>2. Places(<<>>)[0] = -1
  BY <1>1, PlacesWork
<1>3. ASSUME NEW code \in Codes
      PROVE  /\ <<code>> \in Seq(Codes) /\ Len(<<code>>) = 1
             /\ Places(<<code>>)[1] = Moves(code)[-1]
  <2>1. <<code>> \in Seq(Codes) /\ Len(<<code>>) = 1 /\ <<code>>[1] = code
    OBVIOUS
  <2> DEFINE one == <<code>>
  <2> HIDE DEF one
  <2>2. one \in Seq(Codes) /\ Len(one) = 1 /\ one[1] = code
    BY <2>1 DEF one
  <2>3. 1 \in 1 .. Len(one) /\ 1 - 1 = 0
    BY <2>2
  <2>4. Places(one)[0] = -1 /\ Places(one)[1] = Moves(one[1])[Places(one)[1 - 1]]
    BY <2>2, <2>3, PlacesWork
  <2> QED
    BY <2>2, <2>3, <2>4 DEF one
<1> QED
  BY <1>1, <1>2, <1>3

\* What a word does to the codes waiting: nothing more than join them, or end
\* the one block that was under way.
LEMMA WordDecoded ==
  ASSUME Followed, NEW first \in Codes, NEW second \in Codes,
         NEW codes, codes = input \o <<first, second>>,
         NEW s, s = ReadCode(ReadCode(stream, first), second)
  PROVE  /\ codes \in Seq(Codes) /\ s \in Streams
         /\ \/ /\ AfterBlock(codes) = 0
               /\ Places(codes)[Len(codes)] # Size - 1
               /\ s.at = Places(codes)[Len(codes)] + 1
               /\ s.blocks = stream.blocks
            \/ /\ AfterBlock(codes) # 0
               /\ \E rest \in Seq(Codes) :
                    /\ rest = SubSeq(codes, AfterBlock(codes), Len(codes))
                    /\ AfterBlock(rest) = 0
                    /\ Places(rest)[Len(rest)] # Size - 1
                    /\ s.at = Places(rest)[Len(rest)] + 1
                    /\ s.blocks = stream.blocks + 1
<1> DEFINE n == Len(input)
<1> DEFINE i == Places(input)[n]
<1> DEFINE j == Moves(first)[i]
<1> DEFINE k == Moves(second)[j]
<1>1. /\ input \in Seq(Codes) /\ n \in Nat /\ <<first, second>> \in Seq(Codes)
      /\ Len(<<first, second>>) = 2
      /\ stream \in Streams /\ i \in Coefficients /\ i # Size - 1
      /\ stream.at = i + 1 /\ Size \in Nat /\ Size >= 2
      /\ \A m \in 0 .. n : Places(input)[m] # Size - 1
  BY LenProperties, PlacesWork, PlacesStay, Sizes DEF Followed
<1>2. /\ codes \in Seq(Codes) /\ Len(codes) = n + 2
      /\ codes[n + 1] = first /\ codes[n + 2] = second
  <2>1. codes \in Seq(Codes) /\ Len(codes) = n + 2
    BY <1>1, ConcatProperties
  <2>2. codes[n + 1] = first /\ codes[n + 2] = second
    BY <1>1
  <2> QED
    BY <2>1, <2>2
<1>3. \A m \in 0 .. n : Places(codes)[m] = Places(input)[m]
  BY <1>1, PlacesPrefix
<1>4. j \in Coefficients /\ k \in Coefficients
  BY <1>1, Moving
<1>5. Places(codes)[n + 1] = j /\ Places(codes)[n + 2] = k
  <2>1. n + 1 \in 1 .. Len(codes) /\ (n + 1) - 1 = n /\ n \in 0 .. n
        /\ n + 2 \in 1 .. Len(codes) /\ (n + 2) - 1 = n + 1
    BY <1>1, <1>2
  <2>2. Places(codes)[n + 1] = Moves(codes[n + 1])[Places(codes)[n]]
    BY <1>2, <2>1, PlacesWork
  <2>3. Places(codes)[n + 2] = Moves(codes[n + 2])[Places(codes)[n + 1]]
    BY <1>2, <2>1, PlacesWork
  <2> QED
    BY <1>2, <1>3, <2>1, <2>2, <2>3
<1> DEFINE r == ReadCode(stream, first)
<1>6. stream.at - 1 = i /\ stream.blocks \in Nat
  BY <1>1 DEF Streams, Coefficients
<1>7. r = IF j = Size - 1 THEN [at |-> 0, blocks |-> stream.blocks + 1]
                          ELSE [at |-> j + 1, blocks |-> stream.blocks]
  BY <1>1, <1>6, Reading
<1> HIDE DEF n, i, j, k, r
<1>8. CASE j = Size - 1
  <2>1. r = [at |-> 0, blocks |-> stream.blocks + 1] /\ r \in Streams
    BY <1>1, <1>6, <1>7, <1>8 DEF Streams
  <2>2. r.at - 1 = -1 /\ r.blocks = stream.blocks + 1
    BY <2>1
  <2> DEFINE l == Moves(second)[-1]
  <2>3. l \in -1 .. 0 /\ l # Size - 1
    BY <1>1, Moving
  <2>4. s = [at |-> l + 1, blocks |-> stream.blocks + 1]
    <3>1. ReadCode(r, second) =
              IF Moves(second)[r.at - 1] = Size - 1
              THEN [at |-> 0, blocks |-> r.blocks + 1]
              ELSE [at |-> Moves(second)[r.at - 1] + 1, blocks |-> r.blocks]
      BY <2>1, Reading
    <3> QED
      BY <2>2, <2>3, <3>1 DEF r
  <2>5. AfterBlock(codes) = n + 2
    <3>1. \A m \in 0 .. (n + 1) - 1 : Places(codes)[m] # Size - 1
      BY <1>1, <1>3, SMTT(20)
    <3>2. n + 1 \in 1 .. Len(codes)
      BY <1>1, <1>2
    <3>3. AfterBlock(codes) = (n + 1) + 1
      BY <1>2, <1>5, <1>8, <3>1, <3>2, BlockEnds
    <3> QED
      BY <1>1, <3>3
  <2>6. SubSeq(codes, n + 2, n + 2) = <<second>>
    <3>1. SubSeq(codes, n + 2, n + 2) = <<codes[n + 2]>> \o SubSeq(codes, (n + 2) + 1, n + 2)
      BY <1>1, <1>2, SubSeqRecursiveFirst
    <3>2. SubSeq(codes, (n + 2) + 1, n + 2) = <<>>
      BY <1>1, SubSeqEmpty
    <3>3. <<codes[n + 2]>> \in Seq(Codes)
      BY <1>2
    <3> QED
      BY <1>2, <3>1, <3>2, <3>3, ConcatEmptySeq
  <2>7. /\ <<second>> \in Seq(Codes) /\ Len(<<second>>) = 1
        /\ Places(<<second>>)[1] = l /\ AfterBlock(<<second>>) = 0
    BY <2>3, Short, NoBlockYet
  <2>8. s \in Streams /\ s.at = l + 1 /\ s.blocks = stream.blocks + 1
    BY <1>1, <1>6, <2>3, <2>4 DEF Streams
  <2> DEFINE rest == <<second>>
  <2>9. /\ rest \in Seq(Codes) /\ rest = SubSeq(codes, AfterBlock(codes), Len(codes))
        /\ AfterBlock(rest) = 0 /\ Places(rest)[Len(rest)] # Size - 1
        /\ s.at = Places(rest)[Len(rest)] + 1
    BY <1>2, <2>3, <2>5, <2>6, <2>7, <2>8
  <2>10. AfterBlock(codes) # 0
    BY <1>1, <2>5
  <2> HIDE DEF l, rest
  <2> QED
    BY <1>2, <2>8, <2>9, <2>10
<1>9. CASE j # Size - 1
  <2>1. r = [at |-> j + 1, blocks |-> stream.blocks] /\ r \in Streams
    BY <1>1, <1>4, <1>6, <1>7, <1>9 DEF Streams, Coefficients
  <2>2. r.at - 1 = j /\ r.blocks = stream.blocks
    BY <1>4, <2>1 DEF Coefficients
  <2>3. s = IF k = Size - 1 THEN [at |-> 0, blocks |-> stream.blocks + 1]
                            ELSE [at |-> k + 1, blocks |-> stream.blocks]
    <3>1. ReadCode(r, second) =
              IF Moves(second)[r.at - 1] = Size - 1
              THEN [at |-> 0, blocks |-> r.blocks + 1]
              ELSE [at |-> Moves(second)[r.at - 1] + 1, blocks |-> r.blocks]
      BY <2>1, Reading
    <3> QED
      BY <2>2, <3>1 DEF r, k
  <2>4. CASE k = Size - 1
    <3>1. AfterBlock(codes) = n + 3
      <4>1. \A m \in 0 .. (n + 2) - 1 : Places(codes)[m] # Size - 1
        <5> TAKE m \in 0 .. (n + 2) - 1
        <5>1. m = n + 1 \/ m \in 0 .. n
          BY <1>1
        <5> QED
          BY <1>1, <1>3, <1>5, <1>9, <5>1
      <4>2. n + 2 \in 1 .. Len(codes)
        BY <1>1, <1>2
      <4>3. AfterBlock(codes) = (n + 2) + 1
        BY <1>2, <1>5, <2>4, <4>1, <4>2, BlockEnds
      <4> QED
        BY <1>1, <4>3
    <3>2. SubSeq(codes, n + 3, n + 2) = <<>>
      BY <1>1, SubSeqEmpty
    <3>4. s \in Streams /\ s.at = 0 /\ s.blocks = stream.blocks + 1
      BY <1>1, <1>6, <2>3, <2>4 DEF Streams
    <3> DEFINE rest == <<>>
    <3>5. rest \in Seq(Codes) /\ Places(rest)[Len(rest)] = -1 /\ -1 # Size - 1
      BY <1>1, Short
    <3>6. rest = SubSeq(codes, AfterBlock(codes), Len(codes))
      BY <1>2, <3>1, <3>2
    <3> HIDE DEF rest
    <3>7. AfterBlock(rest) = 0
      BY <3>5, NoBlockYet
    <3>8. AfterBlock(codes) # 0
      BY <1>1, <3>1
    <3>9. s.at = Places(rest)[Len(rest)] + 1
      BY <3>4, <3>5
    <3>10. Places(rest)[Len(rest)] # Size - 1
      BY <1>1, <3>5
    <3> QED
      BY <1>2, <3>4, <3>5, <3>6, <3>7, <3>8, <3>9, <3>10
  <2>5. CASE k # Size - 1
    <3>1. Places(codes)[Len(codes)] = k
      BY <1>2, <1>5
    <3>2. AfterBlock(codes) = 0
      BY <1>2, <2>5, <3>1, NoBlockYet
    <3>3. s \in Streams /\ s.at = k + 1 /\ s.blocks = stream.blocks
      BY <1>1, <1>4, <1>6, <2>3, <2>5 DEF Streams, Coefficients
    <3> QED
      BY <1>2, <2>5, <3>1, <3>2, <3>3
  <2> QED
    BY <2>4, <2>5
<1> QED
  BY <1>8, <1>9

-----------------------------------------------------------------------------
(* The words counted off.                                                  *)

\* words_left counts down to zero and then once round.
LEMMA CountedDown ==
  ASSUME NEW n \in 0 .. CountMod - 1
  PROVE  (n + CountMod - 1) % CountMod = IF n = 0 THEN CountMod - 1 ELSE n - 1
<1> DEFINE a == n + CountMod - 1
<1> DEFINE r == a % CountMod
<1> DEFINE k == a \div CountMod
<1> DEFINE x == IF n = 0 THEN CountMod - 1 ELSE n - 1
<1> DEFINE i == IF n = 0 THEN k ELSE k - 1
<1>1. CountMod \in Nat \ {0} /\ a \in Int /\ x \in 0 .. CountMod - 1
  BY MdecAssumption
<1>2. r \in 0 .. CountMod - 1 /\ k \in Int
  BY <1>1
<1>3. a = (k * CountMod) + r
  BY <1>1
<1>4. (k - 1) * CountMod = (k * CountMod) - CountMod
  BY <1>1, <1>2
<1>5. i \in Int /\ i * CountMod = x - r
  BY <1>1, <1>2, <1>3, <1>4
<1> HIDE DEF a, r, k, x, i
<1>6. -CountMod < x - r /\ x - r < CountMod
  BY <1>1, <1>2
<1>7. i = 0
  <2>1. ASSUME i >= 1 PROVE FALSE
    <3>1. (i - 1) * CountMod >= 0
      BY <1>1, <1>5, <2>1
    <3> QED
      BY <1>1, <1>2, <1>5, <1>6, <3>1
  <2>2. ASSUME i <= -1 PROVE FALSE
    <3>1. (-1 - i) * CountMod >= 0
      BY <1>1, <1>5, <2>2
    <3> QED
      BY <1>1, <1>2, <1>5, <1>6, <3>1
  <2> QED
    BY <1>5, <2>1, <2>2
<1>8. x = r
  BY <1>1, <1>2, <1>5, <1>7
<1> QED
  BY <1>8 DEF a, r, x

\* What the counter says is what software has still to send.
Counts ==
  /\ expecting \in {"None", "Macroblocks", "QuantTables", "ScaleTable", "Ignored"}
  /\ busy \in BOOLEAN /\ left \in 0 .. CountMod - 1 /\ index \in Nat /\ want \in Nat
  /\ busy => want = left + 1
  /\ ~busy => want = 0 /\ expecting = "None"
  /\ expecting \in {"QuantTables", "ScaleTable"} => index + left < 2 * TableWords
  /\ channelIn \in Nat

LEMMA CountsHeld ==
  ASSUME Counts, [Next]_vars
  PROVE  Counts'
<1> USE DEF Counts
<1>1. CountMod \in Nat /\ 2 * TableWords < CountMod /\ TableWords \in Nat \ {0}
      /\ Lengths \subseteq 0 .. CountMod - 1
  BY MdecAssumption
<1>2. ASSUME NEW kind \in {"Macroblocks", "QuantTables", "ScaleTable", "Ignored"},
             NEW n \in 0 .. CountMod - 1, Starts(kind, n),
             kind \in {"QuantTables", "ScaleTable"} => n <= 2 * TableWords,
             UNCHANGED channels
      PROVE  Counts'
  <2>1. left' = IF n = 0 THEN CountMod - 1 ELSE n - 1
    BY <1>2, CountedDown DEF Starts
  <2>2. /\ index' = 0 /\ busy' = (n > 0) /\ want' = n
        /\ expecting' = IF n > 0 THEN kind ELSE "None"
        /\ channelIn' = channelIn
    BY <1>2 DEF Starts, channels
  <2>3. CASE n = 0
    <3> DEFINE some == n > 0
    <3>1. ~some /\ busy' = some
      BY <2>2, <2>3
    <3> HIDE DEF some
    <3>2. busy' = FALSE
      BY <3>1
    <3> QED
      BY <1>1, <2>1, <2>2, <2>3, <3>1, <3>2
  <2>4. CASE n > 0
    <3>1. busy' = TRUE
      BY <2>2, <2>4, Zenon
    <3> QED
      BY <1>1, <1>2, <2>1, <2>2, <2>4, <3>1
  <2> QED
    BY <2>3, <2>4
<1>3. ASSUME Start PROVE Counts'
  <2>1. UNCHANGED channels
    BY <1>3 DEF Start
  <2>2. \/ \E n \in Lengths : Starts("Macroblocks", n)
        \/ \E n \in {TableWords, 2 * TableWords} : Starts("QuantTables", n)
        \/ Starts("ScaleTable", 2 * TableWords)
        \/ \E n \in Lengths : Starts("Ignored", n)
    BY <1>3 DEF Start
  <2>3. /\ TableWords \in 0 .. CountMod - 1 /\ 2 * TableWords \in 0 .. CountMod - 1
        /\ TableWords <= 2 * TableWords
    BY <1>1
  <2> QED
    BY <1>1, <1>2, <2>1, <2>2, <2>3
<1>4. ASSUME Take, channelIn' \in Nat PROVE Counts'
  <2>1. /\ busy /\ want > 0 /\ want' = want - 1 /\ index' = index + 1
        /\ left' = (left + CountMod - 1) % CountMod
        /\ busy' = (left # 0) /\ expecting' = IF left = 0 THEN "None" ELSE expecting
    BY <1>4 DEF Take, Counted
  <2>2. left' = IF left = 0 THEN CountMod - 1 ELSE left - 1
    BY <2>1, CountedDown
  <2>3. CASE left = 0
    <3>1. busy' = FALSE
      BY <2>1, <2>3
    <3> QED
      BY <1>1, <1>4, <2>1, <2>2, <2>3, <3>1
  <2>4. CASE left # 0
    <3>1. busy' = TRUE
      BY <2>1, <2>4
    <3> QED
      BY <1>1, <1>4, <2>1, <2>2, <2>4, <3>1
  <2> QED
    BY <2>3, <2>4
<1>5. ASSUME Feed PROVE Counts'
  BY <1>4, <1>5 DEF Feed, channels
<1>6. ASSUME TurnIn PROVE Counts'
  <2>1. channelIn' \in Nat
    BY <1>6 DEF TurnIn, Wins, InArmed
  <2> QED
    BY <1>4, <1>6, <2>1 DEF TurnIn
<1>7. ASSUME TurnOut PROVE Counts'
  BY <1>7 DEF TurnOut, command
<1>8. ASSUME Abort PROVE Counts'
  <2>1. /\ busy' = FALSE /\ expecting' = "None" /\ left' = 0 /\ index' = 0
        /\ want' = 0 /\ channelIn' = channelIn
    BY <1>8, Zenon DEF Abort, channels
  <2>2. 0 \in 0 .. CountMod - 1
    BY <1>1
  <2> QED
    BY <2>1, <2>2
<1>9. ASSUME ReadPort \/ ArmIn \/ ArmOut \/ CallOff \/ WriteDpcr \/ UNCHANGED vars
      PROVE  Counts'
  BY <1>9 DEF ReadPort, ArmIn, ArmOut, CallOff, WriteDpcr, vars, command, channels
<1> QED
  BY <1>3, <1>5, <1>6, <1>7, <1>8, <1>9 DEF Next, Turn

-----------------------------------------------------------------------------
(* The words of the picture.                                               *)

\* What a word is made of: blocks that follow one another.
Items ==
  {x \in [of : UNION {[0 .. n - 1 -> Nat] : n \in Nat \ {0}}, word : Nat] :
     x.of[0] > 0 /\ \A b \in DOMAIN x.of : x.of[b] = x.of[0] + b}

Follows(x, y) ==
  \/ x.of = y.of /\ y.word = x.word + 1
  \/ y.word = 1 /\ y.of[0] > x.of[0]

\* Words in order, of blocks up to the last.
InOrder(words, latest) ==
  /\ words \in Seq(Items)
  /\ \A i \in 1 .. Len(words) : words[i].of[0] <= latest
  /\ \A i \in 2 .. Len(words) : Follows(words[i - 1], words[i])

LEMMA Item ==
  ASSUME NEW x \in Items
  PROVE  x.of[0] \in Nat \ {0} /\ 0 \in DOMAIN x.of
<1>1. PICK n \in Nat \ {0} : x.of \in [0 .. n - 1 -> Nat]
  BY DEF Items
<1>2. 0 \in DOMAIN x.of /\ x.of[0] \in Nat /\ x.of[0] > 0
  BY <1>1 DEF Items
<1> QED
  BY <1>2

LEMMA RestInOrder ==
  ASSUME NEW latest \in Nat, NEW words, InOrder(words, latest), NEW n \in Nat
  PROVE  InOrder(SubSeq(words, n + 1, Len(words)), latest)
<1> DEFINE L == Len(words)
<1> DEFINE after == SubSeq(words, n + 1, L)
<1>1. L \in Nat /\ words \in Seq(Items) /\ \A i \in n + 1 .. L : words[i] \in Items
  BY LenProperties, ElementOfSeq DEF InOrder
<1>2. /\ after \in Seq(Items) /\ Len(after) = IF n + 1 <= L THEN L - (n + 1) + 1 ELSE 0
      /\ \A i \in 1 .. L - (n + 1) + 1 : after[i] = words[(n + 1) + i - 1]
  <2>1. n + 1 \in Int /\ L \in Int
    BY <1>1
  <2> HIDE DEF L
  <2> QED
    BY <1>1, <2>1, SubSeqProperties
<1> HIDE DEF L, after
<1>3. ASSUME NEW i \in 1 .. Len(after)
      PROVE  i + n \in 1 .. L /\ after[i] = words[i + n]
  <2>1. i \in 1 .. L - (n + 1) + 1 /\ (n + 1) + i - 1 = i + n /\ i + n \in 1 .. L
    BY <1>1, <1>2
  <2> QED
    BY <1>2, <2>1
<1>4. \A i \in 1 .. Len(after) : after[i].of[0] <= latest
  BY <1>3 DEF InOrder, L
<1>5. ASSUME NEW i \in 2 .. Len(after)
      PROVE  Follows(after[i - 1], after[i])
  <2>1. i \in 1 .. Len(after) /\ i - 1 \in 1 .. Len(after)
    BY <1>1, <1>2
  <2>2. after[i - 1] = words[(i - 1) + n] /\ after[i] = words[i + n]
    BY <1>3, <2>1
  <2>3. (i - 1) + n = (i + n) - 1 /\ i + n \in 2 .. L
    BY <1>1, <1>3, <2>1
  <2> QED
    BY <2>2, <2>3 DEF InOrder, L
<1> QED
  BY <1>2, <1>4, <1>5 DEF InOrder, after, L

\* A macroblock whose blocks come after the last joins them.
LEMMA MadeInOrder ==
  ASSUME NEW latest \in Nat, NEW words, InOrder(words, latest),
         NEW n \in Nat, NEW of, \A w \in Nat : [of |-> of, word |-> w] \in Items,
         of[0] > latest
  PROVE  InOrder(words \o [w \in 1 .. n |-> [of |-> of, word |-> w]], of[0])
<1> DEFINE L == Len(words)
<1> DEFINE made == [w \in 1 .. n |-> [of |-> of, word |-> w]]
<1> DEFINE all == words \o made
<1>1. L \in Nat /\ words \in Seq(Items) /\ \A i \in 1 .. L : words[i] \in Items
  BY LenProperties, ElementOfSeq DEF InOrder
<1>2. made \in Seq(Items) /\ Len(made) = n /\ \A w \in 1 .. n : made[w] = [of |-> of, word |-> w]
  <2>1. made \in [1 .. n -> Items]
    OBVIOUS
  <2>2. \A w \in 1 .. n : made[w] = [of |-> of, word |-> w]
    OBVIOUS
  <2> HIDE DEF made
  <2> QED
    BY <2>1, <2>2
<1>3. of[0] \in Nat
  <2>1. [of |-> of, word |-> 0] \in Items
    OBVIOUS
  <2> QED
    BY <2>1, Item
<1> HIDE DEF L, made
<1>4. /\ all \in Seq(Items) /\ Len(all) = L + n
      /\ \A i \in 1 .. L + n : all[i] = IF i <= L THEN words[i] ELSE made[i - L]
  BY <1>1, <1>2, ConcatProperties DEF L
<1> HIDE DEF all
<1>5. ASSUME NEW i \in 1 .. L + n
      PROVE  /\ i <= L => all[i] = words[i]
             /\ i > L => all[i] = [of |-> of, word |-> i - L]
  <2>1. CASE i <= L
    BY <1>1, <1>4, <2>1
  <2>2. CASE i > L
    <3>1. i - L \in 1 .. n /\ ~(i <= L)
      BY <1>1, <2>2
    <3> QED
      BY <1>2, <1>4, <2>2, <3>1
  <2> QED
    BY <1>1, <2>1, <2>2
<1>6. ASSUME NEW i \in 1 .. L + n PROVE all[i].of[0] <= of[0]
  <2>1. CASE i <= L
    <3>1. all[i] = words[i]
      BY <1>5, <2>1, Zenon
    <3>2. i \in 1 .. L
      BY <1>1, <2>1
    <3>3. words[i].of[0] \in Nat /\ words[i].of[0] <= latest
      BY <1>1, <3>2, Item DEF InOrder, L
    <3> QED
      BY <1>3, <3>1, <3>3
  <2>2. CASE i > L
    <3>1. all[i] = [of |-> of, word |-> i - L]
      BY <1>5, <2>2, Zenon
    <3>2. all[i].of[0] = of[0]
      BY <3>1
    <3> QED
      BY <1>3, <3>2
  <2> QED
    BY <1>1, <2>1, <2>2
<1>7. ASSUME NEW i \in 2 .. L + n PROVE Follows(all[i - 1], all[i])
  <2>1. i \in 1 .. L + n /\ i - 1 \in 1 .. L + n
    BY <1>1
  <2>2. CASE i <= L
    <3>1. i - 1 <= L /\ i \in 2 .. L
      BY <1>1, <2>2
    <3>2. all[i] = words[i] /\ all[i - 1] = words[i - 1]
      BY <1>5, <2>1, <2>2, <3>1
    <3> QED
      BY <3>1, <3>2 DEF InOrder, L
  <2>3. CASE i = L + 1
    <3>1. i > L /\ i - L = 1 /\ i - 1 <= L /\ i - 1 \in 1 .. L
      BY <1>1, <2>3
    <3>2. all[i] = [of |-> of, word |-> 1] /\ all[i - 1] = words[i - 1]
      BY <1>5, <2>1, <3>1
    <3>3. words[i - 1].of[0] \in Nat /\ words[i - 1].of[0] <= latest
      BY <1>1, <3>1, Item DEF InOrder, L
    <3>4. words[i - 1].of[0] < of[0]
      BY <1>3, <3>3
    <3> QED
      BY <3>2, <3>4 DEF Follows
  <2>4. CASE i > L + 1
    <3>1. i > L /\ i - 1 > L /\ i - L = ((i - 1) - L) + 1
      BY <1>1, <2>4
    <3>2. all[i] = [of |-> of, word |-> i - L] /\ all[i - 1] = [of |-> of, word |-> (i - 1) - L]
      BY <1>5, <2>1, <3>1
    <3> QED
      BY <3>1, <3>2 DEF Follows
  <2> QED
    BY <1>1, <2>2, <2>3, <2>4
<1> QED
  BY <1>4, <1>6, <1>7 DEF InOrder, all, made

\* The macroblock under way holds the last blocks decoded, and the words that
\* wait are of earlier ones.
Assembled ==
  /\ depth \in Depths /\ decoded \in Nat
  /\ current \in 0 .. Needed - 1 /\ current <= decoded
  /\ blocks \in [0 .. Blocks - 1 -> Nat]
  /\ \A b \in 0 .. current - 1 : blocks[b] = decoded - current + 1 + b
  /\ InOrder(output, decoded - current)

LEMMA NeededSize ==
  ASSUME NEW d \in Depths
  PROVE  /\ (IF d = "colour" THEN Blocks ELSE 1) \in 1 .. Blocks
         /\ Words[d] \in Nat /\ Blocks \in Nat
  BY MdecAssumption DEF Depths

\* A block decoded keeps it so.
LEMMA BlockAssembled ==
  ASSUME Assembled, NEW codes, AfterBlock(codes) # 0, NEW d,
         d = DecodeOnce([input |-> codes, decoded |-> decoded, blocks |-> blocks,
                         current |-> current, output |-> output])
  PROVE  /\ d.input = SubSeq(codes, AfterBlock(codes), Len(codes))
         /\ d.decoded = decoded + 1
         /\ d.current \in 0 .. Needed - 1 /\ d.current <= d.decoded
         /\ d.blocks \in [0 .. Blocks - 1 -> Nat]
         /\ \A b \in 0 .. d.current - 1 : d.blocks[b] = d.decoded - d.current + 1 + b
         /\ InOrder(d.output, d.decoded - d.current)
<1> DEFINE held == [blocks EXCEPT ![current] = decoded + 1]
<1> DEFINE of == [b \in 0 .. Needed - 1 |-> held[b]]
<1> DEFINE made == [w \in 1 .. Words[depth] |-> [of |-> of, word |-> w]]
<1> DEFINE full == current + 1 >= Needed
<1>1. /\ Needed \in 1 .. Blocks /\ Words[depth] \in Nat /\ Blocks \in Nat
      /\ decoded \in Nat /\ current \in 0 .. Needed - 1 /\ current <= decoded
  BY NeededSize DEF Assembled, Needed
<1>2. d = [input   |-> SubSeq(codes, AfterBlock(codes), Len(codes)),
           decoded |-> decoded + 1,
           blocks  |-> held,
           current |-> IF full THEN 0 ELSE current + 1,
           output  |-> IF full THEN output \o made ELSE output]
  BY DEF DecodeOnce
<1>3. /\ held \in [0 .. Blocks - 1 -> Nat]
      /\ \A b \in 0 .. current : held[b] = decoded - current + 1 + b
  <2>1. held \in [0 .. Blocks - 1 -> Nat]
    BY <1>1 DEF Assembled
  <2>2. current \in 0 .. Blocks - 1
    BY <1>1
  <2>3. ASSUME NEW b \in 0 .. current PROVE held[b] = decoded - current + 1 + b
    <3>1. CASE b = current
      <4>1. held[b] = decoded + 1
        BY <2>2, <3>1 DEF Assembled
      <4> QED
        BY <1>1, <3>1, <4>1
    <3>2. CASE b # current
      <4>1. b \in 0 .. current - 1 /\ b \in 0 .. Blocks - 1
        BY <1>1, <3>2
      <4>2. held[b] = blocks[b]
        BY <3>2, <4>1 DEF Assembled
      <4> QED
        BY <4>1, <4>2 DEF Assembled
    <3> QED
      BY <3>1, <3>2
  <2> QED
    BY <2>1, <2>3
<1> HIDE DEF held
<1>4. CASE full
  <2>1. current = Needed - 1
    BY <1>1, <1>4
  <2>2. \A b \in 0 .. Needed - 1 : of[b] = decoded - current + 1 + b
    BY <1>3, <2>1
  <2>3. of \in [0 .. Needed - 1 -> Nat]
    BY <1>1, <1>3
  <2>4. DOMAIN of = 0 .. Needed - 1
    OBVIOUS
  <2> HIDE DEF of
  <2>5. of[0] = decoded - current + 1 /\ of[0] \in Nat /\ of[0] > 0
    BY <1>1, <2>2
  <2>6. \A b \in DOMAIN of : of[b] = of[0] + b
    <3> TAKE b \in DOMAIN of
    <3>1. b \in 0 .. Needed - 1
      BY <2>4
    <3> QED
      BY <1>1, <2>2, <2>5, <3>1
  <2>7. \A w \in Nat : [of |-> of, word |-> w] \in Items
    <3> TAKE w \in Nat
    <3>1. Needed \in Nat \ {0}
      BY <1>1
    <3>2. of \in UNION {[0 .. n - 1 -> Nat] : n \in Nat \ {0}}
      BY <2>3, <3>1
    <3>3. [of |-> of, word |-> w] \in
            [of : UNION {[0 .. n - 1 -> Nat] : n \in Nat \ {0}}, word : Nat]
      BY <3>2
    <3> QED
      BY <2>5, <2>6, <3>3 DEF Items
  <2>8. InOrder(output, decoded - current) /\ decoded - current \in Nat
    BY <1>1 DEF Assembled
  <2>9. of[0] > decoded - current
    BY <1>1, <2>5
  <2>10. InOrder(output \o made, of[0])
    BY <1>1, <2>7, <2>8, <2>9, MadeInOrder
  <2> HIDE DEF made
  <2>11. of[0] <= decoded + 1 /\ of[0] \in Nat
    BY <1>1, <2>5
  <2>12. InOrder(output \o made, decoded + 1)
    <3>1. \A i \in 1 .. Len(output \o made) : (output \o made)[i].of[0] <= decoded + 1
      <4> TAKE i \in 1 .. Len(output \o made)
      <4>1. (output \o made)[i].of[0] <= of[0]
        BY <2>10 DEF InOrder
      <4>2. (output \o made)[i].of[0] \in Nat
        BY <2>10, ElementOfSeq, Item DEF InOrder
      <4> QED
        BY <1>1, <2>11, <4>1, <4>2, SMTT(20)
    <3> QED
      BY <2>10, <3>1 DEF InOrder
  <2>13. /\ d.decoded = decoded + 1 /\ d.current = 0 /\ d.blocks = held
         /\ d.output = output \o made
         /\ d.input = SubSeq(codes, AfterBlock(codes), Len(codes))
    BY <1>2, <1>4
  <2>14. d.decoded - d.current = decoded + 1 /\ d.current <= d.decoded
    BY <1>1, <2>13
  <2>15. d.current \in 0 .. Needed - 1 /\ 0 .. d.current - 1 = {}
    BY <1>1, <2>13
  <2> QED
    BY <1>3, <2>12, <2>13, <2>14, <2>15
<1>5. CASE ~full
  <2> HIDE DEF made
  <2>1. /\ d.decoded = decoded + 1 /\ d.current = current + 1 /\ d.blocks = held
        /\ d.output = output
        /\ d.input = SubSeq(codes, AfterBlock(codes), Len(codes))
    BY <1>2, <1>5
  <2>2. /\ d.decoded - d.current = decoded - current /\ d.current <= d.decoded
        /\ d.current \in 0 .. Needed - 1 /\ d.current - 1 = current
    BY <1>1, <1>5, <2>1, SMTT(20)
  <2>3. InOrder(d.output, d.decoded - d.current)
    BY <2>1, <2>2 DEF Assembled
  <2>4. \A b \in 0 .. d.current - 1 : d.blocks[b] = d.decoded - d.current + 1 + b
    BY <1>3, <2>1, <2>2
  <2> QED
    BY <1>3, <2>1, <2>2, <2>3, <2>4
<1> QED
  BY <1>4, <1>5

\* decode_available stops after the one block a word can end.
LEMMA WordAvailable ==
  ASSUME NEW more,
         AfterBlock(input \o more) # 0 =>
           AfterBlock(SubSeq(input \o more, AfterBlock(input \o more), Len(input \o more))) = 0
  PROVE  LET codes == input \o more
             state == [input |-> codes, decoded |-> decoded, blocks |-> blocks,
                       current |-> current, output |-> output]
         IN DecodeAvailable(more) =
              IF AfterBlock(codes) = 0 THEN state ELSE DecodeOnce(state)
<1> DEFINE codes == input \o more
<1> DEFINE state == [input |-> codes, decoded |-> decoded, blocks |-> blocks,
                     current |-> current, output |-> output]
<1> DEFINE next == DecodeOnce(state)
<1>1. DecodeAvailable(more) = DecodeOnce(next)
  BY DEF DecodeAvailable
<1>2. AfterBlock(next.input) = 0 => DecodeOnce(next) = next
  BY DEF DecodeOnce
<1>3. state.input = codes
  OBVIOUS
<1>4. CASE AfterBlock(codes) = 0
  <2>1. next = state
    BY <1>3, <1>4 DEF DecodeOnce
  <2> HIDE DEF next, state, codes
  <2>2. DecodeOnce(next) = next
    BY <1>2, <1>3, <1>4, <2>1
  <2> QED
    BY <1>1, <1>4, <2>1, <2>2 DEF codes, state
<1>5. CASE AfterBlock(codes) # 0
  <2>1. next.input = SubSeq(codes, AfterBlock(codes), Len(codes))
    BY <1>3, <1>5 DEF DecodeOnce
  <2>2. AfterBlock(next.input) = 0
    BY <1>5, <2>1
  <2> HIDE DEF next, state, codes
  <2> QED
    BY <1>1, <1>2, <1>5, <2>2 DEF codes, state, next
<1> QED
  BY <1>4, <1>5

\* A word of codes keeps the decoder with the stream.
LEMMA WordTaken ==
  ASSUME Followed, Assembled, NEW first \in Codes, NEW second \in Codes,
         NEW d, d = DecodeAvailable(<<first, second>>),
         stream' = ReadCode(ReadCode(stream, first), second),
         input' = d.input, decoded' = d.decoded, blocks' = d.blocks,
         current' = d.current, output' = d.output, depth' = depth
  PROVE  Followed' /\ Assembled'
<1> DEFINE codes == input \o <<first, second>>
<1> DEFINE state == [input |-> codes, decoded |-> decoded, blocks |-> blocks,
                     current |-> current, output |-> output]
<1> DEFINE s == ReadCode(ReadCode(stream, first), second)
<1> HIDE DEF codes, s
<1>1. /\ codes \in Seq(Codes) /\ s \in Streams
      /\ \/ /\ AfterBlock(codes) = 0
            /\ Places(codes)[Len(codes)] # Size - 1
            /\ s.at = Places(codes)[Len(codes)] + 1
            /\ s.blocks = stream.blocks
         \/ /\ AfterBlock(codes) # 0
            /\ \E rest \in Seq(Codes) :
                 /\ rest = SubSeq(codes, AfterBlock(codes), Len(codes))
                 /\ AfterBlock(rest) = 0
                 /\ Places(rest)[Len(rest)] # Size - 1
                 /\ s.at = Places(rest)[Len(rest)] + 1
                 /\ s.blocks = stream.blocks + 1
  BY WordDecoded DEF codes, s
<1>2. d = IF AfterBlock(codes) = 0 THEN state ELSE DecodeOnce(state)
  <2>1. AfterBlock(codes) # 0 =>
          AfterBlock(SubSeq(codes, AfterBlock(codes), Len(codes))) = 0
    BY <1>1
  <2> QED
    BY <2>1, WordAvailable DEF codes
<1>3. stream' = s /\ Needed' = Needed
  BY DEF s, Needed
<1>4. CASE AfterBlock(codes) = 0
  <2>1. /\ input' = codes /\ decoded' = decoded /\ blocks' = blocks
        /\ current' = current /\ output' = output
    BY <1>2, <1>4
  <2>2. Followed'
    BY <1>1, <1>3, <1>4, <2>1 DEF Followed
  <2>3. Assembled'
    BY <1>3, <2>1 DEF Assembled
  <2> QED
    BY <2>2, <2>3
<1>5. CASE AfterBlock(codes) # 0
  <2>1. d = DecodeOnce(state)
    BY <1>2, <1>5
  <2>2. /\ d.input = SubSeq(codes, AfterBlock(codes), Len(codes))
        /\ d.decoded = decoded + 1
        /\ d.current \in 0 .. Needed - 1 /\ d.current <= d.decoded
        /\ d.blocks \in [0 .. Blocks - 1 -> Nat]
        /\ \A b \in 0 .. d.current - 1 : d.blocks[b] = d.decoded - d.current + 1 + b
        /\ InOrder(d.output, d.decoded - d.current)
    BY <1>5, <2>1, BlockAssembled
  <2>3. PICK rest \in Seq(Codes) :
               /\ rest = SubSeq(codes, AfterBlock(codes), Len(codes))
               /\ Places(rest)[Len(rest)] # Size - 1
               /\ s.at = Places(rest)[Len(rest)] + 1
               /\ s.blocks = stream.blocks + 1
    BY <1>1, <1>5
  <2>4. input' = rest /\ decoded' = decoded + 1
    BY <2>2, <2>3
  <2>5. decoded \in Nat /\ decoded = stream.blocks
    BY DEF Followed
  <2>6. decoded' \in Nat /\ decoded' = s.blocks
    BY <2>3, <2>4, <2>5
  <2>7. Followed'
    <3>1. Places(input')[Len(input')] # Size - 1 /\ s.at = Places(input')[Len(input')] + 1
      BY <2>3, <2>4
    <3>2. input' \in Seq(Codes)
      BY <2>3, <2>4
    <3> QED
      BY <1>1, <1>3, <2>6, <3>1, <3>2 DEF Followed
  <2>8. Assembled'
    <3>1. depth' \in Depths
      BY DEF Assembled
    <3>2. /\ current' \in 0 .. Needed - 1 /\ current' <= decoded'
          /\ blocks' \in [0 .. Blocks - 1 -> Nat]
          /\ \A b \in 0 .. current' - 1 : blocks'[b] = decoded' - current' + 1 + b
          /\ InOrder(output', decoded' - current')
      BY <2>2
    <3> HIDE DEF state
    <3> QED
      BY <1>3, <2>6, <3>1, <3>2 DEF Assembled
  <2> QED
    BY <2>7, <2>8
<1> QED
  BY <1>4, <1>5

-----------------------------------------------------------------------------
(* The channel out.                                                        *)

\* As long as software takes care, no picture is out of its place, and there
\* are the words a Manual transfer has still to move.
InPlace ==
  /\ inFirst \in BOOLEAN
  /\ channelOut \in [mode : {"Request", "Manual"}, left : Nat, burst : Nat \ {0}]
  /\ shifted \in BOOLEAN /\ careless \in BOOLEAN
  /\ careless \/ (~shifted /\ ~Overdrawn)

\* decode_available only adds to what waits.
LEMMA OnceGrows ==
  ASSUME depth \in Depths, NEW S, NEW state, state.output \in Seq(S)
  PROVE  \E T : /\ DecodeOnce(state).output \in Seq(T)
                /\ Len(DecodeOnce(state).output) >= Len(state.output)
<1> DEFINE of == [b \in 0 .. Needed - 1 |->
                    [state.blocks EXCEPT ![state.current] = state.decoded + 1][b]]
           made == [w \in 1 .. Words[depth] |-> [of |-> of, word |-> w]]
           T == S \cup {made[w] : w \in 1 .. Words[depth]}
<1>1. Words[depth] \in Nat
  BY MdecAssumption
<1>2. \/ DecodeOnce(state).output = state.output
      \/ DecodeOnce(state).output = state.output \o made
  BY DEF DecodeOnce
<1>3. /\ made \in Seq(T) /\ Len(made) \in Nat
      /\ state.output \in Seq(T) /\ Len(state.output) \in Nat
  <2>1. made \in [1 .. Words[depth] -> T]
    OBVIOUS
  <2>2. S \subseteq T
    OBVIOUS
  <2> HIDE DEF made, T
  <2>3. made \in Seq(T)
    BY <1>1, <2>1
  <2>4. state.output \in Seq(T)
    BY <2>2, SeqMonotonic
  <2> QED
    BY <2>3, <2>4, LenProperties
<1> HIDE DEF made, T
<1>4. /\ state.output \o made \in Seq(T)
      /\ Len(state.output \o made) = Len(state.output) + Len(made)
  BY <1>3, ConcatProperties
<1>5. /\ DecodeOnce(state).output \in Seq(T)
      /\ Len(DecodeOnce(state).output) >= Len(state.output)
  <2>1. CASE DecodeOnce(state).output = state.output
    BY <1>3, <2>1
  <2>2. CASE DecodeOnce(state).output = state.output \o made
    <3> DEFINE n == Len(state.output)
               m == Len(made)
    <3>1. Len(DecodeOnce(state).output) = n + m /\ n \in Nat /\ m \in Nat
      BY <1>3, <1>4, <2>2
    <3>2. n + m >= n
      <4> HIDE DEF n, m
      <4> QED
        BY <3>1
    <3> QED
      BY <1>4, <2>2, <3>1, <3>2
  <2> QED
    BY <1>2, <2>1, <2>2
<1> QED
  BY <1>5

LEMMA OutputGrows ==
  ASSUME Assembled, NEW more
  PROVE  Len(DecodeAvailable(more).output) >= Len(output)
<1> DEFINE state == [input |-> input \o more, decoded |-> decoded, blocks |-> blocks,
                     current |-> current, output |-> output]
           once == DecodeOnce(state)
<1>1. state.output = output /\ output \in Seq(Items) /\ depth \in Depths
  BY DEF Assembled, InOrder
<1>2. DecodeAvailable(more) = DecodeOnce(once)
  BY DEF DecodeAvailable
<1> HIDE DEF state
<1>3. PICK T : once.output \in Seq(T) /\ Len(once.output) >= Len(output)
  BY <1>1, OnceGrows
<1> HIDE DEF once
<1>4. PICK U : /\ DecodeOnce(once).output \in Seq(U)
               /\ Len(DecodeOnce(once).output) >= Len(once.output)
  BY <1>1, <1>3, OnceGrows
<1>5. /\ Len(output) \in Nat /\ Len(once.output) \in Nat
      /\ Len(DecodeOnce(once).output) \in Nat
  BY <1>1, <1>3, <1>4, LenProperties
<1> QED
  BY <1>2, <1>3, <1>4, <1>5

\* A burst is never more than is left of a Manual transfer, and what it leaves
\* is not more than it leaves there.
LEMMA BurstFits ==
  ASSUME InPlace, OutArmed, OutAsks, Len(output) \in Nat
  PROVE  /\ Burst \in Nat \ {0} /\ Left \in Nat
         /\ channelOut.mode = "Manual" => Left = channelOut.left - Burst
         /\ ~Overdrawn => Burst <= Len(output)
<1>1. /\ channelOut.left \in Nat /\ channelOut.left > 0 /\ channelOut.burst \in Nat \ {0}
      /\ channelOut.mode \in {"Request", "Manual"}
  BY DEF InPlace, OutArmed
<1>2. CASE channelOut.mode = "Request"
  <2>1. Burst = channelOut.burst /\ Left = channelOut.left - 1
    BY <1>2 DEF Burst, Left
  <2>2. Len(output) >= channelOut.burst
    BY <1>2 DEF OutAsks
  <2> QED
    BY <1>1, <1>2, <2>1, <2>2
<1>3. CASE channelOut.mode = "Manual"
  <2>1. /\ Burst = IF channelOut.left < channelOut.burst THEN channelOut.left
                   ELSE channelOut.burst
        /\ Left = channelOut.left - Burst
    BY <1>3 DEF Burst, Left
  <2>2. ~Overdrawn => channelOut.left <= Len(output)
    BY <1>1, <1>3 DEF Overdrawn
  <2> QED
    BY <1>1, <1>3, <2>1, <2>2
<1> QED
  BY <1>1, <1>2, <1>3

LEMMA InPlaceHeld ==
  ASSUME Assembled, Assembled', InPlace, [Next]_vars
  PROVE  InPlace'
<1>1. /\ output \in Seq(Items) /\ Len(output) \in Nat /\ Len(output') \in Nat
  BY LenProperties DEF Assembled, InOrder
<1>2. ASSUME UNCHANGED <<inFirst, channelOut, conduct>>, Len(output') >= Len(output)
      PROVE  InPlace'
  <2>1. /\ inFirst' = inFirst /\ channelOut' = channelOut
        /\ shifted' = shifted /\ careless' = careless
    BY <1>2 DEF conduct
  <2>2. Overdrawn' => Overdrawn
    <3>1. channelOut.left \in Nat
      BY DEF InPlace
    <3> QED
      BY <1>1, <1>2, <2>1, <3>1 DEF Overdrawn
  <2> QED
    BY <2>1, <2>2, Zenon DEF InPlace
<1>3. ASSUME Take, UNCHANGED <<inFirst, channelOut, conduct>> PROVE InPlace'
  <2>1. CASE expecting = "Macroblocks"
    <3>1. PICK first \in Codes, second \in Codes :
            \E d \in {DecodeAvailable(<<first, second>>)} : output' = d.output
      BY <1>3, <2>1 DEF Take, Codes
    <3> QED
      BY <1>2, <1>3, <3>1, OutputGrows
  <2>2. CASE expecting # "Macroblocks"
    <3>1. output' = output
      BY <1>3, <2>2 DEF Take, decoder
    <3> QED
      BY <1>1, <1>2, <1>3, <3>1
  <2> QED
    BY <2>1, <2>2
<1>4. ASSUME inFirst' \in BOOLEAN, shifted' = shifted,
             channelOut' \in [mode : {"Request", "Manual"}, left : Nat, burst : Nat \ {0}],
             careless' = (careless \/ Overdrawn')
      PROVE  InPlace'
  BY <1>4, Zenon DEF InPlace
<1>5. ASSUME Start PROVE InPlace'
  <2>1. UNCHANGED <<inFirst, channelOut, conduct>> /\ output' = output
    BY <1>5 DEF Start, channels, decoder
  <2> QED
    BY <1>1, <1>2, <2>1
<1>6. ASSUME Feed PROVE InPlace'
  BY <1>3, <1>6 DEF Feed, channels
<1>7. ASSUME ReadPort PROVE InPlace'
  BY <1>4, <1>7 DEF ReadPort, channels, InPlace
<1>8. ASSUME Abort PROVE InPlace'
  <2>1. /\ inFirst' = inFirst /\ channelOut' = channelOut
        /\ shifted' = FALSE /\ careless' = Overdrawn'
    BY <1>8, Zenon DEF Abort, channels
  <2>2. Overdrawn' \in BOOLEAN
    BY DEF Overdrawn
  <2> QED
    BY <2>1, <2>2, Zenon DEF InPlace
<1>9. ASSUME ArmIn PROVE InPlace'
  <2>1. UNCHANGED <<inFirst, channelOut, conduct>> /\ output' = output
    BY <1>9 DEF ArmIn, decoder
  <2> QED
    BY <1>1, <1>2, <2>1
<1>10. ASSUME ArmOut PROVE InPlace'
  <2>1. channelOut' \in [mode : {"Request", "Manual"}, left : Nat, burst : Nat \ {0}]
    BY <1>10, MdecAssumption DEF ArmOut
  <2> QED
    BY <1>4, <1>10, <2>1 DEF ArmOut, InPlace
<1>11. ASSUME CallOff PROVE InPlace'
  <2>1. /\ inFirst' = inFirst /\ shifted' = shifted /\ careless' = careless
        /\ output' = output
    BY <1>11 DEF CallOff, conduct, decoder
  <2>2. CASE channelOut' = channelOut
    BY <1>1, <1>2, <2>1, <2>2 DEF conduct
  <2>3. CASE channelOut' = Idle
    <3>1. channelOut' \in [mode : {"Request", "Manual"}, left : Nat, burst : Nat \ {0}]
      BY <2>3, MdecAssumption DEF Idle
    <3>2. ~Overdrawn'
      BY <2>3 DEF Overdrawn, Idle
    <3> QED
      BY <2>1, <3>1, <3>2, Zenon DEF InPlace
  <2> QED
    BY <1>11, <2>2, <2>3 DEF CallOff
<1>12. ASSUME WriteDpcr PROVE InPlace'
  <2>1. /\ inFirst' \in BOOLEAN /\ channelOut' = channelOut /\ output' = output
        /\ shifted' = shifted /\ careless' = careless
    BY <1>12 DEF WriteDpcr, conduct, decoder
  <2>2. Overdrawn' = Overdrawn
    BY <2>1 DEF Overdrawn
  <2> QED
    BY <2>1, <2>2, Zenon DEF InPlace
<1>13. ASSUME TurnIn PROVE InPlace'
  BY <1>3, <1>13 DEF TurnIn
<1>14. ASSUME TurnOut PROVE InPlace'
  <2>1. /\ inFirst' = inFirst /\ careless' = careless /\ output' = Rest(Burst)
        /\ shifted' = (shifted \/ Burst > Len(output))
        /\ channelOut' = IF Left > 0 THEN [channelOut EXCEPT !.left = Left] ELSE Idle
        /\ OutArmed /\ OutAsks
    BY <1>14 DEF TurnOut, Wins
  <2>2. /\ Burst \in Nat \ {0} /\ Left \in Nat
        /\ channelOut.mode = "Manual" => Left = channelOut.left - Burst
        /\ ~Overdrawn => Burst <= Len(output)
    BY <1>1, <2>1, BurstFits
  <2>3. channelOut' \in [mode : {"Request", "Manual"}, left : Nat, burst : Nat \ {0}]
    <3>1. CASE Left > 0
      BY <2>1, <2>2, <3>1 DEF InPlace
    <3>2. CASE ~(Left > 0)
      <4>1. channelOut' = Idle
        BY <2>1, <3>2, Zenon
      <4> QED
        BY <4>1, MdecAssumption DEF Idle
    <3> QED
      BY <3>1, <3>2
  <2>4. ASSUME ~Overdrawn PROVE ~Overdrawn' /\ ~(Burst > Len(output))
    <3>1. Burst <= Len(output) /\ Len(output') = Len(output) - Burst
      <4>1. Burst <= Len(output)
        BY <2>2, <2>4
      <4>2. Len(SubSeq(output, Burst + 1, Len(output))) = (Len(output) - (Burst + 1)) + 1
            \/ (Burst + 1 > Len(output) /\ Len(SubSeq(output, Burst + 1, Len(output))) = 0)
        BY <1>1, <2>2, SubSeqProperties
      <4> QED
        BY <1>1, <2>1, <2>2, <4>1, <4>2 DEF Rest
    <3>2. CASE Left > 0 /\ channelOut.mode = "Manual"
      <4>1. channelOut'.left = channelOut.left - Burst
        BY <2>1, <2>2, <3>2 DEF InPlace
      <4>2. channelOut.left <= Len(output) /\ channelOut.left \in Nat
        BY <1>1, <2>4, <3>2 DEF Overdrawn, InPlace
      <4>3. ~(channelOut'.left > Len(output'))
        BY <1>1, <2>2, <3>1, <4>1, <4>2
      <4> QED
        BY <1>1, <2>2, <3>1, <4>3 DEF Overdrawn
    <3>3. CASE Left > 0 /\ channelOut.mode # "Manual"
      <4>1. channelOut'.mode # "Manual"
        BY <2>1, <3>3 DEF InPlace
      <4> QED
        BY <1>1, <2>2, <3>1, <4>1 DEF Overdrawn
    <3>4. CASE ~(Left > 0)
      <4>1. channelOut' = Idle
        BY <2>1, <3>4, Zenon
      <4> QED
        BY <1>1, <2>2, <3>1, <4>1 DEF Overdrawn, Idle
    <3> QED
      BY <3>2, <3>3, <3>4
  <2>5. shifted' \in BOOLEAN
    BY <2>1
  <2> QED
    BY <2>1, <2>3, <2>4, <2>5, Zenon DEF InPlace
<1>15. CASE UNCHANGED vars
  <2>1. UNCHANGED <<inFirst, channelOut, conduct>> /\ output' = output
    BY <1>15 DEF vars, channels, decoder
  <2> QED
    BY <1>1, <1>2, <2>1
<1> QED
  BY <1>5, <1>6, <1>7, <1>8, <1>9, <1>10, <1>11, <1>12, <1>13, <1>14, <1>15 DEF Next, Turn

-----------------------------------------------------------------------------
(* The invariant.                                                          *)

MdecInv == Counts /\ Followed /\ Assembled /\ InPlace

LEMMA MdecStarts == Init => MdecInv
<1> SUFFICES ASSUME Init PROVE MdecInv
  OBVIOUS
<1>1. Counts
  <2>1. 0 \in 0 .. CountMod - 1
    BY MdecAssumption
  <2> QED
    BY <2>1 DEF Init, Counts
<1>2. Followed
  <2>1. 0 \in 0 .. Size - 1 /\ -1 + 1 = 0 /\ -1 # Size - 1
    BY Sizes
  <2>2. Places(input)[Len(input)] = -1 /\ input \in Seq(Codes)
    BY Short DEF Init
  <2>3. decoded = 0 /\ stream = [at |-> 0, blocks |-> 0]
    BY DEF Init, Fresh
  <2>4. stream \in Streams
    BY <2>1, <2>3 DEF Streams
  <2> QED
    BY <2>1, <2>2, <2>3, <2>4 DEF Followed
<1>3. Assembled
  <2>1. InOrder(<<>>, 0)
    <3>1. <<>> \in Seq(Items) /\ 1 .. Len(<<>>) = {} /\ 2 .. Len(<<>>) = {}
      BY EmptySeq
    <3> QED
      BY <3>1 DEF InOrder
  <2>2. /\ current = 0 /\ decoded = 0 /\ output = <<>> /\ depth = "mono"
        /\ blocks \in [0 .. Blocks - 1 -> Nat]
    BY DEF Init
  <2>3. 0 .. 0 - 1 = {} /\ 0 - 0 = 0 /\ 0 \in 0 .. 1 - 1
    OBVIOUS
  <2> QED
    BY <2>1, <2>2, <2>3 DEF Assembled, Depths, Needed
<1>4. InPlace
  <2>1. /\ channelOut = Idle /\ shifted = FALSE /\ careless = FALSE /\ inFirst \in BOOLEAN
    BY DEF Init
  <2>2. Idle \in [mode : {"Request", "Manual"}, left : Nat, burst : Nat \ {0}]
    BY MdecAssumption DEF Idle
  <2>3. ~Overdrawn
    BY <2>1 DEF Overdrawn, Idle
  <2> QED
    BY <2>1, <2>2, <2>3, Zenon DEF InPlace
<1> QED
  BY <1>1, <1>2, <1>3, <1>4 DEF MdecInv

LEMMA MdecHeld == MdecInv /\ [Next]_vars => MdecInv'
<1> SUFFICES ASSUME MdecInv, [Next]_vars PROVE MdecInv'
  OBVIOUS
<1> USE DEF MdecInv
<1>1. Counts'
  BY CountsHeld
<1>2. ASSUME UNCHANGED <<decoder, history, depth>>
      PROVE  Followed' /\ Assembled'
  <2>1. /\ input' = input /\ decoded' = decoded /\ stream' = stream
        /\ blocks' = blocks /\ current' = current /\ output' = output
        /\ depth' = depth
    BY <1>2 DEF decoder, history
  <2> QED
    BY <2>1 DEF Followed, Assembled, Needed
<1>3. ASSUME Start PROVE Followed' /\ Assembled'
  <2>1. UNCHANGED <<decoder, history>>
    BY <1>3 DEF Start
  <2>2. UNCHANGED depth \/ (current = 0 /\ depth' \in Depths)
    <3>1. ASSUME NEW d \in Depths, d # depth => current = 0, depth' = d
          PROVE  UNCHANGED depth \/ (current = 0 /\ depth' \in Depths)
      BY <3>1
    <3> QED
      BY <1>3, <3>1 DEF Start
  <2>3. CASE depth' = depth
    BY <1>2, <2>1, <2>3
  <2>4. CASE current = 0 /\ depth' \in Depths
    <3>1. /\ input' = input /\ decoded' = decoded /\ stream' = stream
          /\ blocks' = blocks /\ current' = 0 /\ output' = output
      BY <2>1, <2>4 DEF decoder, history
    <3>2. 0 \in 0 .. Needed' - 1 /\ 0 .. 0 - 1 = {}
      BY <2>4, NeededSize DEF Needed
    <3>3. Assembled'
      BY <2>4, <3>1, <3>2 DEF Assembled
    <3>4. Followed'
      BY <3>1 DEF Followed
    <3> QED
      BY <3>3, <3>4
  <2> QED
    BY <2>2, <2>3, <2>4
<1>4. ASSUME Take PROVE Followed' /\ Assembled'
  <2>1. CASE expecting = "Macroblocks"
    <3>1. PICK first \in Codes, second \in Codes :
            \E d \in {DecodeAvailable(<<first, second>>)} :
              /\ stream' = ReadCode(ReadCode(stream, first), second)
              /\ input' = d.input /\ decoded' = d.decoded
              /\ blocks' = d.blocks /\ current' = d.current
              /\ output' = d.output
      BY <1>4, <2>1 DEF Take, Codes
    <3>2. depth' = depth
      BY <1>4 DEF Take
    <3> QED
      BY <3>1, <3>2, WordTaken
  <2>2. CASE expecting # "Macroblocks"
    <3>1. UNCHANGED <<decoder, history, depth>>
      BY <1>4, <2>2 DEF Take
    <3> QED
      BY <1>2, <3>1
  <2> QED
    BY <2>1, <2>2
<1>5. ASSUME NEW n \in Nat, output' = Rest(n),
             UNCHANGED <<depth, current, blocks, input, history>>
      PROVE  Followed' /\ Assembled'
  <2>1. /\ input' = input /\ decoded' = decoded /\ stream' = stream
        /\ blocks' = blocks /\ current' = current /\ depth' = depth
    BY <1>5 DEF history
  <2>2. decoded - current \in Nat
    BY NeededSize DEF Assembled, Needed
  <2>3. InOrder(output', decoded - current)
    BY <1>5, <2>2, RestInOrder DEF Rest, Assembled
  <2> QED
    BY <2>1, <2>3 DEF Followed, Assembled, Needed
<1>6. ASSUME ReadPort PROVE Followed' /\ Assembled'
  BY <1>5, <1>6 DEF ReadPort, command
<1>7. ASSUME TurnOut PROVE Followed' /\ Assembled'
  <2>1. /\ output' = Rest(Burst) /\ OutArmed /\ OutAsks
        /\ UNCHANGED <<depth, current, blocks, input, history>>
    BY <1>7 DEF TurnOut, Wins, command
  <2>2. Burst \in Nat
    BY <2>1, BurstFits, LenProperties DEF Assembled, InOrder
  <2> QED
    BY <1>5, <2>1, <2>2
<1>8. ASSUME ArmIn \/ ArmOut \/ CallOff \/ WriteDpcr \/ UNCHANGED vars
      PROVE  Followed' /\ Assembled'
  <2>1. UNCHANGED <<decoder, history, depth>>
    BY <1>8 DEF ArmIn, ArmOut, CallOff, WriteDpcr, vars, command
  <2> QED
    BY <1>2, <2>1
<1>9. ASSUME Abort PROVE Followed' /\ Assembled'
  \* An abort leaves the decoder as a picture of nothing has it.
  <2>1. /\ depth' = "mono" /\ current' = 0 /\ input' = <<>> /\ output' = <<>>
        /\ stream' = Fresh /\ decoded' = 0 /\ blocks' = [b \in 0 .. Blocks - 1 |-> 0]
    BY <1>9, Zenon DEF Abort, PlaceReset
  <2>2. /\ 0 \in 0 .. Size - 1 /\ -1 + 1 = 0 /\ -1 # Size - 1
        /\ Places(<<>>)[Len(<<>>)] = -1 /\ <<>> \in Seq(Codes)
    BY Sizes, Short
  <2>3. Followed'
    BY <2>1, <2>2 DEF Followed, Fresh, Streams
  <2>4. InOrder(<<>>, 0)
    <3>1. <<>> \in Seq(Items) /\ 1 .. Len(<<>>) = {} /\ 2 .. Len(<<>>) = {}
      BY EmptySeq
    <3> QED
      BY <3>1 DEF InOrder
  <2>5. Assembled'
    <3>1. /\ Needed' = 1 /\ 0 .. 0 - 1 = {} /\ 0 - 0 = 0 /\ 0 \in 0 .. 1 - 1
          /\ blocks' \in [0 .. Blocks - 1 -> Nat]
      BY <2>1 DEF Needed
    <3> QED
      BY <2>1, <2>4, <3>1 DEF Assembled, Depths
  <2> QED
    BY <2>3, <2>5
<1>10. Followed' /\ Assembled'
  BY <1>3, <1>4, <1>6, <1>7, <1>8, <1>9 DEF Next, Turn, Feed, TurnIn
<1>11. InPlace'
  BY <1>10, InPlaceHeld
<1> QED
  BY <1>1, <1>10, <1>11

LEMMA MdecInvariant == Spec => []MdecInv
  BY MdecStarts, MdecHeld, PTL DEF Spec

-----------------------------------------------------------------------------

\* The decoder's state keeps to its types, parameter_index to the tables it
\* indexes and current_block to the blocks of a macroblock of the depth asked
\* for (start_command, take_parameter, decode_available).
THEOREM MdecTypeOK == Spec => []TypeOK
<1>1. MdecInv => TypeOK
  <2> SUFFICES ASSUME MdecInv PROVE TypeOK
    OBVIOUS
  <2>1. expecting \in {"QuantTables", "ScaleTable"} => index < 2 * TableWords
    BY MdecAssumption DEF MdecInv, Counts
  <2> QED
    BY <2>1 DEF MdecInv, Counts, Followed, Assembled, InPlace, Codes, TypeOK
<1> QED
  BY <1>1, MdecInvariant, PTL

\* Every block all of whose codes have arrived has been decoded, and no other,
\* whatever the words, bursts and commands the stream came in and whatever
\* padding is in it (decode_block, decode_available).
THEOREM MdecStreamFollowed == Spec => []StreamFollowed
<1>1. MdecInv => StreamFollowed
  <2> SUFFICES ASSUME MdecInv PROVE StreamFollowed
    OBVIOUS
  <2>1. /\ input \in Seq(Codes) /\ decoded = stream.blocks
        /\ stream.at = Places(input)[Len(input)] + 1
    BY DEF MdecInv, Followed
  <2>2. /\ DOMAIN input = 1 .. Len(input) /\ Len(input) \in 0 .. Len(input)
        /\ Places(input)[Len(input)] \in Coefficients
    BY <2>1, LenProperties, PlacesWork
  <2>3. stream.at = 0 <=> Places(input)[Len(input)] = -1
    BY <2>1, <2>2, Sizes DEF Coefficients
  <2> QED
    BY <2>1, <2>2, <2>3, PlacesStay DEF StreamFollowed
<1> QED
  BY <1>1, MdecInvariant, PTL

\* A word of the picture is made of blocks that follow one another, and the
\* words wait in the order of the stream (decode_available, reset).
THEOREM MdecBlocksTogether == Spec => []BlocksTogether
<1>1. MdecInv => BlocksTogether
  <2> SUFFICES ASSUME MdecInv PROVE BlocksTogether
    OBVIOUS
  <2>1. InOrder(output, decoded - current)
    BY DEF MdecInv, Assembled
  <2>2. DOMAIN output = 1 .. Len(output) /\ Len(output) \in Nat
    BY <2>1, LenProperties DEF InOrder
  <2>3. \A i \in DOMAIN output : output[i] \in Items
    BY <2>1, <2>2, ElementOfSeq DEF InOrder
  <2>4. \A i \in DOMAIN output : i > 1 => Follows(output[i - 1], output[i])
    BY <2>1, <2>2 DEF InOrder
  <2> QED
    BY <2>3, <2>4 DEF BlocksTogether, Items, Follows
<1> QED
  BY <1>1, MdecInvariant, PTL

\* As long as software arms Manual transfers only for words that are there and
\* leaves them to the transfer, no zero is taken for a word and no picture is out
\* of its place, whatever the blocks, bursts, ranks and commands (device_asking,
\* step_manual, step_request, read_data).
THEOREM MdecNoZeroesTaken == Spec => []NoZeroesTaken
<1>1. MdecInv => NoZeroesTaken
  BY Zenon DEF MdecInv, InPlace, NoZeroesTaken
<1> QED
  BY <1>1, MdecInvariant, PTL

(***************************************************************************)
(* The rasteriser.                                                         *)
(*                                                                         *)
(* What a primitive leaves in VRAM is worked out pixel by pixel, for any   *)
(* VRAM it finds; the invariant (Drawn) only says that VRAM is what the    *)
(* primitive drawn last makes of what it found.                            *)
(***************************************************************************)

-----------------------------------------------------------------------------
(* Quotients and remainders.                                               *)

LEMMA Division ==
  ASSUME NEW C \in Nat \ {0}, NEW a \in Int
  PROVE  /\ a % C \in 0 .. C - 1 /\ a \div C \in Int
         /\ a = ((a \div C) * C) + (a % C)
  OBVIOUS

LEMMA Quotients ==
  ASSUME NEW C \in Nat \ {0}, NEW a \in Int, NEW k \in Int,
         k * C <= a, a < (k * C) + C
  PROVE  a \div C = k /\ a % C = a - (k * C)
<1> DEFINE q == a \div C
           r == a % C
<1>1. r \in 0 .. C - 1 /\ q \in Int /\ a = (q * C) + r
  BY Division
<1> HIDE DEF q, r
<1>2. CASE q > k
  <2>1. (q - k - 1) * C >= 0
    BY <1>1, <1>2
  <2>2. (q - k - 1) * C = (q * C) - (k * C) - C
    BY <1>1
  <2> QED
    BY <1>1, <2>1, <2>2
<1>3. CASE q < k
  <2>1. (k - q - 1) * C >= 0
    BY <1>1, <1>3
  <2>2. (k - q - 1) * C = (k * C) - (q * C) - C
    BY <1>1
  <2> QED
    BY <1>1, <2>1, <2>2
<1>4. CASE q = k
  BY <1>1, <1>4 DEF q, r
<1> QED
  BY <1>1, <1>2, <1>3, <1>4

\* Numbers leave the same remainder when they are so many times C apart.
LEMMA SameRemainder ==
  ASSUME NEW C \in Nat \ {0}, NEW a \in Int, NEW b \in Int, NEW k \in Int,
         a = b + (k * C)
  PROVE  a % C = b % C
<1> DEFINE q == b \div C
           r == b % C
<1>1. r \in 0 .. C - 1 /\ q \in Int /\ b = (q * C) + r
  BY Division
<1> HIDE DEF q, r
<1>2. (q + k) * C = (q * C) + (k * C)
  BY <1>1
<1>3. (q + k) \in Int /\ (q + k) * C <= a /\ a < ((q + k) * C) + C
  BY <1>1, <1>2
<1>4. a % C = a - ((q + k) * C)
  BY <1>3, Quotients
<1> QED
  BY <1>1, <1>2, <1>4 DEF r

\* How far round from t a place p is, and from there to the place again.
LEMMA RoundAndBack ==
  ASSUME NEW C \in Nat \ {0}, NEW p \in 0 .. C - 1, NEW t \in Int
  PROVE  (t + ((p - t) % C)) % C = p
<1> DEFINE q == (p - t) \div C
           r == (p - t) % C
<1>1. r \in 0 .. C - 1 /\ q \in Int /\ p - t = (q * C) + r
  <2>1. p - t \in Int
    OBVIOUS
  <2> DEFINE a == p - t
  <2> HIDE DEF a
  <2> QED
    BY <2>1, Division DEF a
<1> HIDE DEF q, r
<1>2. -q \in Int /\ t + r \in Int /\ t + r = p + ((-q) * C)
  BY <1>1
<1>3. (t + r) % C = p % C
  <2> DEFINE a == t + r
             k == -q
  <2>1. k \in Int /\ a \in Int /\ p \in Int /\ a = p + (k * C)
    BY <1>2
  <2> HIDE DEF a, k
  <2>2. a % C = p % C
    BY <2>1, SameRemainder
  <2> QED
    BY <2>2 DEF a
<1>4. p % C = p
  BY Quotients, 0 * C <= p, p < (0 * C) + C
<1> QED
  BY <1>3, <1>4 DEF r

\* A place is n on from t when n is as far round as the place is.
LEMMA RoundTo ==
  \A C \in Nat \ {0} : \A p \in 0 .. C - 1, t \in Int, n \in Int :
    p = (t + n) % C <=> (p - t) % C = n % C
<1> SUFFICES ASSUME NEW C \in Nat \ {0}, NEW p \in 0 .. C - 1, NEW t \in Int, NEW n \in Int
             PROVE  p = (t + n) % C <=> (p - t) % C = n % C
  OBVIOUS
<1>1. ASSUME p = (t + n) % C PROVE (p - t) % C = n % C
  <2> DEFINE q == (t + n) \div C
  <2>1. q \in Int /\ t + n = (q * C) + p
    <3> DEFINE a == t + n
    <3>1. a \in Int
      OBVIOUS
    <3> HIDE DEF a
    <3>2. q \in Int /\ a = (q * C) + (a % C)
      BY <3>1, Division DEF a
    <3> QED
      BY <1>1, <3>2 DEF a
  <2> HIDE DEF q
  <2>2. -q \in Int /\ p - t \in Int /\ p - t = n + ((-q) * C)
    BY <2>1
  <2> QED
    BY <2>2, SameRemainder
<1>2. ASSUME (p - t) % C = n % C PROVE p = (t + n) % C
  <2> DEFINE q == n \div C
             r == n % C
  <2>1. r \in 0 .. C - 1 /\ q \in Int /\ n = (q * C) + r
    BY Division
  <2> HIDE DEF q, r
  <2>2. t + n \in Int /\ t + r \in Int /\ t + n = (t + r) + (q * C)
    BY <2>1
  <2>3. (t + n) % C = (t + r) % C
    BY <2>1, <2>2, SameRemainder
  <2>4. (t + r) % C = p
    <3>1. (t + ((p - t) % C)) % C = p
      BY RoundAndBack
    <3> QED
      BY <1>2, <3>1, Zenon DEF r
  <2> QED
    BY <2>3, <2>4
<1> QED
  BY <1>1, <1>2

LEMMA SmallRemainder ==
  ASSUME NEW C \in Nat \ {0}, NEW n \in 0 .. C - 1
  PROVE  n % C = n
  BY Quotients, 0 * C <= n, n < (0 * C) + C

-----------------------------------------------------------------------------
(* Copies.  After n of its rows a copy has written every place less than n *)
(* rows round from where it goes: what it reads is not written before, or  *)
(* it would be overtaken, and a row it comes to again, all the way round,  *)
(* it writes as it did.                                                    *)

Rows(rows, v, from, to, w, n) ==
  /\ rows[0] = v
  /\ \A k \in 1 .. n : rows[k] = CopiedRow(rows[k - 1], from, to, w, k - 1)

LEMMA RowsThereAre ==
  ASSUME NEW v, NEW from, NEW to, NEW w, NEW n \in Nat
  PROVE  \E rows : Rows(rows, v, from, to, w, n)
<1> DEFINE S == {m \in Nat : \E f : Rows(f, v, from, to, w, m)}
<1>1. 0 \in S
  <2> DEFINE f == [k \in {0} |-> v]
  <2>1. f[0] = v /\ 1 .. 0 = {}
    OBVIOUS
  <2>2. Rows(f, v, from, to, w, 0)
    BY <2>1 DEF Rows
  <2> QED
    BY <2>2
<1>2. ASSUME NEW m \in Nat, m \in S
      PROVE  m + 1 \in S
  <2>1. PICK f : Rows(f, v, from, to, w, m)
    BY <1>2
  <2> DEFINE last1 == CopiedRow(f[m], from, to, w, m)
             g == [k \in 0 .. m + 1 |-> IF k = m + 1 THEN last1 ELSE f[k]]
  <2>2. /\ \A k \in 0 .. m : g[k] = f[k]
        /\ g[m + 1] = last1
    <3> HIDE DEF last1
    <3> QED
      OBVIOUS
  <2> HIDE DEF g
  <2>3. ASSUME NEW k \in 1 .. m + 1
        PROVE  g[k] = CopiedRow(g[k - 1], from, to, w, k - 1)
    <3>1. CASE k = m + 1
      <4>1. m \in 0 .. m /\ k - 1 = m
        BY <3>1
      <4>2. g[m] = f[m]
        BY <2>2, <4>1
      <4> QED
        BY <2>2, <3>1, <4>1, <4>2, Zenon
    <3>2. CASE k \in 1 .. m
      <4>1. k - 1 \in 0 .. m /\ k \in 0 .. m
        BY <3>2
      <4>2. f[k] = CopiedRow(f[k - 1], from, to, w, k - 1)
        BY <2>1, <3>2 DEF Rows
      <4> QED
        BY <2>2, <4>1, <4>2
    <3> QED
      BY <3>1, <3>2
  <2>4. g[0] = v
    <3>1. 0 \in 0 .. m
      OBVIOUS
    <3> QED
      BY <2>1, <2>2, <3>1 DEF Rows
  <2>5. Rows(g, v, from, to, w, m + 1)
    <3> HIDE DEF last1
    <3> QED
      BY <2>3, <2>4 DEF Rows
  <2> QED
    BY <2>5
<1> HIDE DEF S
<1>3. Nat \subseteq S
  BY <1>1, <1>2, Induction
<1> QED
  BY <1>3 DEF S

LEMMA CopiedRows ==
  ASSUME NEW v, NEW from, NEW to, NEW w, NEW h \in Nat
  PROVE  \E rows : Rows(rows, v, from, to, w, h) /\ Copied(v, from, to, w, h) = rows[h]
<1> DEFINE E(f) == f = [n \in 0 .. h |->
                          IF n = 0 THEN v ELSE CopiedRow(f[n - 1], from, to, w, n - 1)]
           rows == CHOOSE f : E(f)
<1>1. Copied(v, from, to, w, h) = rows[h]
  BY Zenon DEF Copied
<1>2. PICK f : Rows(f, v, from, to, w, h)
  BY RowsThereAre
<1> DEFINE g == [n \in 0 .. h |-> f[n]]
<1>3. E(g)
  <2>1. \A n \in 0 .. h : n # 0 => n \in 1 .. h /\ n - 1 \in 0 .. h
    OBVIOUS
  <2>2. ASSUME NEW n \in 0 .. h
        PROVE  f[n] = IF n = 0 THEN v ELSE CopiedRow(g[n - 1], from, to, w, n - 1)
    <3>1. CASE n = 0
      BY <1>2, <3>1 DEF Rows
    <3>2. CASE n # 0
      <4>1. f[n] = CopiedRow(f[n - 1], from, to, w, n - 1)
        BY <1>2, <2>1, <3>2 DEF Rows
      <4>2. g[n - 1] = f[n - 1]
        BY <2>1, <3>2
      <4> QED
        BY <3>2, <4>1, <4>2, Zenon
    <3> QED
      BY <3>1, <3>2
  <2> QED
    BY <2>2
<1>4. E(rows)
  <2> HIDE DEF E
  <2> QED
    BY <1>3
<1>5. Rows(rows, v, from, to, w, h)
  <2> HIDE DEF rows
  <2>1. 0 \in 0 .. h /\ \A k \in 1 .. h : k \in 0 .. h /\ k # 0
    OBVIOUS
  <2>2. \A n \in 0 .. h :
          rows[n] = IF n = 0 THEN v ELSE CopiedRow(rows[n - 1], from, to, w, n - 1)
    BY <1>4
  <2>3. rows[0] = v
    BY <2>1, <2>2
  <2>4. \A k \in 1 .. h : rows[k] = CopiedRow(rows[k - 1], from, to, w, k - 1)
    BY <2>1, <2>2
  <2> QED
    BY <2>3, <2>4 DEF Rows
<1> HIDE DEF rows
<1> QED
  BY <1>1, <1>5

\* Where the copy reads what it writes at p.
Source(p, from, to) ==
  <<((from[1] + ((p[1] - to[1]) % Width)) % Width),
    ((from[2] + ((p[2] - to[2]) % Height)) % Height)>>

Wanted(v, from, to, w, n, p) ==
  IF (p[1] - to[1]) % Width < w /\ (p[2] - to[2]) % Height < n
  THEN CopiedOver(v[p], v[Source(p, from, to)]) ELSE v[p]

LEMMA CopiedAgain ==
  ASSUME NEW was, NEW source
  PROVE  CopiedOver(CopiedOver(was, source), source) = CopiedOver(was, source)
<1> DEFINE made == [source EXCEPT !.mask = @ \/ set.mask]
<1> HIDE DEF made
<1>1. \A x : CopiedOver(x, source) = IF set.check /\ x.mask THEN x ELSE made
  BY Zenon DEF CopiedOver, made
<1> QED
  BY <1>1, Zenon

\* What the copy is of: two corners and sides.
ACopy(c) ==
  /\ c.from[1] \in Int /\ c.from[2] \in Int /\ c.to[1] \in Int /\ c.to[2] \in Int
  /\ c.width \in Nat /\ c.height \in Nat

\* u is what the first n rows of the copy make of v.
RowsSoFar(v, u, c, n) ==
  \A p \in Place : u[p] = Wanted(v, c.from, c.to, c.width, n, p)

\* One more row, wherever it comes round to.
LEMMA RowCopied ==
  ASSUME NEW v, NEW u, NEW c, ACopy(c), ~Overtaken(c), NEW n \in Nat, n < c.height,
         RowsSoFar(v, u, c, n), NEW p \in Place
  PROVE  CopiedRow(u, c.from, c.to, c.width, n)[p]
           = Wanted(v, c.from, c.to, c.width, n + 1, p)
<1> DEFINE i == (p[1] - c.to[1]) % Width
           j == (p[2] - c.to[2]) % Height
           q == <<((c.from[1] + i) % Width), ((c.from[2] + n) % Height)>>
<1>1. /\ Width \in Nat \ {0} /\ Height \in Nat \ {0}
      /\ p[1] \in 0 .. Width - 1 /\ p[2] \in 0 .. Height - 1
  BY RasterAssumption DEF Place
<1>2. i \in 0 .. Width - 1 /\ j \in 0 .. Height - 1 /\ n % Height \in 0 .. Height - 1
  <2>1. \A C \in Nat \ {0}, a \in Int : a % C \in 0 .. C - 1
    BY Division
  <2>2. p[1] - c.to[1] \in Int /\ p[2] - c.to[2] \in Int /\ n \in Int
    BY <1>1 DEF ACopy
  <2> QED
    BY <1>1, <2>1, <2>2
<1>3. CopiedRow(u, c.from, c.to, c.width, n)[p]
        = IF p[2] = (c.to[2] + n) % Height /\ i < c.width
          THEN CopiedOver(u[p], u[q]) ELSE u[p]
  BY Zenon DEF CopiedRow
<1>4. p[2] = (c.to[2] + n) % Height <=> j = n % Height
  <2>1. c.to[2] \in Int /\ n \in Int
    BY DEF ACopy
  <2> DEFINE t == c.to[2]
             x == p[2]
  <2>2. Height \in Nat \ {0} /\ x \in 0 .. Height - 1 /\ t \in Int /\ n \in Int
    BY <1>1, <2>1
  <2> HIDE DEF t, x
  <2>3. x = (t + n) % Height <=> (x - t) % Height = n % Height
    BY ONLY <2>2, RoundTo, ZenonT(60)
  <2> QED
    BY <2>3, Zenon DEF t, x
<1>5. u[p] = IF i < c.width /\ j < n THEN CopiedOver(v[p], v[Source(p, c.from, c.to)])
             ELSE v[p]
  BY Zenon DEF Wanted, RowsSoFar
<1>6. Wanted(v, c.from, c.to, c.width, n + 1, p)
        = IF i < c.width /\ j < n + 1 THEN CopiedOver(v[p], v[Source(p, c.from, c.to)])
          ELSE v[p]
  BY Zenon DEF Wanted
<1>7. ASSUME j = n % Height, i < c.width
      PROVE  q = Source(p, c.from, c.to) /\ u[q] = v[q] /\ j < n + 1 /\ (j < n \/ j = n)
  <2>1. j <= n
    <3>1. n \in Int /\ n \div Height \in Int /\ n = ((n \div Height) * Height) + (n % Height)
      BY <1>1, Division
    <3> DEFINE k == n \div Height
    <3> HIDE DEF k
    <3>2. k \in Int /\ n = (k * Height) + j
      BY <1>7, <3>1 DEF k
    <3>3. CASE k >= 0
      <4>1. k * Height >= 0
        BY <1>1, <3>2, <3>3
      <4> HIDE DEF j
      <4> QED
        BY <1>2, <3>2, <4>1, <1>1
    <3>4. CASE k < 0
      <4>1. (k + 1) * Height <= 0
        BY <1>1, <3>2, <3>4
      <4>2. (k + 1) * Height = (k * Height) + Height
        BY <1>1, <3>2
      <4> HIDE DEF j
      <4> QED
        BY <1>2, <3>2, <4>1, <4>2, <1>1
    <3> QED
      BY <3>2, <3>3, <3>4
  <2>2. (c.from[2] + j) % Height = (c.from[2] + n) % Height
    <3> DEFINE k == n \div Height
               a == c.from[2] + n
               b == c.from[2] + j
    <3>1. n = (k * Height) + (n % Height) /\ k \in Int
      BY <1>1, Division
    <3> HIDE DEF k
    <3>2. a \in Int /\ b \in Int /\ a = b + (k * Height)
      <4> HIDE DEF j
      <4> QED
        BY <1>1, <1>2, <1>7, <3>1 DEF ACopy
    <3> HIDE DEF a, b
    <3>3. a % Height = b % Height
      BY <1>1, <3>1, <3>2, SameRemainder
    <3> QED
      BY <3>3 DEF a, b
  <2>3. q = Source(p, c.from, c.to)
    BY <2>2, Zenon DEF Source
  <2>4. q \in Place
    <3>1. \A C \in Nat \ {0}, a \in Int : a % C \in 0 .. C - 1
      BY Division
    <3>2. c.from[1] + i \in Int /\ c.from[2] + n \in Int
      <4> HIDE DEF i
      <4> QED
        BY <1>2 DEF ACopy
    <3>3. (c.from[1] + i) % Width \in 0 .. Width - 1
          /\ (c.from[2] + n) % Height \in 0 .. Height - 1
      BY <1>1, <3>1, <3>2
    <3> QED
      BY <3>3 DEF Place
  <2> DEFINE a == (q[1] - c.to[1]) % Width
             b == (q[2] - c.to[2]) % Height
  <2>5. u[q] = IF a < c.width /\ b < n THEN CopiedOver(v[q], v[Source(q, c.from, c.to)])
               ELSE v[q]
    BY <2>4, Zenon DEF Wanted, RowsSoFar
  <2>6. ASSUME a < c.width, b < n PROVE FALSE
    <3>1. q[1] \in 0 .. Width - 1 /\ q[2] \in 0 .. Height - 1 /\ q[1] \in Int /\ q[2] \in Int
      BY <2>4 DEF Place
    <3>2. (c.to[1] + a) % Width = q[1] /\ (c.to[2] + b) % Height = q[2]
      <4>1. \A C \in Nat \ {0} : \A x \in 0 .. C - 1, t \in Int :
              (t + ((x - t) % C)) % C = x
        BY RoundAndBack
      <4> QED
        BY <1>1, <3>1, <4>1 DEF ACopy
    <3>3. a \in Nat /\ b \in Nat /\ i \in Nat
      <4>1. \A C \in Nat \ {0}, x \in Int : x % C \in 0 .. C - 1
        BY Division
      <4>2. q[1] - c.to[1] \in Int /\ q[2] - c.to[2] \in Int
        BY <3>1 DEF ACopy
      <4>3. a \in 0 .. Width - 1 /\ b \in 0 .. Height - 1
        BY <1>1, <4>1, <4>2
      <4> HIDE DEF a, b, i
      <4> QED
        BY <1>1, <1>2, <4>3
    <3>4. q[1] = (c.from[1] + i) % Width /\ q[2] = (c.from[2] + n) % Height
      OBVIOUS
    <3> HIDE DEF a, b, q, i
    <3>5. a \in 0 .. c.width - 1 /\ i \in 0 .. c.width - 1
          /\ b \in 0 .. c.height - 1 /\ n \in 0 .. c.height - 1
      BY <1>7, <2>6, <3>3 DEF ACopy
    <3> QED
      BY <2>6, <3>2, <3>4, <3>5, Zenon DEF Overtaken
  <2> HIDE DEF a, b, q, i, j
  <2> QED
    BY <1>2, <2>1, <2>3, <2>5, <2>6
<1>8. ASSUME j # n % Height PROVE j < n + 1 <=> j < n
  <2>1. CASE n < Height
    <3>1. n % Height = n
      BY <1>1, <2>1, SmallRemainder
    <3> HIDE DEF j
    <3> QED
      BY <1>2, <1>8, <3>1
  <2>2. CASE n >= Height
    <3> HIDE DEF j
    <3> QED
      BY <1>1, <1>2, <2>2
  <2> QED
    BY <1>1, <2>1, <2>2
<1> DEFINE s == Source(p, c.from, c.to)
<1>9. CopiedOver(CopiedOver(v[p], v[s]), v[s]) = CopiedOver(v[p], v[s])
  BY CopiedAgain
<1> HIDE DEF i, j, q, s
<1>10. CASE j = n % Height /\ i < c.width
  <2>1. q = s /\ u[q] = v[q] /\ j < n + 1
    BY <1>7, <1>10 DEF s
  <2>2. u[p] = v[p] \/ u[p] = CopiedOver(v[p], v[s])
    BY <1>5, Zenon DEF s
  <2>3. CopiedOver(u[p], v[s]) = CopiedOver(v[p], v[s])
    BY <1>9, <2>2, Zenon
  <2> QED
    BY <1>3, <1>4, <1>6, <1>10, <2>1, <2>3, Zenon DEF s
<1>11. CASE ~(j = n % Height /\ i < c.width)
  BY <1>3, <1>4, <1>5, <1>6, <1>8, <1>11, Zenon
<1> QED
  BY <1>10, <1>11

LEMMA RowsCopied ==
  ASSUME NEW v, NEW c, ACopy(c), ~Overtaken(c), NEW p \in Place
  PROVE  Copied(v, c.from, c.to, c.width, c.height)[p]
           = Wanted(v, c.from, c.to, c.width, c.height, p)
<1> DEFINE h == c.height
<1>1. h \in Nat
  BY DEF ACopy
<1>2. PICK rows : Rows(rows, v, c.from, c.to, c.width, h)
                  /\ Copied(v, c.from, c.to, c.width, h) = rows[h]
  <2> HIDE DEF h
  <2> QED
    BY <1>1, CopiedRows, ZenonT(60)
<1> DEFINE Good(n) == \A x \in Place : rows[n][x] = Wanted(v, c.from, c.to, c.width, n, x)
           S == {n \in Nat : n <= h => Good(n)}
<1>3. 0 \in S
  <2>1. ASSUME NEW x \in Place
        PROVE  Wanted(v, c.from, c.to, c.width, 0, x) = v[x]
    <3> DEFINE j == (x[2] - c.to[2]) % Height
    <3>1. j \in Nat
      <4>1. x[2] - c.to[2] \in Int /\ Height \in Nat \ {0}
        <5>1. x[2] \in Int /\ Height \in Nat \ {0}
          BY RasterAssumption DEF Place
        <5>2. c.to[2] \in Int
          BY DEF ACopy
        <5> HIDE DEF S, Good, h
        <5> QED
          BY <5>1, <5>2
      <4> DEFINE a == x[2] - c.to[2]
      <4> HIDE DEF a
      <4>2. a % Height \in 0 .. Height - 1
        BY <4>1, Division DEF a
      <4> QED
        BY <4>1, <4>2 DEF a
    <3> HIDE DEF j
    <3>2. ~(j < 0)
      BY <3>1
    <3> QED
      BY <3>2, Zenon DEF Wanted, j
  <2>2. rows[0] = v
    BY <1>2 DEF Rows
  <2> QED
    BY <2>1, <2>2
<1>4. ASSUME NEW n \in Nat, n \in S
      PROVE  n + 1 \in S
  <2> SUFFICES ASSUME n + 1 <= h PROVE Good(n + 1)
    OBVIOUS
  <2>1. n + 1 \in 1 .. h /\ (n + 1) - 1 = n /\ n <= h /\ n < c.height
    BY <1>1
  <2>2. rows[n + 1] = CopiedRow(rows[n], c.from, c.to, c.width, n)
    <3>1. rows[n + 1] = CopiedRow(rows[(n + 1) - 1], c.from, c.to, c.width, (n + 1) - 1)
      BY <1>2, <2>1, Zenon DEF Rows
    <3> QED
      BY <2>1, <3>1
  <2>3. Good(n)
    BY <1>4, <2>1
  <2>4. \A x \in Place : CopiedRow(rows[n], c.from, c.to, c.width, n)[x]
                           = Wanted(v, c.from, c.to, c.width, n + 1, x)
    <3> DEFINE u == rows[n]
    <3>1. n < c.height
      BY <1>1, <2>1
    <3>2. RowsSoFar(v, u, c, n)
      BY <2>3 DEF RowsSoFar
    <3> HIDE DEF S, Good, h, u
    <3>3. ASSUME NEW x \in Place
          PROVE  CopiedRow(u, c.from, c.to, c.width, n)[x]
                   = Wanted(v, c.from, c.to, c.width, n + 1, x)
      BY ONLY ACopy(c), ~Overtaken(c), n \in Nat, x \in Place, <3>1, <3>2, RowCopied
    <3> QED
      BY <3>3, Zenon DEF u
  <2> QED
    BY <2>2, <2>4
<1> HIDE DEF S
<1>5. Nat \subseteq S
  BY <1>3, <1>4, Induction
<1>6. Good(h)
  BY <1>1, <1>5 DEF S
<1> QED
  BY <1>2, <1>6

-----------------------------------------------------------------------------
(* Lines.  A step of the position is a whole step's worth and less than a  *)
(* unit over for every step there is (PositionStepIs), so that n of them   *)
(* are on the same side of the middle between two pixels as the line.      *)

LEMMA QuotientIs ==
  ASSUME NEW a \in Int, NEW b \in Int, b # 0
  PROVE  /\ Quotient(a, b) \in Int
         /\ \E r \in Int : /\ a = (Quotient(a, b) * b) + r
                           /\ (a >= 0 => r >= 0) /\ (a <= 0 => r <= 0)
                           /\ (b > 0 => -b < r /\ r < b)
                           /\ (b < 0 => b < r /\ r < -b)
<1> DEFINE A == IF a < 0 THEN -a ELSE a
           B == IF b < 0 THEN -b ELSE b
           k == A \div B
           r == A % B
<1>1. A \in Nat /\ B \in Nat \ {0}
  OBVIOUS
<1>2. r \in 0 .. B - 1 /\ k \in Int /\ A = (k * B) + r
  <2> HIDE DEF A, B
  <2> QED
    BY <1>1, Division
<1>3. Quotient(a, b) = IF (a < 0) = (b < 0) THEN k ELSE -k
  BY DEF Quotient
<1> HIDE DEF k, r
<1>4. CASE a < 0 /\ b < 0
  <2>1. Quotient(a, b) = k /\ A = -a /\ B = -b
    BY <1>3, <1>4
  <2>2. k * B = -(k * b)
    BY <1>2, <2>1
  <2>3. a = (k * b) + (-r) /\ -r \in Int
    BY <1>2, <2>1, <2>2
  <2> QED
    BY <1>2, <1>4, <2>1, <2>3
<1>5. CASE a < 0 /\ b > 0
  <2>1. Quotient(a, b) = -k /\ A = -a /\ B = b
    BY <1>3, <1>5
  <2>2. (-k) * b = -(k * B)
    BY <1>2, <2>1
  <2>3. a = ((-k) * b) + (-r) /\ -r \in Int /\ -k \in Int
    BY <1>2, <2>1, <2>2
  <2> QED
    BY <1>2, <1>5, <2>1, <2>3
<1>6. CASE a >= 0 /\ b < 0
  <2>1. Quotient(a, b) = -k /\ A = a /\ B = -b
    BY <1>3, <1>6
  <2>2. (-k) * b = k * B
    BY <1>2, <2>1
  <2>3. a = ((-k) * b) + r /\ r \in Int /\ -k \in Int
    BY <1>2, <2>1, <2>2
  <2> QED
    BY <1>2, <1>6, <2>1, <2>3
<1>7. CASE a >= 0 /\ b > 0
  <2>1. Quotient(a, b) = k /\ A = a /\ B = b
    BY <1>3, <1>7
  <2> QED
    BY <1>2, <1>7, <2>1
<1> QED
  BY <1>4, <1>5, <1>6, <1>7

LEMMA PositionStepIs ==
  ASSUME NEW delta \in Int, NEW steps \in Nat \ {0}
  PROVE  LET p == PositionStep(delta, steps)
         IN /\ p \in Int /\ (delta < 0 => p < 0) /\ (delta >= 0 => p >= 0)
            /\ \E f \in Int : /\ p * steps = (delta * PositionScale) + f
                              /\ -steps < f /\ f < steps /\ (delta >= 0 => f >= 0)
<1> DEFINE p == PositionStep(delta, steps)
           D == delta * PositionScale
           a == D + (IF delta > 0 THEN steps - 1 ELSE 1 - steps)
<1>1. PositionScale \in Nat \ {0} /\ D \in Int /\ a \in Int /\ steps # 0 /\ steps \in Int
  BY RasterAssumption
<1>2. CASE delta = 0
  <2>1. p = 0
    BY <1>2 DEF PositionStep
  <2>2. p * steps = D + 0
    BY <1>1, <1>2, <2>1
  <2> QED
    BY <1>1, <1>2, <2>1, <2>2
<1>3. CASE delta # 0
  <2>1. p = Quotient(a, steps)
    BY <1>1, <1>3, Zenon DEF PositionStep
  <2>2. PICK r \in Int : /\ p \in Int /\ a = (p * steps) + r
                         /\ (a >= 0 => r >= 0) /\ (a <= 0 => r <= 0)
                         /\ -steps < r /\ r < steps
    <3> HIDE DEF a, p
    <3> QED
      BY <1>1, <2>1, QuotientIs
  <2>3. (delta > 0 => D >= 1) /\ (delta < 0 => D <= -1)
    <3>1. CASE delta > 0
      <4>1. (delta - 1) * (PositionScale - 1) >= 0
        BY <1>1, <3>1
      <4>2. (delta - 1) * (PositionScale - 1) = D - delta - PositionScale + 1
        BY <1>1
      <4> QED
        BY <1>1, <3>1, <4>1, <4>2
    <3>2. CASE delta < 0
      <4>1. (-delta - 1) * (PositionScale - 1) >= 0
        BY <1>1, <3>2
      <4>2. (-delta - 1) * (PositionScale - 1) = -D + delta - PositionScale + 1
        BY <1>1
      <4> QED
        BY <1>1, <3>2, <4>1, <4>2
    <3> QED
      BY <3>1, <3>2
  <2>4. CASE delta > 0
    <3> DEFINE f == steps - 1 - r
    <3>1. a = D + steps - 1 /\ a >= 0
      BY <1>1, <2>3, <2>4
    <3> HIDE DEF a, p, D
    <3>2. f \in Int /\ p * steps = D + f /\ 0 <= f /\ f < steps
      BY <1>1, <2>2, <3>1
    <3>3. p >= 0
      <4>1. CASE p <= -1
        <5>1. (-p - 1) * steps >= 0
          BY <2>2, <4>1
        <5>2. (-p - 1) * steps = -(p * steps) - steps
          BY <2>2
        <5> QED
          BY <1>1, <2>2, <2>3, <2>4, <3>2, <5>1, <5>2
      <4> QED
        BY <2>2, <4>1
    <3> QED
      BY <2>2, <2>4, <3>2, <3>3 DEF D, p
  <2>5. CASE delta < 0
    <3> DEFINE f == -(steps - 1 + r)
    <3>1. a = D + 1 - steps /\ a <= 0
      BY <1>1, <2>3, <2>5
    <3> HIDE DEF a, p, D
    <3>2. f \in Int /\ p * steps = D + f /\ f <= 0 /\ -steps < f
      BY <1>1, <2>2, <3>1
    <3>3. p < 0
      <4>1. CASE p >= 0
        <5>1. p * steps >= 0
          BY <2>2, <4>1
        <5> QED
          BY <1>1, <2>2, <2>3, <2>5, <3>2, <5>1
      <4> QED
        BY <2>2, <4>1
    <3> QED
      BY <2>2, <2>5, <3>2, <3>3 DEF D, p
  <2> QED
    BY <1>3, <2>4, <2>5
<1> QED
  BY <1>2, <1>3

\* What is below a number of units when what is below so many of them is.
LEMMA Below ==
  ASSUME NEW s \in Nat \ {0}, NEW a \in Int, NEW b \in Int
  PROVE  (s * a < s * b => a < b) /\ (s * a <= s * b => a <= b)
<1>1. ASSUME a >= b PROVE s * a >= s * b
  <2>1. s * (a - b) >= 0
    BY <1>1
  <2>2. s * (a - b) = (s * a) - (s * b)
    OBVIOUS
  <2> QED
    BY <2>1, <2>2
<1>2. ASSUME a > b PROVE s * a > s * b
  <2>1. s * (a - b - 1) >= 0
    BY <1>2
  <2>2. s * (a - b - 1) = (s * a) - (s * b) - s
    OBVIOUS
  <2> QED
    BY <2>1, <2>2
<1> DEFINE x == s * a
           y == s * b
<1>3. x \in Int /\ y \in Int
  OBVIOUS
<1> HIDE DEF x, y
<1>4. (x < y => a < b) /\ (x <= y => a <= b)
  BY <1>1, <1>2, <1>3 DEF x, y
<1> QED
  BY <1>4 DEF x, y

LEMMA TimesLess ==
  ASSUME NEW a \in Int, NEW b \in Int, a <= b, NEW n \in Nat
  PROVE  n * a <= n * b /\ a * n <= b * n
<1>1. n * (b - a) >= 0
  OBVIOUS
<1>2. n * (b - a) = (n * b) - (n * a)
  OBVIOUS
<1> QED
  BY <1>1, <1>2

\* A step is close enough to the line's: the nudge takes the middle between two
\* pixels to the one before it, and no other place with it.
LEMMA NudgedPlace ==
  ASSUME NEW st \in Nat \ {0}, NEW S \in Nat, NEW h \in Nat, S = 2 * h,
         NEW N \in Nat, st <= N, 2 * st * (N + st) < S,
         NEW n \in 0 .. st, NEW d \in Int, NEW p \in Int, NEW f \in Int,
         p * st = (d * S) + f, -st < f, f < st,
         NEW m \in Int, ((2 * m) - 1) * st < 2 * n * d, 2 * n * d <= ((2 * m) + 1) * st
  PROVE  m * S <= h - N + (n * p) /\ h - N + (n * p) < (m * S) + S
<1> DEFINE X == h - N + (n * p)
           Z == n * d
           F == n * f
           M == m * st
           K == N * st
           Q == st * st
<1>1. /\ n \in Nat /\ X \in Int /\ Z \in Int /\ F \in Int /\ M \in Int /\ K \in Int
      /\ Q \in Int /\ st \in Int /\ S \in Int
  OBVIOUS
<1>2. st * X = (st * h) - K + (Z * S) + F
  <2>1. st * X = (st * h) - (st * N) + (n * (p * st))
    OBVIOUS
  <2>2. n * (p * st) = (n * (d * S)) + F
    OBVIOUS
  <2>3. n * (d * S) = Z * S /\ st * N = K
    OBVIOUS
  <2> HIDE DEF X, Z, F, K
  <2> QED
    BY <2>1, <2>2, <2>3, <1>1
<1>3. -Q <= F /\ F <= Q - st
  <2>1. F <= n * (st - 1) /\ -(n * (st - 1)) <= F
    <3>1. f \in Int /\ st - 1 \in Int /\ f <= st - 1 /\ -f <= st - 1 /\ -f \in Int
      OBVIOUS
    <3>2. n * f <= n * (st - 1) /\ n * (-f) <= n * (st - 1)
      BY <1>1, <3>1, TimesLess
    <3>3. n * (-f) = -F
      OBVIOUS
    <3> QED
      BY <1>1, <3>2, <3>3
  <2>2. n * (st - 1) <= st * (st - 1) /\ st * (st - 1) = Q - st
    <3>1. n <= st /\ st - 1 \in Nat
      OBVIOUS
    <3>2. n * (st - 1) <= st * (st - 1)
      BY <1>1, <3>1, TimesLess
    <3>3. st * (st - 1) = Q - st
      OBVIOUS
    <3> QED
      BY <3>2, <3>3
  <2>3. n * (st - 1) \in Int /\ st * (st - 1) \in Int
    OBVIOUS
  <2> HIDE DEF F, Q
  <2> QED
    BY <1>1, <2>1, <2>2, <2>3
<1>4. 2 * K + 2 * Q < S /\ Q <= K
  <2>1. 2 * st * (N + st) = 2 * K + 2 * Q
    OBVIOUS
  <2>2. st * st <= N * st
    BY <1>1, TimesLess
  <2> QED
    BY <2>1, <2>2
<1>5. 2 * M - st + 1 <= 2 * Z /\ 2 * Z <= 2 * M + st
  <2>1. ((2 * m) - 1) * st = 2 * M - st /\ ((2 * m) + 1) * st = 2 * M + st /\ 2 * n * d = 2 * Z
    OBVIOUS
  <2> HIDE DEF M, Z
  <2> QED
    BY <1>1, <2>1
<1>6. /\ (2 * M - st + 1) * S <= (2 * Z) * S
      /\ (2 * Z) * S <= (2 * M + st) * S
  <2>1. 2 * M - st + 1 \in Int /\ 2 * Z \in Int /\ 2 * M + st \in Int
    BY <1>1
  <2> HIDE DEF M, Z
  <2> QED
    BY <1>5, <2>1, TimesLess
<1> DEFINE G == m * S
           T == st * h
           U == Z * S
           V == M * S
<1>7. /\ (2 * M - st + 1) * S = 2 * V - 2 * T + S /\ (2 * Z) * S = 2 * U
      /\ (2 * M + st) * S = 2 * V + 2 * T
      /\ st * G = V /\ st * (G + S) = V + 2 * T
      /\ T \in Int /\ U \in Int /\ V \in Int /\ G \in Int
  OBVIOUS
<1> HIDE DEF X, Z, F, M, K, Q, G, T, U, V
<1>8. st * G <= st * X /\ st * X < st * (G + S)
  BY <1>1, <1>2, <1>3, <1>4, <1>6, <1>7
    DEF T, U
<1>9. G <= X /\ X < G + S
  BY <1>1, <1>7, <1>8, Below
<1> QED
  BY <1>9 DEF G, X

\* Down the screen, without the nudge, it goes to the one after it.
LEMMA PlainPlace ==
  ASSUME NEW st \in Nat \ {0}, NEW S \in Nat, NEW h \in Nat, S = 2 * h,
         2 * st * st < S,
         NEW n \in 0 .. st, NEW d \in Int, NEW p \in Int, NEW f \in Int,
         p * st = (d * S) + f, 0 <= f, f < st,
         NEW m \in Int, (2 * m) * st <= st + (2 * n * d),
         st + (2 * n * d) < ((2 * m) + 2) * st
  PROVE  m * S <= h + (n * p) /\ h + (n * p) < (m * S) + S
<1> DEFINE X == h + (n * p)
           Z == n * d
           F == n * f
           M == m * st
           Q == st * st
<1>1. /\ n \in Nat /\ X \in Int /\ Z \in Int /\ F \in Int /\ M \in Int
      /\ Q \in Int /\ st \in Int /\ S \in Int
  OBVIOUS
<1>2. st * X = (st * h) + (Z * S) + F
  <2>1. st * X = (st * h) + (n * (p * st))
    OBVIOUS
  <2>2. n * (p * st) = (n * (d * S)) + F
    OBVIOUS
  <2>3. n * (d * S) = Z * S
    OBVIOUS
  <2> HIDE DEF X, Z, F
  <2> QED
    BY <2>1, <2>2, <2>3, <1>1
<1>3. 0 <= F /\ F <= Q
  <2>1. n * f <= n * st /\ n * 0 <= n * f
    BY <1>1, TimesLess
  <2>2. n * st <= st * st
    BY <1>1, TimesLess
  <2> QED
    BY <1>1, <2>1, <2>2
<1>4. 2 * Q < S
  OBVIOUS
<1>5. 2 * M - st <= 2 * Z /\ 2 * Z <= 2 * M + st - 1
  <2>1. (2 * m) * st = 2 * M /\ ((2 * m) + 2) * st = 2 * M + 2 * st /\ 2 * n * d = 2 * Z
    OBVIOUS
  <2> HIDE DEF M, Z
  <2> QED
    BY <1>1, <2>1
<1>6. /\ (2 * M - st) * S <= (2 * Z) * S
      /\ (2 * Z) * S <= (2 * M + st - 1) * S
  <2>1. 2 * M - st \in Int /\ 2 * Z \in Int /\ 2 * M + st - 1 \in Int
    BY <1>1
  <2> HIDE DEF M, Z
  <2> QED
    BY <1>5, <2>1, TimesLess
<1> DEFINE G == m * S
           T == st * h
           U == Z * S
           V == M * S
<1>7. /\ (2 * M - st) * S = 2 * V - 2 * T /\ (2 * Z) * S = 2 * U
      /\ (2 * M + st - 1) * S = 2 * V + 2 * T - S
      /\ st * G = V /\ st * (G + S) = V + 2 * T
      /\ T \in Int /\ U \in Int /\ V \in Int /\ G \in Int
  OBVIOUS
<1> HIDE DEF X, Z, F, M, Q, G, T, U, V
<1>8. st * G <= st * X /\ st * X < st * (G + S)
  BY <1>1, <1>2, <1>3, <1>4, <1>6, <1>7
    DEF T, U
<1>9. G <= X /\ X < G + S
  BY <1>1, <1>7, <1>8, Below
<1> QED
  BY <1>9 DEF G, X

\* The middle of a pixel and the pixels a fraction is in.
LEMMA InPixel ==
  ASSUME NEW S \in Nat \ {0}, NEW x \in Int, NEW m \in Int, NEW a \in Int,
         m * S <= a, a < (m * S) + S
  PROVE  ((x * S) + a) \div S = x + m
<1> DEFINE k == x + m
           b == (x * S) + a
<1>1. k \in Int /\ b \in Int /\ k * S = (x * S) + (m * S)
  OBVIOUS
<1>2. k * S <= b /\ b < (k * S) + S
  BY <1>1
<1> HIDE DEF k, b
<1>3. b \div S = k
  BY <1>1, <1>2, Quotients
<1> QED
  BY <1>3 DEF k, b

LEMMA LeastIs ==
  ASSUME NEW st \in Nat \ {0}, NEW d \in Int, NEW n \in Nat
  PROVE  LET m == -((st - 2 * n * d) \div (2 * st))
         IN m \in Int /\ ((2 * m) - 1) * st < 2 * n * d
            /\ 2 * n * d <= ((2 * m) + 1) * st /\ (d = 0 => m = 0)
<1> DEFINE a == st - 2 * n * d
           C == 2 * st
           q == a \div C
           r == a % C
           D == 2 * n * d
<1>1. a \in Int /\ C \in Nat \ {0} /\ D \in Int /\ a = st - D
  OBVIOUS
<1>2. r \in 0 .. C - 1 /\ q \in Int /\ a = (q * C) + r
  <2> HIDE DEF a, C
  <2> QED
    BY <1>1, Division
<1>3. /\ ((2 * (-q)) - 1) * st = -(q * C) - st /\ ((2 * (-q)) + 1) * st = -(q * C) + st
      /\ q * C \in Int
  BY <1>2
<1>4. d = 0 => q = 0
  <2> SUFFICES ASSUME d = 0 PROVE q = 0
    OBVIOUS
  <2>1. a = st
    OBVIOUS
  <2>2. 0 * C <= a /\ a < (0 * C) + C
    BY <2>1
  <2> HIDE DEF a, C
  <2> QED
    BY <1>1, <2>2, Quotients
<1> HIDE DEF q, r, a, D
<1>5. -q \in Int /\ ((2 * (-q)) - 1) * st < D /\ D <= ((2 * (-q)) + 1) * st
      /\ (d = 0 => -q = 0)
  BY <1>1, <1>2, <1>3, <1>4
<1> QED
  BY <1>5 DEF q, a, D

LEMMA MostIs ==
  ASSUME NEW st \in Nat \ {0}, NEW d \in Int, NEW n \in Nat
  PROVE  LET m == (st + 2 * n * d) \div (2 * st)
         IN m \in Int /\ (2 * m) * st <= st + (2 * n * d)
            /\ st + (2 * n * d) < ((2 * m) + 2) * st
<1> DEFINE a == st + 2 * n * d
           C == 2 * st
           q == a \div C
           r == a % C
<1>1. a \in Int /\ C \in Nat \ {0}
  OBVIOUS
<1>2. r \in 0 .. C - 1 /\ q \in Int /\ a = (q * C) + r
  <2> HIDE DEF a, C
  <2> QED
    BY <1>1, Division
<1>3. (2 * q) * st = q * C /\ ((2 * q) + 2) * st = (q * C) + C /\ q * C \in Int
  BY <1>2
<1> HIDE DEF q, r, a
<1>4. q \in Int /\ (2 * q) * st <= a /\ a < ((2 * q) + 2) * st
  BY <1>1, <1>2, <1>3
<1> QED
  BY <1>4 DEF q, a

\* Where one axis of a line has come to, n steps from its left end.
LEMMA AxisPlaces ==
  ASSUME NEW st \in Nat \ {0}, st < Width, NEW n \in 0 .. st, NEW d \in Int, NEW x \in Int
  PROVE  LET p == PositionStep(d, st)
             h == PositionScale \div 2
             least == -((st - 2 * n * d) \div (2 * st))
             most == (st + 2 * n * d) \div (2 * st)
         IN /\ ((x * PositionScale) + h - Nudge + (n * p)) \div PositionScale = x + least
            /\ d > 0 => ((x * PositionScale) + h + (n * p)) \div PositionScale = x + most
            /\ d = 0 => ((x * PositionScale) + h + (n * p)) \div PositionScale = x + least
<1> DEFINE p == PositionStep(d, st)
           h == PositionScale \div 2
           least == -((st - 2 * n * d) \div (2 * st))
           most == (st + 2 * n * d) \div (2 * st)
           S == PositionScale
<1>1. /\ S \in Nat \ {0} /\ h \in Nat /\ S = 2 * h /\ Nudge \in Nat /\ st <= Nudge
      /\ 2 * st * (Nudge + st) < S
  <2>1. st \in 1 .. Width - 1 /\ Width \in Nat
    BY RasterAssumption
  <2>2. S \in Nat \ {0} /\ S % 2 = 0 /\ Nudge \in Nat
    BY RasterAssumption
  <2>3. S = (h * 2) + (S % 2) /\ h \in Int
    BY <2>2, Division
  <2>4. st <= Nudge /\ 2 * st * (Nudge + st) < S
    BY <2>1, RasterAssumption
  <2> HIDE DEF h
  <2> QED
    BY <2>2, <2>3, <2>4
<1>2. 2 * st * st < S /\ n \in Nat
  <2>1. 2 * st * (Nudge + st) = (2 * (st * Nudge)) + 2 * st * st /\ st * Nudge >= 0
    BY <1>1
  <2> HIDE DEF S
  <2> QED
    BY <1>1, <2>1
<1>3. PICK f \in Int : /\ p \in Int /\ p * st = (d * S) + f /\ -st < f /\ f < st
                       /\ (d >= 0 => f >= 0)
  BY PositionStepIs
<1>4. least \in Int /\ ((2 * least) - 1) * st < 2 * n * d
      /\ 2 * n * d <= ((2 * least) + 1) * st /\ (d = 0 => least = 0)
  BY <1>2, LeastIs
<1>5. most \in Int /\ (2 * most) * st <= st + (2 * n * d)
      /\ st + (2 * n * d) < ((2 * most) + 2) * st
  BY <1>2, MostIs
<1>6. d = 0 => p = 0
  BY DEF PositionStep
<1> HIDE DEF p, h, least, most, S
<1>7. ((x * S) + h - Nudge + (n * p)) \div S = x + least
  <2> DEFINE a == h - Nudge + (n * p)
  <2>1. least * S <= a /\ a < (least * S) + S
    BY <1>1, <1>3, <1>4, NudgedPlace
  <2>2. a \in Int /\ (x * S) + h - Nudge + (n * p) = (x * S) + a
    BY <1>1, <1>2, <1>3
  <2> HIDE DEF a
  <2>3. ((x * S) + a) \div S = x + least
    BY <1>1, <1>4, <2>1, <2>2, InPixel
  <2> QED
    BY <2>2, <2>3
<1>8. ASSUME d > 0 PROVE ((x * S) + h + (n * p)) \div S = x + most
  <2> DEFINE a == h + (n * p)
  <2>1. most * S <= a /\ a < (most * S) + S
    BY <1>1, <1>2, <1>3, <1>5, <1>8, PlainPlace
  <2>2. a \in Int /\ (x * S) + h + (n * p) = (x * S) + a
    BY <1>1, <1>2, <1>3
  <2> HIDE DEF a
  <2>3. ((x * S) + a) \div S = x + most
    BY <1>1, <1>5, <2>1, <2>2, InPixel
  <2> QED
    BY <2>2, <2>3
<1>9. ASSUME d = 0 PROVE ((x * S) + h + (n * p)) \div S = x + least
  <2> DEFINE a == h + (n * p)
  <2>1. a = h /\ least = 0 /\ a \in Int
    BY <1>1, <1>2, <1>4, <1>6, <1>9
  <2>2. least * S <= a /\ a < (least * S) + S
    BY <1>1, <2>1
  <2>3. (x * S) + h + (n * p) = (x * S) + a
    BY <1>1, <1>2, <1>3
  <2> HIDE DEF a
  <2>4. ((x * S) + a) \div S = x + least
    BY <1>1, <1>4, <2>1, <2>2, InPixel
  <2> QED
    BY <2>3, <2>4
<1> QED
  BY <1>7, <1>8, <1>9 DEF p, h, least, most, S

\* The walk's places are those of rounding, one by one.
LEMMA WalkPlaces ==
  ASSUME NEW from \in Vertex, NEW to \in Vertex, NEW how, ~TooLong(from, to), NEW p
  PROVE  LET walk == Walk(from, to, how)
         IN p \in LinePlaces(from, to) <=> \E n \in DOMAIN walk : walk[n].place = p
<1> DEFINE backwards == from.x >= to.x /\ to.x # from.x
           first  == IF backwards THEN to ELSE from
           second == IF backwards THEN from ELSE to
           steps  == Larger(Magnitude(to.x - from.x), Magnitude(to.y - from.y))
           dx == second.x - first.x
           dy == second.y - first.y
           stepX == PositionStep(dx, steps)
           stepY == PositionStep(dy, steps)
           S == PositionScale
           h == S \div 2
           startX == first.x * S + h - Nudge
           startY == first.y * S + h - (IF stepY < 0 THEN Nudge ELSE 0)
           At(n) == <<(startX + n * stepX) \div S, (startY + n * stepY) \div S>>
           Least(d, n) == -((steps - 2 * n * d) \div (2 * steps))
           Most(d, n) == (steps + 2 * n * d) \div (2 * steps)
           Ideal(n) == <<first.x + Least(dx, n),
                         first.y + (IF dy > 0 THEN Most(dy, n) ELSE Least(dy, n))>>
           walk == Walk(from, to, how)
<1>1. from.x \in Int /\ from.y \in Int /\ to.x \in Int /\ to.y \in Int
      /\ Width \in Nat /\ Height \in Nat /\ Height <= Width
  BY RasterAssumption DEF Vertex, Coordinate
<1>2. /\ steps \in Nat /\ steps < Width
      /\ steps = 0 => from.x = to.x /\ from.y = to.y
      /\ steps = Larger(Magnitude(from.x - to.x), Magnitude(from.y - to.y))
  BY <1>1 DEF TooLong, Larger, Magnitude
<1>3. /\ first = IF to.x < from.x THEN to ELSE from
      /\ second = IF to.x < from.x THEN from ELSE to
  BY <1>1
<1>4. first.x \in Int /\ first.y \in Int /\ dx \in Int /\ dy \in Int /\ dx >= 0
  BY <1>1, <1>3
<1>5. DOMAIN walk = 0 .. steps /\ \A n \in 0 .. steps : walk[n].place = At(n)
  <2>1. walk = [n \in 0 .. steps |->
                  [place |-> At(n),
                   colour |-> IF how.gouraud
                              THEN (first.colour * 4096 + 2048
                                      + n * (IF steps = 0 THEN 0
                                             ELSE Quotient((second.colour - first.colour)
                                                             * 4096, steps))) \div 4096
                              ELSE first.colour]]
    BY ZenonT(60) DEF Walk
  <2> HIDE DEF walk, At, steps, first, second
  <2> QED
    BY <2>1
<1>6. LinePlaces(from, to)
        = IF steps = 0 THEN {<<from.x, from.y>>} ELSE {Ideal(n) : n \in 0 .. steps}
  <2> DEFINE other == Larger(Magnitude(from.x - to.x), Magnitude(from.y - to.y))
             one == IF to.x < from.x THEN to ELSE from
             two == IF to.x < from.x THEN from ELSE to
             B(f, s, k) ==
               IF k = 0 THEN {<<from.x, from.y>>}
               ELSE {<<f.x + (-((k - 2 * n * (s.x - f.x)) \div (2 * k))),
                       f.y + (IF s.y - f.y > 0
                              THEN (k + 2 * n * (s.y - f.y)) \div (2 * k)
                              ELSE -((k - 2 * n * (s.y - f.y)) \div (2 * k)))>> :
                       n \in 0 .. k}
  <2>1. LinePlaces(from, to) = B(one, two, other)
    BY DEF LinePlaces
  <2>2. one = first /\ two = second /\ other = steps
    BY <1>2, <1>3
  <2>3. LinePlaces(from, to) = B(first, second, steps)
    <3> HIDE DEF one, two, other, first, second, steps, B
    <3> QED
      BY <2>1, <2>2
  <2> HIDE DEF one, two, other, first, second, steps
  <2> QED
    BY <2>3
<1>7. PositionScale \in Nat \ {0} /\ Nudge \in Nat /\ 2 * Nudge <= PositionScale
      /\ h \in Nat /\ S = 2 * h
  <2>1. S \in Nat \ {0} /\ S % 2 = 0 /\ Nudge \in Nat /\ 2 * Nudge <= PositionScale
    BY RasterAssumption
  <2>2. S = (h * 2) + (S % 2) /\ h \in Int
    BY <2>1, Division
  <2> HIDE DEF h
  <2> QED
    BY <2>1, <2>2
<1>8. CASE steps = 0
  <2>1. first.x = from.x /\ first.y = from.y /\ dx = 0 /\ dy = 0 /\ stepX = 0 /\ stepY = 0
    <3>1. first.x = from.x /\ first.y = from.y /\ dx = 0 /\ dy = 0
      BY <1>1, <1>2, <1>3, <1>8
    <3> QED
      BY <1>8, <3>1 DEF PositionStep
  <2>2. At(0) = <<from.x, from.y>>
    <3>1. \A x \in Int, a \in 0 .. S - 1 : ((x * S) + a) \div S = x
      <4> SUFFICES ASSUME NEW x \in Int, NEW a \in 0 .. S - 1
                   PROVE  ((x * S) + a) \div S = x
        OBVIOUS
      <4>1. 0 * S <= a /\ a < (0 * S) + S
        BY <1>7
      <4>2. ((x * S) + a) \div S = x + 0
        BY <1>7, <4>1, InPixel
      <4> QED
        BY <4>2
    <3>2. h - Nudge \in 0 .. S - 1 /\ h \in 0 .. S - 1
      <4> HIDE DEF h
      <4> QED
        BY <1>7
    <3>3. ((from.x * S) + (h - Nudge)) \div S = from.x
      BY <1>1, <3>1, <3>2
    <3>4. ((from.y * S) + h) \div S = from.y
      BY <1>1, <3>1, <3>2
    <3>5. startX + 0 * stepX = (from.x * S) + (h - Nudge)
          /\ startY + 0 * stepY = (from.y * S) + h
      <4> HIDE DEF h, stepX, stepY, first
      <4> QED
        BY <1>1, <1>7, <2>1
    <3> QED
      BY <3>3, <3>4, <3>5
  <2>3. 0 .. steps = {0}
    BY <1>8
  <2> HIDE DEF At, walk, steps
  <2>4. p \in LinePlaces(from, to) <=> \E n \in DOMAIN walk : walk[n].place = p
    BY <1>5, <1>6, <1>8, <2>2, <2>3
  <2> QED
    BY <2>4 DEF walk
<1>9. CASE steps # 0
  <2>1. ASSUME NEW n \in 0 .. steps
        PROVE  At(n) = Ideal(n)
    <3>0. steps \in Nat \ {0} /\ n \in Int
      BY <1>2, <1>9
    <3>1. /\ ((first.x * S) + h - Nudge + (n * stepX)) \div S = first.x + Least(dx, n)
          /\ ((first.y * S) + h - Nudge + (n * stepY)) \div S = first.y + Least(dy, n)
          /\ dy > 0 => ((first.y * S) + h + (n * stepY)) \div S = first.y + Most(dy, n)
          /\ dy = 0 => ((first.y * S) + h + (n * stepY)) \div S = first.y + Least(dy, n)
      <4>1. ASSUME NEW d \in Int, NEW x \in Int
            PROVE  LET q == PositionStep(d, steps)
                   IN /\ ((x * S) + h - Nudge + (n * q)) \div S = x + Least(d, n)
                      /\ d > 0 => ((x * S) + h + (n * q)) \div S = x + Most(d, n)
                      /\ d = 0 => ((x * S) + h + (n * q)) \div S = x + Least(d, n)
        <5>1. steps < Width /\ n \in 0 .. steps
          BY <1>2
        <5> HIDE DEF steps
        <5> QED
          BY <3>0, <5>1, AxisPlaces, Zenon
      <4> HIDE DEF first, steps, dx, dy, Least, Most, h, S
      <4> QED
        BY <1>4, <4>1
    <3>2. stepX \in Int /\ stepY \in Int /\ (dy < 0 => stepY < 0) /\ (dy >= 0 => stepY >= 0)
      <4> HIDE DEF first, steps, dx, dy
      <4> QED
        BY <1>4, <3>0, PositionStepIs
    <3>3. (startX + n * stepX) \div S = first.x + Least(dx, n)
      BY <3>1
    <3>4. (startY + n * stepY) \div S
            = first.y + (IF dy > 0 THEN Most(dy, n) ELSE Least(dy, n))
      <4>1. CASE dy < 0
        <5>1. startY = (first.y * S) + h - Nudge
          BY <3>2, <4>1
        <5> HIDE DEF first, steps, dx, dy, h, S, startY, stepY, Least, Most
        <5> QED
          BY <1>4, <3>1, <4>1, <5>1
      <4>2. CASE dy >= 0
        <5>1. startY = (first.y * S) + h
          <6> DEFINE nudge == IF stepY < 0 THEN Nudge ELSE 0
          <6>1. nudge = 0
            <7> HIDE DEF stepY
            <7> QED
              BY <3>2, <4>2
          <6>2. startY = first.y * S + (h - nudge)
            BY Zenon
          <6> HIDE DEF nudge, startY, S, h
          <6> QED
            BY <1>7, <6>1, <6>2
        <5> HIDE DEF first, steps, dx, dy, h, S, startY, stepY, Least, Most
        <5> QED
          BY <1>4, <3>1, <4>2, <5>1
      <4> QED
        BY <1>4, <4>1, <4>2
    <3> QED
      BY <3>3, <3>4
  <2> HIDE DEF At, Ideal, walk, steps
  <2>2. p \in LinePlaces(from, to) <=> \E n \in DOMAIN walk : walk[n].place = p
    BY <1>5, <1>6, <1>9, <2>1
  <2> QED
    BY <2>2 DEF walk
<1> QED
  BY <1>8, <1>9

LEMMA SegmentExact ==
  ASSUME NEW v, NEW from \in Vertex, NEW to \in Vertex, NEW how, ~TooLong(from, to),
         ~how.gouraud, from.colour = to.colour, NEW p \in Place
  PROVE  Segment(v, from, to, how)[p]
           = IF InClip(p) /\ p \in LinePlaces(from, to)
             THEN Put(v[p], p, from.colour, how.translucent, set.dither) ELSE v[p]
<1> DEFINE walk == Walk(from, to, how)
           At == {n \in DOMAIN walk : walk[n].place = p /\ InClip(p)}
           n == CHOOSE n \in At : TRUE
<1>1. Segment(v, from, to, how)[p]
        = IF At = {} THEN v[p]
          ELSE Put(v[p], p, walk[n].colour, how.translucent, set.dither)
  BY Zenon DEF Segment
<1>2. At # {} <=> InClip(p) /\ p \in LinePlaces(from, to)
  <2>1. p \in LinePlaces(from, to) <=> \E m \in DOMAIN walk : walk[m].place = p
    BY WalkPlaces
  <2> HIDE DEF walk
  <2> QED
    BY <2>1
<1>3. \A m \in DOMAIN walk : walk[m].colour = from.colour
  <2> DEFINE backwards == from.x >= to.x /\ to.x # from.x
             first == IF backwards THEN to ELSE from
  <2>1. first.colour = from.colour
    OBVIOUS
  <2>2. \A m \in DOMAIN walk : walk[m].colour = first.colour
    BY DEF Walk
  <2> QED
    BY <2>1, <2>2
<1> HIDE DEF walk
<1>4. At # {} => n \in DOMAIN walk
  OBVIOUS
<1> HIDE DEF At, n
<1> QED
  BY <1>1, <1>2, <1>3, <1>4

-----------------------------------------------------------------------------
(* Shades.  A pixel a triangle covers is its corners' mean under the       *)
(* weights the edges give (Weights), so that what is linear over the       *)
(* triangle is between its corners' values there; a step of a plane is off *)
(* by less than a unit, and the planes of a small triangle by less than    *)
(* half a shade.                                                           *)

LEMMA ShadeSteps ==
  ASSUME NEW d \in Int, NEW st \in Nat \ {0}, NEW n \in 0 .. st
  PROVE  LET q == Quotient(d * 4096, st)
         IN /\ q \in Int
            /\ d >= 0 => 0 <= n * q /\ n * q <= d * 4096
            /\ d <= 0 => d * 4096 <= n * q /\ n * q <= 0
<1> DEFINE a == d * 4096
           q == Quotient(a, st)
           W == q * st
<1>1. PICK r \in Int : /\ q \in Int /\ a = W + r
                       /\ (a >= 0 => r >= 0) /\ (a <= 0 => r <= 0) /\ -st < r /\ r < st
  <2> HIDE DEF q
  <2>1. a \in Int /\ st \in Int /\ st # 0 /\ st > 0
    OBVIOUS
  <2> HIDE DEF a
  <2> QED
    BY <2>1, QuotientIs DEF q
<1> HIDE DEF q
<1>2. W \in Int /\ n * q \in Int
  BY <1>1
<1>3. CASE d >= 0
  <2>1. q >= 0
    <3>1. CASE q <= -1
      <4>1. q * st <= (-1) * st
        BY <1>1, <3>1, TimesLess
      <4> QED
        BY <1>1, <1>3, <4>1
    <3> QED
      BY <1>1, <3>1
  <2>2. 0 <= n * q /\ n * q <= W
    <3>1. 0 * q <= n * q /\ n * q <= st * q /\ st * q = W
      BY <1>1, <2>1, TimesLess
    <3> QED
      BY <3>1, <1>1
  <2>3. d <= 0 => d = 0 /\ a = 0
    BY <1>3
  <2> HIDE DEF W
  <2> QED
    BY <1>1, <1>2, <1>3, <2>2, <2>3 DEF q
<1>4. CASE d < 0
  <2>1. q <= 0
    <3>1. CASE q >= 1
      <4>1. 1 * st <= q * st
        BY <1>1, <3>1, TimesLess
      <4> QED
        BY <1>1, <1>4, <4>1
    <3> QED
      BY <1>1, <3>1
  <2>2. W <= n * q /\ n * q <= 0
    <3>1. 0 * (-q) <= n * (-q) /\ n * (-q) <= st * (-q) /\ -q \in Nat
      BY <1>1, <2>1, TimesLess
    <3>2. n * (-q) = -(n * q) /\ st * (-q) = -W
      BY <1>1
    <3> QED
      BY <3>1, <3>2, <1>2
  <2> HIDE DEF W
  <2> QED
    BY <1>1, <1>2, <1>4, <2>2 DEF q
<1> QED
  BY <1>3, <1>4

LEMMA WalkShades ==
  ASSUME NEW from \in Vertex, NEW to \in Vertex, NEW how, NEW n,
         n \in DOMAIN Walk(from, to, how)
  PROVE  \E low, high \in {from.colour, to.colour} :
           low <= Walk(from, to, how)[n].colour /\ Walk(from, to, how)[n].colour <= high
<1> DEFINE backwards == from.x >= to.x /\ to.x # from.x
           first  == IF backwards THEN to ELSE from
           second == IF backwards THEN from ELSE to
           steps  == Larger(Magnitude(to.x - from.x), Magnitude(to.y - from.y))
           f == first.colour
           d == second.colour - f
           shade == IF steps = 0 THEN 0 ELSE Quotient(d * 4096, steps)
           seen == Walk(from, to, how)[n].colour
<1>1. /\ n \in 0 .. steps
      /\ seen = IF how.gouraud THEN (f * 4096 + 2048 + n * shade) \div 4096 ELSE f
  BY DEF Walk
<1>2. steps \in Nat
  BY DEF Larger, Magnitude, Vertex, Coordinate
<1>3. /\ f \in 0 .. 255 /\ second.colour \in 0 .. 255 /\ d \in Int /\ f + d = second.colour
      /\ {f, second.colour} = {from.colour, to.colour}
  <2>1. from.colour \in 0 .. 255 /\ to.colour \in 0 .. 255
    BY DEF Vertex
  <2>2. \/ f = from.colour /\ second.colour = to.colour
        \/ f = to.colour /\ second.colour = from.colour
    BY Zenon
  <2> DEFINE s == second.colour
  <2> HIDE DEF f, s, second
  <2>3. f \in 0 .. 255 /\ s \in 0 .. 255 /\ d = s - f
    BY <2>1, <2>2 DEF s
  <2>4. d \in Int /\ f + d = s
    <3> HIDE DEF d
    <3> QED
      BY <2>3
  <2>5. {f, s} = {from.colour, to.colour}
    BY <2>2, Zenon DEF s
  <2> QED
    BY <2>3, <2>4, <2>5 DEF s
<1> HIDE DEF f, d, steps
<1>4. /\ n * shade \in Int
      /\ d >= 0 => 0 <= n * shade /\ n * shade <= d * 4096
      /\ d <= 0 => d * 4096 <= n * shade /\ n * shade <= 0
  <2>1. CASE steps = 0
    <3>1. n = 0 /\ shade = 0
      BY <1>1, <2>1
    <3> QED
      BY <1>3, <3>1
  <2>2. CASE steps # 0
    <3>1. shade = Quotient(d * 4096, steps) /\ steps \in Nat \ {0} /\ n \in Int
      BY <1>1, <1>2, <2>2
    <3> HIDE DEF shade
    <3>2. Quotient(d * 4096, steps) \in Int /\ n \in 0 .. steps
          /\ (d >= 0 => 0 <= n * Quotient(d * 4096, steps)
                        /\ n * Quotient(d * 4096, steps) <= d * 4096)
          /\ (d <= 0 => d * 4096 <= n * Quotient(d * 4096, steps)
                        /\ n * Quotient(d * 4096, steps) <= 0)
      BY <1>1, <1>3, <3>1, ShadeSteps
    <3> QED
      BY <3>1, <3>2
  <2> QED
    BY <2>1, <2>2
<1> DEFINE m == n * shade
<1>5. m \in Int /\ (d >= 0 => 0 <= m /\ m <= d * 4096) /\ (d <= 0 => d * 4096 <= m /\ m <= 0)
  BY <1>4
<1> HIDE DEF m, seen
<1>6. seen = IF how.gouraud THEN (f * 4096 + 2048 + m) \div 4096 ELSE f
  BY <1>1 DEF m
<1>7. CASE d >= 0
  <2>1. f <= seen /\ seen <= f + d
    <3>1. (f * 4096 + 2048 + m) \div 4096 \in f .. f + d
      BY <1>3, <1>5, <1>7
    <3> QED
      BY <1>3, <1>6, <1>7, <3>1
  <2> QED
    BY <1>3, <2>1 DEF seen
<1>8. CASE d < 0
  <2>1. f + d <= seen /\ seen <= f
    <3>1. (f * 4096 + 2048 + m) \div 4096 \in f + d .. f
      BY <1>3, <1>5, <1>8
    <3> QED
      BY <1>3, <1>6, <1>8, <3>1
  <2> QED
    BY <1>3, <2>1 DEF seen
<1> QED
  BY <1>3, <1>7, <1>8

\* Three corners with whole coordinates.
Corners3(c) == \A i \in 1 .. 3 : c[i].x \in Int /\ c[i].y \in Int

LEMMA CrossIdentity ==
  ASSUME NEW a \in Int, NEW b \in Int, NEW c \in Int,
         NEW d \in Int, NEW e \in Int, NEW f \in Int
  PROVE  (((b * f) - (c * e)) * a) + (((c * d) - (a * f)) * b) + (((a * e) - (b * d)) * c) = 0
  OBVIOUS

LEMMA EdgeFrom ==
  ASSUME NEW a, NEW b, a.x \in Int, a.y \in Int, b.x \in Int, b.y \in Int,
         NEW x \in Int, NEW y \in Int
  PROVE  Edge(a, b, x, y) = ((a.x - x) * (b.y - y)) - ((b.x - x) * (a.y - y))
         /\ Edge(a, b, x, y) \in Int
<1> DEFINE p == a.x
           q == a.y
           r == b.x
           s == b.y
<1>1. p \in Int /\ q \in Int /\ r \in Int /\ s \in Int
  OBVIOUS
<1>2. Edge(a, b, x, y) = ((r - p) * (y - q)) - ((s - q) * (x - p))
  BY Zenon DEF Edge
<1> HIDE DEF p, q, r, s
<1>3. ((r - p) * (y - q)) - ((s - q) * (x - p)) = ((p - x) * (s - y)) - ((r - x) * (q - y))
      /\ ((p - x) * (s - y)) - ((r - x) * (q - y)) \in Int
  BY <1>1
<1> QED
  BY <1>2, <1>3 DEF p, q, r, s

\* The edges' functions are the weights of the corners opposite.
LEMMA Weights ==
  ASSUME NEW c, Corners3(c), NEW x \in Int, NEW y \in Int, Area(c) # 0,
         Inside(Wound(c), <<x, y>>)
  PROVE  LET D == IF Area(c) < 0 THEN -Area(c) ELSE Area(c)
         IN \E u1, u2, u3 \in Nat :
              /\ u1 + u2 + u3 = D /\ D \in Nat \ {0} /\ Area(c) \in Int
              /\ (u1 * (c[1].x - x)) + (u2 * (c[2].x - x)) + (u3 * (c[3].x - x)) = 0
              /\ (u1 * (c[1].y - y)) + (u2 * (c[2].y - y)) + (u3 * (c[3].y - y)) = 0
<1> DEFINE X1 == c[1].x - x
           X2 == c[2].x - x
           X3 == c[3].x - x
           Y1 == c[1].y - y
           Y2 == c[2].y - y
           Y3 == c[3].y - y
           k1 == (X2 * Y3) - (X3 * Y2)
           k2 == (X3 * Y1) - (X1 * Y3)
           k3 == (X1 * Y2) - (X2 * Y1)
<1>1. X1 \in Int /\ X2 \in Int /\ X3 \in Int /\ Y1 \in Int /\ Y2 \in Int /\ Y3 \in Int
      /\ k1 \in Int /\ k2 \in Int /\ k3 \in Int
  BY DEF Corners3
<1>2. \A i, j \in 1 .. 3 : Edge(c[i], c[j], x, y)
          = ((c[i].x - x) * (c[j].y - y)) - ((c[j].x - x) * (c[i].y - y))
  <2> SUFFICES ASSUME NEW i \in 1 .. 3, NEW j \in 1 .. 3
               PROVE  Edge(c[i], c[j], x, y)
                        = ((c[i].x - x) * (c[j].y - y)) - ((c[j].x - x) * (c[i].y - y))
    OBVIOUS
  <2> DEFINE a == c[i]
             b == c[j]
  <2>1. a.x \in Int /\ a.y \in Int /\ b.x \in Int /\ b.y \in Int
    BY DEF Corners3
  <2> HIDE DEF X1, X2, X3, Y1, Y2, Y3, k1, k2, k3, a, b
  <2>2. Edge(a, b, x, y) = ((a.x - x) * (b.y - y)) - ((b.x - x) * (a.y - y))
    BY <2>1, EdgeFrom
  <2> QED
    BY <2>2 DEF a, b
<1>3. /\ Edge(c[1], c[2], x, y) = k3 /\ Edge(c[2], c[1], x, y) = -k3
      /\ Edge(c[2], c[3], x, y) = k1 /\ Edge(c[3], c[2], x, y) = -k1
      /\ Edge(c[3], c[1], x, y) = k2 /\ Edge(c[1], c[3], x, y) = -k2
  BY <1>1, <1>2
<1>4. Area(c) = k1 + k2 + k3
  BY DEF Area, Edge, Corners3
<1>5. /\ (k1 * X1) + (k2 * X2) + (k3 * X3) = 0
      /\ (k1 * Y1) + (k2 * Y2) + (k3 * Y3) = 0
  BY <1>1
<1> DEFINE w == Wound(c)
<1>6. /\ Edge(w[1], w[2], x, y) >= 0 /\ Edge(w[2], w[3], x, y) >= 0
      /\ Edge(w[3], w[1], x, y) >= 0
  <2>1. \A i \in 1 .. 3 : Edge(w[i], w[(i % 3) + 1], x, y)
                            >= (IF TopOrLeft(w[i], w[(i % 3) + 1]) THEN 0 ELSE 1)
    BY DEF Inside
  <2>2. /\ Edge(w[1], w[2], x, y) >= (IF TopOrLeft(w[1], w[2]) THEN 0 ELSE 1)
        /\ Edge(w[2], w[3], x, y) >= (IF TopOrLeft(w[2], w[3]) THEN 0 ELSE 1)
        /\ Edge(w[3], w[1], x, y) >= (IF TopOrLeft(w[3], w[1]) THEN 0 ELSE 1)
    <3>1. (1 % 3) + 1 = 2 /\ (2 % 3) + 1 = 3 /\ (3 % 3) + 1 = 1
          /\ 1 \in 1 .. 3 /\ 2 \in 1 .. 3 /\ 3 \in 1 .. 3
      OBVIOUS
    <3> HIDE DEF w
    <3> QED
      BY <2>1, <3>1
  <2>3. /\ Edge(w[1], w[2], x, y) \in Int /\ Edge(w[2], w[3], x, y) \in Int
        /\ Edge(w[3], w[1], x, y) \in Int
    <3>1. \A i \in 1 .. 3 : w[i].x \in Int /\ w[i].y \in Int
      BY DEF Wound, Corners3
    <3> HIDE DEF w
    <3> QED
      BY <3>1 DEF Edge
  <2> HIDE DEF w
  <2> QED
    BY <2>2, <2>3
<1>7. CASE Area(c) > 0
  <2>1. w = c
    BY <1>4, <1>1, <1>7 DEF Wound
  <2>2. k1 >= 0 /\ k2 >= 0 /\ k3 >= 0
    <3> HIDE DEF k1, k2, k3, w
    <3> QED
      BY <1>3, <1>6, <2>1
  <2> HIDE DEF k1, k2, k3, X1, X2, X3, Y1, Y2, Y3
  <2>3. k1 \in Nat /\ k2 \in Nat /\ k3 \in Nat /\ k1 + k2 + k3 = Area(c)
        /\ ~(Area(c) < 0) /\ Area(c) \in Nat \ {0}
    BY <1>1, <1>4, <1>7, <2>2
  <2>4. /\ (k1 * X1) + (k2 * X2) + (k3 * X3) = 0
        /\ (k1 * Y1) + (k2 * Y2) + (k3 * Y3) = 0
    BY <1>5
  <2> QED
    BY <2>3, <2>4 DEF X1, X2, X3, Y1, Y2, Y3
<1>8. CASE Area(c) < 0
  <2>1. w[1] = c[1] /\ w[2] = c[3] /\ w[3] = c[2]
    BY <1>8 DEF Wound
  <2>2. -k1 >= 0 /\ -k2 >= 0 /\ -k3 >= 0
    <3> HIDE DEF k1, k2, k3, w
    <3> QED
      BY <1>3, <1>6, <2>1
  <2>5. /\ ((-k1) * X1) + ((-k2) * X2) + ((-k3) * X3) = -((k1 * X1) + (k2 * X2) + (k3 * X3))
        /\ ((-k1) * Y1) + ((-k2) * Y2) + ((-k3) * Y3) = -((k1 * Y1) + (k2 * Y2) + (k3 * Y3))
    <3> HIDE DEF k1, k2, k3, X1, X2, X3, Y1, Y2, Y3
    <3> QED
      BY <1>1
  <2> HIDE DEF k1, k2, k3, X1, X2, X3, Y1, Y2, Y3
  <2>3. -k1 \in Nat /\ -k2 \in Nat /\ -k3 \in Nat /\ (-k1) + (-k2) + (-k3) = -Area(c)
        /\ Area(c) \in Int /\ -Area(c) \in Nat \ {0}
    BY <1>1, <1>4, <1>8, <2>2
  <2>4. /\ ((-k1) * X1) + ((-k2) * X2) + ((-k3) * X3) = 0
        /\ ((-k1) * Y1) + ((-k2) * Y2) + ((-k3) * Y3) = 0
    BY <1>5, <2>5
  <2> QED
    BY <1>8, <2>3, <2>4 DEF X1, X2, X3, Y1, Y2, Y3
<1> QED
  <2>1. Area(c) \in Int
    <3> HIDE DEF k1, k2, k3
    <3> QED
      BY <1>1, <1>4
  <2> QED
    BY <1>7, <1>8, <2>1

\* The numerators of the plane's two steps.
Across(c, val) ==
  ((val[2] - val[1]) * (c[3].y - c[2].y)) - ((val[3] - val[2]) * (c[2].y - c[1].y))
Down(c, val) ==
  ((c[2].x - c[1].x) * (val[3] - val[2])) - ((c[3].x - c[2].x) * (val[2] - val[1]))

Numbers3(val) == \A i \in 1 .. 3 : val[i] \in Int

LEMMA SlopeIdentity ==
  ASSUME NEW e \in Int, NEW f \in Int, NEW g \in Int, NEW k \in Int, NEW s \in Int,
         NEW t \in Int
  PROVE  LET det == (e * k) - (f * g)
             ac == (s * k) - (t * g)
             dn == (e * t) - (f * s)
         IN det * s = (ac * e) + (dn * g) /\ det * t = (ac * f) + (dn * k)
  OBVIOUS

LEMMA SlopeBack ==
  ASSUME NEW D \in Int, NEW p \in Int, NEW q \in Int, NEW v \in Int, NEW w \in Int,
         NEW x \in Int, NEW z \in Int, NEW y \in Int, NEW u \in Int,
         D * (v - w) = (p * (x - z)) + (q * (y - u))
  PROVE  D * (w - v) = (p * (z - x)) + (q * (u - y))
<1>1. D * (w - v) = -(D * (v - w)) /\ p * (z - x) = -(p * (x - z))
      /\ q * (u - y) = -(q * (y - u))
  OBVIOUS
<1>2. D * (v - w) \in Int /\ p * (x - z) \in Int /\ q * (y - u) \in Int
  OBVIOUS
<1> QED
  BY <1>1, <1>2

\* From one corner to another the plane rises as it should.
LEMMA Slopes ==
  ASSUME NEW c, Corners3(c), NEW val, Numbers3(val)
  PROVE  /\ Across(c, val) \in Int /\ Down(c, val) \in Int /\ Area(c) \in Int
         /\ Area(c) = ((c[2].x - c[1].x) * (c[3].y - c[2].y))
                      - ((c[3].x - c[2].x) * (c[2].y - c[1].y))
         /\ \A i, a \in 1 .. 3 :
              Area(c) * (val[i] - val[a])
                = (Across(c, val) * (c[i].x - c[a].x)) + (Down(c, val) * (c[i].y - c[a].y))
<1> DEFINE e == c[2].x - c[1].x
           f == c[3].x - c[2].x
           g == c[2].y - c[1].y
           k == c[3].y - c[2].y
           s == val[2] - val[1]
           t == val[3] - val[2]
           det == (e * k) - (f * g)
           ac == (s * k) - (t * g)
           dn == (e * t) - (f * s)
<1>1. e \in Int /\ f \in Int /\ g \in Int /\ k \in Int /\ s \in Int /\ t \in Int
  BY DEF Corners3, Numbers3
<1>2. Across(c, val) = ac /\ Down(c, val) = dn
  BY Zenon DEF Across, Down
<1>3. Area(c) = det
  <2>1. /\ c[1].x \in Int /\ c[2].x \in Int /\ c[3].x \in Int
        /\ c[1].y \in Int /\ c[2].y \in Int /\ c[3].y \in Int
    BY DEF Corners3
  <2>2. Area(c) = ((c[2].x - c[1].x) * (c[3].y - c[1].y))
                  - ((c[2].y - c[1].y) * (c[3].x - c[1].x))
    BY Zenon DEF Area, Edge
  <2>3. c[3].y - c[1].y = k + g /\ c[3].x - c[1].x = f + e
    BY <2>1
  <2>4. Area(c) = (e * (k + g)) - (g * (f + e))
    BY <2>2, <2>3, Zenon
  <2> HIDE DEF e, f, g, k
  <2>5. (e * (k + g)) - (g * (f + e)) = (e * k) - (f * g)
    BY <1>1
  <2> QED
    BY <2>4, <2>5
<1>4. /\ det \in Int /\ ac \in Int /\ dn \in Int
      /\ det * s = (ac * e) + (dn * g) /\ det * t = (ac * f) + (dn * k)
  <2> HIDE DEF e, f, g, k, s, t
  <2> QED
    BY <1>1, SlopeIdentity
<1>5. ASSUME NEW i \in 1 .. 3, NEW a \in 1 .. 3
      PROVE  det * (val[i] - val[a]) = (ac * (c[i].x - c[a].x)) + (dn * (c[i].y - c[a].y))
  <2> DEFINE X(m) == c[m].x
             Y(m) == c[m].y
             V(m) == val[m]
             P(m, n) == det * (V(m) - V(n)) = (ac * (X(m) - X(n))) + (dn * (Y(m) - Y(n)))
  <2>1. P(2, 1) /\ P(3, 2)
    BY <1>4
  <2>2. \A m \in 1 .. 3 : X(m) \in Int /\ Y(m) \in Int /\ V(m) \in Int
    BY DEF Corners3, Numbers3
  <2> HIDE DEF X, Y, V, det, ac, dn
  <2>3. /\ X(1) \in Int /\ Y(1) \in Int /\ V(1) \in Int
        /\ X(2) \in Int /\ Y(2) \in Int /\ V(2) \in Int
        /\ X(3) \in Int /\ Y(3) \in Int /\ V(3) \in Int
    BY <2>2
  <2>4. P(1, 1) /\ P(2, 2) /\ P(3, 3)
    BY <2>3, <1>4
  <2>0. det \in Int /\ ac \in Int /\ dn \in Int
    BY <1>4
  <2>5. P(3, 1)
    BY <2>1, <2>3, <1>4
  <2>6. ASSUME NEW m \in 1 .. 3, NEW n \in 1 .. 3, P(m, n)
        PROVE  P(n, m)
    <3>1. X(m) \in Int /\ Y(m) \in Int /\ V(m) \in Int
          /\ X(n) \in Int /\ Y(n) \in Int /\ V(n) \in Int
      BY <2>2
    <3> QED
      BY ONLY <2>0, <2>6, <3>1, SlopeBack
  <2> HIDE DEF P
  <2>7. P(1, 2) /\ P(2, 3) /\ P(1, 3)
    BY <2>1, <2>5, <2>6
  <2>8. P(i, a)
    BY <2>1, <2>4, <2>5, <2>7
  <2> QED
    BY <2>8 DEF P, X, Y, V
<1> QED
  <2>1. Area(c) = ((c[2].x - c[1].x) * (c[3].y - c[2].y))
                      - ((c[3].x - c[2].x) * (c[2].y - c[1].y))
    BY <1>3, Zenon
  <2> HIDE DEF det, ac, dn
  <2> QED
    BY <1>2, <1>3, <1>4, <1>5, <2>1

\* A triangle's plane, and its two steps.
PlaneParts(c, val, x, y, a, qx, qy) ==
  /\ a \in 1 .. 3
  /\ qx = Quotient(Across(c, val) * PlaneScale, Area(c))
  /\ qy = Quotient(Down(c, val) * PlaneScale, Area(c))
  /\ PlaneAt(c, val, x, y)
       = ((((val[a] * PlaneScale) + (PlaneScale \div 2) + (qx * (x - c[a].x))
             + (qy * (y - c[a].y))) * PlaneScale) % WordSize) \div (PlaneScale * PlaneScale)

LEMMA PlaneIs ==
  ASSUME NEW c, Corners3(c), NEW val, Numbers3(val), NEW x \in Int, NEW y \in Int,
         Area(c) # 0
  PROVE  \E a \in 1 .. 3, qx, qy \in Int : PlaneParts(c, val, x, y, a, qx, qy)
<1> DEFINE S == PlaneScale
           a == Anchor(c)
           ac == Across(c, val)
           dn == Down(c, val)
           D == Area(c)
           qx == Quotient(ac * S, D)
           qy == Quotient(dn * S, D)
           h == S \div 2
<1>1. S \in Nat \ {0} /\ h \in Int
  BY RasterAssumption
<1>2. a \in 1 .. 3
  BY DEF Anchor
<1>3. ac \in Int /\ dn \in Int /\ D \in Int /\ D # 0
      /\ D = ((c[2].x - c[1].x) * (c[3].y - c[2].y))
             - ((c[3].x - c[2].x) * (c[2].y - c[1].y))
  BY Slopes
<1>4. qx \in Int /\ qy \in Int
  <2>1. ac * S \in Int /\ dn * S \in Int
    BY <1>1, <1>3
  <2> DEFINE m == ac * S
             n == dn * S
  <2> HIDE DEF m, n, D
  <2> QED
    BY <2>1, <1>3, QuotientIs DEF m, n
<1>5. PlaneAt(c, val, x, y)
        = ((((val[a] * S) + h) * S + (S * qx) * (x - c[a].x) + (S * qy) * (y - c[a].y))
             % WordSize) \div (S * S)
  <2> DEFINE det == ((c[2].x - c[1].x) * (c[3].y - c[2].y))
                    - ((c[3].x - c[2].x) * (c[2].y - c[1].y))
  <2>1. PlaneAt(c, val, x, y)
          = ((((val[a] * S) + h) * S + (S * Quotient(ac * S, det)) * (x - c[a].x)
               + (S * Quotient(dn * S, det)) * (y - c[a].y)) % WordSize) \div (S * S)
    BY Zenon DEF PlaneAt, PlaneStep, Anchored, Across, Down
  <2>2. det = D
    BY <1>3
  <2> HIDE DEF det, D, ac, dn
  <2> QED
    BY <2>1, <2>2, Zenon
<1>6. val[a] \in Int /\ x - c[a].x \in Int /\ y - c[a].y \in Int
  <2> HIDE DEF a
  <2> QED
    BY <1>2 DEF Corners3, Numbers3
<1> DEFINE v == val[a]
           dx == x - c[a].x
           dy == y - c[a].y
<1>7. (((v * S) + h) * S) + ((S * qx) * dx) + ((S * qy) * dy)
        = ((v * S) + h + (qx * dx) + (qy * dy)) * S
  <2> HIDE DEF v, dx, dy, qx, qy, h, S
  <2>1. v \in Int /\ dx \in Int /\ dy \in Int
    BY <1>6 DEF v, dx, dy
  <2> DEFINE m == qx * dx
             n == qy * dy
             o == v * S
  <2>2. (S * qx) * dx = m * S /\ (S * qy) * dy = n * S /\ m \in Int /\ n \in Int /\ o \in Int
    BY <1>1, <1>4, <2>1
  <2> HIDE DEF m, n, o
  <2>3. ((o + h) * S) + (m * S) + (n * S) = (o + h + m + n) * S
    BY <1>1, <2>2
  <2> QED
    BY <2>2, <2>3 DEF m, n, o
<1>8. PlaneParts(c, val, x, y, a, qx, qy)
  <2>1. PlaneAt(c, val, x, y)
          = ((((v * S) + h + (qx * dx) + (qy * dy)) * S) % WordSize) \div (S * S)
    BY <1>5, <1>7, Zenon
  <2> HIDE DEF a
  <2> QED
    BY <1>2, <2>1, Zenon DEF PlaneParts
<1> HIDE DEF qx, qy, a
<1> QED
  BY <1>2, <1>4, <1>8

\* The part of a word that a shade is.
LEMMA WordPart ==
  ASSUME NEW A \in Int, NEW m \in 0 .. 255, NEW k \in Int,
         ((256 * k) + m) * PlaneScale <= A, A < ((256 * k) + m + 1) * PlaneScale
  PROVE  ((A * PlaneScale) % WordSize) \div (PlaneScale * PlaneScale) = m
<1> DEFINE S == PlaneScale
           Q == S * S
           W == 256 * Q
           B == A - ((256 * k) * S)
           R == B * S
<1>1. S \in Nat \ {0}
  BY RasterAssumption
<1>2. WordSize = W
  <2>1. WordSize = 256 * S * S
    BY Zenon DEF WordSize
  <2> HIDE DEF S
  <2> QED
    BY <1>1, <2>1
<1> HIDE DEF S
<1>3. Q \in Nat \ {0} /\ W \in Nat \ {0} /\ B \in Int /\ R \in Int
  <2>1. S * S >= S * 1
    BY <1>1, TimesLess
  <2> QED
    BY <1>1, <2>1
<1>4. m * S <= B /\ B <= ((m + 1) * S) - 1
  BY <1>1 DEF S
<1>5. m * Q <= R /\ R < (m * Q) + Q
  <2>1. (m * S) * S <= B * S /\ B * S <= (((m + 1) * S) - 1) * S
    <3>1. m * S \in Int /\ ((m + 1) * S) - 1 \in Int /\ S \in Nat
      BY <1>1
    <3> HIDE DEF B
    <3> QED
      BY <1>3, <1>4, <3>1, TimesLess
  <2>2. (m * S) * S = m * Q /\ (((m + 1) * S) - 1) * S = (m * Q) + Q - S
    BY <1>1
  <2> HIDE DEF B, Q
  <2> QED
    BY <1>1, <1>3, <2>1, <2>2
<1>6. 0 <= R /\ R < W
  <2>1. 0 <= m * Q /\ (m + 1) * Q <= 256 * Q /\ (m + 1) * Q = (m * Q) + Q /\ m * Q \in Int
    <3>1. 0 * Q <= m * Q /\ (m + 1) * Q <= 256 * Q
      BY <1>3, TimesLess
    <3> QED
      BY <1>3, <3>1
  <2> HIDE DEF R, Q
  <2> QED
    BY <1>3, <1>5, <2>1
<1>7. A * S = R + (k * W)
  BY <1>1
<1> HIDE DEF Q, W, B, R
<1>8. (A * S) % W = R
  <2> DEFINE Z == A * S
  <2>1. Z \in Int /\ Z = (k * W) + R /\ k * W \in Int
    BY <1>1, <1>3, <1>7
  <2> HIDE DEF Z
  <2>2. k * W <= Z /\ Z < (k * W) + W
    BY <1>3, <1>6, <2>1
  <2>3. Z % W = Z - (k * W)
    BY <1>3, <2>1, <2>2, Quotients
  <2> QED
    BY <1>3, <2>1, <2>3 DEF Z
<1>9. R \div Q = m
  <2>1. m \in Int
    OBVIOUS
  <2> QED
    BY ONLY <1>3, <1>5, <2>1, Quotients
<1> QED
  BY <1>2, <1>8, <1>9, Zenon DEF S, Q

\* A mean is between the least and the most.
LEMMA Mean ==
  ASSUME NEW u1 \in Nat, NEW u2 \in Nat, NEW u3 \in Nat,
         NEW z1 \in Int, NEW z2 \in Int, NEW z3 \in Int, NEW l \in Int, NEW h \in Int,
         l <= z1, z1 <= h, l <= z2, z2 <= h, l <= z3, z3 <= h
  PROVE  LET m == (u1 * z1) + (u2 * z2) + (u3 * z3)
         IN (u1 + u2 + u3) * l <= m /\ m <= (u1 + u2 + u3) * h
<1>1. /\ u1 * l <= u1 * z1 /\ u1 * z1 <= u1 * h
      /\ u2 * l <= u2 * z2 /\ u2 * z2 <= u2 * h
      /\ u3 * l <= u3 * z3 /\ u3 * z3 <= u3 * h
  BY TimesLess
<1>2. /\ (u1 + u2 + u3) * l = (u1 * l) + (u2 * l) + (u3 * l)
      /\ (u1 + u2 + u3) * h = (u1 * h) + (u2 * h) + (u3 * h)
  OBVIOUS
<1>3. /\ u1 * l \in Int /\ u2 * l \in Int /\ u3 * l \in Int
      /\ u1 * h \in Int /\ u2 * h \in Int /\ u3 * h \in Int
      /\ u1 * z1 \in Int /\ u2 * z2 \in Int /\ u3 * z3 \in Int
  OBVIOUS
<1> QED
  BY <1>1, <1>2, <1>3

\* So weighed, differences to d that even out make d the mean.
LEMMA MeanOf ==
  ASSUME NEW u1 \in Nat, NEW u2 \in Nat, NEW u3 \in Nat,
         NEW p \in Int, NEW q \in Int, NEW r \in Int, NEW d \in Int,
         (u1 * (p - d)) + (u2 * (q - d)) + (u3 * (r - d)) = 0
  PROVE  (u1 + u2 + u3) * d = (u1 * p) + (u2 * q) + (u3 * r)
<1>1. (u1 * (p - d)) + (u2 * (q - d)) + (u3 * (r - d))
        = ((u1 * p) + (u2 * q) + (u3 * r)) - ((u1 + u2 + u3) * d)
  OBVIOUS
<1>2. (u1 * p) + (u2 * q) + (u3 * r) \in Int /\ (u1 + u2 + u3) * d \in Int
  OBVIOUS
<1> QED
  BY <1>1, <1>2

LEMMA DriftBound ==
  ASSUME NEW D \in Nat \ {0}, NEW S \in Nat \ {0}, NEW h \in Nat, S = 2 * h,
         NEW v \in Int, NEW K \in Int, NEW W \in Int, NEW R \in Int,
         NEW lo \in Int, NEW hi \in Int, D * K = (S * W) + R,
         2 * R <= D * (S - 1), -(2 * R) <= D * (S - 1),
         D * (lo - v) <= W, W <= D * (hi - v)
  PROVE  lo * S <= (v * S) + h + K /\ (v * S) + h + K < (hi + 1) * S
<1> DEFINE A == (v * S) + h + K
           P == D * (v * S)
           L == D * (lo * S)
           H == D * (hi * S)
           Z == S * W
           G == D * h
<1>1. A \in Int /\ P \in Int /\ L \in Int /\ H \in Int /\ Z \in Int /\ G \in Int
  OBVIOUS
<1>2. D * A = P + G + Z + R
  <2>1. D * A = P + G + (D * K)
    OBVIOUS
  <2> HIDE DEF A, P, Z, G
  <2> QED
    BY <1>1, <2>1 DEF Z
<1>3. L - P <= Z /\ Z <= H - P
  <2>1. S * (D * (lo - v)) <= S * W /\ S * W <= S * (D * (hi - v))
    BY TimesLess
  <2>2. S * (D * (lo - v)) = L - P /\ S * (D * (hi - v)) = H - P
    OBVIOUS
  <2> QED
    BY <2>1, <2>2
<1>4. D * (S - 1) = 2 * G - D
  OBVIOUS
<1>5. D * (lo * S) = L /\ D * ((hi + 1) * S) = H + 2 * G
  OBVIOUS
<1> HIDE DEF A, P, L, H, Z, G
<1>6. D * (lo * S) <= D * A /\ D * A < D * ((hi + 1) * S)
  BY <1>1, <1>2, <1>3, <1>4, <1>5
<1> QED
  <2>1. lo * S \in Int /\ (hi + 1) * S \in Int
    OBVIOUS
  <2> DEFINE m == lo * S
             n == (hi + 1) * S
  <2>2. D * m <= D * A /\ D * A < D * n /\ m \in Int /\ n \in Int
    BY <1>6, <2>1
  <2> HIDE DEF m, n
  <2>3. m <= A /\ A < n
    BY <1>1, <2>2, Below
  <2> QED
    BY <2>3 DEF A, m, n

\* What truncation costs, over so many pixels.
LEMMA Drift ==
  ASSUME NEW D \in Nat \ {0}, NEW r \in Int, NEW s \in Int, -D < r, r < D, -D < s, s < D,
         NEW dx \in Int, NEW dy \in Int, NEW b \in Int,
         2 * (dx + dy) <= b, 2 * (dx - dy) <= b, 2 * (dy - dx) <= b, 2 * (-dx - dy) <= b
  PROVE  LET R == (r * dx) + (s * dy)
         IN 2 * R <= D * b /\ -(2 * R) <= D * b
<1> DEFINE X == IF dx < 0 THEN -dx ELSE dx
           Y == IF dy < 0 THEN -dy ELSE dy
<1>1. X \in Nat /\ Y \in Nat /\ 2 * (X + Y) <= b
  OBVIOUS
<1>2. /\ r * dx <= D * X /\ -(r * dx) <= D * X
      /\ s * dy <= D * Y /\ -(s * dy) <= D * Y
  <2>1. ASSUME NEW p \in Int, -D < p, p < D, NEW z \in Int,
               NEW Z \in Nat, Z = IF z < 0 THEN -z ELSE z
        PROVE  p * z <= D * Z /\ -(p * z) <= D * Z
    <3>1. p * Z <= D * Z /\ (-p) * Z <= D * Z /\ (-p) * Z = -(p * Z)
      BY <2>1, TimesLess
    <3>2. p * z = p * Z \/ p * z = -(p * Z)
      BY <2>1
    <3>3. p * Z \in Int
      BY <2>1
    <3> QED
      BY <3>1, <3>2, <3>3
  <2> QED
    BY <1>1, <2>1
<1>3. D * (2 * (X + Y)) <= D * b
  BY <1>1, TimesLess
<1>4. D * (2 * (X + Y)) = 2 * (D * X) + 2 * (D * Y)
  BY <1>1
<1>5. r * dx \in Int /\ s * dy \in Int /\ D * X \in Int /\ D * Y \in Int /\ D * b \in Int
  BY <1>1
<1> HIDE DEF X, Y
<1> QED
  BY <1>2, <1>3, <1>4, <1>5

LEMMA PlaneBetween ==
  ASSUME NEW c, Corners3(c), NEW val, NEW lo \in 0 .. 255, NEW hi \in 0 .. 255,
         \A i \in 1 .. 3 : val[i] \in lo .. hi,
         \A i, j \in 1 .. 3 : 2 * (Magnitude(c[i].x - c[j].x) + Magnitude(c[i].y - c[j].y))
                                < PlaneScale,
         NEW x \in Int, NEW y \in Int, Area(c) # 0, Inside(Wound(c), <<x, y>>)
  PROVE  PlaneAt(c, val, x, y) \in lo .. hi
<1> DEFINE S == PlaneScale
           h == S \div 2
           N == Area(c)
           ac == Across(c, val)
           dn == Down(c, val)
           D == IF N < 0 THEN -N ELSE N
<1>1. S \in Nat \ {0} /\ h \in Nat /\ S = 2 * h
  <2>1. S \in Nat \ {0} /\ S % 2 = 0
    BY RasterAssumption
  <2>2. S = (h * 2) + (S % 2) /\ h \in Int
    <3> HIDE DEF S, N, ac, dn, D
    <3> QED
      BY ONLY <2>1, Division
  <2> HIDE DEF h
  <2> QED
    BY <2>1, <2>2
<1>2. Numbers3(val)
  BY DEF Numbers3
<1>3. PICK a \in 1 .. 3, qx \in Int, qy \in Int : PlaneParts(c, val, x, y, a, qx, qy)
  BY <1>2, PlaneIs
<1>4. /\ ac \in Int /\ dn \in Int /\ N \in Int
      /\ \A i \in 1 .. 3 : N * (val[i] - val[a])
                             = (ac * (c[i].x - c[a].x)) + (dn * (c[i].y - c[a].y))
  BY <1>2, Slopes
<1>5. PICK u1 \in Nat, u2 \in Nat, u3 \in Nat :
        /\ u1 + u2 + u3 = D /\ D \in Nat \ {0}
        /\ (u1 * (c[1].x - x)) + (u2 * (c[2].x - x)) + (u3 * (c[3].x - x)) = 0
        /\ (u1 * (c[1].y - y)) + (u2 * (c[2].y - y)) + (u3 * (c[3].y - y)) = 0
  BY Weights
<1> DEFINE v == val[a]
           dx == x - c[a].x
           dy == y - c[a].y
           Z(i) == c[i].x - c[a].x
           T(i) == c[i].y - c[a].y
           V(i) == val[i] - val[a]
           M == (ac * dx) + (dn * dy)
           W == (u1 * V(1)) + (u2 * V(2)) + (u3 * V(3))
           K == (qx * dx) + (qy * dy)
<1>6. /\ dx \in Int /\ dy \in Int /\ v \in lo .. hi
      /\ \A i \in 1 .. 3 : Z(i) \in Int /\ T(i) \in Int /\ V(i) \in Int
                           /\ lo - v <= V(i) /\ V(i) <= hi - v
                           /\ c[i].x - x = Z(i) - dx /\ c[i].y - y = T(i) - dy
  <2>1. c[a].x \in Int /\ c[a].y \in Int /\ v \in lo .. hi
    BY DEF Corners3
  <2>2. ASSUME NEW i \in 1 .. 3
        PROVE  Z(i) \in Int /\ T(i) \in Int /\ V(i) \in Int
               /\ lo - v <= V(i) /\ V(i) <= hi - v
               /\ c[i].x - x = Z(i) - dx /\ c[i].y - y = T(i) - dy
    <3>1. c[i].x \in Int /\ c[i].y \in Int /\ val[i] \in lo .. hi
      BY DEF Corners3
    <3> HIDE DEF v
    <3>2. V(i) \in Int /\ lo - v <= V(i) /\ V(i) <= hi - v
      BY <2>1, <3>1 DEF v
    <3> QED
      BY <2>1, <3>1, <3>2
  <2>3. dx \in Int /\ dy \in Int
    BY <2>1
  <2> HIDE DEF Z, T, V, dx, dy, v
  <2> QED
    BY <2>1, <2>2, <2>3
<1>7. /\ Z(1) \in Int /\ Z(2) \in Int /\ Z(3) \in Int
      /\ T(1) \in Int /\ T(2) \in Int /\ T(3) \in Int
      /\ V(1) \in Int /\ V(2) \in Int /\ V(3) \in Int
  BY <1>6
<1>8. /\ D * dx = (u1 * Z(1)) + (u2 * Z(2)) + (u3 * Z(3))
      /\ D * dy = (u1 * T(1)) + (u2 * T(2)) + (u3 * T(3))
  <2>2. /\ c[1].x - x = Z(1) - dx /\ c[2].x - x = Z(2) - dx /\ c[3].x - x = Z(3) - dx
        /\ c[1].y - y = T(1) - dy /\ c[2].y - y = T(2) - dy /\ c[3].y - y = T(3) - dy
    BY <1>6
  <2>3. /\ (u1 * (Z(1) - dx)) + (u2 * (Z(2) - dx)) + (u3 * (Z(3) - dx)) = 0
        /\ (u1 * (T(1) - dy)) + (u2 * (T(2) - dy)) + (u3 * (T(3) - dy)) = 0
    BY <1>5, <2>2, Zenon
  <2> HIDE DEF Z, T, dx, dy, D
  <2>4. dx \in Int /\ dy \in Int
    BY <1>6
  <2>5. (u1 + u2 + u3) * dx = (u1 * Z(1)) + (u2 * Z(2)) + (u3 * Z(3))
    <3> DEFINE p == Z(1)
               q == Z(2)
               r == Z(3)
    <3>1. p \in Int /\ q \in Int /\ r \in Int
          /\ (u1 * (p - dx)) + (u2 * (q - dx)) + (u3 * (r - dx)) = 0
      BY <1>7, <2>3, Zenon
    <3> HIDE DEF p, q, r
    <3>2. (u1 + u2 + u3) * dx = (u1 * p) + (u2 * q) + (u3 * r)
      BY <2>4, <3>1, MeanOf
    <3> QED
      BY <3>2, Zenon DEF p, q, r
  <2>6. (u1 + u2 + u3) * dy = (u1 * T(1)) + (u2 * T(2)) + (u3 * T(3))
    <3> DEFINE p == T(1)
               q == T(2)
               r == T(3)
    <3>1. p \in Int /\ q \in Int /\ r \in Int
          /\ (u1 * (p - dy)) + (u2 * (q - dy)) + (u3 * (r - dy)) = 0
      BY <1>7, <2>3, Zenon
    <3> HIDE DEF p, q, r
    <3>2. (u1 + u2 + u3) * dy = (u1 * p) + (u2 * q) + (u3 * r)
      BY <2>4, <3>1, MeanOf
    <3> QED
      BY <3>2, Zenon DEF p, q, r
  <2> QED
    BY <1>5, <2>5, <2>6, Zenon
<1>9. /\ 2 * (dx + dy) <= S - 1 /\ 2 * (dx - dy) <= S - 1
      /\ 2 * (dy - dx) <= S - 1 /\ 2 * (-dx - dy) <= S - 1
  <2>1. \A i \in 1 .. 3 : /\ 2 * (Z(i) + T(i)) <= S - 1 /\ 2 * (Z(i) - T(i)) <= S - 1
                          /\ 2 * (T(i) - Z(i)) <= S - 1 /\ 2 * (-Z(i) - T(i)) <= S - 1
    <3> SUFFICES ASSUME NEW i \in 1 .. 3
                 PROVE  /\ 2 * (Z(i) + T(i)) <= S - 1 /\ 2 * (Z(i) - T(i)) <= S - 1
                        /\ 2 * (T(i) - Z(i)) <= S - 1 /\ 2 * (-Z(i) - T(i)) <= S - 1
      OBVIOUS
    <3>1. 2 * (Magnitude(Z(i)) + Magnitude(T(i))) < S
      BY <1>3
    <3>2. Z(i) \in Int /\ T(i) \in Int
      BY <1>6
    <3> HIDE DEF Z, T
    <3> QED
      BY <1>1, <3>1, <3>2 DEF Magnitude
  <2>2. ASSUME NEW f \in -1 .. 1, NEW g \in -1 .. 1,
               \A i \in 1 .. 3 : 2 * ((f * Z(i)) + (g * T(i))) <= S - 1
        PROVE  2 * ((f * dx) + (g * dy)) <= S - 1
    <3> DEFINE B(i) == 2 * ((f * Z(i)) + (g * T(i)))
               m == (u1 * B(1)) + (u2 * B(2)) + (u3 * B(3))
               low == -(IF B(1) < 0 THEN -B(1) ELSE B(1)) - (IF B(2) < 0 THEN -B(2) ELSE B(2))
                      - (IF B(3) < 0 THEN -B(3) ELSE B(3))
    <3>1. B(1) \in Int /\ B(2) \in Int /\ B(3) \in Int /\ S - 1 \in Int
          /\ B(1) <= S - 1 /\ B(2) <= S - 1 /\ B(3) <= S - 1
      <4>1. S - 1 \in Int
        BY <1>1
      <4>2. 1 \in 1 .. 3 /\ 2 \in 1 .. 3 /\ 3 \in 1 .. 3
        OBVIOUS
      <4>3. B(1) <= S - 1 /\ B(2) <= S - 1 /\ B(3) <= S - 1
        BY <2>2, <4>2, Zenon
      <4>4. B(1) \in Int /\ B(2) \in Int /\ B(3) \in Int
        <5> HIDE DEF Z, T
        <5> QED
          BY <1>7
      <4> QED
        BY <4>1, <4>3, <4>4, Zenon
    <3>2. m = D * (2 * ((f * dx) + (g * dy)))
      <4>1. m = 2 * ((f * ((u1 * Z(1)) + (u2 * Z(2)) + (u3 * Z(3))))
                     + (g * ((u1 * T(1)) + (u2 * T(2)) + (u3 * T(3)))))
        <5> HIDE DEF Z, T
        <5> QED
          BY <1>7
      <4>2. m = 2 * ((f * (D * dx)) + (g * (D * dy)))
        BY <1>8, <4>1, Zenon
      <4>3. 2 * ((f * (D * dx)) + (g * (D * dy))) = D * (2 * ((f * dx) + (g * dy)))
        <5> HIDE DEF dx, dy, D
        <5> QED
          BY <1>5, <1>6
      <4> QED
        BY <4>2, <4>3, Zenon
    <3>3. m <= D * (S - 1)
      <4> HIDE DEF B, D
      <4>1. low \in Int /\ low <= B(1) /\ low <= B(2) /\ low <= B(3)
        BY <3>1
      <4> HIDE DEF low
      <4>2. (u1 + u2 + u3) * (S - 1) = D * (S - 1)
        BY <1>5
      <4>3. m <= (u1 + u2 + u3) * (S - 1)
        BY <3>1, <4>1, Mean
      <4> QED
        BY <4>2, <4>3
    <3> DEFINE E == 2 * ((f * dx) + (g * dy))
    <3>4. E \in Int /\ D * E <= D * (S - 1) /\ S - 1 \in Int
      BY <1>1, <1>6, <3>2, <3>3
    <3> HIDE DEF E, D
    <3> QED
      BY <1>5, <3>4, Below DEF E
  <2>3. \A p, q \in Int : /\ (1 * p) + (1 * q) = p + q /\ (1 * p) + ((-1) * q) = p - q
                          /\ ((-1) * p) + (1 * q) = q - p
                          /\ ((-1) * p) + ((-1) * q) = -p - q
    OBVIOUS
  <2> HIDE DEF Z, T, dx, dy
  <2>4. \A i \in 1 .. 3 : /\ 2 * ((1 * Z(i)) + (1 * T(i))) <= S - 1
                          /\ 2 * ((1 * Z(i)) + ((-1) * T(i))) <= S - 1
                          /\ 2 * (((-1) * Z(i)) + (1 * T(i))) <= S - 1
                          /\ 2 * (((-1) * Z(i)) + ((-1) * T(i))) <= S - 1
    <3> SUFFICES ASSUME NEW i \in 1 .. 3
                 PROVE  /\ 2 * ((1 * Z(i)) + (1 * T(i))) <= S - 1
                        /\ 2 * ((1 * Z(i)) + ((-1) * T(i))) <= S - 1
                        /\ 2 * (((-1) * Z(i)) + (1 * T(i))) <= S - 1
                        /\ 2 * (((-1) * Z(i)) + ((-1) * T(i))) <= S - 1
      OBVIOUS
    <3> DEFINE p == Z(i)
               q == T(i)
    <3>1. p \in Int /\ q \in Int
      BY <1>6
    <3>2. /\ 2 * (p + q) <= S - 1 /\ 2 * (p - q) <= S - 1
          /\ 2 * (q - p) <= S - 1 /\ 2 * (-p - q) <= S - 1
      BY <2>1
    <3> HIDE DEF p, q
    <3>3. /\ 2 * ((1 * p) + (1 * q)) <= S - 1 /\ 2 * ((1 * p) + ((-1) * q)) <= S - 1
          /\ 2 * (((-1) * p) + (1 * q)) <= S - 1
          /\ 2 * (((-1) * p) + ((-1) * q)) <= S - 1
      BY ONLY <3>1, <3>2, <2>3, ZenonT(60)
    <3> QED
      BY <3>3 DEF p, q
  <2>5. 1 \in -1 .. 1 /\ -1 \in -1 .. 1
    OBVIOUS
  <2>6. /\ 2 * ((1 * dx) + (1 * dy)) <= S - 1
        /\ 2 * ((1 * dx) + ((-1) * dy)) <= S - 1
        /\ 2 * (((-1) * dx) + (1 * dy)) <= S - 1
        /\ 2 * (((-1) * dx) + ((-1) * dy)) <= S - 1
    <3> HIDE DEF S
    <3> QED
      BY <2>2, <2>4, <2>5, Zenon
  <2> QED
    BY <1>6, <2>3, <2>6
<1>10. W \in Int /\ D * (lo - v) <= W /\ W <= D * (hi - v)
  <2>1. lo - v \in Int /\ hi - v \in Int
        /\ lo - v <= V(1) /\ V(1) <= hi - v /\ lo - v <= V(2) /\ V(2) <= hi - v
        /\ lo - v <= V(3) /\ V(3) <= hi - v
    BY <1>6
  <2> HIDE DEF V, v, D
  <2>2. W \in Int
    BY <1>7
  <2>3. (u1 + u2 + u3) * (lo - v) <= W /\ W <= (u1 + u2 + u3) * (hi - v)
    BY <1>7, <2>1, Mean
  <2> QED
    BY <1>5, <2>2, <2>3
<1>11. M \in Int /\ D * M = N * W
  <2>1. N * V(1) = (ac * Z(1)) + (dn * T(1)) /\ N * V(2) = (ac * Z(2)) + (dn * T(2))
        /\ N * V(3) = (ac * Z(3)) + (dn * T(3))
    BY <1>4
  <2>2. D * M = (ac * (D * dx)) + (dn * (D * dy))
    <3> HIDE DEF D, dx, dy, ac, dn
    <3> QED
      BY <1>4, <1>5, <1>6
  <2>3. N * W = (u1 * (N * V(1))) + (u2 * (N * V(2))) + (u3 * (N * V(3)))
    <3> HIDE DEF N, V
    <3> QED
      BY <1>4, <1>7
  <2>4. N * W = (u1 * ((ac * Z(1)) + (dn * T(1)))) + (u2 * ((ac * Z(2)) + (dn * T(2))))
                + (u3 * ((ac * Z(3)) + (dn * T(3))))
    BY <2>1, <2>3, Zenon
  <2>5. D * M = (ac * ((u1 * Z(1)) + (u2 * Z(2)) + (u3 * Z(3))))
                + (dn * ((u1 * T(1)) + (u2 * T(2)) + (u3 * T(3))))
    BY <1>8, <2>2, Zenon
  <2> HIDE DEF Z, T, V, D, N, ac, dn, dx, dy, M, W
  <2>6. M \in Int
    BY <1>4, <1>6 DEF M
  <2> QED
    BY <1>4, <1>7, <2>4, <2>5, <2>6
<1>12. PICK R \in Int : D * K = (S * W) + R /\ 2 * R <= D * (S - 1) /\ -(2 * R) <= D * (S - 1)
  <2>1. PICK r \in Int : ac * S = (qx * N) + r /\ -D < r /\ r < D
    <3> DEFINE m == ac * S
    <3>1. qx = Quotient(m, N)
      BY <1>3, Zenon DEF PlaneParts
    <3>2. m \in Int /\ N # 0 /\ N \in Int
      <4> HIDE DEF ac, S
      <4> QED
        BY <1>1, <1>4
    <3> HIDE DEF m, N
    <3>3. PICK r \in Int : /\ m = (qx * N) + r /\ (N > 0 => -N < r /\ r < N)
                          /\ (N < 0 => N < r /\ r < -N)
      BY <3>1, <3>2, QuotientIs
    <3>4. -D < r /\ r < D
      BY <3>2, <3>3
    <3> QED
      BY <3>3, <3>4 DEF m
  <2>2. PICK s \in Int : dn * S = (qy * N) + s /\ -D < s /\ s < D
    <3> DEFINE m == dn * S
    <3>1. qy = Quotient(m, N)
      BY <1>3, Zenon DEF PlaneParts
    <3>2. m \in Int /\ N # 0 /\ N \in Int
      <4> HIDE DEF dn, S
      <4> QED
        BY <1>1, <1>4
    <3> HIDE DEF m, N
    <3>3. PICK s \in Int : /\ m = (qy * N) + s /\ (N > 0 => -N < s /\ s < N)
                          /\ (N < 0 => N < s /\ s < -N)
      BY <3>1, <3>2, QuotientIs
    <3>4. -D < s /\ s < D
      BY <3>2, <3>3
    <3> QED
      BY <3>3, <3>4 DEF m
  <2> DEFINE F == (r * dx) + (s * dy)
  <2>3. 2 * F <= D * (S - 1) /\ -(2 * F) <= D * (S - 1) /\ F \in Int
    <3> HIDE DEF D, dx, dy, S
    <3>1. F \in Int /\ S - 1 \in Int
      BY <1>1, <1>6
    <3> QED
      BY <1>5, <1>6, <1>9, <2>1, <2>2, <3>1, Drift
  <2>4. N * K = (S * M) - F
    <3>1. N * K = ((qx * N) * dx) + ((qy * N) * dy)
      <4> HIDE DEF N, dx, dy
      <4> QED
        BY <1>4, <1>6
    <3>2. qx * N = (ac * S) - r /\ qy * N = (dn * S) - s
      <4> HIDE DEF N, ac, dn, S, D
      <4>1. qx * N \in Int /\ qy * N \in Int /\ ac * S \in Int /\ dn * S \in Int
        <5>1. N \in Int /\ ac \in Int /\ dn \in Int /\ S \in Int
          BY <1>1, <1>4
        <5> QED
          BY ONLY <5>1, qx \in Int, qy \in Int
      <4> QED
        BY <2>1, <2>2, <4>1
    <3>3. N * K = (((ac * S) - r) * dx) + (((dn * S) - s) * dy)
      BY <3>1, <3>2, Zenon
    <3>4. (((ac * S) - r) * dx) + (((dn * S) - s) * dy) = (S * M) - F
      <4> HIDE DEF N, ac, dn, dx, dy, S
      <4> QED
        BY <1>1, <1>4, <1>6
    <3> QED
      BY <3>3, <3>4, Zenon
  <2>5. K \in Int
    <3> HIDE DEF dx, dy
    <3> QED
      BY <1>6
  <2>6. CASE N > 0
    <3>1. D = N
      BY <1>4, <2>6
    <3>2. D * M = D * W
      BY <1>11, <3>1, Zenon
    <3> HIDE DEF D, M, W, N
    <3>3. M = W
      BY <1>5, <1>10, <1>11, <3>2, Below
    <3> HIDE DEF K, F, S
    <3>4. -F \in Int /\ D * K = (S * W) + (-F)
      <4>1. S * W \in Int
        BY <1>1, <1>10
      <4> QED
        BY <2>3, <2>4, <3>1, <3>3, <4>1
    <3> DEFINE G == -F
    <3>5. 2 * G <= D * (S - 1) /\ -(2 * G) <= D * (S - 1)
      BY <2>3
    <3> QED
      BY <3>4, <3>5
  <2>7. CASE N < 0
    <3>1. D = -N /\ N = -D
      BY <1>4, <2>7
    <3>2. D * M = D * (-W)
      <4>1. D * M = N * W
        BY <1>11
      <4> HIDE DEF D, M, W, N
      <4>2. N * W = D * (-W)
        BY <1>4, <1>5, <1>10, <3>1
      <4> QED
        BY <4>1, <4>2
    <3> HIDE DEF D, M, W, N
    <3>3. M = -W
      <4> DEFINE w == -W
      <4>1. w \in Int /\ D * M = D * w /\ M \in Int /\ D \in Nat \ {0}
        BY <1>5, <1>10, <1>11, <3>2
      <4> HIDE DEF w
      <4>2. D * M <= D * w /\ D * w <= D * M
        BY <4>1
      <4>3. M <= w /\ w <= M
        BY ONLY <4>1, <4>2, Below
      <4> QED
        BY <4>1, <4>3 DEF w
    <3>4. D * K = (S * W) + F
      <4>1. N * K = -(D * K) /\ S * M = -(S * W) /\ D * K \in Int /\ S * W \in Int
        <5> HIDE DEF K, S
        <5> QED
          BY <1>1, <1>4, <1>5, <1>10, <2>5, <3>1, <3>3
      <4> HIDE DEF K, F, S
      <4> QED
        BY <2>3, <2>4, <4>1
    <3> QED
      BY <2>3, <3>4
  <2> QED
    BY <1>4, <2>6, <2>7
<1> DEFINE A == (v * S) + h + (qx * dx) + (qy * dy)
<1>13. A \in Int /\ lo * S <= A /\ A < (hi + 1) * S
  <2>1. K \in Int /\ v \in Int
    <3> HIDE DEF dx, dy, v
    <3> QED
      BY <1>6
  <2>2. A = (v * S) + h + K
    <3> HIDE DEF dx, dy, v, S, h
    <3> QED
      BY <1>1, <1>6
  <2> HIDE DEF K, S, h, W, D, v, A
  <2>3. lo * S <= (v * S) + h + K /\ (v * S) + h + K < (hi + 1) * S
    BY <1>1, <1>5, <1>10, <1>12, <2>1, DriftBound
  <2> QED
    BY <1>1, <2>1, <2>2, <2>3
<1>14. PICK m \in lo .. hi : m * S <= A /\ A < (m + 1) * S
  <2> DEFINE m == A \div S
  <2>1. A % S \in 0 .. S - 1 /\ m \in Int /\ A = (m * S) + (A % S)
    <3> HIDE DEF A, S
    <3> QED
      BY <1>1, <1>13, Division
  <2> HIDE DEF A, S, m
  <2>2. (m + 1) * S = (m * S) + S /\ m * S \in Int
    BY <1>1, <2>1
  <2>3. m * S <= A /\ A < (m + 1) * S
    BY <1>1, <2>1, <2>2
  <2>4. lo * S < (m + 1) * S /\ m * S < (hi + 1) * S
    <3> DEFINE p == lo * S
               q == (hi + 1) * S
               r == m * S
               s == (m + 1) * S
    <3>1. p \in Int /\ q \in Int /\ r \in Int /\ s \in Int
      BY <1>1, <2>1
    <3>2. p <= A /\ A < q /\ r <= A /\ A < s /\ A \in Int
      BY <1>13, <2>3
    <3> HIDE DEF p, q, r, s
    <3>3. p < s /\ r < q
      BY <3>1, <3>2
    <3> QED
      BY <3>3 DEF p, q, r, s
  <2>5. S * lo < S * (m + 1) /\ S * m < S * (hi + 1)
    BY <1>1, <2>1, <2>4
  <2>6. lo < m + 1 /\ m < hi + 1
    BY <1>1, <2>1, <2>5, Below
  <2> QED
    BY <2>1, <2>3, <2>6
<1>15. ((A * S) % WordSize) \div (S * S) = m
  <2>1. m \in 0 .. 255 /\ 0 \in Int /\ (256 * 0) + m = m /\ (256 * 0) + m + 1 = m + 1
    OBVIOUS
  <2> HIDE DEF A
  <2> QED
    BY <1>13, <1>14, <2>1, WordPart, ZenonT(60)
<1>16. PlaneAt(c, val, x, y) = ((A * S) % WordSize) \div (S * S)
  BY <1>3, Zenon DEF PlaneParts
<1> QED
  BY <1>14, <1>15, <1>16

LEMMA VertexParts ==
  ASSUME NEW u \in Vertex
  PROVE  /\ u.x \in Coordinate /\ u.y \in Coordinate /\ u.x \in Int /\ u.y \in Int
         /\ u.colour \in 0 .. 255 /\ u.u \in 0 .. 255 /\ u.v \in 0 .. 255
<1>1. Coordinate \subseteq Int
  BY RasterAssumption DEF Coordinate
<1> QED
  BY <1>1 DEF Vertex

-----------------------------------------------------------------------------
(* A behaviour draws one primitive, and remembers which.                   *)

PolygonDrawn ==
  \E c \in Polygons, how \in Shadings :
    /\ last.kind = "polygon" /\ last.corners = c /\ last.how = how
    /\ vram = Polygon(last.before, c, how)
LineDrawn ==
  \E a, b \in Ends, how \in Shadings :
    /\ last.kind = "line" /\ last.from = a /\ last.to = b /\ last.how = how
    /\ ~how.gouraud => a.colour = b.colour
    /\ vram = Segment(last.before, a, b, how)
RectangleDrawn ==
  \E c \in Corners, w, h \in Sides, how \in Shadings :
    LET corner == [x |-> c[1], y |-> c[2], colour |-> 128, u |-> 1, v |-> 0]
    IN /\ last.kind = "rectangle" /\ last.corner = corner /\ last.width = w
       /\ last.height = h /\ last.how = how
       /\ ~how.gouraud /\ ClearOfPage(how, c[2] + h - 1)
       /\ vram = Rectangle(last.before, corner, w, h, how)
CopyDone ==
  \E a, b \in Corners, w, h \in Sides :
    /\ last.kind = "copy" /\ last.from = a /\ last.to = b /\ last.width = w
    /\ last.height = h /\ vram = Copied(last.before, a, b, w, h)

\* What is in VRAM is what the primitive remembered makes of what was there.
Drawn ==
  /\ set \in Settings
  /\ \/ last.kind \in {"nothing", "fill"}
     \/ PolygonDrawn \/ LineDrawn \/ RectangleDrawn \/ CopyDone

\* A step leaves the settings alone, and so all that drawing makes of them.
LEMMA SameSettings ==
  ASSUME set' = set
  PROVE  /\ \A v, c, how : Polygon(v, c, how)' = Polygon(v, c, how)
         /\ \A v, a, b, how : Segment(v, a, b, how)' = Segment(v, a, b, how)
         /\ \A v, c, w, h, how : Rectangle(v, c, w, h, how)' = Rectangle(v, c, w, h, how)
         /\ \A v, from, to, w, h : Copied(v, from, to, w, h)' = Copied(v, from, to, w, h)
         /\ \A how, n : ClearOfPage(how, n)' = ClearOfPage(how, n)
<1>1. \A p : InClip(p)' = InClip(p)
  BY DEF InClip
<1>2. \A behind, p, colour, t, d : Put(behind, p, colour, t, d)' = Put(behind, p, colour, t, d)
  BY DEF Put, Blend
<1>3. \A behind, p, found, how, tint, d :
        PutTexel(behind, p, found, how, tint, d)' = PutTexel(behind, p, found, how, tint, d)
  BY <1>2 DEF PutTexel
<1>4. /\ \A v, s, t : Sample(v, s, t)' = Sample(v, s, t)
      /\ \A how : Dithers(how)' = Dithers(how)
  BY DEF Sample, Dithers
<1>5. \A v, c, how : Triangle(v, c, how)' = Triangle(v, c, how)
  <2>1. \A c : Covered(c)' = Covered(c)
    BY <1>1 DEF Covered
  <2> QED
    BY <1>2, <1>3, <1>4, <2>1 DEF Triangle
<1>6. \A v, c, how : Polygon(v, c, how)' = Polygon(v, c, how)
  BY <1>5 DEF Polygon
<1>7. \A v, a, b, how : Segment(v, a, b, how)' = Segment(v, a, b, how)
  BY <1>1, <1>2 DEF Segment
<1>8. ASSUME NEW v, NEW c, NEW w, NEW h, NEW how
      PROVE  Rectangle(v, c, w, h, how)' = Rectangle(v, c, w, h, how)
  BY <1>1, <1>2, <1>3, <1>4, Zenon DEF Rectangle
<1>9. \A v, from, to, w, h : Copied(v, from, to, w, h)' = Copied(v, from, to, w, h)
  <2>1. \A was, source : CopiedOver(was, source)' = CopiedOver(was, source)
    BY DEF CopiedOver
  <2>2. \A v, from, to, w, line :
          CopiedRow(v, from, to, w, line)' = CopiedRow(v, from, to, w, line)
    BY <2>1 DEF CopiedRow
  <2>3. ASSUME NEW v, NEW from, NEW to, NEW w, NEW h
        PROVE  Copied(v, from, to, w, h)' = Copied(v, from, to, w, h)
    <3>1. \A rows : [n \in 0 .. h |-> IF n = 0 THEN v
                                      ELSE CopiedRow(rows[n - 1], from, to, w, n - 1)]'
                     = [n \in 0 .. h |-> IF n = 0 THEN v
                                        ELSE CopiedRow(rows[n - 1], from, to, w, n - 1)]
      BY <2>2
    <3> QED
      BY <3>1, Zenon DEF Copied
  <2> QED
    BY <2>3
<1>10. \A how, n : ClearOfPage(how, n)' = ClearOfPage(how, n)
  BY DEF ClearOfPage
<1> QED
  BY <1>6, <1>7, <1>8, <1>9, <1>10

LEMMA DrawnHeld == Drawn /\ [RasterNext]_rasterVars => Drawn'
<1> SUFFICES ASSUME Drawn, [RasterNext]_rasterVars PROVE Drawn'
  OBVIOUS
<1>1. set' = set /\ set' \in Settings
  BY DEF Drawn, RasterNext, rasterVars, DrawPolygon, DrawLine, DrawRectangle, FillVram,
         CopyVram, Draws
<1>2. CASE DrawPolygon
  <2>1. PICK c \in Polygons, how \in Shadings :
          /\ last' = [kind |-> "polygon", corners |-> c, how |-> how, before |-> vram]
          /\ vram' = Polygon(vram, c, how)
    BY <1>2 DEF DrawPolygon, Draws
  <2>2. PolygonDrawn'
    BY <1>1, <2>1, SameSettings DEF PolygonDrawn
  <2> QED
    BY <1>1, <2>2 DEF Drawn
<1>3. CASE DrawLine
  <2>1. PICK a, b \in Ends, how \in Shadings :
          /\ ~how.gouraud => a.colour = b.colour
          /\ last' = [kind |-> "line", from |-> a, to |-> b, how |-> how, before |-> vram]
          /\ vram' = Segment(vram, a, b, how)
    BY <1>3 DEF DrawLine, Draws
  <2>2. LineDrawn'
    BY <1>1, <2>1, SameSettings DEF LineDrawn
  <2> QED
    BY <1>1, <2>2 DEF Drawn
<1>4. CASE DrawRectangle
  <2> DEFINE corner(c) == [x |-> c[1], y |-> c[2], colour |-> 128, u |-> 1, v |-> 0]
  <2>1. PICK c \in Corners, w, h \in Sides, how \in Shadings :
          /\ ~how.gouraud /\ ClearOfPage(how, c[2] + h - 1)
          /\ last' = [kind |-> "rectangle", corner |-> corner(c), width |-> w,
                      height |-> h, how |-> how, before |-> vram]
          /\ vram' = Rectangle(vram, corner(c), w, h, how)
    BY <1>4, ZenonT(60) DEF DrawRectangle, Draws
  <2> HIDE DEF corner
  <2>2. /\ last'.kind = "rectangle" /\ last'.corner = corner(c) /\ last'.width = w
        /\ last'.height = h /\ last'.how = how /\ ~how.gouraud
        /\ ClearOfPage(how, c[2] + h - 1)'
        /\ vram' = Rectangle(last.before, corner(c), w, h, how)'
    BY <1>1, <2>1, SameSettings
  <2>3. RectangleDrawn'
    BY <2>2 DEF RectangleDrawn, corner
  <2> QED
    BY <1>1, <2>3 DEF Drawn
<1>5. CASE CopyVram
  <2>1. PICK a, b \in Corners, w, h \in Sides :
          /\ last' = [kind |-> "copy", from |-> a, to |-> b, width |-> w, height |-> h,
                      before |-> vram]
          /\ vram' = Copied(vram, a, b, w, h)
    BY <1>5 DEF CopyVram, Draws
  <2>2. CopyDone'
    BY <1>1, <2>1, SameSettings DEF CopyDone
  <2> QED
    BY <1>1, <2>2 DEF Drawn
<1>6. CASE FillVram
  <2>1. last'.kind = "fill"
    BY <1>6 DEF FillVram, Draws
  <2> QED
    BY <1>1, <2>1 DEF Drawn
<1>7. CASE UNCHANGED rasterVars
  <2>1. last' = last /\ vram' = vram
    BY <1>7 DEF rasterVars
  <2>2. PolygonDrawn => PolygonDrawn'
    BY <1>1, <2>1, SameSettings DEF PolygonDrawn
  <2>3. LineDrawn => LineDrawn'
    BY <1>1, <2>1, SameSettings DEF LineDrawn
  <2>4. RectangleDrawn => RectangleDrawn'
    BY <1>1, <2>1, SameSettings DEF RectangleDrawn
  <2>5. CopyDone => CopyDone'
    BY <1>1, <2>1, SameSettings DEF CopyDone
  <2> QED
    BY <1>1, <2>1, <2>2, <2>3, <2>4, <2>5 DEF Drawn
<1> QED
  BY <1>2, <1>3, <1>4, <1>5, <1>6, <1>7 DEF RasterNext

LEMMA RasterInvariant == RasterSpec => []Drawn
<1>1. RasterInit => Drawn
  BY DEF RasterInit, Drawn, Nothing
<1> QED
  BY <1>1, DrawnHeld, PTL DEF RasterSpec

\* A copy that does not run into its own source moves what was there and keeps
\* off the masked pixels: copy_vram's rows, one after another, add up to one
\* move of the whole rectangle.
THEOREM RasterCopyFaithful == RasterSpec => []CopyFaithful
<1>1. Drawn => CopyFaithful
  <2> SUFFICES ASSUME Drawn, last.kind = "copy", ~Overtaken(last), NEW p \in Place
               PROVE  LET i == (p[1] - last.to[1]) % Width
                          j == (p[2] - last.to[2]) % Height
                          was == last.before[p]
                          source == last.before[<<((last.from[1] + i) % Width),
                                                  ((last.from[2] + j) % Height)>>]
                      IN vram[p] = IF i < last.width /\ j < last.height
                                        /\ ~(set.check /\ was.mask)
                                   THEN [source EXCEPT !.mask = @ \/ set.mask] ELSE was
    BY Zenon DEF CopyFaithful
  <2>1. CopyDone
    BY DEF Drawn, PolygonDrawn, LineDrawn, RectangleDrawn
  <2>2. ACopy(last)
    <3>1. PICK a, b \in Corners, w, h \in Sides :
            last.from = a /\ last.to = b /\ last.width = w /\ last.height = h
      BY <2>1 DEF CopyDone
    <3>2. /\ a[1] \in Int /\ a[2] \in Int /\ b[1] \in Int /\ b[2] \in Int
          /\ w \in Nat /\ h \in Nat
      BY RasterAssumption DEF Coordinate
    <3> QED
      BY <3>1, <3>2 DEF ACopy
  <2>3. vram = Copied(last.before, last.from, last.to, last.width, last.height)
    BY <2>1, Zenon DEF CopyDone
  <2>4. vram[p] = Wanted(last.before, last.from, last.to, last.width, last.height, p)
    BY <2>2, <2>3, RowsCopied
  <2> QED
    BY <2>4, Zenon DEF Wanted, CopiedOver, Source
<1> QED
  BY <1>1, RasterInvariant, PTL

\* A line's accumulated fractions never round another way than exact ones do:
\* draw_line draws both its ends, every place between them once, and the same
\* places from whichever end it was named.
THEOREM RasterLineExact == RasterSpec => []LineExact
<1>1. Drawn => LineExact
  <2> SUFFICES ASSUME Drawn, last.kind = "line", ~last.how.gouraud,
                      ~TooLong(last.from, last.to), NEW p \in Place
               PROVE  vram[p] = IF InClip(p) /\ p \in LinePlaces(last.from, last.to)
                                THEN Put(last.before[p], p, last.from.colour,
                                         last.how.translucent, set.dither)
                                ELSE last.before[p]
    BY Zenon DEF LineExact
  <2>1. LineDrawn
    BY DEF Drawn, PolygonDrawn, RectangleDrawn, CopyDone
  <2>2. /\ last.from \in Vertex /\ last.to \in Vertex
        /\ last.from.colour = last.to.colour
        /\ vram = Segment(last.before, last.from, last.to, last.how)
    BY <2>1, RasterAssumption DEF LineDrawn
  <2>3. vram[p] = Segment(last.before, last.from, last.to, last.how)[p]
    BY <2>2, Zenon
  <2> QED
    BY <2>2, <2>3, SegmentExact, SMTT(30)
<1> QED
  BY <1>1, RasterInvariant, PTL

\* No pixel of a small shaded triangle, and no step of a shaded line, is
\* brighter than the brightest of the corners or darker than the darkest: the
\* truncated steps of plane_of never carry a shade round zero.
THEOREM RasterShadeInRange == RasterSpec => []ShadeInRange
<1>1. Drawn => ShadeInRange
  <2> SUFFICES ASSUME Drawn PROVE ShadeInRange
    OBVIOUS
  <2>1. ASSUME last.kind = "polygon", Len(last.corners) = 3, Small(last.corners),
               NEW p \in Covered(last.corners)
        PROVE  LET c == last.corners
                   shades == {c[i].colour : i \in 1 .. 3}
                   shade == PlaneAt(c, Values(c, "colour"), p[1], p[2])
               IN \E low, high \in shades : low <= shade /\ shade <= high
    <3> DEFINE c == last.corners
               val == Values(c, "colour")
    <3>1. c \in Polygons
      BY <2>1 DEF Drawn, PolygonDrawn, LineDrawn, RectangleDrawn, CopyDone
    <3>2. c \in Seq(Vertex) /\ DOMAIN c = 1 .. 3 /\ \A i \in 1 .. 3 : c[i] \in Vertex
      BY <2>1, <3>1, RasterAssumption
    <3> HIDE DEF c
    <3>3. Corners3(c) /\ \A i \in 1 .. 3 : c[i].colour \in 0 .. 255
      <4>1. \A u \in Vertex : u.x \in Int /\ u.y \in Int /\ u.colour \in 0 .. 255
        BY VertexParts
      <4> QED
        BY <3>2, <4>1 DEF Corners3
    <3>4. /\ p[1] \in Int /\ p[2] \in Int /\ Area(c) # 0
          /\ Inside(Wound(c), <<p[1], p[2]>>)
      <4>1. p \in Place /\ Area(c) # 0 /\ Inside(Wound(c), p)
        BY <2>1 DEF Covered, c
      <4>2. p = <<p[1], p[2]>> /\ p[1] \in Int /\ p[2] \in Int
        BY <4>1, RasterAssumption DEF Place
      <4> QED
        BY <4>1, <4>2, Zenon
    <3>5. \A i \in 1 .. 3 : val[i] = c[i].colour
      BY DEF Values
    <3>6. PICK low \in 1 .. 3, high \in 1 .. 3 :
            \A i \in 1 .. 3 : c[low].colour <= c[i].colour /\ c[i].colour <= c[high].colour
      <4>0. c[1].colour \in 0 .. 255 /\ c[2].colour \in 0 .. 255 /\ c[3].colour \in 0 .. 255
        BY <3>3
      <4> DEFINE f == c[1].colour
                 g == c[2].colour
                 k == c[3].colour
      <4>1. f \in Int /\ g \in Int /\ k \in Int
        BY <4>0
      <4>2. /\ (f <= g /\ f <= k) \/ (g <= f /\ g <= k) \/ (k <= f /\ k <= g)
            /\ (g <= f /\ k <= f) \/ (f <= g /\ k <= g) \/ (f <= k /\ g <= k)
        <5> HIDE DEF f, g, k
        <5> QED
          BY <4>1
      <4>3. f <= f /\ g <= g /\ k <= k
        <5> HIDE DEF f, g, k
        <5> QED
          BY <4>1
      <4>4. \E i \in 1 .. 3 : \A j \in 1 .. 3 : c[i].colour <= c[j].colour
        BY <4>2, <4>3
      <4>5. \E i \in 1 .. 3 : \A j \in 1 .. 3 : c[j].colour <= c[i].colour
        BY <4>2, <4>3
      <4> QED
        BY <4>4, <4>5
    <3>7. \A i, j \in 1 .. 3 :
            2 * (Magnitude(c[i].x - c[j].x) + Magnitude(c[i].y - c[j].y)) < PlaneScale
      BY <2>1, <3>2, Zenon DEF Small, c
    <3> HIDE DEF val
    <3>8. PlaneAt(c, val, p[1], p[2]) \in c[low].colour .. c[high].colour
      <4> DEFINE l == c[low].colour
                 h == c[high].colour
      <4>1. l \in 0 .. 255 /\ h \in 0 .. 255 /\ \A i \in 1 .. 3 : val[i] \in l .. h
        <5>1. \A i \in 1 .. 3 : c[i].colour \in Int
          BY <3>3
        <5>2. l \in 0 .. 255 /\ h \in 0 .. 255
              /\ \A i \in 1 .. 3 : l <= c[i].colour /\ c[i].colour <= h
          BY <3>3, <3>6
        <5> HIDE DEF l, h
        <5> QED
          BY <3>5, <5>1, <5>2
      <4> HIDE DEF l, h
      <4>2. PlaneAt(c, val, p[1], p[2]) \in l .. h
        BY <3>3, <3>4, <3>7, <4>1, PlaneBetween
      <4> QED
        BY <4>2 DEF l, h
    <3> QED
      BY <3>8 DEF c, val
  <2>2. ASSUME last.kind = "line", NEW n \in DOMAIN Walk(last.from, last.to, last.how)
        PROVE  LET shades == {last.from.colour, last.to.colour}
               IN \E low, high \in shades :
                    /\ low <= Walk(last.from, last.to, last.how)[n].colour
                    /\ Walk(last.from, last.to, last.how)[n].colour <= high
    <3>1. last.from \in Vertex /\ last.to \in Vertex
      BY <2>2, RasterAssumption DEF Drawn, PolygonDrawn, LineDrawn, RectangleDrawn, CopyDone
    <3> QED
      BY <3>1, WalkShades
  <2> QED
    BY <2>1, <2>2, Zenon DEF ShadeInRange
<1> QED
  BY <1>1, RasterInvariant, PTL

-----------------------------------------------------------------------------
(* A plane that whole steps make loses nothing.                            *)

LEMMA ExactQuotient ==
  ASSUME NEW n \in Int, NEW b \in Int, b # 0
  PROVE  Quotient(n * b, b) = n
<1> DEFINE m == n * b
           q == Quotient(m, b)
<1>1. m \in Int
  OBVIOUS
<1>2. q \in Int /\ \E r \in Int : /\ m = (q * b) + r
                                  /\ (b > 0 => -b < r /\ r < b)
                                  /\ (b < 0 => b < r /\ r < -b)
  <2> HIDE DEF m
  <2> QED
    BY <1>1, QuotientIs
<1>3. PICK r \in Int : /\ m = (q * b) + r
                       /\ (b > 0 => -b < r /\ r < b)
                       /\ (b < 0 => b < r /\ r < -b)
  BY <1>2
<1> HIDE DEF q
<1> DEFINE d == n - q
           B == IF b > 0 THEN b ELSE -b
           R == IF b > 0 THEN r ELSE -r
<1>4. d \in Int /\ B \in Nat \ {0} /\ R \in Int /\ -B < R /\ R < B
  BY <1>2, <1>3
<1>5. B * d = R
  <2>1. b * d = m - (q * b)
    BY <1>2
  <2>2. m \in Int /\ q * b \in Int
    BY <1>2
  <2>3. b * d = r
    <3> HIDE DEF m, d
    <3> QED
      BY <1>3, <2>1, <2>2
  <2>4. (-b) * d = -(b * d)
    BY <1>2
  <2> HIDE DEF d
  <2> QED
    BY <2>3, <2>4
<1>6. B * d < B * 1 /\ B * (-1) < B * d
  <2> HIDE DEF B, d, R
  <2> QED
    BY <1>4, <1>5
<1>7. d < 1 /\ -1 < d
  <2> HIDE DEF B, d
  <2> QED
    BY <1>4, <1>6, Below
<1>8. q = n
  BY <1>2, <1>7
<1> QED
  BY <1>8 DEF q, m

LEMMA WholeSlopes ==
  ASSUME NEW e \in Int, NEW f \in Int, NEW g \in Int, NEW k \in Int, NEW gx \in Int,
         NEW gy \in Int
  PROVE  LET det == (e * k) - (f * g)
             s == (gx * e) + (gy * g)
             t == (gx * f) + (gy * k)
         IN (s * k) - (t * g) = gx * det /\ (e * t) - (f * s) = gy * det
  OBVIOUS

\* The attribute's value at every corner is its place's.
Rises(c, val, k, gx, gy) ==
  \A i \in 1 .. 3 : val[i] = k + (gx * c[i].x) + (gy * c[i].y)

\* An attribute that rises by whole steps is read exactly, round at 256: a flat
\* colour everywhere, and a sprite's texels one to the pixel.
LEMMA PlaneExact ==
  ASSUME NEW c, Corners3(c), Area(c) # 0, NEW val, NEW k \in Int, NEW gx \in Int,
         NEW gy \in Int, Rises(c, val, k, gx, gy), NEW x \in Int, NEW y \in Int
  PROVE  PlaneAt(c, val, x, y) = (k + (gx * x) + (gy * y)) % 256
<1> DEFINE S == PlaneScale
           h == S \div 2
           N == Area(c)
<1>0. \A i \in 1 .. 3 : val[i] = k + (gx * c[i].x) + (gy * c[i].y)
  BY Zenon DEF Rises
<1>1. S \in Nat \ {0} /\ h \in Nat /\ h < S
  <2>1. S \in Nat \ {0}
    BY RasterAssumption
  <2>2. S % 2 \in 0 .. 1 /\ h \in Int /\ S = (h * 2) + (S % 2)
    BY <2>1, Division
  <2> HIDE DEF h
  <2> QED
    BY <2>1, <2>2
<1>2. \A i \in 1 .. 3 : c[i].x \in Int /\ c[i].y \in Int
  BY DEF Corners3
<1>3. Numbers3(val)
  <2> SUFFICES ASSUME NEW i \in 1 .. 3 PROVE val[i] \in Int
    BY DEF Numbers3
  <2>1. gx * c[i].x \in Int /\ gy * c[i].y \in Int
    BY <1>2
  <2> QED
    BY <1>0, <2>1
<1>4. PICK a \in 1 .. 3, qx \in Int, qy \in Int : PlaneParts(c, val, x, y, a, qx, qy)
  BY <1>3, PlaneIs
<1>5. N \in Int /\ Across(c, val) = gx * N /\ Down(c, val) = gy * N
  <2> DEFINE e == c[2].x - c[1].x
             f == c[3].x - c[2].x
             g == c[2].y - c[1].y
             j == c[3].y - c[2].y
             s == val[2] - val[1]
             t == val[3] - val[2]
  <2>1. N \in Int /\ N = (e * j) - (f * g)
    BY <1>3, Slopes
  <2>2. e \in Int /\ f \in Int /\ g \in Int /\ j \in Int
    BY <1>2
  <2>3. s = (gx * e) + (gy * g) /\ t = (gx * f) + (gy * j)
    <3>1. /\ val[1] = k + (gx * c[1].x) + (gy * c[1].y)
          /\ val[2] = k + (gx * c[2].x) + (gy * c[2].y)
          /\ val[3] = k + (gx * c[3].x) + (gy * c[3].y)
      BY <1>0
    <3>2. /\ gx * e = (gx * c[2].x) - (gx * c[1].x) /\ gy * g = (gy * c[2].y) - (gy * c[1].y)
          /\ gx * f = (gx * c[3].x) - (gx * c[2].x) /\ gy * j = (gy * c[3].y) - (gy * c[2].y)
      BY <1>2
    <3>3. /\ gx * c[1].x \in Int /\ gx * c[2].x \in Int /\ gx * c[3].x \in Int
          /\ gy * c[1].y \in Int /\ gy * c[2].y \in Int /\ gy * c[3].y \in Int
      BY <1>2
    <3> QED
      BY <3>1, <3>2, <3>3
  <2>4. Across(c, val) = (s * j) - (t * g) /\ Down(c, val) = (e * t) - (f * s)
    BY Zenon DEF Across, Down
  <2> HIDE DEF N, e, f, g, j, s, t
  <2> QED
    BY <2>1, <2>2, <2>3, <2>4, WholeSlopes
<1>6. qx = gx * S /\ qy = gy * S
  <2>1. /\ qx = Quotient(Across(c, val) * S, N) /\ qy = Quotient(Down(c, val) * S, N)
    BY <1>4, Zenon DEF PlaneParts
  <2> HIDE DEF S, N
  <2>2. (gx * N) * S = (gx * S) * N /\ (gy * N) * S = (gy * S) * N
        /\ gx * S \in Int /\ gy * S \in Int
    BY <1>1, <1>5
  <2>3. Quotient((gx * S) * N, N) = gx * S /\ Quotient((gy * S) * N, N) = gy * S
    BY <1>5, <2>2, ExactQuotient DEF N
  <2> QED
    BY <1>5, <2>1, <2>2, <2>3, Zenon
<1> DEFINE dx == x - c[a].x
           dy == y - c[a].y
           A == (val[a] * S) + h + (qx * dx) + (qy * dy)
           z == k + (gx * x) + (gy * y)
           m == z % 256
           j == z \div 256
<1>7. A = (z * S) + h /\ z \in Int
  <2>1. val[a] = k + (gx * c[a].x) + (gy * c[a].y) /\ c[a].x \in Int /\ c[a].y \in Int
    BY <1>0, <1>2
  <2> DEFINE p == c[a].x
             q == c[a].y
  <2>2. A = ((k + (gx * p) + (gy * q)) * S) + h + ((gx * S) * (x - p)) + ((gy * S) * (y - q))
    BY <1>6, <2>1, Zenon
  <2> HIDE DEF S, h, A
  <2>3. p \in Int /\ q \in Int
    BY <2>1
  <2> HIDE DEF p, q
  <2> QED
    BY <1>1, <2>2, <2>3
<1>8. m \in 0 .. 255 /\ j \in Int /\ z = (256 * j) + m
  <2> HIDE DEF z
  <2>1. 256 \in Nat \ {0}
    OBVIOUS
  <2>2. z % 256 \in 0 .. 256 - 1 /\ z \div 256 \in Int
        /\ z = ((z \div 256) * 256) + (z % 256)
    BY <1>7, <2>1, Division
  <2> QED
    BY <2>2
<1>9. /\ A \in Int /\ ((256 * j) + m) * S <= A /\ A < ((256 * j) + m + 1) * S
  <2> HIDE DEF S, h, A, z, m, j
  <2>1. z * S \in Int /\ (z + 1) * S = (z * S) + S
    BY <1>1, <1>7
  <2>2. A \in Int /\ z * S <= A /\ A < (z + 1) * S
    BY <1>1, <1>7, <2>1
  <2>3. (256 * j) + m = z /\ (256 * j) + m + 1 = z + 1
    BY <1>8
  <2> QED
    BY <2>2, <2>3, Zenon
<1>10. ((A * S) % WordSize) \div (S * S) = m
  <2> HIDE DEF A, m, j
  <2> QED
    BY <1>8, <1>9, WordPart
<1>11. PlaneAt(c, val, x, y) = ((A * S) % WordSize) \div (S * S)
  BY <1>4, Zenon DEF PlaneParts
<1> QED
  BY <1>10, <1>11, Zenon

-----------------------------------------------------------------------------
(* A point a hair off the pixel's own is on no edge.                       *)

\* StrictlyInside's Side, of the edge from a to b.
SideOf(a, b, p) ==
  (b.x - a.x) * (Hair * Hair * (p[2] - a.y) + 1)
  - (b.y - a.y) * (Hair * Hair * (p[1] - a.x) + Hair)

APoint(a) == a.x \in Coordinate /\ a.y \in Coordinate

LEMMA Points ==
  ASSUME NEW a, APoint(a), NEW b, APoint(b)
  PROVE  /\ Hair \in Nat \ {0}
         /\ a.x \in Int /\ a.y \in Int /\ b.x \in Int /\ b.y \in Int
         /\ -Hair < b.x - a.x /\ b.x - a.x < Hair
         /\ -Hair < b.y - a.y /\ b.y - a.y < Hair
  BY RasterAssumption DEF APoint, Coordinate, Hair

\* The side is the edge function, magnified, and the hair's share.
LEMMA SideIs ==
  ASSUME NEW a, APoint(a), NEW b, APoint(b), NEW p, p[1] \in Int, p[2] \in Int
  PROVE  /\ SideOf(a, b, p) \in Int /\ Edge(a, b, p[1], p[2]) \in Int
         /\ SideOf(a, b, p) = ((Hair * Hair) * Edge(a, b, p[1], p[2]))
                              + ((b.x - a.x) - (Hair * (b.y - a.y)))
<1> DEFINE d == b.x - a.x
           f == b.y - a.y
           x == p[1] - a.x
           y == p[2] - a.y
           H == Hair
<1>1. d \in Int /\ f \in Int /\ x \in Int /\ y \in Int /\ H \in Nat \ {0}
  BY Points
<1>2. SideOf(a, b, p) = (d * (((H * H) * y) + 1)) - (f * (((H * H) * x) + H))
  BY Zenon DEF SideOf
<1>3. Edge(a, b, p[1], p[2]) = (d * y) - (f * x)
  BY Zenon DEF Edge
<1> HIDE DEF d, f, x, y, H
<1>4. (d * (((H * H) * y) + 1)) - (f * (((H * H) * x) + H))
        = ((H * H) * ((d * y) - (f * x))) + (d - (H * f))
  BY <1>1
<1>5. (d * y) - (f * x) \in Int /\ ((H * H) * ((d * y) - (f * x))) + (d - (H * f)) \in Int
  BY <1>1
<1>6. SideOf(a, b, p) = ((H * H) * ((d * y) - (f * x))) + (d - (H * f))
  BY <1>2, <1>4, Zenon
<1>7. SideOf(a, b, p) \in Int /\ Edge(a, b, p[1], p[2]) \in Int
  BY <1>3, <1>5, <1>6, Zenon
<1> QED
  BY <1>3, <1>6, <1>7, Zenon DEF d, f, H

\* Which side the point is on, by the code's own rule.
LEMMA SideSign ==
  ASSUME NEW a, APoint(a), NEW b, APoint(b), NEW p, p[1] \in Int, p[2] \in Int
  PROVE  /\ SideOf(a, b, p) > 0
              <=> Edge(a, b, p[1], p[2]) >= (IF TopOrLeft(a, b) THEN 0 ELSE 1)
         /\ SideOf(a, b, p) = 0 => a.x = b.x /\ a.y = b.y
<1> DEFINE d == b.x - a.x
           f == b.y - a.y
           E == Edge(a, b, p[1], p[2])
           H == Hair
           s == SideOf(a, b, p)
           t == d - (H * f)
           Q == (H * H) * E
<1>1. /\ H \in Nat \ {0} /\ d \in Int /\ f \in Int
      /\ -H < d /\ d < H /\ -H < f /\ f < H
  BY Points
<1>2. s \in Int /\ E \in Int /\ s = Q + t
  BY SideIs
<1>3. a.x \in Int /\ a.y \in Int /\ b.x \in Int /\ b.y \in Int
  BY Points
<1>4. TopOrLeft(a, b) <=> f < 0 \/ (f = 0 /\ d > 0)
  BY <1>3 DEF TopOrLeft
<1>5. d = 0 /\ f = 0 => a.x = b.x /\ a.y = b.y
  BY <1>3
<1> HIDE DEF d, f, E, s
<1>6. /\ t \in Int /\ -(H * H) < t /\ t < H * H
      /\ f < 0 => t > 0
      /\ f > 0 => t < 0
      /\ f = 0 => t = d
  <2>1. H * f <= H * (H - 1) /\ H * (-(H - 1)) <= H * f
    BY <1>1, TimesLess
  <2>2. H * (H - 1) = (H * H) - H /\ H * (-(H - 1)) = H - (H * H)
        /\ H * H \in Int /\ H * f \in Int
    BY <1>1
  <2>3. f < 0 => H * f <= H * (-1)
    BY <1>1, TimesLess
  <2>4. f > 0 => H * 1 <= H * f
    BY <1>1, TimesLess
  <2>5. H * (-1) = -H /\ H * 1 = H
    BY <1>1
  <2>6. f = 0 => H * f = 0
    BY <1>1
  <2> DEFINE g == H * f
             k == H * H
  <2>7. /\ g <= k - H /\ H - k <= g /\ g \in Int /\ k \in Int
        /\ (f < 0 => g <= -H) /\ (f > 0 => H <= g) /\ (f = 0 => g = 0)
    BY <2>1, <2>2, <2>3, <2>4, <2>5, <2>6
  <2>8. t = d - g
    OBVIOUS
  <2> HIDE DEF g, H, t
  <2>9. /\ t \in Int /\ -k < t /\ t < k
        /\ f < 0 => t > 0
        /\ f > 0 => t < 0
        /\ f = 0 => t = d
    <3> HIDE DEF k
    <3> QED
      BY <1>1, <2>7, <2>8
  <2> QED
    BY <2>9
<1>7. /\ E >= 1 => H * H <= Q
      /\ E <= -1 => Q <= -(H * H)
      /\ E = 0 => Q = 0
      /\ H * H \in Int /\ Q \in Int
  <2> DEFINE k == H * H
  <2>1. k \in Nat
    BY <1>1
  <2> HIDE DEF k, H
  <2>2. /\ E >= 1 => k * 1 <= k * E
        /\ E <= -1 => k * E <= k * (-1)
    BY <1>2, <2>1, TimesLess
  <2>3. k * 1 = k /\ k * (-1) = -k /\ k * 0 = 0 /\ k * E \in Int
    BY <1>2, <2>1
  <2>4. Q = k * E
    BY DEF k, Q
  <2>5. k = H * H
    BY DEF k
  <2> HIDE DEF Q
  <2>6. /\ E >= 1 => k <= Q
        /\ E <= -1 => Q <= -k
        /\ E = 0 => Q = 0
        /\ k \in Int /\ Q \in Int
    BY <1>2, <2>1, <2>2, <2>3, <2>4
  <2> QED
    BY <2>5, <2>6
<1> DEFINE k == H * H
<1>8. /\ -k < t /\ t < k /\ t \in Int /\ k \in Int /\ Q \in Int
      /\ (E >= 1 => k <= Q) /\ (E <= -1 => Q <= -k) /\ (E = 0 => Q = 0)
  BY <1>6, <1>7
<1> HIDE DEF k, Q, t, H
<1>9. s > 0 <=> E >= 1 \/ (E = 0 /\ t > 0)
  BY <1>2, <1>8
<1>10. s = 0 => E = 0 /\ t = 0
  BY <1>2, <1>8
<1>11. t > 0 <=> TopOrLeft(a, b)
  BY <1>1, <1>4, <1>6, <1>8
<1>12. t = 0 => d = 0 /\ f = 0
  BY <1>1, <1>6, <1>8
<1>13. s > 0 <=> E >= (IF TopOrLeft(a, b) THEN 0 ELSE 1)
  <2>1. CASE TopOrLeft(a, b)
    BY <1>2, <1>9, <1>11, <2>1
  <2>2. CASE ~TopOrLeft(a, b)
    BY <1>2, <1>9, <1>11, <2>2
  <2> QED
    BY <2>1, <2>2
<1> QED
  BY <1>5, <1>10, <1>12, <1>13 DEF s, E

\* Turned about, an edge has its sides the other way; three of them add up to
\* the triangle.
LEMMA SidesAdd ==
  ASSUME NEW a, APoint(a), NEW b, APoint(b), NEW c, APoint(c),
         NEW p, p[1] \in Int, p[2] \in Int
  PROVE  /\ SideOf(b, a, p) = -SideOf(a, b, p)
         /\ SideOf(a, b, p) + SideOf(b, c, p) + SideOf(c, a, p)
              = (Hair * Hair) * Edge(a, b, c.x, c.y)
<1> DEFINE E(u, v) == Edge(u, v, p[1], p[2])
           H == Hair
           x == p[1]
           y == p[2]
           ax == a.x
           ay == a.y
           bx == b.x
           by == b.y
           cx == c.x
           cy == c.y
<1>1. /\ H \in Nat \ {0} /\ ax \in Int /\ ay \in Int /\ bx \in Int /\ by \in Int
      /\ cx \in Int /\ cy \in Int /\ x \in Int /\ y \in Int
  BY Points
<1>2. /\ E(a, b) = ((bx - ax) * (y - ay)) - ((by - ay) * (x - ax))
      /\ E(b, a) = ((ax - bx) * (y - by)) - ((ay - by) * (x - bx))
      /\ E(b, c) = ((cx - bx) * (y - by)) - ((cy - by) * (x - bx))
      /\ E(c, a) = ((ax - cx) * (y - cy)) - ((ay - cy) * (x - cx))
      /\ Edge(a, b, c.x, c.y) = ((bx - ax) * (cy - ay)) - ((by - ay) * (cx - ax))
  BY Zenon DEF Edge
<1>3. /\ SideOf(a, b, p) = ((H * H) * E(a, b)) + ((bx - ax) - (H * (by - ay)))
      /\ SideOf(b, a, p) = ((H * H) * E(b, a)) + ((ax - bx) - (H * (ay - by)))
      /\ SideOf(b, c, p) = ((H * H) * E(b, c)) + ((cx - bx) - (H * (cy - by)))
      /\ SideOf(c, a, p) = ((H * H) * E(c, a)) + ((ax - cx) - (H * (ay - cy)))
  BY SideIs
<1> HIDE DEF H, x, y, ax, ay, bx, by, cx, cy
<1>4. /\ ((ax - bx) * (y - by)) - ((ay - by) * (x - bx))
           = -(((bx - ax) * (y - ay)) - ((by - ay) * (x - ax)))
      /\ (((bx - ax) * (y - ay)) - ((by - ay) * (x - ax)))
         + (((cx - bx) * (y - by)) - ((cy - by) * (x - bx)))
         + (((ax - cx) * (y - cy)) - ((ay - cy) * (x - cx)))
           = ((bx - ax) * (cy - ay)) - ((by - ay) * (cx - ax))
  BY <1>1
<1>5. /\ E(a, b) \in Int /\ E(b, a) \in Int /\ E(b, c) \in Int /\ E(c, a) \in Int
      /\ Edge(a, b, c.x, c.y) \in Int
  BY <1>1, <1>2
<1>6. E(b, a) = -E(a, b) /\ E(a, b) + E(b, c) + E(c, a) = Edge(a, b, c.x, c.y)
  BY <1>2, <1>4, Zenon
<1> DEFINE e == E(a, b)
           f == E(b, a)
           g == E(b, c)
           h == E(c, a)
           A == Edge(a, b, c.x, c.y)
<1>7. /\ e \in Int /\ f \in Int /\ g \in Int /\ h \in Int /\ A \in Int
      /\ f = -e /\ A = e + g + h
  BY <1>5, <1>6
<1> HIDE DEF E, e, f, g, h, A
<1>8. /\ ((H * H) * (-e)) + ((ax - bx) - (H * (ay - by)))
           = -(((H * H) * e) + ((bx - ax) - (H * (by - ay))))
      /\ (((H * H) * e) + ((bx - ax) - (H * (by - ay))))
         + (((H * H) * g) + ((cx - bx) - (H * (cy - by))))
         + (((H * H) * h) + ((ax - cx) - (H * (ay - cy)))) = (H * H) * (e + g + h)
  BY <1>1, <1>7
<1> QED
  BY <1>3, <1>7, <1>8, Zenon DEF e, f, g, h, A, H

-----------------------------------------------------------------------------
(* A triangle covers the points strictly inside it, a quad's two triangles *)
(* the points strictly inside the quad.                                    *)

\* StrictlyInside, of the triangle a, b, c.
Strictly3(a, b, c, p) ==
  \/ SideOf(a, b, p) > 0 /\ SideOf(b, c, p) > 0 /\ SideOf(c, a, p) > 0
  \/ SideOf(a, b, p) < 0 /\ SideOf(b, c, p) < 0 /\ SideOf(c, a, p) < 0

LEMMA PlaceParts == ASSUME NEW p \in Place PROVE p[1] \in Int /\ p[2] \in Int
  BY RasterAssumption DEF Place

\* draw_triangle's test of one edge.
Reaches(a, b, p) == Edge(a, b, p[1], p[2]) >= (IF TopOrLeft(a, b) THEN 0 ELSE 1)

LEMMA InsideEdges ==
  ASSUME NEW w, NEW p
  PROVE  Inside(w, p) <=> /\ Reaches(w[1], w[2], p) /\ Reaches(w[2], w[3], p)
                          /\ Reaches(w[3], w[1], p)
<1>1. (1 % 3) + 1 = 2 /\ (2 % 3) + 1 = 3 /\ (3 % 3) + 1 = 1
  OBVIOUS
<1>2. Inside(w, p) <=> \A i \in 1 .. 3 : Reaches(w[i], w[(i % 3) + 1], p)
  BY Zenon DEF Inside, Reaches
<1>3. (\A i \in 1 .. 3 : Reaches(w[i], w[(i % 3) + 1], p))
        <=> /\ Reaches(w[1], w[(1 % 3) + 1], p) /\ Reaches(w[2], w[(2 % 3) + 1], p)
            /\ Reaches(w[3], w[(3 % 3) + 1], p)
  OBVIOUS
<1> QED
  BY <1>1, <1>2, <1>3, Zenon

LEMMA InsideIs ==
  ASSUME NEW w, APoint(w[1]), APoint(w[2]), APoint(w[3]), NEW p \in Place
  PROVE  Inside(w, p) <=> /\ SideOf(w[1], w[2], p) > 0 /\ SideOf(w[2], w[3], p) > 0
                          /\ SideOf(w[3], w[1], p) > 0
<1>1. /\ SideOf(w[1], w[2], p) > 0 <=> Reaches(w[1], w[2], p)
      /\ SideOf(w[2], w[3], p) > 0 <=> Reaches(w[2], w[3], p)
      /\ SideOf(w[3], w[1], p) > 0 <=> Reaches(w[3], w[1], p)
  BY SideSign, PlaceParts DEF Reaches
<1> QED
  BY <1>1, InsideEdges

LEMMA TriangleCovers ==
  ASSUME NEW c, APoint(c[1]), APoint(c[2]), APoint(c[3]), NEW p \in Place
  PROVE  p \in Covered(c) <=> InClip(p) /\ Strictly3(c[1], c[2], c[3], p)
<1> DEFINE A == Area(c)
           S(i, j) == SideOf(c[i], c[j], p)
           k == Hair * Hair
<1>1. /\ S(1, 2) \in Int /\ S(2, 3) \in Int /\ S(3, 1) \in Int /\ A \in Int
      /\ k \in Nat \ {0} /\ S(1, 2) + S(2, 3) + S(3, 1) = k * A
      /\ S(1, 3) = -S(3, 1) /\ S(3, 2) = -S(2, 3) /\ S(2, 1) = -S(1, 2)
  <2>1. p[1] \in Int /\ p[2] \in Int /\ Hair \in Nat \ {0}
    BY PlaceParts, Points
  <2>2. S(1, 2) + S(2, 3) + S(3, 1) = k * A
    BY <2>1, SidesAdd DEF Area
  <2>3. S(1, 2) \in Int /\ S(2, 3) \in Int /\ S(3, 1) \in Int
    BY <2>1, SideIs
  <2>4. A \in Int
    BY Points DEF Area, Edge
  <2>5. S(1, 3) = -S(3, 1) /\ S(3, 2) = -S(2, 3) /\ S(2, 1) = -S(1, 2)
    BY <2>1, SidesAdd
  <2>6. k \in Nat \ {0}
    BY <2>1
  <2> QED
    BY <2>2, <2>3, <2>4, <2>5, <2>6, Zenon
<1>2. k * A \in Int /\ (A = 0 => k * A = 0) /\ (A > 0 => k * A > 0) /\ (A < 0 => k * A < 0)
  <2> HIDE DEF k, A
  <2>1. /\ A > 0 => k * 1 <= k * A
        /\ A < 0 => k * A <= k * (-1)
    BY <1>1, TimesLess
  <2>2. k * 1 = k /\ k * (-1) = -k /\ k * 0 = 0 /\ k * A \in Int
    BY <1>1
  <2> QED
    BY <1>1, <2>1, <2>2
<1>3. p \in Covered(c) <=> A # 0 /\ InClip(p) /\ Inside(Wound(c), p)
  BY Zenon DEF Covered
<1>4. Strictly3(c[1], c[2], c[3], p)
        <=> \/ S(1, 2) > 0 /\ S(2, 3) > 0 /\ S(3, 1) > 0
            \/ S(1, 2) < 0 /\ S(2, 3) < 0 /\ S(3, 1) < 0
  BY Zenon DEF Strictly3
<1>5. A >= 0 => (Inside(Wound(c), p) <=> S(1, 2) > 0 /\ S(2, 3) > 0 /\ S(3, 1) > 0)
  <2>1. A >= 0 => Wound(c) = c
    BY <1>1 DEF Wound
  <2> QED
    BY <2>1, InsideIs
<1>6. A < 0 => (Inside(Wound(c), p) <=> S(1, 3) > 0 /\ S(3, 2) > 0 /\ S(2, 1) > 0)
  <2> DEFINE w == <<c[1], c[3], c[2]>>
  <2>1. A < 0 => Wound(c) = w
    BY <1>1 DEF Wound
  <2>2. w[1] = c[1] /\ w[2] = c[3] /\ w[3] = c[2]
    OBVIOUS
  <2> HIDE DEF w
  <2>3. Inside(w, p) <=> /\ SideOf(w[1], w[2], p) > 0 /\ SideOf(w[2], w[3], p) > 0
                         /\ SideOf(w[3], w[1], p) > 0
    <3>1. APoint(w[1]) /\ APoint(w[2]) /\ APoint(w[3])
      BY <2>2
    <3> QED
      BY <3>1, InsideIs
  <2> QED
    BY <2>1, <2>2, <2>3, Zenon
<1> DEFINE m == k * A
<1>7. /\ m \in Int /\ (A = 0 => m = 0) /\ (A > 0 => m > 0) /\ (A < 0 => m < 0)
      /\ S(1, 2) + S(2, 3) + S(3, 1) = m
  BY <1>1, <1>2
<1> HIDE DEF A, S, k, m
<1> QED
  BY <1>1, <1>3, <1>4, <1>5, <1>6, <1>7

\* The corners' weights at a point, by its sides.
LEMMA Barycentric ==
  ASSUME NEW x1 \in Int, NEW y1 \in Int, NEW x2 \in Int, NEW y2 \in Int,
         NEW x3 \in Int, NEW y3 \in Int, NEW X \in Int, NEW Y \in Int, NEW M \in Int
  PROVE  LET s1 == ((x3 - x2) * (Y - (M * y2))) - ((y3 - y2) * (X - (M * x2)))
             s2 == ((x1 - x3) * (Y - (M * y3))) - ((y1 - y3) * (X - (M * x3)))
             s3 == ((x2 - x1) * (Y - (M * y1))) - ((y2 - y1) * (X - (M * x1)))
             A == ((x2 - x1) * (y3 - y1)) - ((y2 - y1) * (x3 - x1))
         IN /\ s1 + s2 + s3 = A * M
            /\ (s1 * x1) + (s2 * x2) + (s3 * x3) = A * X
            /\ (s1 * y1) + (s2 * y2) + (s3 * y3) = A * Y
  OBVIOUS

\* The side of any edge is the mean, so weighed, of what the corners make of it.
LEMMA SideMeans ==
  ASSUME NEW a, APoint(a), NEW b, APoint(b), NEW c, APoint(c), NEW l, APoint(l),
         NEW m, APoint(m), NEW p \in Place
  PROVE  Edge(a, b, c.x, c.y) * SideOf(l, m, p)
           = (SideOf(b, c, p) * Edge(l, m, a.x, a.y))
             + (SideOf(c, a, p) * Edge(l, m, b.x, b.y))
             + (SideOf(a, b, p) * Edge(l, m, c.x, c.y))
<1> DEFINE H == Hair
           M == H * H
           X == (M * p[1]) + H
           Y == (M * p[2]) + 1
<1>1. M \in Int /\ X \in Int /\ Y \in Int
  <2>1. p[1] \in Int /\ p[2] \in Int /\ H \in Int
    BY PlaceParts, Points
  <2> HIDE DEF H
  <2> QED
    BY <2>1
<1>2. ASSUME NEW u, APoint(u), NEW v, APoint(v)
      PROVE  SideOf(u, v, p) = ((v.x - u.x) * (Y - (M * u.y))) - ((v.y - u.y) * (X - (M * u.x)))
  <2>1. /\ p[1] \in Int /\ p[2] \in Int /\ H \in Int
        /\ u.x \in Int /\ u.y \in Int /\ v.x \in Int /\ v.y \in Int
    BY <1>2, PlaceParts, Points
  <2>2. SideOf(u, v, p) = ((v.x - u.x) * (((H * H) * (p[2] - u.y)) + 1))
                          - ((v.y - u.y) * (((H * H) * (p[1] - u.x)) + H))
    BY Zenon DEF SideOf
  <2> HIDE DEF H
  <2>3. ((H * H) * (p[2] - u.y)) + 1 = Y - (M * u.y)
        /\ ((H * H) * (p[1] - u.x)) + H = X - (M * u.x)
    BY <2>1
  <2> QED
    BY <2>2, <2>3, Zenon
<1>3. /\ a.x \in Int /\ a.y \in Int /\ b.x \in Int /\ b.y \in Int /\ c.x \in Int
      /\ c.y \in Int /\ l.x \in Int /\ l.y \in Int /\ m.x \in Int /\ m.y \in Int
  BY Points
<1> DEFINE s1 == SideOf(b, c, p)
           s2 == SideOf(c, a, p)
           s3 == SideOf(a, b, p)
           A == Edge(a, b, c.x, c.y)
           d == m.x - l.x
           f == m.y - l.y
<1>4. /\ s1 = ((c.x - b.x) * (Y - (M * b.y))) - ((c.y - b.y) * (X - (M * b.x)))
      /\ s2 = ((a.x - c.x) * (Y - (M * c.y))) - ((a.y - c.y) * (X - (M * c.x)))
      /\ s3 = ((b.x - a.x) * (Y - (M * a.y))) - ((b.y - a.y) * (X - (M * a.x)))
      /\ A = ((b.x - a.x) * (c.y - a.y)) - ((b.y - a.y) * (c.x - a.x))
  BY <1>2, Zenon DEF Edge
<1>5. s1 \in Int /\ s2 \in Int /\ s3 \in Int /\ A \in Int /\ d \in Int /\ f \in Int
  <2>1. s1 \in Int /\ s2 \in Int /\ s3 \in Int
    BY SideIs, PlaceParts
  <2>2. A \in Int /\ d \in Int /\ f \in Int
    BY <1>3, <1>4
  <2> QED
    BY <2>1, <2>2, Zenon
<1>6. /\ SideOf(l, m, p) = (d * (Y - (M * l.y))) - (f * (X - (M * l.x)))
      /\ Edge(l, m, a.x, a.y) = (d * (a.y - l.y)) - (f * (a.x - l.x))
      /\ Edge(l, m, b.x, b.y) = (d * (b.y - l.y)) - (f * (b.x - l.x))
      /\ Edge(l, m, c.x, c.y) = (d * (c.y - l.y)) - (f * (c.x - l.x))
  BY <1>2, Zenon DEF Edge
<1> HIDE DEF M, X, Y
<1>7. /\ s1 + s2 + s3 = A * M
      /\ (s1 * a.x) + (s2 * b.x) + (s3 * c.x) = A * X
      /\ (s1 * a.y) + (s2 * b.y) + (s3 * c.y) = A * Y
  <2> DEFINE x1 == a.x
             y1 == a.y
             x2 == b.x
             y2 == b.y
             x3 == c.x
             y3 == c.y
  <2>1. x1 \in Int /\ y1 \in Int /\ x2 \in Int /\ y2 \in Int /\ x3 \in Int /\ y3 \in Int
    BY <1>3
  <2> HIDE DEF s1, s2, s3, A, x1, y1, x2, y2, x3, y3
  <2>2. /\ s1 = ((x3 - x2) * (Y - (M * y2))) - ((y3 - y2) * (X - (M * x2)))
        /\ s2 = ((x1 - x3) * (Y - (M * y3))) - ((y1 - y3) * (X - (M * x3)))
        /\ s3 = ((x2 - x1) * (Y - (M * y1))) - ((y2 - y1) * (X - (M * x1)))
        /\ A = ((x2 - x1) * (y3 - y1)) - ((y2 - y1) * (x3 - x1))
    BY <1>4, Zenon DEF x1, y1, x2, y2, x3, y3
  <2>3. /\ s1 + s2 + s3 = A * M
        /\ (s1 * x1) + (s2 * x2) + (s3 * x3) = A * X
        /\ (s1 * y1) + (s2 * y2) + (s3 * y3) = A * Y
    BY <1>1, <2>1, <2>2, Barycentric
  <2> QED
    BY <2>3 DEF x1, y1, x2, y2, x3, y3
<1> HIDE DEF s1, s2, s3, A, d, f
<1>8. A * ((d * (Y - (M * l.y))) - (f * (X - (M * l.x))))
        = (s1 * ((d * (a.y - l.y)) - (f * (a.x - l.x))))
          + (s2 * ((d * (b.y - l.y)) - (f * (b.x - l.x))))
          + (s3 * ((d * (c.y - l.y)) - (f * (c.x - l.x))))
  <2> DEFINE x1 == a.x
             y1 == a.y
             x2 == b.x
             y2 == b.y
             x3 == c.x
             y3 == c.y
             lx == l.x
             ly == l.y
  <2>1. /\ x1 \in Int /\ y1 \in Int /\ x2 \in Int /\ y2 \in Int /\ x3 \in Int
        /\ y3 \in Int /\ lx \in Int /\ ly \in Int
    BY <1>3
  <2>2. /\ s1 + s2 + s3 = A * M
        /\ (s1 * x1) + (s2 * x2) + (s3 * x3) = A * X
        /\ (s1 * y1) + (s2 * y2) + (s3 * y3) = A * Y
    BY <1>7
  <2> HIDE DEF x1, y1, x2, y2, x3, y3, lx, ly
  <2>3. A * ((d * (Y - (M * ly))) - (f * (X - (M * lx))))
          = (s1 * ((d * (y1 - ly)) - (f * (x1 - lx))))
            + (s2 * ((d * (y2 - ly)) - (f * (x2 - lx))))
            + (s3 * ((d * (y3 - ly)) - (f * (x3 - lx))))
    <3>1. A * ((d * (Y - (M * ly))) - (f * (X - (M * lx))))
            = (d * ((A * Y) - ((A * M) * ly))) - (f * ((A * X) - ((A * M) * lx)))
      BY <1>1, <1>5, <2>1
    <3>2. A * ((d * (Y - (M * ly))) - (f * (X - (M * lx))))
            = (d * (((s1 * y1) + (s2 * y2) + (s3 * y3)) - ((s1 + s2 + s3) * ly)))
              - (f * (((s1 * x1) + (s2 * x2) + (s3 * x3)) - ((s1 + s2 + s3) * lx)))
      BY <2>2, <3>1, Zenon
    <3>3. (d * (((s1 * y1) + (s2 * y2) + (s3 * y3)) - ((s1 + s2 + s3) * ly)))
          - (f * (((s1 * x1) + (s2 * x2) + (s3 * x3)) - ((s1 + s2 + s3) * lx)))
            = (s1 * ((d * (y1 - ly)) - (f * (x1 - lx))))
              + (s2 * ((d * (y2 - ly)) - (f * (x2 - lx))))
              + (s3 * ((d * (y3 - ly)) - (f * (x3 - lx))))
      BY <1>1, <1>5, <2>1
    <3> QED
      BY <3>2, <3>3, Zenon
  <2> QED
    BY <2>3, Zenon DEF x1, y1, x2, y2, x3, y3, lx, ly
<1> QED
  BY <1>6, <1>8, Zenon DEF s1, s2, s3, A

LEMMA EdgeTurns ==
  ASSUME NEW a, APoint(a), NEW b, APoint(b), NEW c, APoint(c)
  PROVE  /\ Edge(a, b, c.x, c.y) \in Int
         /\ Edge(b, c, a.x, a.y) = Edge(a, b, c.x, c.y)
         /\ Edge(c, a, b.x, b.y) = Edge(a, b, c.x, c.y)
         /\ Edge(b, a, c.x, c.y) = -Edge(a, b, c.x, c.y)
         /\ Edge(a, b, a.x, a.y) = 0 /\ Edge(a, b, b.x, b.y) = 0
<1> DEFINE ax == a.x
           ay == a.y
           bx == b.x
           by == b.y
           cx == c.x
           cy == c.y
<1>1. /\ ax \in Int /\ ay \in Int /\ bx \in Int /\ by \in Int /\ cx \in Int /\ cy \in Int
  BY Points
<1>2. /\ Edge(a, b, c.x, c.y) = ((bx - ax) * (cy - ay)) - ((by - ay) * (cx - ax))
      /\ Edge(b, c, a.x, a.y) = ((cx - bx) * (ay - by)) - ((cy - by) * (ax - bx))
      /\ Edge(c, a, b.x, b.y) = ((ax - cx) * (by - cy)) - ((ay - cy) * (bx - cx))
      /\ Edge(b, a, c.x, c.y) = ((ax - bx) * (cy - by)) - ((ay - by) * (cx - bx))
      /\ Edge(a, b, a.x, a.y) = ((bx - ax) * (ay - ay)) - ((by - ay) * (ax - ax))
      /\ Edge(a, b, b.x, b.y) = ((bx - ax) * (by - ay)) - ((by - ay) * (bx - ax))
  BY Zenon DEF Edge
<1> HIDE DEF ax, ay, bx, by, cx, cy
<1> DEFINE A == ((bx - ax) * (cy - ay)) - ((by - ay) * (cx - ax))
<1>3. /\ A \in Int
      /\ ((cx - bx) * (ay - by)) - ((cy - by) * (ax - bx)) = A
      /\ ((ax - cx) * (by - cy)) - ((ay - cy) * (bx - cx)) = A
      /\ ((ax - bx) * (cy - by)) - ((ay - by) * (cx - bx)) = -A
      /\ ((bx - ax) * (ay - ay)) - ((by - ay) * (ax - ax)) = 0
      /\ ((bx - ax) * (by - ay)) - ((by - ay) * (bx - ax)) = 0
  BY <1>1
<1> QED
  BY <1>2, <1>3, Zenon

\* A mean of what is above zero is above zero.
LEMMA MeanAbove ==
  ASSUME NEW A \in Nat \ {0}, NEW s \in Int, NEW u \in Nat \ {0}, NEW e \in Nat \ {0},
         NEW v \in Nat \ {0}, NEW g \in Nat \ {0}, NEW w \in Int,
         A * s = (u * e) + (v * g)
  PROVE  s > 0
<1>1. u * 1 <= u * e /\ v * 1 <= v * g
  BY TimesLess
<1>2. u * 1 = u /\ v * 1 = v /\ A * 0 = 0 /\ u * e \in Int /\ v * g \in Int
  OBVIOUS
<1>3. A * 0 < A * s
  BY <1>1, <1>2
<1> QED
  BY <1>3, Below

\* The corners of a quad, in the order they are named.
Quad(a, b, c, d) ==
  /\ APoint(a) /\ APoint(b) /\ APoint(c) /\ APoint(d)
  /\ Edge(a, b, d.x, d.y) > 0 /\ Edge(b, d, c.x, c.y) > 0
  /\ Edge(d, c, a.x, a.y) > 0 /\ Edge(c, a, b.x, b.y) > 0

Within4(a, b, c, d, p) ==
  /\ SideOf(a, b, p) > 0 /\ SideOf(b, d, p) > 0
  /\ SideOf(d, c, p) > 0 /\ SideOf(c, a, p) > 0

\* Of the two triangles one has the point, if it is in the quad, and neither if
\* it is not.
LEMMA Seam ==
  ASSUME NEW a, NEW b, NEW c, NEW d, Quad(a, b, c, d), NEW p \in Place
  PROVE  /\ Within4(a, b, c, d, p) <=> Strictly3(a, b, c, p) \/ Strictly3(b, c, d, p)
         /\ ~(Strictly3(a, b, c, p) /\ Strictly3(b, c, d, p))
         /\ ~(/\ SideOf(a, b, p) < 0 /\ SideOf(b, d, p) < 0
              /\ SideOf(d, c, p) < 0 /\ SideOf(c, a, p) < 0)
<1> DEFINE k == Hair * Hair
           E1 == Edge(a, b, c.x, c.y)
           E2 == Edge(b, d, c.x, c.y)
           E3 == Edge(a, b, d.x, d.y)
           E4 == Edge(d, c, a.x, a.y)
           ab == SideOf(a, b, p)
           bd == SideOf(b, d, p)
           dc == SideOf(d, c, p)
           ca == SideOf(c, a, p)
           bc == SideOf(b, c, p)
           da == SideOf(d, a, p)
<1>0. APoint(a) /\ APoint(b) /\ APoint(c) /\ APoint(d) /\ p[1] \in Int /\ p[2] \in Int
      /\ k \in Nat \ {0}
  <2>1. Hair \in Nat \ {0} /\ APoint(a) /\ APoint(b) /\ APoint(c) /\ APoint(d)
    BY Points DEF Quad
  <2>2. k \in Nat \ {0}
    BY <2>1
  <2> QED
    BY <2>1, <2>2, PlaceParts
<1>1. /\ E1 \in Nat \ {0} /\ E2 \in Nat \ {0} /\ E3 \in Nat \ {0} /\ E4 \in Nat \ {0}
      /\ Edge(b, d, a.x, a.y) = E3 /\ Edge(b, d, b.x, b.y) = 0
      /\ Edge(d, c, b.x, b.y) = E2 /\ Edge(d, c, c.x, c.y) = 0
      /\ Edge(c, a, b.x, b.y) = E1 /\ Edge(c, a, d.x, d.y) = E4
      /\ Edge(c, a, c.x, c.y) = 0 /\ Edge(a, b, b.x, b.y) = 0
      /\ Edge(b, c, d.x, d.y) = -E2 /\ Edge(a, d, c.x, c.y) = E4
  <2>1. /\ E1 \in Int /\ E2 \in Int /\ E3 \in Int /\ E4 \in Int
        /\ Edge(b, d, a.x, a.y) = E3 /\ Edge(b, d, b.x, b.y) = 0
        /\ Edge(d, c, b.x, b.y) = E2 /\ Edge(d, c, c.x, c.y) = 0
        /\ Edge(c, a, b.x, b.y) = E1 /\ Edge(c, a, d.x, d.y) = E4
        /\ Edge(c, a, c.x, c.y) = 0 /\ Edge(a, b, b.x, b.y) = 0
        /\ Edge(a, d, c.x, c.y) = E4
    BY <1>0, EdgeTurns
  <2>2. Edge(b, c, d.x, d.y) = -E2
    <3>1. Edge(c, b, d.x, d.y) = E2 /\ Edge(b, c, d.x, d.y) = -Edge(c, b, d.x, d.y)
      BY <1>0, EdgeTurns
    <3> QED
      BY <3>1, Zenon
  <2>3. E1 > 0 /\ E2 > 0 /\ E3 > 0 /\ E4 > 0
    BY <2>1 DEF Quad
  <2> HIDE DEF E1, E2, E3, E4
  <2> QED
    BY <2>1, <2>2, <2>3
<1>2. /\ ab \in Int /\ bd \in Int /\ dc \in Int /\ ca \in Int /\ bc \in Int /\ da \in Int
      /\ SideOf(c, b, p) = -bc /\ SideOf(c, d, p) = -dc /\ SideOf(d, b, p) = -bd
      /\ SideOf(a, d, p) = -da
  <2>1. ab \in Int /\ bd \in Int /\ dc \in Int /\ ca \in Int /\ bc \in Int /\ da \in Int
    BY <1>0, SideIs
  <2>2. SideOf(c, b, p) = -bc /\ SideOf(c, d, p) = -dc /\ SideOf(d, b, p) = -bd
        /\ SideOf(a, d, p) = -da
    BY <1>0, SidesAdd
  <2> QED
    BY <2>1, <2>2, Zenon
<1>3. /\ ab + bc + ca = k * E1 /\ ab + bd + da = k * E3
      /\ bc + (-dc) + (-bd) = k * (-E2) /\ (-da) + dc + ca = k * E4
  <2>1. /\ ab + bc + ca = k * E1 /\ ab + bd + da = k * E3
        /\ SideOf(b, c, p) + SideOf(c, d, p) + SideOf(d, b, p) = k * Edge(b, c, d.x, d.y)
        /\ SideOf(a, d, p) + SideOf(d, c, p) + SideOf(c, a, p) = k * Edge(a, d, c.x, c.y)
    BY <1>0, SidesAdd
  <2> QED
    BY <1>1, <1>2, <2>1, Zenon
<1>4. /\ k * E1 \in Nat \ {0} /\ k * E3 \in Nat \ {0} /\ k * E4 \in Nat \ {0}
      /\ k * (-E2) \in Int /\ k * (-E2) < 0
  <2> HIDE DEF k, E1, E2, E3, E4
  <2>1. ASSUME NEW E \in Nat \ {0} PROVE k * E \in Nat \ {0} /\ k * (-E) = -(k * E)
    BY <1>0
  <2>2. k * E2 \in Nat \ {0} /\ k * (-E2) = -(k * E2)
    BY <1>1, <2>1
  <2> QED
    BY <1>1, <2>1, <2>2
<1>5. ab > 0 /\ bc > 0 /\ ca > 0 => bd > 0 /\ dc > 0
  <2> SUFFICES ASSUME ab > 0, bc > 0, ca > 0 PROVE bd > 0 /\ dc > 0
    OBVIOUS
  <2>1. /\ E1 * bd = (bc * E3) + (ca * 0) + (ab * E2)
        /\ E1 * dc = (bc * E4) + (ca * E2) + (ab * 0)
    <3>1. /\ E1 * bd = (bc * Edge(b, d, a.x, a.y)) + (ca * Edge(b, d, b.x, b.y))
                       + (ab * Edge(b, d, c.x, c.y))
          /\ E1 * dc = (bc * Edge(d, c, a.x, a.y)) + (ca * Edge(d, c, b.x, b.y))
                       + (ab * Edge(d, c, c.x, c.y))
      BY <1>0, SideMeans
    <3> QED
      BY <1>1, <3>1, Zenon
  <2> HIDE DEF E1, E2, E3, E4, ab, bc, ca, bd, dc
  <2>2. E1 * bd = (bc * E3) + (ab * E2) /\ E1 * dc = (bc * E4) + (ca * E2)
    BY <1>1, <1>2, <2>1
  <2>3. ab \in Nat \ {0} /\ bc \in Nat \ {0} /\ ca \in Nat \ {0}
    BY <1>2
  <2> QED
    BY <1>1, <1>2, <2>2, <2>3, MeanAbove
<1>6. bc < 0 /\ dc > 0 /\ bd > 0 => ab > 0 /\ ca > 0
  <2> SUFFICES ASSUME bc < 0, dc > 0, bd > 0 PROVE ab > 0 /\ ca > 0
    OBVIOUS
  <2>1. /\ E2 * ab = (dc * 0) + ((-bc) * E3) + (bd * E1)
        /\ E2 * ca = (dc * E1) + ((-bc) * E4) + (bd * 0)
    <3>1. /\ E2 * ab = (dc * Edge(a, b, b.x, b.y)) + (SideOf(c, b, p) * Edge(a, b, d.x, d.y))
                       + (bd * Edge(a, b, c.x, c.y))
          /\ E2 * ca = (dc * Edge(c, a, b.x, b.y)) + (SideOf(c, b, p) * Edge(c, a, d.x, d.y))
                       + (bd * Edge(c, a, c.x, c.y))
      BY <1>0, SideMeans
    <3> QED
      BY <1>1, <1>2, <3>1, Zenon
  <2> HIDE DEF E1, E2, E3, E4, ab, bc, ca, bd, dc
  <2> DEFINE cb == -bc
  <2>2. cb \in Nat \ {0} /\ dc \in Nat \ {0} /\ bd \in Nat \ {0}
    BY <1>2
  <2>3. E2 * ab = (cb * E3) + (bd * E1) /\ E2 * ca = (dc * E1) + (cb * E4)
    <3>1. /\ E2 * ab = (dc * 0) + (cb * E3) + (bd * E1)
          /\ E2 * ca = (dc * E1) + (cb * E4) + (bd * 0)
      BY <2>1
    <3> HIDE DEF cb
    <3> QED
      BY <1>1, <2>2, <3>1
  <2> HIDE DEF cb
  <2> QED
    BY <1>1, <1>2, <2>2, <2>3, MeanAbove
<1>7. /\ Strictly3(a, b, c, p) <=> \/ ab > 0 /\ bc > 0 /\ ca > 0
                                   \/ ab < 0 /\ bc < 0 /\ ca < 0
      /\ Strictly3(b, c, d, p) <=> \/ bc > 0 /\ -dc > 0 /\ -bd > 0
                                   \/ bc < 0 /\ -dc < 0 /\ -bd < 0
      /\ Within4(a, b, c, d, p) <=> ab > 0 /\ bd > 0 /\ dc > 0 /\ ca > 0
  BY <1>2, Zenon DEF Strictly3, Within4
<1>8. bc # 0
  <2> SUFFICES ASSUME bc = 0 PROVE FALSE
    OBVIOUS
  <2>1. b.x = c.x /\ b.y = c.y
    BY <1>0, SideSign
  <2>2. E1 = Edge(a, b, b.x, b.y)
    BY <2>1, Zenon
  <2> QED
    BY <1>1, <2>2
<1> DEFINE K1 == k * E1
           K2 == k * (-E2)
           K3 == k * E3
           K4 == k * E4
<1>9. /\ K1 \in Nat \ {0} /\ K3 \in Nat \ {0} /\ K4 \in Nat \ {0} /\ K2 \in Int /\ K2 < 0
      /\ ab + bc + ca = K1 /\ ab + bd + da = K3 /\ bc + (-dc) + (-bd) = K2
      /\ (-da) + dc + ca = K4
  BY <1>3, <1>4
<1> HIDE DEF K1, K2, K3, K4, k, ab, bd, dc, ca, bc, da
<1>10. /\ Strictly3(a, b, c, p) <=> ab > 0 /\ bc > 0 /\ ca > 0
       /\ Strictly3(b, c, d, p) <=> bc < 0 /\ dc > 0 /\ bd > 0
       /\ ~(ab < 0 /\ bd < 0 /\ dc < 0 /\ ca < 0)
  BY <1>2, <1>7, <1>9
<1>11. /\ Within4(a, b, c, d, p) <=> Strictly3(a, b, c, p) \/ Strictly3(b, c, d, p)
       /\ ~(Strictly3(a, b, c, p) /\ Strictly3(b, c, d, p))
  BY <1>2, <1>5, <1>6, <1>7, <1>8, <1>10
<1> QED
  BY <1>10, <1>11 DEF ab, bd, dc, ca

LEMMA OutlineFour ==
  ASSUME NEW a, NEW b, NEW c, NEW d, NEW p
  PROVE  LET o == <<a, b, d, c>>
         IN /\ StrictlyInside(o, p)
                 <=> \/ Within4(a, b, c, d, p)
                     \/ /\ SideOf(a, b, p) < 0 /\ SideOf(b, d, p) < 0
                        /\ SideOf(d, c, p) < 0 /\ SideOf(c, a, p) < 0
            /\ Convex(o)
                 <=> \/ /\ Edge(a, b, d.x, d.y) > 0 /\ Edge(b, d, c.x, c.y) > 0
                        /\ Edge(d, c, a.x, a.y) > 0 /\ Edge(c, a, b.x, b.y) > 0
                     \/ /\ Edge(a, b, d.x, d.y) < 0 /\ Edge(b, d, c.x, c.y) < 0
                        /\ Edge(d, c, a.x, a.y) < 0 /\ Edge(c, a, b.x, b.y) < 0
<1> DEFINE o == <<a, b, d, c>>
           S(i) == SideOf(o[i], o[(i % 4) + 1], p)
           T(i) == Edge(o[i], o[(i % 4) + 1], o[((i + 1) % 4) + 1].x, o[((i + 1) % 4) + 1].y)
<1>1. /\ (1 % 4) + 1 = 2 /\ (2 % 4) + 1 = 3 /\ (3 % 4) + 1 = 4 /\ (4 % 4) + 1 = 1
      /\ ((1 + 1) % 4) + 1 = 3 /\ ((2 + 1) % 4) + 1 = 4 /\ ((3 + 1) % 4) + 1 = 1
      /\ ((4 + 1) % 4) + 1 = 2
  OBVIOUS
<1>2. Len(o) = 4 /\ o[1] = a /\ o[2] = b /\ o[3] = d /\ o[4] = c
  OBVIOUS
<1>3. StrictlyInside(o, p) <=> (\A i \in 1 .. 4 : S(i) > 0) \/ (\A i \in 1 .. 4 : S(i) < 0)
  <2> HIDE DEF o
  <2> QED
    BY <1>2, Zenon DEF StrictlyInside, SideOf
<1>4. Convex(o) <=> (\A i \in 1 .. 4 : T(i) > 0) \/ (\A i \in 1 .. 4 : T(i) < 0)
  <2> HIDE DEF o
  <2> QED
    BY <1>2, Zenon DEF Convex
<1>5. /\ S(1) = SideOf(a, b, p) /\ S(2) = SideOf(b, d, p) /\ S(3) = SideOf(d, c, p)
      /\ S(4) = SideOf(c, a, p)
      /\ T(1) = Edge(a, b, d.x, d.y) /\ T(2) = Edge(b, d, c.x, c.y)
      /\ T(3) = Edge(d, c, a.x, a.y) /\ T(4) = Edge(c, a, b.x, b.y)
  <2> HIDE DEF o
  <2> QED
    BY <1>1, <1>2, Zenon
<1> HIDE DEF S, T
<1>6. /\ (\A i \in 1 .. 4 : S(i) > 0) <=> S(1) > 0 /\ S(2) > 0 /\ S(3) > 0 /\ S(4) > 0
      /\ (\A i \in 1 .. 4 : S(i) < 0) <=> S(1) < 0 /\ S(2) < 0 /\ S(3) < 0 /\ S(4) < 0
      /\ (\A i \in 1 .. 4 : T(i) > 0) <=> T(1) > 0 /\ T(2) > 0 /\ T(3) > 0 /\ T(4) > 0
      /\ (\A i \in 1 .. 4 : T(i) < 0) <=> T(1) < 0 /\ T(2) < 0 /\ T(3) < 0 /\ T(4) < 0
  OBVIOUS
<1> HIDE DEF o
<1>7. /\ StrictlyInside(o, p)
           <=> \/ Within4(a, b, c, d, p)
               \/ /\ SideOf(a, b, p) < 0 /\ SideOf(b, d, p) < 0
                  /\ SideOf(d, c, p) < 0 /\ SideOf(c, a, p) < 0
      /\ Convex(o)
           <=> \/ /\ Edge(a, b, d.x, d.y) > 0 /\ Edge(b, d, c.x, c.y) > 0
                  /\ Edge(d, c, a.x, a.y) > 0 /\ Edge(c, a, b.x, b.y) > 0
               \/ /\ Edge(a, b, d.x, d.y) < 0 /\ Edge(b, d, c.x, c.y) < 0
                  /\ Edge(d, c, a.x, a.y) < 0 /\ Edge(c, a, b.x, b.y) < 0
  BY <1>3, <1>4, <1>5, <1>6, Zenon DEF Within4
<1> QED
  BY <1>7 DEF o

LEMMA OutlineThree ==
  ASSUME NEW o, Len(o) = 3, NEW p
  PROVE  StrictlyInside(o, p) <=> Strictly3(o[1], o[2], o[3], p)
<1> DEFINE S(i) == SideOf(o[i], o[(i % 3) + 1], p)
<1>1. (1 % 3) + 1 = 2 /\ (2 % 3) + 1 = 3 /\ (3 % 3) + 1 = 1
  OBVIOUS
<1>2. StrictlyInside(o, p) <=> (\A i \in 1 .. 3 : S(i) > 0) \/ (\A i \in 1 .. 3 : S(i) < 0)
  BY Zenon DEF StrictlyInside, SideOf
<1>3. S(1) = SideOf(o[1], o[2], p) /\ S(2) = SideOf(o[2], o[3], p)
      /\ S(3) = SideOf(o[3], o[1], p)
  BY <1>1, Zenon
<1> HIDE DEF S
<1>4. /\ (\A i \in 1 .. 3 : S(i) > 0) <=> S(1) > 0 /\ S(2) > 0 /\ S(3) > 0
      /\ (\A i \in 1 .. 3 : S(i) < 0) <=> S(1) < 0 /\ S(2) < 0 /\ S(3) < 0
  OBVIOUS
<1> QED
  BY <1>2, <1>3, <1>4, Zenon DEF Strictly3

\* Whichever way the corners go round.
LEMMA SeamAny ==
  ASSUME NEW a, APoint(a), NEW b, APoint(b), NEW c, APoint(c), NEW d, APoint(d),
         Convex(<<a, b, d, c>>), NEW p \in Place
  PROVE  /\ StrictlyInside(<<a, b, d, c>>, p)
              <=> Strictly3(a, b, c, p) \/ Strictly3(b, c, d, p)
         /\ ~(Strictly3(a, b, c, p) /\ Strictly3(b, c, d, p))
<1>1. StrictlyInside(<<a, b, d, c>>, p)
        <=> \/ Within4(a, b, c, d, p)
            \/ /\ SideOf(a, b, p) < 0 /\ SideOf(b, d, p) < 0
               /\ SideOf(d, c, p) < 0 /\ SideOf(c, a, p) < 0
  BY OutlineFour
<1>2. CASE Quad(a, b, c, d)
  BY <1>1, <1>2, Seam
<1>3. CASE /\ Edge(a, b, d.x, d.y) < 0 /\ Edge(b, d, c.x, c.y) < 0
           /\ Edge(d, c, a.x, a.y) < 0 /\ Edge(c, a, b.x, b.y) < 0
  <2>1. Quad(a, c, b, d)
    <3>1. /\ Edge(a, c, d.x, d.y) = -Edge(d, c, a.x, a.y)
          /\ Edge(c, d, b.x, b.y) = -Edge(b, d, c.x, c.y)
          /\ Edge(d, b, a.x, a.y) = -Edge(a, b, d.x, d.y)
          /\ Edge(b, a, c.x, c.y) = -Edge(c, a, b.x, b.y)
      <4>1. /\ Edge(a, c, d.x, d.y) = -Edge(c, a, d.x, d.y)
            /\ Edge(c, a, d.x, d.y) = Edge(d, c, a.x, a.y)
            /\ Edge(c, d, b.x, b.y) = -Edge(d, c, b.x, b.y)
            /\ Edge(d, c, b.x, b.y) = Edge(b, d, c.x, c.y)
            /\ Edge(d, b, a.x, a.y) = -Edge(b, d, a.x, a.y)
            /\ Edge(b, d, a.x, a.y) = Edge(a, b, d.x, d.y)
            /\ Edge(b, a, c.x, c.y) = -Edge(a, b, c.x, c.y)
            /\ Edge(a, b, c.x, c.y) = Edge(c, a, b.x, b.y)
        BY EdgeTurns
      <4> QED
        BY <4>1, Zenon
    <3>2. /\ Edge(d, c, a.x, a.y) \in Int /\ Edge(b, d, c.x, c.y) \in Int
          /\ Edge(a, b, d.x, d.y) \in Int /\ Edge(c, a, b.x, b.y) \in Int
      BY EdgeTurns
    <3> QED
      BY <1>3, <3>1, <3>2 DEF Quad
  <2>2. /\ SideOf(a, c, p) = -SideOf(c, a, p) /\ SideOf(c, d, p) = -SideOf(d, c, p)
        /\ SideOf(d, b, p) = -SideOf(b, d, p) /\ SideOf(b, a, p) = -SideOf(a, b, p)
        /\ SideOf(c, b, p) = -SideOf(b, c, p)
        /\ SideOf(a, b, p) \in Int /\ SideOf(b, d, p) \in Int /\ SideOf(d, c, p) \in Int
        /\ SideOf(c, a, p) \in Int /\ SideOf(b, c, p) \in Int
    BY PlaceParts, SideIs, SidesAdd
  <2>3. /\ Within4(a, c, b, d, p) <=> Strictly3(a, c, b, p) \/ Strictly3(c, b, d, p)
        /\ ~(Strictly3(a, c, b, p) /\ Strictly3(c, b, d, p))
        /\ ~(/\ SideOf(a, c, p) < 0 /\ SideOf(c, d, p) < 0
             /\ SideOf(d, b, p) < 0 /\ SideOf(b, a, p) < 0)
    BY <2>1, Seam
  <2>4. /\ Strictly3(a, c, b, p) <=> Strictly3(a, b, c, p)
        /\ Strictly3(c, b, d, p) <=> Strictly3(b, c, d, p)
    BY <2>2 DEF Strictly3
  <2>5. /\ Within4(a, c, b, d, p) <=> /\ SideOf(a, b, p) < 0 /\ SideOf(b, d, p) < 0
                                      /\ SideOf(d, c, p) < 0 /\ SideOf(c, a, p) < 0
        /\ ~Within4(a, b, c, d, p)
    BY <2>2, <2>3 DEF Within4
  <2> QED
    BY <1>1, <2>3, <2>4, <2>5
<1> QED
  BY <1>2, <1>3, OutlineFour DEF Quad

Flat(c, k, how) ==
  /\ APoint(c[1]) /\ APoint(c[2]) /\ APoint(c[3]) /\ k \in 0 .. 255
  /\ \A i \in 1 .. 3 : c[i].colour = k
  /\ ~how.textured

LEMMA FlatTriangle ==
  ASSUME NEW v, NEW c, NEW k, NEW how, Flat(c, k, how), NEW p \in Place
  PROVE  Triangle(v, c, how)[p]
           = IF InClip(p) /\ Strictly3(c[1], c[2], c[3], p)
             THEN Put(v[p], p, k, how.translucent, Dithers(how)) ELSE v[p]
<1>0. /\ APoint(c[1]) /\ APoint(c[2]) /\ APoint(c[3]) /\ k \in 0 .. 255
      /\ \A i \in 1 .. 3 : c[i].colour = k
      /\ ~how.textured
  BY Zenon DEF Flat
<1> DEFINE val == Values(c, "colour")
<1>1. Triangle(v, c, how)[p]
        = IF p \notin Covered(c) THEN v[p]
          ELSE Put(v[p], p, PlaneAt(c, val, p[1], p[2]), how.translucent, Dithers(how))
  BY <1>0 DEF Triangle
<1>2. p \in Covered(c) => PlaneAt(c, val, p[1], p[2]) = k
  <2> SUFFICES ASSUME p \in Covered(c) PROVE PlaneAt(c, val, p[1], p[2]) = k
    OBVIOUS
  <2>1. Area(c) # 0
    BY DEF Covered
  <2>2. Corners3(c)
    BY <1>0, Points DEF Corners3
  <2>3. k \in Int /\ Rises(c, val, k, 0, 0)
    BY <1>0, <2>2 DEF Values, Corners3, Rises
  <2>4. p[1] \in Int /\ p[2] \in Int
    BY PlaceParts
  <2> HIDE DEF val
  <2>5. PlaneAt(c, val, p[1], p[2]) = (k + (0 * p[1]) + (0 * p[2])) % 256
    BY <2>1, <2>2, <2>3, <2>4, PlaneExact
  <2>6. (k + (0 * p[1]) + (0 * p[2])) = k
    BY <2>3, <2>4
  <2>7. k % 256 = k
    BY <1>0
  <2> QED
    BY <2>5, <2>6, <2>7, Zenon
<1> QED
  BY <1>0, <1>1, <1>2, TriangleCovers

LEMMA FlatPolygon ==
  ASSUME NEW was, NEW c \in Polygons, NEW how, ~how.textured, NEW k,
         k = c[1].colour, \A i \in DOMAIN c : c[i].colour = k, Convex(Outline(c)),
         NEW p \in Place
  PROVE  Polygon(was, c, how)[p]
           = IF InClip(p) /\ StrictlyInside(Outline(c), p)
             THEN Put(was[p], p, k, how.translucent, Dithers(how)) ELSE was[p]
<1>1. c \in Seq(Vertex) /\ Len(c) \in 3 .. 4
  BY RasterAssumption
<1>2. \A i \in 1 .. Len(c) : c[i] \in Vertex /\ APoint(c[i]) /\ c[i].colour = k
  <2>1. \A i \in 1 .. Len(c) : c[i] \in Vertex /\ c[i].colour = k
    BY <1>1
  <2>2. \A i \in 1 .. Len(c) : APoint(c[i])
    BY <2>1, VertexParts DEF APoint
  <2> QED
    BY <2>1, <2>2
<1>3. k \in 0 .. 255
  <2>1. c[1] \in Vertex
    BY <1>1, <1>2
  <2> QED
    BY <2>1, VertexParts
<1>4. CASE Len(c) = 3
  <2>1. Outline(c) = c /\ Polygon(was, c, how) = Triangle(was, c, how)
    BY <1>4, Zenon DEF Outline, Polygon
  <2>2. StrictlyInside(c, p) <=> Strictly3(c[1], c[2], c[3], p)
    BY <1>4, OutlineThree
  <2>3. APoint(c[1]) /\ APoint(c[2]) /\ APoint(c[3]) /\ \A i \in 1 .. 3 : c[i].colour = k
    BY <1>2, <1>4
  <2>4. Polygon(was, c, how)[p] = Triangle(was, c, how)[p]
    BY <2>1, Zenon
  <2>5. Triangle(was, c, how)[p]
          = IF InClip(p) /\ Strictly3(c[1], c[2], c[3], p)
            THEN Put(was[p], p, k, how.translucent, Dithers(how)) ELSE was[p]
    <3>1. Flat(c, k, how)
      BY <1>3, <2>3, Zenon DEF Flat
    <3> QED
      BY ONLY <3>1, FlatTriangle, p \in Place, ZenonT(60)
  <2> QED
    BY <2>1, <2>2, <2>4, <2>5, Zenon
<1>5. CASE Len(c) = 4
  <2> DEFINE one == <<c[1], c[2], c[3]>>
             two == <<c[2], c[3], c[4]>>
             mid == Triangle(was, one, how)
  <2>1. /\ Outline(c) = <<c[1], c[2], c[4], c[3]>>
        /\ Polygon(was, c, how)[p] = Triangle(mid, two, how)[p]
    <3>1. Outline(c) = <<c[1], c[2], c[4], c[3]>> /\ Polygon(was, c, how) = Triangle(mid, two, how)
      BY <1>5 DEF Outline, Polygon
    <3> QED
      BY <3>1, Zenon
  <2>2. /\ APoint(c[1]) /\ APoint(c[2]) /\ APoint(c[3]) /\ APoint(c[4])
        /\ c[1].colour = k /\ c[2].colour = k /\ c[3].colour = k /\ c[4].colour = k
    BY <1>2, <1>5
  <2>3. /\ one[1] = c[1] /\ one[2] = c[2] /\ one[3] = c[3]
        /\ two[1] = c[2] /\ two[2] = c[3] /\ two[3] = c[4]
    OBVIOUS
  <2> HIDE DEF one, two
  <2>4. mid[p] = IF InClip(p) /\ Strictly3(c[1], c[2], c[3], p)
                 THEN Put(was[p], p, k, how.translucent, Dithers(how)) ELSE was[p]
    <3>1. Flat(one, k, how)
      BY <1>3, <2>2, <2>3 DEF Flat
    <3>2. mid[p] = IF InClip(p) /\ Strictly3(one[1], one[2], one[3], p)
                   THEN Put(was[p], p, k, how.translucent, Dithers(how)) ELSE was[p]
      BY ONLY <3>1, FlatTriangle, p \in Place, ZenonT(60)
    <3> QED
      BY <2>3, <3>2, Zenon
  <2> HIDE DEF mid
  <2>5. Polygon(was, c, how)[p] = IF InClip(p) /\ Strictly3(c[2], c[3], c[4], p)
                  THEN Put(mid[p], p, k, how.translucent, Dithers(how)) ELSE mid[p]
    <3>1. Flat(two, k, how)
      BY <1>3, <2>2, <2>3 DEF Flat
    <3>2. Triangle(mid, two, how)[p]
            = IF InClip(p) /\ Strictly3(two[1], two[2], two[3], p)
              THEN Put(mid[p], p, k, how.translucent, Dithers(how)) ELSE mid[p]
      BY ONLY <3>1, FlatTriangle, p \in Place, ZenonT(60)
    <3> QED
      BY <2>1, <2>3, <3>2, Zenon
  <2>6. /\ StrictlyInside(Outline(c), p)
             <=> Strictly3(c[1], c[2], c[3], p) \/ Strictly3(c[2], c[3], c[4], p)
        /\ ~(Strictly3(c[1], c[2], c[3], p) /\ Strictly3(c[2], c[3], c[4], p))
    BY <2>1, <2>2, SeamAny
  <2> QED
    BY <2>4, <2>5, <2>6
<1> QED
  BY <1>1, <1>4, <1>5

\* A flat polygon puts its colour over every pixel whose point is inside it,
\* once, and over no other: of the two triangles draw_polygon makes of a convex
\* quad, the edge rule of draw_triangle gives each pixel of the seam to one.
THEOREM RasterSeamDrawnOnce == RasterSpec => []SeamDrawnOnce
<1>1. Drawn => SeamDrawnOnce
  <2> SUFFICES ASSUME Drawn, last.kind = "polygon", ~last.how.textured,
                      \A i \in DOMAIN last.corners :
                        last.corners[i].colour = last.corners[1].colour,
                      Convex(Outline(last.corners)), NEW p \in Place
               PROVE  vram[p] = IF InClip(p) /\ StrictlyInside(Outline(last.corners), p)
                                THEN Put(last.before[p], p, last.corners[1].colour,
                                         last.how.translucent, Dithers(last.how))
                                ELSE last.before[p]
    BY Zenon DEF SeamDrawnOnce
  <2>1. PICK c \in Polygons, how \in Shadings :
          last.corners = c /\ last.how = how /\ vram = Polygon(last.before, c, how)
    BY DEF Drawn, PolygonDrawn, LineDrawn, RectangleDrawn, CopyDone
  <2>2. /\ ~how.textured /\ \A i \in DOMAIN c : c[i].colour = c[1].colour
        /\ Convex(Outline(c))
    BY <2>1, Zenon
  <2>3. \A v : Polygon(v, c, how)[p]
                = IF InClip(p) /\ StrictlyInside(Outline(c), p)
                  THEN Put(v[p], p, c[1].colour, how.translucent, Dithers(how)) ELSE v[p]
    BY <2>2, FlatPolygon, SMTT(30)
  <2> QED
    BY <2>1, <2>3, Zenon
<1> QED
  BY <1>1, RasterInvariant, PTL

-----------------------------------------------------------------------------
(* A rectangle's quad.                                                     *)

\* Its corner so far across and down.
CornerOf(c, i, j) ==
  [c EXCEPT !.x = @ + i, !.y = @ + j, !.u = @ + i, !.v = @ + j]

\* A rectangle's corner, its colour and the texel it begins at.
ACorner(c) ==
  \E x, y \in Int : c = [x |-> x, y |-> y, colour |-> 128, u |-> 1, v |-> 0]

LEMMA CornerIs ==
  ASSUME NEW c, ACorner(c), NEW i \in Int, NEW j \in Int
  PROVE  LET k == CornerOf(c, i, j)
         IN /\ c.x \in Int /\ c.y \in Int /\ c.colour = 128 /\ c.u = 1 /\ c.v = 0
            /\ k.x = c.x + i /\ k.y = c.y + j /\ k.colour = 128 /\ k.u = 1 + i /\ k.v = j
<1>1. PICK x, y \in Int : c = [x |-> x, y |-> y, colour |-> 128, u |-> 1, v |-> 0]
  BY DEF ACorner
<1> DEFINE k == CornerOf(c, i, j)
<1>2. c.x = x /\ c.y = y /\ c.colour = 128 /\ c.u = 1 /\ c.v = 0
  BY <1>1
<1>3. k.x = c.x + i /\ k.y = c.y + j /\ k.colour = c.colour /\ k.u = c.u + i /\ k.v = c.v + j
  <2>1. DOMAIN c = {"x", "y", "colour", "u", "v"}
    BY <1>1
  <2> QED
    BY <2>1 DEF CornerOf
<1> HIDE DEF k
<1>4. k.u = 1 + i /\ k.v = j
  BY <1>2, <1>3
<1>5. /\ c.x \in Int /\ c.y \in Int /\ c.colour = 128 /\ c.u = 1 /\ c.v = 0
      /\ k.x = c.x + i /\ k.y = c.y + j /\ k.colour = 128 /\ k.u = 1 + i /\ k.v = j
  BY <1>2, <1>3, <1>4
<1> QED
  BY <1>5 DEF k

LEMMA ProductSign ==
  ASSUME NEW w \in Nat \ {0}, NEW n \in Int
  PROVE  /\ w * n \in Int /\ (w * n >= 0 <=> n >= 0) /\ (w * n >= 1 <=> n >= 1)
<1>1. n >= 0 => w * 0 <= w * n
  BY TimesLess
<1>2. n >= 1 => w * 1 <= w * n
  BY TimesLess
<1>3. n <= 0 => w * n <= w * 0
  BY TimesLess
<1>4. n <= -1 => w * n <= w * (-1)
  BY TimesLess
<1>5. w * 0 = 0 /\ w * 1 = w /\ w * (-1) = -w /\ w * n \in Int
  OBVIOUS
<1> DEFINE m == w * n
<1>6. /\ n >= 0 => 0 <= m
      /\ n >= 1 => w <= m
      /\ n <= 0 => m <= 0
      /\ n <= -1 => m <= -w
      /\ m \in Int
  BY <1>1, <1>2, <1>3, <1>4, <1>5
<1> HIDE DEF m
<1>7. m \in Int /\ (m >= 0 <=> n >= 0) /\ (m >= 1 <=> n >= 1)
  BY <1>6
<1> QED
  BY <1>7 DEF m

\* The half above the diagonal, and the half below it.
Upper(c, w, h, p) ==
  /\ w > 0 /\ h > 0 /\ p[1] - c.x >= 0 /\ p[2] - c.y >= 0
  /\ (w * h) - (w * (p[2] - c.y)) - (h * (p[1] - c.x)) >= 1
Lower(c, w, h, p) ==
  /\ w > 0 /\ h > 0 /\ w - (p[1] - c.x) >= 1 /\ h - (p[2] - c.y) >= 1
  /\ ~((w * h) - (w * (p[2] - c.y)) - (h * (p[1] - c.x)) >= 1)

LEMMA UpperHalf ==
  ASSUME NEW c, ACorner(c), NEW w \in Nat, NEW h \in Nat, NEW p \in Place
  PROVE  LET t == <<CornerOf(c, 0, 0), CornerOf(c, w, 0), CornerOf(c, 0, h)>>
         IN p \in Covered(t) <=> InClip(p) /\ Upper(c, w, h, p)
<1> DEFINE t == <<CornerOf(c, 0, 0), CornerOf(c, w, 0), CornerOf(c, 0, h)>>
           x0 == c.x
           y0 == c.y
           x == p[1] - x0
           y == p[2] - y0
           e == (w * h) - (w * y) - (h * x)
<1>1. x0 \in Int /\ y0 \in Int /\ p[1] \in Int /\ p[2] \in Int /\ x \in Int /\ y \in Int
  BY PlaceParts, CornerIs
<1>2. /\ t[1].x = x0 /\ t[1].y = y0 /\ t[2].x = x0 + w /\ t[2].y = y0
      /\ t[3].x = x0 /\ t[3].y = y0 + h
  <2>1. t[1] = CornerOf(c, 0, 0) /\ t[2] = CornerOf(c, w, 0) /\ t[3] = CornerOf(c, 0, h)
    OBVIOUS
  <2>2. /\ CornerOf(c, 0, 0).x = c.x + 0 /\ CornerOf(c, 0, 0).y = c.y + 0
        /\ CornerOf(c, w, 0).x = c.x + w /\ CornerOf(c, w, 0).y = c.y + 0
        /\ CornerOf(c, 0, h).x = c.x + 0 /\ CornerOf(c, 0, h).y = c.y + h
    BY CornerIs
  <2> HIDE DEF t
  <2> QED
    BY <1>1, <2>1, <2>2
<1> HIDE DEF t
<1>3. /\ Area(t) = (((x0 + w) - x0) * ((y0 + h) - y0)) - ((y0 - y0) * (x0 - x0))
      /\ Edge(t[1], t[2], p[1], p[2]) = (((x0 + w) - x0) * (p[2] - y0)) - ((y0 - y0) * (p[1] - x0))
      /\ Edge(t[2], t[3], p[1], p[2]) = ((x0 - (x0 + w)) * (p[2] - y0))
                                        - (((y0 + h) - y0) * (p[1] - (x0 + w)))
      /\ Edge(t[3], t[1], p[1], p[2]) = ((x0 - x0) * (p[2] - (y0 + h)))
                                        - ((y0 - (y0 + h)) * (p[1] - x0))
  BY <1>2, Zenon DEF Area, Edge
<1>4. /\ (((x0 + w) - x0) * ((y0 + h) - y0)) - ((y0 - y0) * (x0 - x0)) = w * h
      /\ (((x0 + w) - x0) * (p[2] - y0)) - ((y0 - y0) * (p[1] - x0)) = w * y
      /\ ((x0 - (x0 + w)) * (p[2] - y0)) - (((y0 + h) - y0) * (p[1] - (x0 + w))) = e
      /\ ((x0 - x0) * (p[2] - (y0 + h))) - ((y0 - (y0 + h)) * (p[1] - x0)) = h * x
  <2> DEFINE q == p[1]
             r == p[2]
  <2>1. q \in Int /\ r \in Int
    BY <1>1
  <2> HIDE DEF q, r, x0, y0
  <2>2. /\ (((x0 + w) - x0) * ((y0 + h) - y0)) - ((y0 - y0) * (x0 - x0)) = w * h
        /\ (((x0 + w) - x0) * (r - y0)) - ((y0 - y0) * (q - x0)) = w * (r - y0)
        /\ ((x0 - (x0 + w)) * (r - y0)) - (((y0 + h) - y0) * (q - (x0 + w)))
             = (w * h) - (w * (r - y0)) - (h * (q - x0))
        /\ ((x0 - x0) * (r - (y0 + h))) - ((y0 - (y0 + h)) * (q - x0)) = h * (q - x0)
    BY <1>1, <2>1
  <2> QED
    BY <2>2 DEF q, r
<1>5. /\ Area(t) = w * h /\ Edge(t[1], t[2], p[1], p[2]) = w * y
      /\ Edge(t[2], t[3], p[1], p[2]) = e /\ Edge(t[3], t[1], p[1], p[2]) = h * x
  BY <1>3, <1>4, Zenon
<1>6. p \in Covered(t) <=> Area(t) # 0 /\ InClip(p) /\ Inside(Wound(t), p)
  BY Zenon DEF Covered
<1>7. (w * h = 0 <=> w = 0 \/ h = 0) /\ w * h \in Nat
  <2>1. w > 0 => (w * h >= 1 <=> h >= 1)
    BY ProductSign
  <2>2. w = 0 => w * h = 0
    OBVIOUS
  <2>3. w * h \in Nat
    OBVIOUS
  <2> QED
    BY <2>1, <2>2, <2>3
<1>8. CASE w = 0 \/ h = 0
  <2>1. ~Upper(c, w, h, p)
    BY <1>8 DEF Upper
  <2>2. p \in Covered(t) <=> InClip(p) /\ Upper(c, w, h, p)
    BY <1>5, <1>6, <1>7, <1>8, <2>1
  <2> QED
    BY <2>2 DEF t
<1>9. CASE w > 0 /\ h > 0
  <2>1. Wound(t) = t
    <3>1. ~(Area(t) < 0)
      BY <1>5, <1>7
    <3> QED
      BY <3>1 DEF Wound
  <2>2. TopOrLeft(t[1], t[2]) /\ ~TopOrLeft(t[2], t[3]) /\ TopOrLeft(t[3], t[1])
    <3> HIDE DEF x0, y0
    <3> QED
      BY <1>1, <1>2, <1>9 DEF TopOrLeft
  <2>3. /\ Reaches(t[1], t[2], p) <=> w * y >= 0
        /\ Reaches(t[2], t[3], p) <=> e >= 1
        /\ Reaches(t[3], t[1], p) <=> h * x >= 0
    BY <1>5, <2>2, Zenon DEF Reaches
  <2>4. (w * y >= 0 <=> y >= 0) /\ (h * x >= 0 <=> x >= 0)
    BY <1>1, <1>9, ProductSign
  <2>5. Area(t) # 0
    BY <1>5, <1>7, <1>9
  <2> HIDE DEF e, x, y
  <2>6. p \in Covered(t) <=> InClip(p) /\ y >= 0 /\ e >= 1 /\ x >= 0
    BY <1>6, <2>1, <2>3, <2>4, <2>5, InsideEdges
  <2>7. p \in Covered(t) <=> InClip(p) /\ Upper(c, w, h, p)
    BY <1>9, <2>6, Zenon DEF Upper, e, x, y, x0, y0
  <2> QED
    BY <2>7 DEF t
<1> QED
  BY <1>8, <1>9

LEMMA LowerHalf ==
  ASSUME NEW c, ACorner(c), NEW w \in Nat, NEW h \in Nat, NEW p \in Place
  PROVE  LET t == <<CornerOf(c, w, 0), CornerOf(c, 0, h), CornerOf(c, w, h)>>
         IN p \in Covered(t) <=> InClip(p) /\ Lower(c, w, h, p)
<1> DEFINE t == <<CornerOf(c, w, 0), CornerOf(c, 0, h), CornerOf(c, w, h)>>
           s == <<t[1], t[3], t[2]>>
           x0 == c.x
           y0 == c.y
           x == p[1] - x0
           y == p[2] - y0
           e == (w * h) - (w * y) - (h * x)
<1>1. x0 \in Int /\ y0 \in Int /\ p[1] \in Int /\ p[2] \in Int /\ x \in Int /\ y \in Int
  BY PlaceParts, CornerIs
<1>2. /\ t[1].x = x0 + w /\ t[1].y = y0 /\ t[2].x = x0 /\ t[2].y = y0 + h
      /\ t[3].x = x0 + w /\ t[3].y = y0 + h
  <2>1. t[1] = CornerOf(c, w, 0) /\ t[2] = CornerOf(c, 0, h) /\ t[3] = CornerOf(c, w, h)
    OBVIOUS
  <2>2. /\ CornerOf(c, w, 0).x = c.x + w /\ CornerOf(c, w, 0).y = c.y + 0
        /\ CornerOf(c, 0, h).x = c.x + 0 /\ CornerOf(c, 0, h).y = c.y + h
        /\ CornerOf(c, w, h).x = c.x + w /\ CornerOf(c, w, h).y = c.y + h
    BY CornerIs
  <2> HIDE DEF t
  <2> QED
    BY <1>1, <2>1, <2>2
<1> HIDE DEF t
<1>3. /\ Area(t) = ((x0 - (x0 + w)) * ((y0 + h) - y0))
                   - (((y0 + h) - y0) * ((x0 + w) - (x0 + w)))
      /\ Edge(t[1], t[3], p[1], p[2]) = (((x0 + w) - (x0 + w)) * (p[2] - y0))
                                        - (((y0 + h) - y0) * (p[1] - (x0 + w)))
      /\ Edge(t[3], t[2], p[1], p[2]) = ((x0 - (x0 + w)) * (p[2] - (y0 + h)))
                                        - (((y0 + h) - (y0 + h)) * (p[1] - (x0 + w)))
      /\ Edge(t[2], t[1], p[1], p[2]) = (((x0 + w) - x0) * (p[2] - (y0 + h)))
                                        - ((y0 - (y0 + h)) * (p[1] - x0))
  BY <1>2, Zenon DEF Area, Edge
<1>4. /\ ((x0 - (x0 + w)) * ((y0 + h) - y0)) - (((y0 + h) - y0) * ((x0 + w) - (x0 + w)))
           = -(w * h)
      /\ (((x0 + w) - (x0 + w)) * (p[2] - y0)) - (((y0 + h) - y0) * (p[1] - (x0 + w)))
           = h * (w - x)
      /\ ((x0 - (x0 + w)) * (p[2] - (y0 + h))) - (((y0 + h) - (y0 + h)) * (p[1] - (x0 + w)))
           = w * (h - y)
      /\ (((x0 + w) - x0) * (p[2] - (y0 + h))) - ((y0 - (y0 + h)) * (p[1] - x0)) = -e
  <2> DEFINE q == p[1]
             r == p[2]
  <2>1. q \in Int /\ r \in Int
    BY <1>1
  <2> HIDE DEF q, r, x0, y0
  <2>2. /\ ((x0 - (x0 + w)) * ((y0 + h) - y0)) - (((y0 + h) - y0) * ((x0 + w) - (x0 + w)))
             = -(w * h)
        /\ (((x0 + w) - (x0 + w)) * (r - y0)) - (((y0 + h) - y0) * (q - (x0 + w)))
             = h * (w - (q - x0))
        /\ ((x0 - (x0 + w)) * (r - (y0 + h))) - (((y0 + h) - (y0 + h)) * (q - (x0 + w)))
             = w * (h - (r - y0))
        /\ (((x0 + w) - x0) * (r - (y0 + h))) - ((y0 - (y0 + h)) * (q - x0))
             = -((w * h) - (w * (r - y0)) - (h * (q - x0)))
    BY <1>1, <2>1
  <2> QED
    BY <2>2 DEF q, r
<1>5. /\ Area(t) = -(w * h) /\ Edge(t[1], t[3], p[1], p[2]) = h * (w - x)
      /\ Edge(t[3], t[2], p[1], p[2]) = w * (h - y) /\ Edge(t[2], t[1], p[1], p[2]) = -e
  BY <1>3, <1>4, Zenon
<1>6. p \in Covered(t) <=> Area(t) # 0 /\ InClip(p) /\ Inside(Wound(t), p)
  BY Zenon DEF Covered
<1>7. (w * h = 0 <=> w = 0 \/ h = 0) /\ w * h \in Nat
  <2>1. w > 0 => (w * h >= 1 <=> h >= 1)
    BY ProductSign
  <2>2. w = 0 => w * h = 0
    OBVIOUS
  <2>3. w * h \in Nat
    OBVIOUS
  <2> QED
    BY <2>1, <2>2, <2>3
<1>8. CASE w = 0 \/ h = 0
  <2>1. ~Lower(c, w, h, p)
    BY <1>8 DEF Lower
  <2>2. p \in Covered(t) <=> InClip(p) /\ Lower(c, w, h, p)
    BY <1>5, <1>6, <1>7, <1>8, <2>1
  <2> QED
    BY <2>2 DEF t
<1>9. CASE w > 0 /\ h > 0
  <2>1. Wound(t) = s
    <3>1. Area(t) < 0
      BY <1>5, <1>7, <1>9
    <3> QED
      BY <3>1 DEF Wound
  <2>2. ~TopOrLeft(t[1], t[3]) /\ ~TopOrLeft(t[3], t[2]) /\ TopOrLeft(t[2], t[1])
    <3> HIDE DEF x0, y0
    <3> QED
      BY <1>1, <1>2, <1>9 DEF TopOrLeft
  <2>3. /\ Reaches(t[1], t[3], p) <=> h * (w - x) >= 1
        /\ Reaches(t[3], t[2], p) <=> w * (h - y) >= 1
        /\ Reaches(t[2], t[1], p) <=> -e >= 0
    BY <1>5, <2>2, Zenon DEF Reaches
  <2>4. (h * (w - x) >= 1 <=> w - x >= 1) /\ (w * (h - y) >= 1 <=> h - y >= 1)
    <3> DEFINE i == w - x
               j == h - y
    <3>1. i \in Int /\ j \in Int
      BY <1>1
    <3> HIDE DEF i, j
    <3>2. (h * i >= 1 <=> i >= 1) /\ (w * j >= 1 <=> j >= 1)
      BY <1>9, <3>1, ProductSign
    <3> QED
      BY <3>2 DEF i, j
  <2>5. Area(t) # 0
    BY <1>5, <1>7, <1>9
  <2>6. -e >= 0 <=> ~(e >= 1)
    <3>1. e \in Int
      <4> HIDE DEF x, y
      <4> QED
        BY <1>1
    <3> HIDE DEF e
    <3> QED
      BY <3>1
  <2>7. Inside(s, p) <=> Reaches(t[1], t[3], p) /\ Reaches(t[3], t[2], p)
                         /\ Reaches(t[2], t[1], p)
    BY InsideEdges
  <2> HIDE DEF e, x, y, s
  <2>8. p \in Covered(t) <=> InClip(p) /\ w - x >= 1 /\ h - y >= 1 /\ ~(e >= 1)
    BY <1>6, <2>1, <2>3, <2>4, <2>5, <2>6, <2>7
  <2>9. p \in Covered(t) <=> InClip(p) /\ Lower(c, w, h, p)
    BY <1>9, <2>8, Zenon DEF Lower, e, x, y, x0, y0
  <2> QED
    BY <2>9 DEF t
<1> QED
  BY <1>8, <1>9

\* The two halves are the rectangle, and have no pixel in common.
LEMMA Halves ==
  ASSUME NEW c, ACorner(c), NEW w \in Nat, NEW h \in Nat, NEW p \in Place
  PROVE  /\ Within(p[1] - c.x, p[2] - c.y, w, h) <=> Upper(c, w, h, p) \/ Lower(c, w, h, p)
         /\ ~(Upper(c, w, h, p) /\ Lower(c, w, h, p))
<1> DEFINE x == p[1] - c.x
           y == p[2] - c.y
           e == (w * h) - (w * y) - (h * x)
<1>1. x \in Int /\ y \in Int
  BY PlaceParts, CornerIs
<1> HIDE DEF x, y
<1>2. e = (w * (h - y)) - (h * x) /\ e = (h * (w - x)) - (w * y)
  BY <1>1
<1>3. e \in Int
  BY <1>1
<1>4. CASE w > 0 /\ h > 0
  <2> DEFINE i == w - x
             j == h - y
             wj == w * j
             hx == h * x
             hi == h * i
             wy == w * y
  <2>0. i \in Int /\ j \in Int
    BY <1>1
  <2>1. /\ wj \in Int /\ hx \in Int /\ hi \in Int /\ wy \in Int
        /\ (hx >= 0 <=> x >= 0) /\ (hx >= 1 <=> x >= 1)
        /\ (wy >= 0 <=> y >= 0) /\ (wy >= 1 <=> y >= 1)
        /\ (wj >= 1 <=> j >= 1) /\ (hi >= 1 <=> i >= 1)
    <3> HIDE DEF i, j
    <3> QED
      BY <1>1, <1>4, <2>0, ProductSign
  <2>2. e = wj - hx /\ e = hi - wy
    BY <1>2
  <2> HIDE DEF e, wj, hx, hi, wy
  <2>3. /\ x >= 0 /\ y >= 0 /\ e >= 1 => x <= w - 1 /\ y <= h - 1
        /\ i >= 1 /\ j >= 1 /\ ~(e >= 1) => x >= 0 /\ y >= 0
    BY <1>1, <1>3, <2>1, <2>2
  <2>4. x \in 0 .. w - 1 /\ y \in 0 .. h - 1
          <=> (x >= 0 /\ y >= 0 /\ e >= 1) \/ (i >= 1 /\ j >= 1 /\ ~(e >= 1))
    BY <1>1, <1>3, <2>3
  <2>5. /\ Within(x, y, w, h) <=> x \in 0 .. w - 1 /\ y \in 0 .. h - 1
        /\ Upper(c, w, h, p) <=> x >= 0 /\ y >= 0 /\ e >= 1
        /\ Lower(c, w, h, p) <=> i >= 1 /\ j >= 1 /\ ~(e >= 1)
    BY <1>4, Zenon DEF Within, Upper, Lower, e, x, y
  <2> QED
    BY <2>4, <2>5, Zenon DEF x, y
<1>5. CASE w = 0 \/ h = 0
  <2>1. ~Upper(c, w, h, p) /\ ~Lower(c, w, h, p)
    BY <1>5 DEF Upper, Lower
  <2>2. ~Within(x, y, w, h)
    BY <1>1, <1>5 DEF Within
  <2> QED
    BY <2>1, <2>2 DEF x, y
<1> QED
  BY <1>4, <1>5

\* A texel is looked for round at 256, in the rows of the page.
LEMMA Sampled ==
  ASSUME set \in Settings, NEW v, NEW s \in Int, NEW t \in Int
  PROVE  /\ Sample(v, s % 256, t % 256) = Sample(v, s, t)
         /\ \E q \in Place : q[2] >= set.page[2] /\ \A u : Sample(u, s, t) = u[q]
<1> DEFINE F(c, size) == (c % 256) % size
           a == set.page[1] + F(s, set.window[1] + 1)
           b == set.page[2] + F(t, set.window[2] + 1)
           q == <<(a % Width), (b % Height)>>
<1>1. /\ set.page[1] \in Nat /\ set.page[2] \in Nat /\ set.window[1] \in Nat
      /\ set.window[2] \in Nat /\ set.page[2] + set.window[2] < Height
      /\ Width \in Nat \ {0} /\ Height \in Nat \ {0}
  BY RasterAssumption DEF Setting, Place
<1>2. \A u : Sample(u, s, t) = u[q]
  BY Zenon DEF Sample
<1>3. /\ F(s, set.window[1] + 1) \in Nat
      /\ F(t, set.window[2] + 1) \in 0 .. set.window[2]
  <2>1. s % 256 \in Int /\ t % 256 \in Int
    OBVIOUS
  <2> DEFINE x == s % 256
             y == t % 256
             m == set.window[1] + 1
             n == set.window[2] + 1
  <2>2. x \in Int /\ y \in Int /\ m \in Nat \ {0} /\ n \in Nat \ {0}
    BY <1>1, <2>1
  <2> HIDE DEF x, y, m, n
  <2>3. x % m \in 0 .. m - 1 /\ y % n \in 0 .. n - 1
    BY <2>2, Division
  <2>4. x % m \in Nat
    BY <2>2, <2>3
  <2>5. F(s, set.window[1] + 1) = x % m /\ F(t, set.window[2] + 1) = y % n
    BY Zenon DEF x, y, m, n
  <2>6. n - 1 = set.window[2]
    BY <1>1 DEF n
  <2> HIDE DEF F
  <2> QED
    BY <2>3, <2>4, <2>5, <2>6
<1>4. a \in Int /\ b \in set.page[2] .. Height - 1
  <2> HIDE DEF F
  <2> QED
    BY <1>1, <1>3
<1> HIDE DEF a, b
<1>5. a % Width \in 0 .. Width - 1 /\ b % Height = b
  <2>1. a % Width \in 0 .. Width - 1
    BY <1>1, <1>4, Division
  <2>2. b \in 0 .. Height - 1
    BY <1>1, <1>4
  <2>3. b % Height = b
    BY <1>1, <2>2, SmallRemainder
  <2> QED
    BY <2>1, <2>3
<1>6. q \in Place /\ q[2] >= set.page[2]
  BY <1>1, <1>4, <1>5 DEF Place
<1>7. Sample(v, s % 256, t % 256) = Sample(v, s, t)
  <2>1. (s % 256) % 256 = s % 256 /\ (t % 256) % 256 = t % 256
    OBVIOUS
  <2> QED
    BY <2>1, ZenonT(60) DEF Sample
<1> HIDE DEF q
<1> QED
  BY <1>2, <1>6, <1>7

\* A pixel of the rectangle c.
SpritePixel(v, c, how, p) ==
  IF how.textured
  THEN PutTexel(v[p], p, Sample(v, c.u + (p[1] - c.x), c.v + (p[2] - c.y)), how, 128, FALSE)
  ELSE Put(v[p], p, 128, how.translucent, FALSE)

\* A triangle cut from a rectangle, drawn as one is.
Cut(t, c, how) ==
  /\ set \in Settings /\ ACorner(c) /\ ~Dithers(how)
  /\ \A i \in 1 .. 3 : \E j, k \in Int : t[i] = CornerOf(c, j, k)

LEMMA CutTriangle ==
  ASSUME NEW v, NEW c, NEW t, NEW how, Cut(t, c, how), NEW p \in Place
  PROVE  Triangle(v, t, how)[p]
           = IF p \in Covered(t) THEN SpritePixel(v, c, how, p) ELSE v[p]
<1> DEFINE x == p[1]
           y == p[2]
           At(field) == PlaneAt(t, Values(t, field), x, y)
           s == c.u + (x - c.x)
           r == c.v + (y - c.y)
<1>0. /\ set \in Settings /\ ACorner(c) /\ ~Dithers(how)
      /\ \A i \in 1 .. 3 : \E j, k \in Int : t[i] = CornerOf(c, j, k)
  BY Zenon DEF Cut
<1>1. Triangle(v, t, how)[p]
        = IF p \notin Covered(t) THEN v[p]
          ELSE IF how.textured
          THEN PutTexel(v[p], p, Sample(v, At("u"), At("v")), how, At("colour"), Dithers(how))
          ELSE Put(v[p], p, At("colour"), how.translucent, Dithers(how))
  BY Zenon DEF Triangle
<1>2. /\ x \in Int /\ y \in Int /\ c.x \in Int /\ c.y \in Int /\ c.u = 1 /\ c.v = 0
  BY <1>0, PlaceParts, CornerIs
<1>3. \A i \in 1 .. 3 : /\ t[i].x \in Int /\ t[i].y \in Int /\ t[i].colour = 128
                        /\ t[i].u = 1 + (t[i].x - c.x) /\ t[i].v = t[i].y - c.y
  <2> SUFFICES ASSUME NEW i \in 1 .. 3
               PROVE  /\ t[i].x \in Int /\ t[i].y \in Int /\ t[i].colour = 128
                      /\ t[i].u = 1 + (t[i].x - c.x) /\ t[i].v = t[i].y - c.y
    OBVIOUS
  <2>1. PICK j \in Int, k \in Int : t[i] = CornerOf(c, j, k)
    BY <1>0
  <2>2. t[i].x = c.x + j /\ t[i].y = c.y + k /\ t[i].colour = 128
        /\ t[i].u = 1 + j /\ t[i].v = k
    BY <1>0, <2>1, CornerIs
  <2> QED
    BY <1>2, <2>2
<1>4. Corners3(t)
  BY <1>3 DEF Corners3
<1>5. ASSUME p \in Covered(t)
      PROVE  At("u") = s % 256 /\ At("v") = r % 256 /\ At("colour") = 128
  <2>1. Area(t) # 0
    BY <1>5 DEF Covered
  <2> DEFINE a == 1 - c.x
             b == -c.y
  <2>2. a \in Int /\ b \in Int
    BY <1>2
  <2>3. \A i \in 1 .. 3 :
          /\ Values(t, "u")[i] = a + (1 * t[i].x) + (0 * t[i].y)
          /\ Values(t, "v")[i] = b + (0 * t[i].x) + (1 * t[i].y)
          /\ Values(t, "colour")[i] = 128 + (0 * t[i].x) + (0 * t[i].y)
    <3>1. \A i \in 1 .. 3 : Values(t, "u")[i] = t[i].u /\ Values(t, "v")[i] = t[i].v
                            /\ Values(t, "colour")[i] = t[i].colour
      BY DEF Values
    <3> QED
      BY <1>2, <1>3, <3>1
  <2> HIDE DEF a, b
  <2>4. /\ At("u") = (a + (1 * x) + (0 * y)) % 256
        /\ At("v") = (b + (0 * x) + (1 * y)) % 256
        /\ At("colour") = (128 + (0 * x) + (0 * y)) % 256
    <3> HIDE DEF x, y
    <3> DEFINE f == Values(t, "u")
               g == Values(t, "v")
               h == Values(t, "colour")
    <3>1. Rises(t, f, a, 1, 0) /\ Rises(t, g, b, 0, 1) /\ Rises(t, h, 128, 0, 0)
      BY <2>3, Zenon DEF Rises
    <3>2. 0 \in Int /\ 1 \in Int /\ 128 \in Int
      OBVIOUS
    <3> HIDE DEF f, g, h
    <3>3. PlaneAt(t, f, x, y) = (a + (1 * x) + (0 * y)) % 256
      BY ONLY <1>2, <1>4, <2>1, <2>2, <3>1, <3>2, PlaneExact
    <3>4. PlaneAt(t, g, x, y) = (b + (0 * x) + (1 * y)) % 256
      BY ONLY <1>2, <1>4, <2>1, <2>2, <3>1, <3>2, PlaneExact
    <3>5. PlaneAt(t, h, x, y) = (128 + (0 * x) + (0 * y)) % 256
      BY ONLY <1>2, <1>4, <2>1, <2>2, <3>1, <3>2, PlaneExact
    <3> QED
      BY <3>3, <3>4, <3>5, Zenon DEF f, g, h
  <2>5. /\ a + (1 * x) + (0 * y) = s /\ b + (0 * x) + (1 * y) = r
        /\ 128 + (0 * x) + (0 * y) = 128
    BY <1>2 DEF a, b
  <2>6. 128 % 256 = 128
    OBVIOUS
  <2> HIDE DEF At
  <2> QED
    BY <2>4, <2>5, <2>6, ZenonT(60)
<1>6. s \in Int /\ r \in Int
  BY <1>2
<1>7. Sample(v, s % 256, r % 256) = Sample(v, s, r)
  BY <1>0, <1>6, Sampled
<1>8. /\ \A behind, colour, over : Put(behind, p, colour, over, Dithers(how))
                                     = Put(behind, p, colour, over, FALSE)
      /\ \A behind, found : PutTexel(behind, p, found, how, 128, Dithers(how))
                              = PutTexel(behind, p, found, how, 128, FALSE)
  <2>1. \A behind, colour, over : Put(behind, p, colour, over, Dithers(how))
                                    = Put(behind, p, colour, over, FALSE)
    BY <1>0, Zenon DEF Put
  <2> QED
    BY <2>1, ZenonT(60) DEF PutTexel
<1> HIDE DEF At, s, r
<1>9. CASE p \in Covered(t)
  <2>1. Triangle(v, t, how)[p]
          = IF how.textured
            THEN PutTexel(v[p], p, Sample(v, At("u"), At("v")), how, At("colour"), Dithers(how))
            ELSE Put(v[p], p, At("colour"), how.translucent, Dithers(how))
    BY <1>1, <1>9, Zenon
  <2>2. Triangle(v, t, how)[p]
          = IF how.textured
            THEN PutTexel(v[p], p, Sample(v, s, r), how, 128, FALSE)
            ELSE Put(v[p], p, 128, how.translucent, FALSE)
    <3>1. At("u") = s % 256 /\ At("v") = r % 256 /\ At("colour") = 128
      BY <1>5, <1>9
    <3>2. Triangle(v, t, how)[p]
            = IF how.textured
              THEN PutTexel(v[p], p, Sample(v, s, r), how, 128, Dithers(how))
              ELSE Put(v[p], p, 128, how.translucent, Dithers(how))
      BY ONLY <1>7, <2>1, <3>1, Zenon
    <3> QED
      BY ONLY <1>8, <3>2, Zenon
  <2> QED
    BY <1>9, <2>2, Zenon DEF SpritePixel, s, r, x, y
<1> QED
  BY <1>1, <1>9, Zenon

\* The quad's second triangle reads the page as the first found it: all that a
\* rectangle covers is above it.
LEMMA SpriteQuad ==
  ASSUME set \in Settings, NEW v, NEW c, ACorner(c), NEW w \in Nat, NEW h \in Nat, NEW how,
         ~Dithers(how), ClearOfPage(how, c.y + h - 1), set.flip = <<FALSE, FALSE>>
  PROVE  Rectangle(v, c, w, h, how)
           = Polygon(v, <<CornerOf(c, 0, 0), CornerOf(c, w, 0), CornerOf(c, 0, h),
                          CornerOf(c, w, h)>>, how)
<1> DEFINE one == <<CornerOf(c, 0, 0), CornerOf(c, w, 0), CornerOf(c, 0, h)>>
           two == <<CornerOf(c, w, 0), CornerOf(c, 0, h), CornerOf(c, w, h)>>
           all == <<CornerOf(c, 0, 0), CornerOf(c, w, 0), CornerOf(c, 0, h),
                    CornerOf(c, w, h)>>
           mid == Triangle(v, one, how)
<1>1. Polygon(v, all, how) = Triangle(mid, two, how)
  <2>1. /\ Len(all) = 4 /\ all[1] = CornerOf(c, 0, 0) /\ all[2] = CornerOf(c, w, 0)
        /\ all[3] = CornerOf(c, 0, h) /\ all[4] = CornerOf(c, w, h)
    OBVIOUS
  <2> HIDE DEF all
  <2>2. Len(all) # 3
    BY <2>1
  <2> QED
    BY <2>1, <2>2, Zenon DEF Polygon
<1>2. Cut(one, c, how) /\ Cut(two, c, how)
  <2>1. /\ one[1] = CornerOf(c, 0, 0) /\ one[2] = CornerOf(c, w, 0)
        /\ one[3] = CornerOf(c, 0, h)
        /\ two[1] = CornerOf(c, w, 0) /\ two[2] = CornerOf(c, 0, h)
        /\ two[3] = CornerOf(c, w, h)
    OBVIOUS
  <2> HIDE DEF one, two
  <2>2. 0 \in Int /\ w \in Int /\ h \in Int
    OBVIOUS
  <2> QED
    BY <2>1, <2>2 DEF Cut
<1>3. \A p \in Place : /\ p \in Covered(one) <=> InClip(p) /\ Upper(c, w, h, p)
                       /\ p \in Covered(two) <=> InClip(p) /\ Lower(c, w, h, p)
  BY UpperHalf, LowerHalf
<1> HIDE DEF one, two, all
<1>4. \A p \in Place : mid[p] = IF InClip(p) /\ Upper(c, w, h, p)
                                THEN SpritePixel(v, c, how, p) ELSE v[p]
  <2> SUFFICES ASSUME NEW p \in Place
               PROVE  mid[p] = IF InClip(p) /\ Upper(c, w, h, p)
                               THEN SpritePixel(v, c, how, p) ELSE v[p]
    OBVIOUS
  <2>1. mid[p] = IF p \in Covered(one) THEN SpritePixel(v, c, how, p) ELSE v[p]
    BY ONLY <1>2, p \in Place, CutTriangle
  <2> QED
    BY <1>3, <2>1, Zenon
<1> HIDE DEF mid
<1>5. ASSUME NEW p \in Place, Lower(c, w, h, p)
      PROVE  SpritePixel(mid, c, how, p) = SpritePixel(v, c, how, p)
  <2>1. mid[p] = v[p]
    BY <1>4, <1>5, Halves
  <2>2. how.textured => Sample(mid, c.u + (p[1] - c.x), c.v + (p[2] - c.y))
                          = Sample(v, c.u + (p[1] - c.x), c.v + (p[2] - c.y))
    <3> SUFFICES ASSUME how.textured
                 PROVE  Sample(mid, c.u + (p[1] - c.x), c.v + (p[2] - c.y))
                          = Sample(v, c.u + (p[1] - c.x), c.v + (p[2] - c.y))
      OBVIOUS
    <3> DEFINE s == c.u + (p[1] - c.x)
               t == c.v + (p[2] - c.y)
    <3>1. s \in Int /\ t \in Int /\ c.y \in Int
      <4>1. c.x \in Int /\ c.y \in Int /\ c.u = 1 /\ c.v = 0 /\ p[1] \in Int /\ p[2] \in Int
        BY CornerIs, PlaceParts
      <4> QED
        BY <4>1
    <3> HIDE DEF s, t
    <3>2. PICK q \in Place : q[2] >= set.page[2] /\ \A u : Sample(u, s, t) = u[q]
      BY <3>1, Sampled, ZenonT(60)
    <3>3. ~Upper(c, w, h, q)
      <4> SUFFICES ASSUME Upper(c, w, h, q) PROVE FALSE
        OBVIOUS
      <4>1. q[2] - c.y <= h - 1
        <5>1. Within(q[1] - c.x, q[2] - c.y, w, h)
          BY Halves
        <5> QED
          BY <5>1 DEF Within
      <4>2. c.y + h - 1 < set.page[2]
        BY DEF ClearOfPage
      <4>3. set.page[2] \in Int /\ q[2] \in Int
        BY PlaceParts, RasterAssumption DEF Setting, Place
      <4> QED
        BY <3>1, <3>2, <4>1, <4>2, <4>3
    <3>4. mid[q] = v[q]
      BY <1>4, <3>3
    <3> QED
      BY <3>2, <3>4, Zenon DEF s, t
  <2> QED
    BY <2>1, <2>2, Zenon DEF SpritePixel
<1>6. ASSUME NEW p \in Place
      PROVE  Triangle(mid, two, how)[p]
               = IF InClip(p) /\ Within(p[1] - c.x, p[2] - c.y, w, h)
                 THEN SpritePixel(v, c, how, p) ELSE v[p]
  <2>1. Triangle(mid, two, how)[p]
          = IF p \in Covered(two) THEN SpritePixel(mid, c, how, p) ELSE mid[p]
    BY ONLY <1>2, p \in Place, CutTriangle
  <2>2. Within(p[1] - c.x, p[2] - c.y, w, h) <=> Upper(c, w, h, p) \/ Lower(c, w, h, p)
    BY Halves
  <2>3. ~(Upper(c, w, h, p) /\ Lower(c, w, h, p))
    BY Halves
  <2> QED
    BY <1>3, <1>4, <1>5, <2>1, <2>2, <2>3
<1>7. ASSUME NEW p \in Place
      PROVE  Rectangle(v, c, w, h, how)[p]
               = IF InClip(p) /\ Within(p[1] - c.x, p[2] - c.y, w, h)
                 THEN SpritePixel(v, c, how, p) ELSE v[p]
  <2>1. ~set.flip[1] /\ ~set.flip[2] /\ c.colour = 128
    BY CornerIs
  <2> QED
    BY <2>1, Zenon DEF Rectangle, SpritePixel
<1>8. /\ Rectangle(v, c, w, h, how) = [p \in Place |-> Rectangle(v, c, w, h, how)[p]]
      /\ Triangle(mid, two, how) = [p \in Place |-> Triangle(mid, two, how)[p]]
  BY DEF Rectangle, Triangle
<1>9. \A p \in Place : Rectangle(v, c, w, h, how)[p] = Triangle(mid, two, how)[p]
  BY <1>6, <1>7, Zenon
<1> QED
  BY <1>1, <1>8, <1>9, Zenon DEF all

\* A rectangle and the quad with its corners put the same texels on the same
\* pixels: the edge rule leaves draw_polygon the row and the column that
\* draw_rectangle does not draw either, and its planes step whole texels.
THEOREM RasterSpriteIsQuad == RasterSpec => []SpriteIsQuad
<1>1. Drawn => SpriteIsQuad
  <2> SUFFICES ASSUME Drawn, last.kind = "rectangle", set.flip = <<FALSE, FALSE>>,
                      ~Dithers(last.how)
               PROVE  LET c == last.corner
                          w == last.width
                          h == last.height
                      IN vram = Polygon(last.before,
                                        <<CornerOf(c, 0, 0), CornerOf(c, w, 0),
                                          CornerOf(c, 0, h), CornerOf(c, w, h)>>, last.how)
    BY Zenon DEF SpriteIsQuad, CornerOf
  <2>1. RectangleDrawn
    BY DEF Drawn, PolygonDrawn, LineDrawn, CopyDone
  <2>2. PICK a \in Corners, w \in Sides, h \in Sides, how \in Shadings :
          /\ last.corner = [x |-> a[1], y |-> a[2], colour |-> 128, u |-> 1, v |-> 0]
          /\ last.width = w /\ last.height = h /\ last.how = how
          /\ ClearOfPage(how, a[2] + h - 1)
          /\ vram = Rectangle(last.before, last.corner, w, h, how)
    BY <2>1 DEF RectangleDrawn
  <2> DEFINE c == [x |-> a[1], y |-> a[2], colour |-> 128, u |-> 1, v |-> 0]
  <2>3. ACorner(c) /\ c.y = a[2] /\ w \in Nat /\ h \in Nat
    <3>1. a[1] \in Int /\ a[2] \in Int /\ w \in Nat /\ h \in Nat
      BY RasterAssumption DEF Coordinate
    <3> QED
      BY <3>1 DEF ACorner
  <2>4. last.corner = c
    BY <2>2
  <2> HIDE DEF c
  <2>5. set \in Settings /\ ~Dithers(how) /\ ClearOfPage(how, c.y + h - 1)
    BY <2>2, <2>3 DEF Drawn
  <2>6. \A v : Rectangle(v, c, w, h, how)
                 = Polygon(v, <<CornerOf(c, 0, 0), CornerOf(c, w, 0), CornerOf(c, 0, h),
                                CornerOf(c, w, h)>>, how)
    BY <2>3, <2>5, SpriteQuad
  <2> QED
    BY <2>2, <2>4, <2>6, Zenon
<1> QED
  BY <1>1, RasterInvariant, PTL

-----------------------------------------------------------------------------
(* Every pixel drawn is a pixel.                                           *)

\* What to_pixel makes of any sum fits five bits.
LEMMA LevelFits == ASSUME NEW n \in Int, NEW m \in Int PROVE ToLevel(n, m) \in Level
<1> DEFINE k == Clamped(n + m)
<1>1. k \in 0 .. 255
  BY DEF Clamped
<1>2. ToLevel(n, m) = k \div 8
  BY DEF ToLevel
<1> HIDE DEF k
<1>3. k \div 8 \in 0 .. 31
  BY <1>1
<1> QED
  BY <1>2, <1>3 DEF Level

LEMMA Blended ==
  ASSUME set \in Settings, NEW level \in Level, NEW colour \in Int
  PROVE  FromLevel(level) \in Int /\ Blend(FromLevel(level), colour) \in Int
<1>1. FromLevel(level) \in Int
  BY DEF FromLevel, Level
<1> DEFINE f == FromLevel(level)
<1>2. /\ f \div 2 + colour \div 2 \in Int /\ f + colour \in Int
      /\ f - colour \in Int /\ f + colour \div 4 \in Int
  <2> HIDE DEF f
  <2>1. f \in Int
    BY <1>1 DEF f
  <2>2. f \div 2 \in Int /\ colour \div 2 \in Int /\ colour \div 4 \in Int
    BY <2>1
  <2> QED
    BY <2>1, <2>2
<1>3. set.blend \in 0 .. 3
  BY RasterAssumption DEF Setting
<1>4. set.blend = 0 \/ set.blend = 1 \/ set.blend = 2 \/ set.blend = 3
  BY <1>3
<1> HIDE DEF f
<1>5. Blend(f, colour) \in Int
  <2>1. CASE set.blend = 0
    BY <1>2, <2>1 DEF Blend
  <2>2. CASE set.blend = 1
    BY <1>2, <2>2 DEF Blend
  <2>3. CASE set.blend = 2
    <3>1. Blend(f, colour) = IF f < colour THEN 0 ELSE f - colour
      BY <2>3 DEF Blend
    <3> QED
      BY <1>2, <3>1
  <2>4. CASE set.blend = 3
    BY <1>2, <2>4 DEF Blend
  <2> QED
    BY <1>4, <2>1, <2>2, <2>3, <2>4
<1> QED
  BY <1>1, <1>5 DEF f

LEMMA Dithered ==
  ASSUME NEW p \in Place
  PROVE  Dither[(p[2] % 4) + 1][(p[1] % 4) + 1] \in Int
<1>1. p[1] % 4 \in 0 .. 3 /\ p[2] % 4 \in 0 .. 3
  <2>1. p[1] \in Int /\ p[2] \in Int
    BY PlaceParts
  <2> QED
    BY <2>1
<1>2. \A i, j \in 1 .. 4 : Dither[i][j] \in Int
  <2> SUFFICES ASSUME NEW i \in 1 .. 4, NEW j \in 1 .. 4 PROVE Dither[i][j] \in Int
    OBVIOUS
  <2>1. i \in {1, 2, 3, 4} /\ j \in {1, 2, 3, 4}
    OBVIOUS
  <2>2. \A k \in {1, 2, 3, 4} :
          Dither[1][k] \in Int /\ Dither[2][k] \in Int /\ Dither[3][k] \in Int
          /\ Dither[4][k] \in Int
    BY DEF Dither
  <2> QED
    BY <2>1, <2>2
<1>3. (p[1] % 4) + 1 \in 1 .. 4 /\ (p[2] % 4) + 1 \in 1 .. 4
  BY <1>1
<1> QED
  BY <1>2, <1>3

LEMMA PutTyped ==
  ASSUME set \in Settings, NEW behind \in Pixel, NEW p \in Place, NEW colour \in Int,
         NEW translucent, NEW dither
  PROVE  Put(behind, p, colour, translucent, dither) \in Pixel
<1> DEFINE over == IF translucent THEN Blend(FromLevel(behind.level), colour) ELSE colour
           by == IF dither THEN Dither[(p[2] % 4) + 1][(p[1] % 4) + 1] ELSE 0
<1>1. behind.level \in Level /\ set.mask \in BOOLEAN
  BY RasterAssumption DEF Pixel, Setting
<1>2. over \in Int
  BY <1>1, Blended
<1>3. by \in Int
  BY Dithered
<1>4. Put(behind, p, colour, translucent, dither)
        = IF set.check /\ behind.mask THEN behind
          ELSE [level |-> ToLevel(over, by), mask |-> set.mask]
  BY Zenon DEF Put
<1> HIDE DEF over, by
<1>5. ToLevel(over, by) \in Level
  BY <1>2, <1>3, LevelFits
<1>6. [level |-> ToLevel(over, by), mask |-> set.mask] \in Pixel
  BY <1>1, <1>5 DEF Pixel
<1> QED
  BY <1>4, <1>6

LEMMA PutTexelTyped ==
  ASSUME set \in Settings, NEW behind \in Pixel, NEW p \in Place, NEW found \in Pixel,
         NEW how, NEW tint \in Int, NEW dither
  PROVE  PutTexel(behind, p, found, how, tint, dither) \in Pixel
<1> DEFINE colour == IF how.raw THEN FromLevel(found.level)
                     ELSE (FromLevel(found.level) * tint) \div 128
           f == FromLevel(found.level)
<1>1. f \in Int
  <2>1. found.level \in Level
    BY DEF Pixel
  <2> QED
    BY <2>1 DEF FromLevel, Level
<1>2. (f * tint) \div 128 \in Int
  <2> HIDE DEF f
  <2>1. f * tint \in Int
    BY <1>1
  <2> DEFINE n == f * tint
  <2> HIDE DEF n
  <2>2. n \in Int
    BY <2>1 DEF n
  <2>3. n \div 128 \in Int
    BY <2>2
  <2> QED
    BY <2>3 DEF n
<1>3. colour \in Int
  BY <1>1, <1>2
<1>4. PutTexel(behind, p, found, how, tint, dither)
        = IF found.level = 0 /\ ~found.mask THEN behind
          ELSE Put(behind, p, colour, how.translucent /\ found.mask, dither)
  BY Zenon DEF PutTexel
<1> HIDE DEF colour
<1>5. Put(behind, p, colour, how.translucent /\ found.mask, dither) \in Pixel
  BY <1>3, PutTyped
<1> QED
  BY <1>4, <1>5

LEMMA PlaneTyped ==
  ASSUME NEW c, Corners3(c), NEW val, Numbers3(val), NEW x \in Int, NEW y \in Int,
         Area(c) # 0
  PROVE  PlaneAt(c, val, x, y) \in Int
<1>1. PICK a \in 1 .. 3, qx \in Int, qy \in Int : PlaneParts(c, val, x, y, a, qx, qy)
  BY PlaneIs
<1> DEFINE S == PlaneScale
           t == (qx * (x - c[a].x))
           u == (qy * (y - c[a].y))
           n == ((val[a] * S) + (S \div 2) + t + u) * S
<1>2. /\ S \in Nat \ {0} /\ S \div 2 \in Int /\ val[a] \in Int
      /\ c[a].x \in Int /\ c[a].y \in Int
  BY RasterAssumption DEF Numbers3, Corners3
<1>3. t \in Int /\ u \in Int
  BY <1>2
<1>4. PlaneAt(c, val, x, y) = (n % WordSize) \div (S * S)
  BY <1>1 DEF PlaneParts
<1>5. n \in Int
  <2> HIDE DEF S, t, u
  <2> QED
    BY <1>2, <1>3
<1>6. WordSize \in Nat \ {0} /\ S * S \in Nat \ {0}
  <2>1. S * S \in Nat \ {0}
    BY <1>2
  <2>2. WordSize = 256 * S * S
    BY DEF WordSize
  <2> DEFINE T == S * S
  <2>3. WordSize = 256 * T
    BY <1>2, <2>2
  <2> HIDE DEF T
  <2>4. T \in Nat \ {0}
    BY <2>1 DEF T
  <2>5. WordSize \in Nat \ {0}
    BY <2>3, <2>4
  <2> QED
    BY <2>1, <2>5
<1> HIDE DEF S, n
<1> DEFINE T == S * S
           m == n % WordSize
<1>7. m \in Int
  BY <1>5, <1>6, Division
<1> HIDE DEF m, T
<1>8. m \div T \in Int
  <2>1. T \in Nat \ {0}
    BY <1>6 DEF T
  <2> QED
    BY <1>7, <2>1, Division
<1> QED
  BY <1>4, <1>8 DEF m, T

\* A texel read is one of the pixels of VRAM.
LEMMA SampleTyped ==
  ASSUME set \in Settings, NEW v \in [Place -> Pixel], NEW s \in Int, NEW t \in Int
  PROVE  Sample(v, s, t) \in Pixel
<1>1. PICK q \in Place : \A u : Sample(u, s, t) = u[q]
  BY Sampled
<1> QED
  BY <1>1

LEMMA TriangleTyped ==
  ASSUME set \in Settings, NEW v \in [Place -> Pixel], NEW c, NEW how,
         \A i \in 1 .. 3 : c[i] \in Vertex
  PROVE  Triangle(v, c, how) \in [Place -> Pixel]
<1>1. /\ Corners3(c) /\ Numbers3(Values(c, "colour"))
      /\ Numbers3(Values(c, "u")) /\ Numbers3(Values(c, "v"))
  <2>1. ASSUME NEW z \in Vertex
        PROVE  /\ z.x \in Int /\ z.y \in Int /\ z.colour \in Int
               /\ z.u \in Int /\ z.v \in Int
    <3>1. /\ z.x \in Int /\ z.y \in Int /\ z.colour \in 0 .. 255
          /\ z.u \in 0 .. 255 /\ z.v \in 0 .. 255
      BY VertexParts
    <3> QED
      BY <3>1
  <2> QED
    BY <2>1 DEF Corners3, Numbers3, Values
<1> DEFINE At(field, p) == PlaneAt(c, Values(c, field), p[1], p[2])
           texel(p) == PutTexel(v[p], p, Sample(v, At("u", p), At("v", p)), how,
                                At("colour", p), Dithers(how))
           pixel(p) == Put(v[p], p, At("colour", p), how.translucent, Dithers(how))
<1>2. Triangle(v, c, how)
        = [p \in Place |-> IF p \notin Covered(c) THEN v[p]
                           ELSE IF how.textured THEN texel(p) ELSE pixel(p)]
  BY Zenon DEF Triangle
<1>3. ASSUME NEW p \in Place, p \in Covered(c)
      PROVE  texel(p) \in Pixel /\ pixel(p) \in Pixel
  <2>1. p[1] \in Int /\ p[2] \in Int /\ Area(c) # 0 /\ v[p] \in Pixel
    BY <1>3, PlaceParts DEF Covered
  <2>2. At("u", p) \in Int /\ At("v", p) \in Int /\ At("colour", p) \in Int
    BY <1>1, <2>1, PlaneTyped
  <2> HIDE DEF At
  <2>3. Sample(v, At("u", p), At("v", p)) \in Pixel
    BY <2>2, SampleTyped
  <2> QED
    BY <2>1, <2>2, <2>3, PutTyped, PutTexelTyped
<1> HIDE DEF texel, pixel
<1> QED
  BY <1>2, <1>3

LEMMA PolygonTyped ==
  ASSUME set \in Settings, NEW v \in [Place -> Pixel], NEW c \in Polygons, NEW how
  PROVE  Polygon(v, c, how) \in [Place -> Pixel]
<1>1. Len(c) \in 3 .. 4 /\ \A i \in 1 .. Len(c) : c[i] \in Vertex
  <2>1. c \in Seq(Vertex) /\ Len(c) \in 3 .. 4
    BY RasterAssumption
  <2> QED
    BY <2>1, ElementOfSeq
<1>2. CASE Len(c) = 3
  <2>1. \A i \in 1 .. 3 : c[i] \in Vertex
    BY <1>1, <1>2
  <2>2. Polygon(v, c, how) = Triangle(v, c, how)
    BY <1>2, Zenon DEF Polygon
  <2> QED
    BY <2>1, <2>2, TriangleTyped
<1>3. CASE Len(c) = 4
  <2> DEFINE one == <<c[1], c[2], c[3]>>
             two == <<c[2], c[3], c[4]>>
  <2>1. \A i \in 1 .. 4 : c[i] \in Vertex
    BY <1>1, <1>3
  <2>2. (\A i \in 1 .. 3 : one[i] \in Vertex) /\ (\A i \in 1 .. 3 : two[i] \in Vertex)
    BY <2>1
  <2>3. Polygon(v, c, how) = Triangle(Triangle(v, one, how), two, how)
    BY <1>3 DEF Polygon
  <2> HIDE DEF one, two
  <2> QED
    BY <2>2, <2>3, TriangleTyped
<1> QED
  BY <1>1, <1>2, <1>3

LEMMA SegmentTyped ==
  ASSUME set \in Settings, NEW v \in [Place -> Pixel], NEW from \in Vertex,
         NEW to \in Vertex, NEW how
  PROVE  Segment(v, from, to, how) \in [Place -> Pixel]
<1> DEFINE walk == Walk(from, to, how)
           At(p) == {n \in DOMAIN walk : walk[n].place = p /\ InClip(p)}
           n(p) == CHOOSE n \in At(p) : TRUE
           pixel(p) == Put(v[p], p, walk[n(p)].colour, how.translucent, set.dither)
<1>1. Segment(v, from, to, how)
        = IF TooLong(from, to) THEN v
          ELSE [p \in Place |-> IF At(p) = {} THEN v[p] ELSE pixel(p)]
  BY Zenon DEF Segment
<1>2. \A k \in DOMAIN walk : walk[k].colour \in Int
  <2> SUFFICES ASSUME NEW k \in DOMAIN walk PROVE walk[k].colour \in Int
    OBVIOUS
  <2> DEFINE backwards == from.x >= to.x /\ to.x # from.x
             first  == IF backwards THEN to ELSE from
             second == IF backwards THEN from ELSE to
             steps  == Larger(Magnitude(to.x - from.x), Magnitude(to.y - from.y))
             shade  == IF steps = 0 THEN 0
                       ELSE Quotient((second.colour - first.colour) * 4096, steps)
  <2>1. first \in Vertex /\ second \in Vertex
    OBVIOUS
  <2>2. first.colour \in Int /\ second.colour \in Int
    <3>1. \A z \in Vertex : z.colour \in Int
      <4> SUFFICES ASSUME NEW z \in Vertex PROVE z.colour \in Int
        OBVIOUS
      <4>1. z.colour \in 0 .. 255
        BY VertexParts
      <4> QED
        BY <4>1
    <3> QED
      BY <2>1, <3>1, Zenon
  <2>3. steps \in Nat
    <3>1. from.x \in Int /\ from.y \in Int /\ to.x \in Int /\ to.y \in Int
      BY VertexParts
    <3> QED
      BY <3>1 DEF Larger, Magnitude
  <2>4. /\ k \in 0 .. steps
        /\ walk[k].colour = IF how.gouraud
                            THEN (first.colour * 4096 + 2048 + k * shade) \div 4096
                            ELSE first.colour
    BY DEF Walk
  <2> HIDE DEF first, second, steps
  <2>5. shade \in Int
    <3>1. (second.colour - first.colour) * 4096 \in Int
      BY <2>2
    <3> QED
      BY <2>3, <3>1, QuotientIs
  <2> HIDE DEF shade
  <2> DEFINE z == first.colour * 4096 + 2048 + k * shade
  <2>6. z \in Int
    <3>1. k * shade \in Int
      BY <2>3, <2>4, <2>5
    <3> QED
      BY <2>2, <3>1
  <2>7. walk[k].colour = IF how.gouraud THEN z \div 4096 ELSE first.colour
    BY <2>4
  <2> HIDE DEF z, walk
  <2>8. z \div 4096 \in Int
    BY <2>6
  <2> QED
    BY <2>2, <2>7, <2>8
<1>3. ASSUME NEW p \in Place, At(p) # {} PROVE pixel(p) \in Pixel
  <2>1. n(p) \in At(p)
    BY <1>3
  <2>2. walk[n(p)].colour \in Int /\ v[p] \in Pixel
    BY <1>2, <2>1
  <2> HIDE DEF walk, n
  <2> QED
    BY <2>2, PutTyped
<1> HIDE DEF walk, At, pixel
<1> QED
  BY <1>1, <1>3

LEMMA RectangleTyped ==
  ASSUME set \in Settings, NEW v \in [Place -> Pixel], NEW c, NEW w, NEW h, NEW how,
         c.x \in Int, c.y \in Int, c.colour \in Int, c.u \in Int, c.v \in Int
  PROVE  Rectangle(v, c, w, h, how) \in [Place -> Pixel]
<1> DEFINE s(p) == IF set.flip[1] THEN c.u + 1 - (p[1] - c.x) ELSE c.u + (p[1] - c.x)
           t(p) == IF set.flip[2] THEN c.v - (p[2] - c.y) ELSE c.v + (p[2] - c.y)
           texel(p) == PutTexel(v[p], p, Sample(v, s(p), t(p)), how, c.colour, FALSE)
           pixel(p) == Put(v[p], p, c.colour, how.translucent, FALSE)
<1>1. Rectangle(v, c, w, h, how)
        = [p \in Place |->
             IF ~(Within(p[1] - c.x, p[2] - c.y, w, h) /\ InClip(p)) THEN v[p]
             ELSE IF how.textured THEN texel(p) ELSE pixel(p)]
  BY Zenon DEF Rectangle
<1>2. ASSUME NEW p \in Place PROVE texel(p) \in Pixel /\ pixel(p) \in Pixel
  <2>1. p[1] \in Int /\ p[2] \in Int /\ v[p] \in Pixel
    BY PlaceParts
  <2>2. s(p) \in Int /\ t(p) \in Int
    BY <2>1
  <2> HIDE DEF s, t
  <2>3. Sample(v, s(p), t(p)) \in Pixel
    BY <2>2, SampleTyped
  <2> QED
    BY <2>1, <2>3, PutTyped, PutTexelTyped
<1> HIDE DEF texel, pixel
<1> QED
  BY <1>1, <1>2

LEMMA FilledTyped ==
  ASSUME NEW v \in [Place -> Pixel], NEW x, NEW y, NEW w, NEW h
  PROVE  Filled(v, x, y, w, h, 255) \in [Place -> Pixel]
<1>1. [level |-> ToLevel(255, 0), mask |-> FALSE] \in Pixel
  BY LevelFits DEF Pixel
<1> QED
  BY <1>1 DEF Filled

\* Row by row a copy puts pixels of VRAM over pixels of VRAM.
LEMMA CopiedTyped ==
  ASSUME set \in Settings, NEW v \in [Place -> Pixel], NEW from, NEW to, NEW w,
         NEW h \in Nat, from[1] \in Int, from[2] \in Int, to[1] \in Int
  PROVE  Copied(v, from, to, w, h) \in [Place -> Pixel]
<1>1. PICK rows : Rows(rows, v, from, to, w, h) /\ Copied(v, from, to, w, h) = rows[h]
  BY CopiedRows
<1> DEFINE S == {n \in Nat : n <= h => rows[n] \in [Place -> Pixel]}
<1>2. 0 \in S
  BY <1>1 DEF Rows
<1>3. ASSUME NEW n \in Nat, n \in S PROVE n + 1 \in S
  <2> SUFFICES ASSUME n + 1 <= h PROVE rows[n + 1] \in [Place -> Pixel]
    OBVIOUS
  <2> DEFINE u == rows[n]
             source(p) == u[<<((from[1] + ((p[1] - to[1]) % Width)) % Width),
                              ((from[2] + n) % Height)>>]
  <2>1. u \in [Place -> Pixel]
    BY <1>3
  <2>2. n + 1 \in 1 .. h /\ (n + 1) - 1 = n
    BY <1>3
  <2>3. rows[n + 1] = CopiedRow(u, from, to, w, n)
    BY <1>1, <2>2 DEF Rows
  <2> HIDE DEF u
  <2>4. ASSUME NEW p \in Place PROVE CopiedOver(u[p], source(p)) \in Pixel
    <3> DEFINE k == (p[1] - to[1]) % Width
    <3>1. k \in Int
      <4>1. p[1] - to[1] \in Int /\ Width \in Nat \ {0}
        BY PlaceParts, RasterAssumption
      <4> QED
        BY <4>1, Division
    <3> HIDE DEF k
    <3>2. (from[1] + k) % Width \in 0 .. Width - 1
      <4>1. Width \in Nat \ {0} /\ from[1] + k \in Int
        BY <3>1, RasterAssumption
      <4> QED
        BY <4>1, Division
    <3>3. (from[2] + n) % Height \in 0 .. Height - 1
      <4>1. Height \in Nat \ {0} /\ from[2] + n \in Int
        BY RasterAssumption
      <4> QED
        BY <4>1, Division
    <3>4. <<((from[1] + k) % Width), ((from[2] + n) % Height)>> \in Place
      BY <3>2, <3>3 DEF Place
    <3>5. source(p) \in Pixel /\ u[p] \in Pixel
      BY <2>1, <3>4 DEF k
    <3> HIDE DEF source
    <3> DEFINE a == source(p)
    <3>6. [a EXCEPT !.mask = @ \/ set.mask] \in Pixel
      <4>1. a.level \in Level /\ [a EXCEPT !.mask = @ \/ set.mask]
              = [level |-> a.level, mask |-> a.mask \/ set.mask]
        BY <3>5 DEF Pixel
      <4> QED
        BY <4>1 DEF Pixel
    <3> QED
      BY <3>5, <3>6 DEF CopiedOver
  <2>5. CopiedRow(u, from, to, w, n)
          = [p \in Place |-> IF p[2] = (to[2] + n) % Height /\ (p[1] - to[1]) % Width < w
                             THEN CopiedOver(u[p], source(p)) ELSE u[p]]
    BY Zenon DEF CopiedRow
  <2> HIDE DEF source
  <2> QED
    BY <2>1, <2>3, <2>4, <2>5
<1> HIDE DEF S
<1>4. h \in S
  BY <1>2, <1>3, Induction
<1> QED
  BY <1>1, <1>4 DEF S

LEMMA RasterTypeHeld == RasterTypeOK /\ [RasterNext]_rasterVars => RasterTypeOK'
<1> SUFFICES ASSUME RasterTypeOK, [RasterNext]_rasterVars PROVE RasterTypeOK'
  OBVIOUS
<1> USE DEF Draws
<1>1. vram \in [Place -> Pixel] /\ set \in Settings
  BY DEF RasterTypeOK
<1>2. CASE CopyVram
  <2>1. PICK a \in Corners, b \in Corners, w \in Sides, h \in Sides :
          vram' = Copied(vram, a, b, w, h)
    BY <1>2 DEF CopyVram
  <2>2. a[1] \in Int /\ a[2] \in Int /\ b[1] \in Int /\ h \in Nat
    BY RasterAssumption DEF Coordinate
  <2>3. vram' \in [Place -> Pixel]
    BY <1>1, <2>1, <2>2, CopiedTyped
  <2> QED
    BY <1>1, <1>2, <2>3 DEF RasterTypeOK, CopyVram
<1>3. CASE FillVram
  <2>1. PICK c \in Corners, w \in Sides, h \in Sides :
          vram' = Filled(vram, c[1], c[2], w, h, 255)
    BY <1>3 DEF FillVram
  <2>2. vram' \in [Place -> Pixel]
    BY <1>1, <2>1, FilledTyped
  <2> QED
    BY <1>1, <1>3, <2>2 DEF RasterTypeOK, FillVram
<1>4. CASE DrawRectangle
  <2> DEFINE corner(c) == [x |-> c[1], y |-> c[2], colour |-> 128, u |-> 1, v |-> 0]
  <2>1. PICK c \in Corners, w \in Sides, h \in Sides, how \in Shadings :
          vram' = Rectangle(vram, corner(c), w, h, how)
    BY <1>4 DEF DrawRectangle
  <2>2. c[1] \in Int /\ c[2] \in Int
    BY RasterAssumption DEF Coordinate
  <2>3. /\ corner(c).x \in Int /\ corner(c).y \in Int /\ corner(c).colour \in Int
        /\ corner(c).u \in Int /\ corner(c).v \in Int
    BY <2>2
  <2> HIDE DEF corner
  <2>4. vram' \in [Place -> Pixel]
    BY <1>1, <2>1, <2>3, RectangleTyped
  <2> QED
    BY <1>1, <1>4, <2>4 DEF RasterTypeOK, DrawRectangle
<1>5. CASE DrawLine
  <2>1. PICK a \in Ends, b \in Ends, how \in Shadings : vram' = Segment(vram, a, b, how)
    BY <1>5 DEF DrawLine
  <2>2. a \in Vertex /\ b \in Vertex
    BY RasterAssumption
  <2>3. vram' \in [Place -> Pixel]
    BY <1>1, <2>1, <2>2, SegmentTyped
  <2> QED
    BY <1>1, <1>5, <2>3 DEF RasterTypeOK, DrawLine
<1>6. CASE DrawPolygon
  <2>1. PICK c \in Polygons, how \in Shadings : vram' = Polygon(vram, c, how)
    BY <1>6 DEF DrawPolygon
  <2>2. vram' \in [Place -> Pixel]
    BY <1>1, <2>1, PolygonTyped
  <2> QED
    BY <1>1, <1>6, <2>2 DEF RasterTypeOK, DrawPolygon
<1>7. CASE UNCHANGED rasterVars
  BY <1>7 DEF RasterTypeOK, rasterVars
<1> QED
  BY <1>2, <1>3, <1>4, <1>5, <1>6, <1>7 DEF RasterNext

\* Whatever is put over whatever is there, by any primitive, comes out a pixel:
\* to_pixel keeps every blend, tint and dither to the five bits of a level.
THEOREM RasterTyped == RasterSpec => []RasterTypeOK
<1>1. RasterInit => RasterTypeOK
  <2> SUFFICES ASSUME RasterInit PROVE RasterTypeOK
    OBVIOUS
  <2>1. \A p \in Place : (p[1] + 5 * p[2]) % 32 \in Level
    <3>1. \A n \in Int : n % 32 \in Level
      BY DEF Level
    <3>2. \A p \in Place : p[1] + 5 * p[2] \in Int
      BY PlaceParts
    <3> QED
      BY <3>1, <3>2
  <2>2. \A m : \A p \in Place : [level |-> ((p[1] + 5 * p[2]) % 32), mask |-> p \in m] \in Pixel
    BY <2>1 DEF Pixel
  <2>3. vram \in [Place -> Pixel]
    BY <2>2 DEF RasterInit
  <2> QED
    BY <2>3 DEF RasterInit, RasterTypeOK, Nothing
<1> QED
  BY <1>1, RasterTypeHeld, PTL DEF RasterSpec
=============================================================================
