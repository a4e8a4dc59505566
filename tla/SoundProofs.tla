---------------------------- MODULE SoundProofs -----------------------------
(***************************************************************************)
(* The two rings a disc's sound goes through (SoundPath) are the stream    *)
(* promised of it (SoundStream), for rings, sectors and counters of any    *)
(* size that SoundPathAssumption admits; and a voice (Voice) plays the     *)
(* note it was keyed on for, for any sample memory, pitch and envelope     *)
(* that VoiceAssumption admits.                                            *)
(***************************************************************************)
EXTENDS Spu, SequenceTheorems, FiniteSetTheorems, TLAPS

-----------------------------------------------------------------------------
(* Remainders.                                                             *)

LEMMA Multiple ==
  ASSUME NEW C \in Nat \ {0}, NEW k \in Int, -C < k * C, k * C < C
  PROVE  k = 0
<1>1. CASE k >= 1
  <2>1. (k - 1) * C >= 0
    BY <1>1
  <2> QED
    BY <2>1
<1>2. CASE k <= -1
  <2>1. (-1 - k) * C >= 0
    BY <1>2
  <2> QED
    BY <2>1
<1> QED
  BY <1>1, <1>2

LEMMA Division ==
  ASSUME NEW C \in Nat \ {0}, NEW a \in Int
  PROVE  /\ a % C \in 0 .. C - 1
         /\ \E k \in Int : a = (k * C) + (a % C)
<1>1. a % C \in 0 .. C - 1
  OBVIOUS
<1>2. a \div C \in Int /\ a = ((a \div C) * C) + (a % C)
  OBVIOUS
<1> QED
  BY <1>1, <1>2

LEMMA Remainder ==
  ASSUME NEW C \in Nat \ {0}, NEW a \in Int, NEW k \in Int,
         NEW r \in 0 .. C - 1, a = k * C + r
  PROVE  a % C = r
<1>1. PICK j \in Int : a = (j * C) + (a % C)
  BY Division
<1>2. (j - k) * C = r - (a % C)
  <2>1. (j - k) * C = (j * C) - (k * C)
    OBVIOUS
  <2>2. a % C \in Int
    BY Division
  <2> QED
    BY <1>1, <2>1, <2>2
<1>3. a % C \in 0 .. C - 1
  BY Division
<1>4. j - k = 0
  BY <1>2, <1>3, Multiple
<1> QED
  BY <1>1, <1>4

\* Whole turns of a ring come to nothing.
LEMMA Turns ==
  ASSUME NEW C \in Nat \ {0}, NEW a \in Int, NEW k \in Int
  PROVE  (a + (k * C)) % C = a % C
<1>1. PICK j \in Int : a = (j * C) + (a % C)
  BY Division
<1>2. a % C \in 0 .. C - 1 /\ a + (k * C) \in Int /\ j + k \in Int
  BY Division
<1>3. (j + k) * C = (j * C) + (k * C)
  OBVIOUS
<1>4. a + (k * C) = ((j + k) * C) + (a % C)
  BY <1>1, <1>2, <1>3
<1> QED
  BY <1>2, <1>4, Remainder

LEMMA Shifted ==
  ASSUME NEW C \in Nat \ {0}, NEW a \in Int, NEW b \in Int
  PROVE  /\ ((a % C) + b) % C = (a + b) % C
         /\ (b - (a % C)) % C = (b - a) % C
<1> DEFINE r == a % C
<1>1. PICK k \in Int : a = (k * C) + r
  BY Division
<1>2. r \in Int
  BY Division
<1> DEFINE w == k * C
<1>3. w \in Int /\ -w = (-k) * C
  OBVIOUS
<1> HIDE DEF r, w
<1>4. a = w + r
  BY <1>1 DEF w
<1>5. (r + b) + w = a + b /\ (b - r) + (-w) = b - a
  BY <1>2, <1>3, <1>4
<1>6. r + b \in Int /\ b - r \in Int /\ -k \in Int
  BY <1>2
<1>7. ((r + b) + w) % C = (r + b) % C
  BY <1>6, Turns DEF w
<1>8. ((b - r) + (-w)) % C = (b - r) % C
  BY <1>3, <1>6, Turns
<1> QED
  BY <1>5, <1>7, <1>8 DEF r

LEMMA Apart ==
  ASSUME NEW C \in Nat \ {0}, NEW a \in Int, NEW b \in Int,
         0 < a - b, a - b < C
  PROVE  a % C # b % C
<1> SUFFICES ASSUME a % C = b % C PROVE FALSE
  OBVIOUS
<1>1. PICK k \in Int : a = (k * C) + (a % C)
  BY Division
<1>2. PICK j \in Int : b = (j * C) + (b % C)
  BY Division
<1>3. a % C \in Int /\ b % C \in Int
  BY Division
<1>4. (k - j) * C = (k * C) - (j * C)
  OBVIOUS
<1>5. (k - j) * C = a - b
  BY <1>1, <1>2, <1>3, <1>4
<1>6. k - j = 0
  BY <1>5, Multiple
<1> QED
  BY <1>5, <1>6

LEMMA Itself ==
  ASSUME NEW C \in Nat \ {0}, NEW a \in 0 .. C - 1
  PROVE  a % C = a
<1>1. a = (0 * C) + a
  OBVIOUS
<1> QED
  BY <1>1, Remainder

\* The counters of the SPU's ring wrap at a multiple of its size.
LEMMA Counts ==
  ASSUME NEW a \in Int, NEW b \in Int
  PROVE  ((a % CountMod) + b) % OutputFrames = (a + b) % OutputFrames
<1>1. CountMod \in Nat \ {0} /\ OutputFrames \in Nat \ {0} /\ CountMod % OutputFrames = 0
  BY SoundPathAssumption
<1>2. PICK q \in Int : CountMod = (q * OutputFrames) + (CountMod % OutputFrames)
  <2>1. CountMod \in Int
    BY <1>1
  <2> QED
    BY <1>1, <2>1, Division, Zenon
<1> DEFINE r == a % CountMod
<1>3. PICK k \in Int : a = (k * CountMod) + r
  BY <1>1, Division
<1>4. r \in Int
  BY <1>1, Division
<1>5. q * OutputFrames \in Int /\ CountMod = q * OutputFrames
  BY <1>1, <1>2
<1>6. k * (q * OutputFrames) = (k * q) * OutputFrames /\ k * q \in Int
  BY <1>1
<1> DEFINE w == (k * q) * OutputFrames
<1>7. w \in Int /\ w = k * CountMod
  BY <1>1, <1>5, <1>6
<1> HIDE DEF r, w
<1>8. (r + b) + w = a + b /\ r + b \in Int
  BY <1>3, <1>4, <1>7
<1>9. ((r + b) + w) % OutputFrames = (r + b) % OutputFrames
  BY <1>1, <1>6, <1>8, Turns DEF w
<1> QED
  BY <1>8, <1>9 DEF r

-----------------------------------------------------------------------------
(* Rings.                                                                  *)

\* What n slots of ring f of C hold, from one on.
Ring(f, C, from, n) == [i \in 1 .. n |-> f[(from + i - 1) % C]]

LEMMA Sequence ==
  ASSUME NEW S, NEW n \in Nat, NEW f \in [1 .. n -> S]
  PROVE  f \in Seq(S) /\ Len(f) = n
<1>1. f \in Seq(S)
  BY SeqDef
<1>2. DOMAIN f = 1 .. Len(f) /\ DOMAIN f = 1 .. n /\ Len(f) \in Nat
  BY <1>1, LenProperties
<1> DEFINE m == Len(f)
<1>3. 1 .. m = 1 .. n /\ m \in Nat
  BY <1>2
<1> HIDE DEF m
<1>4. m = n
  BY <1>3
<1> QED
  BY <1>1, <1>4 DEF m

LEMMA RingSlots ==
  ASSUME NEW C \in Nat \ {0}, NEW f \in [0 .. C - 1 -> Nat], NEW from \in Int, NEW n \in Nat
  PROVE  /\ Ring(f, C, from, n) \in Seq(Nat)
         /\ Len(Ring(f, C, from, n)) = n
         /\ \A i \in 1 .. n : /\ (from + i - 1) % C \in 0 .. C - 1
                              /\ Ring(f, C, from, n)[i] = f[(from + i - 1) % C]
                              /\ Ring(f, C, from, n)[i] \in Nat
<1> DEFINE r == Ring(f, C, from, n)
<1>1. ASSUME NEW i \in 1 .. n PROVE (from + i - 1) % C \in 0 .. C - 1
  <2>1. from + i - 1 \in Int
    OBVIOUS
  <2> QED
    BY <2>1, Division
<1>2. r = [i \in 1 .. n |-> f[(from + i - 1) % C]]
  BY DEF Ring
<1>3. \A i \in 1 .. n : r[i] = f[(from + i - 1) % C] /\ r[i] \in Nat
  BY <1>1, <1>2
<1>4. r \in [1 .. n -> Nat]
  BY <1>1, <1>2
<1> HIDE DEF r
<1>5. r \in Seq(Nat) /\ Len(r) = n
  BY <1>4, Sequence
<1> QED
  BY <1>1, <1>3, <1>5 DEF r

LEMMA RingEmpty ==
  ASSUME NEW C \in Nat \ {0}, NEW f \in [0 .. C - 1 -> Nat], NEW from \in Int, NEW n \in Nat
  PROVE  Ring(f, C, from, n) = <<>> <=> n = 0
<1> DEFINE r == Ring(f, C, from, n)
<1>1. r \in Seq(Nat) /\ Len(r) = n
  BY RingSlots
<1> HIDE DEF r
<1>2. r # <<>> => n # 0
  BY <1>1, EmptySeq
<1>3. r = <<>> => n = 0
  BY <1>1, EmptySeq
<1> QED
  BY <1>2, <1>3 DEF r

\* The later ones of them.
LEMMA RingSub ==
  ASSUME NEW C \in Nat \ {0}, NEW f \in [0 .. C - 1 -> Nat], NEW from \in Int, NEW n \in Nat,
         NEW k \in 0 .. n
  PROVE  SubSeq(Ring(f, C, from, n), k + 1, n) = Ring(f, C, from + k, n - k)
<1> DEFINE r == Ring(f, C, from, n)
<1> DEFINE t == Ring(f, C, from + k, n - k)
<1> DEFINE s == SubSeq(r, k + 1, n)
<1>1. from + k \in Int /\ n - k \in Nat
  OBVIOUS
<1>2. r \in Seq(Nat) /\ Len(r) = n
      /\ \A i \in 1 .. n : r[i] = f[(from + i - 1) % C] /\ r[i] \in Nat
  BY RingSlots, SMTT(20)
<1>3. t \in Seq(Nat) /\ Len(t) = n - k
      /\ \A i \in 1 .. n - k : t[i] = f[(from + k + i - 1) % C]
  <2> DEFINE b == from + k
  <2> DEFINE m == n - k
  <2>1. b \in Int /\ m \in Nat
    BY <1>1
  <2> HIDE DEF b, m
  <2>2. /\ Ring(f, C, b, m) \in Seq(Nat) /\ Len(Ring(f, C, b, m)) = m
        /\ \A i \in 1 .. m : Ring(f, C, b, m)[i] = f[(b + i - 1) % C]
    BY <2>1, RingSlots, SMTT(20)
  <2> QED
    BY <2>2 DEF b, m
<1> HIDE DEF r, t
<1>4. /\ s \in Seq(Nat) /\ Len(s) = n - k
      /\ \A i \in 1 .. n - k : s[i] = r[k + i]
  <2>1. \A i \in k + 1 .. n : r[i] \in Nat
    BY <1>2
  <2>2. k + 1 \in Int /\ n \in Int
    OBVIOUS
  <2>3. /\ s \in Seq(Nat)
        /\ Len(s) = IF k + 1 <= n THEN n - (k + 1) + 1 ELSE 0
        /\ \A i \in 1 .. n - (k + 1) + 1 : s[i] = r[k + 1 + i - 1]
    BY <2>1, <2>2, SubSeqProperties
  <2> HIDE DEF s
  <2>4. Len(s) = n - k
    BY <2>3
  <2>5. ASSUME NEW i \in 1 .. n - k PROVE s[i] = r[k + i]
    <3>1. i \in 1 .. n - (k + 1) + 1 /\ k + 1 + i - 1 = k + i
      OBVIOUS
    <3> QED
      BY <2>3, <3>1
  <2> QED
    BY <2>3, <2>4, <2>5
<1> HIDE DEF s
<1>5. ASSUME NEW i \in 1 .. n - k PROVE s[i] = t[i]
  <2>1. k + i \in 1 .. n /\ from + (k + i) - 1 = from + k + i - 1
    OBVIOUS
  <2>2. s[i] = f[(from + (k + i) - 1) % C]
    BY <1>2, <1>4, <2>1
  <2> QED
    BY <1>3, <2>1, <2>2
<1>6. s = t
  BY <1>3, <1>4, <1>5, SeqEqual
<1> QED
  BY <1>6 DEF s, r, t

\* The oldest of them, and those behind it.
LEMMA RingHead ==
  ASSUME NEW C \in Nat \ {0}, NEW f \in [0 .. C - 1 -> Nat], NEW from \in Int,
         NEW n \in Nat \ {0}
  PROVE  /\ Head(Ring(f, C, from, n)) = f[from % C]
         /\ Tail(Ring(f, C, from, n)) = Ring(f, C, from + 1, n - 1)
<1> DEFINE r == Ring(f, C, from, n)
<1>1. r \in Seq(Nat) /\ Len(r) = n /\ r # <<>>
  BY RingSlots, RingEmpty
<1>2. r[1] = f[(from + 1 - 1) % C]
  <2>1. 1 \in 1 .. n
    OBVIOUS
  <2> QED
    BY <2>1, RingSlots
<1>3. SubSeq(r, 1 + 1, n) = Ring(f, C, from + 1, n - 1)
  <2>1. 1 \in 0 .. n
    OBVIOUS
  <2> QED
    BY <2>1, RingSub
<1> HIDE DEF r
<1>4. Tail(r) = SubSeq(r, 2, Len(r))
  BY <1>1, TailIsSubSeq
<1>5. Head(r) = r[1] /\ from + 1 - 1 = from /\ 1 + 1 = 2
  OBVIOUS
<1> QED
  BY <1>1, <1>2, <1>3, <1>4, <1>5 DEF r

\* g is f with v put behind the n slots from one on.
Put(g, f, C, from, n, v) == g = [f EXCEPT ![(from + n) % C] = v]

LEMMA PutInRing ==
  ASSUME NEW C \in Nat \ {0}, NEW f \in [0 .. C - 1 -> Nat], NEW v \in Nat,
         NEW from \in Int, NEW n \in Nat, NEW g, Put(g, f, C, from, n, v)
  PROVE  g \in [0 .. C - 1 -> Nat]
<1> DEFINE slot == (from + n) % C
<1>1. g = [f EXCEPT ![slot] = v]
  BY DEF Put
<1> HIDE DEF slot
<1> QED
  BY <1>1

\* v behind s: Append by a name that the prover leaves as it is.
Behind(s, v) == Append(s, v)

\* One more, in the slot behind the last.
LEMMA RingAppend ==
  ASSUME NEW C \in Nat \ {0}, NEW f \in [0 .. C - 1 -> Nat], NEW v \in Nat,
         NEW from \in Int, NEW n \in Nat, n < C, NEW g, Put(g, f, C, from, n, v)
  PROVE  Ring(g, C, from, n + 1) = Behind(Ring(f, C, from, n), v)
<1> DEFINE slot == (from + n) % C
<1>1. slot \in 0 .. C - 1
  <2>1. from + n \in Int
    OBVIOUS
  <2> QED
    BY <2>1, Division
<1>2. ASSUME NEW i \in 1 .. n PROVE (from + i - 1) % C # slot
  <2>1. from + i - 1 \in Int /\ from + n \in Int
        /\ 0 < (from + n) - (from + i - 1) /\ (from + n) - (from + i - 1) < C
    OBVIOUS
  <2> QED
    BY <2>1, Apart
<1>3. (from + (n + 1) - 1) % C = slot
  <2>1. from + (n + 1) - 1 = from + n
    OBVIOUS
  <2> QED
    BY <2>1
<1>10. g = [f EXCEPT ![slot] = v]
  BY DEF Put
<1> HIDE DEF slot
<1>4. g \in [0 .. C - 1 -> Nat] /\ g[slot] = v /\ \A j \in 0 .. C - 1 : j # slot => g[j] = f[j]
  BY <1>1, <1>10
<1> DEFINE r == Ring(f, C, from, n)
<1> DEFINE s == Ring(g, C, from, n + 1)
<1> DEFINE a == Append(r, v)
<1>5. /\ r \in Seq(Nat) /\ Len(r) = n
      /\ \A i \in 1 .. n : (from + i - 1) % C \in 0 .. C - 1 /\ r[i] = f[(from + i - 1) % C]
  <2>1. /\ r \in Seq(Nat)
        /\ Len(r) = n
        /\ \A i \in 1 .. n : /\ (from + i - 1) % C \in 0 .. C - 1
                             /\ r[i] = f[(from + i - 1) % C]
                             /\ r[i] \in Nat
    BY RingSlots
  <2> QED
    BY <2>1
<1>6. /\ s \in Seq(Nat) /\ Len(s) = n + 1
      /\ \A i \in 1 .. n + 1 : s[i] = g[(from + i - 1) % C]
  <2> DEFINE m == n + 1
  <2>1. m \in Nat
    OBVIOUS
  <2> HIDE DEF m
  <2>2. /\ Ring(g, C, from, m) \in Seq(Nat)
        /\ Len(Ring(g, C, from, m)) = m
        /\ \A i \in 1 .. m : /\ (from + i - 1) % C \in 0 .. C - 1
                             /\ Ring(g, C, from, m)[i] = g[(from + i - 1) % C]
                             /\ Ring(g, C, from, m)[i] \in Nat
    <3>1. g \in [0 .. C - 1 -> Nat]
      BY <1>4
    <3>2. ASSUME NEW h \in [0 .. C - 1 -> Nat], NEW k \in Nat
          PROVE  /\ Ring(h, C, from, k) \in Seq(Nat)
                 /\ Len(Ring(h, C, from, k)) = k
                 /\ \A i \in 1 .. k : /\ (from + i - 1) % C \in 0 .. C - 1
                                      /\ Ring(h, C, from, k)[i] = h[(from + i - 1) % C]
                                      /\ Ring(h, C, from, k)[i] \in Nat
      BY RingSlots
    <3> QED
      BY <2>1, <3>1, <3>2
  <2> QED
    BY <2>2 DEF m
<1> HIDE DEF r, s
<1>7. /\ a \in Seq(Nat) /\ Len(a) = n + 1
      /\ \A i \in 1 .. n : a[i] = r[i]
      /\ a[n + 1] = v
  BY <1>5, AppendProperties
<1> HIDE DEF a
<1>8. ASSUME NEW i \in 1 .. n + 1 PROVE s[i] = a[i]
  <2>1. CASE i = n + 1
    BY <1>3, <1>4, <1>6, <1>7, <2>1
  <2>2. CASE i # n + 1
    <3>1. i \in 1 .. n
      BY <2>2
    <3>2. s[i] = g[(from + i - 1) % C] /\ a[i] = f[(from + i - 1) % C]
      BY <1>5, <1>6, <1>7, <3>1
    <3>3. (from + i - 1) % C \in 0 .. C - 1 /\ (from + i - 1) % C # slot
      BY <1>2, <1>5, <3>1
    <3> QED
      BY <1>4, <3>2, <3>3
  <2> QED
    BY <2>1, <2>2
<1>9. s = a
  BY <1>6, <1>7, <1>8, SeqEqual
<1> QED
  BY <1>4, <1>9 DEF s, a, r, Behind

\* A sequence's first left off and one put behind it.
LEMMA AppendDropped ==
  ASSUME NEW s \in Seq(Nat), s # <<>>, NEW v \in Nat
  PROVE  SubSeq(Behind(s, v), 2, Len(s) + 1) = Behind(Tail(s), v)
<1> DEFINE a == Append(s, v)
<1>1. a \in Seq(Nat) /\ a # <<>> /\ Len(a) = Len(s) + 1
  BY AppendProperties
<1>2. Tail(a) = Append(Tail(s), v)
  BY HeadTailAppend
<1> HIDE DEF a
<1>3. Tail(a) = SubSeq(a, 2, Len(a))
  BY <1>1, TailIsSubSeq
<1> QED
  BY <1>1, <1>2, <1>3 DEF a, Behind

\* One more in a ring that is full: the oldest makes room for it.
LEMMA RingOverrun ==
  ASSUME NEW C \in Nat \ {0}, NEW f \in [0 .. C - 1 -> Nat], NEW from \in Int, NEW v \in Nat,
         NEW g, Put(g, f, C, from, C, v)
  PROVE  Ring(g, C, from + 1, C)
           = SubSeq(Behind(Ring(f, C, from, C), v), 2, C + 1)
<1> DEFINE b == from + 1
<1> DEFINE n == C - 1
<1>1. b \in Int /\ n \in 0 .. C - 1 /\ b + n = from + C /\ n + 1 = C
  OBVIOUS
<1>2. Ring(f, C, from, C) \in Seq(Nat) /\ Len(Ring(f, C, from, C)) = C
      /\ Ring(f, C, from, C) # <<>> /\ Tail(Ring(f, C, from, C)) = Ring(f, C, b, n)
  <2>1. C \in Nat /\ C # 0
    OBVIOUS
  <2>2. Ring(f, C, from, C) \in Seq(Nat) /\ Len(Ring(f, C, from, C)) = C
    BY <2>1, RingSlots
  <2>3. Ring(f, C, from, C) # <<>>
    BY <2>1, RingEmpty
  <2>4. Tail(Ring(f, C, from, C)) = Ring(f, C, from + 1, C - 1)
    BY RingHead
  <2> QED
    BY <2>2, <2>3, <2>4
<1> HIDE DEF b, n
<1>3. Ring(g, C, b, n + 1) = Behind(Ring(f, C, b, n), v)
  <2>1. b \in Int /\ n \in Nat /\ n < C
    BY <1>1
  <2>2. Put(g, f, C, b, n, v)
    BY <1>1 DEF Put
  <2> QED
    BY <2>1, <2>2, RingAppend
<1>4. SubSeq(Behind(Ring(f, C, from, C), v), 2, C + 1) = Behind(Ring(f, C, b, n), v)
  BY <1>2, AppendDropped
<1> QED
  BY <1>1, <1>3, <1>4 DEF b

\* A counter that wraps names the same slots.
LEMMA RingWraps ==
  ASSUME NEW f, NEW a \in Int, NEW n \in Nat
  PROVE  Ring(f, OutputFrames, a % CountMod, n) = Ring(f, OutputFrames, a, n)
<1>1. ASSUME NEW i \in 1 .. n
      PROVE  ((a % CountMod) + i - 1) % OutputFrames = (a + i - 1) % OutputFrames
  <2> DEFINE b == i - 1
  <2>1. b \in Int /\ a % CountMod \in Int
    BY SoundPathAssumption, Division
  <2>2. (a % CountMod) + i - 1 = (a % CountMod) + b /\ a + i - 1 = a + b
    BY <2>1
  <2> HIDE DEF b
  <2>3. ((a % CountMod) + b) % OutputFrames = (a + b) % OutputFrames
    BY <2>1, Counts
  <2> QED
    BY <2>2, <2>3
<1> QED
  BY <1>1 DEF Ring

-----------------------------------------------------------------------------
(* The invariant of the two rings.                                         *)

DriveRing ==
  /\ audio \in [0 .. AudioCapacity - 1 -> Nat]
  /\ decoded \in Nat /\ played \in Nat /\ played <= decoded
  /\ decoded - played <= AudioCapacity
  /\ playing \in BOOLEAN /\ mutedDrive \in BOOLEAN
  /\ dry \in Nat /\ lastFrame \in Nat
  /\ playing => dry <= AudioHold

HostRing ==
  /\ output \in [0 .. OutputFrames - 1 -> Nat]
  /\ produced \in 0 .. CountMod - 1 /\ taken \in 0 .. CountMod - 1
  /\ (produced - taken) % CountMod <= OutputFrames

Rings == DriveRing /\ HostRing /\ sounds \in Nat

LEMMA Sizes ==
  /\ AudioCapacity \in Nat \ {0} /\ OutputFrames \in Nat \ {0} /\ CountMod \in Nat \ {0}
  /\ SectorFrames \in Nat \ {0} /\ AudioHold \in Nat
  /\ AudioPrime \in Nat \ {0} /\ AudioPrime <= AudioCapacity
  /\ OutputFrames + 1 < CountMod
BY SoundPathAssumption

\* What is in the rings is what they hold from their oldest frame on.
LEMMA RingsRead ==
  /\ Waiting = Ring(audio, AudioCapacity, played, decoded - played)
  /\ Made = Ring(output, OutputFrames, taken, (produced - taken) % CountMod)
BY DEF Waiting, Made, Ring

\* The SPU's counters differ by what is there, whichever of them wrapped.
LEMMA Counters ==
  ASSUME HostRing
  PROVE  LET n == (produced - taken) % CountMod IN
         /\ n \in 0 .. OutputFrames
         /\ \A k \in Int : (taken + n + k) % CountMod = (produced + k) % CountMod
         /\ \A k \in Nat : n + k < CountMod => ((produced + k) - taken) % CountMod = n + k
         /\ \A k \in 0 .. n : (produced - ((taken + k) % CountMod)) % CountMod = n - k
<1> DEFINE d == produced - taken
<1> DEFINE n == d % CountMod
<1>1. d \in Int /\ produced \in Int /\ taken \in Int /\ d = produced - taken
  BY Sizes DEF HostRing
<1>2. n \in 0 .. CountMod - 1 /\ n <= OutputFrames
  BY <1>1, Sizes, Division DEF HostRing
<1>3. PICK j \in Int : d = (j * CountMod) + n
  BY <1>1, Sizes, Division
<1> DEFINE w == j * CountMod
<1>4. w \in Int /\ d = w + n
  BY <1>3, Sizes
<1>5. \A x \in Int : (x + w) % CountMod = x % CountMod
  BY Turns, Sizes
<1> HIDE DEF w, d
<1>6. CountMod \in Nat \ {0}
  BY Sizes
<1> HIDE DEF n
<1>7. ASSUME NEW k \in Int
      PROVE  (taken + n + k) % CountMod = (produced + k) % CountMod
  <2>1. produced + k = (taken + n + k) + w /\ taken + n + k \in Int
    BY <1>1, <1>2, <1>4
  <2> QED
    BY <1>5, <2>1
<1>8. ASSUME NEW k \in Nat, n + k < CountMod
      PROVE  ((produced + k) - taken) % CountMod = n + k
  <2>1. (produced + k) - taken = (n + k) + w /\ n + k \in 0 .. CountMod - 1 /\ n + k \in Int
    BY <1>1, <1>2, <1>4, <1>6, <1>8
  <2>2. (n + k) % CountMod = n + k
    BY <1>6, <2>1, Itself
  <2> QED
    BY <1>5, <2>1, <2>2
<1>9. ASSUME NEW k \in 0 .. n
      PROVE  (produced - ((taken + k) % CountMod)) % CountMod = n - k
  <2> DEFINE a == taken + k
  <2>1. a \in Int /\ produced - a = (n - k) + w /\ n - k \in 0 .. CountMod - 1 /\ n - k \in Int
    BY <1>1, <1>2, <1>4, <1>6
  <2> HIDE DEF a
  <2>2. (produced - (a % CountMod)) % CountMod = (produced - a) % CountMod
    BY <1>1, <1>6, <2>1, Shifted
  <2>3. (n - k) % CountMod = n - k
    BY <1>6, <2>1, Itself
  <2> QED
    BY <1>5, <2>1, <2>2, <2>3 DEF a
<1> QED
  BY <1>2, <1>7, <1>8, <1>9, Sizes DEF n, d

-----------------------------------------------------------------------------
(* What the host is given.                                                 *)

LEMMA MadeIs ==
  ASSUME HostRing
  PROVE  /\ Made \in Seq(Nat) /\ Len(Made) = (produced - taken) % CountMod
         /\ Len(Made) \in 0 .. OutputFrames
<1> DEFINE n == (produced - taken) % CountMod
<1>1. n \in 0 .. OutputFrames
  BY Counters
<1>2. n \in Nat /\ taken \in Int /\ output \in [0 .. OutputFrames - 1 -> Nat]
      /\ OutputFrames \in Nat \ {0}
  BY <1>1, Sizes DEF HostRing
<1>3. Made = Ring(output, OutputFrames, taken, n)
  BY RingsRead
<1> HIDE DEF n
<1>4. /\ Ring(output, OutputFrames, taken, n) \in Seq(Nat)
      /\ Len(Ring(output, OutputFrames, taken, n)) = n
  BY <1>2, RingSlots
<1> QED
  BY <1>1, <1>3, <1>4 DEF n

\* push_output: one more, the oldest given up when the ring is full.
LEMMA PushedHeard ==
  ASSUME HostRing, NEW frame \in Nat, Pushed(frame)
  PROVE  /\ HostRing'
         /\ Made' = LET all == Append(Made, frame)
                    IN SubSeq(all, IF Len(all) > OutputFrames THEN 2 ELSE 1, Len(all))
<1> DEFINE n == (produced - taken) % CountMod
<1> DEFINE F == OutputFrames
<1> DEFINE M == CountMod
<1>1. F \in Nat \ {0} /\ M \in Nat \ {0} /\ F + 1 < M
  BY Sizes
<1>2. /\ output \in [0 .. F - 1 -> Nat]
      /\ produced \in 0 .. M - 1 /\ taken \in 0 .. M - 1
      /\ produced \in Int /\ taken \in Int
  BY <1>1 DEF HostRing
<1>3. /\ n \in 0 .. F
      /\ \A k \in Int : (taken + n + k) % M = (produced + k) % M
      /\ \A k \in Nat : n + k < M => ((produced + k) - taken) % M = n + k
  BY Counters
<1>4. /\ output' = [output EXCEPT ![produced % F] = frame]
      /\ produced' = (produced + 1) % M
      /\ taken' = IF (produced' - taken) % M > F THEN (produced' - F) % M ELSE taken
  BY DEF Pushed
<1>5. /\ Made = Ring(output, F, taken, n)
      /\ Made' = Ring(output', F, taken', (produced' - taken') % M)
      /\ Made \in Seq(Nat) /\ Len(Made) = n
  <2>1. Made' = Ring(output', F, taken', (produced' - taken') % M)
    BY DEF Made, Ring
  <2>2. Made = Ring(output, F, taken, n) /\ Made \in Seq(Nat) /\ Len(Made) = n
    BY RingsRead, MadeIs
  <2> QED
    BY <2>1, <2>2
<1>6. \A a \in Int, b \in Int : ((a % M) + b) % F = (a + b) % F
  BY Counts
<1>7. \A a \in Int, b \in Int :
         ((a % M) + b) % M = (a + b) % M /\ (b - (a % M)) % M = (b - a) % M
  BY <1>1, Shifted
<1>8. \A a \in Int : a % M \in 0 .. M - 1
  BY <1>1, Division
<1>9. \A a \in 0 .. M - 1 : a % M = a
  BY <1>1, Itself
<1>10. ASSUME NEW g, NEW a \in Int, NEW k \in Nat
       PROVE  Ring(g, F, a % M, k) = Ring(g, F, a, k)
  BY RingWraps
<1>11. HostRing' <=> /\ output' \in [0 .. F - 1 -> Nat]
                     /\ produced' \in 0 .. M - 1 /\ taken' \in 0 .. M - 1
                     /\ (produced' - taken') % M <= F
  BY DEF HostRing
<1> HIDE DEF n, F, M
<1>12. produced' \in 0 .. M - 1 /\ produced' \in Int
  <2>1. produced + 1 \in Int
    BY <1>2
  <2>2. produced' \in 0 .. M - 1
    BY <1>4, <1>8, <2>1
  <2> QED
    BY <1>1, <2>2
<1>13. \A b \in Int : (produced' - b) % M = ((produced + 1) - b) % M
  <2> SUFFICES ASSUME NEW b \in Int PROVE (produced' - b) % M = ((produced + 1) - b) % M
    OBVIOUS
  <2>1. produced + 1 \in Int /\ -b \in Int
    BY <1>2
  <2>2. (((produced + 1) % M) + (-b)) % M = ((produced + 1) + (-b)) % M
    BY <1>7, <2>1
  <2>3. produced' + (-b) = produced' - b /\ (produced + 1) + (-b) = (produced + 1) - b
    BY <1>2, <1>12
  <2> QED
    BY <1>4, <2>2, <2>3
<1>14. (produced' - taken) % M = n + 1
  <2>1. n + 1 < M /\ 1 \in Nat
    BY <1>1, <1>3
  <2> QED
    BY <1>2, <1>3, <1>13, <2>1
<1>15. Put(output', output, F, taken, n, frame)
  <2>1. (taken + n + 0) % M = (produced + 0) % M /\ taken + n + 0 = taken + n
        /\ produced + 0 = produced /\ taken + n \in Int
    BY <1>2, <1>3
  <2>2. (taken + n) % M = produced
    BY <1>2, <1>9, <2>1
  <2>3. (((taken + n) % M) + 0) % F = ((taken + n) + 0) % F
    BY <1>6, <2>1
  <2>4. produced % F = (taken + n) % F
    <3>1. produced + 0 = produced /\ (taken + n) + 0 = taken + n
      BY <2>1
    <3> QED
      BY <2>2, <2>3, <3>1
  <2> QED
    BY <1>4, <2>4 DEF Put
<1>16. output' \in [0 .. F - 1 -> Nat]
  BY <1>1, <1>2, <1>3, <1>15, PutInRing
<1> DEFINE all == Behind(Made, frame)
<1>17. all \in Seq(Nat) /\ Len(all) = n + 1
  BY <1>5, AppendProperties DEF Behind
<1>18. all = Append(Made, frame)
  BY DEF Behind
<1>19. CASE n < F
  <2>1. taken' = taken
    BY <1>1, <1>3, <1>4, <1>14, <1>19
  <2>2. (produced' - taken') % M = n + 1 /\ n + 1 <= F /\ ~(n + 1 > F)
    BY <1>1, <1>3, <1>14, <1>19, <2>1
  <2>3. n \in Nat
    BY <1>3
  <2>4. Ring(output', F, taken, n + 1) = Behind(Ring(output, F, taken, n), frame)
    BY <1>1, <1>2, <1>15, <1>19, <2>3, RingAppend
  <2>5. Made' = all
    BY <1>5, <2>1, <2>2, <2>4
  <2> HIDE DEF all
  <2>6. SubSeq(all, 1, Len(all)) = all
    BY <1>17, SubSeqFull
  <2>7. HostRing'
    BY <1>2, <1>11, <1>12, <1>16, <2>1, <2>2
  <2>8. Made' = SubSeq(all, IF Len(all) > F THEN 2 ELSE 1, Len(all))
    BY <1>17, <2>2, <2>5, <2>6
  <2> QED
    BY <1>18, <2>7, <2>8 DEF F
<1>20. CASE n = F
  <2>1. taken' = (taken + 1) % M
    <3>1. taken' = (produced' - F) % M
      BY <1>1, <1>4, <1>14, <1>20
    <3>2. (produced' - F) % M = ((produced + 1) - F) % M
      BY <1>1, <1>13
    <3> DEFINE k == 1 - F
    <3>3. k \in Int /\ taken + n + k = taken + 1 /\ (produced + 1) - F = produced + k
      BY <1>1, <1>2, <1>20
    <3> HIDE DEF k
    <3>4. (taken + n + k) % M = (produced + k) % M
      BY <1>3, <3>3
    <3> QED
      BY <3>1, <3>2, <3>3, <3>4
  <2>2. taken + 1 \in Int
    BY <1>2
  <2>3. taken' \in 0 .. M - 1
    BY <1>8, <2>1, <2>2
  <2>4. (produced' - taken') % M = F
    <3>1. (produced' - ((taken + 1) % M)) % M = (produced' - (taken + 1)) % M
      BY <1>7, <1>12, <2>2
    <3>2. (produced' - (taken + 1)) % M = ((produced + 1) - (taken + 1)) % M
      BY <1>13, <2>2
    <3>3. (produced + 1) - (taken + 1) = (produced + 0) - taken
      BY <1>2
    <3>4. ((produced + 0) - taken) % M = n + 0
      <4>1. n + 0 < M /\ 0 \in Nat
        BY <1>1, <1>3
      <4> QED
        BY <1>3, <4>1
    <3> QED
      BY <1>1, <1>20, <2>1, <3>1, <3>2, <3>3, <3>4
  <2>5. Made' = Ring(output', F, taken + 1, F)
    <3>1. F \in Nat
      BY <1>1
    <3>2. Ring(output', F, (taken + 1) % M, F) = Ring(output', F, taken + 1, F)
      BY <1>10, <2>2, <3>1
    <3> QED
      BY <1>5, <2>1, <2>4, <3>2
  <2>6. Ring(output', F, taken + 1, F) = SubSeq(Behind(Ring(output, F, taken, F), frame), 2, F + 1)
    <3>1. Put(output', output, F, taken, F, frame)
      BY <1>15, <1>20
    <3> QED
      BY <1>1, <1>2, <3>1, RingOverrun, ZenonT(40)
  <2>7. Made' = SubSeq(all, 2, n + 1) /\ n + 1 > F
    BY <1>1, <1>5, <1>20, <2>5, <2>6
  <2> HIDE DEF all
  <2>8. Made' = SubSeq(all, IF Len(all) > F THEN 2 ELSE 1, Len(all))
    BY <1>17, <2>7
  <2>9. HostRing'
    <3>1. F <= F
      BY <1>1
    <3> QED
      BY <1>11, <1>12, <1>16, <2>3, <2>4, <3>1
  <2> QED
    BY <1>18, <2>8, <2>9 DEF F
<1> QED
  BY <1>1, <1>3, <1>19, <1>20

\* take_output: the host has the oldest, and what it leaves is what was behind.
LEMMA TakenCollected ==
  ASSUME HostRing, TakeOutput
  PROVE  /\ HostRing'
         /\ \E k \in 1 .. Len(Made) : Made' = SubSeq(Made, k + 1, Len(Made))
<1> DEFINE n == (produced - taken) % CountMod
<1> DEFINE M == CountMod
<1>1. /\ output \in [0 .. OutputFrames - 1 -> Nat]
      /\ produced \in Int /\ taken \in Int
      /\ OutputFrames \in Nat \ {0} /\ M \in Nat \ {0}
      /\ produced \in 0 .. M - 1 /\ taken \in 0 .. M - 1
  BY Sizes DEF HostRing
<1>2. /\ n \in 0 .. OutputFrames
      /\ \A k \in 0 .. n : (produced - ((taken + k) % M)) % M = n - k
  BY Counters
<1>3. n > 0
  <2> SUFFICES ASSUME n = 0 PROVE FALSE
    BY <1>1, <1>2
  <2>1. \A k \in Int : (taken + n + k) % M = (produced + k) % M
    BY Counters
  <2> HIDE DEF n, M
  <2>2. (taken + n + 0) % M = (produced + 0) % M /\ taken + n + 0 = taken
        /\ produced + 0 = produced
    BY <1>1, <2>1, SMTT(20)
  <2>3. taken % M = taken /\ produced % M = produced
    BY <1>1, Itself
  <2>4. produced # taken
    BY DEF TakeOutput
  <2> QED
    BY <2>2, <2>3, <2>4
<1>4. PICK count \in Batches : taken' = (taken + (IF count < n THEN count ELSE n)) % M
  BY DEF TakeOutput
<1> DEFINE k == IF count < n THEN count ELSE n
<1>5. count \in Nat \ {0}
  BY SoundPathAssumption
<1>6. /\ Made = Ring(output, OutputFrames, taken, n)
      /\ Made' = Ring(output', OutputFrames, taken', (produced' - taken') % M)
      /\ Len(Made) = n
  <2>1. Made' = Ring(output', OutputFrames, taken', (produced' - taken') % M)
    BY DEF Made, Ring
  <2>2. Made = Ring(output, OutputFrames, taken, n) /\ Len(Made) = n
    BY RingsRead, MadeIs
  <2> QED
    BY <2>1, <2>2
<1>7. output' = output /\ produced' = produced
  BY DEF TakeOutput
<1>8. HostRing' <=> /\ output' \in [0 .. OutputFrames - 1 -> Nat]
                    /\ produced' \in 0 .. M - 1 /\ taken' \in 0 .. M - 1
                    /\ (produced' - taken') % M <= OutputFrames
  BY DEF HostRing
<1>9. \A a \in Int : a % M \in 0 .. M - 1
  BY <1>1, Division
<1>10. ASSUME NEW a \in Int, NEW j \in Nat
       PROVE  Ring(output, OutputFrames, a % M, j) = Ring(output, OutputFrames, a, j)
  BY RingWraps
<1> HIDE DEF n, M
<1>11. k \in 1 .. n /\ k \in 0 .. n /\ n \in Nat
  BY <1>2, <1>3, <1>5
<1> HIDE DEF k
<1>12. taken' = (taken + k) % M
  BY <1>4 DEF k
<1>13. (produced - taken') % M = n - k
  BY <1>2, <1>11, <1>12
<1>14. taken + k \in Int /\ n - k \in Nat /\ n - k <= OutputFrames
  BY <1>1, <1>2, <1>11
<1>15. taken' \in 0 .. M - 1
  BY <1>9, <1>12, <1>14
<1>16. Made' = Ring(output, OutputFrames, taken + k, n - k)
  BY <1>6, <1>7, <1>10, <1>12, <1>13, <1>14
<1>17. SubSeq(Ring(output, OutputFrames, taken, n), k + 1, n)
         = Ring(output, OutputFrames, taken + k, n - k)
  BY <1>1, <1>11, RingSub
<1> QED
  BY <1>1, <1>6, <1>7, <1>8, <1>11, <1>13, <1>14, <1>15, <1>16, <1>17

-----------------------------------------------------------------------------
(* What the drive has decoded.                                             *)

LEMMA WaitingIs ==
  ASSUME DriveRing
  PROVE  /\ Waiting = Ring(audio, AudioCapacity, played, decoded - played)
         /\ Waiting \in Seq(Nat) /\ Len(Waiting) = decoded - played
         /\ decoded - played \in Nat
         /\ Waiting = <<>> <=> played = decoded
<1> DEFINE n == decoded - played
<1>1. /\ n \in Nat /\ played \in Int /\ audio \in [0 .. AudioCapacity - 1 -> Nat]
      /\ AudioCapacity \in Nat \ {0} /\ (n = 0 <=> played = decoded)
  BY Sizes DEF DriveRing
<1>2. Waiting = Ring(audio, AudioCapacity, played, n)
  BY RingsRead
<1> HIDE DEF n
<1>3. /\ Ring(audio, AudioCapacity, played, n) \in Seq(Nat)
      /\ Len(Ring(audio, AudioCapacity, played, n)) = n
  BY <1>1, RingSlots, SMTT(20)
<1>4. Ring(audio, AudioCapacity, played, n) = <<>> <=> n = 0
  BY <1>1, RingEmpty
<1> QED
  BY <1>1, <1>2, <1>3, <1>4 DEF n

\* queue_audio: a sector's frames behind those that wait, as many as there is
\* room for, and none of those overwritten.
LEMMA DecodedRead ==
  ASSUME DriveRing, sounds \in Nat, DecodeSector
  PROVE  DriveRing' /\ sounds' \in Nat /\ Stream!Read
<1> DEFINE w == decoded - played
<1> DEFINE C == AudioCapacity
<1> DEFINE n == Kept
<1>1. /\ C \in Nat \ {0} /\ SectorFrames \in Nat \ {0}
      /\ audio \in [0 .. C - 1 -> Nat] /\ w \in Nat /\ w <= C
      /\ decoded \in Nat /\ played \in Nat /\ decoded = played + w
  BY Sizes DEF DriveRing
<1>2. /\ n \in 0 .. SectorFrames /\ n <= C - w
      /\ n = SectorFrames \/ w + n = C
  BY <1>1 DEF Kept
<1>3. /\ audio' = [i \in DOMAIN audio |->
                     IF (i - decoded) % C < n THEN sounds + ((i - decoded) % C) + 1
                     ELSE audio[i]]
      /\ decoded' = decoded + n /\ sounds' = sounds + SectorFrames
      /\ UNCHANGED <<played, playing, dry, lastFrame, mutedDrive, finished>>
  BY DEF DecodeSector
<1>4. Waiting \in Seq(Nat) /\ Len(Waiting) = w /\ Waiting = Ring(audio, C, played, w)
  BY WaitingIs
<1>5. Waiting' = Ring(audio', C, played', decoded' - played')
  BY DEF Waiting, Ring
<1>6. DriveRing' <=>
        /\ audio' \in [0 .. C - 1 -> Nat]
        /\ decoded' \in Nat /\ played' \in Nat /\ played' <= decoded'
        /\ decoded' - played' <= C
        /\ playing' \in BOOLEAN /\ mutedDrive' \in BOOLEAN
        /\ dry' \in Nat /\ lastFrame' \in Nat
        /\ playing' => dry' <= AudioHold
  BY DEF DriveRing
<1>7. /\ playing' \in BOOLEAN /\ mutedDrive' \in BOOLEAN
      /\ dry' \in Nat /\ lastFrame' \in Nat
      /\ playing' => dry' <= AudioHold
  BY <1>3 DEF DriveRing
<1>8. Made' = Made
  BY <1>3 DEF Made, finished
<1> HIDE DEF w, C, n
<1>9. \A a \in Int : a % C \in 0 .. C - 1
  BY <1>1, Division
<1>10. \A a \in Int, b \in Int : ((a % C) + b) % C = (a + b) % C
  BY <1>1, Shifted
<1>11. \A a \in 0 .. C - 1 : a % C = a
  BY <1>1, Itself
<1>12. \A a \in Int, k \in Int : (a + (k * C)) % C = a % C
  BY <1>1, Turns
<1>13. DOMAIN audio = 0 .. C - 1
  BY <1>1
<1>14. audio' \in [0 .. C - 1 -> Nat]
  <2>1. ASSUME NEW i \in 0 .. C - 1
        PROVE  (IF (i - decoded) % C < n THEN sounds + ((i - decoded) % C) + 1
                ELSE audio[i]) \in Nat
    <3>1. i - decoded \in Int
      BY <1>1
    <3>2. (i - decoded) % C \in 0 .. C - 1
      BY <1>9, <3>1
    <3> DEFINE m == (i - decoded) % C
    <3>3. m \in Nat /\ audio[i] \in Nat
      BY <1>1, <3>2
    <3> HIDE DEF m
    <3> QED
      BY <3>3 DEF m
  <2> QED
    BY <1>3, <1>13, <2>1
<1>15. DriveRing'
  <2>1. /\ decoded' \in Nat /\ played' \in Nat /\ played' <= decoded'
        /\ decoded' - played' <= C
    BY <1>1, <1>2, <1>3
  <2> QED
    BY <1>6, <1>7, <1>14, <2>1
<1> DEFINE u == Ring(audio', C, played, w + n)
<1> DEFINE s == [i \in 1 .. n |-> sounds + i]
<1> DEFINE t == Waiting \o s
<1>16. Waiting' = u
  <2>1. played' = played /\ decoded' - played' = w + n
    BY <1>1, <1>2, <1>3
  <2> QED
    BY <1>5, <2>1
<1>17. s \in Seq(Nat) /\ Len(s) = n /\ \A i \in 1 .. n : s[i] = sounds + i
  <2>1. n \in Nat /\ s \in [1 .. n -> Nat]
    BY <1>1, <1>2
  <2>2. \A i \in 1 .. n : s[i] = sounds + i
    OBVIOUS
  <2> HIDE DEF s
  <2> QED
    BY <2>1, <2>2, Sequence
<1>18. /\ u \in Seq(Nat)
       /\ Len(u) = w + n
       /\ \A i \in 1 .. w + n : /\ (played + i - 1) % C \in 0 .. C - 1
                                /\ u[i] = audio'[(played + i - 1) % C]
  <2> DEFINE m == w + n
  <2> DEFINE g == audio'
  <2>1. m \in Nat /\ g \in [0 .. C - 1 -> Nat] /\ played \in Int
    BY <1>1, <1>2, <1>14
  <2> HIDE DEF m, g
  <2>2. /\ Ring(g, C, played, m) \in Seq(Nat)
        /\ Len(Ring(g, C, played, m)) = m
        /\ \A i \in 1 .. m : /\ (played + i - 1) % C \in 0 .. C - 1
                             /\ Ring(g, C, played, m)[i] = g[(played + i - 1) % C]
                             /\ Ring(g, C, played, m)[i] \in Nat
    BY <1>1, <2>1, RingSlots
  <2> QED
    BY <2>2 DEF m, g
<1>19. \A i \in 1 .. w : Waiting[i] = audio[(played + i - 1) % C]
  <2>1. played \in Int
    BY <1>1
  <2>2. /\ Ring(audio, C, played, w) \in Seq(Nat)
        /\ Len(Ring(audio, C, played, w)) = w
        /\ \A i \in 1 .. w : /\ (played + i - 1) % C \in 0 .. C - 1
                             /\ Ring(audio, C, played, w)[i] = audio[(played + i - 1) % C]
                             /\ Ring(audio, C, played, w)[i] \in Nat
    BY <1>1, <2>1, RingSlots
  <2> QED
    BY <1>4, <2>2
<1> HIDE DEF u, s
<1>20. /\ t \in Seq(Nat) /\ Len(t) = w + n
       /\ \A i \in 1 .. w + n : t[i] = IF i <= w THEN Waiting[i] ELSE s[i - w]
  BY <1>4, <1>17, ConcatProperties, ZenonT(40)
<1> HIDE DEF t
<1>21. ASSUME NEW i \in 1 .. w + n PROVE u[i] = t[i]
  <2> DEFINE x == played + i - 1
  <2> DEFINE slot == x % C
  <2> DEFINE m == (slot - decoded) % C
  <2>1. x \in Int /\ i \in Int
    BY <1>1, <1>2
  <2>2. slot \in 0 .. C - 1 /\ u[i] = audio'[slot]
    BY <1>9, <1>18, <2>1
  <2>3. m = (i - 1 - w) % C
    <3>1. ((x % C) + (-decoded)) % C = (x + (-decoded)) % C
      <4> DEFINE b == -decoded
      <4>1. b \in Int
        BY <1>1
      <4> HIDE DEF b
      <4> HIDE DEF x
      <4>2. ((x % C) + b) % C = (x + b) % C
        BY <1>10, <2>1, <4>1
      <4> QED
        BY <4>2 DEF b
    <3> DEFINE sl == x % C
    <3>2. sl \in Int
      BY <1>9, <2>1, <1>1
    <3>3. x + (-decoded) = i - 1 - w
      BY <1>1, <2>1
    <3> HIDE DEF sl
    <3>4. sl + (-decoded) = sl - decoded
      BY <1>1, <3>2
    <3> QED
      BY <3>1, <3>3, <3>4 DEF sl
  <2>4. audio'[slot] = IF m < n THEN sounds + m + 1 ELSE audio[slot]
    BY <1>3, <1>13, <2>2
  <2> HIDE DEF x, m, slot
  <2>5. CASE i <= w
    <3> DEFINE k == i - 1 - w
    <3>1. k + (1 * C) \in 0 .. C - 1 /\ k \in Int /\ k + (1 * C) >= n
      BY <1>1, <1>2, <2>1, <2>5
    <3>2. (k + (1 * C)) % C = k % C /\ (k + (1 * C)) % C = k + (1 * C)
      BY <1>11, <1>12, <3>1
    <3>3. m = k + (1 * C)
      BY <2>3, <3>2
    <3>4. ~(m < n)
      BY <1>2, <3>1, <3>3
    <3>5. u[i] = audio[slot] /\ i \in 1 .. w
      BY <1>1, <2>1, <2>2, <2>4, <2>5, <3>4
    <3>6. t[i] = Waiting[i]
      BY <1>20, <2>5
    <3> QED
      BY <1>19, <3>5, <3>6 DEF slot, x
  <2>6. CASE ~(i <= w)
    <3> DEFINE k == i - 1 - w
    <3>1. k \in 0 .. C - 1 /\ k < n /\ i - w \in 1 .. n /\ k + 1 = i - w
      BY <1>1, <1>2, <2>1, <2>6
    <3>2. m = k
      BY <1>11, <2>3, <3>1
    <3> HIDE DEF k
    <3>3. u[i] = sounds + k + 1
      BY <2>2, <2>4, <3>1, <3>2
    <3>4. t[i] = s[i - w] /\ s[i - w] = sounds + (i - w)
      BY <1>17, <1>20, <2>6, <3>1
    <3> QED
      BY <3>1, <3>3, <3>4
  <2> QED
    BY <2>5, <2>6
<1>22. u = t
  BY <1>18, <1>20, <1>21, SeqEqual
<1>23. Waiting' = Waiting \o [i \in 1 .. n |-> sounds + i]
  BY <1>16, <1>22 DEF t, s
<1>24. n = SectorFrames \/ Len(Waiting) + n = AudioCapacity
  BY <1>2, <1>4 DEF C
<1>25. Stream!Read
  BY <1>2, <1>3, <1>8, <1>23, <1>24 DEF Stream!Read
<1>26. sounds' \in Nat
  BY <1>1, <1>3
<1> QED
  BY <1>15, <1>25, <1>26

\* What the mixer makes of a frame is what is heard of it.
LEMMA Heard ==
  ASSUME HostRing, NEW frame \in Nat, Pushed(IF mutedDrive THEN Silence ELSE frame)
  PROVE  HostRing' /\ Stream!Hear(frame)
<1> DEFINE v == IF mutedDrive THEN Silence ELSE frame
<1>1. v \in Nat /\ v = IF mutedDrive THEN Stream!Silent ELSE frame
  BY DEF Silence, Stream!Silent
<1>2. Pushed(v)
  OBVIOUS
<1> HIDE DEF v
<1>3. HostRing' /\ Made' = LET all == Append(Made, v)
                          IN SubSeq(all, IF Len(all) > OutputFrames THEN 2 ELSE 1, Len(all))
  BY <1>1, <1>2, PushedHeard
<1> QED
  BY <1>1, <1>3 DEF Stream!Hear

LEMMA HeardSilence ==
  ASSUME HostRing, Pushed(Silence)
  PROVE  HostRing' /\ Stream!Hear(Stream!Silent)
<1>1. Silence = (IF mutedDrive THEN Silence ELSE Stream!Silent) /\ Stream!Silent \in Nat
  BY DEF Silence, Stream!Silent
<1>2. Pushed(IF mutedDrive THEN Silence ELSE Stream!Silent)
  BY <1>1
<1> QED
  BY <1>1, <1>2, Heard

\* take_audio and Spu::tick: a frame for every sample, the drive's next, its
\* last once more, or silence.
LEMMA TickHeard ==
  ASSUME Rings, PathTick
  PROVE  Rings' /\ Stream!Sample
<1>1. DriveRing /\ HostRing /\ sounds \in Nat
  BY DEF Rings
<1>2. UNCHANGED <<audio, decoded, mutedDrive, sounds>>
  BY DEF PathTick
<1> DEFINE n == decoded - played
<1>3. /\ Waiting = Ring(audio, AudioCapacity, played, n)
      /\ Waiting \in Seq(Nat) /\ Len(Waiting) = n
      /\ n \in Nat
      /\ Waiting = <<>> <=> played = decoded
  BY <1>1, WaitingIs
<1>4. Waiting' = Ring(audio', AudioCapacity, played', decoded' - played')
  BY DEF Waiting, Ring
<1>5. /\ audio \in [0 .. AudioCapacity - 1 -> Nat] /\ AudioCapacity \in Nat \ {0}
      /\ decoded \in Nat /\ played \in Nat /\ played <= decoded /\ n <= AudioCapacity
      /\ dry \in Nat /\ lastFrame \in Nat /\ AudioPrime \in Nat \ {0} /\ AudioHold \in Nat
  BY <1>1, Sizes DEF DriveRing
<1>6. playing \in BOOLEAN /\ (playing => dry <= AudioHold)
  BY <1>1 DEF DriveRing
<1>7. ASSUME playing' \in BOOLEAN, dry' \in Nat, lastFrame' \in Nat, playing' => dry' <= AudioHold,
             played' \in {played, played + 1}, played' <= decoded, HostRing'
      PROVE  Rings'
  <2>1. audio' \in [0 .. AudioCapacity - 1 -> Nat] /\ mutedDrive' \in BOOLEAN
    BY <1>1, <1>2 DEF DriveRing
  <2>2. /\ decoded' \in Nat /\ played' \in Nat /\ played' <= decoded'
        /\ decoded' - played' <= AudioCapacity
    <3>1. decoded' = decoded
      BY <1>2
    <3>2. decoded - played <= AudioCapacity
      BY <1>5
    <3>3. played' = played \/ played' = played + 1
      BY <1>7
    <3>4. played' <= decoded
      BY <1>7
    <3>5. played \in Nat /\ decoded \in Nat /\ AudioCapacity \in Nat
      BY <1>5
    <3> QED
      BY <3>1, <3>2, <3>3, <3>4, <3>5
  <2>3. DriveRing'
    BY <1>7, <2>1, <2>2 DEF DriveRing
  <2> QED
    BY <1>1, <1>2, <1>7, <2>3 DEF Rings
<1>8. ASSUME played' = played PROVE Waiting' = Waiting
  BY <1>2, <1>3, <1>4, <1>8
<1> HIDE DEF n
<1>9. CASE /\ ~playing /\ n < AudioPrime
           /\ Pushed(Silence)
           /\ UNCHANGED <<played, playing, dry, lastFrame>>
  <2>1. HostRing' /\ Stream!Hear(Stream!Silent)
    BY <1>1, <1>9, HeardSilence
  <2>2. Rings'
    BY <1>5, <1>6, <1>7, <1>9, <2>1
  <2>3. Stream!Sample
    BY <1>2, <1>3, <1>8, <1>9, <2>1 DEF Stream!Sample
  <2> QED
    BY <2>2, <2>3
<1>10. CASE /\ playing \/ n >= AudioPrime
            /\ played < decoded
            /\ playing' = TRUE /\ dry' = 0 /\ played' = played + 1
            /\ lastFrame' = audio[played % AudioCapacity]
            /\ Pushed(IF mutedDrive THEN Silence ELSE lastFrame')
  <2>1. played % AudioCapacity \in 0 .. AudioCapacity - 1
    <3>1. played \in Int /\ AudioCapacity \in Nat \ {0}
      BY <1>5
    <3> QED
      BY <3>1, Division
  <2>2. lastFrame' \in Nat
    BY <1>5, <1>10, <2>1
  <2>3. HostRing' /\ Stream!Hear(lastFrame')
    BY <1>1, <1>10, <2>2, Heard
  <2>4. Rings'
    BY <1>5, <1>7, <1>10, <2>2, <2>3
  <2>5. n \in Nat \ {0} /\ played \in Int /\ decoded' - played' = n - 1 /\ Waiting # <<>>
    BY <1>2, <1>3, <1>5, <1>10 DEF n
  <2>6. /\ Head(Ring(audio, AudioCapacity, played, n)) = audio[played % AudioCapacity]
        /\ Tail(Ring(audio, AudioCapacity, played, n)) = Ring(audio, AudioCapacity, played + 1, n - 1)
    BY <1>5, <2>5, RingHead
  <2>7. lastFrame' = Head(Waiting) /\ Waiting' = Tail(Waiting)
    BY <1>2, <1>3, <1>4, <1>10, <2>5, <2>6
  <2>8. Stream!Sample
    BY <1>2, <1>3, <1>10, <2>3, <2>5, <2>7 DEF Stream!Sample
  <2> QED
    BY <2>4, <2>8
<1>11. CASE /\ playing /\ played >= decoded
            /\ dry' = dry + 1
            /\ IF dry' > AudioHold
               THEN playing' = FALSE /\ lastFrame' = Silence /\ Pushed(Silence)
               ELSE /\ UNCHANGED <<playing, lastFrame>>
                    /\ Pushed(IF mutedDrive THEN Silence ELSE lastFrame)
            /\ UNCHANGED played
  <2>1. Waiting = <<>> /\ Waiting' = Waiting
    BY <1>3, <1>5, <1>8, <1>11
  <2>2. CASE dry' > AudioHold
    <3>1. HostRing' /\ Stream!Hear(Stream!Silent)
      BY <1>1, <1>11, <2>2, HeardSilence
    <3>2. dry = AudioHold /\ dry' \in Nat
      BY <1>5, <1>6, <1>11, <2>2
    <3>3. lastFrame' = Stream!Silent /\ lastFrame' \in Nat /\ playing' = FALSE
      BY <1>11, <2>2 DEF Silence, Stream!Silent
    <3>4. Rings'
      BY <1>5, <1>7, <1>11, <3>1, <3>2, <3>3
    <3>5. Stream!Sample
      BY <1>2, <1>11, <2>1, <3>1, <3>2, <3>3 DEF Stream!Sample
    <3> QED
      BY <3>4, <3>5
  <2>3. CASE ~(dry' > AudioHold)
    <3>1. HostRing' /\ Stream!Hear(lastFrame)
      BY <1>1, <1>5, <1>11, <2>3, Heard
    <3>2. dry < AudioHold /\ dry' \in Nat /\ dry' <= AudioHold
      BY <1>5, <1>6, <1>11, <2>3
    <3>3. Rings'
      BY <1>5, <1>6, <1>7, <1>11, <2>3, <3>1, <3>2
    <3>4. Stream!Sample
      BY <1>2, <1>11, <2>1, <2>3, <3>1, <3>2 DEF Stream!Sample
    <3> QED
      BY <3>3, <3>4
  <2> QED
    BY <2>2, <2>3
<1> QED
  BY <1>9, <1>10, <1>11 DEF PathTick, n

-----------------------------------------------------------------------------
(* What empties the rings, and the whole.                                  *)

\* stop_audio and the resets leave nothing that waits.
LEMMA Emptied ==
  ASSUME Rings, StopAudio
  PROVE  /\ Waiting' = <<>>
         /\ mutedDrive' \in BOOLEAN => DriveRing'
         /\ UNCHANGED finished => HostRing' /\ Made' = Made
<1>1. /\ audio' = audio /\ decoded' = 0 /\ played' = 0 /\ playing' = FALSE /\ dry' = 0
      /\ lastFrame' = 0
  BY DEF StopAudio, Silence
<1>2. audio \in [0 .. AudioCapacity - 1 -> Nat] /\ AudioCapacity \in Nat \ {0}
      /\ AudioHold \in Nat
  BY Sizes DEF Rings, DriveRing
<1>3. Waiting' = Ring(audio', AudioCapacity, played', decoded' - played')
  BY DEF Waiting, Ring
<1>4. Ring(audio, AudioCapacity, 0, 0) = <<>>
  BY <1>2, RingEmpty
<1>5. mutedDrive' \in BOOLEAN => DriveRing'
  <2>1. /\ decoded' \in Nat /\ played' \in Nat /\ played' <= decoded'
        /\ decoded' - played' <= AudioCapacity
        /\ dry' \in Nat /\ lastFrame' \in Nat /\ dry' <= AudioHold
    BY <1>1, <1>2
  <2>2. playing' \in BOOLEAN /\ audio' \in [0 .. AudioCapacity - 1 -> Nat]
    BY <1>1, <1>2
  <2> QED
    BY <2>1, <2>2 DEF DriveRing
<1>6. UNCHANGED finished => HostRing' /\ Made' = Made
  BY DEF finished, Rings, HostRing, Made
<1> QED
  BY <1>1, <1>3, <1>4, <1>5, <1>6

\* Whatever moves the path on moves the stream on, or does not show in it.
LEMMA PathIsStream ==
  ASSUME Rings, PathTick \/ PathStep \/ UNCHANGED pathVars
  PROVE  Rings' /\ [Stream!Next]_(Stream!vars)
<1>1. CASE PathTick
  BY <1>1, TickHeard DEF Stream!Next
<1>2. CASE DecodeSector
  <2>1. HostRing' 
    BY <1>2 DEF DecodeSector, finished, Rings, HostRing
  <2>2. DriveRing' /\ sounds' \in Nat /\ Stream!Read
    BY <1>2, DecodedRead DEF Rings
  <2> QED
    BY <2>1, <2>2 DEF Rings, Stream!Next
<1>3. CASE StopSound
  <2>1. StopAudio /\ UNCHANGED <<mutedDrive, finished, sounds>>
    BY <1>3 DEF StopSound
  <2>2. Rings'
    BY <2>1, Emptied DEF Rings, DriveRing
  <2>3. Stream!Stop
    BY <2>1, Emptied DEF StopAudio, Silence, Stream!Stop, Stream!Silent
  <2> QED
    BY <2>2, <2>3 DEF Stream!Next
<1>4. CASE MuteDrive
  <2>1. mutedDrive' \in BOOLEAN /\ UNCHANGED <<ring, playing, dry, lastFrame, finished, sounds>>
    BY <1>4 DEF MuteDrive
  <2>2. Waiting' = Waiting /\ Made' = Made
    BY <2>1 DEF Waiting, Made, ring, finished
  <2>3. Rings'
    BY <2>1 DEF Rings, DriveRing, HostRing, ring, finished
  <2>4. Stream!Mute
    BY <2>1, <2>2 DEF Stream!Mute
  <2> QED
    BY <2>3, <2>4 DEF Stream!Next
<1>5. CASE TakeOutput
  <2>1. UNCHANGED <<drive, sounds>>
    BY <1>5 DEF TakeOutput
  <2>2. HostRing' /\ \E k \in 1 .. Len(Made) : Made' = SubSeq(Made, k + 1, Len(Made))
    BY <1>5, TakenCollected DEF Rings
  <2>3. Waiting' = Waiting
    BY <2>1 DEF Waiting, drive, ring
  <2>4. Rings'
    BY <2>1, <2>2 DEF Rings, DriveRing, drive, ring
  <2>5. Stream!Collect
    BY <2>1, <2>2, <2>3 DEF Stream!Collect, drive
  <2> QED
    BY <2>4, <2>5 DEF Stream!Next
<1>6. CASE ResetSound
  <2>1. /\ StopAudio /\ mutedDrive' = FALSE /\ sounds' = sounds
        /\ output' = [i \in DOMAIN output |-> Silence] /\ produced' = 0 /\ taken' = 0
    BY <1>6 DEF ResetSound
  <2>2. /\ output \in [0 .. OutputFrames - 1 -> Nat]
        /\ OutputFrames \in Nat \ {0} /\ CountMod \in Nat \ {0} /\ sounds \in Nat
    BY Sizes DEF Rings, HostRing
  <2>3. output' \in [0 .. OutputFrames - 1 -> Nat]
    BY <2>1, <2>2 DEF Silence
  <2>4. 0 % CountMod = 0
    BY <2>2, Itself
  <2>5. HostRing'
    BY <2>1, <2>2, <2>3, <2>4 DEF HostRing
  <2>6. Made' = <<>>
    <3>1. Made' = Ring(output', OutputFrames, taken', (produced' - taken') % CountMod)
      BY DEF Made, Ring
    <3> DEFINE f == output'
    <3>2. f \in [0 .. OutputFrames - 1 -> Nat] /\ 0 \in Int /\ 0 \in Nat
      BY <2>3
    <3> HIDE DEF f
    <3>3. Ring(f, OutputFrames, 0, 0) = <<>>
      BY <2>2, <3>2, RingEmpty
    <3> QED
      BY <2>1, <2>4, <3>1, <3>3 DEF f
  <2>7. Waiting' = <<>> /\ DriveRing'
    <3>1. mutedDrive' \in BOOLEAN
      BY <2>1
    <3> QED
      BY <2>1, <3>1, Emptied
  <2>8. Rings'
    BY <2>1, <2>2, <2>5, <2>7 DEF Rings
  <2>9. Stream!Restart
    BY <2>1, <2>6, <2>7 DEF StopAudio, Silence, Stream!Restart, Stream!Silent
  <2> QED
    BY <2>8, <2>9 DEF Stream!Next
<1>7. CASE UNCHANGED pathVars
  <2>1. UNCHANGED <<audio, decoded, played, playing, dry, lastFrame, mutedDrive,
                    output, produced, taken, sounds>>
    BY <1>7 DEF pathVars, drive, ring, finished
  <2>2. Waiting' = Waiting /\ Made' = Made
    BY <2>1 DEF Waiting, Made
  <2>3. Rings'
    BY <2>1 DEF Rings, DriveRing, HostRing
  <2>4. UNCHANGED Stream!vars
    BY <2>1, <2>2 DEF Stream!vars
  <2> QED
    BY <2>3, <2>4
<1> QED
  BY <1>1, <1>2, <1>3, <1>4, <1>5, <1>6, <1>7 DEF PathStep

LEMMA PathStarts == PathInit => Rings /\ Stream!Init
<1> SUFFICES ASSUME PathInit PROVE Rings /\ Stream!Init
  OBVIOUS
<1>1. /\ AudioCapacity \in Nat \ {0} /\ OutputFrames \in Nat \ {0} /\ CountMod \in Nat \ {0}
      /\ AudioHold \in Nat
  BY Sizes
<1>2. 0 % CountMod = 0
  BY <1>1, Itself
<1>3. /\ audio \in [0 .. AudioCapacity - 1 -> Nat] /\ output \in [0 .. OutputFrames - 1 -> Nat]
  BY <1>1 DEF PathInit, Silence
<1>4. /\ decoded = 0 /\ played = 0 /\ dry = 0 /\ lastFrame = 0
      /\ produced = 0 /\ taken = 0 /\ sounds = 0
  BY DEF PathInit, Silence
<1>5. playing = FALSE /\ mutedDrive = FALSE
  BY DEF PathInit
<1>6. DriveRing
  <2>1. /\ decoded \in Nat /\ played \in Nat /\ played <= decoded
        /\ decoded - played <= AudioCapacity
        /\ dry \in Nat /\ lastFrame \in Nat /\ dry <= AudioHold
    BY <1>1, <1>4
  <2>2. playing \in BOOLEAN /\ mutedDrive \in BOOLEAN
    BY <1>5
  <2> QED
    BY <1>3, <2>1, <2>2 DEF DriveRing
<1>7. HostRing
  BY <1>1, <1>2, <1>3, <1>4 DEF HostRing
<1>8. Waiting = <<>>
  BY <1>4, <1>6, WaitingIs
<1>9. Made = <<>>
  <2>1. Made = Ring(output, OutputFrames, 0, 0)
    BY <1>2, <1>4, RingsRead
  <2> DEFINE f == output
  <2>2. f \in [0 .. OutputFrames - 1 -> Nat] /\ 0 \in Int /\ 0 \in Nat
    BY <1>3
  <2> HIDE DEF f
  <2>3. Ring(f, OutputFrames, 0, 0) = <<>>
    BY <1>1, <2>2, RingEmpty
  <2> QED
    BY <2>1, <2>3 DEF f
<1> QED
  BY <1>4, <1>5, <1>6, <1>7, <1>8, <1>9 DEF Rings, Stream!Init, Stream!Silent

\* The two rings a disc's sound goes through are the stream a listener is
\* promised: in the order decoded, once each but to bridge a gap, the newest
\* lost where the drive's ring is full and the oldest where the host is slow,
\* with rings of any size and counters that wrap.
THEOREM SpuFramesInOrder == Spec => FramesInOrder
<1>1. Init => Rings /\ Stream!Init
  BY PathStarts DEF Init
<1>2. Rings /\ [Next]_vars => Rings' /\ [Stream!Next]_(Stream!vars)
  <2> SUFFICES ASSUME Rings, [Next]_vars PROVE Rings' /\ [Stream!Next]_(Stream!vars)
    OBVIOUS
  <2>1. PathTick \/ PathStep \/ UNCHANGED pathVars
    BY DEF Next, Tick, Between, vars
  <2> QED
    BY <2>1, PathIsStream
<1> QED
  BY <1>1, <1>2, PTL DEF Spec, FramesInOrder, Stream!Spec

\* No counter of either ring is ever out of its ring.
THEOREM SpuRings == Spec => []Rings
<1>1. Init => Rings
  BY PathStarts DEF Init
<1>2. Rings /\ [Next]_vars => Rings'
  <2> SUFFICES ASSUME Rings, [Next]_vars PROVE Rings'
    OBVIOUS
  <2>1. PathTick \/ PathStep \/ UNCHANGED pathVars
    BY DEF Next, Tick, Between, vars
  <2> QED
    BY <2>1, PathIsStream
<1> QED
  BY <1>1, <1>2, PTL DEF Spec

-----------------------------------------------------------------------------
(***************************************************************************)
(* The voice.                                                              *)
(*                                                                         *)
(* Into says where a voice is that is n samples into a note; Advance takes *)
(* it to n + 1 (AdvanceInto) and so a tick to where the pitch says         *)
(* (PlayedInto), and nothing else software may do to the voice moves it.   *)
(***************************************************************************)

LEMMA QuotientGrows ==
  ASSUME NEW C \in Nat \ {0}, NEW a \in Int, NEW b \in Int, a <= b
  PROVE  a \div C <= b \div C
<1> DEFINE i == a \div C
           j == b \div C
<1>1. i \in Int /\ j \in Int /\ a - (i * C) \in 0 .. C - 1 /\ b - (j * C) \in 0 .. C - 1
  <2>1. a % C \in 0 .. C - 1 /\ i \in Int /\ a = (i * C) + (a % C)
    BY Division
  <2>2. b % C \in 0 .. C - 1 /\ j \in Int /\ b = (j * C) + (b % C)
    BY Division
  <2> HIDE DEF i, j
  <2> QED
    BY <2>1, <2>2
<1> HIDE DEF i, j
<1>2. SUFFICES ASSUME i > j PROVE FALSE
  BY <1>1 DEF i, j
<1>3. (i - j - 1) * C >= 0
  BY <1>1, <1>2
<1>4. (i - j - 1) * C = (i * C) - (j * C) - C
  BY <1>1
<1> QED
  BY <1>1, <1>3, <1>4

LEMMA Induction ==
  ASSUME NEW S, 0 \in S, \A n \in Nat : n \in S => n + 1 \in S
  PROVE  Nat \subseteq S
<1> SUFFICES ASSUME NEW m \in Nat, m \notin S PROVE FALSE
  OBVIOUS
<1> DEFINE T == {x \in Nat : x \in S /\ x <= m}
<1> DEFINE U == T \ {0}
<1> DEFINE f == [x \in T |-> x + 1]
<1>1. IsFiniteSet(T)
  BY FS_BoundedSetOfNaturals
<1>2. IsFiniteSet(U) /\ Cardinality(U) = Cardinality(T) - 1
  <2>1. 0 \in T
    OBVIOUS
  <2> QED
    BY <1>1, <2>1, FS_RemoveElement
<1>3. f \in [T -> U]
  <2> SUFFICES ASSUME NEW x \in T PROVE x + 1 \in U
    OBVIOUS
  <2>1. x # m
    OBVIOUS
  <2> QED
    BY <2>1
<1>4. Cardinality(T) \in Nat
  BY <1>1, FS_CardinalityType
<1>5. \E x, y \in T : x # y /\ f[x] = f[y]
  <2> HIDE DEF T, U, f
  <2> QED
    BY <1>1, <1>2, <1>3, <1>4, FS_PigeonHole
<1> QED
  BY <1>5

-----------------------------------------------------------------------------
(* Recursion over a number of steps.                                       *)

Runs(f, F, x, n) == f[0] = x /\ \A k \in 1 .. n : f[k] = F[f[k - 1]]

\* There are values for a recursion to take, one after the other.
LEMMA Iterates ==
  ASSUME NEW F, NEW x, NEW n \in Nat
  PROVE  \E f : Runs(f, F, x, n)
<1> USE DEF Runs
<1> DEFINE S == {m \in Nat : \E f : Runs(f, F, x, m)}
<1>1. 0 \in S
  <2> DEFINE f == [k \in {0} |-> x]
  <2>1. f[0] = x /\ \A k \in 1 .. 0 : f[k] = F[f[k - 1]]
    OBVIOUS
  <2> QED
    BY <2>1
<1>2. ASSUME NEW m \in Nat, m \in S
      PROVE  m + 1 \in S
  <2>1. PICK f : Runs(f, F, x, m)
    BY <1>2
  <2> DEFINE g == [k \in 0 .. m + 1 |-> IF k = m + 1 THEN F[f[m]] ELSE f[k]]
  <2>2. /\ \A k \in 0 .. m : g[k] = f[k]
        /\ g[m + 1] = F[f[m]]
    OBVIOUS
  <2> HIDE DEF g
  <2>3. ASSUME NEW k \in 1 .. m + 1
        PROVE  g[k] = F[g[k - 1]]
    <3>1. CASE k = m + 1
      BY <2>2, <3>1
    <3>2. CASE k \in 1 .. m
      <4>1. k - 1 \in 0 .. m /\ k \in 0 .. m
        BY <3>2
      <4> QED
        BY <2>1, <2>2, <3>2, <4>1
    <3> QED
      BY <3>1, <3>2
  <2>4. Runs(g, F, x, m + 1)
    BY <2>1, <2>2, <2>3
  <2> QED
    BY <2>4
<1> HIDE DEF S
<1>3. Nat \subseteq S
  BY <1>1, <1>2, Induction
<1> QED
  BY <1>3 DEF S

-----------------------------------------------------------------------------
(* The blocks of a note.                                                   *)

\* Where the first k of them have the loop point.
Loop(q, k) ==
  LET loops == {i \in 1 .. k : "start" \in ram[q[i]]}
  IN IF loops = {} THEN q[1] ELSE q[Max(loops)]

\* What follows them.
After(q, k) == IF "end" \notin ram[q[k]] THEN (q[k] + 1) % Blocks ELSE Loop(q, k)

Walked(q) ==
  /\ q \in Seq(Block) /\ q # <<>>
  /\ \A k \in 1 .. Len(q) - 1 : q[k + 1] = After(q, k)

\* The sample n on from the first.
NthOf(q, n) ==
  LET k == n \div Samples + 1
  IN IF n < 0 \/ \E i \in 1 .. k - 1 : Stops(q[i]) THEN NoSample
     ELSE <<q[k], n % Samples>>

\* The voice is n samples into the note.
Into(q, v, n) ==
  LET k == n \div Samples + 1
  IN /\ v.ended <=> \E j \in 1 .. k - 1 : "end" \in ram[q[j]]
     /\ v.phase # "Off" =>
          /\ v.address = q[k] /\ v.flags = ram[q[k]] /\ v.repeat = Loop(q, k)
          /\ v.index = (n % Samples) + 1 /\ v.sample = <<q[k], n % Samples>>
          /\ v.previous = NthOf(q, n - 1)
          /\ \A i \in 1 .. k - 1 : ~Stops(q[i])

Reach == MaxTravel \div (PitchUnit * Samples)

\* The note is one there is, and the voice is where it has been played to.
NoteKept ==
  /\ ram \in [Block -> Flags] /\ patch \in Patches /\ pitch \in Pitches
  /\ voice \in Voice
  /\ note \in [path : Seq(Block), travel : 0 .. MaxTravel]
  /\ note.path # <<>> =>
       /\ Walked(note.path) /\ Len(note.path) = Reach + 1
       /\ note.travel < MaxTravel =>
            /\ voice.counter = note.travel % PitchUnit
            /\ Into(note.path, voice, note.travel \div PitchUnit)

LEMMA LoopGrows ==
  ASSUME NEW q, NEW k \in Nat
  PROVE  Loop(q, k + 1) = IF "start" \in ram[q[k + 1]] THEN q[k + 1] ELSE Loop(q, k)
<1> DEFINE L(j) == {i \in 1 .. j : "start" \in ram[q[i]]}
<1>1. \A j : Loop(q, j) = IF L(j) = {} THEN q[1] ELSE q[Max(L(j))]
  BY Zenon DEF Loop
<1>2. CASE "start" \in ram[q[k + 1]]
  <2>1. k + 1 \in L(k + 1) /\ \A i \in L(k + 1) : i \in Int /\ k + 1 >= i
    BY <1>2
  <2>2. Max(L(k + 1)) = k + 1
    <3> HIDE DEF L
    <3> QED
      BY <2>1 DEF Max
  <2> QED
    BY <1>1, <1>2, <2>1, <2>2
<1>3. CASE "start" \notin ram[q[k + 1]]
  <2>1. L(k + 1) = L(k)
    BY <1>3
  <2> HIDE DEF L
  <2> QED
    BY <1>1, <1>3, <2>1
<1> QED
  BY <1>2, <1>3

LEMMA LoopIsBlock ==
  ASSUME NEW q \in Seq(Block), q # <<>>, NEW k \in 1 .. Len(q)
  PROVE  Loop(q, k) \in Block
<1> DEFINE S == {j \in Nat : j <= Len(q) => Loop(q, j) \in Block}
<1>1. \A j \in 1 .. Len(q) : q[j] \in Block
  OBVIOUS
<1>2. 0 \in S
  <2>1. {i \in 1 .. 0 : "start" \in ram[q[i]]} = {}
    OBVIOUS
  <2>2. Loop(q, 0) = q[1]
    BY <2>1 DEF Loop
  <2>3. 1 \in 1 .. Len(q)
    OBVIOUS
  <2> QED
    BY <1>1, <2>2, <2>3
<1>3. ASSUME NEW j \in Nat, j \in S
      PROVE  j + 1 \in S
  <2> SUFFICES ASSUME j + 1 <= Len(q) PROVE Loop(q, j + 1) \in Block
    OBVIOUS
  <2>1. j + 1 \in 1 .. Len(q) /\ j <= Len(q)
    OBVIOUS
  <2>2. Loop(q, j) \in Block
    BY <1>3, <2>1
  <2> QED
    BY <1>1, <2>1, <2>2, LoopGrows
<1> HIDE DEF S
<1>4. Nat \subseteq S
  BY <1>2, <1>3, Induction
<1> QED
  BY <1>4 DEF S

\* What comes later makes no difference.
LEMMA AfterSame ==
  ASSUME NEW q, NEW r, NEW k \in Nat \ {0}, \A i \in 1 .. k : q[i] = r[i]
  PROVE  After(q, k) = After(r, k)
<1> DEFINE S == {j \in Nat : j <= k => Loop(q, j) = Loop(r, j)}
<1>1. 0 \in S
  <2>1. \A p : {i \in 1 .. 0 : "start" \in ram[p[i]]} = {}
    OBVIOUS
  <2>2. \A p : Loop(p, 0) = p[1]
    BY <2>1 DEF Loop
  <2>3. 1 \in 1 .. k
    OBVIOUS
  <2> QED
    BY <2>2, <2>3
<1>2. ASSUME NEW j \in Nat, j \in S
      PROVE  j + 1 \in S
  <2> SUFFICES ASSUME j + 1 <= k PROVE Loop(q, j + 1) = Loop(r, j + 1)
    OBVIOUS
  <2>1. j + 1 \in 1 .. k /\ j <= k
    OBVIOUS
  <2>2. Loop(q, j) = Loop(r, j)
    BY <1>2, <2>1
  <2> QED
    BY <2>1, <2>2, LoopGrows
<1> HIDE DEF S
<1>3. Nat \subseteq S
  BY <1>1, <1>2, Induction
<1>4. Loop(q, k) = Loop(r, k)
  BY <1>3 DEF S
<1>5. q[k] = r[k]
  OBVIOUS
<1> QED
  BY <1>4, <1>5 DEF After

LEMMA AfterIsBlock ==
  ASSUME NEW q \in Seq(Block), q # <<>>, NEW k \in 1 .. Len(q)
  PROVE  After(q, k) \in Block
<1>1. q[k] + 1 \in Int /\ Blocks \in Nat \ {0}
  <2>1. q[k] \in Block
    OBVIOUS
  <2> QED
    BY <2>1, VoiceAssumption DEF Block
<1>2. (q[k] + 1) % Blocks \in 0 .. Blocks - 1
  <2> DEFINE a == q[k] + 1
  <2> HIDE DEF a
  <2> QED
    BY <1>1, Division DEF a
<1> QED
  BY <1>2, LoopIsBlock DEF After, Block

\* A note's next block is put on the end of those it has.
LEMMA FollowingWorks ==
  ASSUME NEW q, Walked(q)
  PROVE  /\ Walked(Following[q]) /\ Len(Following[q]) = Len(q) + 1
         /\ Following[q][1] = q[1]
<1> DEFINE n == Len(q)
           r == Append(q, After(q, n))
<1>1. q \in Seq(Block) /\ q # <<>> /\ n \in Nat \ {0} /\ DOMAIN q = 1 .. n
  BY DEF Walked
<1>2. Following[q] = r
  <2>1. q \in Seq(Block) \ {<<>>}
    BY <1>1
  <2>2. Following[q] = Append(q, IF "end" \notin ram[q[n]] THEN (q[n] + 1) % Blocks
                                ELSE IF {i \in DOMAIN q : "start" \in ram[q[i]]} = {}
                                THEN q[1]
                                ELSE q[Max({i \in DOMAIN q : "start" \in ram[q[i]]})])
    BY <2>1, Zenon DEF Following
  <2> QED
    BY <1>1, <2>2, Zenon DEF After, Loop
<1>3. After(q, n) \in Block
  BY <1>1, AfterIsBlock
<1>4. /\ r \in Seq(Block) /\ Len(r) = n + 1 /\ r[n + 1] = After(q, n)
      /\ \A i \in 1 .. n : r[i] = q[i]
  BY <1>1, <1>3
<1> HIDE DEF r, n
<1>5. ASSUME NEW k \in 1 .. n
      PROVE  r[k + 1] = After(r, k)
  <2>1. After(q, k) = After(r, k)
    <3>1. k \in Nat \ {0} /\ \A i \in 1 .. k : q[i] = r[i]
      BY <1>1, <1>4
    <3> QED
      BY <3>1, AfterSame
  <2>2. CASE k = n
    BY <1>4, <2>1, <2>2
  <2>3. CASE k \in 1 .. n - 1
    <3>1. q[k + 1] = After(q, k) /\ k + 1 \in 1 .. n
      BY <1>1, <2>3 DEF Walked, n
    <3> QED
      BY <1>4, <2>1, <3>1
  <2> QED
    BY <1>1, <2>2, <2>3
<1>6. r # <<>> /\ r[1] = q[1]
  BY <1>1, <1>4
<1> QED
  BY <1>1, <1>2, <1>4, <1>5, <1>6 DEF Walked, n

LEMMA ReachIs == Reach \in Nat
  BY VoiceAssumption DEF Reach

LEMMA PathWalked ==
  ASSUME NEW b \in Block
  PROVE  Walked(Path(b)) /\ Len(Path(b)) = Reach + 1 /\ Path(b)[1] = b
<1> DEFINE E(f) == f = [n \in 0 .. Reach |-> IF n = 0 THEN <<b>> ELSE Following[f[n - 1]]]
           path == CHOOSE f : E(f)
           P(n) == Walked(path[n]) /\ Len(path[n]) = n + 1 /\ path[n][1] = b
           S == {n \in Nat : n <= Reach => P(n)}
<1>1. Path(b) = path[Reach]
  BY Zenon DEF Path, Reach
<1>2. path[0] = <<b>> /\ \A k \in 1 .. Reach : path[k] = Following[path[k - 1]]
  <2> DEFINE F == Following
             x == <<b>>
  <2> HIDE DEF F, x, Reach
  <2>1. Reach \in Nat
    BY ReachIs
  <2>2. PICK f : Runs(f, F, x, Reach)
    BY <2>1, Iterates
  <2> DEFINE g == [k \in 0 .. Reach |-> f[k]]
  <2>3. \A k \in 0 .. Reach : k # 0 => k \in 1 .. Reach /\ k - 1 \in 0 .. Reach
    BY <2>1
  <2>4. E(g)
    BY <2>2, <2>3 DEF F, x, Runs
  <2>5. E(path)
    <3> HIDE DEF E
    <3> QED
      BY <2>4
  <2>6. \A k \in 0 .. Reach : path[k] = IF k = 0 THEN x ELSE F[path[k - 1]]
    <3> HIDE DEF path
    <3> QED
      BY <2>5 DEF F, x
  <2>7. 0 \in 0 .. Reach /\ \A k \in 1 .. Reach : k \in 0 .. Reach /\ k # 0
    BY <2>1
  <2> HIDE DEF path
  <2> QED
    BY <2>6, <2>7 DEF F, x
<1> HIDE DEF path
<1>3. 0 \in S
  <2>1. <<b>> \in Seq(Block) /\ <<b>> # <<>> /\ Len(<<b>>) = 1 /\ <<b>>[1] = b
    OBVIOUS
  <2>2. Walked(<<b>>)
    BY <2>1 DEF Walked
  <2> QED
    BY <1>2, <2>1, <2>2
<1>4. ASSUME NEW n \in Nat, n \in S
      PROVE  n + 1 \in S
  <2> SUFFICES ASSUME n + 1 <= Reach PROVE P(n + 1)
    OBVIOUS
  <2>1. n + 1 \in 1 .. Reach /\ (n + 1) - 1 = n /\ n <= Reach
    BY ReachIs
  <2>2. path[n + 1] = Following[path[n]]
    BY <1>2, <2>1
  <2> QED
    BY <1>4, <2>1, <2>2, FollowingWorks
<1> HIDE DEF S
<1>5. Nat \subseteq S
  BY <1>3, <1>4, Induction
<1>6. P(Reach)
  BY <1>5, ReachIs DEF S
<1> QED
  BY <1>1, <1>6

-----------------------------------------------------------------------------
(* The voice's walk.                                                       *)

LEMMA DecodeIs ==
  ASSUME ram \in [Block -> Flags], NEW v \in Voice
  PROVE  /\ Decode[v] \in Voice
         /\ Decode[v] = [v EXCEPT !.flags = ram[v.address],
                                  !.repeat = IF "start" \in ram[v.address]
                                             THEN v.address ELSE v.repeat]
<1>1. v.address \in Block /\ ram[v.address] \in SUBSET Flag
  <2>1. v.address \in Block
    BY DEF Voice
  <2> QED
    BY <2>1, VoiceAssumption
<1>2. Decode[v] = [v EXCEPT !.flags = ram[v.address],
                            !.repeat = IF "start" \in ram[v.address]
                                       THEN v.address ELSE v.repeat]
  BY Zenon DEF Decode
<1> QED
  BY <1>1, <1>2 DEF Voice

\* What next_block does to what the walk goes by.
LEMMA NextBlockIs ==
  ASSUME ram \in [Block -> Flags], NEW v \in Voice
  PROVE  LET b == IF "end" \in v.flags THEN v.repeat ELSE (v.address + 1) % Blocks
             w == NextBlock[v]
             stops == "end" \in v.flags /\ "repeat" \notin v.flags
         IN /\ w \in Voice /\ w.counter = v.counter /\ w.sample = v.sample
            /\ w.ended <=> v.ended \/ "end" \in v.flags
            /\ w.phase = IF stops THEN "Off" ELSE v.phase
            /\ w.phase # "Off" =>
                 /\ w.address = b /\ w.flags = ram[b] /\ w.index = 0
                 /\ w.repeat = IF "start" \in ram[b] THEN b ELSE v.repeat
<1> DEFINE ends == "end" \in v.flags
           stops == ends /\ "repeat" \notin v.flags
           b == IF ends THEN v.repeat ELSE (v.address + 1) % Blocks
           m == [v EXCEPT !.ended = v.ended \/ ends, !.address = b,
                          !.phase = IF stops THEN "Off" ELSE v.phase,
                          !.level = IF stops THEN 0 ELSE v.level]
<1>1. NextBlock[v] = IF m.phase = "Off" THEN m ELSE [Decode[m] EXCEPT !.index = 0]
  BY Zenon DEF NextBlock
<1>2. b \in Block
  <2>1. v.repeat \in Block /\ v.address \in Int
    BY VoiceAssumption DEF Voice, Block
  <2>2. (v.address + 1) % Blocks \in 0 .. Blocks - 1
    <3> DEFINE a == v.address + 1
    <3>1. a \in Int
      BY <2>1
    <3> HIDE DEF a
    <3> QED
      BY <3>1, Division, VoiceAssumption DEF a
  <2> QED
    BY <2>1, <2>2 DEF Block
<1> HIDE DEF b
<1>3. m \in Voice
  <2>1. 0 \in 0 .. EnvelopeMax /\ "Off" \in Phase
    BY VoiceAssumption DEF Phase
  <2> QED
    BY <1>2, <2>1 DEF Voice
<1>4. /\ m.ended <=> v.ended \/ ends
      /\ m.address = b /\ m.phase = (IF stops THEN "Off" ELSE v.phase)
      /\ m.counter = v.counter /\ m.sample = v.sample /\ m.repeat = v.repeat
  BY DEF Voice
<1> HIDE DEF m
<1>5. CASE m.phase = "Off"
  BY <1>1, <1>3, <1>4, <1>5 DEF b
<1>6. CASE m.phase # "Off"
  <2> DEFINE d == Decode[m]
             w == [d EXCEPT !.index = 0]
  <2>1. d \in Voice /\ d = [m EXCEPT !.flags = ram[b],
                                     !.repeat = IF "start" \in ram[b] THEN b ELSE v.repeat]
    BY <1>3, <1>4, DecodeIs
  <2>2. /\ d.flags = ram[b] /\ d.repeat = IF "start" \in ram[b] THEN b ELSE v.repeat
        /\ d.address = b /\ d.phase = m.phase /\ d.counter = m.counter
        /\ d.sample = m.sample /\ d.ended = m.ended
    BY <1>3, <1>4, <2>1 DEF Voice
  <2> HIDE DEF d
  <2>3. 0 \in 0 .. Samples
    BY VoiceAssumption
  <2>4. /\ w \in Voice
        /\ w.flags = d.flags /\ w.repeat = d.repeat /\ w.index = 0
        /\ w.address = d.address /\ w.phase = d.phase /\ w.counter = d.counter
        /\ w.sample = d.sample /\ w.ended = d.ended
    BY <2>1, <2>3 DEF Voice
  <2>5. NextBlock[v] = w
    BY <1>1, <1>6 DEF d
  <2> HIDE DEF w
  <2> QED
    BY <1>4, <1>6, <2>2, <2>4, <2>5 DEF b
<1> QED
  BY <1>5, <1>6

\* The block and the sample in it that the next sample falls on.
LEMMA NextSample ==
  ASSUME NEW n \in Nat
  PROVE  LET k == n \div Samples
             r == n % Samples
         IN /\ k \in Nat /\ r \in 0 .. Samples - 1
            /\ IF r + 1 < Samples
               THEN (n + 1) \div Samples = k /\ (n + 1) % Samples = r + 1
               ELSE (n + 1) \div Samples = k + 1 /\ (n + 1) % Samples = 0
<1> DEFINE k == n \div Samples
           r == n % Samples
<1>1. Samples \in Nat \ {0}
  BY VoiceAssumption
<1>2. r \in 0 .. Samples - 1 /\ k \in Int /\ n = (k * Samples) + r
  BY <1>1, Division
<1> HIDE DEF k, r
<1>3. k \in Nat
  <2>1. k < 0 => (-1 - k) * Samples >= 0
    BY <1>1, <1>2
  <2>2. (-1 - k) * Samples = -Samples - (k * Samples)
    BY <1>1, <1>2
  <2> QED
    BY <1>1, <1>2, <2>1, <2>2
<1>4. CASE r + 1 < Samples
  <2>1. r + 1 \in 0 .. Samples - 1 /\ n + 1 \in Int /\ n + 1 = k * Samples + (r + 1)
    BY <1>1, <1>2, <1>4
  <2>2. (n + 1) % Samples = r + 1 /\ (n + 1) \div Samples = k
    BY <1>1, <1>2, <2>1, Remainder
  <2> QED
    BY <1>2, <1>3, <1>4, <2>2 DEF k, r
<1>5. CASE ~(r + 1 < Samples)
  <2>1. (k + 1) * Samples = (k * Samples) + Samples
    BY <1>1, <1>2
  <2>2. 0 \in 0 .. Samples - 1 /\ n + 1 \in Int /\ n + 1 = (k + 1) * Samples + 0
        /\ k + 1 \in Int
    BY <1>1, <1>2, <1>5, <2>1
  <2>3. (n + 1) % Samples = 0 /\ (n + 1) \div Samples = k + 1
    BY <1>1, <2>2, Remainder
  <2> QED
    BY <1>2, <1>3, <1>5, <2>3 DEF k, r
<1> QED
  BY <1>4, <1>5

\* Into the note, or past the end of it.
Going(q, v, n) == Into(q, v, n) /\ (v.phase = "Off" => v.ended)

LEMMA AdvanceInto ==
  ASSUME ram \in [Block -> Flags], NEW q, Walked(q), NEW v \in Voice, NEW n \in Nat,
         (n + 1) \div Samples < Len(q), Going(q, v, n)
  PROVE  /\ Advance[v] \in Voice /\ Advance[v].counter = v.counter
         /\ Going(q, Advance[v], n + 1)
<1> DEFINE k == n \div Samples + 1
           r == n % Samples
           j == (n + 1) \div Samples + 1
           at == IF v.index >= Samples THEN NextBlock[v] ELSE v
           w == Advance[v]
           Ended(h) == \E i \in 1 .. h - 1 : "end" \in ram[q[i]]
<1>1. /\ Samples \in Nat \ {0} /\ k \in Nat \ {0} /\ r \in 0 .. Samples - 1
      /\ IF r + 1 < Samples THEN j = k /\ (n + 1) % Samples = r + 1
         ELSE j = k + 1 /\ (n + 1) % Samples = 0
  <2>1. /\ n \div Samples \in Nat /\ r \in 0 .. Samples - 1
        /\ IF r + 1 < Samples
           THEN (n + 1) \div Samples = n \div Samples /\ (n + 1) % Samples = r + 1
           ELSE (n + 1) \div Samples = n \div Samples + 1 /\ (n + 1) % Samples = 0
    BY NextSample
  <2> DEFINE a == n \div Samples
             b == (n + 1) \div Samples
             c == (n + 1) % Samples
  <2> HIDE DEF r, a, b, c
  <2>2. /\ a \in Nat /\ r \in 0 .. Samples - 1
        /\ IF r + 1 < Samples THEN b = a /\ c = r + 1 ELSE b = a + 1 /\ c = 0
    BY <2>1 DEF a, b, c
  <2>3. /\ Samples \in Nat \ {0} /\ a + 1 \in Nat \ {0}
        /\ IF r + 1 < Samples THEN b + 1 = a + 1 /\ c = r + 1
           ELSE b + 1 = (a + 1) + 1 /\ c = 0
    BY <2>2, VoiceAssumption
  <2> QED
    BY <2>2, <2>3 DEF a, b, c
<1>2. q \in Seq(Block) /\ Len(q) \in Nat /\ \A i \in 1 .. Len(q) - 1 : q[i + 1] = After(q, i)
  BY DEF Walked
<1>3. j \in Nat /\ j <= Len(q) /\ k <= Len(q)
  <2> DEFINE b == (n + 1) \div Samples
  <2>1. b < Len(q) /\ b + 1 = j
    OBVIOUS
  <2> HIDE DEF b, k, r, j
  <2>2. b \in Int
    BY <1>1, Division DEF b
  <2> QED
    BY <1>1, <1>2, <2>1, <2>2
<1>4. /\ v.ended <=> Ended(k)
      /\ v.phase # "Off" =>
           /\ v.address = q[k] /\ v.flags = ram[q[k]] /\ v.repeat = Loop(q, k)
           /\ v.index = r + 1 /\ v.sample = <<q[k], r>>
           /\ \A i \in 1 .. k - 1 : ~Stops(q[i])
      /\ v.phase = "Off" => v.ended
  BY Zenon DEF Going, Into
<1>5. w = IF at.phase = "Off"
          THEN [at EXCEPT !.previous = v.sample, !.sample = NoSample]
          ELSE [at EXCEPT !.previous = v.sample, !.sample = <<at.address, at.index>>,
                          !.index = at.index + 1]
  BY Zenon DEF Advance
<1>6. Into(q, w, n + 1) <=>
        /\ w.ended <=> Ended(j)
        /\ w.phase # "Off" =>
             /\ w.address = q[j] /\ w.flags = ram[q[j]] /\ w.repeat = Loop(q, j)
             /\ w.index = ((n + 1) % Samples) + 1 /\ w.sample = <<q[j], (n + 1) % Samples>>
             /\ w.previous = NthOf(q, (n + 1) - 1)
             /\ \A i \in 1 .. j - 1 : ~Stops(q[i])
  BY Zenon DEF Into
<1>7. v.phase # "Off" => v.sample = NthOf(q, (n + 1) - 1)
  <2>1. (n + 1) - 1 = n /\ ~(n < 0)
    OBVIOUS
  <2>2. NthOf(q, n) = IF n < 0 \/ \E i \in 1 .. k - 1 : Stops(q[i]) THEN NoSample
                      ELSE <<q[k], r>>
    BY Zenon DEF NthOf
  <2> HIDE DEF k, r
  <2> QED
    BY <1>4, <2>1, <2>2
<1>8. v.sample \in Sample /\ NoSample \in Sample
  BY DEF Voice, Sample
<1> DEFINE c == (n + 1) % Samples
           p == NthOf(q, (n + 1) - 1)
<1> HIDE DEF k, r, j, at, w, Ended, c, p
<1>9. at \in Voice /\ at.counter = v.counter
  BY NextBlockIs DEF at
<1>10. CASE at.phase = "Off"
  <2>1. /\ w \in Voice /\ w.counter = v.counter /\ w.phase = "Off"
        /\ w.ended = at.ended
    BY <1>5, <1>8, <1>9, <1>10 DEF Voice
  <2>2. at.ended /\ Ended(j)
    <3>1. CASE v.phase = "Off"
      <4>1. v.ended /\ Ended(k)
        BY <1>4, <3>1
      <4>2. at.ended
        BY <4>1, NextBlockIs DEF at
      <4>3. k <= j
        BY <1>1
      <4> QED
        BY <1>1, <1>3, <4>1, <4>2, <4>3 DEF Ended
    <3>2. CASE v.phase # "Off"
      <4>1. v.index >= Samples /\ at = NextBlock[v]
        BY <1>10, <3>2 DEF at
      <4>2. "end" \in v.flags /\ at.ended
        BY <1>10, <3>2, <4>1, NextBlockIs
      <4>3. "end" \in ram[q[k]] /\ j = k + 1
        BY <1>1, <1>4, <3>2, <4>1, <4>2
      <4> QED
        BY <1>1, <4>2, <4>3 DEF Ended
    <3> QED
      BY <3>1, <3>2
  <2>3. w.ended
    BY <2>1, <2>2
  <2> QED
    BY <1>6, <2>1, <2>2, <2>3 DEF Going, w
<1>11. CASE at.phase # "Off"
  <2>1. v.phase # "Off"
    BY <1>11, NextBlockIs DEF at
  <2>2. /\ at.ended <=> Ended(j)
        /\ at.address = q[j] /\ at.flags = ram[q[j]] /\ at.repeat = Loop(q, j)
        /\ at.index = c
        /\ \A i \in 1 .. j - 1 : ~Stops(q[i])
    <3>1. CASE r + 1 < Samples
      <4>1. at = v /\ j = k /\ c = r + 1
        BY <1>1, <1>4, <2>1, <3>1 DEF at, c
      <4> QED
        BY <1>4, <2>1, <4>1
    <3>2. CASE ~(r + 1 < Samples)
      <4>1. at = NextBlock[v] /\ j = k + 1 /\ c = 0 /\ j - 1 = k
        BY <1>1, <1>4, <2>1, <3>2 DEF at, c
      <4> DEFINE b == IF "end" \in v.flags THEN v.repeat ELSE (v.address + 1) % Blocks
      <4>2. b = After(q, k) /\ After(q, k) = q[j]
        <5>1. k \in 1 .. Len(q) - 1
          BY <1>1, <1>2, <1>3, <4>1
        <5>2. q[k + 1] = After(q, k)
          BY <1>2, <5>1
        <5> QED
          BY <1>4, <2>1, <4>1, <5>2 DEF After
      <4>3. /\ at.ended <=> v.ended \/ "end" \in v.flags
            /\ ~("end" \in v.flags /\ "repeat" \notin v.flags)
            /\ at.address = b /\ at.flags = ram[b] /\ at.index = 0
            /\ at.repeat = IF "start" \in ram[b] THEN b ELSE v.repeat
        BY <1>11, <4>1, NextBlockIs
      <4> HIDE DEF b
      <4>4. at.repeat = Loop(q, j)
        <5>1. Loop(q, k + 1) = IF "start" \in ram[q[k + 1]] THEN q[k + 1] ELSE Loop(q, k)
          BY <1>1, LoopGrows
        <5> QED
          BY <1>4, <2>1, <4>1, <4>2, <4>3, <5>1
      <4>5. Ended(j) <=> Ended(k) \/ "end" \in ram[q[k]]
        BY <1>1, <4>1 DEF Ended
      <4>6. \A i \in 1 .. j - 1 : ~Stops(q[i])
        <5>1. ~Stops(q[k])
          BY <1>4, <2>1, <4>3 DEF Stops
        <5>2. \A i \in 1 .. j - 1 : i = k \/ i \in 1 .. k - 1
          BY <1>1, <4>1
        <5> QED
          BY <1>4, <2>1, <5>1, <5>2
      <4> QED
        BY <1>4, <2>1, <4>1, <4>2, <4>3, <4>4, <4>5, <4>6
    <3> QED
      BY <3>1, <3>2
  <2>3. c \in 0 .. Samples - 1
    BY <1>1 DEF c
  <2>4. <<at.address, at.index>> \in Sample
    <3>1. at.address \in Block
      BY <1>9, VoiceAssumption DEF Voice
    <3> QED
      BY <2>2, <2>3, <3>1 DEF Sample
  <2>5. /\ w \in Voice /\ w.counter = v.counter /\ w.phase = at.phase
        /\ w.ended = at.ended /\ w.address = at.address /\ w.flags = at.flags
        /\ w.repeat = at.repeat /\ w.index = c + 1 /\ w.sample = <<q[j], c>>
        /\ w.previous = v.sample
    <3>1. c + 1 \in 0 .. Samples
      BY <1>1, <2>3
    <3>2. w = [at EXCEPT !.previous = v.sample, !.sample = <<at.address, at.index>>,
                         !.index = at.index + 1]
      BY <1>5, <1>11
    <3> QED
      BY <1>8, <1>9, <2>2, <2>4, <3>1, <3>2 DEF Voice
  <2>6. w.previous = p
    BY <1>7, <2>1, <2>5 DEF p
  <2>7. Into(q, w, n + 1)
    BY <1>6, <2>2, <2>5, <2>6, Zenon DEF c, p
  <2> QED
    BY <1>11, <2>5, <2>7 DEF Going, w
<1> QED
  BY <1>10, <1>11

LEMMA QuotientBelow ==
  ASSUME NEW C \in Nat \ {0}, NEW a \in Int, NEW b \in Int, NEW m \in Int, a <= b,
         b \div C < m
  PROVE  a \div C < m
<1>1. a \div C <= b \div C
  BY QuotientGrows
<1>2. a \div C \in Int /\ b \div C \in Int
  BY Division
<1> QED
  BY <1>1, <1>2

\* What is counted off a travel and what is left of it are those of its parts.
LEMMA TravelSplits ==
  ASSUME NEW t \in Nat, NEW p \in Nat
  PROVE  LET c == t % PitchUnit
             n == t \div PitchUnit
             e == (c + p) % PitchUnit
             d == (c + p) \div PitchUnit
         IN /\ n \in Nat /\ d \in Nat /\ e \in 0 .. PitchUnit - 1
            /\ (t + p) % PitchUnit = e /\ (t + p) \div PitchUnit = n + d
<1> DEFINE c == t % PitchUnit
           n == t \div PitchUnit
           e == (c + p) % PitchUnit
           d == (c + p) \div PitchUnit
<1>1. PitchUnit \in Nat \ {0} /\ t \in Int
  BY VoiceAssumption
<1>2. c \in 0 .. PitchUnit - 1 /\ n \in Int /\ t = (n * PitchUnit) + c
  BY <1>1, Division
<1>3. c + p \in Nat
  BY <1>1, <1>2
<1> HIDE DEF c, n
<1>4. e \in 0 .. PitchUnit - 1 /\ d \in Int /\ c + p = (d * PitchUnit) + e
  <2> DEFINE a == c + p
  <2>1. a \in Int
    BY <1>3
  <2> HIDE DEF a
  <2>2. a % PitchUnit \in 0 .. PitchUnit - 1 /\ a \div PitchUnit \in Int
        /\ a = ((a \div PitchUnit) * PitchUnit) + (a % PitchUnit)
    BY <1>1, <2>1, Division
  <2> QED
    BY <2>2, Zenon DEF a
<1> HIDE DEF e, d
<1>5. \A x \in Int, y \in Nat : y - (x * PitchUnit) < PitchUnit => x \in Nat
  <2> SUFFICES ASSUME NEW x \in Int, NEW y \in Nat, y - (x * PitchUnit) < PitchUnit, x < 0
               PROVE  FALSE
    OBVIOUS
  <2>1. (-1 - x) * PitchUnit >= 0
    BY <1>1
  <2>2. (-1 - x) * PitchUnit = -PitchUnit - (x * PitchUnit)
    BY <1>1
  <2> QED
    BY <1>1, <2>1, <2>2
<1>6. n \in Nat /\ d \in Nat
  <2>1. t - (n * PitchUnit) < PitchUnit /\ (c + p) - (d * PitchUnit) < PitchUnit
    <3> DEFINE x == n * PitchUnit
               y == d * PitchUnit
    <3>1. x \in Int /\ y \in Int
      BY <1>1, <1>2, <1>4
    <3> HIDE DEF x, y
    <3>2. t = x + c /\ c + p = y + e
      BY <1>2, <1>4 DEF x, y
    <3>3. t - x < PitchUnit /\ (c + p) - y < PitchUnit
      BY <1>1, <1>2, <1>3, <1>4, <3>1, <3>2
    <3> QED
      BY <3>3 DEF x, y
  <2> QED
    BY <1>2, <1>3, <1>4, <1>5, <2>1
<1>7. (t + p) % PitchUnit = e /\ (t + p) \div PitchUnit = n + d
  <2>1. (n + d) * PitchUnit = (n * PitchUnit) + (d * PitchUnit)
    BY <1>1, <1>6
  <2>2. t + p = (n + d) * PitchUnit + e /\ n + d \in Int /\ t + p \in Int
    BY <1>1, <1>2, <1>4, <1>6, <2>1
  <2> DEFINE a == t + p
             b == n + d
  <2> HIDE DEF a, b
  <2>3. a = b * PitchUnit + e /\ b \in Int /\ a \in Int
    BY <2>2 DEF a, b
  <2>4. a % PitchUnit = e /\ a \div PitchUnit = b
    BY <1>1, <1>4, <2>3, Remainder
  <2> QED
    BY <2>4 DEF a, b
<1> QED
  BY <1>4, <1>6, <1>7 DEF c, n, e, d

\* The walk of Advances.
Walk(after, d, v) ==
  /\ after[0] = v /\ Advances(d, v) = after[d]
  /\ \A k \in 1 .. d : after[k] = Advance[after[k - 1]]

LEMMA AdvancesRuns ==
  ASSUME NEW v, NEW d \in Nat
  PROVE  \E after : Walk(after, d, v)
<1> DEFINE E(f) == f = [k \in 0 .. d |-> IF k = 0 THEN v ELSE Advance[f[k - 1]]]
           after == CHOOSE f : E(f)
<1>1. Advances(d, v) = after[d]
  BY Zenon DEF Advances
<1>2. after[0] = v /\ \A k \in 1 .. d : after[k] = Advance[after[k - 1]]
  <2> DEFINE F == Advance
  <2> HIDE DEF F
  <2>1. PICK f : Runs(f, F, v, d)
    BY Iterates
  <2> DEFINE g == [k \in 0 .. d |-> f[k]]
  <2>2. \A k \in 0 .. d : k # 0 => k \in 1 .. d /\ k - 1 \in 0 .. d
    OBVIOUS
  <2>3. E(g)
    BY <2>1, <2>2 DEF F, Runs
  <2>4. E(after)
    <3> HIDE DEF E
    <3> QED
      BY <2>3
  <2>5. \A k \in 0 .. d : after[k] = IF k = 0 THEN v ELSE F[after[k - 1]]
    <3> HIDE DEF after
    <3> QED
      BY <2>4 DEF F
  <2>6. 0 \in 0 .. d /\ \A k \in 1 .. d : k \in 0 .. d /\ k # 0
    OBVIOUS
  <2> HIDE DEF after
  <2> QED
    BY <2>5, <2>6 DEF F
<1> HIDE DEF after
<1> QED
  BY <1>1, <1>2 DEF Walk

LEMMA AdvanceTyped ==
  ASSUME ram \in [Block -> Flags], NEW v \in Voice
  PROVE  Advance[v] \in Voice
<1> DEFINE at == IF v.index >= Samples THEN NextBlock[v] ELSE v
<1>1. Advance[v] = IF at.phase = "Off"
                   THEN [at EXCEPT !.previous = v.sample, !.sample = NoSample]
                   ELSE [at EXCEPT !.previous = v.sample,
                                   !.sample = <<at.address, at.index>>,
                                   !.index = at.index + 1]
  BY Zenon DEF Advance
<1>2. Samples \in Nat \ {0} /\ v.index \in 0 .. Samples
  BY VoiceAssumption DEF Voice
<1>3. at \in Voice /\ (at.phase # "Off" => at.index \in 0 .. Samples - 1)
  <2>1. NextBlock[v] \in Voice /\ (NextBlock[v].phase # "Off" => NextBlock[v].index = 0)
    BY NextBlockIs
  <2> QED
    BY <1>2, <2>1
<1>4. v.sample \in Sample /\ NoSample \in Sample
  BY DEF Voice, Sample
<1> HIDE DEF at
<1>5. CASE at.phase = "Off"
  <2>1. Advance[v] = [at EXCEPT !.previous = v.sample, !.sample = NoSample]
    BY <1>1, <1>5
  <2> QED
    BY <1>3, <1>4, <2>1 DEF Voice
<1>6. CASE at.phase # "Off"
  <2>1. <<at.address, at.index>> \in Sample
    <3>1. at.address \in Block
      BY <1>3, VoiceAssumption DEF Voice
    <3> QED
      BY <1>3, <1>6, <3>1 DEF Sample
  <2>2. at.index + 1 \in 0 .. Samples
    BY <1>2, <1>3, <1>6
  <2> QED
    BY <1>1, <1>3, <1>4, <1>6, <2>1, <2>2, ZenonT(60) DEF Voice
<1> QED
  BY <1>5, <1>6

LEMMA AdvancesTyped ==
  ASSUME ram \in [Block -> Flags], NEW v \in Voice, NEW d \in Nat
  PROVE  Advances(d, v) \in Voice
<1>0. PICK after : Walk(after, d, v)
  BY AdvancesRuns
<1>1. /\ after[0] = v /\ Advances(d, v) = after[d]
      /\ \A k \in 1 .. d : after[k] = Advance[after[k - 1]]
  BY <1>0 DEF Walk
<1> DEFINE S == {k \in Nat : k <= d => after[k] \in Voice}
<1>2. 0 \in S
  BY <1>1
<1>3. ASSUME NEW k \in Nat, k \in S
      PROVE  k + 1 \in S
  <2> SUFFICES ASSUME k + 1 <= d PROVE after[k + 1] \in Voice
    OBVIOUS
  <2>1. k + 1 \in 1 .. d /\ (k + 1) - 1 = k /\ k <= d
    OBVIOUS
  <2>2. after[k] \in Voice /\ after[k + 1] = Advance[after[k]]
    BY <1>1, <1>3, <2>1
  <2> QED
    BY <2>2, AdvanceTyped
<1> HIDE DEF S
<1>4. Nat \subseteq S
  BY <1>2, <1>3, Induction
<1> QED
  BY <1>1, <1>4 DEF S

\* However many samples on.
LEMMA AdvancesInto ==
  ASSUME ram \in [Block -> Flags], NEW q, Walked(q), NEW v \in Voice, NEW n \in Nat,
         NEW d \in Nat, (n + d) \div Samples < Len(q), Going(q, v, n)
  PROVE  LET w == Advances(d, v)
         IN w \in Voice /\ w.counter = v.counter /\ Going(q, w, n + d)
<1>0. PICK after : Walk(after, d, v)
  BY AdvancesRuns
<1>1. /\ after[0] = v /\ Advances(d, v) = after[d]
      /\ \A k \in 1 .. d : after[k] = Advance[after[k - 1]]
  BY <1>0 DEF Walk
<1> DEFINE P(k) == /\ after[k] \in Voice /\ after[k].counter = v.counter
                   /\ Going(q, after[k], n + k)
           S == {k \in Nat : k <= d => P(k)}
<1>3. 0 \in S
  BY <1>1
<1>4. ASSUME NEW k \in Nat, k \in S
      PROVE  k + 1 \in S
  <2> SUFFICES ASSUME k + 1 <= d PROVE P(k + 1)
    OBVIOUS
  <2>1. k + 1 \in 1 .. d /\ (k + 1) - 1 = k /\ k <= d /\ n + k \in Nat
        /\ n + (k + 1) = (n + k) + 1
    OBVIOUS
  <2>2. P(k)
    BY <1>4, <2>1
  <2>3. after[k + 1] = Advance[after[k]]
    BY <1>1, <2>1
  <2>4. ((n + k) + 1) \div Samples < Len(q)
    <3>1. (n + k) + 1 \in Int /\ n + d \in Int /\ (n + k) + 1 <= n + d
      BY <2>1
    <3>2. Samples \in Nat \ {0} /\ Len(q) \in Int
      BY VoiceAssumption DEF Walked
    <3> QED
      BY <3>1, <3>2, QuotientBelow
  <2> QED
    BY <2>1, <2>2, <2>3, <2>4, AdvanceInto
<1> HIDE DEF S
<1>5. Nat \subseteq S
  BY <1>3, <1>4, Induction
<1>6. P(d)
  BY <1>5 DEF S
<1> QED
  BY <1>1, <1>6

\* A tick takes the voice as far on as the pitch says.
LEMMA PlayedInto ==
  ASSUME ram \in [Block -> Flags], pitch \in Nat, NEW q, Walked(q), NEW v \in Voice,
         NEW t \in Nat, v.counter = t % PitchUnit, v.phase # "Off",
         ((t + pitch) \div PitchUnit) \div Samples < Len(q), Into(q, v, t \div PitchUnit)
  PROVE  LET w == Played(v)
         IN /\ w \in Voice /\ w.counter = (t + pitch) % PitchUnit
            /\ Into(q, w, (t + pitch) \div PitchUnit)
<1> DEFINE c == t % PitchUnit
           n == t \div PitchUnit
           e == (c + pitch) % PitchUnit
           d == (c + pitch) \div PitchUnit
           u == [v EXCEPT !.counter = e]
<1>1. /\ n \in Nat /\ d \in Nat /\ e \in 0 .. PitchUnit - 1
      /\ (t + pitch) % PitchUnit = e /\ (t + pitch) \div PitchUnit = n + d
  BY TravelSplits, Zenon
<1>2. Played(v) = Advances(d, u)
  BY Zenon DEF Played
<1> HIDE DEF c, n, e, d
<1>3. /\ u \in Voice /\ u.counter = e /\ u.ended = v.ended /\ u.phase = v.phase
      /\ u.address = v.address /\ u.flags = v.flags /\ u.repeat = v.repeat
      /\ u.index = v.index /\ u.sample = v.sample /\ u.previous = v.previous
  BY <1>1 DEF Voice
<1> HIDE DEF u
<1>4. Going(q, u, n)
  <2>1. Into(q, v, n)
    BY DEF n
  <2> QED
    BY <1>3, <2>1, Zenon DEF Into, Going
<1>5. (n + d) \div Samples < Len(q)
  BY <1>1
<1>6. /\ Advances(d, u) \in Voice /\ Advances(d, u).counter = u.counter
       /\ Going(q, Advances(d, u), n + d)
  BY <1>1, <1>3, <1>4, <1>5, AdvancesInto
<1> QED
  BY <1>1, <1>2, <1>3, <1>6 DEF Going

LEMMA PlayedTyped ==
  ASSUME ram \in [Block -> Flags], pitch \in Nat, NEW v \in Voice
  PROVE  Played(v) \in Voice
<1> DEFINE e == (v.counter + pitch) % PitchUnit
           d == (v.counter + pitch) \div PitchUnit
           u == [v EXCEPT !.counter = e]
<1>1. d \in Nat /\ e \in 0 .. PitchUnit - 1
  <2> DEFINE t == v.counter + pitch
  <2>1. t \in Nat
    BY VoiceAssumption DEF Voice
  <2> HIDE DEF t
  <2>2. (t + 0) % PitchUnit \in 0 .. PitchUnit - 1 /\ t \div PitchUnit \in Nat /\ t + 0 = t
    BY <2>1, TravelSplits
  <2> QED
    BY <2>2 DEF t
<1>2. Played(v) = Advances(d, u)
  BY Zenon DEF Played
<1> HIDE DEF d, e
<1>3. u \in Voice
  BY <1>1 DEF Voice
<1> QED
  BY <1>1, <1>2, <1>3, AdvancesTyped

\* The history of a note is long enough for what it is followed for.
LEMMA WithinReach ==
  ASSUME NEW t \in Nat, t < MaxTravel
  PROVE  (t \div PitchUnit) \div Samples < Reach + 1
<1> DEFINE C == PitchUnit * Samples
           x == t \div PitchUnit
           y == x \div Samples
           z == MaxTravel \div C
<1>1. PitchUnit \in Nat \ {0} /\ Samples \in Nat \ {0} /\ MaxTravel \in Nat /\ t \in Int
  BY VoiceAssumption
<1>2. C \in Nat \ {0}
  BY <1>1
<1>3. x \in Int /\ x * PitchUnit <= t
  <2>1. t % PitchUnit \in 0 .. PitchUnit - 1 /\ x \in Int /\ t = (x * PitchUnit) + (t % PitchUnit)
    BY <1>1, Division
  <2> DEFINE a == x * PitchUnit
             b == t % PitchUnit
  <2>2. a \in Int /\ b \in Nat /\ t = a + b
    BY <1>1, <2>1
  <2> HIDE DEF a, b, x
  <2>3. a <= t
    BY <1>1, <2>2
  <2> QED
    BY <2>1, <2>3 DEF a
<1> HIDE DEF x
<1>4. y \in Int /\ y * Samples <= x
  <2>1. x % Samples \in 0 .. Samples - 1 /\ y \in Int /\ x = (y * Samples) + (x % Samples)
    BY <1>1, <1>3, Division
  <2> DEFINE a == y * Samples
             b == x % Samples
  <2>2. a \in Int /\ b \in Nat /\ x = a + b
    BY <1>1, <2>1
  <2> HIDE DEF a, b, y
  <2>3. a <= x
    BY <1>3, <2>2
  <2> QED
    BY <2>1, <2>3 DEF a
<1>5. z \in Int /\ MaxTravel < (z * C) + C
  <2> HIDE DEF C
  <2>1. MaxTravel \in Int
    BY <1>1
  <2>2. MaxTravel % C \in 0 .. C - 1 /\ z \in Int /\ MaxTravel = (z * C) + (MaxTravel % C)
    BY <1>2, <2>1, Division
  <2> DEFINE a == z * C
             b == MaxTravel % C
  <2>3. a \in Int
    BY <1>2, <2>2
  <2> HIDE DEF a, b, z
  <2>4. MaxTravel < a + C
    BY <1>2, <2>2, <2>3 DEF a, b
  <2> QED
    BY <2>2, <2>4 DEF a
<1> HIDE DEF y, z
<1>6. y * C <= t
  <2>1. (x - (y * Samples)) * PitchUnit >= 0
    <3> DEFINE a == x - (y * Samples)
    <3>1. a \in Nat
      BY <1>1, <1>3, <1>4
    <3> HIDE DEF a
    <3>2. a * PitchUnit >= 0
      BY <1>1, <3>1
    <3> QED
      BY <3>2 DEF a
  <2>2. (x - (y * Samples)) * PitchUnit = (x * PitchUnit) - ((y * Samples) * PitchUnit)
    BY <1>1, <1>3, <1>4
  <2>3. (y * Samples) * PitchUnit = y * C
    BY <1>1, <1>4
  <2> DEFINE a == x * PitchUnit
             b == y * C
  <2>4. a \in Int /\ b \in Int
    BY <1>1, <1>2, <1>3, <1>4
  <2>5. a - b >= 0 /\ a <= t
    BY <1>3, <2>1, <2>2, <2>3
  <2> HIDE DEF a, b
  <2>6. b <= t
    BY <1>1, <2>4, <2>5
  <2> QED
    BY <2>6 DEF b
<1> HIDE DEF C
<1>7. y < z + 1
  <2> SUFFICES ASSUME y >= z + 1 PROVE FALSE
    BY <1>4, <1>5
  <2>1. (y - z - 1) * C >= 0
    BY <1>2, <1>4, <1>5
  <2>2. (y - z - 1) * C = (y * C) - (z * C) - C
    BY <1>2, <1>4, <1>5
  <2> DEFINE a == y * C
             b == z * C
  <2>3. a \in Int /\ b \in Int
    BY <1>2, <1>4, <1>5
  <2>4. a - b - C >= 0 /\ a <= t /\ MaxTravel < b + C
    BY <1>5, <1>6, <2>1, <2>2
  <2> HIDE DEF a, b
  <2> QED
    BY <1>1, <1>2, <2>3, <2>4
<1> QED
  BY <1>7 DEF y, x, z, C, Reach

-----------------------------------------------------------------------------
(* The envelope, which leaves the walk alone.                              *)

LEMMA PowerOfTwo ==
  ASSUME NEW n \in Nat
  PROVE  2 ^ n \in Nat \ {0}
<1>1. IsFiniteSet(1 .. n) /\ Cardinality(1 .. n) = n
  BY FS_Interval
<1>2. IsFiniteSet(SUBSET (1 .. n)) /\ Cardinality(SUBSET (1 .. n)) = 2 ^ n
  BY <1>1, FS_SUBSET
<1>3. Cardinality(SUBSET (1 .. n)) \in Nat
  BY <1>2, FS_CardinalityType
<1>4. SUBSET (1 .. n) # {}
  OBVIOUS
<1>5. Cardinality(SUBSET (1 .. n)) # 0
  BY <1>2, <1>4, FS_EmptySet
<1> QED
  BY <1>2, <1>3, <1>5

LEMMA RateIs ==
  ASSUME patch \in Patch, NEW phase \in Phase \ {"Off"}
  PROVE  /\ RateOf(phase).shift \in Nat /\ RateOf(phase).step \in Int
         /\ RateOf(phase).exponential \in BOOLEAN
<1>1. /\ patch.attack \in Rate /\ patch.sustain \in Rate /\ patch.decay \in Nat
      /\ patch.release \in Nat /\ patch.dying \in BOOLEAN /\ patch.falling \in BOOLEAN
  BY DEF Patch
<1>2. \A r \in {patch.attack, patch.sustain} :
        r.shift \in Nat /\ r.step \in Int /\ r.exponential \in BOOLEAN
  BY <1>1 DEF Rate
<1>3. phase = "Attack" \/ phase = "Decay" \/ phase = "Sustain" \/ phase = "Release"
  BY DEF Phase
<1>4. CASE phase = "Attack"
  BY <1>2, <1>4 DEF RateOf
<1>5. CASE phase = "Decay"
  <2>1. RateOf(phase) = [shift |-> patch.decay, step |-> -8, exponential |-> TRUE]
    BY <1>5 DEF RateOf
  <2>2. -8 \in Int /\ TRUE \in BOOLEAN
    OBVIOUS
  <2> QED
    BY <1>1, <2>1, <2>2
<1>6. CASE phase = "Sustain"
  <2> DEFINE step == IF patch.falling THEN patch.sustain.step - 8
                     ELSE 7 - patch.sustain.step
  <2>1. step \in Int
    BY <1>2
  <2>2. RateOf(phase) = [shift |-> patch.sustain.shift, step |-> step,
                         exponential |-> patch.sustain.exponential]
    BY <1>6 DEF RateOf
  <2> HIDE DEF step
  <2> QED
    BY <1>2, <2>1, <2>2
<1>7. CASE phase = "Release"
  BY <1>1, <1>7 DEF RateOf
<1> QED
  BY <1>3, <1>4, <1>5, <1>6, <1>7

LEMMA SlopeIs ==
  ASSUME NEW rate, rate.shift \in Nat, rate.step \in Int, rate.exponential \in BOOLEAN,
         NEW level \in Nat
  PROVE  SlopeOf(rate, level).wait \in Nat \ {0} /\ SlopeOf(rate, level).step \in Int
<1> DEFINE far  == IF rate.shift > ShiftBase THEN rate.step
                   ELSE rate.step * 2 ^ (ShiftBase - rate.shift)
           slow == rate.exponential /\ far > 0 /\ level > Knee
           long == IF rate.shift > ShiftBase THEN 2 ^ (rate.shift - ShiftBase) ELSE 1
           wait == long * (IF slow THEN 4 ELSE 1)
           step == IF rate.exponential /\ far < 0 THEN Fraction(far, level) ELSE far
<1>1. ShiftBase \in Nat /\ EnvelopeMax + 1 \in Nat \ {0}
  BY VoiceAssumption
<1>2. \A x \in Int, y \in Nat \ {0} : x * y \in Int
  OBVIOUS
<1>3. far \in Int /\ long \in Nat \ {0}
  <2>1. CASE rate.shift > ShiftBase
    <3>1. rate.shift - ShiftBase \in Nat
      BY <1>1, <2>1
    <3> QED
      BY <2>1, <3>1, PowerOfTwo
  <2>2. CASE ~(rate.shift > ShiftBase)
    <3>1. ShiftBase - rate.shift \in Nat
      BY <1>1, <2>2
    <3>2. 2 ^ (ShiftBase - rate.shift) \in Nat \ {0}
      BY <3>1, PowerOfTwo
    <3> QED
      BY <1>2, <2>2, <3>2
  <2> QED
    BY <2>1, <2>2
<1>4. SlopeOf(rate, level) = [wait |-> wait, step |-> step]
  BY Zenon DEF SlopeOf
<1> HIDE DEF far, long
<1>5. wait \in Nat \ {0}
  BY <1>3
<1>6. Fraction(far, level) \in Int
  <2> DEFINE x == far * level
             C == EnvelopeMax + 1
  <2>1. x \in Int /\ C \in Nat \ {0}
    BY <1>1, <1>3
  <2>2. Fraction(far, level) = x \div C
    BY DEF Fraction
  <2> HIDE DEF x, C
  <2> QED
    BY <2>1, <2>2, Division
<1>7. step \in Int
  BY <1>3, <1>6
<1> HIDE DEF wait, step
<1> QED
  BY <1>4, <1>5, <1>7

LEMMA StepEnvelopeIs ==
  ASSUME patch \in Patch, NEW v \in Voice
  PROVE  LET w == StepEnvelope[v]
         IN /\ w \in Voice /\ w.counter = v.counter /\ w.ended = v.ended
            /\ w.address = v.address /\ w.flags = v.flags /\ w.repeat = v.repeat
            /\ w.index = v.index /\ w.sample = v.sample /\ w.previous = v.previous
            /\ w.phase # "Off" => v.phase # "Off"
<1> DEFINE p == Settled(v)
           slope == SlopeOf(RateOf(p), v.level)
           level == Clamped(v.level + slope.step)
           wait == slope.wait - 1
<1>1. StepEnvelope[v] =
        IF v.wait > 0 THEN [v EXCEPT !.wait = v.wait - 1]
        ELSE IF p = "Off" THEN [v EXCEPT !.phase = p]
        ELSE [v EXCEPT !.phase = p, !.level = level, !.wait = wait]
  BY Zenon DEF StepEnvelope
<1>2. p \in Phase /\ (p # "Off" => v.phase # "Off")
  <2>1. v.phase \in Phase
    BY DEF Voice
  <2> QED
    BY <2>1 DEF Settled, Phase
<1> HIDE DEF p
<1>3. v.level \in 0 .. EnvelopeMax /\ v.wait \in Nat /\ EnvelopeMax \in Nat
  BY VoiceAssumption DEF Voice
<1>4. p # "Off" => slope.wait \in Nat \ {0} /\ slope.step \in Int
  <2> SUFFICES ASSUME p # "Off" PROVE slope.wait \in Nat \ {0} /\ slope.step \in Int
    OBVIOUS
  <2> DEFINE r == RateOf(p)
  <2>1. r.shift \in Nat /\ r.step \in Int /\ r.exponential \in BOOLEAN
    BY <1>2, RateIs
  <2>2. v.level \in Nat
    BY <1>3
  <2> HIDE DEF r
  <2>3. SlopeOf(r, v.level).wait \in Nat \ {0} /\ SlopeOf(r, v.level).step \in Int
    BY <2>1, <2>2, SlopeIs
  <2> QED
    BY <2>3 DEF r
<1> HIDE DEF slope
<1>5. p # "Off" => level \in 0 .. EnvelopeMax /\ wait \in Nat
  BY <1>3, <1>4 DEF Clamped, Smaller
<1> HIDE DEF level, wait
<1>6. CASE v.wait > 0
  <2>1. v.wait - 1 \in Nat
    BY <1>3, <1>6
  <2> QED
    BY <1>1, <1>6, <2>1 DEF Voice
<1>7. CASE ~(v.wait > 0) /\ p = "Off"
  BY <1>1, <1>2, <1>7 DEF Voice
<1>8. CASE ~(v.wait > 0) /\ p # "Off"
  BY <1>1, <1>2, <1>5, <1>8 DEF Voice
<1> QED
  BY <1>6, <1>7, <1>8

-----------------------------------------------------------------------------
(* What is kept.                                                           *)

\* With the samples left alone the note is the one it was.
LEMMA SameNote ==
  ASSUME ram' = ram, NEW q, NEW v, NEW n
  PROVE  /\ Walked(q)' <=> Walked(q)
         /\ Into(q, v, n)' <=> Into(q, v, n)
<1>1. \A k : Loop(q, k)' = Loop(q, k)
  BY Zenon DEF Loop
<1>2. \A k : After(q, k)' = After(q, k)
  BY <1>1, Zenon DEF After
<1>3. \A b : Stops(b)' <=> Stops(b)
  BY Zenon DEF Stops
<1>4. NthOf(q, n - 1)' = NthOf(q, n - 1)
  BY <1>3, Zenon DEF NthOf
<1> QED
  BY <1>1, <1>2, <1>3, <1>4, Zenon DEF Walked, Into

LEMMA NoteStarts == VoiceInit => NoteKept
  <1>1. ASSUME VoiceInit PROVE ram \in [Block -> Flags] /\ patch \in Patches /\ pitch \in Pitches
    BY <1>1 DEF VoiceInit
  <1>2. Quiet \in Voice
    BY VoiceAssumption DEF Quiet, Voice, Phase, Block, Sample
  <1>3. MaxTravel \in Nat
    BY VoiceAssumption
  <1> QED
    BY <1>1, <1>2, <1>3 DEF VoiceInit, NoteKept

LEMMA TickKeepsNote ==
  ASSUME NoteKept, VoiceTick
  PROVE  NoteKept'
<1>1. /\ ram \in [Block -> Flags] /\ patch \in Patch /\ pitch \in Nat /\ voice \in Voice
      /\ note.path \in Seq(Block) /\ note.travel \in Nat /\ note.travel <= MaxTravel
      /\ MaxTravel \in Nat /\ note = [path |-> note.path, travel |-> note.travel]
  BY VoiceAssumption DEF NoteKept
<1>2. UNCHANGED <<ram, patch, pitch>>
  BY DEF VoiceTick
<1>3. CASE voice.phase = "Off"
  <2>1. UNCHANGED <<voice, note>>
    BY <1>3 DEF VoiceTick
  <2> DEFINE q == note.path
             n == note.travel \div PitchUnit
  <2>2. (Walked(note.path)' <=> Walked(note.path))
        /\ (Into(note.path, voice, n)' <=> Into(note.path, voice, n))
    BY <1>2, <2>1, SameNote, Zenon
  <2> QED
    BY <1>2, <2>1, <2>2 DEF NoteKept
<1>4. CASE voice.phase # "Off"
  <2> DEFINE p == Played(voice)
             q == note.path
             t == note.travel
             w == StepEnvelope[p]
             u == Smaller(t + pitch, MaxTravel)
  <2>1. voice' = w /\ note' = [path |-> q, travel |-> u]
    <3>1. voice' = w /\ note' = [note EXCEPT !.travel = u]
      BY <1>4, Zenon DEF VoiceTick
    <3> QED
      BY <1>1, <3>1
  <2>2. p \in Voice
    BY <1>1, PlayedTyped
  <2> HIDE DEF p
  <2>3. /\ w \in Voice /\ w.counter = p.counter /\ w.ended = p.ended
        /\ w.address = p.address /\ w.flags = p.flags /\ w.repeat = p.repeat
        /\ w.index = p.index /\ w.sample = p.sample /\ w.previous = p.previous
        /\ w.phase # "Off" => p.phase # "Off"
    BY <1>1, <2>2, StepEnvelopeIs
  <2>4. u \in 0 .. MaxTravel /\ (u < MaxTravel => u = t + pitch)
    BY <1>1 DEF Smaller
  <2> HIDE DEF w, u
  <2>5. ASSUME q # <<>>
        PROVE  /\ Walked(q) /\ Len(q) = Reach + 1
               /\ u < MaxTravel => w.counter = u % PitchUnit /\ Into(q, w, u \div PitchUnit)
    <3>1. Walked(q) /\ Len(q) = Reach + 1
      BY <2>5 DEF NoteKept
    <3>2. ASSUME u < MaxTravel
          PROVE  w.counter = u % PitchUnit /\ Into(q, w, u \div PitchUnit)
      <4>1. u = t + pitch /\ t < MaxTravel /\ t + pitch \in Nat /\ t + pitch < MaxTravel
        BY <1>1, <2>4, <3>2
      <4>2. voice.counter = t % PitchUnit /\ Into(q, voice, t \div PitchUnit)
        BY <2>5, <4>1 DEF NoteKept
      <4>3. ((t + pitch) \div PitchUnit) \div Samples < Len(q)
        BY <3>1, <4>1, WithinReach
      <4>4. t \in Nat
        BY <1>1
      <4> HIDE DEF q, t
      <4>5. p.counter = (t + pitch) % PitchUnit /\ Into(q, p, (t + pitch) \div PitchUnit)
        BY <1>1, <1>4, <3>1, <4>2, <4>3, <4>4, PlayedInto DEF p
      <4>6. Into(q, w, (t + pitch) \div PitchUnit)
        BY <2>3, <4>5, Zenon DEF Into
      <4> QED
        BY <2>3, <4>1, <4>5, <4>6
    <3> QED
      BY <3>1, <3>2
  <2> HIDE DEF q, t
  <2>6. note'.path = q /\ note'.travel = u
    BY <2>1
  <2> DEFINE n == u \div PitchUnit
  <2>7. q # <<>> => Walked(note.path)' /\ (u < MaxTravel => Into(note.path, voice, note.travel \div PitchUnit)')
    <3> SUFFICES ASSUME q # <<>>
                 PROVE  /\ Walked(note.path)'
                        /\ u < MaxTravel => Into(note.path, voice, note.travel \div PitchUnit)'
      OBVIOUS
    <3>1. Walked(note.path)'
      BY <1>2, <2>5, <2>6, SameNote, Zenon
    <3>2. ASSUME u < MaxTravel
          PROVE  Into(note.path, voice, note.travel \div PitchUnit)'
      BY <1>2, <2>1, <2>5, <2>6, <3>2, SameNote, Zenon
    <3> QED
      BY <3>1, <3>2
  <2>8. q \in Seq(Block)
    BY <1>1 DEF q
  <2> QED
    BY <1>2, <2>1, <2>3, <2>4, <2>5, <2>6, <2>7, <2>8 DEF NoteKept
<1> QED
  BY <1>3, <1>4

LEMMA StartedInto ==
  ASSUME ram \in [Block -> Flags], NEW b \in Block
  PROVE  LET w == Started(b)
         IN w \in Voice /\ w.counter = 0 /\ Into(Path(b), w, 0)
<1> DEFINE m == [Quiet EXCEPT !.phase = "Attack", !.address = b, !.repeat = b]
           d == Decode[m]
           w == [d EXCEPT !.sample = <<b, 0>>, !.index = 1]
           q == Path(b)
<1>1. Samples \in Nat \ {0} /\ 0 \in 0 .. Samples - 1 /\ 1 \in 0 .. Samples
  BY VoiceAssumption
<1>2. /\ m \in Voice /\ m.address = b /\ m.repeat = b /\ m.phase = "Attack"
      /\ m.counter = 0 /\ m.ended = FALSE /\ m.previous = NoSample
  <2>1. Quiet \in Voice
    BY VoiceAssumption DEF Quiet, Voice, Phase, Block, Sample
  <2>2. "Attack" \in Phase
    BY DEF Phase
  <2>3. m \in Voice
    BY <2>1, <2>2 DEF Voice
  <2> QED
    BY <2>3 DEF Quiet
<1>3. w = Started(b)
  BY Zenon DEF Started
<1> HIDE DEF m
<1>4. /\ d \in Voice
      /\ d = [m EXCEPT !.flags = ram[b], !.repeat = IF "start" \in ram[b] THEN b ELSE b]
  BY <1>2, DecodeIs
<1>5. /\ d.flags = ram[b] /\ d.repeat = b /\ d.address = b /\ d.phase = "Attack"
      /\ d.counter = 0 /\ d.ended = FALSE /\ d.previous = NoSample
  BY <1>2, <1>4 DEF Voice
<1> HIDE DEF d
<1>6. <<b, 0>> \in Sample
  BY <1>1 DEF Sample
<1>7. /\ w \in Voice /\ w.flags = ram[b] /\ w.repeat = b /\ w.address = b
      /\ w.phase = "Attack" /\ w.counter = 0 /\ w.ended = FALSE /\ w.previous = NoSample
      /\ w.sample = <<b, 0>> /\ w.index = 1
  BY <1>1, <1>4, <1>5, <1>6 DEF Voice
<1>8. q[1] = b
  BY PathWalked
<1>9. Loop(q, 1) = q[1]
  <2>1. \A x : {i \in 1 .. 0 : "start" \in ram[x[i]]} = {}
    OBVIOUS
  <2>2. Loop(q, 0) = q[1]
    BY <2>1 DEF Loop
  <2>3. Loop(q, 0 + 1) = IF "start" \in ram[q[0 + 1]] THEN q[0 + 1] ELSE Loop(q, 0)
    BY LoopGrows
  <2>4. 0 + 1 = 1
    OBVIOUS
  <2> QED
    BY <2>2, <2>3, <2>4
<1>10. 0 % Samples = 0 /\ 0 \div Samples = 0
  BY <1>1
<1>11. NthOf(q, 0 - 1) = NoSample
  <2>1. 0 - 1 < 0
    OBVIOUS
  <2> QED
    BY <2>1, Zenon DEF NthOf
<1> HIDE DEF w, q
<1>12. Into(q, w, 0)
  <2>1. \A i \in 1 .. 1 - 1 : FALSE
    OBVIOUS
  <2>2. 0 + 1 = 1
    OBVIOUS
  <2> QED
    BY <1>7, <1>8, <1>9, <1>10, <1>11, <2>1, <2>2 DEF Into
<1> QED
  BY <1>3, <1>7, <1>12 DEF q

LEMMA KeyOnKeepsNote ==
  ASSUME NoteKept, KeyOn
  PROVE  NoteKept'
<1>1. PICK b \in Block : voice' = Started(b) /\ note' = [path |-> Path(b), travel |-> 0]
  BY Zenon DEF KeyOn
<1>2. UNCHANGED <<ram, patch, pitch>>
  BY DEF KeyOn
<1>3. ram \in [Block -> Flags]
  BY DEF NoteKept
<1> DEFINE q == Path(b)
           w == Started(b)
<1>4. w \in Voice /\ w.counter = 0 /\ Into(q, w, 0)
  BY <1>3, StartedInto
<1>5. Walked(q) /\ Len(q) = Reach + 1
  BY PathWalked
<1>6. voice' = w /\ note'.path = q /\ note'.travel = 0 /\ note' = [path |-> q, travel |-> 0]
  BY <1>1
<1> HIDE DEF q, w
<1>7. 0 \div PitchUnit = 0 /\ 0 % PitchUnit = 0 /\ 0 \in 0 .. MaxTravel /\ q \in Seq(Block)
  BY <1>5, VoiceAssumption DEF Walked
<1>8. Walked(note.path)'
  BY <1>2, <1>5, <1>6, SameNote, Zenon
<1>9. Into(note.path, voice, 0)'
  BY <1>2, <1>4, <1>6, SameNote, Zenon
<1> QED
  BY <1>2, <1>4, <1>5, <1>6, <1>7, <1>8, <1>9 DEF NoteKept

\* What leaves the note and the samples alone, and of the voice all but its
\* phase and its envelope.
LEMMA TouchedKeepsNote ==
  ASSUME NoteKept, ram' = ram, note' = note, patch' \in Patches, pitch' \in Pitches,
         voice' \in Voice, voice'.counter = voice.counter, voice'.ended = voice.ended,
         voice'.address = voice.address, voice'.flags = voice.flags,
         voice'.repeat = voice.repeat, voice'.index = voice.index,
         voice'.sample = voice.sample, voice'.previous = voice.previous,
         voice'.phase # "Off" => voice.phase # "Off"
  PROVE  NoteKept'
<1> DEFINE q == note.path
           n == note.travel \div PitchUnit
<1>1. Walked(q) => Walked(note.path)'
  BY SameNote, Zenon
<1>2. Into(q, voice, n) => Into(note.path, voice, note.travel \div PitchUnit)'
  <2>1. Into(q, voice, n) => Into(q, voice', n)
    BY Zenon DEF Into
  <2>2. Into(q, voice', n) => Into(note.path, voice, note.travel \div PitchUnit)'
    BY SameNote, Zenon
  <2> QED
    BY <2>1, <2>2
<1> QED
  BY <1>1, <1>2 DEF NoteKept

LEMMA SoftwareKeepsNote ==
  ASSUME NoteKept, Software
  PROVE  NoteKept'
<1>1. CASE KeyOn
  BY <1>1, KeyOnKeepsNote
<1>2. CASE KeyOff
  <2>1. "Release" \in Phase /\ 0 \in Nat
    BY DEF Phase
  <2>2. voice \in Voice /\ patch \in Patches /\ pitch \in Pitches
    BY DEF NoteKept
  <2>3. UNCHANGED <<ram, patch, pitch, note>>
    BY <1>2 DEF KeyOff
  <2>4. /\ voice' \in Voice /\ voice'.counter = voice.counter /\ voice'.ended = voice.ended
        /\ voice'.address = voice.address /\ voice'.flags = voice.flags
        /\ voice'.repeat = voice.repeat /\ voice'.index = voice.index
        /\ voice'.sample = voice.sample /\ voice'.previous = voice.previous
        /\ voice'.phase # "Off" => voice.phase # "Off"
    <3>1. CASE voice.phase = "Off"
      BY <1>2, <2>2, <3>1 DEF KeyOff
    <3>2. CASE voice.phase # "Off"
      <4>1. voice' = [voice EXCEPT !.phase = "Release", !.wait = 0]
        BY <1>2, <3>2 DEF KeyOff
      <4> QED
        BY <2>1, <2>2, <3>2, <4>1 DEF Voice
    <3> QED
      BY <3>1, <3>2
  <2> QED
    BY <2>2, <2>3, <2>4, TouchedKeepsNote
<1>3. CASE WriteRates
  BY <1>3, TouchedKeepsNote DEF WriteRates, NoteKept
<1>4. CASE WritePitch
  BY <1>4, TouchedKeepsNote DEF WritePitch, NoteKept
<1>5. CASE WriteLevel
  <2>1. PICK level \in Levels : voice' = [voice EXCEPT !.level = level]
    BY <1>5 DEF WriteLevel
  <2>2. level \in 0 .. EnvelopeMax
    BY VoiceAssumption
  <2>3. voice \in Voice /\ patch \in Patches /\ pitch \in Pitches
    BY DEF NoteKept
  <2>4. UNCHANGED <<ram, patch, pitch, note>>
    BY <1>5 DEF WriteLevel
  <2>5. /\ voice' \in Voice /\ voice'.counter = voice.counter /\ voice'.ended = voice.ended
        /\ voice'.address = voice.address /\ voice'.flags = voice.flags
        /\ voice'.repeat = voice.repeat /\ voice'.index = voice.index
        /\ voice'.sample = voice.sample /\ voice'.previous = voice.previous
        /\ voice'.phase = voice.phase
    BY <2>1, <2>2, <2>3 DEF Voice
  <2> QED
    BY <2>3, <2>4, <2>5, TouchedKeepsNote
<1>6. CASE WriteRepeat
  <2>1. PICK b \in Block : voice' = [voice EXCEPT !.repeat = b]
    BY <1>6 DEF WriteRepeat
  <2>2. voice' \in Voice
    BY <2>1 DEF NoteKept, Voice
  <2>3. <<>> \in Seq(Block)
    OBVIOUS
  <2> QED
    BY <1>6, <2>2, <2>3 DEF WriteRepeat, NoteKept
<1>7. CASE WriteSample
  <2>1. PICK b \in Block, f \in Flags : ram' = [ram EXCEPT ![b] = f]
    BY <1>7 DEF WriteSample
  <2>2. ram' \in [Block -> Flags]
    BY <2>1 DEF NoteKept
  <2>3. <<>> \in Seq(Block)
    OBVIOUS
  <2> QED
    BY <1>7, <2>2, <2>3 DEF WriteSample, NoteKept
<1> QED
  BY <1>1, <1>2, <1>3, <1>4, <1>5, <1>6, <1>7 DEF Software

LEMMA AlwaysKept == Spec => []NoteKept
<1>1. Init => NoteKept
  BY NoteStarts DEF Init
<1>2. NoteKept /\ UNCHANGED voiceVars => NoteKept'
  BY TouchedKeepsNote DEF voiceVars, NoteKept
<1>3. NoteKept /\ [Next]_vars => NoteKept'
  <2> SUFFICES ASSUME NoteKept, [Next]_vars PROVE NoteKept'
    OBVIOUS
  <2>1. VoiceTick \/ Software \/ UNCHANGED voiceVars
    BY Zenon DEF Next, Tick, Between, vars
  <2> QED
    BY <1>2, <2>1, TickKeepsNote, SoftwareKeepsNote
<1> QED
  BY <1>1, <1>3, PTL DEF Spec

\* However its pitch moves it on, over the ends of blocks and round their loops,
\* a voice stands at the sample its travel has brought it to, no sample heard
\* twice and none left out, and ENDX tells of the note's end exactly when it was
\* passed: for any memory, block, pitch and envelope (Spu::voice_output,
\* Spu::advance_voice, Spu::next_block).
THEOREM SpuNoteFollowed == Spec => []NoteFollowed
<1>1. NoteKept => NoteFollowed
  <2> SUFFICES ASSUME NoteKept, note.path # <<>>, note.travel < MaxTravel
               PROVE  /\ voice.phase # "Off" =>
                           /\ voice.sample = Nth(Place) /\ voice.sample # NoSample
                           /\ voice.previous = Nth(Place - 1)
                      /\ voice.ended <=>
                           \E k \in 1 .. Place \div Samples : "end" \in ram[note.path[k]]
    BY DEF NoteFollowed
  <2> DEFINE q == note.path
             n == Place
             k == n \div Samples + 1
  <2>1. \A x : Nth(x) = NthOf(q, x)
    BY Zenon DEF Nth, NthOf
  <2>2. Into(q, voice, n) /\ Walked(q) /\ Len(q) = Reach + 1
    BY DEF NoteKept, Place
  <2>3. n \in Nat
    <3>1. note.travel \in Nat
      BY DEF NoteKept
    <3> QED
      BY <3>1, TravelSplits DEF Place
  <2>4. k - 1 = n \div Samples /\ k \in 1 .. Len(q)
    <3>1. n \div Samples \in Nat
      BY <2>3, NextSample
    <3>2. n \div Samples < Reach + 1
      <4>1. note.travel \in Nat
        BY DEF NoteKept
      <4> QED
        BY <4>1, WithinReach DEF Place
    <3> DEFINE m == n \div Samples
    <3> HIDE DEF m, n, q
    <3>3. m \in Nat /\ m < Reach + 1 /\ Len(q) = Reach + 1 /\ k = m + 1
      BY <2>2, <3>1, <3>2 DEF m
    <3> QED
      BY <3>3, ReachIs DEF m
  <2>5. voice.ended <=> \E j \in 1 .. n \div Samples : "end" \in ram[q[j]]
    BY <2>2, <2>4, Zenon DEF Into
  <2>6. ASSUME voice.phase # "Off"
        PROVE  /\ voice.sample = Nth(n) /\ voice.sample # NoSample
               /\ voice.previous = Nth(n - 1)
    <3>1. /\ voice.sample = <<q[k], n % Samples>> /\ voice.previous = NthOf(q, n - 1)
          /\ \A i \in 1 .. k - 1 : ~Stops(q[i])
      BY <2>2, <2>6, Zenon DEF Into
    <3>2. ~(n < 0)
      BY <2>3
    <3>3. NthOf(q, n) = <<q[k], n % Samples>>
      BY <3>1, <3>2, Zenon DEF NthOf
    <3>4. q[k] # Blocks
      <4>1. q[k] \in Block
        BY <2>2, <2>4 DEF Walked
      <4> QED
        BY <4>1, VoiceAssumption DEF Block
    <3>5. <<q[k], n % Samples>> # NoSample
      BY <3>4 DEF NoSample
    <3> QED
      BY <2>1, <3>1, <3>3, <3>5
  <2> QED
    BY <2>5, <2>6
<1> QED
  BY <1>1, AlwaysKept, PTL

\* The voice is one the code can hold and the counters of the rings are in them.
THEOREM SpuTyped == Spec => []TypeOK
<1>1. NoteKept /\ Rings => TypeOK
  <2> SUFFICES ASSUME NoteKept, Rings PROVE TypeOK
    OBVIOUS
  <2>1. voice \in Voice
    BY DEF NoteKept
  <2>2. /\ decoded \in Nat /\ played \in 0 .. decoded /\ decoded - played <= AudioCapacity
        /\ (produced - taken) % CountMod <= OutputFrames
    BY DEF Rings, DriveRing, HostRing
  <2> QED
    BY <2>1, <2>2, Zenon DEF TypeOK
<1> QED
  BY <1>1, AlwaysKept, SpuRings, PTL
=============================================================================
