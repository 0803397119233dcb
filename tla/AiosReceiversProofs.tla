-------------------------- MODULE AiosReceiversProofs --------------------------
(***************************************************************************)
(* Proofs about the receivers of both AIOS drivers, for any streams of     *)
(* bytes, any chunks and a buffer of any size.                             *)
(*                                                                         *)
(* FramesOf is defined by recursion, and the library's induction theorems  *)
(* cannot be used here.  What is needed of them is proved first, about     *)
(* sets of numbers (LeastNumber, SetInduction); it makes the definition an *)
(* equation (FramesFrom), and the rest is one lemma per case of FramesAt.  *)
(*                                                                         *)
(* The inductive invariant is about every longer prefix of the stream at   *)
(* once (Parsed): what is handled is what that prefix contains before the  *)
(* first buffered byte.  A chunk, or a byte, then changes nothing.         *)
(***************************************************************************)
EXTENDS AiosReceivers, SequenceTheorems, WellFoundedInduction, TLAPS

Byte == 0..255

-----------------------------------------------------------------------------
(* Induction over numbers *)

\* A set of natural numbers that is not empty has a least one.
LEMMA LeastNumber ==
  ASSUME NEW T \in SUBSET Nat, T # {}
  PROVE  \E n \in T : \A m \in T : n <= m
<1> DEFINE R == {p \in Nat \X Nat : p[1] < p[2]}
<1>1. IsWellFoundedOn(R, Nat)
  BY NatLessThanWellFounded, Zenon DEF OpToRel
<1>2. ASSUME NEW x \in Nat, NEW y \in Nat, ~(<< x, y >> \in R)
      PROVE  y <= x
  BY <1>2
<1> HIDE DEF R
<1>3. \E n \in T : \A m \in T : ~(<< m, n >> \in R)
  BY <1>1, WFMin
<1> QED
  BY <1>2, <1>3

\* A set with 0, and with the successor of each number in it, has them all.
LEMMA SetInduction ==
  ASSUME NEW T, 0 \in T, \A n \in Nat : n \in T => n + 1 \in T
  PROVE  Nat \subseteq T
<1> SUFFICES ASSUME Nat \ T # {} PROVE FALSE
  OBVIOUS
<1>1. PICK n \in Nat \ T : \A m \in Nat \ T : n <= m
  BY LeastNumber
<1>2. n # 0 /\ n - 1 \in Nat
  BY <1>1
<1>3. n - 1 \in T
  BY <1>1, <1>2
<1> QED
  BY <1>1, <1>2, <1>3

-----------------------------------------------------------------------------
(* The reference definition *)

\* What FramesOf calls from.
From(s) == CHOOSE f : f = [i \in 1..(Len(s) + 1) |-> FramesAt(s, f, i)]

\* A frame has five bytes at least.
LEMMA FrameLenType ==
  ASSUME NEW s \in Seq(Byte), NEW i \in 1..Len(s), i + 2 <= Len(s)
  PROVE  FrameLen(s, i) \in Nat /\ FrameLen(s, i) >= 5 /\ FrameLen(s, i) <= 260
<1>1. s[i + 2] \in Byte
  OBVIOUS
<1>2. ASSUME NEW b \in Byte PROVE b + 5 \in Nat /\ b + 5 >= 5 /\ b + 5 <= 260
  BY DEF Byte
<1> QED
  BY <1>1, <1>2, Zenon DEF FrameLen

\* What the stream gives from a position depends on what it gives from later ones.
LEMMA FramesAtLocal ==
  ASSUME NEW s \in Seq(Byte), NEW f, NEW g, NEW i \in 1..(Len(s) + 1),
         \A j \in (i + 1)..(Len(s) + 1) : f[j] = g[j]
  PROVE  FramesAt(s, f, i) = FramesAt(s, g, i)
<1>1. CASE i > Len(s)
  BY <1>1 DEF FramesAt
<1>2. CASE i <= Len(s)
  <2>1. f[i + 1] = g[i + 1]
    BY <1>2
  <2>2. i + 2 <= Len(s) => f[i + 3] = g[i + 3]
    BY <1>2
  <2>3. i + 2 <= Len(s) => FrameLen(s, i) \in Nat /\ FrameLen(s, i) >= 5
    BY FrameLenType
  <2>4. i + 2 <= Len(s) /\ i + FrameLen(s, i) - 1 <= Len(s)
          => f[i + FrameLen(s, i)] = g[i + FrameLen(s, i)]
    BY <1>2, <2>3
  <2> QED
    BY <1>2, <2>1, <2>2, <2>3, <2>4, SMTT(30) DEF FramesAt
<1> QED
  BY <1>1, <1>2

\* And is a sequence of sequences of bytes if that is.
LEMMA FramesAtType ==
  ASSUME NEW s \in Seq(Byte), NEW f, NEW i \in 1..(Len(s) + 1),
         \A j \in (i + 1)..(Len(s) + 1) : f[j] \in Seq(Seq(Byte))
  PROVE  FramesAt(s, f, i) \in Seq(Seq(Byte))
<1>1. << >> \in Seq(Seq(Byte))
  OBVIOUS
<1>2. CASE i > Len(s)
  BY <1>1, <1>2 DEF FramesAt
<1>3. CASE i <= Len(s)
  <2>1. f[i + 1] \in Seq(Seq(Byte))
    BY <1>3
  <2>2. i + 2 <= Len(s) => f[i + 3] \in Seq(Seq(Byte))
    BY <1>3
  <2>3. i + 2 <= Len(s) => FrameLen(s, i) \in Nat /\ FrameLen(s, i) >= 5
    BY FrameLenType
  <2>4. ASSUME i + 2 <= Len(s), i + FrameLen(s, i) - 1 <= Len(s)
        PROVE  << SubSeq(s, i, i + FrameLen(s, i) - 1) >> \o f[i + FrameLen(s, i)]
                 \in Seq(Seq(Byte))
    <3>1. f[i + FrameLen(s, i)] \in Seq(Seq(Byte))
      BY <1>3, <2>3, <2>4
    <3>2. SubSeq(s, i, i + FrameLen(s, i) - 1) \in Seq(Byte)
      BY <1>3, <2>3, <2>4, SubSeqProperties
    <3>3. << SubSeq(s, i, i + FrameLen(s, i) - 1) >> \in Seq(Seq(Byte))
      BY <3>2
    <3> QED
      BY <3>1, <3>3, ConcatProperties
  <2> QED
    BY <1>1, <1>3, <2>1, <2>2, <2>3, <2>4 DEF FramesAt
<1> QED
  BY <1>2, <1>3

\* There is a function that satisfies the recursion: the one on the last k positions
\* is extended by one position at a time.
LEMMA FramesFromExists ==
  ASSUME NEW s \in Seq(Byte)
  PROVE  \E f : f = [i \in 1..(Len(s) + 1) |-> FramesAt(s, f, i)]
<1> DEFINE Last(k) == (Len(s) + 1 - k)..(Len(s) + 1)
           Solves(f, k) == \A i \in Last(k) : f[i] = FramesAt(s, f, i)
           T == {k \in Nat : k <= Len(s) => \E f : f = [i \in Last(k) |-> f[i]] /\ Solves(f, k)}
<1>1. 0 \in T
  <2> DEFINE f == [i \in Last(0) |-> << >>]
  <2>1. \A i \in Last(0) : f[i] = FramesAt(s, f, i)
    BY DEF FramesAt
  <2> QED
    BY <2>1
<1>2. ASSUME NEW k \in Nat, k \in T PROVE k + 1 \in T
  <2> SUFFICES ASSUME k + 1 <= Len(s)
               PROVE  \E f : f = [i \in Last(k + 1) |-> f[i]] /\ Solves(f, k + 1)
    OBVIOUS
  <2>1. PICK g : Solves(g, k)
    BY <1>2
  <2> DEFINE p == Len(s) - k
             f == [i \in Last(k + 1) |-> IF i = p THEN FramesAt(s, g, p) ELSE g[i]]
  <2>2. /\ p \in 1..(Len(s) + 1) /\ Last(k) = (p + 1)..(Len(s) + 1)
        /\ Last(k + 1) = {p} \cup Last(k) /\ p \notin Last(k)
        /\ Last(k) \subseteq 1..(Len(s) + 1)
        /\ \A i \in Last(k + 1) : (i + 1)..(Len(s) + 1) \subseteq Last(k)
    OBVIOUS
  <2> HIDE DEF p, Last
  <2>3. \A i \in Last(k) : f[i] = g[i]
    BY <2>2
  <2>4. f[p] = FramesAt(s, g, p)
    BY <2>2
  <2> HIDE DEF f
  <2>5. ASSUME NEW i \in Last(k + 1) PROVE FramesAt(s, f, i) = FramesAt(s, g, i)
    <3>1. \A j \in (i + 1)..(Len(s) + 1) : f[j] = g[j]
      BY <2>2, <2>3
    <3>2. i \in 1..(Len(s) + 1)
      BY <2>2
    <3> QED
      BY <3>1, <3>2, FramesAtLocal
  <2>6. Solves(f, k + 1)
    BY <2>1, <2>2, <2>3, <2>4, <2>5
  <2>7. f = [i \in Last(k + 1) |-> f[i]]
    BY DEF f
  <2> QED
    BY <2>6, <2>7
<1>3. Len(s) \in T
  <2> HIDE DEF T
  <2> QED
    BY <1>1, <1>2, SetInduction
<1>4. PICK f : f = [i \in Last(Len(s)) |-> f[i]] /\ Solves(f, Len(s))
  BY <1>3
<1>5. Last(Len(s)) = 1..(Len(s) + 1)
  OBVIOUS
<1> HIDE DEF Last
<1>6. \A i \in 1..(Len(s) + 1) : f[i] = FramesAt(s, f, i)
  BY <1>4, <1>5
<1>7. f = [i \in 1..(Len(s) + 1) |-> FramesAt(s, f, i)]
  BY <1>4, <1>5, <1>6
<1> QED
  BY <1>7

\* So the definition is an equation.
LEMMA FramesFrom ==
  ASSUME NEW s \in Seq(Byte), NEW i \in 1..(Len(s) + 1)
  PROVE  From(s)[i] = FramesAt(s, From(s), i)
<1>1. From(s) = [j \in 1..(Len(s) + 1) |-> FramesAt(s, From(s), j)]
  BY FramesFromExists, Zenon DEF From
<1> QED
  BY <1>1

\* And the frames of a stream are what its first position gives.
LEMMA FramesOfFrom == ASSUME NEW s PROVE FramesOf(s) = From(s)[1]
  BY Zenon DEF FramesOf, From

\* What it gives is a sequence of sequences of bytes.
LEMMA FromType ==
  ASSUME NEW s \in Seq(Byte), NEW i \in 1..(Len(s) + 1)
  PROVE  From(s)[i] \in Seq(Seq(Byte))
<1> DEFINE T == {k \in Nat : \A j \in 1..(Len(s) + 1) :
                               j >= Len(s) + 1 - k => From(s)[j] \in Seq(Seq(Byte))}
<1>1. 0 \in T
  <2> DEFINE n == Len(s) + 1
  <2>1. n \in 1..n /\ n > Len(s) /\ \A j \in 1..n : j >= n - 0 => j = n
    OBVIOUS
  <2>3. From(s)[n] = << >>
    BY <2>1, FramesFrom DEF FramesAt
  <2>2. << >> \in Seq(Seq(Byte))
    OBVIOUS
  <2> QED
    <3> HIDE DEF n
    <3>1. \A j \in 1..n : j >= n - 0 => From(s)[j] \in Seq(Seq(Byte))
      BY <2>1, <2>2, <2>3
    <3> QED
      BY <3>1 DEF n
<1>2. ASSUME NEW k \in Nat, k \in T PROVE k + 1 \in T
  <2> SUFFICES ASSUME NEW j \in 1..(Len(s) + 1), j >= Len(s) + 1 - (k + 1)
               PROVE  From(s)[j] \in Seq(Seq(Byte))
    OBVIOUS
  <2>1. \A h \in (j + 1)..(Len(s) + 1) : From(s)[h] \in Seq(Seq(Byte))
    BY <1>2
  <2> QED
    BY <2>1, FramesAtType, FramesFrom
<1>3. Len(s) + 1 \in T
  <2> HIDE DEF T
  <2> QED
    BY <1>1, <1>2, SetInduction
<1> QED
  BY <1>3

-----------------------------------------------------------------------------
(* The cases of the definition, for bytes b that are in stream s at p *)

Placed(b, s, p) ==
  /\ b \in Seq(Byte)
  /\ p \in 1..(Len(s) + 1)
  /\ p + Len(b) <= Len(s) + 1
  /\ \A j \in 1..Len(b) : b[j] = s[p + j - 1]

\* The bytes that say how long a frame is and whether it ends well are where b is.
LEMMA PlacedFrame ==
  ASSUME NEW s \in Seq(Byte), NEW b, NEW p, Placed(b, s, p), Len(b) >= 3
  PROVE  /\ FrameLen(b, 1) \in Nat /\ FrameLen(b, 1) >= 5
         /\ FrameLen(s, p) = FrameLen(b, 1)
         /\ s[p] = b[1] /\ ~(p + 2 > Len(s)) /\ ~(p > Len(s)) /\ p \in 1..(Len(s) + 1)
         /\ FrameLen(b, 1) <= Len(b) => (WellEnded(s, p) <=> WellEnded(b, 1))
<1>1. b \in Seq(Byte) /\ p \in 1..Len(s) /\ p + 2 <= Len(s) /\ Len(b) \in Nat
  BY DEF Placed
<1>2. s[p] = b[1] /\ s[p + 2] = b[3]
  BY <1>1 DEF Placed
<1>3. FrameLen(s, p) = FrameLen(b, 1) /\ FrameLen(b, 1) \in Nat /\ FrameLen(b, 1) >= 5
  BY <1>1, <1>2, FrameLenType DEF FrameLen
<1>4. ASSUME FrameLen(b, 1) <= Len(b)
      PROVE  WellEnded(s, p) <=> WellEnded(b, 1)
  <2> DEFINE n == FrameLen(b, 1)
  <2>1. n - 1 \in 1..Len(b) /\ n \in 1..Len(b)
    BY <1>1, <1>3, <1>4
  <2>2. b[n - 1] = s[p + n - 2] /\ b[n] = s[p + n - 1]
    <3> HIDE DEF n
    <3>1. p + (n - 1) - 1 = p + n - 2
      BY <1>1, <2>1
    <3> QED
      BY <2>1, <3>1, Zenon DEF Placed
  <2>3. 1 + n - 2 = n - 1 /\ 1 + n - 1 = n
    BY <1>3
  <2> QED
    BY <1>3, <2>2, <2>3 DEF WellEnded
<1> QED
  BY <1>1, <1>2, <1>3, <1>4

\* A byte that is not a start byte is garbage.
LEMMA SkipByte ==
  ASSUME NEW s \in Seq(Byte), NEW b, NEW p, Placed(b, s, p), b # << >>, b[1] # START
  PROVE  From(s)[p] = From(s)[p + 1]
<1>1. p \in 1..(Len(s) + 1) /\ ~(p > Len(s)) /\ s[p] # START
  BY DEF Placed
<1>2. FramesAt(s, From(s), p) = From(s)[p + 1]
  BY <1>1, Zenon DEF FramesAt
<1> QED
  BY <1>1, <1>2, FramesFrom

\* And so are all before the first start byte.
LEMMA SkipGarbage ==
  ASSUME NEW s \in Seq(Byte), NEW b, NEW p, Placed(b, s, p),
         NEW k \in 1..(Len(b) + 1), \A j \in 1..(k - 1) : b[j] # START
  PROVE  From(s)[p] = From(s)[p + k - 1]
<1> DEFINE T == {n \in Nat : n <= k - 1 => From(s)[p] = From(s)[p + n]}
<1>1. /\ p \in 1..(Len(s) + 1) /\ p + k - 1 <= Len(s) + 1 /\ k \in Nat
      /\ \A j \in 1..(k - 1) : s[p + j - 1] # START
  <2>1. \A j \in 1..(k - 1) : j \in 1..Len(b) /\ b[j] # START
    BY DEF Placed
  <2>2. \A j \in 1..(k - 1) : s[p + j - 1] # START
    BY <2>1 DEF Placed
  <2> QED
    BY <2>2 DEF Placed
<1>2. 0 \in T
  BY <1>1
<1>3. ASSUME NEW n \in Nat, n \in T PROVE n + 1 \in T
  <2> SUFFICES ASSUME n + 1 <= k - 1 PROVE From(s)[p] = From(s)[p + (n + 1)]
    OBVIOUS
  <2>1. From(s)[p] = From(s)[p + n]
    BY <1>1, <1>3
  <2>2. p + n \in 1..(Len(s) + 1) /\ p + n <= Len(s) /\ p + (n + 1) - 1 = p + n
        /\ n + 1 \in 1..(k - 1)
    BY <1>1
  <2>3. s[p + n] # START
    BY <1>1, <2>2
  <2>4. From(s)[p + n] = From(s)[p + n + 1]
    <3> DEFINE i == p + n
    <3>1. i \in 1..(Len(s) + 1) /\ ~(i > Len(s)) /\ s[i] # START
      BY <2>2, <2>3
    <3> HIDE DEF i
    <3>2. FramesAt(s, From(s), i) = From(s)[i + 1]
      BY <3>1, Zenon DEF FramesAt
    <3>3. From(s)[i] = From(s)[i + 1]
      BY <3>1, <3>2, FramesFrom
    <3> QED
      BY <3>3 DEF i
  <2>5. p + n + 1 = p + (n + 1)
    BY <1>1
  <2> QED
    BY <2>1, <2>4, <2>5
<1>4. k - 1 \in T
  <2> HIDE DEF T
  <2> QED
    BY <1>1, <1>2, <1>3, SetInduction
<1>5. p + (k - 1) = p + k - 1
  BY <1>1
<1> QED
  BY <1>4, <1>5

\* The header of a frame that no buffer could hold is garbage.
LEMMA SkipHeader ==
  ASSUME NEW s \in Seq(Byte), NEW b, NEW p, Placed(b, s, p), Len(b) >= 3,
         b[1] = START, FrameLen(b, 1) > BufferSize
  PROVE  From(s)[p] = From(s)[p + 3]
<1>1. /\ p \in 1..(Len(s) + 1) /\ ~(p > Len(s)) /\ ~(p + 2 > Len(s)) /\ s[p] = START
      /\ FrameLen(s, p) > BufferSize
  BY PlacedFrame, Zenon
<1>2. FramesAt(s, From(s), p) = From(s)[p + 3]
  BY <1>1, Zenon DEF FramesAt
<1> QED
  BY <1>1, <1>2, FramesFrom

\* The start byte of a frame that ends badly is garbage.
LEMMA SkipStart ==
  ASSUME NEW s \in Seq(Byte), NEW b, NEW p, Placed(b, s, p), Len(b) >= 3,
         b[1] = START, FrameLen(b, 1) <= BufferSize, FrameLen(b, 1) <= Len(b),
         ~WellEnded(b, 1)
  PROVE  From(s)[p] = From(s)[p + 1]
<1>1. /\ p \in 1..(Len(s) + 1) /\ ~(p > Len(s)) /\ ~(p + 2 > Len(s)) /\ s[p] = START
      /\ FrameLen(s, p) = FrameLen(b, 1) /\ FrameLen(b, 1) \in Nat
  BY PlacedFrame, Zenon
<1>2. ~(p + FrameLen(s, p) - 1 > Len(s)) /\ ~(FrameLen(s, p) > BufferSize)
  BY <1>1, WireAssumption DEF Placed, WireAssumption
<1>3. ~WellEnded(s, p)
  BY PlacedFrame, Zenon
<1>4. FramesAt(s, From(s), p) = From(s)[p + 1]
  BY <1>1, <1>2, <1>3, Zenon DEF FramesAt
<1> QED
  BY <1>1, <1>4, FramesFrom

\* A frame that ends well is one of the stream's.
LEMMA FrameFound ==
  ASSUME NEW s \in Seq(Byte), NEW b, NEW p, Placed(b, s, p), Len(b) >= 3,
         b[1] = START, FrameLen(b, 1) <= BufferSize, FrameLen(b, 1) <= Len(b),
         WellEnded(b, 1)
  PROVE  From(s)[p] = << SubSeq(b, 1, FrameLen(b, 1)) >> \o From(s)[p + FrameLen(b, 1)]
<1> DEFINE n == FrameLen(b, 1)
<1>1. /\ p \in 1..(Len(s) + 1) /\ ~(p > Len(s)) /\ ~(p + 2 > Len(s)) /\ s[p] = START
      /\ FrameLen(s, p) = n /\ n \in Nat /\ n >= 5
  BY PlacedFrame, Zenon
<1>2. WellEnded(s, p)
  BY PlacedFrame, Zenon
<1>3. ~(p + n - 1 > Len(s)) /\ ~(n > BufferSize) /\ Len(b) \in Nat /\ b \in Seq(Byte)
  BY <1>1, WireAssumption DEF Placed, WireAssumption
<1>4. SubSeq(s, p, p + n - 1) = SubSeq(b, 1, n)
  <2> HIDE DEF n
  <2> DEFINE u == SubSeq(s, p, p + n - 1)
             v == SubSeq(b, 1, n)
  <2>1. u \in Seq(Byte) /\ Len(u) = n /\ \A i \in 1..n : u[i] = s[p + i - 1]
    <3>1. \A i \in p..(p + n - 1) : s[i] \in Byte
      BY <1>1, <1>3
    <3>2. p \in Int /\ p + n - 1 \in Int /\ (p + n - 1) - p + 1 = n /\ p <= p + n - 1
      BY <1>1
    <3> QED
      BY <3>1, <3>2, SubSeqProperties
  <2>2. v \in Seq(Byte) /\ Len(v) = n /\ \A i \in 1..n : v[i] = b[i]
    <3>1. n <= Len(b)
      BY DEF n
    <3>2. \A i \in 1..n : b[i] \in Byte
      BY <1>1, <1>3, <3>1
    <3>3. 1 \in Int /\ n \in Int /\ n - 1 + 1 = n /\ 1 <= n /\ \A i \in 1..n : 1 + i - 1 = i
      BY <1>1
    <3> QED
      BY <3>2, <3>3, SubSeqProperties
  <2>3. \A i \in 1..n : b[i] = s[p + i - 1]
    BY <1>1, <1>3 DEF n, Placed
  <2> HIDE DEF u, v
  <2>4. u = v
    BY <2>1, <2>2, <2>3, SeqEqual
  <2> QED
    BY <2>4 DEF u, v
<1> HIDE DEF n
<1>5. FramesAt(s, From(s), p) = << SubSeq(s, p, p + n - 1) >> \o From(s)[p + n]
  BY <1>1, <1>3, <1>2, Zenon DEF FramesAt
<1> QED
  BY <1>1, <1>4, <1>5, FramesFrom DEF n

\* A frame that is not complete ends the search.
LEMMA Unfinished ==
  ASSUME NEW s \in Seq(Byte), NEW b, NEW p, Placed(b, s, p), p + Len(b) = Len(s) + 1,
         Len(b) >= 3, b[1] = START, FrameLen(b, 1) <= BufferSize, Len(b) < FrameLen(b, 1)
  PROVE  From(s)[p] = << >>
<1>1. /\ p \in 1..(Len(s) + 1) /\ ~(p > Len(s)) /\ ~(p + 2 > Len(s)) /\ s[p] = START
      /\ FrameLen(s, p) = FrameLen(b, 1) /\ FrameLen(b, 1) \in Nat
  BY PlacedFrame, ZenonT(60)
<1>2. p + FrameLen(s, p) - 1 > Len(s) /\ ~(FrameLen(s, p) > BufferSize)
  BY <1>1, WireAssumption DEF Placed, WireAssumption
<1>3. FramesAt(s, From(s), p) = << >>
  BY <1>1, <1>2, Zenon DEF FramesAt
<1> QED
  BY <1>1, <1>3, FramesFrom

\* In fewer bytes than a frame has there is none.
LEMMA TooFew ==
  ASSUME NEW s \in Seq(Byte), NEW p \in 1..(Len(s) + 1), p + 4 > Len(s)
  PROVE  From(s)[p] = << >>
<1>1. ASSUME NEW i \in 1..(Len(s) + 1), i + 4 > Len(s),
             \A j \in (i + 1)..(Len(s) + 1) : From(s)[j] = << >>
      PROVE  From(s)[i] = << >>
  <2>1. ~(i > Len(s)) => From(s)[i + 1] = << >>
    BY <1>1
  <2>2. ~(i + 2 > Len(s)) => From(s)[i + 3] = << >> /\ i + FrameLen(s, i) - 1 > Len(s)
    BY <1>1, FrameLenType
  <2>3. FramesAt(s, From(s), i) = << >>
    BY <2>1, <2>2, Zenon DEF FramesAt
  <2> QED
    BY <1>1, <2>3, FramesFrom
<1> DEFINE n == Len(s) + 1
<1>2. n \in 1..n => From(s)[n] = << >>
  BY <1>1
<1>3. n - 1 \in 1..n => From(s)[n - 1] = << >>
  BY <1>1, <1>2
<1>4. n - 2 \in 1..n => From(s)[n - 2] = << >>
  BY <1>1, <1>2, <1>3
<1>5. n - 3 \in 1..n => From(s)[n - 3] = << >>
  BY <1>1, <1>2, <1>3, <1>4
<1>6. n - 4 \in 1..n => From(s)[n - 4] = << >>
  BY <1>1, <1>2, <1>3, <1>4, <1>5, SMTT(30)
<1> QED
  BY <1>2, <1>3, <1>4, <1>5, <1>6, SMTT(30)

-----------------------------------------------------------------------------
(* The inductive invariant *)

Prefix(m) == SubSeq(input, 1, m)

Frame(f) ==
  /\ f \in Seq(Byte) /\ Len(f) \in 5..BufferSize
  /\ f[1] = START /\ Len(f) = FrameLen(f, 1)
  /\ f[Len(f) - 1] = CR /\ f[Len(f)] = LF

Types ==
  /\ input \in Streams /\ taken \in 0..Len(input)
  /\ buffer \in Seq(Byte) /\ Len(buffer) <= taken
  /\ handled \in Seq(Seq(Byte)) /\ \A k \in 1..Len(handled) : Frame(handled[k])
  /\ frameLen \in 0..(SizeModulus - 1)
  /\ step \in {"idle", "loop", "handle", "consume"}
  /\ current \in Seq(Byte) /\ Len(current) <= BufferSize
  /\ dropped \in BOOLEAN /\ overflow \in BOOLEAN
  /\ resets \in 0..Resets
  /\ driver \in {"june", "january"}

\* Nothing interferes: transactions start between two calls of the callback, or
\* none has started.
Undisturbed == ~Racing \/ ~dropped

\* frame_len is the length of what is buffered, and the frame found is its head.
Counted ==
  IF driver = "june"
  THEN /\ Len(buffer) <= frameLen
       /\ step \in {"handle", "consume"} => Frame(current)
       /\ Undisturbed =>
            /\ frameLen = Len(buffer) /\ Len(buffer) <= BufferSize
            /\ step \in {"handle", "consume"} =>
                 Len(current) <= Len(buffer) /\ current = SubSeq(buffer, 1, Len(current))
  ELSE /\ Len(buffer) <= BufferSize
       /\ ~overflow /\ frameLen = 0
       /\ step = "idle"

\* What is buffered is what was received last, from this position on.
Position == taken - Len(buffer) + 1
InStream == ~dropped => \A j \in 1..Len(buffer) : buffer[j] = input[Position + j - 1]

\* What is handled, and what a prefix of the stream contains from the first byte that
\* is not dealt with, is what it contains.
Pending == Position + (IF step = "consume" THEN Len(current) ELSE 0)
Parsed ==
  ~dropped => \A m \in taken..Len(input) :
                FramesOf(Prefix(m)) = handled \o From(Prefix(m))[Pending]

\* The June callback returns when nothing that is buffered is a frame.
AtRest ==
  driver = "june" /\ ~dropped /\ step = "idle" => From(Prefix(taken))[Position] = << >>

Inv == Types /\ Counted /\ InStream /\ Parsed /\ AtRest

\* The input is made of bytes, and so is each prefix.
LEMMA InputType == ASSUME input \in Streams PROVE input \in Seq(Byte)
  BY FrameAssumption DEF FrameAssumption, Byte

\* A prefix is as long as it says, and starts like the stream.
LEMMA PrefixType ==
  ASSUME input \in Streams, NEW m \in 0..Len(input)
  PROVE  /\ Prefix(m) \in Seq(Byte) /\ Len(Prefix(m)) = m
         /\ \A i \in 1..m : Prefix(m)[i] = input[i]
<1>1. input \in Seq(Byte) /\ Len(input) \in Nat
  BY InputType
<1>2. /\ \A i \in 1..m : input[i] \in Byte
      /\ 1 \in Int /\ m \in Int /\ m - 1 + 1 = m /\ (~(1 <= m) => m = 0)
      /\ \A i \in 1..m : 1 + i - 1 = i
  BY <1>1
<1> QED
  BY <1>2, SubSeqProperties DEF Prefix

\* What is buffered is in each longer prefix.
LEMMA InPrefix ==
  ASSUME Types, InStream, ~dropped, NEW m \in taken..Len(input)
  PROVE  /\ Prefix(m) \in Seq(Byte) /\ Len(Prefix(m)) = m
         /\ Placed(buffer, Prefix(m), Position)
<1>1. taken \in Nat /\ m \in 0..Len(input) /\ Len(buffer) \in 0..taken /\ buffer \in Seq(Byte)
  BY InputType DEF Types
<1>2. Prefix(m) \in Seq(Byte) /\ Len(Prefix(m)) = m /\ \A i \in 1..m : Prefix(m)[i] = input[i]
  BY <1>1, PrefixType DEF Types
<1>3. Position \in 1..(m + 1) /\ Position + Len(buffer) <= m + 1
      /\ \A j \in 1..Len(buffer) : Position + j - 1 \in 1..m
  BY <1>1 DEF Position
<1>4. \A j \in 1..Len(buffer) : buffer[j] = Prefix(m)[Position + j - 1]
  BY <1>2, <1>3 DEF InStream
<1> QED
  BY <1>1, <1>2, <1>3, <1>4 DEF Placed

\* The end of a sequence, and where it is.
LEMMA Suffix ==
  ASSUME NEW b \in Seq(Byte), NEW k \in 1..(Len(b) + 1)
  PROVE  /\ SubSeq(b, k, Len(b)) \in Seq(Byte)
         /\ Len(SubSeq(b, k, Len(b))) = Len(b) - k + 1
         /\ \A j \in 1..(Len(b) - k + 1) : SubSeq(b, k, Len(b))[j] = b[k + j - 1]
<1>1. /\ \A i \in k..Len(b) : b[i] \in Byte
      /\ k \in Int /\ Len(b) \in Int /\ (~(k <= Len(b)) => Len(b) - k + 1 = 0)
  OBVIOUS
<1> QED
  BY <1>1, SubSeqProperties

\* And its beginning.
LEMMA Beginning ==
  ASSUME NEW b \in Seq(Byte), NEW n \in 1..Len(b)
  PROVE  /\ SubSeq(b, 1, n) \in Seq(Byte) /\ Len(SubSeq(b, 1, n)) = n
         /\ \A j \in 1..n : SubSeq(b, 1, n)[j] = b[j]
<1>1. /\ \A i \in 1..n : b[i] \in Byte
      /\ 1 \in Int /\ n \in Int /\ 1 <= n /\ n - 1 + 1 = n
      /\ \A j \in 1..n : 1 + j - 1 = j
  OBVIOUS
<1> QED
  BY <1>1, SubSeqProperties

\* The bytes of a suffix are where they were.
LEMMA SuffixPlaced ==
  ASSUME NEW s \in Seq(Byte), NEW b, NEW p, Placed(b, s, p), NEW k \in 1..(Len(b) + 1)
  PROVE  Placed(SubSeq(b, k, Len(b)), s, p + k - 1)
<1> DEFINE c == SubSeq(b, k, Len(b))
<1>1. b \in Seq(Byte) /\ p \in 1..(Len(s) + 1) /\ p + Len(b) <= Len(s) + 1
  BY DEF Placed
<1>2. c \in Seq(Byte) /\ Len(c) = Len(b) - k + 1
      /\ \A j \in 1..(Len(b) - k + 1) : c[j] = b[k + j - 1]
  BY <1>1, Suffix
<1> HIDE DEF c
<1>3. /\ \A j \in 1..Len(c) : k + j - 1 \in 1..Len(b)
                              /\ p + (k + j - 1) - 1 = (p + k - 1) + j - 1
      /\ p + k - 1 \in 1..(Len(s) + 1)
      /\ (p + k - 1) + Len(c) <= Len(s) + 1
  BY <1>1, <1>2
<1>4. \A j \in 1..Len(c) : c[j] = s[(p + k - 1) + j - 1]
  BY <1>2, <1>3 DEF Placed
<1>5. Placed(c, s, p + k - 1)
  BY <1>2, <1>3, <1>4 DEF Placed
<1> QED
  BY <1>5 DEF c

\* A frame that ends well is cut off as a frame.
LEMMA CutFrame ==
  ASSUME NEW b \in Seq(Byte), Len(b) >= 5, b[1] = START, FrameLen(b, 1) <= BufferSize,
         FrameLen(b, 1) <= Len(b), WellEnded(b, 1)
  PROVE  /\ FrameLen(b, 1) \in 5..Len(b)
         /\ Frame(SubSeq(b, 1, FrameLen(b, 1)))
         /\ Len(SubSeq(b, 1, FrameLen(b, 1))) = FrameLen(b, 1)
<1> DEFINE n == FrameLen(b, 1)
           f == SubSeq(b, 1, n)
<1>1. n \in Nat /\ n >= 5
  BY FrameLenType
<1>2. n \in 5..Len(b) /\ n \in 1..Len(b) /\ n \in 5..BufferSize /\ n - 1 \in 1..n /\ 3 \in 1..n
      /\ 1 \in 1..n
  BY <1>1, WireAssumption DEF WireAssumption
<1>3. b[n - 1] = CR /\ b[n] = LF
  <2>1. 1 + n - 2 = n - 1 /\ 1 + n - 1 = n
    BY <1>1
  <2> QED
    BY <2>1 DEF WellEnded
<1>4. f \in Seq(Byte) /\ Len(f) = n /\ \A j \in 1..n : f[j] = b[j]
  <2> HIDE DEF n
  <2> QED
    BY <1>2, Beginning
<1>5. b[3] = f[3] /\ FrameLen(f, 1) = f[3] + 5 /\ n = b[3] + 5
  BY <1>2, <1>4 DEF FrameLen
<1> HIDE DEF f, n
<1>6. n \in 1..n
  BY <1>2
<1>7. Frame(f)
  BY <1>2, <1>3, <1>4, <1>5, <1>6 DEF Frame
<1> QED
  BY <1>2, <1>4, <1>7 DEF f, n


\* An element at the head of a sequence, or at the end of the one before it.
LEMMA Regroup ==
  ASSUME NEW R, NEW h \in Seq(R), NEW f \in R, NEW r \in Seq(R)
  PROVE  h \o (<< f >> \o r) = Append(h, f) \o r
<1> DEFINE u == << f >>
<1>1. u \in Seq(R)
  OBVIOUS
<1>2. Append(h, f) = h \o u
  BY AppendIsConcat
<1> HIDE DEF u
<1>3. h \o (u \o r) = (h \o u) \o r
  BY <1>1, ConcatAssociative
<1> QED
  BY <1>2, <1>3, Zenon DEF u

\* A frame that is handed over is the next one of the stream.
LEMMA OneMore ==
  ASSUME Types, NEW f, Frame(f), NEW r \in Seq(Seq(Byte))
  PROVE  /\ Append(handled, f) \in Seq(Seq(Byte))
         /\ \A k \in 1..Len(Append(handled, f)) : Frame(Append(handled, f)[k])
         /\ handled \o (<< f >> \o r) = Append(handled, f) \o r
<1> DEFINE h == Append(handled, f)
           R == Seq(Byte)
<1>1. handled \in Seq(R) /\ f \in R /\ r \in Seq(R) /\ Len(handled) \in Nat
  BY DEF Types, Frame
<1>2. \A k \in 1..Len(handled) : Frame(handled[k])
  BY DEF Types
<1>3. handled \o (<< f >> \o r) = Append(handled, f) \o r
  <2>1. handled \in Seq(Seq(Byte)) /\ f \in Seq(Byte)
    BY <1>1
  <2> QED
    BY <2>1, Regroup, SMTT(30)
<1> HIDE DEF R
<1>4. /\ h \in Seq(R) /\ Len(h) = Len(handled) + 1
      /\ \A k \in 1..Len(handled) : h[k] = handled[k]
      /\ h[Len(handled) + 1] = f
  BY <1>1, AppendProperties
<1> HIDE DEF h
<1>5. \A k \in 1..Len(h) : Frame(h[k])
  <2> SUFFICES ASSUME NEW k \in 1..Len(h) PROVE Frame(h[k])
    OBVIOUS
  <2>1. k \in 1..Len(handled) \/ k = Len(handled) + 1
    BY <1>1, <1>4
  <2> QED
    BY <1>2, <1>4, <2>1, Zenon
<1> QED
  BY <1>3, <1>4, <1>5, Zenon DEF h, R
-----------------------------------------------------------------------------
(* The June receiver *)

june == driver = "june" /\ UNCHANGED <<driver, overflow>>

\* A chunk that fits is appended, and the stream is dealt with as far as before.
LEMMA ReceiveStep ==
  ASSUME Inv, june, NEW n \in 1..Len(input), Receive(n)
  PROVE  Inv'
<1>1. /\ input \in Seq(Byte) /\ taken \in Nat /\ taken <= Len(input) /\ n \in Nat
      /\ buffer \in Seq(Byte) /\ Len(buffer) \in Nat /\ Len(buffer) <= taken
      /\ taken' = taken + n /\ taken' <= Len(input) /\ step = "idle"
      /\ BufferSize \in Nat /\ SizeModulus \in Nat /\ SizeModulus > BufferSize
  BY InputType, WireAssumption, FrameAssumption
  DEF Inv, Types, Receive, WireAssumption, FrameAssumption
<1>2. CASE frameLen + n <= BufferSize
  <2> DEFINE c == SubSeq(input, taken + 1, taken + n)
  <2>1. c \in Seq(Byte) /\ Len(c) = n
    <3>1. /\ \A i \in (taken + 1)..(taken + n) : input[i] \in Byte
          /\ taken + 1 \in Int /\ taken + n \in Int /\ taken + 1 <= taken + n
          /\ (taken + n) - (taken + 1) + 1 = n
      BY <1>1
    <3> QED
      BY <3>1, SubSeqProperties
  <2>2. \A j \in 1..n : c[j] = input[taken + j]
    <3>1. /\ \A i \in (taken + 1)..(taken + n) : input[i] \in Byte
          /\ taken + 1 \in Int /\ taken + n \in Int
          /\ (taken + n) - (taken + 1) + 1 = n
          /\ \A j \in 1..n : (taken + 1) + j - 1 = taken + j
      BY <1>1
    <3>2. \A j \in 1..((taken + n) - (taken + 1) + 1) : c[j] = input[(taken + 1) + j - 1]
      BY <3>1, SubSeqProperties
    <3> QED
      BY <3>1, <3>2
  <2>3. buffer' = buffer \o c /\ frameLen' = frameLen + n /\ step' = "loop"
    BY <1>2 DEF Receive
  <2> HIDE DEF c
  <2>4. /\ buffer' \in Seq(Byte) /\ Len(buffer') = Len(buffer) + n
        /\ \A j \in 1..(Len(buffer) + n) :
             buffer'[j] = IF j <= Len(buffer) THEN buffer[j] ELSE c[j - Len(buffer)]
    BY <1>1, <2>1, <2>3, ConcatProperties
  <2>5. UNCHANGED <<input, current, handled, dropped, resets, driver, overflow>>
    BY <1>2 DEF Receive, june
  <2>6. Types'
    BY <1>1, <1>2, <2>3, <2>4, <2>5, SMTT(30) DEF Inv, Types
  <2>7. Counted'
    <3>1. /\ frameLen \in Nat /\ Len(buffer) <= frameLen /\ driver = "june"
          /\ Undisturbed => frameLen = Len(buffer)
      BY <1>1 DEF Inv, Types, Counted, june
    <3>2. Undisturbed' = Undisturbed
      BY <2>5 DEF Undisturbed
    <3>3. Len(buffer') <= frameLen'
      BY <1>1, <2>3, <2>4, <3>1
    <3>4. ASSUME Undisturbed PROVE frameLen' = Len(buffer') /\ Len(buffer') <= BufferSize
      <4>1. frameLen = Len(buffer)
        BY <3>1, <3>4, Zenon
      <4> QED
        BY <1>1, <1>2, <2>3, <2>4, <4>1
    <3>5. driver' = "june" /\ step' = "loop"
      BY <2>3, <2>5, <3>1
    <3> QED
      BY <3>2, <3>3, <3>4, <3>5 DEF Counted
  <2>8. Position' = Position
    BY <1>1, <2>4 DEF Position
  <2>9. InStream'
    <3> SUFFICES ASSUME ~dropped, NEW j \in 1..(Len(buffer) + n)
                 PROVE  buffer'[j] = input[Position + j - 1]
      BY <2>4, <2>5, <2>8 DEF InStream
    <3>1. CASE j <= Len(buffer)
      BY <1>1, <2>4, <3>1 DEF Inv, InStream
    <3>2. CASE ~(j <= Len(buffer))
      <4>1. j - Len(buffer) \in 1..n /\ taken + (j - Len(buffer)) = Position + j - 1
        BY <1>1, <3>2 DEF Position
      <4>2. buffer'[j] = c[j - Len(buffer)]
        BY <2>4, <3>2
      <4> QED
        BY <2>2, <4>1, <4>2
    <3> QED
      BY <3>1, <3>2
  <2>10. Parsed'
    <3>1. Pending' = Pending
      BY <1>1, <2>3, <2>8 DEF Pending
    <3>2. taken'..Len(input) \subseteq taken..Len(input)
      BY <1>1
    <3>3. \A m : Prefix(m)' = Prefix(m)
      BY <2>5 DEF Prefix
    <3> QED
      BY <2>5, <3>1, <3>2, <3>3 DEF Inv, Parsed
  <2>11. AtRest'
    BY <2>3 DEF AtRest
  <2> QED
    BY <2>6, <2>7, <2>9, <2>10, <2>11 DEF Inv
<1>3. CASE ~(frameLen + n <= BufferSize)
  <2>1. /\ buffer' = << >> /\ frameLen' = 0 /\ dropped' = TRUE /\ step' = step
        /\ UNCHANGED <<input, current, handled, resets, driver, overflow>>
    BY <1>3 DEF Receive, june
  <2>2. << >> \in Seq(Byte) /\ Len(<< >>) = 0
    OBVIOUS
  <2>3. Types'
    BY <1>1, <2>1, <2>2 DEF Inv, Types
  <2>4. Counted'
    BY <1>1, <2>1, <2>2 DEF Counted, june
  <2> QED
    BY <2>1, <2>3, <2>4 DEF Inv, InStream, Parsed, AtRest
<1> QED
  BY <1>2, <1>3

\* A step that leaves the stream and the frames alone keeps Parsed when the position it
\* goes on from is as good as the one before.
LEMMA ParsedKept ==
  ASSUME Inv, UNCHANGED <<input, taken, handled, dropped>>,
         ~dropped => \A m \in taken..Len(input) :
                       From(Prefix(m))[Pending'] = From(Prefix(m))[Pending]
  PROVE  Parsed'
<1>1. \A m : Prefix(m)' = Prefix(m)
  BY DEF Prefix
<1> QED
  BY <1>1 DEF Inv, Parsed

\* Fewer than five bytes: the callback returns.
LEMMA TooShortStep == ASSUME Inv, june, TooShort PROVE Inv'
<1>1. UNCHANGED <<input, taken, buffer, frameLen, current, handled, dropped, resets>>
      /\ UNCHANGED <<driver, overflow>>
      /\ step = "loop" /\ step' = "idle"
  BY DEF TooShort, june
<1>2. Types' /\ Counted' /\ InStream'
  BY <1>1 DEF Inv, Types, Counted, Undisturbed, InStream, Position
<1>3. Parsed'
  BY <1>1, ParsedKept DEF Pending, Position
<1>4. AtRest'
  <2> SUFFICES ASSUME ~dropped PROVE From(Prefix(taken))[Position] = << >>
    BY <1>1 DEF AtRest, Prefix, Position
  <2>1. frameLen = Len(buffer) /\ Len(buffer) < 5
    BY DEF Inv, Counted, Undisturbed, june, TooShort
  <2>2. taken \in taken..Len(input) /\ taken \in Nat /\ Len(buffer) \in Nat
    BY InputType DEF Inv, Types
  <2>3. Prefix(taken) \in Seq(Byte) /\ Len(Prefix(taken)) = taken
        /\ Position \in 1..(taken + 1)
    BY <2>2, InPrefix DEF Inv, Placed
  <2>4. Position + 4 > taken
    BY <2>1, <2>2 DEF Position
  <2> QED
    BY <2>3, <2>4, TooFew
<1> QED
  BY <1>2, <1>3, <1>4 DEF Inv

\* What is buffered goes: only after it has been found to be garbage is it not counted
\* as dropped.
LEMMA NoStartStep == ASSUME Inv, june, NoStart PROVE Inv'
<1>1. /\ UNCHANGED <<input, taken, current, handled, dropped, resets, driver, overflow>>
      /\ step = "loop" /\ step' = "idle" /\ buffer' = << >> /\ frameLen' = 0
      /\ \A i \in 1..Len(buffer) : buffer[i] # START
  BY DEF NoStart, june
<1>2. << >> \in Seq(Byte) /\ Len(<< >>) = 0
  OBVIOUS
<1>3. taken \in Nat /\ Len(buffer) \in Nat /\ Len(buffer) <= taken /\ Len(input) \in Nat
      /\ BufferSize \in Nat /\ SizeModulus \in Nat /\ SizeModulus > 0 /\ taken <= Len(input)
  BY InputType, WireAssumption, FrameAssumption DEF Inv, Types, WireAssumption, FrameAssumption
<1>4. Types' /\ Counted' /\ InStream'
  BY <1>1, <1>2, <1>3 DEF Inv, Types, Counted, Undisturbed, InStream, june
<1>5. Position' = taken + 1 /\ Position = taken - Len(buffer) + 1
  BY <1>1, <1>2, <1>3 DEF Position
<1>6. ASSUME ~dropped, NEW m \in taken..Len(input)
      PROVE  From(Prefix(m))[Position'] = From(Prefix(m))[Position]
  <2>1. Prefix(m) \in Seq(Byte) /\ Placed(buffer, Prefix(m), Position)
    BY <1>6, InPrefix DEF Inv
  <2> DEFINE k == Len(buffer) + 1
  <2>2. k \in 1..(Len(buffer) + 1) /\ \A j \in 1..(k - 1) : buffer[j] # START
    BY <1>1, <1>3
  <2>3. Position + k - 1 = Position'
    BY <1>3, <1>5
  <2> HIDE DEF k
  <2>4. From(Prefix(m))[Position] = From(Prefix(m))[Position + k - 1]
    BY <2>1, <2>2, SkipGarbage
  <2> QED
    BY <2>3, <2>4
<1>7. Parsed'
  <2>1. Pending' = Position' /\ Pending = Position
    BY <1>1, <1>3, <1>5 DEF Pending
  <2> QED
    BY <1>1, <1>6, <2>1, ParsedKept
<1>8. AtRest'
  <2>1. taken \in 0..Len(input) /\ input \in Streams
    BY DEF Inv, Types
  <2>2. Prefix(taken) \in Seq(Byte) /\ Len(Prefix(taken)) = taken
    BY <2>1, PrefixType
  <2>3. From(Prefix(taken))[taken + 1] = << >>
    BY <1>3, <2>2, TooFew
  <2> QED
    BY <1>1, <1>5, <2>3 DEF AtRest, Prefix
<1> QED
  BY <1>4, <1>7, <1>8 DEF Inv

\* What is buffered from its first start byte on, when there is one.
LEMMA FromStartIs ==
  ASSUME buffer \in Seq(Byte), \E i \in 1..Len(buffer) : buffer[i] = START
  PROVE  \E k \in 1..Len(buffer) :
           /\ FromStart = SubSeq(buffer, k, Len(buffer))
           /\ buffer[k] = START
           /\ \A j \in 1..(k - 1) : buffer[j] # START
<1> DEFINE First(i) == buffer[i] = START /\ \A j \in 1..(i - 1) : buffer[j] # START
           T == {i \in 1..Len(buffer) : buffer[i] = START}
           k == CHOOSE i \in 1..Len(buffer) : First(i)
<1>1. PICK n \in T : \A m \in T : n <= m
  <2>1. T \in SUBSET Nat /\ T # {}
    OBVIOUS
  <2> QED
    BY <2>1, LeastNumber
<1>2. First(n) /\ n \in 1..Len(buffer)
  BY <1>1
<1>3. k \in 1..Len(buffer) /\ First(k)
  BY <1>2
<1>4. FromStart = SubSeq(buffer, k, Len(buffer))
  BY Zenon DEF FromStart
<1> HIDE DEF k
<1> QED
  BY <1>3, <1>4

\* The buffer is replaced by an end of it that the definition goes on from: only the
\* place the callback goes to remains to be looked at.
LEMMA ShortenStep ==
  ASSUME Inv, june, UNCHANGED <<input, taken, handled, dropped, resets>>,
         step # "consume", NEW k \in 1..(Len(buffer) + 1),
         buffer' = SubSeq(buffer, k, Len(buffer)), frameLen' = Len(buffer'),
         Len(buffer') <= BufferSize \/ ~Undisturbed,
         Len(buffer') < SizeModulus,
         step' \in {"idle", "loop", "handle"},
         current' \in Seq(Byte), Len(current') <= BufferSize,
         step' = "handle" => /\ Frame(current') /\ Len(current') <= Len(buffer')
                             /\ current' = SubSeq(buffer', 1, Len(current')),
         ~dropped => \A m \in taken..Len(input) :
                       From(Prefix(m))[Position + k - 1] = From(Prefix(m))[Position],
         ~dropped /\ step' = "idle" => From(Prefix(taken))[Position + k - 1] = << >>
  PROVE  Inv'
<1>1. /\ buffer \in Seq(Byte) /\ Len(buffer) \in Nat /\ taken \in Nat /\ Len(buffer) <= taken
  BY InputType DEF Inv, Types
<1>2. /\ buffer' \in Seq(Byte) /\ Len(buffer') = Len(buffer) - k + 1
      /\ \A j \in 1..(Len(buffer) - k + 1) : buffer'[j] = buffer[k + j - 1]
  BY <1>1, Suffix
<1>3. Position' = Position + k - 1
  BY <1>1, <1>2 DEF Position
<1>4. Types'
  BY <1>1, <1>2, FrameAssumption DEF Inv, Types, june, FrameAssumption
<1>5. Counted'
  BY <1>1, <1>2 DEF Inv, Counted, Undisturbed, june
<1>6. InStream'
  <2> SUFFICES ASSUME ~dropped, NEW j \in 1..Len(buffer')
               PROVE  buffer'[j] = input[Position' + j - 1]
    BY DEF InStream
  <2>1. k + j - 1 \in 1..Len(buffer) /\ Position + (k + j - 1) - 1 = Position' + j - 1
        /\ j \in 1..(Len(buffer) - k + 1)
    BY <1>1, <1>2, <1>3 DEF Position
  <2> QED
    BY <1>2, <2>1 DEF Inv, InStream
<1>7. Pending = Position /\ Pending' = Position'
  BY <1>1, <1>2 DEF Pending, Position
<1>8. Parsed'
  BY <1>3, <1>7, ParsedKept
<1>9. AtRest'
  BY <1>3 DEF AtRest, Prefix
<1> QED
  BY <1>4, <1>5, <1>6, <1>8, <1>9 DEF Inv

\* The start byte is found, and the frame that it begins is looked at.
LEMMA ExamineStep == ASSUME Inv, june, Examine PROVE Inv'
<1>1. /\ input \in Seq(Byte) /\ taken \in Nat /\ taken <= Len(input) /\ Len(input) \in Nat
      /\ buffer \in Seq(Byte) /\ Len(buffer) \in Nat /\ Len(buffer) <= taken
      /\ current \in Seq(Byte) /\ Len(current) <= BufferSize
      /\ BufferSize \in Nat /\ SizeModulus \in Nat /\ SizeModulus > 2 * BufferSize
      /\ step = "loop"
  BY InputType, WireAssumption, FrameAssumption
  DEF Inv, Types, Examine, WireAssumption, FrameAssumption
<1>2. UNCHANGED <<input, taken, handled, resets, driver, overflow>>
  BY DEF Examine, june
<1>3. PICK k \in 1..Len(buffer) :
        /\ FromStart = SubSeq(buffer, k, Len(buffer))
        /\ buffer[k] = START
        /\ \A j \in 1..(k - 1) : buffer[j] # START
  BY <1>1, FromStartIs DEF Examine
<1> DEFINE b == FromStart
<1>4. /\ b \in Seq(Byte) /\ Len(b) = Len(buffer) - k + 1 /\ Len(b) \in Nat
      /\ b[1] = START
  <2>1. k \in 1..(Len(buffer) + 1)
    BY <1>1
  <2>2. /\ b \in Seq(Byte) /\ Len(b) = Len(buffer) - k + 1
        /\ \A j \in 1..(Len(buffer) - k + 1) : b[j] = buffer[k + j - 1]
    BY <1>1, <1>3, <2>1, Suffix
  <2>3. 1 \in 1..(Len(buffer) - k + 1) /\ k + 1 - 1 = k
        /\ Len(buffer) - k + 1 \in Nat
    BY <1>1
  <2>4. b[1] = buffer[k]
    BY <2>2, <2>3
  <2> QED
    BY <1>3, <2>2, <2>3, <2>4, Zenon
<1>5. ASSUME ~dropped, NEW m \in taken..Len(input)
      PROVE  /\ Prefix(m) \in Seq(Byte) /\ Len(Prefix(m)) = m
             /\ Placed(b, Prefix(m), Position + k - 1)
             /\ From(Prefix(m))[Position + k - 1] = From(Prefix(m))[Position]
  <2>1. Prefix(m) \in Seq(Byte) /\ Len(Prefix(m)) = m /\ Placed(buffer, Prefix(m), Position)
    BY <1>5, InPrefix DEF Inv
  <2>2. k \in 1..(Len(buffer) + 1)
    BY <1>1
  <2>3. Placed(b, Prefix(m), Position + k - 1)
    BY <1>3, <2>1, <2>2, SuffixPlaced
  <2>4. From(Prefix(m))[Position + k - 1] = From(Prefix(m))[Position]
    BY <1>3, <2>1, <2>2, SkipGarbage
  <2> QED
    BY <2>1, <2>3, <2>4
<1>6. /\ k \in 1..(Len(buffer) + 1)
      /\ Len(b) <= BufferSize \/ ~Undisturbed
      /\ Len(b) < SizeModulus
  BY <1>1, <1>4 DEF Inv, Types, Counted, june
<1>7. ~dropped => Position + k - 1 + Len(b) = taken + 1 /\ Undisturbed
  BY <1>1, <1>4 DEF Position, Undisturbed
<1> HIDE DEF b
<1>8. ~dropped => \A m \in taken..Len(input) :
                    From(Prefix(m))[Position + k - 1] = From(Prefix(m))[Position]
  BY <1>5
<1>9. buffer' = b => buffer' = SubSeq(buffer, k, Len(buffer))
  BY <1>3 DEF b
<1>10. CASE /\ Len(b) < 5
            /\ buffer' = b /\ frameLen' = Len(b) /\ step' = "idle"
            /\ UNCHANGED <<current, dropped>>
  <2>1. ASSUME ~dropped PROVE From(Prefix(taken))[Position + k - 1] = << >>
    <3>1. taken \in taken..Len(input)
      BY <1>1
    <3>2. Position + k - 1 \in 1..(taken + 1) /\ Position + k - 1 + 4 > taken
      BY <1>1, <1>4, <1>7, <1>10, <2>1 DEF Position
    <3>3. Prefix(taken) \in Seq(Byte) /\ Len(Prefix(taken)) = taken
      BY <1>5, <2>1, <3>1
    <3> QED
      BY <3>2, <3>3, TooFew
  <2>2. current' \in Seq(Byte) /\ Len(current') <= BufferSize
        /\ (Len(buffer') <= BufferSize \/ ~Undisturbed)
    BY <1>1, <1>6, <1>10
  <2> QED
    BY <1>1, <1>2, <1>6, <1>8, <1>9, <1>10, <2>1, ShortenStep
<1>11. CASE /\ buffer' = << >> /\ frameLen' = 0 /\ step' = "idle"
            /\ dropped' = TRUE
            /\ UNCHANGED current
  <2>1. << >> \in Seq(Byte) /\ Len(<< >>) = 0
    OBVIOUS
  <2>2. Types'
    BY <1>1, <1>2, <1>11, <2>1 DEF Inv, Types
  <2>3. Counted'
    BY <1>1, <1>2, <1>11, <2>1 DEF Counted, june
  <2> QED
    BY <1>11, <2>2, <2>3 DEF Inv, InStream, Parsed, AtRest
<1>12. CASE /\ Len(b) >= 5
            /\ FrameLen(b, 1) <= BufferSize
            /\ Len(b) < FrameLen(b, 1)
            /\ buffer' = b /\ frameLen' = Len(b) /\ step' = "idle"
            /\ UNCHANGED <<current, dropped>>
  <2>1. ASSUME ~dropped PROVE From(Prefix(taken))[Position + k - 1] = << >>
    <3>1. taken \in taken..Len(input)
      BY <1>1
    <3>2. /\ Prefix(taken) \in Seq(Byte) /\ Len(Prefix(taken)) = taken
          /\ Placed(b, Prefix(taken), Position + k - 1)
      BY <1>5, <2>1, <3>1
    <3>3. Position + k - 1 + Len(b) = Len(Prefix(taken)) + 1 /\ Len(b) >= 3
      BY <1>4, <1>7, <1>12, <2>1, <3>2
    <3> QED
      BY <1>4, <1>12, <3>2, <3>3, Unfinished
  <2>2. current' \in Seq(Byte) /\ Len(current') <= BufferSize
        /\ (Len(buffer') <= BufferSize \/ ~Undisturbed)
    BY <1>1, <1>6, <1>12
  <2> QED
    BY <1>1, <1>2, <1>6, <1>8, <1>9, <1>12, <2>1, <2>2, ShortenStep
<1>13. CASE /\ Len(b) >= 5
            /\ FrameLen(b, 1) <= BufferSize
            /\ Len(b) >= FrameLen(b, 1)
            /\ ~WellEnded(b, 1)
            /\ buffer' = Tail(b) /\ frameLen' = Len(b) - 1
            /\ UNCHANGED <<step, current, dropped>>
  <2>1. /\ k + 1 \in 1..(Len(buffer) + 1) /\ b # << >>
        /\ Position + (k + 1) - 1 = Position + k - 1 + 1
    BY <1>1, <1>4, <1>13 DEF Position
  <2>2. Tail(b) = SubSeq(buffer, k + 1, Len(buffer)) /\ Len(Tail(b)) = Len(b) - 1
    <3> DEFINE c == Tail(b)
               d == SubSeq(buffer, k + 1, Len(buffer))
    <3>1. c \in Seq(Byte) /\ Len(c) = Len(b) - 1 /\ \A i \in 1..Len(c) : c[i] = b[i + 1]
      BY <1>4, <2>1, HeadTailProperties
    <3>2. /\ d \in Seq(Byte) /\ Len(d) = Len(buffer) - (k + 1) + 1
          /\ \A j \in 1..(Len(buffer) - (k + 1) + 1) : d[j] = buffer[(k + 1) + j - 1]
      BY <1>1, <2>1, Suffix
    <3>3. \A j \in 1..(Len(buffer) - k + 1) : b[j] = buffer[k + j - 1]
      BY <1>1, <1>3, <1>6, Suffix DEF b
    <3> HIDE DEF c, d
    <3>4. Len(c) = Len(d) /\ Len(c) = Len(buffer) - k
          /\ \A i \in 1..Len(c) : /\ i + 1 \in 1..(Len(buffer) - k + 1)
                                  /\ i \in 1..(Len(buffer) - (k + 1) + 1)
                                  /\ k + (i + 1) - 1 = (k + 1) + i - 1
      BY <1>1, <1>4, <3>1, <3>2
    <3>5. \A i \in 1..Len(c) : c[i] = d[i]
      BY <3>1, <3>2, <3>3, <3>4
    <3>6. c = d
      BY <3>1, <3>2, <3>4, <3>5, SeqEqual
    <3> QED
      BY <3>1, <3>6 DEF c, d
  <2>3. ASSUME ~dropped, NEW m \in taken..Len(input)
        PROVE  From(Prefix(m))[Position + (k + 1) - 1] = From(Prefix(m))[Position]
    <3>1. Len(b) >= 3
      BY <1>4, <1>13
    <3>2. Prefix(m) \in Seq(Byte) /\ Placed(b, Prefix(m), Position + k - 1)
          /\ From(Prefix(m))[Position + k - 1] = From(Prefix(m))[Position]
      BY <1>5, <2>3
    <3>3. From(Prefix(m))[Position + k - 1] = From(Prefix(m))[Position + k - 1 + 1]
      BY <1>4, <1>13, <3>1, <3>2, SkipStart
    <3> QED
      BY <2>1, <3>2, <3>3
  <2>4. /\ buffer' = SubSeq(buffer, k + 1, Len(buffer)) /\ frameLen' = Len(buffer')
        /\ (Len(buffer') <= BufferSize \/ ~Undisturbed)
        /\ Len(buffer') < SizeModulus
        /\ current' \in Seq(Byte) /\ Len(current') <= BufferSize
        /\ step' = "loop"
    BY <1>1, <1>4, <1>6, <1>13, <2>2, SMTT(30)
  <2> QED
    BY <1>1, <1>2, <1>13, <2>1, <2>3, <2>4, ShortenStep
<1>14. CASE /\ Len(b) >= 5
            /\ FrameLen(b, 1) <= BufferSize
            /\ Len(b) >= FrameLen(b, 1)
            /\ WellEnded(b, 1)
            /\ buffer' = b /\ frameLen' = Len(b)
            /\ current' = SubSeq(b, 1, FrameLen(b, 1)) /\ step' = "handle"
            /\ UNCHANGED dropped
  <2>1. FrameLen(b, 1) \in Nat /\ FrameLen(b, 1) <= Len(b)
    BY <1>4, <1>14, FrameLenType
  <2>2. Frame(current') /\ Len(current') = FrameLen(b, 1)
    BY <1>4, <1>14, <2>1, CutFrame
  <2>3. /\ current' \in Seq(Byte) /\ Len(current') <= BufferSize
        /\ Len(current') <= Len(buffer')
        /\ current' = SubSeq(buffer', 1, Len(current'))
        /\ (Len(buffer') <= BufferSize \/ ~Undisturbed)
        /\ Len(buffer') < SizeModulus /\ frameLen' = Len(buffer')
    BY <1>6, <1>14, <2>1, <2>2 DEF Frame
  <2> QED
    BY <1>1, <1>2, <1>6, <1>8, <1>9, <1>14, <2>2, <2>3, ShortenStep
<1> QED
  BY <1>10, <1>11, <1>12, <1>13, <1>14 DEF Examine, b

\* The frame found is handed over, and is the next one of the stream.
LEMMA HandleStep == ASSUME Inv, june, Handle PROVE Inv'
<1>1. /\ UNCHANGED <<input, taken, buffer, frameLen, current, dropped, resets, driver, overflow>>
      /\ step = "handle" /\ step' = "consume" /\ handled' = Append(handled, current)
  BY DEF Handle, june
<1>2. /\ handled \in Seq(Seq(Byte)) /\ current \in Seq(Byte) /\ Frame(current)
      /\ taken \in Nat /\ Len(input) \in Nat /\ buffer \in Seq(Byte)
      /\ Len(buffer) \in Nat /\ Len(buffer) <= taken
  BY <1>1, InputType DEF Inv, Types, Counted, june
<1>3. << >> \in Seq(Seq(Byte))
  OBVIOUS
<1>4. handled' \in Seq(Seq(Byte)) /\ \A k \in 1..Len(handled') : Frame(handled'[k])
  BY <1>1, <1>2, <1>3, OneMore, Zenon DEF Inv
<1>5. Types'
  BY <1>1, <1>4 DEF Inv, Types
<1>6. Counted' /\ InStream' /\ AtRest'
  BY <1>1, <1>2 DEF Inv, Counted, Undisturbed, InStream, Position, AtRest, june
<1>7. Parsed'
  <2> SUFFICES ASSUME ~dropped, NEW m \in taken..Len(input)
               PROVE  FramesOf(Prefix(m)) = handled' \o From(Prefix(m))[Pending']
    BY <1>1 DEF Parsed, Prefix
  <2>1. /\ Prefix(m) \in Seq(Byte) /\ Len(Prefix(m)) = m
        /\ Placed(buffer, Prefix(m), Position)
    BY InPrefix DEF Inv
  <2>2. Len(current) <= Len(buffer) /\ current = SubSeq(buffer, 1, Len(current))
        /\ Len(current) \in 5..BufferSize
    BY <1>1, <1>2 DEF Inv, Counted, Undisturbed, Frame, june
  <2> DEFINE n == Len(current)
             p == Position
             s == Prefix(m)
  <2>3. n \in 1..Len(buffer) /\ n >= 5 /\ n <= BufferSize /\ Len(buffer) >= 3
    BY <1>2, <2>2
  <2>4. \A j \in 1..n : current[j] = buffer[j]
    BY <1>2, <2>2, <2>3, Beginning
  <2>5. FrameLen(buffer, 1) = n /\ buffer[1] = START /\ WellEnded(buffer, 1)
    <3>1. 1 \in 1..n /\ 3 \in 1..n /\ n - 1 \in 1..n /\ n \in 1..n /\ 1 + 2 = 3
          /\ 1 + n - 2 = n - 1 /\ 1 + n - 1 = n
      BY <2>3
    <3>2. current[3] = buffer[3] /\ current[1] = buffer[1]
          /\ current[n - 1] = buffer[n - 1] /\ current[n] = buffer[n]
      BY <2>4, <3>1
    <3>3. n = current[3] + 5 /\ current[1] = START /\ current[n - 1] = CR /\ current[n] = LF
      BY <1>2, <3>1 DEF Frame, FrameLen
    <3>4. FrameLen(buffer, 1) = n
      BY <3>1, <3>2, <3>3 DEF FrameLen
    <3> QED
      BY <3>1, <3>2, <3>3, <3>4 DEF WellEnded
  <2>6. From(s)[p] = << current >> \o From(s)[p + n]
    <3>1. FrameLen(buffer, 1) <= BufferSize /\ FrameLen(buffer, 1) <= Len(buffer)
          /\ Len(buffer) >= 3
      BY <2>3, <2>5
    <3>2. From(s)[p] = << SubSeq(buffer, 1, FrameLen(buffer, 1)) >> \o From(s)[p + FrameLen(buffer, 1)]
      BY <2>1, <2>5, <3>1, FrameFound, Zenon
    <3> QED
      BY <2>2, <2>5, <3>2
  <2>7. p + n \in 1..(Len(s) + 1)
    BY <1>2, <2>1, <2>3 DEF Placed
  <2>8. From(s)[p + n] \in Seq(Seq(Byte))
    BY <2>1, <2>7, FromType
  <2>9. Pending = p /\ Pending' = p + n
    BY <1>1, <1>2 DEF Pending, Position
  <2>10. FramesOf(s) = handled \o From(s)[p]
    BY <2>9 DEF Inv, Parsed
  <2> HIDE DEF n, p, s
  <2>11. handled \o (<< current >> \o From(s)[p + n]) = handled' \o From(s)[p + n]
    BY <1>1, <1>2, <2>8, OneMore, Zenon DEF Inv
  <2>12. FramesOf(s) = handled' \o From(s)[p + n]
    BY <2>6, <2>10, <2>11
  <2> QED
    BY <2>9, <2>12 DEF s
<1> QED
  BY <1>5, <1>6, <1>7 DEF Inv

\* And is taken out of the buffer; frame_len wraps only if a transaction came between.
LEMMA ConsumeStep == ASSUME Inv, june, Consume PROVE Inv'
<1>1. /\ UNCHANGED <<input, taken, handled, current, dropped, resets, driver, overflow>>
      /\ step = "consume" /\ step' = "loop"
      /\ buffer' = SubSeq(buffer, Len(current) + 1, Len(buffer))
      /\ frameLen' = (frameLen + SizeModulus - Len(current)) % SizeModulus
  BY DEF Consume, june
<1>2. /\ taken \in Nat /\ Len(input) \in Nat /\ buffer \in Seq(Byte)
      /\ Len(buffer) \in Nat /\ Len(buffer) <= taken
      /\ current \in Seq(Byte) /\ Len(current) \in Nat /\ Len(current) <= BufferSize
      /\ BufferSize \in Nat /\ SizeModulus \in Nat /\ SizeModulus > BufferSize
      /\ frameLen \in 0..(SizeModulus - 1) /\ Len(buffer) <= frameLen
      /\ Undisturbed => /\ frameLen = Len(buffer) /\ Len(buffer) <= BufferSize
                        /\ Len(current) <= Len(buffer)
  BY <1>1, InputType, WireAssumption, FrameAssumption
  DEF Inv, Types, Counted, june, WireAssumption, FrameAssumption
<1> DEFINE n == Len(current)
<1>3. frameLen' = IF n <= frameLen THEN frameLen - n ELSE frameLen + SizeModulus - n
  <2>1. ASSUME NEW M \in Nat, NEW x \in 0..(M - 1), NEW y \in 0..M
        PROVE  (x + M - y) % M = IF y <= x THEN x - y ELSE x + M - y
    OBVIOUS
  <2>2. /\ SizeModulus \in Nat /\ frameLen \in 0..(SizeModulus - 1) /\ n \in 0..SizeModulus
        /\ frameLen' = (frameLen + SizeModulus - n) % SizeModulus
    BY <1>1, <1>2
  <2> HIDE DEF n
  <2> QED
    BY <2>1, <2>2
<1>4. CASE n <= Len(buffer)
  <2>1. n + 1 \in 1..(Len(buffer) + 1)
    BY <1>2, <1>4
  <2>2. /\ buffer' \in Seq(Byte) /\ Len(buffer') = Len(buffer) - n
        /\ \A j \in 1..(Len(buffer) - n) : buffer'[j] = buffer[n + 1 + j - 1]
    <3>1. Len(buffer) - (n + 1) + 1 = Len(buffer) - n
      BY <1>2
    <3> QED
      BY <1>1, <1>2, <2>1, <3>1, Suffix
  <2>3. frameLen' = frameLen - n
    BY <1>2, <1>3, <1>4
  <2>4. Types'
    <3>1. Len(buffer') <= taken' /\ frameLen' \in 0..(SizeModulus - 1)
      BY <1>1, <1>2, <1>4, <2>2, <2>3, SMTT(30)
    <3>2. buffer' \in Seq(Byte) /\ step' \in {"idle", "loop", "handle", "consume"}
      BY <1>1, <2>2
    <3> QED
      BY <1>1, <3>1, <3>2 DEF Inv, Types
  <2>5. Counted'
    BY <1>1, <1>2, <1>4, <2>2, <2>3 DEF Counted, Undisturbed, june
  <2>6. Position' = Position + n
    <3>1. taken' = taken /\ n \in Nat
      BY <1>1, <1>2
    <3> HIDE DEF n
    <3> QED
      BY <1>2, <2>2, <3>1 DEF Position
  <2>7. InStream'
    <3> SUFFICES ASSUME ~dropped, NEW j \in 1..Len(buffer')
                 PROVE  buffer'[j] = input[Position' + j - 1]
      BY <1>1 DEF InStream
    <3>1. n + 1 + j - 1 \in 1..Len(buffer) /\ Position + (n + 1 + j - 1) - 1 = Position' + j - 1
          /\ j \in 1..(Len(buffer) - n)
      BY <1>2, <1>4, <2>2, <2>6 DEF Position
    <3> QED
      BY <2>2, <3>1 DEF Inv, InStream
  <2>8. Pending' = Pending
    <3>1. Position' \in Int
      BY <1>1, <1>2, <2>2 DEF Position
    <3>2. Pending' = Position'
      <4>1. Pending' = Position' + 0
        BY <1>1, Zenon DEF Pending
      <4>2. \A i \in Int : i + 0 = i
        OBVIOUS
      <4> QED
        BY <3>1, <4>1, <4>2, Zenon
    <3>3. Pending = Position + n
      BY <1>1 DEF Pending
    <3> QED
      BY <2>6, <3>2, <3>3
  <2>9. Parsed'
    BY <1>1, <2>8, ParsedKept
  <2> QED
    BY <1>1, <2>4, <2>5, <2>7, <2>9 DEF Inv, AtRest
<1>5. CASE ~(n <= Len(buffer))
  <2>1. ~Undisturbed /\ dropped
    BY <1>2, <1>5 DEF Undisturbed, Inv, Types
  <2>2. buffer' = << >> /\ << >> \in Seq(Byte) /\ Len(<< >>) = 0
    <3>1. n + 1 \in Int /\ Len(buffer) \in Int /\ Len(buffer) < n + 1
      BY <1>2, <1>5
    <3> QED
      BY <1>1, <3>1, SubSeqEmpty
  <2>3. frameLen' \in 0..(SizeModulus - 1)
    BY <1>2, <1>3
  <2>4. Types'
    BY <1>1, <1>2, <2>2, <2>3, SMTT(30) DEF Inv, Types
  <2>5. Counted'
    <3>1. ~Undisturbed' /\ driver' = "june" /\ step' = "loop"
      BY <1>1, <2>1 DEF Undisturbed, june
    <3>2. Len(buffer') <= frameLen'
      BY <2>2, <2>3
    <3> QED
      BY <3>1, <3>2 DEF Counted
  <2> QED
    BY <1>1, <2>1, <2>4, <2>5 DEF Inv, InStream, Parsed, AtRest
<1> QED
  BY <1>4, <1>5

\* A transaction starts: what was buffered counts as dropped.
LEMMA ResetStep == ASSUME Inv, june, Reset PROVE Inv'
<1>1. /\ UNCHANGED <<input, taken, step, current, handled, driver, overflow>>
      /\ buffer' = << >> /\ frameLen' = 0 /\ dropped' = TRUE
      /\ resets < Resets /\ resets' = resets + 1
      /\ Racing \/ step = "idle"
  BY DEF Reset, june
<1>2. << >> \in Seq(Byte) /\ Len(<< >>) = 0
  OBVIOUS
<1>3. /\ taken \in Nat /\ BufferSize \in Nat /\ SizeModulus \in Nat /\ SizeModulus > 0
      /\ Resets \in Nat /\ Racing \in BOOLEAN
  BY InputType, WireAssumption, FrameAssumption DEF Inv, Types, WireAssumption, FrameAssumption
<1>4. Types'
  BY <1>1, <1>2, <1>3 DEF Inv, Types
<1>5. Counted'
  BY <1>1, <1>2, <1>3 DEF Inv, Counted, Undisturbed, june
<1> QED
  BY <1>1, <1>4, <1>5 DEF Inv, InStream, Parsed, AtRest


\* The June receiver's steps, together.
LEMMA JuneStep == ASSUME Inv, june, FrameNext PROVE Inv'
  BY ReceiveStep, TooShortStep, NoStartStep, ExamineStep, HandleStep, ConsumeStep, ResetStep
  DEF FrameNext

-----------------------------------------------------------------------------
(* The January receiver *)

january == driver = "january" /\ UNCHANGED <<driver, juneVars>>

\* Its module has the operators of the wire under names of its own.
LEMMA SameFrameLen == ASSUME NEW s, NEW i PROVE Bytewise!FrameLen(s, i) = FrameLen(s, i)
  BY Zenon DEF Bytewise!FrameLen, FrameLen

\* The same, for the end of a frame.
LEMMA SameWellEnded ==
  ASSUME NEW s, NEW i PROVE Bytewise!WellEnded(s, i) <=> WellEnded(s, i)
  BY Zenon
  DEF Bytewise!WellEnded, WellEnded, Bytewise!FrameLen, FrameLen, Bytewise!CR, CR, Bytewise!LF, LF

\* And for the frames of a stream.
LEMMA SameFrames == ASSUME NEW s PROVE Bytewise!FramesOf(s) = FramesOf(s)
  BY Zenon
  DEF Bytewise!FramesOf, FramesOf, Bytewise!FramesAt, FramesAt, Bytewise!WellEnded, WellEnded,
      Bytewise!FrameLen, FrameLen, Bytewise!START, START, Bytewise!CR, CR, Bytewise!LF, LF

\* What the loop's condition says.
LEMMA LoopRunsIs ==
  Bytewise!LoopRuns <=> /\ Len(buffer) >= 3
                        /\ buffer[1] = START /\ FrameLen(buffer, 1) <= BufferSize
                             => Len(buffer) >= FrameLen(buffer, 1)
  BY SameFrameLen, Zenon DEF Bytewise!LoopRuns, Bytewise!START, START

\* The January receiver's positions.
LEMMA JanuaryTypes ==
  ASSUME Inv, january
  PROVE  /\ input \in Seq(Byte) /\ Len(input) \in Nat /\ taken \in Nat /\ taken <= Len(input)
         /\ buffer \in Seq(Byte) /\ Len(buffer) \in Nat /\ Len(buffer) <= taken
         /\ Len(buffer) <= BufferSize /\ BufferSize \in Nat /\ BufferSize >= 5
         /\ step = "idle" /\ Pending = Position /\ Position \in Nat
<1>1. /\ input \in Seq(Byte) /\ Len(input) \in Nat /\ taken \in Nat /\ taken <= Len(input)
      /\ buffer \in Seq(Byte) /\ Len(buffer) \in Nat /\ Len(buffer) <= taken
  BY InputType DEF Inv, Types
<1>2. step = "idle" /\ Len(buffer) <= BufferSize
  BY DEF Inv, Counted, january
<1>3. Position \in Nat
  BY <1>1 DEF Position
<1>4. Pending = Position
  BY <1>2, <1>3 DEF Pending
<1> QED
  BY <1>1, <1>2, <1>3, <1>4, WireAssumption DEF WireAssumption

\* The first bytes that are buffered go, as garbage or as a frame.
LEMMA CutStep ==
  ASSUME Inv, january, UNCHANGED <<input, taken, dropped, overflow>>,
         NEW k \in 1..(Len(buffer) + 1), buffer' = SubSeq(buffer, k, Len(buffer)),
         handled' \in Seq(Seq(Byte)), \A i \in 1..Len(handled') : Frame(handled'[i]),
         ~dropped => \A m \in taken..Len(input) :
                       FramesOf(Prefix(m)) = handled' \o From(Prefix(m))[Position + k - 1]
  PROVE  Inv'
<1>1. /\ buffer \in Seq(Byte) /\ Len(buffer) \in Nat /\ taken \in Nat /\ Len(buffer) <= taken
      /\ Len(buffer) <= BufferSize /\ BufferSize \in Nat /\ step = "idle" /\ Position \in Nat
  BY JanuaryTypes
<1>2. UNCHANGED <<frameLen, step, current, resets, driver>> /\ driver = "january"
  BY DEF january, juneVars
<1>3. /\ buffer' \in Seq(Byte) /\ Len(buffer') = Len(buffer) - k + 1
      /\ \A j \in 1..(Len(buffer) - k + 1) : buffer'[j] = buffer[k + j - 1]
  BY <1>1, Suffix
<1>4. Position' = Position + k - 1
  BY <1>1, <1>3 DEF Position
<1>5. Types'
  BY <1>1, <1>2, <1>3 DEF Inv, Types
<1>6. Counted'
  BY <1>1, <1>2, <1>3 DEF Inv, Counted
<1>7. InStream'
  <2> SUFFICES ASSUME ~dropped, NEW j \in 1..Len(buffer')
               PROVE  buffer'[j] = input[Position' + j - 1]
    BY DEF InStream
  <2>1. k + j - 1 \in 1..Len(buffer) /\ Position + (k + j - 1) - 1 = Position' + j - 1
        /\ j \in 1..(Len(buffer) - k + 1)
    BY <1>1, <1>3, <1>4
  <2> QED
    BY <1>3, <2>1 DEF Inv, InStream
<1>8. Pending' = Position'
  <2>1. Position' \in Int
    BY <1>1, <1>4
  <2>2. Pending' = Position' + 0
    BY <1>1, <1>2, Zenon DEF Pending
  <2>3. \A i \in Int : i + 0 = i
    OBVIOUS
  <2> QED
    BY <2>1, <2>2, <2>3, Zenon
<1>9. Parsed'
  <2>1. \A m : Prefix(m)' = Prefix(m)
    BY DEF Prefix
  <2> QED
    BY <1>4, <1>8, <2>1 DEF Parsed
<1> QED
  BY <1>2, <1>5, <1>6, <1>7, <1>9 DEF Inv, AtRest

\* A byte is dropped in front of a frame, or appended: the buffer has room for it.
LEMMA TakeByteStep == ASSUME Inv, january, Bytewise!TakeByte PROVE Inv'
<1> USE JanuaryTypes
<1>1. UNCHANGED <<input, handled, dropped, frameLen, step, current, resets, driver>>
      /\ driver = "january" /\ taken' = taken + 1 /\ taken < Len(input)
  BY DEF Bytewise!TakeByte, january, juneVars
<1> DEFINE b == input[taken + 1]
<1>2. b \in Byte
  BY <1>1
<1>3. \A m : Prefix(m)' = Prefix(m)
  BY <1>1 DEF Prefix
<1>4. CASE buffer = << >> /\ b # START
  <2>1. UNCHANGED <<buffer, overflow>>
    BY <1>4 DEF Bytewise!TakeByte, Bytewise!START, START
  <2>2. Position = taken + 1 /\ Position' = taken + 2
    <3>1. Len(buffer) = 0
      BY <1>4
    <3> QED
      BY <1>1, <2>1, <3>1 DEF Position
  <2>3. Types' /\ Counted' /\ InStream'
    <3>1. Len(buffer) = 0
      BY <1>4
    <3>2. Types'
      BY <1>1, <2>1 DEF Inv, Types
    <3>3. Counted'
      BY <1>1, <2>1 DEF Inv, Counted
    <3> QED
      BY <2>1, <3>1, <3>2, <3>3 DEF InStream
  <2>4. ASSUME ~dropped, NEW m \in (taken + 1)..Len(input)
        PROVE  From(Prefix(m))[taken + 1] = From(Prefix(m))[taken + 2]
    <3> DEFINE s == Prefix(m)
               c == << b >>
    <3>1. s \in Seq(Byte) /\ Len(s) = m /\ \A i \in 1..m : s[i] = input[i]
      <4>1. m \in 0..Len(input) /\ input \in Streams
        BY DEF Inv, Types
      <4> QED
        BY <4>1, PrefixType
    <3>2. c \in Seq(Byte) /\ Len(c) = 1 /\ c # << >> /\ c[1] = b
      BY <1>2
    <3> HIDE DEF s, c, b
    <3>3. taken + 1 \in 1..(m + 1) /\ taken + 1 + 1 <= m + 1 /\ taken + 1 \in 1..m
          /\ \A j \in 1..1 : j = 1 /\ taken + 1 + j - 1 = taken + 1
      OBVIOUS
    <3>4. s[taken + 1] = b
      BY <3>1, <3>3 DEF b
    <3>5. Placed(c, s, taken + 1)
      BY <3>1, <3>2, <3>3, <3>4 DEF Placed
    <3>6. From(s)[taken + 1] = From(s)[taken + 1 + 1]
      BY <1>4, <3>1, <3>2, <3>5, SkipByte
    <3>7. taken + 1 + 1 = taken + 2
      OBVIOUS
    <3> QED
      BY <3>6, <3>7 DEF s
  <2>5. Pending = taken + 1 /\ Pending' = taken + 2
    <3>1. Pending' = Position' + 0
      BY <1>1, Zenon DEF Pending
    <3> QED
      BY <2>2, <3>1
  <2>6. Parsed'
    <3>1. (taken + 1)..Len(input) \subseteq taken..Len(input)
      OBVIOUS
    <3> QED
      BY <1>1, <1>3, <2>4, <2>5, <3>1 DEF Inv, Parsed
  <2> QED
    BY <1>1, <2>3, <2>6 DEF Inv, AtRest
<1>5. CASE ~(buffer = << >> /\ b # START)
  <2>1. Len(buffer) < BufferSize
    <3>1. ~Bytewise!LoopRuns
      BY DEF Bytewise!TakeByte
    <3>2. Len(buffer) < 3 \/ (FrameLen(buffer, 1) <= BufferSize /\ ~(Len(buffer) >= FrameLen(buffer, 1)))
      BY <3>1, LoopRunsIs
    <3>3. ~(Len(buffer) < 3) => FrameLen(buffer, 1) \in Nat
      BY FrameLenType
    <3> QED
      BY <3>2, <3>3
  <2>2. buffer' = Append(buffer, b) /\ UNCHANGED overflow
    BY <1>5, <2>1 DEF Bytewise!TakeByte, Bytewise!START, START
  <2> HIDE DEF b
  <2>3. /\ buffer' \in Seq(Byte) /\ Len(buffer') = Len(buffer) + 1
        /\ \A i \in 1..Len(buffer) : buffer'[i] = buffer[i]
        /\ buffer'[Len(buffer) + 1] = b
    BY <1>2, <2>2, AppendProperties
  <2>4. Position' = Position
    BY <1>1, <2>3 DEF Position
  <2>5. Types'
    BY <1>1, <2>2, <2>3 DEF Inv, Types
  <2>6. Counted'
    BY <1>1, <2>1, <2>2, <2>3 DEF Inv, Counted
  <2>7. InStream'
    <3> SUFFICES ASSUME ~dropped, NEW j \in 1..(Len(buffer) + 1)
                 PROVE  buffer'[j] = input[Position + j - 1]
      BY <1>1, <2>3, <2>4 DEF InStream
    <3>1. CASE j \in 1..Len(buffer)
      BY <2>3, <3>1 DEF Inv, InStream
    <3>2. CASE j = Len(buffer) + 1
      <4>1. Position + j - 1 = taken + 1
        BY <3>2 DEF Position
      <4> QED
        BY <2>3, <3>2, <4>1 DEF b
    <3> QED
      BY <3>1, <3>2
  <2>8. Pending' = Pending
    <3>1. Pending' = Position' + 0
      BY <1>1, Zenon DEF Pending
    <3> QED
      BY <2>4, <3>1
  <2>9. Parsed'
    <3>1. (taken + 1)..Len(input) \subseteq taken..Len(input)
      OBVIOUS
    <3> QED
      BY <1>1, <1>3, <2>8, <3>1 DEF Inv, Parsed
  <2> QED
    BY <1>1, <2>5, <2>6, <2>7, <2>9 DEF Inv, AtRest
<1> QED
  BY <1>4, <1>5

\* Garbage, or the start byte of a frame that ends badly, goes.
LEMMA ResyncStep == ASSUME Inv, january, Bytewise!Resync PROVE Inv'
<1> USE JanuaryTypes
<1>1. UNCHANGED <<input, taken, handled, dropped, overflow>> /\ buffer' = Tail(buffer)
      /\ Bytewise!LoopRuns
  BY DEF Bytewise!Resync
<1>2. Len(buffer) >= 3 /\ buffer # << >> /\ 2 \in 1..(Len(buffer) + 1)
  <2>1. Len(buffer) >= 3
    BY <1>1, LoopRunsIs
  <2> QED
    BY <2>1
<1>3. \/ buffer[1] # START
      \/ /\ buffer[1] = START /\ FrameLen(buffer, 1) <= BufferSize
         /\ FrameLen(buffer, 1) <= Len(buffer) /\ ~WellEnded(buffer, 1)
  <2>1. \/ buffer[1] # START
        \/ /\ buffer[1] = START /\ FrameLen(buffer, 1) <= BufferSize
           /\ Len(buffer) >= FrameLen(buffer, 1) /\ ~WellEnded(buffer, 1)
    BY <1>1, LoopRunsIs, SameFrameLen, SameWellEnded, Zenon
    DEF Bytewise!Resync, Bytewise!START, START
  <2>2. FrameLen(buffer, 1) \in Nat
    BY <1>2, FrameLenType
  <2> QED
    BY <2>1, <2>2
<1>4. buffer' = SubSeq(buffer, 2, Len(buffer))
  <2> DEFINE c == Tail(buffer)
             d == SubSeq(buffer, 2, Len(buffer))
  <2>1. c \in Seq(Byte) /\ Len(c) = Len(buffer) - 1 /\ \A i \in 1..Len(c) : c[i] = buffer[i + 1]
    BY <1>2, HeadTailProperties
  <2>2. /\ d \in Seq(Byte) /\ Len(d) = Len(buffer) - 2 + 1
        /\ \A j \in 1..(Len(buffer) - 2 + 1) : d[j] = buffer[2 + j - 1]
    BY <1>2, Suffix
  <2> HIDE DEF c, d
  <2>3. Len(c) = Len(d) /\ \A i \in 1..Len(c) : /\ i \in 1..(Len(buffer) - 2 + 1)
                                                 /\ 2 + i - 1 = i + 1
    BY <2>1, <2>2
  <2>4. \A i \in 1..Len(c) : c[i] = d[i]
    BY <2>1, <2>2, <2>3
  <2>5. c = d
    BY <2>1, <2>2, <2>3, <2>4, SeqEqual
  <2> QED
    BY <1>1, <2>5 DEF c, d
<1>5. ASSUME ~dropped, NEW m \in taken..Len(input)
      PROVE  FramesOf(Prefix(m)) = handled' \o From(Prefix(m))[Position + 2 - 1]
  <2>1. Prefix(m) \in Seq(Byte) /\ Placed(buffer, Prefix(m), Position)
    BY <1>5, InPrefix DEF Inv
  <2>2. From(Prefix(m))[Position] = From(Prefix(m))[Position + 1]
    BY <1>2, <1>3, <2>1, SkipByte, SkipStart
  <2>3. FramesOf(Prefix(m)) = handled \o From(Prefix(m))[Position]
    BY <1>5 DEF Inv, Parsed
  <2>4. Position + 2 - 1 = Position + 1
    OBVIOUS
  <2> QED
    BY <1>1, <2>2, <2>3, <2>4
<1>6. handled' \in Seq(Seq(Byte)) /\ \A i \in 1..Len(handled') : Frame(handled'[i])
  BY <1>1 DEF Inv, Types
<1> QED
  BY <1>1, <1>2, <1>4, <1>5, <1>6, CutStep

\* A header that announces too much goes: when more was buffered, that is counted.
LEMMA OversizeStep == ASSUME Inv, january, Bytewise!Oversize PROVE Inv'
<1> USE JanuaryTypes
<1>1. /\ UNCHANGED <<input, taken, handled, overflow>> /\ buffer' = << >>
      /\ dropped' = (dropped \/ Len(buffer) > 3)
      /\ Len(buffer) >= 3 /\ buffer[1] = START /\ FrameLen(buffer, 1) > BufferSize
  BY LoopRunsIs, SameFrameLen, Zenon DEF Bytewise!Oversize, Bytewise!START, START
<1>2. << >> \in Seq(Byte) /\ Len(<< >>) = 0
  OBVIOUS
<1>3. handled' \in Seq(Seq(Byte)) /\ \A i \in 1..Len(handled') : Frame(handled'[i])
  BY <1>1 DEF Inv, Types
<1>4. CASE dropped'
  <2>1. UNCHANGED <<frameLen, step, current, resets, driver>> /\ driver = "january"
    BY DEF january, juneVars
  <2>2. Types'
    BY <1>1, <1>2, <1>3, <2>1, <1>4 DEF Inv, Types
  <2>3. Counted'
    BY <1>1, <1>2, <2>1 DEF Inv, Counted
  <2> QED
    BY <1>4, <2>2, <2>3 DEF Inv, InStream, Parsed, AtRest
<1>5. CASE ~dropped'
  <2>1. Len(buffer) = 3 /\ ~dropped /\ 4 \in 1..(Len(buffer) + 1)
    <3>1. ~dropped /\ ~(Len(buffer) > 3) /\ Len(buffer) >= 3
      BY <1>1, <1>5, Zenon
    <3>2. Len(buffer) \in Nat
      OBVIOUS
    <3>3. Len(buffer) = 3 /\ 4 \in 1..(Len(buffer) + 1)
      <4>1. \A i \in Nat : i >= 3 /\ ~(i > 3) => i = 3 /\ 4 \in 1..(i + 1)
        OBVIOUS
      <4> QED
        BY <3>1, <3>2, <4>1, Zenon
    <3> QED
      BY <3>1, <3>3, Zenon
  <2>2. dropped' = dropped
    BY <1>1, <1>5, <2>1 DEF Inv, Types
  <2>3. buffer' = SubSeq(buffer, 4, Len(buffer))
    <3>1. SubSeq(buffer, 4, 3) = << >>
      BY SubSeqEmpty
    <3> QED
      BY <1>1, <2>1, <3>1
  <2>4. ASSUME NEW m \in taken..Len(input)
        PROVE  FramesOf(Prefix(m)) = handled' \o From(Prefix(m))[Position + 4 - 1]
    <3>1. Prefix(m) \in Seq(Byte) /\ Placed(buffer, Prefix(m), Position)
      BY <2>1, InPrefix DEF Inv
    <3>2. From(Prefix(m))[Position] = From(Prefix(m))[Position + 3]
      BY <1>1, <3>1, SkipHeader
    <3>3. FramesOf(Prefix(m)) = handled \o From(Prefix(m))[Position]
      BY <2>1 DEF Inv, Parsed
    <3>4. Position + 4 - 1 = Position + 3
      OBVIOUS
    <3> QED
      BY <1>1, <3>2, <3>3, <3>4
  <2> QED
    BY <1>1, <1>3, <2>1, <2>2, <2>3, <2>4, CutStep
<1> QED
  BY <1>4, <1>5

\* A complete frame is handed over and goes.
LEMMA CompleteStep == ASSUME Inv, january, Bytewise!Complete PROVE Inv'
<1> USE JanuaryTypes
<1> DEFINE n == FrameLen(buffer, 1)
           f == SubSeq(buffer, 1, n)
<1>1. /\ UNCHANGED <<input, taken, dropped, overflow>>
      /\ handled' = Append(handled, f) /\ buffer' = SubSeq(buffer, n + 1, Len(buffer))
      /\ Len(buffer) >= 3 /\ buffer[1] = START /\ n <= BufferSize /\ Len(buffer) >= n
      /\ WellEnded(buffer, 1)
  BY LoopRunsIs, SameFrameLen, SameWellEnded, Zenon DEF Bytewise!Complete, Bytewise!START, START
<1>2. n \in Nat /\ n >= 5
  BY <1>1, FrameLenType
<1> HIDE DEF n
<1>3. Len(buffer) >= 5 /\ n <= Len(buffer) /\ n + 1 \in 1..(Len(buffer) + 1)
  BY <1>1, <1>2
<1>4. Frame(f) /\ Types
  BY <1>1, <1>3, CutFrame DEF n, Inv
<1> HIDE DEF f
<1>5. << >> \in Seq(Seq(Byte))
  OBVIOUS
<1>6. handled' \in Seq(Seq(Byte)) /\ \A i \in 1..Len(handled') : Frame(handled'[i])
  BY <1>1, <1>4, <1>5, OneMore, Zenon
<1>7. ASSUME ~dropped, NEW m \in taken..Len(input)
      PROVE  FramesOf(Prefix(m)) = handled' \o From(Prefix(m))[Position + (n + 1) - 1]
  <2> DEFINE s == Prefix(m)
             r == From(s)[Position + n]
  <2>1. s \in Seq(Byte) /\ Len(s) = m /\ Placed(buffer, s, Position)
    BY <1>7, InPrefix DEF Inv
  <2>2. From(s)[Position] = << f >> \o r
    BY <1>1, <1>3, <2>1, FrameFound DEF n, f
  <2>3. Position + n \in 1..(Len(s) + 1)
    BY <1>2, <1>3, <2>1 DEF Placed
  <2>4. r \in Seq(Seq(Byte))
    BY <2>1, <2>3, FromType
  <2>5. FramesOf(s) = handled \o From(s)[Position]
    BY <1>7 DEF Inv, Parsed
  <2>6. Position + (n + 1) - 1 = Position + n
    BY <1>2
  <2> HIDE DEF r
  <2>7. handled \o (<< f >> \o r) = handled' \o r
    BY <1>1, <1>4, <2>4, OneMore, Zenon
  <2> QED
    BY <2>2, <2>5, <2>6, <2>7 DEF r
<1> QED
  BY <1>1, <1>3, <1>6, <1>7, CutStep

-----------------------------------------------------------------------------
(* The theorems *)

\* A stream is about to arrive: what it contains is all that is left to handle.
LEMMA InvInit == ReceiversInit => Inv
<1> SUFFICES ASSUME ReceiversInit PROVE Inv
  OBVIOUS
<1>1. /\ input \in Streams /\ taken = 0 /\ buffer = << >> /\ frameLen = 0 /\ step = "idle"
      /\ current = << >> /\ handled = << >> /\ dropped = FALSE /\ resets = 0
      /\ overflow = FALSE /\ driver \in {"june", "january"}
  BY DEF ReceiversInit, FrameInit
<1>2. /\ << >> \in Seq(Byte) /\ << >> \in Seq(Seq(Byte)) /\ Len(<< >>) = 0
      /\ input \in Seq(Byte) /\ Len(input) \in Nat
      /\ BufferSize \in Nat /\ SizeModulus \in Nat /\ SizeModulus > 0 /\ Resets \in Nat
  BY <1>1, InputType, WireAssumption, FrameAssumption DEF WireAssumption, FrameAssumption
<1>3. Types /\ Counted /\ InStream
  <2>1. handled \in Seq(Seq(Byte)) /\ Len(handled) = 0
    BY <1>1, <1>2
  <2>2. \A k \in 1..Len(handled) : Frame(handled[k])
    BY <2>1
  <2>3. buffer \in Seq(Byte) /\ Len(buffer) = 0 /\ current \in Seq(Byte) /\ Len(current) = 0
    BY <1>1, <1>2
  <2>4. taken \in 0..Len(input) /\ frameLen \in 0..(SizeModulus - 1) /\ resets \in 0..Resets
    BY <1>1, <1>2
  <2>5. input \in Streams /\ step = "idle" /\ dropped = FALSE /\ overflow = FALSE
        /\ driver \in {"june", "january"} /\ frameLen = 0
    BY <1>1
  <2>6. Types
    <3>1. Len(buffer) <= taken /\ Len(current) <= BufferSize
      BY <1>2, <2>3, <2>4
    <3>2. dropped \in BOOLEAN /\ overflow \in BOOLEAN
          /\ step \in {"idle", "loop", "handle", "consume"}
      BY <2>5
    <3> QED
      BY <2>1, <2>2, <2>3, <2>4, <2>5, <3>1, <3>2, Zenon DEF Types
  <2>7. Counted
    BY <1>2, <2>3, <2>5 DEF Counted
  <2>8. InStream
    BY <2>3 DEF InStream
  <2> QED
    BY <2>6, <2>7, <2>8
<1>4. Position = 1 /\ Pending = 1
  <2>1. Position = 1
    BY <1>1, <1>2 DEF Position
  <2> QED
    BY <1>1, <2>1 DEF Pending
<1>5. Parsed
  <2> SUFFICES ASSUME NEW m \in 0..Len(input)
               PROVE  FramesOf(Prefix(m)) = << >> \o From(Prefix(m))[1]
    BY <1>1, <1>4 DEF Parsed
  <2>1. Prefix(m) \in Seq(Byte) /\ Len(Prefix(m)) = m
    BY <1>1, PrefixType
  <2>2. 1 \in 1..(m + 1)
    BY <1>2
  <2>3. From(Prefix(m))[1] \in Seq(Seq(Byte))
    BY <2>1, <2>2, FromType
  <2>4. << >> \o From(Prefix(m))[1] = From(Prefix(m))[1]
    BY <2>3, ConcatEmptySeq
  <2> QED
    BY <2>4, FramesOfFrom
<1>6. AtRest
  <2>1. Prefix(0) \in Seq(Byte) /\ Len(Prefix(0)) = 0
    BY <1>1, <1>2, PrefixType
  <2>2. From(Prefix(0))[1] = << >>
    BY <2>1, TooFew
  <2> QED
    BY <1>1, <1>4, <2>2 DEF AtRest
<1> QED
  BY <1>3, <1>5, <1>6 DEF Inv

allVars == <<frameVars, driver, overflow>>

\* No step of either receiver breaks it.
LEMMA InvStep == Inv /\ [ReceiversNext]_allVars => Inv'
<1> SUFFICES ASSUME Inv, [ReceiversNext]_allVars PROVE Inv'
  OBVIOUS
<1>1. CASE driver = "june" /\ FrameNext /\ UNCHANGED <<driver, overflow>>
  BY <1>1, JuneStep DEF june
<1>2. CASE driver = "january" /\ Bytewise!ByteNext /\ UNCHANGED <<driver, juneVars>>
  <2>1. january
    BY <1>2 DEF january
  <2> QED
    BY <1>2, <2>1, TakeByteStep, ResyncStep, OversizeStep, CompleteStep DEF Bytewise!ByteNext
<1>3. CASE UNCHANGED allVars
  BY <1>3 DEF allVars, frameVars, Inv, Types, Counted, Undisturbed, InStream, Parsed, Pending,
              Position, Prefix, AtRest
<1> QED
  BY <1>1, <1>2, <1>3 DEF ReceiversNext

\* So it always holds.
LEMMA Invariant == ReceiversSpec => []Inv
  BY InvInit, InvStep, PTL DEF ReceiversSpec, allVars

\* The types of both receivers, the June driver's when no transaction starts while its
\* callback runs: frame_len is the length of what is buffered, which fits
\* (20260630/aios_gpio.c:96-171, 20260124/aios_gpio.c:159-286).
THEOREM ReceiversTypes == ASSUME ~Racing PROVE ReceiversSpec => []ReceiversTypeOK
<1>1. ASSUME Inv PROVE ReceiversTypeOK
  <2>1. CASE driver = "june"
    <3>1. FrameTypeOK
      BY <1>1, <2>1 DEF Inv, Types, Counted, Undisturbed, FrameTypeOK
    <3> QED
      BY <2>1, <3>1 DEF ReceiversTypeOK
  <2>2. CASE driver = "january"
    <3>1. \A k \in 1..Len(handled) : Len(handled[k]) \in 5..BufferSize
      BY <1>1 DEF Inv, Types, Frame
    <3>2. Bytewise!ByteTypeOK
      BY <1>1, <2>2, <3>1 DEF Inv, Types, Counted, Bytewise!ByteTypeOK
    <3> QED
      BY <2>2, <3>2 DEF ReceiversTypeOK
  <2> QED
    BY <1>1, <2>1, <2>2 DEF Inv, Types
<1> QED
  BY <1>1, Invariant, PTL

\* Without such a transaction frame_len never exceeds frame_buffer, whatever arrives in
\* whatever chunks (20260630/aios_gpio.c:105-113).
THEOREM FrameLenStaysBounded == ASSUME ~Racing PROVE ReceiversSpec => []FrameLenBounded
<1>1. ASSUME Inv PROVE FrameLenBounded
  BY <1>1, WireAssumption DEF Inv, Types, Counted, Undisturbed, FrameLenBounded, WireAssumption
<1> QED
  BY <1>1, Invariant, PTL

\* With or without one, and whatever is thrown away, both drivers handle nothing but
\* well-formed frames (20260630/aios_gpio.c:137-159, 20260124/aios_gpio.c:216-250).
THEOREM OnlyFramesAreHandled == ReceiversSpec => []OnlyFramesHandled
<1>1. ASSUME Inv PROVE OnlyFramesHandled
  <2> SUFFICES ASSUME NEW k \in 1..Len(handled)
               PROVE  /\ handled[k][1] = START
                      /\ Len(handled[k]) = FrameLen(handled[k], 1)
                      /\ WellEnded(handled[k], 1)
    BY DEF OnlyFramesHandled
  <2> DEFINE f == handled[k]
  <2>1. Frame(f)
    BY <1>1 DEF Inv, Types
  <2> HIDE DEF f
  <2>2. 1 + Len(f) - 2 = Len(f) - 1 /\ 1 + Len(f) - 1 = Len(f)
    BY <2>1 DEF Frame
  <2>3. f[1] = START /\ Len(f) = FrameLen(f, 1) /\ WellEnded(f, 1)
    BY <2>1, <2>2 DEF Frame, WellEnded
  <2> QED
    BY <2>3 DEF f
<1> QED
  BY <1>1, Invariant, PTL

\* The frames the June driver handles are the reference's, for every stream and every
\* way to cut it into chunks, as long as nothing was thrown away
\* (20260630/aios_gpio.c:96-171).
THEOREM JuneFindsTheFrames == ReceiversSpec => []JuneChunksDoNotMatter
<1>1. ASSUME Inv PROVE JuneChunksDoNotMatter
  <2> SUFFICES ASSUME driver = "june", ~dropped, step = "idle"
               PROVE  handled = FramesOf(Prefix(taken))
    BY DEF JuneChunksDoNotMatter, ChunksDoNotMatter, Prefix
  <2>1. taken \in taken..Len(input) /\ Len(buffer) \in Nat /\ taken \in Nat
    BY <1>1, InputType DEF Inv, Types
  <2>2. Pending = Position
    BY <2>1 DEF Pending, Position
  <2>3. FramesOf(Prefix(taken)) = handled \o << >>
    BY <1>1, <2>1, <2>2 DEF Inv, Parsed, AtRest
  <2>4. handled \in Seq(Seq(Byte))
    BY <1>1 DEF Inv, Types
  <2> QED
    BY <2>3, <2>4, ConcatEmptySeq
<1> QED
  BY <1>1, Invariant, PTL

\* The January driver finds them too, after every byte, as long as an oversized header
\* cost no more than itself (20260124/aios_gpio.c:159-286).
THEOREM JanuaryFindsTheFrames == ReceiversSpec => []BytesMakeFrames
<1>1. ASSUME Inv PROVE BytesMakeFrames
  <2> SUFFICES ASSUME driver = "january", ~dropped, ~Bytewise!LoopRuns
               PROVE  handled = FramesOf(Prefix(taken))
    BY SameFrames, Zenon DEF BytesMakeFrames, Bytewise!BytesMakeFrames, Prefix
  <2>1. /\ taken \in taken..Len(input) /\ Len(buffer) \in Nat /\ taken \in Nat
        /\ buffer \in Seq(Byte) /\ Len(buffer) <= taken /\ step = "idle"
    BY <1>1, InputType DEF Inv, Types, Counted
  <2>2. Pending = Position /\ Position + Len(buffer) = taken + 1
    BY <2>1 DEF Pending, Position
  <2>3. FramesOf(Prefix(taken)) = handled \o From(Prefix(taken))[Position]
    BY <1>1, <2>1, <2>2 DEF Inv, Parsed
  <2>4. Prefix(taken) \in Seq(Byte) /\ Len(Prefix(taken)) = taken
        /\ Placed(buffer, Prefix(taken), Position)
    BY <1>1, <2>1, InPrefix DEF Inv
  <2>5. From(Prefix(taken))[Position] = << >>
    <3>1. CASE Len(buffer) < 3
      <4>1. Position \in 1..(taken + 1) /\ Position + 4 > taken
        BY <2>1, <3>1 DEF Position
      <4> QED
        BY <2>4, <4>1, TooFew
    <3>2. CASE Len(buffer) >= 3
      <4>1. buffer[1] = START /\ FrameLen(buffer, 1) <= BufferSize
            /\ ~(Len(buffer) >= FrameLen(buffer, 1))
        BY <3>2, LoopRunsIs, Zenon
      <4>2. FrameLen(buffer, 1) \in Nat
        BY <2>1, <3>2, FrameLenType
      <4>3. Len(buffer) < FrameLen(buffer, 1) /\ Position + Len(buffer) = Len(Prefix(taken)) + 1
        BY <2>1, <2>2, <2>4, <4>1, <4>2
      <4> QED
        BY <2>4, <3>2, <4>1, <4>3, Unfinished
    <3> QED
      BY <2>1, <3>1, <3>2
  <2>6. handled \in Seq(Seq(Byte))
    BY <1>1 DEF Inv, Types
  <2> QED
    BY <2>3, <2>5, <2>6, ConcatEmptySeq
<1> QED
  BY <1>1, Invariant, PTL

\* The January driver's overflow branch is dead code, for a buffer of any size
\* (20260124/aios_gpio.c:183-187).
THEOREM JanuaryNeverOverflows == ReceiversSpec => []NeverOverflows
<1>1. ASSUME Inv PROVE NeverOverflows
  BY <1>1 DEF Inv, Counted, NeverOverflows, Bytewise!NeverOverflows
<1> QED
  BY <1>1, Invariant, PTL
==============================================================================
