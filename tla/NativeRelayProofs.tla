-------------------------- MODULE NativeRelayProofs --------------------------
(***************************************************************************)
(* NativeRelay, for every block size, however the streams are cut into     *)
(* chunks and however many frames and blocks are sent.                     *)
(*                                                                         *)
(* The invariant says where everything is that was sent.  In each          *)
(* direction the buffer and what is in flight are one stream, and that     *)
(* stream is what is left of the messages of its sender when the first so  *)
(* many have been taken off (Carried); those that were taken were written  *)
(* (Reached) or, upwards, wait in the queue (Waits), and while the pair is *)
(* up none that was taken was badly padded (Unbroken).  The rest is        *)
(* arithmetic of block boundaries.                                         *)
(***************************************************************************)
EXTENDS NativeRelay, SequenceTheorems, FiniteSetTheorems, WellFoundedInduction, TLAPS

-----------------------------------------------------------------------------
(* Arithmetic of block boundaries.                                         *)

LEMMA Size == BlockSize \in Nat /\ BlockSize > 1
  BY RelayAssumption

LEMMA Times ==
  ASSUME NEW a \in Nat, NEW b \in Nat
  PROVE  /\ a * BlockSize \in Nat /\ (a + 1) * BlockSize = a * BlockSize + BlockSize
         /\ (a + b) * BlockSize = a * BlockSize + b * BlockSize
         /\ a < b => a * BlockSize + BlockSize <= b * BlockSize
         /\ 0 * BlockSize = 0
  BY RelayAssumption

\* The whole blocks of n units.
LEMMA Split ==
  ASSUME NEW n \in Nat
  PROVE  /\ n \div BlockSize \in Nat
         /\ (n \div BlockSize) * BlockSize <= n
         /\ n < (n \div BlockSize) * BlockSize + BlockSize
  BY RelayAssumption

LEMMA SplitWhole ==
  ASSUME NEW n \in Nat
  PROVE  (n * BlockSize) \div BlockSize = n
<1>1. PICK w \in Nat : w = (n * BlockSize) \div BlockSize
  BY Times, Split
<1>2. w * BlockSize <= n * BlockSize /\ n * BlockSize < w * BlockSize + BlockSize
  BY <1>1, Times, Split
<1>3. w < n => w * BlockSize + BlockSize <= n * BlockSize
  BY Times
<1>4. n < w => n * BlockSize + BlockSize <= w * BlockSize
  BY Times
<1> QED
  BY <1>1, <1>2, <1>3, <1>4, Times, Size

-----------------------------------------------------------------------------
(* What is cut off a sequence, and put together again.                     *)

LEMMA FromProperties ==
  ASSUME NEW S, NEW s \in Seq(S), NEW k \in 0 .. Len(s)
  PROVE  /\ From(s, k) \in Seq(S) /\ Len(From(s, k)) = Len(s) - k
         /\ \A i \in 1 .. Len(s) - k : From(s, k)[i] = s[k + i]
<1>1. Len(s) \in Nat /\ \A i \in 1 .. Len(s) : s[i] \in S
  BY LenProperties, ElementOfSeq
<1>2. k + 1 \in Int /\ Len(s) \in Int /\ \A i \in k + 1 .. Len(s) : s[i] \in S
  BY <1>1
<1>3. /\ SubSeq(s, k + 1, Len(s)) \in Seq(S)
      /\ Len(SubSeq(s, k + 1, Len(s))) = IF k + 1 <= Len(s) THEN Len(s) - (k + 1) + 1 ELSE 0
      /\ \A i \in 1 .. Len(s) - (k + 1) + 1 : SubSeq(s, k + 1, Len(s))[i] = s[k + 1 + i - 1]
  BY <1>2, SubSeqProperties
<1>4. From(s, k) = SubSeq(s, k + 1, Len(s))
  BY DEF From
<1> HIDE DEF From
<1>5. Len(From(s, k)) = Len(s) - k
  BY <1>1, <1>3, <1>4
<1>6. ASSUME NEW i \in 1 .. Len(s) - k PROVE From(s, k)[i] = s[k + i]
  <2>1. i \in 1 .. Len(s) - (k + 1) + 1 /\ k + 1 + i - 1 = k + i
    BY <1>1
  <2> QED
    BY <1>3, <1>4, <2>1
<1> QED
  BY <1>3, <1>4, <1>5, <1>6

LEMMA Joined ==
  ASSUME NEW S, NEW s \in Seq(S), NEW t \in Seq(S)
  PROVE  /\ s \o t \in Seq(S) /\ Len(s \o t) = Len(s) + Len(t)
         /\ \A i \in 1 .. Len(s) : (s \o t)[i] = s[i]
         /\ \A i \in 1 .. Len(t) : (s \o t)[Len(s) + i] = t[i]
<1>0. PICK a \in Nat, b \in Nat : a = Len(s) /\ b = Len(t)
  BY LenProperties
<1>1. /\ s \o t \in Seq(S) /\ Len(s \o t) = a + b
      /\ \A i \in 1 .. a + b : (s \o t)[i] = IF i <= a THEN s[i] ELSE t[i - a]
  BY <1>0, ConcatProperties
<1>2. ASSUME NEW i \in 1 .. b PROVE (s \o t)[a + i] = t[i]
  <2>1. a + i \in 1 .. a + b /\ a + i - a = i /\ ~(a + i <= a)
    OBVIOUS
  <2> QED
    BY <1>1, <2>1
<1> QED
  BY <1>0, <1>1, <1>2

LEMMA Associates ==
  ASSUME NEW S, NEW s \in Seq(S), NEW t \in Seq(S), NEW r \in Seq(S)
  PROVE  s \o (t \o r) = (s \o t) \o r
  BY ConcatAssociative

\* Two joins are the same when they agree on both parts.
LEMMA SameJoin ==
  ASSUME NEW S, NEW s \in Seq(S), NEW t \in Seq(S), NEW r \in Seq(S),
         Len(r) = Len(s) + Len(t), \A i \in 1 .. Len(s) : r[i] = s[i],
         \A i \in 1 .. Len(t) : r[Len(s) + i] = t[i]
  PROVE  r = s \o t
<1>0. PICK a \in Nat, b \in Nat : a = Len(s) /\ b = Len(t)
  BY LenProperties
<1>1. /\ s \o t \in Seq(S) /\ Len(s \o t) = a + b
      /\ \A i \in 1 .. a : (s \o t)[i] = s[i]
      /\ \A i \in 1 .. b : (s \o t)[a + i] = t[i]
  BY <1>0, Joined
<1>2. ASSUME NEW i \in 1 .. a + b PROVE r[i] = (s \o t)[i]
  <2>1. CASE i <= a
    BY <1>0, <1>1, <2>1
  <2>2. CASE i > a
    <3>1. PICK k \in 1 .. b : i = a + k
      <4>1. i - a \in 1 .. b /\ i = a + (i - a)
        BY <2>2
      <4> QED
        BY <4>1
    <3> QED
      BY <1>0, <1>1, <3>1
  <2> QED
    BY <1>0, <2>1, <2>2
<1> QED
  BY <1>0, <1>1, <1>2, SeqEqual

\* The front of a concatenation is cut off its first part.
LEMMA FromFirst ==
  ASSUME NEW S, NEW s \in Seq(S), NEW t \in Seq(S), NEW k \in 0 .. Len(s)
  PROVE  From(s \o t, k) = From(s, k) \o t
<1>1. PICK a \in Nat, b \in Nat : a = Len(s) - k /\ Len(s) = k + a /\ b = Len(t)
  BY LenProperties
<1>2. /\ s \o t \in Seq(S) /\ Len(s \o t) = k + a + b
      /\ \A i \in 1 .. k + a : (s \o t)[i] = s[i]
      /\ \A i \in 1 .. b : (s \o t)[k + a + i] = t[i]
  BY <1>1, Joined
<1> DEFINE l == From(s \o t, k)
           f == From(s, k)
<1>3. l \in Seq(S) /\ Len(l) = a + b /\ \A i \in 1 .. a + b : l[i] = (s \o t)[k + i]
  <2>1. PICK u \in Seq(S) : u = s \o t
    BY <1>2
  <2>2. k \in 0 .. Len(u) /\ Len(u) - k = a + b
    BY <1>1, <1>2, <2>1
  <2>3. From(u, k) \in Seq(S) /\ Len(From(u, k)) = a + b /\ \A i \in 1 .. a + b : From(u, k)[i] = u[k + i]
    BY <2>2, FromProperties
  <2> QED
    BY <2>1, <2>3
<1>4. f \in Seq(S) /\ Len(f) = a /\ \A i \in 1 .. a : f[i] = s[k + i]
  BY <1>1, FromProperties
<1> HIDE DEF f, l
<1>5. ASSUME NEW i \in 1 .. a PROVE l[i] = f[i]
  <2>1. i \in 1 .. a + b /\ k + i \in 1 .. k + a
    OBVIOUS
  <2> QED
    BY <1>2, <1>3, <1>4, <2>1
<1>6. ASSUME NEW i \in 1 .. b PROVE l[a + i] = t[i]
  <2>1. a + i \in 1 .. a + b /\ k + (a + i) = k + a + i
    OBVIOUS
  <2> QED
    BY <1>2, <1>3, <2>1
<1>7. l = f \o t
  <2>1. /\ Len(l) = Len(f) + Len(t) /\ \A i \in 1 .. Len(f) : l[i] = f[i]
        /\ \A i \in 1 .. Len(t) : l[Len(f) + i] = t[i]
    BY <1>1, <1>3, <1>4, <1>5, <1>6
  <2> QED
    BY <1>3, <1>4, <2>1, SameJoin
<1> QED
  BY <1>7 DEF l, f

-----------------------------------------------------------------------------
(* A stream of units.                                                      *)

Kind    == FrameKind \cup BlockKind
Unit    == [kind : Kind, nr : Nat, part : 1 .. BlockSize]
Message == [kind : Kind, nr : Nat]

\* Unit j of message m.
Part(m, j) == [kind |-> m.kind, nr |-> m.nr, part |-> j]

\* A chunk that goes from what is in flight to a buffer.
LEMMA Chunk ==
  ASSUME NEW s \in Seq(Unit), NEW t \in Seq(Unit), NEW n \in 1 .. Len(t)
  PROVE  /\ s \o SubSeq(t, 1, n) \in Seq(Unit) /\ From(t, n) \in Seq(Unit)
         /\ Len(s \o SubSeq(t, 1, n)) = Len(s) + n
         /\ (s \o SubSeq(t, 1, n)) \o From(t, n) = s \o t
<1>1. PICK a \in Nat, c \in Nat : a = Len(s) /\ c = Len(t) - n /\ Len(t) = n + c
  BY LenProperties
<1>2. 1 \in Int /\ n \in Int /\ \A i \in 1 .. n : t[i] \in Unit
  BY <1>1, ElementOfSeq
<1> DEFINE b == SubSeq(t, 1, n)
           r == From(t, n)
<1>3. b \in Seq(Unit) /\ Len(b) = n /\ \A i \in 1 .. n : b[i] = t[i]
  <2>1. /\ SubSeq(t, 1, n) \in Seq(Unit)
        /\ Len(SubSeq(t, 1, n)) = IF 1 <= n THEN n - 1 + 1 ELSE 0
        /\ \A i \in 1 .. n - 1 + 1 : SubSeq(t, 1, n)[i] = t[1 + i - 1]
    BY <1>2, SubSeqProperties
  <2>2. ASSUME NEW i \in 1 .. n PROVE b[i] = t[i]
    <3>1. i \in 1 .. n - 1 + 1 /\ 1 + i - 1 = i
      OBVIOUS
    <3> QED
      BY <2>1, <3>1
  <2> QED
    BY <2>1, <2>2
<1>4. r \in Seq(Unit) /\ Len(r) = c /\ \A i \in 1 .. c : r[i] = t[n + i]
  <2>1. n \in 0 .. Len(t)
    BY <1>1
  <2> QED
    BY <1>1, <2>1, FromProperties
<1> HIDE DEF b, r
<1>5. n \in Nat /\ t \in Seq(Unit) /\ Len(t) = n + c
  BY <1>1
<1>6. t = b \o r
  <2>1. /\ Len(t) = Len(b) + Len(r) /\ \A i \in 1 .. Len(b) : t[i] = b[i]
        /\ \A i \in 1 .. Len(r) : t[Len(b) + i] = r[i]
    BY <1>3, <1>4, <1>5
  <2> QED
    BY <1>3, <1>4, <2>1, SameJoin
<1>7. /\ s \o b \in Seq(Unit) /\ Len(s \o b) = Len(s) + n
  BY <1>3, Joined
<1>8. s \o (b \o r) = (s \o b) \o r
  <2>1. b \in Seq(Unit)
    BY <1>3
  <2>2. r \in Seq(Unit)
    BY <1>4
  <2> QED
    BY <2>1, <2>2, Associates, SMTT(30)
<1> QED
  BY <1>4, <1>6, <1>7, <1>8 DEF b, r

\* s is what is left of the messages M when the first p have been taken off.
Carried(s, M, p) ==
  /\ s \in Seq(Unit) /\ M \in Seq(Message) /\ p \in 0 .. Len(M)
  /\ Len(s) = (Len(M) - p) * BlockSize
  /\ \A m \in 1 .. Len(M) - p, j \in 1 .. BlockSize :
       s[(m - 1) * BlockSize + j] = Part(M[p + m], j)

\* Where the units of the m-th of n messages are.
LEMMA Slot ==
  ASSUME NEW n \in Nat, NEW m \in 1 .. n, NEW j \in 1 .. BlockSize
  PROVE  /\ m - 1 \in Nat /\ (m - 1) * BlockSize \in Nat
         /\ (m - 1) * BlockSize + j \in 1 .. n * BlockSize
         /\ m * BlockSize = (m - 1) * BlockSize + BlockSize
<1>1. PICK k \in Nat : m = k + 1
  <2>1. m - 1 \in Nat /\ m = (m - 1) + 1
    OBVIOUS
  <2> QED
    BY <2>1
<1>2. /\ k * BlockSize \in Nat /\ (k + 1) * BlockSize = k * BlockSize + BlockSize
      /\ k < n => k * BlockSize + BlockSize <= n * BlockSize
      /\ n * BlockSize \in Nat
  BY Times
<1>3. k < n /\ m - 1 = k
  BY <1>1
<1> QED
  BY <1>1, <1>2, <1>3, Size

LEMMA UnitsAre ==
  ASSUME NEW m \in Message
  PROVE  /\ Units(m.kind, m.nr) \in Seq(Unit) /\ Len(Units(m.kind, m.nr)) = BlockSize
         /\ \A j \in 1 .. BlockSize : Units(m.kind, m.nr)[j] = Part(m, j)
<1> DEFINE u == Units(m.kind, m.nr)
<1>1. u = [j \in 1 .. BlockSize |-> Part(m, j)]
  BY DEF Units, Part
<1>2. \A j \in 1 .. BlockSize : Part(m, j) \in Unit
  BY DEF Part, Unit, Message
<1> HIDE DEF u
<1>3. u \in [1 .. BlockSize -> Unit]
  BY <1>1, <1>2
<1>4. u \in Seq(Unit)
  BY <1>3, Size, SeqDef
<1>5. Len(u) = BlockSize
  BY <1>3, <1>4, Size, LenProperties
<1> QED
  BY <1>1, <1>4, <1>5 DEF u

\* One more message.
LEMMA CarriedMore ==
  ASSUME NEW s, NEW M, NEW p, Carried(s, M, p), NEW x \in Message
  PROVE  Carried(s \o Units(x.kind, x.nr), Append(M, x), p)
<1> DEFINE u == Units(x.kind, x.nr)
           N == Append(M, x)
<1>1. /\ s \in Seq(Unit) /\ M \in Seq(Message) /\ p \in 0 .. Len(M)
      /\ Len(s) = (Len(M) - p) * BlockSize
      /\ \A m \in 1 .. Len(M) - p, j \in 1 .. BlockSize :
           s[(m - 1) * BlockSize + j] = Part(M[p + m], j)
  BY DEF Carried
<1>2. PICK r \in Nat : r = Len(M) - p /\ Len(M) = p + r /\ p \in Nat
  BY <1>1, LenProperties
<1>3. u \in Seq(Unit) /\ Len(u) = BlockSize /\ \A j \in 1 .. BlockSize : u[j] = Part(x, j)
  BY UnitsAre
<1>4. /\ N \in Seq(Message) /\ Len(N) = p + (r + 1) /\ N[p + (r + 1)] = x
      /\ \A i \in 1 .. p + r : N[i] = M[i]
  BY <1>1, <1>2, AppendProperties
<1>5. /\ s \o u \in Seq(Unit) /\ Len(s \o u) = r * BlockSize + BlockSize
      /\ \A i \in 1 .. r * BlockSize : (s \o u)[i] = s[i]
      /\ \A i \in 1 .. BlockSize : (s \o u)[r * BlockSize + i] = u[i]
  <2>1. Len(s) = r * BlockSize
    BY <1>1, <1>2
  <2>2. s \in Seq(Unit) /\ u \in Seq(Unit)
    BY <1>1, <1>3
  <2>3. /\ s \o u \in Seq(Unit) /\ Len(s \o u) = Len(s) + Len(u)
        /\ \A i \in 1 .. Len(s) : (s \o u)[i] = s[i]
        /\ \A i \in 1 .. Len(u) : (s \o u)[Len(s) + i] = u[i]
    BY <2>2, Joined
  <2> QED
    BY <1>3, <2>1, <2>3
<1> HIDE DEF u, N
<1>6. (r + 1) * BlockSize = r * BlockSize + BlockSize
  BY Times
<1>7. ASSUME NEW m \in 1 .. r + 1, NEW j \in 1 .. BlockSize
      PROVE  (s \o u)[(m - 1) * BlockSize + j] = Part(N[p + m], j)
  <2>1. CASE m = r + 1
    <3>1. m - 1 = r
      BY <2>1
    <3> QED
      BY <1>3, <1>4, <1>5, <2>1, <3>1
  <2>2. CASE m # r + 1
    <3>1. m \in 1 .. r /\ p + m \in 1 .. p + r
      BY <1>2, <2>2
    <3>2. (m - 1) * BlockSize + j \in 1 .. r * BlockSize
      BY <3>1, Slot
    <3> QED
      BY <1>1, <1>2, <1>4, <1>5, <3>1, <3>2
  <2> QED
    BY <2>1, <2>2
<1>8. Len(N) - p = r + 1 /\ p \in 0 .. Len(N)
  BY <1>2, <1>4
<1>9. Carried(s \o u, N, p)
  BY <1>4, <1>5, <1>6, <1>7, <1>8 DEF Carried
<1> QED
  BY <1>9 DEF u, N

\* The first c of the messages are taken off.
LEMMA CarriedLess ==
  ASSUME NEW s, NEW M, NEW p, Carried(s, M, p), NEW c \in 0 .. Len(M) - p
  PROVE  Carried(From(s, c * BlockSize), M, p + c)
<1> DEFINE k == c * BlockSize
<1>1. /\ s \in Seq(Unit) /\ M \in Seq(Message) /\ p \in 0 .. Len(M)
      /\ Len(s) = (Len(M) - p) * BlockSize
      /\ \A m \in 1 .. Len(M) - p, j \in 1 .. BlockSize :
           s[(m - 1) * BlockSize + j] = Part(M[p + m], j)
  BY DEF Carried
<1>2. PICK r \in Nat : Len(M) = (p + c) + r /\ p \in Nat /\ Len(M) - p = c + r
  <2>1. PICK n \in Nat : n = Len(M)
    BY <1>1, LenProperties
  <2>2. (n - p) - c \in Nat /\ n = (p + c) + ((n - p) - c) /\ n - p = c + ((n - p) - c) /\ p \in Nat
    BY <1>1, <2>1
  <2> QED
    BY <2>1, <2>2
<1>3. Len(s) = k + r * BlockSize /\ k \in Nat /\ r * BlockSize \in Nat
  <2>1. (c + r) * BlockSize = c * BlockSize + r * BlockSize /\ c * BlockSize \in Nat /\ r * BlockSize \in Nat
    <3>1. c \in Nat
      BY <1>2
    <3> QED
      BY <3>1, Times
  <2> QED
    BY <1>1, <1>2, <2>1
<1> HIDE DEF k
<1>4. /\ From(s, k) \in Seq(Unit) /\ Len(From(s, k)) = r * BlockSize
      /\ \A i \in 1 .. r * BlockSize : From(s, k)[i] = s[k + i]
  <2>1. k \in 0 .. Len(s) /\ Len(s) - k = r * BlockSize
    BY <1>3
  <2> QED
    BY <1>1, <2>1, FromProperties
<1>5. ASSUME NEW m \in 1 .. r, NEW j \in 1 .. BlockSize
      PROVE  From(s, k)[(m - 1) * BlockSize + j] = Part(M[(p + c) + m], j)
  <2>1. (m - 1) * BlockSize + j \in 1 .. r * BlockSize
    BY Slot
  <2>2. From(s, k)[(m - 1) * BlockSize + j] = s[k + ((m - 1) * BlockSize + j)]
    BY <1>4, <2>1
  <2>3. c + m \in 1 .. c + r /\ p + (c + m) = (p + c) + m
    BY <1>2
  <2>4. ((c + m) - 1) * BlockSize + j = k + ((m - 1) * BlockSize + j)
    <3>1. PICK h \in Nat : h = m - 1 /\ (c + m) - 1 = c + h
      OBVIOUS
    <3>2. (c + h) * BlockSize = c * BlockSize + h * BlockSize /\ h * BlockSize \in Nat
      <4>1. c \in Nat
        BY <1>2
      <4> QED
        BY <4>1, Times
    <3> QED
      BY <1>3, <3>1, <3>2, Size DEF k
  <2>5. s[((c + m) - 1) * BlockSize + j] = Part(M[p + (c + m)], j)
    BY <1>1, <1>2, <2>3
  <2> QED
    BY <2>2, <2>3, <2>4, <2>5
<1>6. Len(M) - (p + c) = r /\ p + c \in 0 .. Len(M)
  BY <1>2
<1>7. Carried(From(s, k), M, p + c)
  BY <1>1, <1>4, <1>5, <1>6 DEF Carried
<1> QED
  BY <1>7 DEF k

\* What a buffer that the stream begins with holds: whole messages, and the
\* first unit of one more when there is a rest.
LEMMA CarriedCut ==
  ASSUME NEW b \in Seq(Unit), NEW t \in Seq(Unit), NEW M, NEW p, Carried(b \o t, M, p)
  PROVE  /\ Whole(b) \in 0 .. Len(M) - p
         /\ \A i \in 1 .. Whole(b) : /\ Cut(b, i)[1].kind = M[p + i].kind
                                     /\ Block(Cut(b, i)) = M[p + i]
         /\ Whole(b) * BlockSize \in 0 .. Len(b)
         /\ Len(b) < Whole(b) * BlockSize + BlockSize
         /\ \A i \in Nat \ {0} : (i - 1) * BlockSize < Len(b) =>
              /\ i \in 1 .. Len(M) - p
              /\ b[(i - 1) * BlockSize + 1].kind = M[p + i].kind
<1> DEFINE w == Whole(b)
           s == b \o t
<1>1. /\ s \in Seq(Unit) /\ M \in Seq(Message) /\ p \in 0 .. Len(M)
      /\ Len(s) = (Len(M) - p) * BlockSize
      /\ \A m \in 1 .. Len(M) - p, j \in 1 .. BlockSize :
           s[(m - 1) * BlockSize + j] = Part(M[p + m], j)
  BY DEF Carried
<1>2. /\ Len(s) = Len(b) + Len(t) /\ Len(b) \in Nat /\ Len(t) \in Nat
      /\ \A i \in 1 .. Len(b) : s[i] = b[i]
  BY Joined, LenProperties
<1> HIDE DEF s
<1>3. PICK r \in Nat : r = Len(M) - p /\ Len(M) = p + r /\ p \in Nat
  <2>1. PICK n \in Nat : n = Len(M)
    BY <1>1, LenProperties
  <2>2. n - p \in Nat /\ n = p + (n - p) /\ p \in Nat
    BY <1>1, <2>1
  <2> QED
    BY <2>1, <2>2
<1>4. w \in Nat /\ w * BlockSize \in 0 .. Len(b) /\ Len(b) < w * BlockSize + BlockSize
  <2>1. w = Len(b) \div BlockSize
    BY DEF Whole
  <2>2. w \in Nat /\ w * BlockSize <= Len(b) /\ Len(b) < w * BlockSize + BlockSize
    BY <1>2, <2>1, Split
  <2>3. w * BlockSize \in Nat
    BY <2>2, Times
  <2> QED
    BY <1>2, <2>2, <2>3
<1>5. Len(b) <= r * BlockSize /\ r * BlockSize \in Nat
  <2>1. r * BlockSize = Len(b) + Len(t)
    BY <1>1, <1>2, <1>3
  <2> QED
    BY <1>2, <2>1
<1>6. ASSUME NEW i \in Nat, i # 0, (i - 1) * BlockSize < Len(b)
      PROVE  i \in 1 .. r
  <2>1. PICK k \in Nat : k = i - 1 /\ i = k + 1
    <3>1. i - 1 \in Nat /\ i = (i - 1) + 1
      BY <1>6
    <3> QED
      BY <3>1
  <2>2. k * BlockSize < r * BlockSize /\ k * BlockSize \in Nat
    <3>1. k * BlockSize \in Nat
      BY Times
    <3>2. (i - 1) * BlockSize < Len(b) /\ i - 1 = k
      BY <1>6, <2>1
    <3> QED
      BY <1>2, <1>5, <3>1, <3>2
  <2>3. r < k => r * BlockSize + BlockSize <= k * BlockSize
    BY Times
  <2>4. r # k /\ ~(r < k)
    BY <1>5, <2>2, <2>3, Size
  <2> QED
    BY <2>1, <2>4
<1> HIDE DEF w
<1>7. w <= r
  <2>1. r < w => r * BlockSize + BlockSize <= w * BlockSize
    BY <1>4, Times
  <2>2. PICK x \in Nat, y \in Nat : x = r * BlockSize /\ y = w * BlockSize
    BY <1>4, <1>5
  <2>3. y <= Len(b) /\ Len(b) <= x /\ (r < w => x + BlockSize <= y)
    BY <1>4, <1>5, <2>1, <2>2
  <2> QED
    BY <1>2, <1>4, <2>3, Size
<1>8. ASSUME NEW i \in 1 .. w
      PROVE  Cut(b, i)[1].kind = M[p + i].kind /\ Block(Cut(b, i)) = M[p + i]
  <2>1. PICK k \in Nat : k = (i - 1) * BlockSize /\ i * BlockSize = k + BlockSize
    <3>1. (i - 1) * BlockSize \in Nat /\ i * BlockSize = (i - 1) * BlockSize + BlockSize
      <4>1. 1 \in 1 .. BlockSize
        BY Size
      <4> QED
        BY <1>4, <4>1, Slot
    <3> QED
      BY <3>1
  <2>2. k + BlockSize <= Len(b)
    <3>1. i < w => i * BlockSize + BlockSize <= w * BlockSize
      BY <1>4, Times
    <3>2. i \in Nat /\ (i < w \/ i = w)
      BY <1>4
    <3>3. PICK x \in Nat : x = w * BlockSize /\ x <= Len(b)
      BY <1>4
    <3>4. i < w => (k + BlockSize) + BlockSize <= x
      BY <2>1, <3>1, <3>3
    <3>5. i = w => k + BlockSize = x
      BY <2>1, <3>3
    <3> QED
      BY <1>2, <3>2, <3>3, <3>4, <3>5, Size
  <2>3. i \in 1 .. r /\ M[p + i] \in Message
    <3>1. i \in 1 .. r /\ p + i \in 1 .. Len(M)
      BY <1>3, <1>4, <1>7
    <3> QED
      BY <1>1, <3>1, ElementOfSeq
  <2>4. \A j \in 1 .. BlockSize : b[k + j] = Part(M[p + i], j)
    <3> SUFFICES ASSUME NEW j \in 1 .. BlockSize PROVE b[k + j] = Part(M[p + i], j)
      OBVIOUS
    <3>1. k + j \in 1 .. Len(b)
      BY <1>2, <2>2, Size
    <3> QED
      BY <1>1, <1>2, <1>3, <2>1, <2>3, <3>1
  <2>5. /\ Len(Cut(b, i)) = BlockSize /\ Cut(b, i) \in Seq(Unit)
        /\ \A j \in 1 .. BlockSize : Cut(b, i)[j] = b[k + j]
    <3>0. PICK l \in Nat : l = k + BlockSize /\ k + 1 <= l /\ k + 1 \in Int /\ l \in Int
      BY Size
    <3>1. \A j \in k + 1 .. l : b[j] \in Unit
      <4>1. \A j \in k + 1 .. l : j \in 1 .. Len(b)
        BY <1>2, <2>2, <3>0
      <4> QED
        BY <4>1, ElementOfSeq
    <3>2. Cut(b, i) = SubSeq(b, k + 1, l)
      BY <2>1, <3>0 DEF Cut
    <3>3. /\ SubSeq(b, k + 1, l) \in Seq(Unit)
          /\ Len(SubSeq(b, k + 1, l)) = IF k + 1 <= l THEN l - (k + 1) + 1 ELSE 0
          /\ \A j \in 1 .. l - (k + 1) + 1 : SubSeq(b, k + 1, l)[j] = b[k + 1 + j - 1]
      BY <3>0, <3>1, SubSeqProperties
    <3>4. Len(Cut(b, i)) = BlockSize
      BY <3>0, <3>2, <3>3, Size
    <3>5. ASSUME NEW j \in 1 .. BlockSize PROVE Cut(b, i)[j] = b[k + j]
      <4>1. j \in 1 .. l - (k + 1) + 1 /\ k + 1 + j - 1 = k + j
        BY <3>0, Size
      <4> QED
        BY <3>2, <3>3, <4>1
    <3> QED
      BY <3>2, <3>3, <3>4, <3>5
  <2> DEFINE c == Cut(b, i)
             x == M[p + i]
  <2>6. c \in Seq(Unit) /\ Len(c) = BlockSize /\ \A j \in 1 .. BlockSize : c[j] = Part(x, j)
    BY <2>4, <2>5
  <2>7. x \in Message
    BY <2>3
  <2> HIDE DEF c, x
  <2>8. c[1].kind = x.kind /\ c[1].nr = x.nr
    BY <2>6, Size DEF Part
  <2>9. c = Units(x.kind, x.nr)
    <3>1. /\ Units(x.kind, x.nr) \in Seq(Unit) /\ Len(Units(x.kind, x.nr)) = BlockSize
          /\ \A j \in 1 .. BlockSize : Units(x.kind, x.nr)[j] = Part(x, j)
      BY <2>7, UnitsAre
    <3> QED
      BY <2>6, <3>1, SeqEqual
  <2>10. Block(c) = x
    BY <2>7, <2>8, <2>9 DEF Block, Message
  <2> QED
    BY <2>8, <2>10 DEF c, x
<1>9. ASSUME NEW i \in Nat, i # 0, (i - 1) * BlockSize < Len(b)
      PROVE  b[(i - 1) * BlockSize + 1].kind = M[p + i].kind
  <2>1. i \in 1 .. r
    BY <1>6, <1>9
  <2>2. (i - 1) * BlockSize \in Nat
    BY <2>1, Slot, Size
  <2>3. (i - 1) * BlockSize + 1 \in 1 .. Len(b) /\ 1 \in 1 .. BlockSize
    BY <1>2, <1>9, <2>2, Size
  <2>4. b[(i - 1) * BlockSize + 1] = Part(M[p + i], 1)
    BY <1>1, <1>2, <1>3, <2>1, <2>3
  <2> QED
    BY <2>4 DEF Part
<1> QED
  BY <1>3, <1>4, <1>6, <1>7, <1>8, <1>9 DEF w

-----------------------------------------------------------------------------
(* Ranks and places.                                                       *)

\* A set of natural numbers that is not empty has a least element.
LEMMA LeastOf ==
  ASSUME NEW T, T \subseteq Nat, T # {}
  PROVE  \E x \in T : \A y \in T : x <= y
<1>1. PICK x \in T : \A y \in T : ~(<<y, x>> \in OpToRel(<, Nat))
  BY WFMin, NatLessThanWellFounded
<1> SUFFICES ASSUME NEW y \in T, y < x PROVE FALSE
  OBVIOUS
<1>2. <<y, x>> \in Nat \X Nat /\ <<y, x>>[1] = y /\ <<y, x>>[2] = x
  OBVIOUS
<1>3. <<y, x>> \in OpToRel(<, Nat)
  BY <1>2, Zenon DEF OpToRel
<1> QED
  BY <1>1, <1>3

\* The rank goes up by one at each position, from none to all.
LEMMA Ranks ==
  ASSUME NEW n \in Nat, NEW P, \A j \in P : j \in Nat /\ 1 <= j /\ j <= n
  PROVE  /\ IsFiniteSet(P) /\ Cardinality(P) \in 0 .. n
         /\ \A i \in Nat : Rank(P, i) \in Nat
         /\ Rank(P, 0) = 0 /\ Rank(P, n) = Cardinality(P)
         /\ \A i \in Nat : i + 1 \notin P => Rank(P, i + 1) = Rank(P, i)
         /\ \A i \in Nat : i + 1 \in P => Rank(P, i + 1) = Rank(P, i) + 1
         /\ \A i, j \in Nat : i <= j => Rank(P, i) <= Rank(P, j)
<1> DEFINE below(i) == {j \in P : j <= i}
<1>1. below(0) = {} /\ below(n) = P
  OBVIOUS
<1>2. \A i \in Nat : i + 1 \notin P => below(i + 1) = below(i)
  OBVIOUS
<1>3. \A i \in Nat : i + 1 \in P => below(i + 1) = below(i) \cup {i + 1} /\ i + 1 \notin below(i)
  OBVIOUS
<1>4. \A i, j \in Nat : i <= j => below(i) \in SUBSET below(j)
  OBVIOUS
<1>5. \A i : Rank(P, i) = Cardinality(below(i)) /\ below(i) \in SUBSET P
  BY DEF Rank
<1> HIDE DEF below
<1>6. IsFiniteSet(P) /\ Cardinality(P) \in 0 .. n
  <2>1. IsFiniteSet(1 .. n) /\ Cardinality(1 .. n) = n
    BY FS_Interval
  <2>2. P \in SUBSET (1 .. n)
    OBVIOUS
  <2>3. IsFiniteSet(P) /\ Cardinality(P) <= n
    BY <2>1, <2>2, FS_Subset
  <2>4. Cardinality(P) \in Nat
    BY <2>3, FS_CardinalityType
  <2> QED
    BY <2>3, <2>4
<1>7. \A i : IsFiniteSet(below(i)) /\ Cardinality(below(i)) \in Nat
  BY <1>5, <1>6, FS_Subset, FS_CardinalityType
<1>8. \A i \in Nat : i + 1 \in P => Cardinality(below(i + 1)) = Cardinality(below(i)) + 1
  <2> SUFFICES ASSUME NEW i \in Nat, i + 1 \in P
               PROVE  Cardinality(below(i + 1)) = Cardinality(below(i)) + 1
    OBVIOUS
  <2>1. below(i + 1) = below(i) \cup {i + 1} /\ i + 1 \notin below(i) /\ IsFiniteSet(below(i))
    BY <1>3, <1>7
  <2>2. Cardinality(below(i) \cup {i + 1}) = Cardinality(below(i)) + 1
    BY <2>1, FS_AddElement
  <2> QED
    BY <2>1, <2>2
<1>9. \A i, j \in Nat : i <= j => Cardinality(below(i)) <= Cardinality(below(j))
  <2> SUFFICES ASSUME NEW i \in Nat, NEW j \in Nat, i <= j
               PROVE  Cardinality(below(i)) <= Cardinality(below(j))
    OBVIOUS
  <2> QED
    BY <1>4, <1>7, FS_Subset
<1>10. Cardinality(below(0)) = 0
  BY <1>1, FS_EmptySet
<1> QED
  BY <1>1, <1>2, <1>5, <1>6, <1>7, <1>8, <1>9, <1>10

LEMMA RankAt ==
  ASSUME NEW n \in Nat, NEW P, \A j \in P : j \in Nat /\ 1 <= j /\ j <= n,
         NEW w \in Nat, w + 1 \in P
  PROVE  Rank(P, w) \in Nat /\ Rank(P, w + 1) = Rank(P, w) + 1
<1>1. /\ \A i \in Nat : Rank(P, i) \in Nat
      /\ \A i \in Nat : i + 1 \in P => Rank(P, i + 1) = Rank(P, i) + 1
  BY Ranks
<1> QED
  BY <1>1

\* There is a k-th position for every k.
LEMMA Places ==
  ASSUME NEW n \in Nat, NEW P, \A j \in P : j \in Nat /\ 1 <= j /\ j <= n,
         NEW k \in 1 .. Cardinality(P)
  PROVE  Place(P, k) \in P /\ Rank(P, Place(P, k)) = k
<1>0. /\ Cardinality(P) \in 0 .. n
      /\ \A i \in Nat : Rank(P, i) \in Nat
      /\ Rank(P, 0) = 0 /\ Rank(P, n) = Cardinality(P)
      /\ \A i \in Nat : i + 1 \notin P => Rank(P, i + 1) = Rank(P, i)
      /\ \A i \in Nat : i + 1 \in P => Rank(P, i + 1) = Rank(P, i) + 1
  BY Ranks
<1> SUFFICES \E i \in P : Rank(P, i) = k
  BY DEF Place
<1> DEFINE T == {i \in 0 .. n : Rank(P, i) >= k}
<1>1. T \subseteq Nat /\ n \in T
  BY <1>0
<1>2. PICK x \in T : \A y \in T : x <= y
  BY <1>1, LeastOf
<1>3. PICK w \in Nat : x = w + 1
  <2>1. x \in Nat /\ x # 0
    BY <1>2, <1>0
  <2>2. x - 1 \in Nat /\ x = (x - 1) + 1
    BY <2>1
  <2> QED
    BY <2>2
<1>4. Rank(P, w) \in Nat /\ Rank(P, w + 1) \in Nat
  BY <1>0
<1>5. w \in 0 .. n /\ w \notin T /\ w + 1 \in T
  BY <1>2, <1>3
<1>6. Rank(P, w) < k /\ Rank(P, w + 1) >= k
  BY <1>4, <1>5
<1>7. w + 1 \notin P => Rank(P, w + 1) = Rank(P, w)
  BY <1>0
<1>8. w + 1 \in P => Rank(P, w + 1) = Rank(P, w) + 1
  BY <1>0
<1> QED
  BY <1>4, <1>6, <1>7, <1>8

\* No two positions have one rank.
LEMMA RankOnce ==
  ASSUME NEW n \in Nat, NEW P, \A j \in P : j \in Nat /\ 1 <= j /\ j <= n,
         NEW f \in P, NEW g \in P, f < g
  PROVE  Rank(P, f) < Rank(P, g)
<1>1. PICK w \in Nat : g = w + 1 /\ f <= w /\ f \in Nat
  <2>1. g - 1 \in Nat /\ g = (g - 1) + 1 /\ f <= g - 1 /\ f \in Nat
    OBVIOUS
  <2> QED
    BY <2>1
<1>2. /\ Rank(P, w + 1) = Rank(P, w) + 1 /\ Rank(P, f) <= Rank(P, w)
      /\ Rank(P, w) \in Nat /\ Rank(P, f) \in Nat
  <2>1. /\ \A i \in Nat : Rank(P, i) \in Nat
        /\ \A i \in Nat : i + 1 \in P => Rank(P, i + 1) = Rank(P, i) + 1
        /\ \A i, j \in Nat : i <= j => Rank(P, i) <= Rank(P, j)
    BY Ranks
  <2> QED
    BY <1>1, <2>1
<1> QED
  BY <1>1, <1>2

\* Counting goes on where it was left off.
LEMMA RankGoesOn ==
  ASSUME NEW n \in Nat, NEW P, \A j \in P : j \in Nat /\ 1 <= j /\ j <= n,
         NEW p \in Nat, NEW c \in Nat, NEW i \in 0 .. c
  PROVE  Rank(P, p + i) = Rank(P, p) + Rank({j \in 1 .. c : p + j \in P}, i)
<1> DEFINE Q == {j \in 1 .. c : p + j \in P}
           T == {x \in 0 .. c : Rank(P, p + x) # Rank(P, p) + Rank(Q, x)}
<1>1. /\ \A x \in Nat : Rank(P, x) \in Nat
      /\ \A x \in Nat : x + 1 \notin P => Rank(P, x + 1) = Rank(P, x)
      /\ \A x \in Nat : x + 1 \in P => Rank(P, x + 1) = Rank(P, x) + 1
  BY Ranks
<1>2. /\ Rank(Q, 0) = 0 /\ \A x \in Nat : Rank(Q, x) \in Nat
      /\ \A x \in Nat : x + 1 \notin Q => Rank(Q, x + 1) = Rank(Q, x)
      /\ \A x \in Nat : x + 1 \in Q => Rank(Q, x + 1) = Rank(Q, x) + 1
  <2>1. \A j \in Q : j \in Nat /\ 1 <= j /\ j <= c
    OBVIOUS
  <2> HIDE DEF Q
  <2> QED
    BY <2>1, Ranks
<1> SUFFICES ASSUME T # {} PROVE FALSE
  OBVIOUS
<1>3. PICK x \in T : \A y \in T : x <= y
  <2>1. T \subseteq Nat
    OBVIOUS
  <2> QED
    BY <2>1, LeastOf
<1>4. x # 0
  <2>1. p + 0 = p /\ Rank(P, p) \in Nat
    BY <1>1
  <2> QED
    BY <1>2, <1>3, <2>1
<1>5. PICK w \in Nat : x = w + 1 /\ w \in 0 .. c /\ w + 1 \in 1 .. c
  <2>1. x - 1 \in Nat /\ x = (x - 1) + 1 /\ x - 1 \in 0 .. c /\ (x - 1) + 1 \in 1 .. c
    BY <1>3, <1>4
  <2> QED
    BY <2>1
<1>6. w \notin T /\ w + 1 \in T
  BY <1>3, <1>5
<1>7. Rank(P, p + w) = Rank(P, p) + Rank(Q, w) /\ Rank(P, p + (w + 1)) # Rank(P, p) + Rank(Q, w + 1)
  BY <1>5, <1>6
<1>8. p + (w + 1) = (p + w) + 1 /\ p + w \in Nat /\ ((w + 1) \in Q <=> (p + w) + 1 \in P)
  BY <1>5
<1> HIDE DEF Q
<1>9. Rank(P, p) \in Nat /\ Rank(Q, w) \in Nat
  BY <1>1, <1>2
<1> QED
  BY <1>1, <1>2, <1>7, <1>8, <1>9

-----------------------------------------------------------------------------
(* The messages of the two directions.                                     *)

FromBrowser(f) == [i \in 1 .. Len(f) |-> [kind |-> f[i], nr |-> Rank(Carrying(f), i)]]
FromServer(b)  == [i \in 1 .. Len(b) |-> [kind |-> b[i], nr |-> i]]

LEMMA CarryingPlaces ==
  ASSUME NEW f \in Seq(FrameKind)
  PROVE  /\ Len(f) \in Nat /\ \A j \in Carrying(f) : j \in Nat /\ 1 <= j /\ j <= Len(f)
         /\ Cardinality(Carrying(f)) \in 0 .. Len(f)
         /\ \A i \in Nat : Rank(Carrying(f), i) \in Nat
         /\ \A i \in 0 .. Len(f) : Rank(Carrying(f), i) <= Cardinality(Carrying(f))
<1>1. Len(f) \in Nat /\ \A j \in Carrying(f) : j \in Nat /\ 1 <= j /\ j <= Len(f)
  BY LenProperties DEF Carrying
<1>2. /\ Cardinality(Carrying(f)) \in 0 .. Len(f)
      /\ \A i \in Nat : Rank(Carrying(f), i) \in Nat
      /\ Rank(Carrying(f), Len(f)) = Cardinality(Carrying(f))
      /\ \A i, j \in Nat : i <= j => Rank(Carrying(f), i) <= Rank(Carrying(f), j)
  BY <1>1, Ranks
<1> QED
  BY <1>1, <1>2

\* One more frame.
LEMMA CarryingMore ==
  ASSUME NEW f \in Seq(FrameKind), NEW k \in FrameKind
  PROVE  LET g == Append(f, k) IN
         /\ g \in Seq(FrameKind) /\ Len(g) = Len(f) + 1
         /\ \A i \in 1 .. Len(f) : g[i] = f[i]
         /\ Carrying(f) \subseteq Carrying(g)
         /\ \A i \in Carrying(g) : i \in Carrying(f) \/ i = Len(f) + 1
         /\ \A i \in 0 .. Len(f) : Rank(Carrying(g), i) = Rank(Carrying(f), i)
         /\ Rank(Carrying(g), Len(f) + 1) = Cardinality(Carrying(g))
         /\ Cardinality(Carrying(f)) <= Cardinality(Carrying(g))
         /\ Len(f) + 1 \in Carrying(g) => Cardinality(Carrying(g)) = Cardinality(Carrying(f)) + 1
<1> DEFINE g == Append(f, k)
           P == Carrying(f)
           Q == Carrying(g)
<1>1. PICK n \in Nat : n = Len(f)
  BY LenProperties
<1>2. g \in Seq(FrameKind) /\ Len(g) = n + 1 /\ \A i \in 1 .. n : g[i] = f[i]
  BY <1>1, AppendProperties
<1> HIDE DEF g
<1>3. P = {i \in 1 .. n : f[i] \in Payload} /\ Q = {i \in 1 .. n + 1 : g[i] \in Payload}
  BY <1>1, <1>2 DEF Carrying
<1>4. P \subseteq Q /\ \A i \in Q : i \in P \/ i = n + 1
  BY <1>2, <1>3
<1>5. ASSUME NEW i \in 0 .. n PROVE Rank(Q, i) = Rank(P, i)
  <2>1. {j \in Q : j <= i} = {j \in P : j <= i}
    BY <1>3, <1>4
  <2> QED
    BY <2>1 DEF Rank
<1>6. /\ Rank(P, n) = Cardinality(P) /\ Rank(P, n) \in Nat
      /\ Rank(Q, n + 1) = Cardinality(Q) /\ Rank(Q, n) \in Nat
      /\ n + 1 \notin Q => Rank(Q, n + 1) = Rank(Q, n)
      /\ n + 1 \in Q => Rank(Q, n + 1) = Rank(Q, n) + 1
  <2>1. (\A j \in P : j \in Nat /\ 1 <= j /\ j <= n) /\ (\A j \in Q : j \in Nat /\ 1 <= j /\ j <= n + 1)
    BY <1>3
  <2>2. n + 1 \in Nat
    OBVIOUS
  <2> HIDE DEF P, Q
  <2>3. Rank(P, n) = Cardinality(P) /\ \A i \in Nat : Rank(P, i) \in Nat
    BY <2>1, Ranks
  <2>4. /\ Rank(Q, n + 1) = Cardinality(Q) /\ \A i \in Nat : Rank(Q, i) \in Nat
        /\ \A i \in Nat : i + 1 \notin Q => Rank(Q, i + 1) = Rank(Q, i)
        /\ \A i \in Nat : i + 1 \in Q => Rank(Q, i + 1) = Rank(Q, i) + 1
    BY <2>1, <2>2, Ranks
  <2> QED
    BY <2>3, <2>4
<1>7. Rank(Q, n) = Rank(P, n)
  BY <1>5
<1> HIDE DEF P, Q
<1>8. Cardinality(P) <= Cardinality(Q) /\ (n + 1 \in Q => Cardinality(Q) = Cardinality(P) + 1)
  BY <1>6, <1>7
<1> QED
  BY <1>1, <1>2, <1>4, <1>5, <1>6, <1>8 DEF g, P, Q

LEMMA FromBrowserMore ==
  ASSUME NEW f \in Seq(FrameKind), NEW k \in FrameKind
  PROVE  LET g == Append(f, k)
             x == [kind |-> k, nr |-> Cardinality(Carrying(g))]
         IN  x \in Message /\ FromBrowser(g) = Append(FromBrowser(f), x)
<1> DEFINE g == Append(f, k)
           x == [kind |-> k, nr |-> Cardinality(Carrying(g))]
<1>1. PICK n \in Nat : n = Len(f)
  BY LenProperties
<1>2. /\ g \in Seq(FrameKind) /\ Len(g) = n + 1 /\ g[n + 1] = k
      /\ \A i \in 1 .. n : g[i] = f[i]
      /\ \A i \in 0 .. n : Rank(Carrying(g), i) = Rank(Carrying(f), i)
      /\ Rank(Carrying(g), n + 1) = Cardinality(Carrying(g))
  BY <1>1, CarryingMore, AppendProperties
<1>3. Cardinality(Carrying(g)) \in Nat
  BY <1>2, CarryingPlaces
<1>4. x \in Message
  BY <1>3 DEF Message, Kind
<1> DEFINE a == FromBrowser(f)
           b == FromBrowser(g)
<1>5. a \in Seq(Message) /\ Len(a) = n /\ \A i \in 1 .. n : a[i] = [kind |-> f[i], nr |-> Rank(Carrying(f), i)]
  <2>1. a = [i \in 1 .. n |-> [kind |-> f[i], nr |-> Rank(Carrying(f), i)]]
    BY <1>1 DEF FromBrowser
  <2>2. \A i \in 1 .. n : f[i] \in FrameKind /\ Rank(Carrying(f), i) \in Nat
    BY <1>1, ElementOfSeq, CarryingPlaces
  <2>3. a \in [1 .. n -> Message]
    BY <2>1, <2>2 DEF Message, Kind
  <2>4. a \in Seq(Message)
    BY <2>3, SeqDef
  <2> QED
    BY <2>1, <2>3, <2>4, LenProperties
<1>6. b \in Seq(Message) /\ Len(b) = n + 1 /\ \A i \in 1 .. n + 1 : b[i] = [kind |-> g[i], nr |-> Rank(Carrying(g), i)]
  <2>1. b = [i \in 1 .. n + 1 |-> [kind |-> g[i], nr |-> Rank(Carrying(g), i)]]
    BY <1>2 DEF FromBrowser
  <2>2. \A i \in 1 .. n + 1 : g[i] \in FrameKind /\ Rank(Carrying(g), i) \in Nat
    <3>1. \A i \in 1 .. n + 1 : g[i] \in FrameKind
      BY <1>2, ElementOfSeq
    <3>2. \A i \in Nat : Rank(Carrying(g), i) \in Nat
      BY <1>2, CarryingPlaces
    <3> HIDE DEF g
    <3>3. \A i \in 1 .. n + 1 : i \in Nat
      OBVIOUS
    <3> QED
      BY <3>1, <3>2, <3>3, Zenon
  <2> HIDE DEF g
  <2>3. b \in [1 .. n + 1 -> Message]
    BY <2>1, <2>2 DEF Message, Kind
  <2>4. b \in Seq(Message)
    BY <2>3, SeqDef
  <2> QED
    BY <2>1, <2>3, <2>4, LenProperties
<1> HIDE DEF a, b
<1>7. /\ Append(a, x) \in Seq(Message) /\ Len(Append(a, x)) = n + 1 /\ Append(a, x)[n + 1] = x
      /\ \A i \in 1 .. n : Append(a, x)[i] = a[i]
  BY <1>4, <1>5, AppendProperties
<1>8. ASSUME NEW i \in 1 .. n + 1 PROVE b[i] = Append(a, x)[i]
  <2>1. CASE i = n + 1
    BY <1>2, <1>6, <1>7, <2>1
  <2>2. CASE i # n + 1
    <3>1. i \in 1 .. n /\ i \in 0 .. n
      BY <2>2
    <3>2. b[i] = [kind |-> g[i], nr |-> Rank(Carrying(g), i)] /\ g[i] = f[i]
          /\ Rank(Carrying(g), i) = Rank(Carrying(f), i)
      BY <1>2, <1>6, <3>1
    <3> QED
      BY <1>5, <1>7, <3>1, <3>2
  <2> QED
    BY <2>1, <2>2
<1>9. b = Append(a, x)
  BY <1>6, <1>7, <1>8, SeqEqual
<1> QED
  BY <1>4, <1>9 DEF a, b

LEMMA FromServerMore ==
  ASSUME NEW f \in Seq(BlockKind), NEW k \in BlockKind
  PROVE  LET x == [kind |-> k, nr |-> Len(f) + 1]
         IN  x \in Message /\ FromServer(Append(f, k)) = Append(FromServer(f), x)
<1> DEFINE g == Append(f, k)
           x == [kind |-> k, nr |-> Len(f) + 1]
           a == FromServer(f)
           b == FromServer(g)
<1>1. PICK n \in Nat : n = Len(f)
  BY LenProperties
<1>2. g \in Seq(BlockKind) /\ Len(g) = n + 1 /\ g[n + 1] = k /\ \A i \in 1 .. n : g[i] = f[i]
  BY <1>1, AppendProperties
<1>3. x \in Message /\ x = [kind |-> k, nr |-> n + 1]
  BY <1>1 DEF Message, Kind
<1> HIDE DEF g, x
<1>4. a \in Seq(Message) /\ Len(a) = n /\ \A i \in 1 .. n : a[i] = [kind |-> f[i], nr |-> i]
  <2>1. a = [i \in 1 .. n |-> [kind |-> f[i], nr |-> i]] /\ \A i \in 1 .. n : f[i] \in BlockKind
    BY <1>1, ElementOfSeq DEF FromServer
  <2>2. a \in [1 .. n -> Message]
    BY <2>1 DEF Message, Kind
  <2>3. a \in Seq(Message)
    BY <2>2, SeqDef
  <2> QED
    BY <2>1, <2>2, <2>3, LenProperties
<1>5. b \in Seq(Message) /\ Len(b) = n + 1 /\ \A i \in 1 .. n + 1 : b[i] = [kind |-> g[i], nr |-> i]
  <2>1. b = [i \in 1 .. n + 1 |-> [kind |-> g[i], nr |-> i]] /\ \A i \in 1 .. n + 1 : g[i] \in BlockKind
    BY <1>2, ElementOfSeq DEF FromServer
  <2>2. b \in [1 .. n + 1 -> Message]
    BY <2>1 DEF Message, Kind
  <2>3. b \in Seq(Message)
    BY <2>2, SeqDef
  <2> QED
    BY <2>1, <2>2, <2>3, LenProperties
<1> HIDE DEF a, b
<1>6. /\ Append(a, x) \in Seq(Message) /\ Len(Append(a, x)) = n + 1 /\ Append(a, x)[n + 1] = x
      /\ \A i \in 1 .. n : Append(a, x)[i] = a[i]
  BY <1>3, <1>4, AppendProperties
<1>7. ASSUME NEW i \in 1 .. n + 1 PROVE b[i] = Append(a, x)[i]
  <2>1. CASE i = n + 1
    <3>1. b[n + 1] = [kind |-> g[n + 1], nr |-> n + 1]
      BY <1>5
    <3> QED
      BY <1>2, <1>3, <1>6, <2>1, <3>1
  <2>2. CASE i # n + 1
    <3>1. i \in 1 .. n
      BY <2>2
    <3>2. b[i] = [kind |-> g[i], nr |-> i]
      BY <1>5
    <3> QED
      BY <1>2, <1>4, <1>6, <3>1, <3>2
  <2> QED
    BY <2>1, <2>2
<1>8. b = Append(a, x)
  BY <1>5, <1>6, <1>7, SeqEqual
<1> QED
  BY <1>3, <1>8 DEF a, b, g, x
-----------------------------------------------------------------------------
(* The browser's blocks on their way.                                      *)

\* q is the blocks of the browser that come after the first l, in order.
Waits(q, l, f) ==
  /\ q \in Seq(Message) /\ l \in Nat /\ l + Len(q) <= Cardinality(Carrying(f))
  /\ \A i \in 1 .. Len(q) :
       /\ q[i].nr = l + i
       /\ \A m \in Carrying(f) : Rank(Carrying(f), m) = l + i => q[i].kind = f[m]

\* u is what the server should see of the first blocks of the browser.
Reached(u, f) ==
  /\ u \in Seq(Nat) /\ Len(u) \in Nat /\ Len(u) <= Cardinality(Carrying(f))
  /\ \A i \in 1 .. Len(u), m \in Carrying(f) :
       Rank(Carrying(f), m) = i => u[i] = NativeBlock(f[m], i)

\* None of them was badly padded.
Unbroken(u) == \A i \in 1 .. Len(u) : u[i] # 0

\* The blocks among the first n frames of a buffer are the next ones.
LEMMA BinaryWaits ==
  ASSUME NEW f \in Seq(FrameKind), NEW b \in Seq(Unit), NEW t \in Seq(Unit), NEW p,
         Carried(b \o t, FromBrowser(f), p), NEW n \in 0 .. Whole(b)
  PROVE  /\ Waits(Binary(b, n), Rank(Carrying(f), p), f)
         /\ p + n \in 0 .. Len(f)
         /\ Rank(Carrying(f), p) + Len(Binary(b, n)) = Rank(Carrying(f), p + n)
<1> DEFINE M == FromBrowser(f)
           P == Carrying(f)
           Q == {i \in 1 .. n : Cut(b, i)[1].kind \in Payload}
           c == Cardinality(Q)
           s == Binary(b, n)
<1>1. /\ Whole(b) \in 0 .. Len(M) - p
      /\ \A i \in 1 .. Whole(b) : Cut(b, i)[1].kind = M[p + i].kind /\ Block(Cut(b, i)) = M[p + i]
  BY CarriedCut
<1>2. M \in Seq(Message) /\ p \in 0 .. Len(M)
  BY DEF Carried
<1>3. PICK h \in Nat : h = Len(f)
  BY LenProperties
<1>4. Len(M) = h /\ \A i \in 1 .. h : M[i] = [kind |-> f[i], nr |-> Rank(P, i)]
  BY <1>3, <1>2, LenProperties DEF FromBrowser
<1> HIDE DEF M
<1>5. p \in Nat /\ n \in Nat /\ p + n \in 0 .. h /\ p + n <= h /\ \A i \in 1 .. n : p + i \in 1 .. h /\ i \in 1 .. Whole(b)
  BY <1>1, <1>2, <1>3, <1>4
<1>6. \A i \in 1 .. n : (i \in Q <=> p + i \in P)
  <2> SUFFICES ASSUME NEW i \in 1 .. n PROVE (i \in Q <=> p + i \in P)
    OBVIOUS
  <2>1. Cut(b, i)[1].kind = f[p + i] /\ p + i \in 1 .. h
    BY <1>1, <1>4, <1>5
  <2> QED
    BY <1>3, <2>1 DEF Carrying
<1>7. Q = {i \in 1 .. n : p + i \in P}
  BY <1>6
<1>8. s = [k \in 1 .. c |-> Block(Cut(b, Place(Q, k)))]
  BY DEF Binary
<1>9. \A j \in P : j \in Nat /\ 1 <= j /\ j <= h
  BY <1>3, CarryingPlaces
<1>10. \A j \in Q : j \in Nat /\ 1 <= j /\ j <= n
  BY <1>5
<1> HIDE DEF Q, s, P
<1>11. \A i \in 0 .. n : Rank(P, p + i) = Rank(P, p) + Rank(Q, i)
  <2> SUFFICES ASSUME NEW i \in 0 .. n PROVE Rank(P, p + i) = Rank(P, p) + Rank(Q, i)
    OBVIOUS
  <2> QED
    BY <1>3, <1>5, <1>7, <1>9, RankGoesOn
<1>12. c \in Nat /\ Rank(Q, n) = c
  BY <1>5, <1>10, Ranks
<1>13. \A i \in Nat : Rank(P, i) \in Nat
  BY <1>3, <1>9, Ranks
<1>14. Rank(P, p + n) <= Cardinality(P) /\ Cardinality(P) \in Nat /\ Rank(P, p + n) = Rank(P, p) + c
  <2>1. Rank(P, p + n) <= Cardinality(P) /\ Cardinality(P) \in Nat
    BY <1>3, <1>5, CarryingPlaces DEF P
  <2>2. n \in 0 .. n
    BY <1>5
  <2> QED
    BY <1>11, <1>12, <2>1, <2>2
<1> HIDE DEF c
<1>15. ASSUME NEW k \in 1 .. c
       PROVE  /\ s[k] \in Message /\ s[k].nr = Rank(P, p) + k
              /\ \A m \in P : Rank(P, m) = Rank(P, p) + k => s[k].kind = f[m]
  <2>1. PICK i \in Q : i = Place(Q, k) /\ Rank(Q, i) = k
    <3>1. k \in 1 .. Cardinality(Q)
      BY DEF c
    <3> QED
      BY <1>5, <1>10, <3>1, Places
  <2>2. i \in 1 .. n /\ i \in 0 .. n /\ p + i \in 1 .. h /\ i \in 1 .. Whole(b) /\ p + i \in P
    BY <1>5, <1>6, <1>10, <2>1
  <2>3. s[k] = M[p + i]
    BY <1>1, <1>8, <2>1, <2>2
  <2>4. s[k] = [kind |-> f[p + i], nr |-> Rank(P, p + i)] /\ s[k] \in Message
    BY <1>2, <1>4, <2>2, <2>3, ElementOfSeq
  <2>5. Rank(P, p + i) = Rank(P, p) + k
    BY <1>11, <2>1, <2>2
  <2>6. ASSUME NEW m \in P, Rank(P, m) = Rank(P, p) + k PROVE m = p + i
    <3>1. m \in Nat /\ p + i \in Nat /\ Rank(P, m) = Rank(P, p + i) /\ Rank(P, m) \in Nat
      BY <1>9, <1>13, <2>2, <2>5, <2>6
    <3>2. m < p + i => Rank(P, m) < Rank(P, p + i)
      BY <1>3, <1>9, <2>2, RankOnce
    <3>3. p + i < m => Rank(P, p + i) < Rank(P, m)
      BY <1>3, <1>9, <2>2, RankOnce
    <3> QED
      BY <3>1, <3>2, <3>3
  <2> QED
    BY <2>4, <2>5, <2>6
<1>16. s \in Seq(Message) /\ Len(s) = c
  <2>1. s \in [1 .. c -> Message]
    BY <1>8, <1>15
  <2>2. s \in Seq(Message)
    BY <1>12, <2>1, SeqDef
  <2> QED
    BY <1>12, <2>1, <2>2, LenProperties
<1>17. Waits(s, Rank(P, p), f)
  <2>1. Rank(P, p) \in Nat /\ Rank(P, p) + Len(s) <= Cardinality(P)
    BY <1>5, <1>13, <1>14, <1>16
  <2> QED
    BY <1>15, <1>16, <2>1 DEF Waits, P
<1> QED
  BY <1>3, <1>5, <1>14, <1>16, <1>17 DEF s, P

\* What comes in behind those that wait.
LEMMA WaitsJoined ==
  ASSUME NEW q, NEW r, NEW l, NEW f \in Seq(FrameKind), Waits(q, l, f), Waits(r, l + Len(q), f)
  PROVE  Waits(q \o r, l, f) /\ Len(q \o r) = Len(q) + Len(r)
<1>1. PICK a \in Nat, b \in Nat : a = Len(q) /\ b = Len(r)
  BY LenProperties DEF Waits
<1>2. /\ q \o r \in Seq(Message) /\ Len(q \o r) = a + b
      /\ \A i \in 1 .. a : (q \o r)[i] = q[i]
      /\ \A i \in 1 .. b : (q \o r)[a + i] = r[i]
  <2>1. q \in Seq(Message) /\ r \in Seq(Message)
    BY DEF Waits
  <2> QED
    BY <1>1, <2>1, Joined
<1>3. /\ l \in Nat /\ (l + a) + b <= Cardinality(Carrying(f))
      /\ \A i \in 1 .. a :
           /\ q[i].nr = l + i
           /\ \A m \in Carrying(f) : Rank(Carrying(f), m) = l + i => q[i].kind = f[m]
      /\ \A i \in 1 .. b :
           /\ r[i].nr = (l + a) + i
           /\ \A m \in Carrying(f) : Rank(Carrying(f), m) = (l + a) + i => r[i].kind = f[m]
  BY <1>1 DEF Waits
<1>4. ASSUME NEW i \in 1 .. a + b
      PROVE  /\ (q \o r)[i].nr = l + i
             /\ \A m \in Carrying(f) : Rank(Carrying(f), m) = l + i => (q \o r)[i].kind = f[m]
  <2>1. CASE i <= a
    <3>1. i \in 1 .. a
      BY <2>1
    <3>2. (q \o r)[i] = q[i]
      BY <1>2, <3>1
    <3>3. /\ q[i].nr = l + i
          /\ \A m \in Carrying(f) : Rank(Carrying(f), m) = l + i => q[i].kind = f[m]
      BY <1>3, <3>1, Zenon
    <3> QED
      BY <3>2, <3>3, Zenon
  <2>2. CASE i > a
    <3>1. PICK k \in 1 .. b : i = a + k /\ l + i = (l + a) + k
      <4>1. i - a \in 1 .. b /\ i = a + (i - a) /\ l + i = (l + a) + (i - a)
        BY <1>3, <2>2
      <4> QED
        BY <4>1
    <3>2. (q \o r)[i] = r[k]
      BY <1>2, <3>1
    <3>3. /\ r[k].nr = (l + a) + k
          /\ \A m \in Carrying(f) : Rank(Carrying(f), m) = (l + a) + k => r[k].kind = f[m]
      BY <1>3, Zenon
    <3> QED
      BY <3>1, <3>2, <3>3, Zenon
  <2>3. i <= a \/ i > a
    BY <1>1
  <2> QED
    BY <2>1, <2>2, <2>3, Zenon
<1>5. l + Len(q \o r) <= Cardinality(Carrying(f))
  <2>1. Cardinality(Carrying(f)) \in Nat
    BY CarryingPlaces
  <2> QED
    BY <1>2, <1>3, <2>1
<1> QED
  BY <1>1, <1>2, <1>3, <1>4, <1>5 DEF Waits

\* What waits, and what was written, is so when one more frame is sent.
LEMMA RanksMore ==
  ASSUME NEW f \in Seq(FrameKind), NEW k \in FrameKind, NEW m \in Carrying(Append(f, k)),
         Rank(Carrying(Append(f, k)), m) <= Cardinality(Carrying(f))
  PROVE  /\ m \in Carrying(f) /\ Rank(Carrying(f), m) = Rank(Carrying(Append(f, k)), m)
         /\ Append(f, k)[m] = f[m]
<1> DEFINE g == Append(f, k)
           P == Carrying(f)
           Q == Carrying(g)
<1>1. PICK n \in Nat : n = Len(f)
  BY LenProperties
<1>2. /\ \A i \in 1 .. n : g[i] = f[i]
      /\ \A i \in Q : i \in P \/ i = n + 1
      /\ \A i \in 0 .. n : Rank(Q, i) = Rank(P, i)
      /\ Rank(Q, n + 1) = Cardinality(Q)
      /\ n + 1 \in Q => Cardinality(Q) = Cardinality(P) + 1
  BY <1>1, CarryingMore
<1>3. Cardinality(P) \in Nat /\ \A i \in P : i \in 1 .. n /\ i \in 0 .. n
  BY <1>1, CarryingPlaces
<1> HIDE DEF g
<1>4. m \in Q /\ Rank(Q, m) <= Cardinality(P)
  BY DEF g
<1> HIDE DEF P, Q
<1>5. m # n + 1
  BY <1>2, <1>3, <1>4
<1>6. m \in P /\ Rank(P, m) = Rank(Q, m) /\ g[m] = f[m]
  BY <1>2, <1>3, <1>4, <1>5
<1> QED
  BY <1>6 DEF g, P, Q

LEMMA WaitsMore ==
  ASSUME NEW f \in Seq(FrameKind), NEW k \in FrameKind, NEW q, NEW l, Waits(q, l, f)
  PROVE  Waits(q, l, Append(f, k))
<1> DEFINE g == Append(f, k)
           P == Carrying(f)
           Q == Carrying(g)
<1>1. PICK a \in Nat : a = Len(q)
  BY LenProperties DEF Waits
<1>2. /\ q \in Seq(Message) /\ l \in Nat /\ l + a <= Cardinality(P)
      /\ \A i \in 1 .. a : /\ q[i].nr = l + i
                           /\ \A m \in P : Rank(P, m) = l + i => q[i].kind = f[m]
  BY <1>1 DEF Waits
<1>3. Cardinality(P) <= Cardinality(Q)
  BY CarryingMore
<1>4. Cardinality(P) \in Nat /\ Cardinality(Q) \in Nat
  <2>1. g \in Seq(FrameKind)
    BY AppendProperties
  <2> HIDE DEF g
  <2> QED
    BY <2>1, CarryingPlaces
<1>5. \A m \in Q : Rank(Q, m) <= Cardinality(P) => m \in P /\ Rank(P, m) = Rank(Q, m) /\ g[m] = f[m]
  BY RanksMore
<1> HIDE DEF g, P, Q
<1>6. ASSUME NEW i \in 1 .. a, NEW m \in Q, Rank(Q, m) = l + i PROVE q[i].kind = g[m]
  <2>1. Rank(Q, m) <= Cardinality(P)
    BY <1>2, <1>4, <1>6
  <2> QED
    BY <1>2, <1>5, <1>6, <2>1
<1>7. l + a <= Cardinality(Q)
  BY <1>2, <1>3, <1>4
<1> QED
  BY <1>1, <1>2, <1>6, <1>7 DEF Waits, g, Q

LEMMA ReachedMore ==
  ASSUME NEW f \in Seq(FrameKind), NEW k \in FrameKind, NEW u, Reached(u, f)
  PROVE  Reached(u, Append(f, k))
<1> DEFINE g == Append(f, k)
           P == Carrying(f)
           Q == Carrying(g)
<1>1. PICK l \in Nat : l = Len(u)
  BY DEF Reached
<1>2. /\ u \in Seq(Nat) /\ l <= Cardinality(P)
      /\ \A i \in 1 .. l, m \in P : Rank(P, m) = i => u[i] = NativeBlock(f[m], i)
  BY <1>1 DEF Reached
<1>3. Cardinality(P) <= Cardinality(Q)
  BY CarryingMore
<1>4. Cardinality(P) \in Nat /\ Cardinality(Q) \in Nat
  <2>1. g \in Seq(FrameKind)
    BY AppendProperties
  <2> HIDE DEF g
  <2> QED
    BY <2>1, CarryingPlaces
<1>5. \A m \in Q : Rank(Q, m) <= Cardinality(P) => m \in P /\ Rank(P, m) = Rank(Q, m) /\ g[m] = f[m]
  BY RanksMore
<1> HIDE DEF g, P, Q
<1>6. ASSUME NEW i \in 1 .. l, NEW m \in Q, Rank(Q, m) = i PROVE u[i] = NativeBlock(g[m], i)
  <2>1. Rank(Q, m) <= Cardinality(P)
    BY <1>2, <1>4, <1>6
  <2>2. m \in P /\ Rank(P, m) = i /\ g[m] = f[m]
    BY <1>5, <1>6, <2>1
  <2> QED
    BY <1>2, <2>2
<1>7. l <= Cardinality(Q)
  BY <1>2, <1>3, <1>4
<1> QED
  BY <1>1, <1>2, <1>6, <1>7 DEF Reached, g, Q

\* What was written is the front of whatever the server should see.
LEMMA ReachedAgree ==
  ASSUME NEW f \in Seq(FrameKind), NEW u, NEW v, Reached(u, f), Reached(v, f), Len(u) <= Len(v)
  PROVE  IsPrefix(u, v)
<1> DEFINE P == Carrying(f)
<1>1. PICK a \in Nat, b \in Nat : a = Len(u) /\ b = Len(v)
  BY DEF Reached
<1>2. /\ u \in Seq(Nat) /\ v \in Seq(Nat) /\ a <= b /\ b <= Cardinality(P)
      /\ \A i \in 1 .. a, m \in P : Rank(P, m) = i => u[i] = NativeBlock(f[m], i)
      /\ \A i \in 1 .. b, m \in P : Rank(P, m) = i => v[i] = NativeBlock(f[m], i)
  BY <1>1 DEF Reached
<1>3. PICK n \in Nat : n = Len(f) /\ (\A j \in P : j \in Nat /\ 1 <= j /\ j <= n) /\ Cardinality(P) \in Nat
  BY CarryingPlaces
<1> HIDE DEF P
<1>4. ASSUME NEW i \in 1 .. a PROVE u[i] = v[i]
  <2>1. i \in 1 .. Cardinality(P) /\ i \in 1 .. b
    BY <1>2, <1>3
  <2>2. Place(P, i) \in P /\ Rank(P, Place(P, i)) = i
    BY <1>3, <2>1, Places
  <2> QED
    BY <1>2, <2>1, <2>2
<1> QED
  BY <1>1, <1>2, <1>4 DEF IsPrefix

\* What the server should see of all of them.
Sent(f) == [i \in 1 .. Cardinality(Carrying(f)) |-> NativeBlock(f[Place(Carrying(f), i)], i)]

LEMMA SentReached ==
  ASSUME NEW f \in Seq(FrameKind)
  PROVE  Reached(Sent(f), f) /\ Len(Sent(f)) = Cardinality(Carrying(f))
<1> DEFINE P == Carrying(f)
           u == Sent(f)
<1>1. PICK n \in Nat : n = Len(f) /\ (\A j \in P : j \in Nat /\ 1 <= j /\ j <= n)
  BY CarryingPlaces
<1>2. PICK c \in Nat : c = Cardinality(P)
  BY CarryingPlaces
<1>3. u = [i \in 1 .. c |-> NativeBlock(f[Place(P, i)], i)]
  BY <1>2 DEF Sent
<1> HIDE DEF u, P
<1>4. u \in [1 .. c -> Nat]
  BY <1>3 DEF NativeBlock
<1>5. u \in Seq(Nat)
  BY <1>4, SeqDef
<1>6. Len(u) = c
  BY <1>4, <1>5, LenProperties
<1>7. ASSUME NEW i \in 1 .. c, NEW m \in P, Rank(P, m) = i PROVE u[i] = NativeBlock(f[m], i)
  <2>1. i \in 1 .. Cardinality(P)
    BY <1>2
  <2>2. PICK x : x = Place(P, i) /\ x \in P /\ Rank(P, x) = i
    BY <1>1, <2>1, Places
  <2>3. x \in Nat /\ m \in Nat
    BY <1>1, <2>2
  <2>4. x < m => Rank(P, x) < Rank(P, m)
    BY <1>1, <2>2, RankOnce
  <2>5. m < x => Rank(P, m) < Rank(P, x)
    BY <1>1, <2>2, RankOnce
  <2>6. x = m
    BY <1>7, <2>2, <2>3, <2>4, <2>5
  <2> QED
    BY <1>3, <2>2, <2>6
<1> QED
  BY <1>2, <1>5, <1>6, <1>7 DEF Reached, P, u

\* Unbroken, it is all of them.
LEMMA UnbrokenNumbers ==
  ASSUME NEW f \in Seq(FrameKind), NEW u, Reached(u, f), Unbroken(u)
  PROVE  u = Numbers(Len(u))
<1> DEFINE P == Carrying(f)
<1>1. PICK a \in Nat : a = Len(u)
  BY DEF Reached
<1>2. /\ u \in Seq(Nat) /\ a <= Cardinality(P) /\ \A i \in 1 .. a : u[i] # 0
      /\ \A i \in 1 .. a, m \in P : Rank(P, m) = i => u[i] = NativeBlock(f[m], i)
  BY <1>1 DEF Reached, Unbroken
<1>3. PICK n \in Nat : n = Len(f) /\ (\A j \in P : j \in Nat /\ 1 <= j /\ j <= n) /\ Cardinality(P) \in Nat
  BY CarryingPlaces
<1> HIDE DEF P
<1>4. ASSUME NEW i \in 1 .. a PROVE u[i] = i
  <2>1. i \in 1 .. Cardinality(P)
    BY <1>2, <1>3
  <2>2. Place(P, i) \in P /\ Rank(P, Place(P, i)) = i
    BY <1>3, <2>1, Places
  <2> QED
    BY <1>2, <2>2 DEF NativeBlock
<1>5. u = [i \in 1 .. a |-> i]
  BY <1>1, <1>2, <1>4
<1> QED
  BY <1>1, <1>5 DEF Numbers

-----------------------------------------------------------------------------
(* What is written.                                                        *)

LEMMA NumbersAre ==
  ASSUME NEW n \in Nat
  PROVE  /\ Numbers(n) \in Seq(Nat) /\ Len(Numbers(n)) = n
         /\ \A i \in 1 .. n : Numbers(n)[i] = i
         /\ \A m \in Nat : n <= m => Numbers(n) \in Seq(1 .. m)
<1>1. Numbers(n) = [i \in 1 .. n |-> i]
  BY DEF Numbers
<1>2. Numbers(n) \in [1 .. n -> Nat] /\ \A i \in 1 .. n : Numbers(n)[i] = i
  BY <1>1
<1>3. ASSUME NEW m \in Nat, n <= m PROVE Numbers(n) \in Seq(1 .. m)
  <2>1. Numbers(n) \in [1 .. n -> 1 .. m]
    BY <1>1, <1>3
  <2> QED
    BY <2>1, SeqDef
<1>4. Numbers(n) \in Seq(Nat)
  BY <1>2, SeqDef
<1>5. Len(Numbers(n)) = n
  BY <1>2, <1>4, LenProperties
<1> QED
  BY <1>2, <1>3, <1>4, <1>5

LEMMA NumbersMore ==
  ASSUME NEW n \in Nat, NEW m \in Nat, NEW r, r = [i \in 1 .. m |-> n + i]
  PROVE  Numbers(n) \o r = Numbers(n + m)
<1>1. r \in Seq(Nat) /\ Len(r) = m /\ \A i \in 1 .. m : r[i] = n + i
  <2>1. r \in [1 .. m -> Nat] /\ \A i \in 1 .. m : r[i] = n + i
    OBVIOUS
  <2>2. r \in Seq(Nat)
    BY <2>1, SeqDef
  <2> QED
    BY <2>1, <2>2, LenProperties
<1>2. /\ Numbers(n) \in Seq(Nat) /\ Len(Numbers(n)) = n
      /\ \A i \in 1 .. n : Numbers(n)[i] = i
  BY NumbersAre
<1>3. /\ Numbers(n + m) \in Seq(Nat) /\ Len(Numbers(n + m)) = n + m
      /\ \A i \in 1 .. n + m : Numbers(n + m)[i] = i
  <2>1. n + m \in Nat
    OBVIOUS
  <2> QED
    BY <2>1, NumbersAre
<1>4. /\ \A i \in 1 .. n : Numbers(n + m)[i] = Numbers(n)[i]
      /\ \A i \in 1 .. m : Numbers(n + m)[n + i] = r[i]
  <2>1. ASSUME NEW i \in 1 .. m PROVE Numbers(n + m)[n + i] = r[i]
    <3>1. n + i \in 1 .. n + m
      OBVIOUS
    <3> QED
      BY <1>1, <1>3, <3>1
  <2>2. ASSUME NEW i \in 1 .. n PROVE Numbers(n + m)[i] = Numbers(n)[i]
    <3>1. i \in 1 .. n + m
      OBVIOUS
    <3> QED
      BY <1>2, <1>3, <3>1
  <2> QED
    BY <2>1, <2>2
<1>5. /\ Len(Numbers(n + m)) = Len(Numbers(n)) + Len(r)
      /\ \A i \in 1 .. Len(Numbers(n)) : Numbers(n + m)[i] = Numbers(n)[i]
      /\ \A i \in 1 .. Len(r) : Numbers(n + m)[Len(Numbers(n)) + i] = r[i]
  BY <1>1, <1>2, <1>3, <1>4
<1>6. Numbers(n) \in Seq(Nat) /\ Numbers(n + m) \in Seq(Nat) /\ r \in Seq(Nat)
  BY <1>1, <1>2, <1>3
<1> QED
  BY <1>5, <1>6, SameJoin

\* How many of the first n things are not bad before one is.
LEMMA Leading ==
  ASSUME NEW n \in Nat, NEW bad \in SUBSET (1 .. n)
  PROVE  LET good == IF bad = {} THEN n ELSE Min(bad) - 1
         IN  /\ good \in 0 .. n /\ \A i \in 1 .. good : i \notin bad
             /\ bad # {} => good < n
<1>1. CASE bad = {}
  BY <1>1
<1>2. CASE bad # {}
  <2>1. PICK x \in bad : \A y \in bad : x <= y
    <3>1. bad \subseteq Nat
      OBVIOUS
    <3> QED
      BY <1>2, <3>1, LeastOf
  <2>2. Min(bad) \in bad /\ \A y \in bad : Min(bad) <= y
    BY <2>1 DEF Min
  <2>3. PICK k : k = Min(bad) /\ k \in 1 .. n /\ \A y \in bad : k <= y
    BY <2>2
  <2>4. k - 1 \in 0 .. n /\ k - 1 < n /\ \A i \in 1 .. k - 1 : i \notin bad
    BY <2>3
  <2> QED
    BY <1>2, <2>3, <2>4
<1> QED
  BY <1>1, <1>2

\* The callbacks of started write the next blocks, and leave nothing behind
\* and none out while the pair is up.
LEMMA ForwardKeeps ==
  ASSUME NEW q, NEW now \in {"open", "destroyed"}, Forward(q, now), frames \in Seq(FrameKind),
         Reached(up, frames), Waits(q, Len(up), frames), Unbroken(up)
  PROVE  /\ Reached(up', frames) /\ Waits(queue', Len(up'), frames)
         /\ \/ ws' = "destroyed" /\ native' = "destroyed"
            \/ /\ ws' = ws /\ native' = "open" /\ now = "open"
               /\ Len(up') + Len(queue') = Len(up) + Len(q) /\ Unbroken(up')
         /\ up' # up => phase' \in {"started", "failed"} /\ now = "open"
         /\ Len(up) <= Len(up')
<1> DEFINE r == [i \in 1 .. Len(q) |-> NativeBlock(q[i].kind, q[i].nr)]
           P == Carrying(frames)
<1>1. PICK l \in Nat, k \in Nat : l = Len(up) /\ k = Len(q)
  BY LenProperties DEF Waits, Reached
<1>2. /\ q \in Seq(Message) /\ l + k <= Cardinality(P)
      /\ \A i \in 1 .. k :
           /\ q[i].nr = l + i
           /\ \A m \in P : Rank(P, m) = l + i => q[i].kind = frames[m]
  BY <1>1 DEF Waits
<1>3. /\ up \in Seq(Nat) /\ \A i \in 1 .. l : up[i] # 0
      /\ \A i \in 1 .. l, m \in P : Rank(P, m) = i => up[i] = NativeBlock(frames[m], i)
  BY <1>1 DEF Reached, Unbroken
<1>4. CASE ~Forwards(q, now)
  BY <1>1, <1>4 DEF Forward
<1>5. CASE Forwards(q, now)
  <2>1. /\ up' = up \o r /\ queue' = <<>>
        /\ \/ (\A i \in 1 .. k : q[i].kind = "block") /\ ws' = ws /\ native' = now
           \/ ws' = "destroyed" /\ native' = "destroyed"
        /\ phase' \in {"started", "failed"} /\ now = "open"
    BY <1>1, <1>5 DEF Forward, Forwards, ClosePair
  <2>2. /\ r \in Seq(Nat) /\ Len(r) = k
        /\ \A i \in 1 .. k : r[i] = NativeBlock(q[i].kind, l + i)
    <3>1. r = [i \in 1 .. k |-> NativeBlock(q[i].kind, l + i)]
      BY <1>1, <1>2
    <3> HIDE DEF r
    <3>2. r \in [1 .. k -> Nat]
      BY <3>1 DEF NativeBlock
    <3>3. r \in Seq(Nat)
      BY <3>2, SeqDef
    <3> QED
      BY <3>1, <3>2, <3>3, LenProperties
  <2> HIDE DEF r, P
  <2>3. /\ up' \in Seq(Nat) /\ Len(up') = l + k
        /\ \A i \in 1 .. l : up'[i] = up[i]
        /\ \A i \in 1 .. k : up'[l + i] = r[i]
    <3>1. /\ up \o r \in Seq(Nat) /\ Len(up \o r) = Len(up) + Len(r)
          /\ \A i \in 1 .. Len(up) : (up \o r)[i] = up[i]
          /\ \A i \in 1 .. Len(r) : (up \o r)[Len(up) + i] = r[i]
      <4>1. up \in Seq(Nat) /\ r \in Seq(Nat)
        BY <1>3, <2>2
      <4> QED
        BY <4>1, Joined
    <3> QED
      BY <1>1, <2>1, <2>2, <3>1
  <2>4. \A i \in 1 .. l + k : i \in 1 .. l \/ \E h \in 1 .. k : i = l + h
    <3> SUFFICES ASSUME NEW i \in 1 .. l + k, i > l PROVE \E h \in 1 .. k : i = l + h
      OBVIOUS
    <3>1. i - l \in 1 .. k /\ i = l + (i - l)
      OBVIOUS
    <3> QED
      BY <3>1
  <2>5. ASSUME NEW i \in 1 .. l + k, NEW m \in P, Rank(P, m) = i PROVE up'[i] = NativeBlock(frames[m], i)
    <3>1. CASE i \in 1 .. l
      BY <1>3, <2>3, <2>5, <3>1
    <3>2. ASSUME NEW h \in 1 .. k, i = l + h PROVE up'[i] = NativeBlock(frames[m], i)
      <4>1. up'[l + h] = r[h] /\ r[h] = NativeBlock(q[h].kind, l + h)
        BY <2>2, <2>3
      <4>2. q[h].kind = frames[m]
        BY <1>2, <2>5, <3>2
      <4> QED
        BY <3>2, <4>1, <4>2
    <3> QED
      BY <2>4, <3>1, <3>2
  <2>6. Reached(up', frames)
    BY <1>2, <2>3, <2>5 DEF Reached, P
  <2>7. Len(queue') = 0 /\ queue' \in Seq(Message)
    BY <2>1, EmptySeq
  <2>8. Waits(queue', l + k, frames)
    <3>1. l + k \in Nat /\ l + k + 0 <= Cardinality(P)
      <4>1. Cardinality(P) \in Nat
        BY CarryingPlaces DEF P
      <4> QED
        BY <1>2, <4>1
    <3> QED
      BY <2>7, <3>1 DEF Waits, P
  <2>9. ASSUME \A i \in 1 .. k : q[i].kind = "block" PROVE Unbroken(up')
    <3>1. ASSUME NEW i \in 1 .. l + k PROVE up'[i] # 0
      <4>1. CASE i \in 1 .. l
        BY <1>3, <2>3, <4>1
      <4>2. ASSUME NEW h \in 1 .. k, i = l + h PROVE up'[i] # 0
        <5>1. up'[l + h] = r[h] /\ r[h] = NativeBlock(q[h].kind, l + h)
          BY <2>2, <2>3
        <5>2. r[h] = l + h
          BY <2>9, <5>1 DEF NativeBlock
        <5>3. l + h # 0
          BY <4>2
        <5> QED
          BY <4>2, <5>1, <5>2, <5>3
      <4> QED
        BY <2>4, <4>1, <4>2
    <3> QED
      BY <2>3, <3>1 DEF Unbroken
  <2> QED
    BY <1>1, <2>1, <2>3, <2>6, <2>7, <2>8, <2>9
<1> QED
  BY <1>4, <1>5

-----------------------------------------------------------------------------
(* The invariant.                                                          *)

RelayTypes ==
  /\ phase \in {"request", "refused", "delay", "reading", "handing", "started", "failed"}
  /\ ws \in {"open", "destroyed"} /\ native \in {"none", "open", "destroyed"}
  /\ wsBuffer \in Seq(Unit) /\ fromBrowser \in Seq(Unit)
  /\ nativeBuffer \in Seq(Unit) /\ fromServer \in Seq(Unit)
  /\ Len(nativeBuffer) < BlockSize
  /\ frames \in Seq(FrameKind) /\ Len(frames) <= MaxFrames
  /\ blocks \in Seq(BlockKind) /\ Len(blocks) <= MaxBlocks

\* The two sockets go together but for a request that is refused; until the
\* listener is there nothing is written, so that the server is silent.
Phases ==
  /\ phase = "request" => ws = "open" /\ native = "none"
  /\ phase = "refused" => ws = "destroyed" /\ (native = "none" \/ (native = "open" /\ "key" \in Request))
  /\ phase = "failed" => ws = "destroyed"
  /\ phase \notin {"request", "refused"} => native = ws
  /\ phase # "started" => up = <<>> /\ down = <<>> /\ Len(blocks) <= 1

Written ==
  /\ Reached(up, frames) /\ Waits(queue, Len(up), frames) /\ (ws = "open" => Unbroken(up))
  /\ down = Numbers(Len(down)) /\ Len(down) \in 0 .. Len(blocks)

\* While the pair is up everything is somewhere.
Taken == Len(down) + (IF phase = "handing" THEN 1 ELSE 0)

Upwards ==
  \E p \in Nat : /\ Carried(wsBuffer \o fromBrowser, FromBrowser(frames), p)
                 /\ Rank(Carrying(frames), p) = Len(up) + Len(queue)

Downwards == Carried(nativeBuffer \o fromServer, FromServer(blocks), Taken)

RelayInv == RelayTypes /\ Phases /\ Written /\ (ws = "open" => Upwards /\ Downwards)

LEMMA RelayInitInv == Init => RelayInv
<1> SUFFICES ASSUME Init PROVE RelayInv
  OBVIOUS
<1>1. /\ phase = "request" /\ ws = "open" /\ native = "none"
      /\ fromBrowser = <<>> /\ fromServer = <<>> /\ wsBuffer = <<>> /\ nativeBuffer = <<>>
      /\ queue = <<>> /\ up = <<>> /\ down = <<>> /\ frames = <<>> /\ blocks = <<>>
  BY DEF Init
<1>2. \A S : <<>> \in Seq(S) /\ Len(<<>>) = 0
  BY EmptySeq
<1>3. RelayTypes /\ Phases
  BY <1>1, <1>2, Size, RelayAssumption DEF RelayTypes, Phases
<1>4. Carrying(frames) = {} /\ Cardinality(Carrying(frames)) = 0 /\ Rank(Carrying(frames), 0) = 0
  <2>1. Carrying(frames) = {}
    BY <1>1 DEF Carrying
  <2>2. {j \in Carrying(frames) : j <= 0} = {}
    BY <2>1
  <2> QED
    BY <2>1, <2>2, FS_EmptySet DEF Rank
<1>5. Numbers(0) = <<>>
  <2>1. Numbers(0) \in Seq(Nat) /\ Len(Numbers(0)) = 0
    BY NumbersAre
  <2> QED
    BY <2>1, EmptySeq
<1>6. Written
  BY <1>1, <1>2, <1>4, <1>5 DEF Written, Waits, Reached, Unbroken
<1>7. FromBrowser(frames) = <<>> /\ FromServer(blocks) = <<>>
  BY <1>1 DEF FromBrowser, FromServer
<1>8. Carried(<<>> \o <<>>, <<>>, 0)
  <2>1. <<>> \o <<>> = <<>> /\ 0 * BlockSize = 0
    BY Size
  <2> QED
    BY <1>2, <2>1 DEF Carried
<1>9. Upwards /\ Downwards
  BY <1>1, <1>2, <1>4, <1>7, <1>8 DEF Upwards, Downwards, Taken
<1> QED
  BY <1>3, <1>6, <1>9 DEF RelayInv

\* A step that only opens or closes, but not out of handing.
LEMMA SocketsInv ==
  ASSUME RelayInv, UNCHANGED buffers, Phases', ws' \in {"open", "destroyed"},
         native' \in {"none", "open", "destroyed"},
         phase' \in {"request", "refused", "delay", "reading", "handing", "started", "failed"},
         ws' = "open" => ws = "open" /\ (phase = "handing" <=> phase' = "handing")
  PROVE  RelayInv'
<1>1. /\ fromBrowser' = fromBrowser /\ fromServer' = fromServer /\ wsBuffer' = wsBuffer
      /\ nativeBuffer' = nativeBuffer /\ queue' = queue /\ up' = up /\ down' = down
      /\ frames' = frames /\ blocks' = blocks
  BY DEF buffers
<1>2. RelayTypes'
  BY <1>1 DEF RelayInv, RelayTypes
<1>3. Written'
  BY <1>1 DEF RelayInv, Written
<1>4. ASSUME ws' = "open" PROVE Upwards' /\ Downwards'
  <2>1. Taken' = Taken
    BY <1>1, <1>4 DEF Taken
  <2>2. Upwards /\ Downwards
    BY <1>4 DEF RelayInv
  <2> QED
    BY <1>1, <2>1, <2>2 DEF Upwards, Downwards
<1> QED
  BY <1>2, <1>3, <1>4 DEF RelayInv

LEMMA UpgradeInv == ASSUME RelayInv, NEW r \in Request, Upgrade(r) PROVE RelayInv'
<1>1. /\ UNCHANGED buffers /\ phase = "request"
      /\ native' = IF r \in {"ok", "key"} THEN "open" ELSE "none"
      /\ ws' = IF r = "ok" THEN "open" ELSE "destroyed"
      /\ phase' = IF r = "ok" THEN "delay" ELSE "refused"
  BY DEF Upgrade
<1>2. Phases'
  <2>1. up' = <<>> /\ down' = <<>> /\ Len(blocks') <= 1
    BY <1>1 DEF RelayInv, Phases, buffers
  <2>2. CASE r = "ok"
    BY <1>1, <2>1, <2>2 DEF Phases
  <2>3. CASE r = "key"
    BY <1>1, <2>1, <2>3 DEF Phases
  <2>4. CASE r \notin {"ok", "key"}
    <3>1. phase' = "refused" /\ ws' = "destroyed" /\ native' = "none"
      BY <1>1, <2>4
    <3> QED
      BY <2>1, <3>1 DEF Phases
  <2> QED
    BY <2>2, <2>3, <2>4
<1> QED
  BY <1>1, <1>2, SocketsInv DEF RelayInv, Phases

LEMMA ClosingInv == ASSUME RelayInv, PairLost \/ ReadTimeout PROVE RelayInv'
<1>1. /\ UNCHANGED buffers /\ ws' = "destroyed" /\ native' = "destroyed"
      /\ phase' = IF phase = "reading" THEN "failed" ELSE phase
      /\ phase \notin {"request", "refused"}
  BY DEF PairLost, ReadTimeout, ClosePair, StartAborted, RelayInv, Phases
<1>2. Phases'
  BY <1>1 DEF RelayInv, Phases, buffers
<1> QED
  BY <1>1, <1>2, SocketsInv DEF RelayInv, RelayTypes

LEMMA DelayInv == ASSUME RelayInv, Delay PROVE RelayInv'
<1>1. /\ UNCHANGED buffers /\ ws' = ws /\ native' = native /\ phase' = "reading" /\ phase = "delay"
  BY DEF Delay
<1>2. Phases'
  BY <1>1 DEF RelayInv, Phases, buffers
<1> QED
  BY <1>1, <1>2, SocketsInv DEF RelayInv, RelayTypes

LEMMA Open ==
  ASSUME RelayInv, native = "open", phase # "refused"
  PROVE  ws = "open" /\ phase \notin {"request", "refused", "failed"} /\ Upwards /\ Downwards
  BY DEF RelayInv, Phases

\* A chunk of the server's stream: what the relay holds begins it.
LEMMA ServerChunk ==
  ASSUME RelayInv, Downwards, NEW n \in 1 .. Len(fromServer)
  PROVE  LET got == nativeBuffer \o SubSeq(fromServer, 1, n)
         IN  /\ got \in Seq(Unit) /\ From(fromServer, n) \in Seq(Unit)
             /\ Carried(got \o From(fromServer, n), FromServer(blocks), Taken)
             /\ Len(got) \in Nat
<1> DEFINE got == nativeBuffer \o SubSeq(fromServer, 1, n)
<1>1. nativeBuffer \in Seq(Unit) /\ fromServer \in Seq(Unit)
  BY DEF RelayInv, RelayTypes
<1>2. /\ got \in Seq(Unit) /\ From(fromServer, n) \in Seq(Unit)
      /\ got \o From(fromServer, n) = nativeBuffer \o fromServer
  BY <1>1, Chunk
<1> HIDE DEF got
<1>3. Carried(got \o From(fromServer, n), FromServer(blocks), Taken) /\ Len(got) \in Nat
  BY <1>2, LenProperties DEF Downwards
<1> QED
  BY <1>2, <1>3 DEF got

LEMMA BlocksLen ==
  ASSUME RelayInv
  PROVE  Len(blocks) \in Nat /\ Len(FromServer(blocks)) = Len(blocks)
<1>1. PICK n \in Nat : n = Len(blocks)
  BY LenProperties DEF RelayInv, RelayTypes
<1>2. FromServer(blocks) = [i \in 1 .. n |-> [kind |-> blocks[i], nr |-> i]]
  BY <1>1 DEF FromServer
<1>3. FromServer(blocks) \in Seq({[kind |-> blocks[i], nr |-> i] : i \in 1 .. n})
  BY <1>2, SeqDef
<1> QED
  BY <1>1, <1>2, <1>3, LenProperties

LEMMA DroppedChunkInv == ASSUME RelayInv, NEW n \in 1 .. Len(fromServer), DroppedChunk(n) PROVE RelayInv'
<1>1. phase = "handing" /\ native = "open"
  BY DEF DroppedChunk
<1>2. Downwards
  BY <1>1, Open
<1>3. down = <<>> /\ Len(blocks) <= 1 /\ Len(down) = 0
  BY <1>1, EmptySeq DEF RelayInv, Phases
<1>4. Taken = 1
  BY <1>1, <1>3 DEF Taken
<1>5. Len(nativeBuffer \o fromServer) = (Len(blocks) - 1) * BlockSize /\ 1 \in 0 .. Len(blocks)
  BY <1>2, <1>4, BlocksLen DEF Downwards, Carried
<1>6. Len(blocks) - 1 = 0 /\ 0 * BlockSize = 0
  BY <1>3, <1>5, BlocksLen, Size
<1>7. Len(nativeBuffer \o fromServer) = 0
  BY <1>5, <1>6
<1>8. Len(fromServer) \in Nat /\ Len(nativeBuffer) \in Nat
      /\ Len(nativeBuffer \o fromServer) = Len(nativeBuffer) + Len(fromServer)
  <2>1. nativeBuffer \in Seq(Unit) /\ fromServer \in Seq(Unit)
    BY DEF RelayInv, RelayTypes
  <2> QED
    BY <2>1, Joined, LenProperties
<1> QED
  BY <1>7, <1>8

LEMMA ReadHandshakeInv ==
  ASSUME RelayInv, NEW n \in 1 .. Len(fromServer), ReadHandshake(n)
  PROVE  RelayInv'
<1> DEFINE got  == nativeBuffer \o SubSeq(fromServer, 1, n)
           rest == From(fromServer, n)
<1>1. phase = "reading" /\ native = "open" /\ ws = "open" /\ Upwards /\ Downwards
  BY Open DEF ReadHandshake
<1>2. /\ fromBrowser' = fromBrowser /\ wsBuffer' = wsBuffer /\ queue' = queue /\ up' = up
      /\ down' = down /\ frames' = frames /\ blocks' = blocks
  BY DEF ReadHandshake
<1>3. /\ got \in Seq(Unit) /\ rest \in Seq(Unit) /\ Len(got) \in Nat
      /\ Carried(got \o rest, FromServer(blocks), Taken)
  BY <1>1, ServerChunk
<1>4. CASE Len(got) < BlockSize
  <2>1. nativeBuffer' = got /\ fromServer' = rest /\ phase' = phase /\ ws' = ws /\ native' = native
    BY <1>4 DEF ReadHandshake
  <2> HIDE DEF got, rest
  <2>2. Downwards'
    BY <1>2, <1>3, <2>1 DEF Downwards, Taken
  <2> QED
    BY <1>1, <1>2, <1>3, <1>4, <2>1, <2>2 DEF RelayInv, RelayTypes, Phases, Written, Upwards
<1>5. CASE ~(Len(got) < BlockSize)
  <2>1. /\ nativeBuffer' = <<>> /\ fromServer' = From(got, BlockSize) \o rest
        /\ \/ phase' = "handing" /\ ws' = ws /\ native' = native
           \/ phase' = "failed" /\ ws' = "destroyed" /\ native' = "destroyed"
    BY <1>5 DEF ReadHandshake, ClosePair
  <2> HIDE DEF got, rest
  <2>2. BlockSize \in 0 .. Len(got)
    BY <1>3, <1>5, Size
  <2>3. fromServer' = From(got \o rest, BlockSize)
    BY <1>3, <2>1, <2>2, FromFirst
  <2>4. down = <<>> /\ Len(down) = 0 /\ Taken = 0
    BY <1>1, EmptySeq DEF RelayInv, Phases, Taken
  <2>5. Carried(From(got \o rest, BlockSize), FromServer(blocks), 1)
    <3>1. Whole(got) \in 0 .. Len(FromServer(blocks)) - 0 /\ Len(got) < Whole(got) * BlockSize + BlockSize
      BY <1>3, <2>4, CarriedCut
    <3>2. Whole(got) # 0
      BY <1>5, <3>1, Size
    <3>3. 1 \in 0 .. Len(FromServer(blocks)) - 0
      BY <3>1, <3>2, BlocksLen
    <3>4. Carried(From(got \o rest, 1 * BlockSize), FromServer(blocks), 0 + 1)
      BY <1>3, <2>4, <3>3, CarriedLess
    <3>5. 1 * BlockSize = BlockSize
      BY Size
    <3> QED
      BY <3>4, <3>5
  <2>6. fromServer' \in Seq(Unit)
    BY <2>3, <2>5 DEF Carried
  <2>7. ws' = "open" => Upwards' /\ Downwards'
    <3> SUFFICES ASSUME ws' = "open" PROVE Upwards' /\ Downwards'
      OBVIOUS
    <3>1. phase' = "handing"
      BY <2>1
    <3>2. Taken' = 1
      BY <1>2, <2>4, <3>1 DEF Taken
    <3>3. nativeBuffer' \o fromServer' = fromServer'
      BY <2>1, <2>6
    <3> QED
      BY <1>1, <1>2, <2>3, <2>5, <3>2, <3>3 DEF Upwards, Downwards
  <2>8. nativeBuffer' \in Seq(Unit) /\ Len(nativeBuffer') = 0
    BY <2>1, EmptySeq
  <2>9. RelayTypes'
    BY <1>1, <1>2, <2>1, <2>6, <2>8, Size DEF RelayInv, RelayTypes
  <2>10. Phases'
    BY <1>1, <1>2, <2>1 DEF RelayInv, Phases
  <2>11. Written'
    BY <1>1, <1>2 DEF RelayInv, Written
  <2> QED
    BY <2>7, <2>9, <2>10, <2>11 DEF RelayInv
<1> QED
  BY <1>4, <1>5

\* Nothing that was written is taken back, and nothing is written when closed.
Grows ==
  /\ Len(up) <= Len(up') /\ Len(down) <= Len(down')
  /\ ws # "open" => up' = up /\ down' = down
  /\ ws' = "open" => ws = "open"

\* The handshake goes out, what waits goes up, and the listener is there.
LEMMA StartStep == ASSUME RelayInv, Start PROVE RelayInv' /\ Grows
<1>1. /\ phase = "handing" /\ phase' = "started" /\ Forward(queue, native)
      /\ down' = IF ws = "open" THEN Append(down, 1) ELSE down
      /\ fromBrowser' = fromBrowser /\ fromServer' = fromServer /\ wsBuffer' = wsBuffer
      /\ nativeBuffer' = nativeBuffer /\ frames' = frames /\ blocks' = blocks
  BY DEF Start
<1>2. /\ native = ws /\ down = <<>> /\ Len(down) = 0
      /\ native \in {"open", "destroyed"} /\ frames \in Seq(FrameKind)
  BY <1>1, EmptySeq DEF RelayInv, RelayTypes, Phases
<1>3. /\ Reached(up', frames) /\ Waits(queue', Len(up'), frames)
      /\ \/ ws' = "destroyed" /\ native' = "destroyed"
         \/ /\ ws' = ws /\ native' = "open" /\ native = "open"
            /\ Len(up') + Len(queue') = Len(up) + Len(queue) /\ Unbroken(up')
      /\ up' # up => native = "open"
      /\ Len(up) <= Len(up')
  <2>1. Reached(up, frames) /\ Waits(queue, Len(up), frames)
    BY DEF RelayInv, Written
  <2>2. Unbroken(up)
    BY <1>1, EmptySeq DEF RelayInv, Phases, Unbroken
  <2> QED
    BY <1>1, <1>2, <2>1, <2>2, ForwardKeeps
<1>4. RelayTypes'
  BY <1>1, <1>3 DEF RelayInv, RelayTypes
<1>5. Phases'
  BY <1>1, <1>2, <1>3 DEF Phases
<1>6. ws = "open" => Len(blocks) \in Nat /\ 1 <= Len(blocks) /\ down' = Numbers(1) /\ Len(down') = 1
  <2> SUFFICES ASSUME ws = "open"
               PROVE  Len(blocks) \in Nat /\ 1 <= Len(blocks) /\ down' = Numbers(1) /\ Len(down') = 1
    OBVIOUS
  <2>1. Carried(nativeBuffer \o fromServer, FromServer(blocks), 1)
    BY <1>1, <1>2 DEF RelayInv, Downwards, Taken
  <2>2. Len(blocks) \in Nat /\ 1 <= Len(blocks)
    BY <2>1, BlocksLen DEF Carried
  <2>3. down' = <<1>> /\ Len(down') = 1
    BY <1>1, <1>2
  <2>4. 1 \in Nat /\ \A i \in 1 .. 1 : i = 1
    OBVIOUS
  <2>5. Numbers(1) = <<1>>
    BY <2>4 DEF Numbers
  <2> QED
    BY <2>2, <2>3, <2>5
<1>7. Written'
  <2>1. Len(down') \in 0 .. Len(blocks) /\ down' = Numbers(Len(down'))
    <3>1. CASE ws = "open"
      <4>1. Len(down') = 1 /\ down' = Numbers(1) /\ 1 \in 0 .. Len(blocks)
        BY <1>6, <3>1
      <4> QED
        BY <4>1, Zenon
    <3>2. CASE ws # "open"
      BY <1>1, <3>2 DEF RelayInv, Written
    <3> QED
      BY <3>1, <3>2
  <2> QED
    BY <1>1, <1>3, <2>1 DEF Written
<1>8. ws' = "open" => Upwards' /\ Downwards'
  <2> SUFFICES ASSUME ws' = "open" PROVE Upwards' /\ Downwards'
    OBVIOUS
  <2>1. ws = "open" /\ Len(up') + Len(queue') = Len(up) + Len(queue) /\ Upwards /\ Downwards
    BY <1>3 DEF RelayInv
  <2>2. Taken = 1 /\ Taken' = 1
    BY <1>1, <1>2, <1>6, <2>1 DEF Taken
  <2> QED
    BY <1>1, <2>1, <2>2 DEF Upwards, Downwards
<1>9. Grows
  BY <1>1, <1>2, <1>3, <1>6 DEF Grows
<1> QED
  BY <1>4, <1>5, <1>7, <1>8, <1>9 DEF RelayInv

LEMMA NativeDataInv ==
  ASSUME RelayInv, NEW n \in 1 .. Len(fromServer), NativeData(n)
  PROVE  RelayInv' /\ Grows
<1> DEFINE buffer == nativeBuffer \o SubSeq(fromServer, 1, n)
           rest   == From(fromServer, n)
           w      == Whole(buffer)
           bad    == {i \in 1 .. w : Cut(buffer, i)[1].kind # "block"}
           good   == IF bad = {} THEN w ELSE Min(bad) - 1
           r      == [i \in 1 .. good |-> Block(Cut(buffer, i)).nr]
           d      == Len(down)
<1>1. /\ phase = "started" /\ native = "open" /\ phase' = phase
      /\ fromBrowser' = fromBrowser /\ wsBuffer' = wsBuffer /\ queue' = queue /\ up' = up
      /\ frames' = frames /\ blocks' = blocks
      /\ fromServer' = rest /\ nativeBuffer' = From(buffer, w * BlockSize)
      /\ down' = down \o r
      /\ \/ bad = {} /\ ws' = ws /\ native' = native
         \/ bad # {} /\ ws' = "destroyed" /\ native' = "destroyed"
  BY DEF NativeData, ClosePair, Rest
<1>2. ws = "open" /\ Upwards /\ Downwards
  BY <1>1, Open
<1>3. buffer \in Seq(Unit) /\ rest \in Seq(Unit) /\ Carried(buffer \o rest, FromServer(blocks), d) /\ Len(buffer) \in Nat
  <2>1. Taken = d
    BY <1>1 DEF Taken, RelayInv, Written
  <2> QED
    BY <1>2, <2>1, ServerChunk
<1>4. d \in Nat /\ d \in 0 .. Len(blocks) /\ down = Numbers(d)
  BY BlocksLen DEF RelayInv, Written
<1> HIDE DEF buffer, rest
<1>5. /\ w \in 0 .. Len(blocks) - d
      /\ \A i \in 1 .. w : Block(Cut(buffer, i)) = FromServer(blocks)[d + i]
      /\ w * BlockSize \in 0 .. Len(buffer) /\ Len(buffer) < w * BlockSize + BlockSize
  BY <1>3, BlocksLen, CarriedCut
<1> HIDE DEF w
<1>6. good \in 0 .. w /\ (bad = {} => good = w)
  <2>1. w \in Nat /\ bad \in SUBSET (1 .. w)
    BY <1>4, <1>5, BlocksLen
  <2> HIDE DEF bad
  <2> QED
    BY <2>1, Leading
<1> HIDE DEF bad, good, d
<1>7. \A i \in 1 .. good : Block(Cut(buffer, i)).nr = d + i
  <2> SUFFICES ASSUME NEW i \in 1 .. good PROVE Block(Cut(buffer, i)).nr = d + i
    OBVIOUS
  <2>1. i \in 1 .. w /\ d + i \in 1 .. Len(blocks)
    BY <1>4, <1>5, <1>6, BlocksLen
  <2>2. FromServer(blocks)[d + i] = [kind |-> blocks[d + i], nr |-> d + i]
    BY <2>1 DEF FromServer
  <2> QED
    BY <1>5, <2>1, <2>2
<1>8. good \in Nat /\ r = [i \in 1 .. good |-> d + i]
  BY <1>5, <1>6, <1>7
<1> HIDE DEF r
<1>9. down' = Numbers(d + good) /\ Len(down') = d + good
  <2>1. down' = Numbers(d + good)
    BY <1>1, <1>4, <1>8, NumbersMore
  <2>2. d + good \in Nat
    BY <1>4, <1>8
  <2> QED
    BY <2>1, <2>2, NumbersAre
<1>10. /\ nativeBuffer' \in Seq(Unit) /\ Len(nativeBuffer') < BlockSize
       /\ nativeBuffer' \o fromServer' = From(buffer \o rest, w * BlockSize)
  <2>1. nativeBuffer' \in Seq(Unit) /\ Len(nativeBuffer') = Len(buffer) - w * BlockSize
    BY <1>1, <1>3, <1>5, FromProperties
  <2>2. nativeBuffer' \o fromServer' = From(buffer \o rest, w * BlockSize)
    BY <1>1, <1>3, <1>5, FromFirst
  <2>3. PICK x \in Nat : x = w * BlockSize /\ Len(buffer) < x + BlockSize
    BY <1>5
  <2>4. Len(buffer) - x < BlockSize
    BY <1>3, <2>3, Size
  <2> QED
    BY <2>1, <2>2, <2>3, <2>4
<1>11. RelayTypes'
  BY <1>1, <1>3, <1>10 DEF RelayInv, RelayTypes
<1>12. Phases'
  BY <1>1, <1>2 DEF RelayInv, Phases
<1>13. Written'
  <2>1. d + good \in 0 .. Len(blocks)
    BY <1>4, <1>5, <1>6, BlocksLen
  <2> QED
    BY <1>1, <1>9, <2>1 DEF RelayInv, Written
<1>14. ws' = "open" => Upwards' /\ Downwards'
  <2> SUFFICES ASSUME ws' = "open" PROVE Upwards' /\ Downwards'
    OBVIOUS
  <2>1. good = w
    BY <1>1, <1>6
  <2>2. Carried(From(buffer \o rest, w * BlockSize), FromServer(blocks), d + w)
    BY <1>3, <1>5, BlocksLen, CarriedLess
  <2>3. Taken' = d + w
    BY <1>1, <1>9, <2>1, <1>4, <1>8 DEF Taken
  <2> QED
    BY <1>1, <1>2, <1>10, <2>2, <2>3 DEF Upwards, Downwards
<1>15. Grows
  <2>1. Len(down) <= Len(down')
    BY <1>4, <1>8, <1>9 DEF d
  <2>2. Len(up) <= Len(up')
    <3>1. Len(up) \in Nat
      BY DEF RelayInv, Written, Waits
    <3> QED
      BY <1>1, <3>1
  <2> QED
    BY <1>1, <1>2, <2>1, <2>2 DEF Grows
<1> QED
  BY <1>11, <1>12, <1>13, <1>14, <1>15 DEF RelayInv

LEMMA BrowserLen ==
  ASSUME RelayInv
  PROVE  Len(frames) \in Nat /\ Len(FromBrowser(frames)) = Len(frames)
<1>1. PICK n \in Nat : n = Len(frames)
  BY LenProperties DEF RelayInv, RelayTypes
<1>2. FromBrowser(frames) = [i \in 1 .. n |-> [kind |-> frames[i], nr |-> Rank(Carrying(frames), i)]]
  BY <1>1 DEF FromBrowser
<1>3. FromBrowser(frames) \in Seq({[kind |-> frames[i], nr |-> Rank(Carrying(frames), i)] : i \in 1 .. n})
  BY <1>2, SeqDef
<1> QED
  BY <1>1, <1>2, <1>3, LenProperties

\* The frames taken are whole ones of the buffer.
LEMMA TakenWhole ==
  ASSUME NEW b \in Seq(Unit)
  PROVE  (IF Stops(b) = {} THEN Whole(b) ELSE Min(Stops(b)) - 1) \in 0 .. Whole(b)
<1> DEFINE w == Whole(b)
           s == Stops(b)
<1>1. Len(b) \in Nat
  BY LenProperties
<1>2. w \in Nat /\ w * BlockSize \in Nat /\ Len(b) < w * BlockSize + BlockSize
  <2>1. w \in Nat /\ Len(b) < w * BlockSize + BlockSize
    BY <1>1, Split DEF Whole
  <2> QED
    BY <2>1, Times
<1>3. ASSUME NEW i \in s PROVE i \in Nat /\ 1 <= i /\ i - 1 <= w
  <2>1. i \in Nat /\ 1 <= i /\ (i <= w \/ (i - 1) * BlockSize < Len(b))
    BY <1>2 DEF Stops
  <2>2. CASE i <= w
    BY <1>2, <2>1, <2>2
  <2>3. CASE (i - 1) * BlockSize < Len(b)
    <3>1. PICK k \in Nat : k = i - 1
      BY <2>1
    <3>2. k * BlockSize < w * BlockSize + BlockSize /\ k * BlockSize \in Nat
      <4>1. k * BlockSize < Len(b)
        BY <2>3, <3>1
      <4>2. k * BlockSize \in Nat
        BY Times
      <4> QED
        BY <1>1, <1>2, <4>1, <4>2, Size
    <3>3. w < k => w * BlockSize + BlockSize <= k * BlockSize
      BY <1>2, Times
    <3>4. ~(w < k)
      BY <1>2, <3>2, <3>3, Size
    <3> QED
      BY <1>2, <2>1, <3>1, <3>4
  <2> QED
    BY <2>1, <2>2, <2>3
<1> HIDE DEF s, w
<1>4. CASE s = {}
  BY <1>2, <1>4 DEF s, w
<1>5. CASE s # {}
  <2>1. PICK x \in s : \A y \in s : x <= y
    <3>1. s \subseteq Nat
      BY <1>3
    <3> QED
      BY <1>5, <3>1, LeastOf
  <2>2. Min(s) \in s
    BY <2>1 DEF Min
  <2>3. Min(s) - 1 \in 0 .. w
    BY <1>2, <1>3, <2>2
  <2> QED
    BY <1>5, <2>3 DEF s, w
<1> QED
  BY <1>4, <1>5

LEMMA BrowserChunk ==
  ASSUME RelayInv, NEW n \in 1 .. Len(fromBrowser)
  PROVE  LET buffer == wsBuffer \o SubSeq(fromBrowser, 1, n)
             rest   == From(fromBrowser, n)
         IN  buffer \in Seq(Unit) /\ rest \in Seq(Unit) /\ buffer \o rest = wsBuffer \o fromBrowser
<1>1. wsBuffer \in Seq(Unit) /\ fromBrowser \in Seq(Unit)
  BY DEF RelayInv, RelayTypes
<1>2. /\ wsBuffer \o SubSeq(fromBrowser, 1, n) \in Seq(Unit)
      /\ From(fromBrowser, n) \in Seq(Unit)
      /\ (wsBuffer \o SubSeq(fromBrowser, 1, n)) \o From(fromBrowser, n) = wsBuffer \o fromBrowser
  BY <1>1, Chunk
<1> QED
  BY <1>2

LEMMA WsDataInv ==
  ASSUME RelayInv, NEW n \in 1 .. Len(fromBrowser), WsData(n)
  PROVE  RelayInv' /\ Grows
<1> DEFINE buffer == wsBuffer \o SubSeq(fromBrowser, 1, n)
           rest   == From(fromBrowser, n)
           stops  == Stops(buffer)
           taken  == IF stops = {} THEN Whole(buffer) ELSE Min(stops) - 1
           now    == IF stops = {} THEN native ELSE "destroyed"
           q      == queue \o Binary(buffer, taken)
           P      == Carrying(frames)
<1>1. /\ phase \in {"delay", "reading", "handing", "started"} /\ ws = "open"
      /\ fromBrowser' = rest /\ wsBuffer' = From(buffer, taken * BlockSize)
      /\ Forward(q, now)
      /\ fromServer' = fromServer /\ nativeBuffer' = nativeBuffer /\ down' = down
      /\ frames' = frames /\ blocks' = blocks
      /\ phase' = IF stops # {} /\ phase = "reading" THEN "failed" ELSE phase
  BY DEF WsData, StartAborted
<1>2. /\ native = "open" /\ Upwards /\ Downwards
      /\ now = (IF stops = {} THEN "open" ELSE "destroyed") /\ now \in {"open", "destroyed"}
  BY <1>1 DEF RelayInv, Phases
<1>3. PICK p \in Nat : /\ Carried(wsBuffer \o fromBrowser, FromBrowser(frames), p)
                       /\ Rank(P, p) = Len(up) + Len(queue)
  BY <1>2 DEF Upwards
<1>4. /\ buffer \in Seq(Unit) /\ rest \in Seq(Unit)
      /\ Carried(buffer \o rest, FromBrowser(frames), p)
      /\ Len(buffer) \in Nat
  <2>1. buffer \in Seq(Unit) /\ rest \in Seq(Unit) /\ buffer \o rest = wsBuffer \o fromBrowser
    BY BrowserChunk
  <2> QED
    BY <1>3, <2>1, LenProperties
<1>5. taken \in 0 .. Whole(buffer)
  BY <1>4, TakenWhole
<1>6. frames \in Seq(FrameKind) /\ Reached(up, frames) /\ Waits(queue, Len(up), frames) /\ Unbroken(up)
  BY <1>1 DEF RelayInv, RelayTypes, Written
<1> HIDE DEF buffer, rest, stops, taken, now, q, P
<1>7. /\ Waits(q, Len(up), frames) /\ p + taken \in 0 .. Len(frames)
      /\ Len(up) + Len(q) = Rank(P, p + taken)
  <2>1. /\ Waits(Binary(buffer, taken), Rank(P, p), frames)
        /\ p + taken \in 0 .. Len(frames)
        /\ Rank(P, p) + Len(Binary(buffer, taken)) = Rank(P, p + taken)
    BY <1>4, <1>5, <1>6, BinaryWaits DEF P
  <2>2. Waits(q, Len(up), frames) /\ Len(q) = Len(queue) + Len(Binary(buffer, taken))
    BY <1>3, <1>6, <2>1, WaitsJoined DEF q
  <2>3. Len(up) \in Nat /\ Len(queue) \in Nat /\ Len(Binary(buffer, taken)) \in Nat
    BY <1>6, <2>1, LenProperties DEF Waits
  <2> QED
    BY <1>3, <2>1, <2>2, <2>3
<1>8. /\ Reached(up', frames) /\ Waits(queue', Len(up'), frames)
      /\ \/ ws' = "destroyed" /\ native' = "destroyed"
         \/ /\ ws' = ws /\ native' = "open" /\ now = "open"
            /\ Len(up') + Len(queue') = Len(up) + Len(q) /\ Unbroken(up')
      /\ up' # up => phase' \in {"started", "failed"} /\ now = "open"
      /\ Len(up) <= Len(up')
  BY <1>1, <1>2, <1>6, <1>7, ForwardKeeps
<1>9. /\ wsBuffer' \in Seq(Unit) /\ fromBrowser' \in Seq(Unit)
      /\ Carried(wsBuffer' \o fromBrowser', FromBrowser(frames), p + taken)
  <2>1. /\ Whole(buffer) \in 0 .. Len(FromBrowser(frames)) - p
        /\ Whole(buffer) * BlockSize \in 0 .. Len(buffer)
    BY <1>4, CarriedCut
  <2>2. p \in 0 .. Len(FromBrowser(frames)) /\ Len(FromBrowser(frames)) \in Nat
    BY <1>3, BrowserLen DEF Carried
  <2>3. taken \in 0 .. Len(FromBrowser(frames)) - p
    BY <1>5, <2>1, <2>2
  <2>4. taken * BlockSize \in 0 .. Len(buffer)
    <3>1. PICK w \in Nat : w = Whole(buffer)
      BY <2>1, <2>2
    <3>2. taken \in Nat /\ (taken < w \/ taken = w)
      BY <1>5, <3>1
    <3>3. taken * BlockSize \in Nat /\ w * BlockSize \in Nat
          /\ (taken < w => taken * BlockSize + BlockSize <= w * BlockSize)
      BY <3>2, Times
    <3>4. w * BlockSize <= Len(buffer)
      BY <2>1, <3>1
    <3>5. taken * BlockSize <= w * BlockSize
      <4>1. CASE taken = w
        BY <3>3, <4>1
      <4>2. CASE taken < w
        BY <3>3, <4>2, Size
      <4> QED
        BY <3>2, <4>1, <4>2
    <3> QED
      BY <1>4, <3>3, <3>4, <3>5
  <2>5. wsBuffer' \in Seq(Unit)
    BY <1>1, <1>4, <2>4, FromProperties
  <2>6. wsBuffer' \o fromBrowser' = From(buffer \o rest, taken * BlockSize)
    BY <1>1, <1>4, <2>4, FromFirst
  <2>7. Carried(From(buffer \o rest, taken * BlockSize), FromBrowser(frames), p + taken)
    BY <1>4, <2>3, CarriedLess
  <2> QED
    BY <1>1, <1>4, <2>5, <2>6, <2>7
<1>10. RelayTypes'
  BY <1>1, <1>8, <1>9 DEF RelayInv, RelayTypes
<1>11. Phases'
  <2>1. phase' # "started" => phase # "started" /\ up' = up
    BY <1>1, <1>2, <1>8
  <2>2. phase' = "failed" => ws' = "destroyed"
    <3>1. phase' = "failed" => now = "destroyed"
      BY <1>1, <1>2
    <3> QED
      BY <1>8, <3>1
  <2> QED
    BY <1>1, <1>8, <2>1, <2>2 DEF RelayInv, Phases
<1>12. Written'
  BY <1>1, <1>8 DEF RelayInv, Written
<1>13. ws' = "open" => Upwards' /\ Downwards'
  <2> SUFFICES ASSUME ws' = "open" PROVE Upwards' /\ Downwards'
    OBVIOUS
  <2>1. Len(up') + Len(queue') = Rank(P, p + taken) /\ now = "open"
    BY <1>7, <1>8
  <2>2. phase' = phase /\ Taken' = Taken
    BY <1>1, <1>2, <2>1 DEF Taken
  <2>3. p + taken \in Nat
    BY <1>7, BrowserLen
  <2>4. Upwards'
    BY <1>1, <1>9, <2>1, <2>3 DEF Upwards, P
  <2> QED
    BY <1>1, <1>2, <2>2, <2>4 DEF Downwards
<1>14. Grows
  <2>1. Len(down) \in Nat
    BY BlocksLen DEF RelayInv, Written
  <2> QED
    BY <1>1, <1>8, <2>1 DEF Grows
<1> QED
  BY <1>10, <1>11, <1>12, <1>13, <1>14 DEF RelayInv

LEMMA BrowserSendsInv == ASSUME RelayInv, NEW kind \in FrameKind, BrowserSends(kind) PROVE RelayInv'
<1> DEFINE x == [kind |-> kind, nr |-> Cardinality(Carrying(frames'))]
<1>1. /\ ws = "open" /\ native = "open" /\ Len(frames) < MaxFrames
      /\ frames' = Append(frames, kind) /\ fromBrowser' = fromBrowser \o Units(x.kind, x.nr)
      /\ phase' = phase /\ ws' = ws /\ native' = native /\ fromServer' = fromServer
      /\ wsBuffer' = wsBuffer /\ nativeBuffer' = nativeBuffer /\ queue' = queue
      /\ up' = up /\ down' = down /\ blocks' = blocks
  BY DEF BrowserSends, Connected
<1>2. /\ frames \in Seq(FrameKind) /\ Upwards /\ Downwards /\ Waits(queue, Len(up), frames)
      /\ Reached(up, frames) /\ wsBuffer \in Seq(Unit) /\ fromBrowser \in Seq(Unit)
  BY <1>1 DEF RelayInv, RelayTypes, Written
<1>3. frames' \in Seq(FrameKind) /\ Len(frames') = Len(frames) + 1 /\ Len(frames) \in Nat
  BY <1>1, <1>2, AppendProperties, LenProperties
<1>4. x \in Message /\ FromBrowser(frames') = Append(FromBrowser(frames), x)
  BY <1>1, <1>2, FromBrowserMore
<1> HIDE DEF x
<1>5. fromBrowser' \in Seq(Unit) /\ wsBuffer' \o fromBrowser' = (wsBuffer \o fromBrowser) \o Units(x.kind, x.nr)
  <2>1. Units(x.kind, x.nr) \in Seq(Unit)
    BY <1>4, UnitsAre
  <2>2. fromBrowser \o Units(x.kind, x.nr) \in Seq(Unit)
    BY <1>2, <2>1, Joined
  <2>3. wsBuffer \o (fromBrowser \o Units(x.kind, x.nr)) = (wsBuffer \o fromBrowser) \o Units(x.kind, x.nr)
    BY <1>2, <2>1, Associates
  <2> QED
    BY <1>1, <1>4, <2>2, <2>3
<1>6. Upwards'
  <2>1. PICK p \in Nat : /\ Carried(wsBuffer \o fromBrowser, FromBrowser(frames), p)
                         /\ Rank(Carrying(frames), p) = Len(up) + Len(queue)
    BY <1>2 DEF Upwards
  <2>2. Carried(wsBuffer' \o fromBrowser', FromBrowser(frames'), p)
    BY <1>4, <1>5, <2>1, CarriedMore
  <2>3. p \in 0 .. Len(frames)
    BY <2>1, BrowserLen DEF Carried
  <2>4. Rank(Carrying(frames'), p) = Rank(Carrying(frames), p)
    BY <1>1, <1>2, <2>3, CarryingMore
  <2> QED
    BY <1>1, <2>1, <2>2, <2>4 DEF Upwards
<1>7. Waits(queue, Len(up), frames') /\ Reached(up, frames')
  BY <1>1, <1>2, WaitsMore, ReachedMore
<1>8. RelayTypes'
  BY <1>1, <1>3, <1>5, RelayAssumption DEF RelayInv, RelayTypes
<1>9. Phases' /\ Written' /\ Downwards'
  BY <1>1, <1>2, <1>7 DEF RelayInv, Phases, Written, Downwards, Taken
<1> QED
  BY <1>6, <1>8, <1>9 DEF RelayInv

LEMMA ServerSendsInv == ASSUME RelayInv, NEW kind \in BlockKind, ServerSends(kind) PROVE RelayInv'
<1> DEFINE x == [kind |-> kind, nr |-> Len(blocks) + 1]
<1>1. /\ ws = "open" /\ native = "open" /\ Len(blocks) < MaxBlocks
      /\ blocks # <<>> => up # <<>>
      /\ blocks' = Append(blocks, kind) /\ fromServer' = fromServer \o Units(kind, Len(blocks'))
      /\ phase' = phase /\ ws' = ws /\ native' = native /\ fromBrowser' = fromBrowser
      /\ wsBuffer' = wsBuffer /\ nativeBuffer' = nativeBuffer /\ queue' = queue
      /\ up' = up /\ down' = down /\ frames' = frames
  BY DEF ServerSends, Connected
<1>2. /\ blocks \in Seq(BlockKind) /\ Upwards /\ Downwards
      /\ nativeBuffer \in Seq(Unit) /\ fromServer \in Seq(Unit)
  BY <1>1 DEF RelayInv, RelayTypes
<1>3. blocks' \in Seq(BlockKind) /\ Len(blocks') = Len(blocks) + 1 /\ Len(blocks) \in Nat
  BY <1>1, <1>2, AppendProperties, LenProperties
<1>4. x \in Message /\ FromServer(blocks') = Append(FromServer(blocks), x) /\ fromServer' = fromServer \o Units(x.kind, x.nr)
  BY <1>1, <1>2, <1>3, FromServerMore
<1> HIDE DEF x
<1>5. fromServer' \in Seq(Unit) /\ nativeBuffer' \o fromServer' = (nativeBuffer \o fromServer) \o Units(x.kind, x.nr)
  <2>1. Units(x.kind, x.nr) \in Seq(Unit)
    BY <1>4, UnitsAre
  <2>2. fromServer \o Units(x.kind, x.nr) \in Seq(Unit)
    BY <1>2, <2>1, Joined
  <2>3. nativeBuffer \o (fromServer \o Units(x.kind, x.nr)) = (nativeBuffer \o fromServer) \o Units(x.kind, x.nr)
    BY <1>2, <2>1, Associates
  <2> QED
    BY <1>1, <1>4, <2>2, <2>3
<1>6. Downwards'
  <2>1. Carried(nativeBuffer' \o fromServer', FromServer(blocks'), Taken)
    BY <1>2, <1>4, <1>5, CarriedMore DEF Downwards
  <2> QED
    BY <1>1, <2>1 DEF Downwards, Taken
<1>7. RelayTypes'
  BY <1>1, <1>3, <1>5, RelayAssumption DEF RelayInv, RelayTypes
<1>8. Phases'
  <2>1. phase # "started" => Len(blocks') <= 1
    <3> SUFFICES ASSUME phase # "started" PROVE Len(blocks') <= 1
      OBVIOUS
    <3>1. blocks = <<>>
      BY <1>1 DEF RelayInv, Phases
    <3>2. Len(blocks) = 0
      BY <3>1, EmptySeq
    <3> QED
      BY <1>3, <3>2
  <2> QED
    BY <1>1, <2>1 DEF RelayInv, Phases
<1>9. Written' /\ Upwards'
  BY <1>1, <1>2, <1>3 DEF RelayInv, Written, Upwards
<1> QED
  BY <1>6, <1>7, <1>8, <1>9 DEF RelayInv

LEMMA RelayStepInv == ASSUME RelayInv, [Next]_vars PROVE RelayInv'
<1>1. ASSUME UNCHANGED vars PROVE RelayInv'
  <2>1. Phases'
    BY <1>1 DEF RelayInv, Phases, vars
  <2> QED
    BY <1>1, <2>1, SocketsInv DEF vars, buffers, RelayInv, RelayTypes
<1>2. ASSUME Arrives PROVE RelayInv'
  BY <1>2, ReadHandshakeInv, DroppedChunkInv, NativeDataInv, WsDataInv DEF Arrives
<1> QED
  BY <1>1, <1>2, UpgradeInv, ClosingInv, DelayInv, StartStep, BrowserSendsInv, ServerSendsInv DEF Next

\* Everything that was sent is written, waits or is in flight, whole and in
\* order, after every step of the relay.
THEOREM RelayInvariant == Spec => []RelayInv
<1>1. RelayInv /\ [Next]_vars => RelayInv'
  BY RelayStepInv
<1> QED
  BY <1>1, RelayInitInv, PTL DEF Spec

\* The phases and the sockets keep to their values, the nativeBuffer of the
\* relay never holds a whole block, and only the numbers of blocks that were
\* sent are ever written.
THEOREM RelayTypesOK == Spec => []TypeOK
<1>1. RelayInv => TypeOK
  <2> SUFFICES ASSUME RelayInv PROVE TypeOK
    OBVIOUS
  <2>1. Len(frames) \in Nat /\ Len(blocks) \in Nat /\ MaxFrames \in Nat /\ MaxBlocks \in Nat
    BY BrowserLen, BlocksLen, RelayAssumption
  <2>2. up \in Seq(0 .. MaxFrames)
    <3>1. Reached(up, frames) /\ frames \in Seq(FrameKind) /\ Len(frames) <= MaxFrames
      BY DEF RelayInv, RelayTypes, Written
    <3>2. PICK a \in Nat, n \in Nat : a = Len(up) /\ n = Cardinality(Carrying(frames)) /\ n <= Len(frames)
      BY <3>1, CarryingPlaces DEF Reached
    <3>3. /\ up \in Seq(Nat) /\ a <= MaxFrames
          /\ \A i \in 1 .. a, m \in Carrying(frames) :
               Rank(Carrying(frames), m) = i => up[i] = NativeBlock(frames[m], i)
      BY <2>1, <3>1, <3>2 DEF Reached
    <3>4. ASSUME NEW i \in 1 .. a PROVE up[i] \in 0 .. MaxFrames
      <4>1. i \in 1 .. Cardinality(Carrying(frames))
        BY <3>1, <3>2 DEF Reached
      <4>2. Len(frames) \in Nat /\ \A j \in Carrying(frames) : j \in Nat /\ 1 <= j /\ j <= Len(frames)
        BY <3>1, CarryingPlaces
      <4>3. PICK m \in Carrying(frames) : Rank(Carrying(frames), m) = i
        BY <4>1, <4>2, Places
      <4>4. up[i] = NativeBlock(frames[m], i)
        BY <3>3, <4>3
      <4> QED
        BY <2>1, <3>3, <4>4 DEF NativeBlock
    <3>5. up \in [1 .. a -> 0 .. MaxFrames]
      <4>1. up \in [1 .. a -> Nat]
        BY <3>2, <3>3, LenProperties
      <4> QED
        BY <3>4, <4>1
    <3> QED
      BY <3>5, SeqDef
  <2>4. down = Numbers(Len(down)) /\ Len(down) \in Nat /\ Len(down) <= MaxBlocks
    BY <2>1 DEF RelayInv, RelayTypes, Written
  <2>5. down \in Seq(1 .. MaxBlocks)
    BY <2>1, <2>4, NumbersAre
  <2> QED
    BY <2>2, <2>5 DEF RelayInv, RelayTypes, TypeOK
<1> QED
  BY <1>1, RelayInvariant, PTL

\* On every path that ends closePair is called: no native stream is left open
\* behind a browser that is gone, if the upgrade has its Sec-WebSocket-Key (for
\* one without, see NoHalfPair in MCNativeRelay's second run).
THEOREM SocketsGoTogether == ASSUME "key" \notin Request PROVE Spec => []NoHalfPair
<1>1. RelayInv => NoHalfPair
  BY DEF RelayInv, RelayTypes, Phases, NoHalfPair
<1> QED
  BY <1>1, RelayInvariant, PTL

\* The blocks of what is carried to its end.
LEMMA CarriedBlocks ==
  ASSUME NEW s \in Seq(Unit), NEW M, NEW p, Carried(s, M, p)
  PROVE  \A i \in 1 .. Whole(s) : Block(Cut(s, i)) = M[p + i]
<1>1. PICK e \in Seq(Unit) : s \o e = s
  <2>1. <<>> \in Seq(Unit) /\ s \o <<>> = s
    OBVIOUS
  <2> QED
    BY <2>1
<1>2. Carried(s \o e, M, p)
  BY <1>1
<1> QED
  BY <1>2, CarriedCut

\* While the pair is up, what was written, waits and is in flight is all that
\* each end sent, however the chunks fall: the gap between readExact and the
\* listener of startNativeConnection loses nothing, as the server is silent
\* until it has the browser's first block, and that waits for started.
THEOREM NothingIsDropped == Spec => []NothingDropped
<1>1. RelayInv => NothingDropped
  <2> SUFFICES ASSUME RelayInv, native = "open", ws = "open" PROVE NothingDropped
    BY DEF NothingDropped
  <2> DEFINE s    == wsBuffer \o fromBrowser
             t    == nativeBuffer \o fromServer
             kept == queue \o Binary(s, Whole(s))
             P    == Carrying(frames)
  <2>1. Upwards /\ Downwards /\ Written /\ frames \in Seq(FrameKind)
    BY DEF RelayInv, RelayTypes
  <2>2. up \o [i \in 1 .. Len(kept) |-> kept[i].nr] = Numbers(Cardinality(P))
    <3>1. PICK p \in Nat : Carried(s, FromBrowser(frames), p) /\ Rank(P, p) = Len(up) + Len(queue)
      BY <2>1 DEF Upwards
    <3>2. s \in Seq(Unit) /\ <<>> \in Seq(Unit) /\ s \o <<>> = s
      BY <3>1 DEF Carried
    <3>3. Len(s) = (Len(frames) - p) * BlockSize /\ p \in 0 .. Len(frames) /\ Len(frames) \in Nat
      BY <3>1, BrowserLen DEF Carried
    <3>4. Whole(s) = Len(frames) - p /\ Whole(s) \in 0 .. Whole(s)
      <4>1. PICK c \in Nat : c = Len(frames) - p
        <5>1. Len(frames) - p \in Nat
          BY <3>3
        <5> QED
          BY <5>1
      <4>2. Whole(s) = c
        BY <3>3, <4>1, SplitWhole DEF Whole
      <4> QED
        BY <4>1, <4>2
    <3> HIDE DEF s
    <3>5. /\ Waits(Binary(s, Whole(s)), Rank(P, p), frames)
          /\ Rank(P, p) + Len(Binary(s, Whole(s))) = Rank(P, p + Whole(s))
      <4>1. PICK e \in Seq(Unit) : s \o e = s
        BY <3>2
      <4>2. Carried(s \o e, FromBrowser(frames), p)
        BY <3>1, <4>1
      <4> QED
        BY <2>1, <3>2, <3>4, <4>2, BinaryWaits
    <3>6. Rank(P, p + Whole(s)) = Cardinality(P)
      <4>1. p + Whole(s) = Len(frames)
        BY <3>3, <3>4
      <4>2. Len(frames) \in Nat /\ \A j \in P : j \in Nat /\ 1 <= j /\ j <= Len(frames)
        BY <2>1, CarryingPlaces
      <4> HIDE DEF P
      <4>3. Rank(P, Len(frames)) = Cardinality(P)
        BY <4>2, Ranks
      <4> QED
        BY <4>1, <4>3
    <3>7. Waits(kept, Len(up), frames) /\ Len(kept) = Len(queue) + Len(Binary(s, Whole(s)))
      BY <2>1, <3>1, <3>5, WaitsJoined DEF Written
    <3>8. Len(up) \in Nat /\ Len(queue) \in Nat /\ Len(Binary(s, Whole(s))) \in Nat /\ Len(kept) \in Nat
      BY <2>1, <3>5, <3>7, LenProperties DEF Written, Waits
    <3>9. Len(up) + Len(kept) = Cardinality(P)
      BY <3>1, <3>5, <3>6, <3>7, <3>8
    <3> HIDE DEF kept, P
    <3>10. [i \in 1 .. Len(kept) |-> kept[i].nr] = [i \in 1 .. Len(kept) |-> Len(up) + i]
      BY <3>7 DEF Waits
    <3>11. up = Numbers(Len(up))
      BY <2>1, UnbrokenNumbers DEF Written
    <3>12. Numbers(Len(up)) \o [i \in 1 .. Len(kept) |-> kept[i].nr] = Numbers(Len(up) + Len(kept))
      BY <3>8, <3>10, NumbersMore
    <3> QED
      BY <3>9, <3>11, <3>12
  <2>3. down \o (IF phase = "handing" THEN <<1>> ELSE <<>>) \o [i \in 1 .. Whole(t) |-> Block(Cut(t, i)).nr]
          = Numbers(Len(blocks))
    <3> DEFINE h == IF phase = "handing" THEN <<1>> ELSE <<>>
               w == Whole(t)
               r == [i \in 1 .. w |-> Block(Cut(t, i)).nr]
    <3>1. /\ Carried(t, FromServer(blocks), Taken) /\ Len(blocks) \in Nat /\ down = Numbers(Len(down))
          /\ Len(FromServer(blocks)) = Len(blocks) /\ Len(down) \in Nat /\ Taken \in Nat
      BY <2>1, BlocksLen DEF Downwards, Written, Taken
    <3>2. t \in Seq(Unit) /\ <<>> \in Seq(Unit) /\ t \o <<>> = t
      BY <3>1 DEF Carried
    <3>3. Len(t) = (Len(blocks) - Taken) * BlockSize /\ Taken \in 0 .. Len(blocks)
      BY <3>1 DEF Carried
    <3>4. w = Len(blocks) - Taken /\ w \in Nat
      <4>1. PICK c \in Nat : c = Len(blocks) - Taken
        BY <3>1, <3>3
      <4>2. w = c
        BY <3>3, <4>1, SplitWhole DEF Whole
      <4> QED
        BY <4>1, <4>2
    <3> HIDE DEF t
    <3>5. \A i \in 1 .. w : Block(Cut(t, i)) = FromServer(blocks)[Taken + i]
      BY <3>1, <3>2, CarriedBlocks
    <3> HIDE DEF w
    <3>6. \A i \in 1 .. w : Block(Cut(t, i)).nr = Taken + i
      <4> SUFFICES ASSUME NEW i \in 1 .. w PROVE Block(Cut(t, i)).nr = Taken + i
        OBVIOUS
      <4>1. Taken + i \in 1 .. Len(blocks)
        BY <3>1, <3>3, <3>4
      <4>2. FromServer(blocks)[Taken + i] = [kind |-> blocks[Taken + i], nr |-> Taken + i]
        BY <4>1 DEF FromServer
      <4> QED
        BY <3>5, <4>2
    <3>7. r = [i \in 1 .. w |-> Taken + i]
      BY <3>6
    <3>8. down \o h = Numbers(Taken)
      <4>1. CASE phase = "handing"
        <5>1. down = <<>> /\ Len(down) = 0
          BY <4>1, EmptySeq DEF RelayInv, Phases
        <5>2. Taken = 1 /\ h = <<1>> /\ down \o h = <<1>>
          BY <4>1, <5>1 DEF Taken
        <5>3. 1 \in Nat /\ \A i \in 1 .. 1 : i = 1
          OBVIOUS
        <5>4. Numbers(1) = <<1>>
          BY <5>3 DEF Numbers
        <5> QED
          BY <5>2, <5>4
      <4>2. CASE phase # "handing"
        <5>1. Taken = Len(down) /\ h = <<>>
          BY <3>1, <4>2 DEF Taken
        <5>2. Numbers(Len(down)) \in Seq(Nat)
          BY <3>1, NumbersAre
        <5>3. down \in Seq(Nat)
          BY <3>1, <5>2
        <5>4. down \o h = down
          BY <5>1, <5>3
        <5> QED
          BY <3>1, <5>1, <5>4
      <4> QED
        BY <4>1, <4>2
    <3> HIDE DEF r, h
    <3>9. Numbers(Taken) \o r = Numbers(Taken + w)
      BY <3>1, <3>4, <3>7, NumbersMore
    <3>10. Taken + w = Len(blocks)
      BY <3>1, <3>3, <3>4
    <3>11. (down \o h) \o r = Numbers(Len(blocks))
      BY <3>8, <3>9, <3>10
    <3> QED
      BY <3>11 DEF h, r, w
  <2> QED
    BY <2>2, <2>3 DEF NothingDropped
<1> QED
  BY <1>1, RelayInvariant, PTL

-----------------------------------------------------------------------------
(* The pipe.                                                               *)

LEMMA GrowsStep == ASSUME RelayInv, [Next]_vars PROVE Grows
<1>1. Len(up) \in Nat /\ Len(down) \in Nat
  BY BlocksLen DEF RelayInv, Written, Reached
<1>2. ASSUME up' = up, down' = down, ws' = ws \/ ws' = "destroyed" \/ ws = "open" PROVE Grows
  BY <1>1, <1>2 DEF Grows
<1>3. CASE UNCHANGED vars
  BY <1>2, <1>3 DEF vars
<1>4. ASSUME NEW r \in Request, Upgrade(r) PROVE Grows
  <2>1. ws = "open"
    BY <1>4 DEF Upgrade, RelayInv, Phases
  <2> QED
    BY <1>2, <1>4, <2>1 DEF Upgrade, buffers
<1>5. CASE PairLost \/ Delay \/ ReadTimeout
  BY <1>2, <1>5 DEF PairLost, Delay, ReadTimeout, ClosePair, buffers
<1>6. CASE Arrives
  <2>1. ASSUME NEW n \in 1 .. Len(fromServer), ReadHandshake(n) \/ DroppedChunk(n) PROVE Grows
    BY <1>2, <2>1 DEF ReadHandshake, DroppedChunk, ClosePair
  <2> QED
    BY <1>6, <2>1, NativeDataInv, WsDataInv DEF Arrives
<1>7. ASSUME NEW kind \in FrameKind, BrowserSends(kind) PROVE Grows
  BY <1>2, <1>7 DEF BrowserSends
<1>8. ASSUME NEW kind \in BlockKind, ServerSends(kind) PROVE Grows
  BY <1>2, <1>8 DEF ServerSends
<1> QED
  BY <1>3, <1>4, <1>5, <1>6, <1>7, <1>8, StartStep DEF Next

LEMMA SendsStep ==
  ASSUME RelayInv, [Next]_vars
  PROVE  /\ frames' = frames \/ \E k \in FrameKind : frames' = Append(frames, k)
         /\ blocks' = blocks \/ \E k \in BlockKind : blocks' = Append(blocks, k)
<1>1. CASE UNCHANGED vars
  BY <1>1 DEF vars
<1>2. ASSUME NEW r \in Request, Upgrade(r) PROVE frames' = frames /\ blocks' = blocks
  BY <1>2 DEF Upgrade, buffers
<1>3. ASSUME PairLost \/ Delay \/ ReadTimeout \/ Start PROVE frames' = frames /\ blocks' = blocks
  BY <1>3 DEF PairLost, Delay, ReadTimeout, Start, buffers
<1>4. ASSUME Arrives PROVE frames' = frames /\ blocks' = blocks
  BY <1>4 DEF Arrives, ReadHandshake, DroppedChunk, NativeData, WsData
<1> QED
  BY <1>1, <1>2, <1>3, <1>4 DEF Next, BrowserSends, ServerSends

LEMMA NumbersPrefix ==
  ASSUME NEW n \in Nat, NEW m \in Nat, n <= m
  PROVE  IsPrefix(Numbers(n), Numbers(m))
<1>1. /\ Numbers(n) \in Seq(Nat) /\ Len(Numbers(n)) = n /\ \A i \in 1 .. n : Numbers(n)[i] = i
  BY NumbersAre
<1>2. /\ Numbers(m) \in Seq(Nat) /\ Len(Numbers(m)) = m /\ \A i \in 1 .. m : Numbers(m)[i] = i
  BY NumbersAre
<1> QED
  BY <1>1, <1>2 DEF IsPrefix

\* What was written is the front of what was sent, and unbroken while the
\* pair is up.
Within ==
  /\ Reached(up, frames) /\ frames \in Seq(FrameKind) /\ (ws = "open" => Unbroken(up))
  /\ Len(down) \in Nat /\ Len(blocks) \in Nat /\ Len(down) <= Len(blocks) /\ down = Numbers(Len(down))

LEMMA WithinSent == ASSUME RelayInv PROVE Within
  BY BlocksLen DEF RelayInv, RelayTypes, Written, Within

\* The relay implements BlockPipe: every step of it is one of the pipe or leaves
\* the pipe alone.  Nothing is written that was not sent, nothing out of order
\* and nothing after the close; none that is badly padded, and what is behind
\* one only in the step that closes the pair.
THEOREM RelayIsAPipe == Spec => PipeSpec
<1>1. Init => Pipe!PipeInit
  <2> SUFFICES ASSUME Init PROVE Pipe!PipeInit
    OBVIOUS
  <2>1. /\ up = <<>> /\ down = <<>> /\ frames = <<>> /\ blocks = <<>>
        /\ ws = "open" /\ native = "none"
    BY DEF Init
  <2>2. SentUp = <<>>
    <3>1. Carrying(frames) = {}
      BY <2>1 DEF Carrying
    <3>2. Cardinality(Carrying(frames)) = 0
      BY <3>1, FS_EmptySet
    <3> QED
      BY <3>2 DEF SentUp
  <2>3. Len(blocks) = 0
    BY <2>1, EmptySeq
  <2>4. Numbers(0) = <<>>
    <3>1. Numbers(0) \in Seq(Nat) /\ Len(Numbers(0)) = 0
      BY NumbersAre
    <3> QED
      BY <3>1, EmptySeq
  <2> QED
    BY <2>1, <2>2, <2>3, <2>4 DEF Pipe!PipeInit, Pipe!Direction
<1>2. RelayInv /\ Within /\ Within' /\ [Next]_vars => [Pipe!PipeNext]_Pipe!pipeVars
  <2> SUFFICES ASSUME RelayInv, Within, Within', [Next]_vars PROVE Pipe!PipeNext
    OBVIOUS
  <2>1. Grows
    BY GrowsStep
  <2>2. /\ Reached(up, frames) /\ frames \in Seq(FrameKind)
        /\ Len(down) \in Nat /\ Len(blocks) \in Nat /\ down = Numbers(Len(down))
    BY DEF Within
  <2>3. /\ Reached(up', frames') /\ frames' \in Seq(FrameKind) /\ (ws' = "open" => Unbroken(up'))
        /\ Len(down') \in Nat /\ Len(blocks') \in Nat /\ Len(down') <= Len(blocks') /\ down' = Numbers(Len(down'))
    BY DEF Within, Numbers, Reached, Unbroken, Carrying, Rank, NativeBlock
  <2>4. Len(blocks) <= Len(blocks')
    <3>1. blocks \in Seq(BlockKind)
      BY DEF RelayInv, RelayTypes
    <3> QED
      BY <2>2, <3>1, SendsStep, AppendProperties
  <2>5. SentUp = Sent(frames) /\ SentUp' = Sent(frames')
    BY DEF SentUp, Sent, Carrying, Place, Rank, NativeBlock
  <2>6. Reached(up, frames') /\ Reached(Sent(frames), frames')
    <3>1. Reached(Sent(frames), frames)
      BY <2>2, SentReached
    <3>2. ASSUME NEW k \in FrameKind, frames' = Append(frames, k)
          PROVE  Reached(up, frames') /\ Reached(Sent(frames), frames')
      BY <2>2, <3>1, <3>2, ReachedMore
    <3>3. ASSUME frames' = frames
          PROVE  Reached(up, frames') /\ Reached(Sent(frames), frames')
      BY <2>2, <3>1, <3>3
    <3> QED
      BY <3>2, <3>3, SendsStep
  <2>7. IsPrefix(SentUp, SentUp') /\ IsPrefix(up, up') /\ IsPrefix(up', SentUp')
    <3>1. Reached(Sent(frames'), frames') /\ Len(Sent(frames')) = Cardinality(Carrying(frames'))
      BY <2>3, SentReached
    <3>2. Len(Sent(frames)) <= Len(Sent(frames')) /\ Len(up') <= Len(Sent(frames')) /\ Len(up) <= Len(up')
      BY <2>1, <2>3, <2>6, <3>1 DEF Reached, Grows
    <3> QED
      BY <2>3, <2>5, <2>6, <3>1, <3>2, ReachedAgree
  <2>8. /\ IsPrefix(Numbers(Len(blocks)), Numbers(Len(blocks')))
        /\ IsPrefix(down, down') /\ IsPrefix(down', Numbers(Len(blocks')))
    <3>1. Len(down) <= Len(down')
      BY <2>1 DEF Grows
    <3> QED
      BY <2>2, <2>3, <2>4, <3>1, NumbersPrefix
  <2>9. /\ (ws' = "open" /\ native' # "destroyed") => (ws = "open" /\ native # "destroyed")
        /\ ~(ws = "open" /\ native # "destroyed") => up' = up /\ down' = down
    <3>1. native = "destroyed" => ws = "destroyed"
      BY DEF RelayInv, RelayTypes, Phases
    <3> QED
      BY <2>1, <3>1 DEF Grows
  <2>10. /\ ws' = "open" => \A i \in 1 .. Len(up') : up'[i] # 0
         /\ \A i \in 1 .. Len(down') : down'[i] # 0
    <3>1. \A i \in 1 .. Len(down') : Numbers(Len(down'))[i] = i
      BY <2>3, NumbersAre
    <3> QED
      BY <2>3, <3>1 DEF Unbroken
  <2>11. ASSUME NEW d \in {"up", "down"}
         PROVE  LET i == [e \in {"up", "down"} |-> IF e = "up" THEN SentUp ELSE Numbers(Len(blocks))]
                    o == [e \in {"up", "down"} |-> IF e = "up" THEN up ELSE down]
                IN  /\ IsPrefix(i[d], i'[d]) /\ IsPrefix(o[d], o'[d]) /\ IsPrefix(o'[d], i'[d])
                    /\ ws' = "open" => \A k \in 1 .. Len(o'[d]) : o'[d][k] # 0
    <3>1. CASE d = "up"
      BY <2>7, <2>10, <3>1
    <3>2. CASE d = "down"
      BY <2>8, <2>10, <3>2
    <3> QED
      BY <3>1, <3>2
  <2> QED
    BY <2>9, <2>11 DEF Pipe!PipeNext, Pipe!Direction, Pipe!IsPrefix, IsPrefix
<1>3. Spec => [](RelayInv /\ Within)
  <2>1. RelayInv => Within
    BY WithinSent
  <2> QED
    BY <2>1, RelayInvariant, PTL
<1> QED
  BY <1>1, <1>2, <1>3, PTL DEF Spec, PipeSpec, Pipe!PipeSpec
=============================================================================
