------------------------ MODULE RatchetSessionProofs ------------------------
(***************************************************************************)
(* KeysServeOnce and InStep of RatchetSession, for every number of packets *)
(* and of skipped keys: no message key seals two packets, none opens a     *)
(* packet twice, in whatever order packets come and however often, and the *)
(* two ends never part.                                                    *)
(*                                                                         *)
(* Sealing: each DH step of an end lengthens its root key by two secrets   *)
(* and gives it a new key pair, so the length of the root that a key is    *)
(* derived from tells whose key it is and of which pair; the rest is the   *)
(* counter.  Opening: a key that was used is behind the receiving chain,   *)
(* and is not, or no longer, among the skipped keys.  In step: the root of *)
(* one end is always that of the other with one more secret, of keys that  *)
(* both have.                                                              *)
(***************************************************************************)
EXTENDS RatchetSession, FiniteSetTheorems, SequenceTheorems, WellFoundedInduction, TLAPS

KeySet     == [root : Seq(Secret), at : Nat]
SkippedKey == [dh : PairSet, n : Nat, key : KeySet]
State ==
  [root : Seq(Secret), own : PairSet, remote : PairSet \cup {NoPair},
   sending : KeySet, receiving : KeySet,
   sendCount : Nat, receiveCount : Nat, previousSendCount : Nat,
   skipped : Seq(SkippedKey)]

\* The receiving chain is past the key, and no later chain will have its root.
Passed(s, k) ==
  /\ Len(k.root) <= Len(s.root)
  /\ k.root = s.receiving.root => k.at < s.receiving.at

\* The key was used: it is passed, and not kept.
Spent(s, k) == Passed(s, k) /\ \A i \in 1 .. Len(s.skipped) : s.skipped[i].key # k

\* What holds of the stored state of one end.
Good(s) ==
  /\ s \in State
  /\ s.sending = [root |-> s.root, at |-> s.sendCount]
  /\ Len(s.receiving.root) <= Len(s.root)
  /\ \A i \in 1 .. Len(s.skipped) : Passed(s, s.skipped[i].key)
  /\ \A i, j \in 1 .. Len(s.skipped) : s.skipped[i].key = s.skipped[j].key => i = j

\* The number of secrets in the root of an end that has made k key pairs more.
RootLen(e, k) == IF e = Alice THEN 2 * k + 1 ELSE 2 * k

EndInv(e) == Good(st[e]) /\ st[e].own.of = e /\ Len(st[e].root) = RootLen(e, st[e].own.nr)

PacketInv(p) ==
  /\ p.from \in End /\ p.dh \in PairSet /\ p.dh.of = p.from /\ p.n \in Nat
  /\ p.key \in KeySet /\ p.key.at = p.n
  /\ Len(p.key.root) = RootLen(p.from, p.dh.nr)
  /\ p.dh.nr <= st[p.from].own.nr
  /\ p.dh.nr = st[p.from].own.nr => p.n < st[p.from].sendCount

RInv ==
  /\ st \in [End -> State] /\ read \subseteq packets
  /\ \A e \in End : EndInv(e)
  /\ \A p \in packets : PacketInv(p)
  /\ \A p, q \in packets : p.from = q.from /\ p.dh = q.dh /\ p.n = q.n => p = q
  /\ \A p \in read : Spent(st[Other(p.from)], p.key)

-----------------------------------------------------------------------------
(* The receiving side of one end.                                          *)

\* What a step of the receiving side does: the state stays good, what is spent
\* stays spent, and the sending side is as it was or has a longer root and a
\* new key pair.
SameSender(s, t) == t.own = s.own /\ t.root = s.root /\ t.sendCount = s.sendCount
NewSender(s, t) ==
  t.own = Pair(s.own.of, s.own.nr + 1) /\ Len(t.root) = Len(s.root) + 2 /\ t.sendCount = 0

\* ... and the key it uses was not spent, and is afterwards.
Uses(s, t, k) ==
  /\ Good(t) /\ k \in KeySet /\ Spent(t, k)
  /\ \A j \in KeySet : Spent(s, j) => Spent(t, j) /\ j # k

\* The fields of a state.
LEMMA StateFields ==
  ASSUME NEW s \in State
  PROVE  /\ s.root \in Seq(Secret) /\ s.own \in PairSet /\ s.sending \in KeySet /\ s.receiving \in KeySet
         /\ s.sendCount \in Nat /\ s.receiveCount \in Nat
         /\ s.skipped \in Seq(SkippedKey) /\ Len(s.skipped) \in Nat
         /\ \A i \in 1 .. Len(s.skipped) : s.skipped[i].key \in KeySet
<1>1. /\ s.root \in Seq(Secret) /\ s.own \in PairSet /\ s.sending \in KeySet /\ s.receiving \in KeySet
      /\ s.sendCount \in Nat /\ s.receiveCount \in Nat /\ s.skipped \in Seq(SkippedKey)
  BY DEF State
<1>2. Len(s.skipped) \in Nat
  BY <1>1, LenProperties
<1>3. \A i \in 1 .. Len(s.skipped) : s.skipped[i] \in SkippedKey
  BY <1>1, ElementOfSeq
<1>4. \A k \in SkippedKey : k.key \in KeySet
  BY DEF SkippedKey
<1> QED
  BY <1>1, <1>2, <1>3, <1>4

\* The fields of a key.
LEMMA KeyFields ==
  ASSUME NEW k \in KeySet
  PROVE  /\ k.root \in Seq(Secret) /\ Len(k.root) \in Nat /\ k.at \in Nat
         /\ \A j \in KeySet : k = j <=> k.root = j.root /\ k.at = j.at
<1>1. k.root \in Seq(Secret) /\ k.at \in Nat /\ \A j \in KeySet : k = j <=> k.root = j.root /\ k.at = j.at
  BY DEF KeySet
<1> QED
  BY <1>1, LenProperties

\* saveSkipped keeps a tail of the list.
LEMMA NewestIsTail ==
  ASSUME NEW S, NEW q \in Seq(S)
  PROVE  /\ Newest(q) \in Seq(S)
         /\ \E d \in Nat : /\ Len(Newest(q)) + d = Len(q)
                           /\ \A i \in 1 .. Len(Newest(q)) : Newest(q)[i] = q[i + d]
<1> DEFINE m == IF Len(q) > MaxSkip THEN Len(q) - MaxSkip + 1 ELSE 1
<1>1. Len(q) \in Nat /\ m \in 1 .. Len(q) + 1
  BY RatchetAssumption, LenProperties DEF RatchetAssumption
<1>2. Newest(q) = SubSeq(q, m, Len(q))
  BY DEF Newest
<1> HIDE DEF m
<1>3. \A i \in m .. Len(q) : q[i] \in S
  BY <1>1, ElementOfSeq
<1>4. /\ Newest(q) \in Seq(S)
      /\ Len(Newest(q)) = IF m <= Len(q) THEN Len(q) - m + 1 ELSE 0
      /\ \A i \in 1 .. Len(q) - m + 1 : Newest(q)[i] = q[m + i - 1]
  <2>1. m \in Int /\ Len(q) \in Int
    BY <1>1
  <2> QED
    BY <1>2, <1>3, <2>1, SubSeqProperties
<1>5. Len(Newest(q)) + (m - 1) = Len(q) /\ m - 1 \in Nat
  BY <1>1, <1>4
<1>6. \A i \in 1 .. Len(Newest(q)) : Newest(q)[i] = q[i + (m - 1)]
  BY <1>1, <1>4, <1>5
<1> QED
  BY <1>4, <1>5, <1>6

\* The same of a list of skipped keys, and what such lists look like end to end.
LEMMA NewestKeys ==
  \A q \in Seq(SkippedKey) :
    /\ Newest(q) \in Seq(SkippedKey)
    /\ \E d \in Nat : /\ Len(Newest(q)) + d = Len(q)
                      /\ \A i \in 1 .. Len(Newest(q)) : Newest(q)[i] = q[i + d]
BY NewestIsTail

LEMMA JoinedKeys ==
  \A a, b \in Seq(SkippedKey) :
    /\ a \o b \in Seq(SkippedKey)
    /\ Len(a \o b) = Len(a) + Len(b)
    /\ \A i \in 1 .. Len(a) + Len(b) : (a \o b)[i] = IF i <= Len(a) THEN a[i] ELSE b[i - Len(a)]
BY ConcatProperties

\* One entry taken out of a sequence.
Without(q, i) == SubSeq(q, 1, i - 1) \o SubSeq(q, i + 1, Len(q))

LEMMA TakenOut ==
  ASSUME NEW S, NEW q \in Seq(S), NEW i \in 1 .. Len(q)
  PROVE  /\ Without(q, i) \in Seq(S) /\ Len(Without(q, i)) = Len(q) - 1
         /\ \A j \in 1 .. Len(q) - 1 : Without(q, i)[j] = IF j < i THEN q[j] ELSE q[j + 1]
<1>1. Len(q) \in Nat /\ \A j \in 1 .. Len(q) : q[j] \in S
  BY LenProperties, ElementOfSeq
<1> DEFINE front == SubSeq(q, 1, i - 1)
           back  == SubSeq(q, i + 1, Len(q))
<1>2. /\ front \in Seq(S) /\ Len(front) = i - 1
      /\ \A j \in 1 .. i - 1 : front[j] = q[j]
  <2>1. 1 \in Int /\ i - 1 \in Int /\ \A j \in 1 .. i - 1 : q[j] \in S
    BY <1>1
  <2>2. /\ front \in Seq(S) /\ Len(front) = IF 1 <= i - 1 THEN (i - 1) - 1 + 1 ELSE 0
        /\ \A j \in 1 .. (i - 1) - 1 + 1 : front[j] = q[1 + j - 1]
    BY <2>1, SubSeqProperties
  <2> QED
    BY <1>1, <2>2
<1>3. /\ back \in Seq(S) /\ Len(back) = Len(q) - i
      /\ \A j \in 1 .. Len(q) - i : back[j] = q[i + j]
  <2>1. i + 1 \in Int /\ Len(q) \in Int /\ \A j \in i + 1 .. Len(q) : q[j] \in S
    BY <1>1
  <2>2. /\ back \in Seq(S) /\ Len(back) = IF i + 1 <= Len(q) THEN Len(q) - (i + 1) + 1 ELSE 0
        /\ \A j \in 1 .. Len(q) - (i + 1) + 1 : back[j] = q[(i + 1) + j - 1]
    BY <2>1, SubSeqProperties
  <2> QED
    BY <1>1, <2>2
<1>4. Without(q, i) = front \o back
  BY DEF Without
<1> HIDE DEF front, back
<1>5. /\ front \o back \in Seq(S) /\ Len(front \o back) = Len(front) + Len(back)
      /\ \A j \in 1 .. Len(front) + Len(back) :
           (front \o back)[j] = IF j <= Len(front) THEN front[j] ELSE back[j - Len(front)]
  BY <1>2, <1>3, ConcatProperties
<1>6. Len(front) + Len(back) = Len(q) - 1
  BY <1>1, <1>2, <1>3
<1>7. ASSUME NEW j \in 1 .. Len(q) - 1
      PROVE  Without(q, i)[j] = IF j < i THEN q[j] ELSE q[j + 1]
  <2>1. CASE j < i
    <3>1. j \in 1 .. i - 1 /\ j <= Len(front)
      BY <1>1, <1>2, <2>1
    <3> QED
      BY <1>2, <1>4, <1>5, <1>6, <2>1, <3>1
  <2>2. CASE ~(j < i)
    <3>1. /\ j - Len(front) \in 1 .. Len(q) - i /\ i + (j - Len(front)) = j + 1
          /\ ~(j <= Len(front))
      BY <1>1, <1>2, <2>2
    <3> QED
      BY <1>3, <1>4, <1>5, <1>6, <2>2, <3>1
  <2> QED
    BY <2>1, <2>2
<1> QED
  BY <1>4, <1>5, <1>6, <1>7

\* takeSkipped removes one entry.
LEMMA TakeKeeps ==
  ASSUME NEW s, Good(s), NEW i \in 1 .. Len(s.skipped)
  PROVE  Uses(s, TakeSkipped(s, i), s.skipped[i].key) /\ SameSender(s, TakeSkipped(s, i))
<1>1. /\ s \in State /\ s.skipped \in Seq(SkippedKey) /\ Len(s.skipped) \in Nat
      /\ \A j \in 1 .. Len(s.skipped) : s.skipped[j].key \in KeySet
  BY StateFields DEF Good
<1>2. PICK r : r = Without(s.skipped, i)
  OBVIOUS
<1>3. /\ r \in Seq(SkippedKey) /\ Len(r) = Len(s.skipped) - 1
      /\ \A j \in 1 .. Len(r) : r[j] = IF j < i THEN s.skipped[j] ELSE s.skipped[j + 1]
  BY <1>1, <1>2, TakenOut
<1>4. PICK t : t = TakeSkipped(s, i)
  OBVIOUS
<1>5. /\ t \in State /\ t.skipped = r
      /\ t.root = s.root /\ t.own = s.own /\ t.sending = s.sending /\ t.receiving = s.receiving
      /\ t.sendCount = s.sendCount
  <2>1. t = [s EXCEPT !.skipped = r]
    BY <1>2, <1>4 DEF TakeSkipped, Without
  <2> QED
    BY <1>1, <1>3, <2>1 DEF State
<1>6. \A k : Passed(s, k) <=> Passed(t, k)
  BY <1>5 DEF Passed
<1> DEFINE pos(x) == IF x < i THEN x ELSE x + 1
<1>7. \A j \in 1 .. Len(r) : pos(j) \in 1 .. Len(s.skipped) /\ pos(j) # i /\ r[j] = s.skipped[pos(j)]
  BY <1>1, <1>3
<1>8. \A j, k \in 1 .. Len(r) : pos(j) = pos(k) => j = k
  BY <1>1, <1>3
<1> HIDE DEF pos
<1>9. Good(t)
  <2>1. ASSUME NEW j \in 1 .. Len(r) PROVE Passed(t, r[j].key)
    <3>1. Passed(s, s.skipped[pos(j)].key)
      BY <1>7 DEF Good
    <3>2. r[j].key = s.skipped[pos(j)].key
      BY <1>7
    <3> QED
      BY <1>6, <3>1, <3>2
  <2>2. ASSUME NEW j \in 1 .. Len(r), NEW k \in 1 .. Len(r), r[j].key = r[k].key PROVE j = k
    <3>1. s.skipped[pos(j)].key = s.skipped[pos(k)].key
      BY <1>7, <2>2
    <3>2. pos(j) = pos(k)
      BY <1>7, <3>1 DEF Good
    <3> QED
      BY <1>8, <3>2
  <2> QED
    BY <1>5, <2>1, <2>2 DEF Good
<1>10. s.skipped[i].key \in KeySet /\ Passed(s, s.skipped[i].key)
  BY <1>1 DEF Good
<1>11. \A j \in 1 .. Len(r) : r[j].key # s.skipped[i].key
  BY <1>7 DEF Good
<1>12. ASSUME NEW k \in KeySet, Spent(s, k)
       PROVE  Spent(t, k) /\ k # s.skipped[i].key
  BY <1>5, <1>6, <1>7, <1>12 DEF Spent
<1>13. Spent(t, s.skipped[i].key)
  BY <1>5, <1>6, <1>10, <1>11 DEF Spent
<1>14. Uses(s, t, s.skipped[i].key) /\ SameSender(s, t)
  BY <1>5, <1>9, <1>10, <1>12, <1>13 DEF Uses, SameSender
<1> QED
  BY <1>4, <1>14

\* ratchetReceiveStep: the root is longer than that of any key there was.
LEMMA StepKeeps ==
  ASSUME NEW s, Good(s), NEW dh \in PairSet
  PROVE  /\ Good(RatchetReceiveStep(s, dh)) /\ NewSender(s, RatchetReceiveStep(s, dh))
         /\ \A k \in KeySet : Spent(s, k) => Spent(RatchetReceiveStep(s, dh), k)
<1>1. /\ s \in State /\ s.root \in Seq(Secret) /\ s.own \in PairSet /\ Len(s.root) \in Nat
      /\ \A j \in 1 .. Len(s.skipped) : s.skipped[j].key \in KeySet
  <2>1. s \in State
    BY DEF Good
  <2> QED
    BY <2>1, StateFields, LenProperties
<1>2. PICK own \in PairSet : own = Pair(s.own.of, s.own.nr + 1)
  <2>1. s.own.of \in End /\ s.own.nr \in Nat
    BY <1>1 DEF PairSet
  <2>2. Pair(s.own.of, s.own.nr + 1) \in PairSet
    BY <2>1 DEF PairSet, Pair
  <2> QED
    BY <2>2, Zenon
<1>3. PICK receive \in Seq(Secret) : receive = Append(s.root, DH(s.own, dh)) /\ Len(receive) = Len(s.root) + 1
  <2>1. DH(s.own, dh) \in Secret
    BY <1>1, Zenon DEF DH, Secret
  <2>2. Append(s.root, DH(s.own, dh)) \in Seq(Secret) /\ Len(Append(s.root, DH(s.own, dh))) = Len(s.root) + 1
    BY <1>1, <2>1, AppendProperties
  <2> QED
    BY <2>2, Zenon
<1>4. PICK send \in Seq(Secret) : send = Append(receive, DH(own, dh)) /\ Len(send) = Len(receive) + 1
  <2>1. DH(own, dh) \in Secret
    BY Zenon DEF DH, Secret
  <2>2. Append(receive, DH(own, dh)) \in Seq(Secret) /\ Len(Append(receive, DH(own, dh))) = Len(receive) + 1
    BY <2>1, AppendProperties
  <2> QED
    BY <2>2, Zenon
<1>5. PICK t : t = RatchetReceiveStep(s, dh)
  OBVIOUS
<1>6. /\ t \in State /\ t.skipped = s.skipped /\ t.own = own /\ t.root = send
      /\ t.sending = [root |-> send, at |-> 0] /\ t.receiving = [root |-> receive, at |-> 0]
      /\ t.sendCount = 0
  <2>1. t = [s EXCEPT !.previousSendCount = s.sendCount, !.sendCount = 0, !.receiveCount = 0,
                      !.remote = dh, !.own = own, !.root = send,
                      !.receiving = [root |-> receive, at |-> 0], !.sending = [root |-> send, at |-> 0]]
    BY <1>2, <1>3, <1>4, <1>5 DEF RatchetReceiveStep, Chain
  <2>2. [root |-> receive, at |-> 0] \in KeySet /\ [root |-> send, at |-> 0] \in KeySet
    BY DEF KeySet
  <2> QED
    BY <1>1, <2>1, <2>2 DEF State
<1>7. \A k \in KeySet : Passed(s, k) => Passed(t, k)
  <2> SUFFICES ASSUME NEW k \in KeySet, Passed(s, k) PROVE Passed(t, k)
    OBVIOUS
  <2>1. Len(k.root) \in Nat /\ Len(k.root) <= Len(s.root)
    BY KeyFields DEF Passed
  <2>2. k.root # receive /\ Len(k.root) <= Len(send)
    BY <1>1, <1>3, <1>4, <2>1
  <2> QED
    BY <1>6, <2>2 DEF Passed
<1>8. Good(t)
  <2>1. Len(t.receiving.root) <= Len(t.root)
    BY <1>1, <1>3, <1>4, <1>6
  <2> QED
    BY <1>1, <1>6, <1>7, <2>1 DEF Good
<1>9. \A k \in KeySet : Spent(s, k) => Spent(t, k)
  BY <1>6, <1>7 DEF Spent
<1>10. NewSender(s, t)
  BY <1>1, <1>2, <1>3, <1>4, <1>6 DEF NewSender
<1> QED
  BY <1>5, <1>8, <1>9, <1>10

\* The keys a chain puts by are behind it, and none of them was used before.
LEMMA PutBy ==
  ASSUME NEW s, Good(s), NEW gap \in Nat, NEW new \in Seq(SkippedKey), Len(new) = gap,
         \A i \in 1 .. gap : new[i].key = [root |-> s.receiving.root, at |-> s.receiving.at + i - 1],
         NEW t \in State, t.skipped = Newest(s.skipped \o new),
         t.receiving = [root |-> s.receiving.root, at |-> s.receiving.at + gap + 1],
         t.root = s.root, t.own = s.own, t.sending = s.sending, t.sendCount = s.sendCount,
         NEW k, k = [root |-> s.receiving.root, at |-> s.receiving.at + gap]
  PROVE  Uses(s, t, k) /\ SameSender(s, t)
<1>1. /\ s \in State /\ s.skipped \in Seq(SkippedKey) /\ Len(s.skipped) \in Nat
      /\ s.receiving \in KeySet /\ s.receiving.root \in Seq(Secret) /\ s.receiving.at \in Nat
      /\ \A j \in 1 .. Len(s.skipped) : s.skipped[j].key \in KeySet
  <2>1. s \in State
    BY DEF Good
  <2> QED
    BY <2>1, StateFields, KeyFields
<1>2. k \in KeySet /\ k.root = s.receiving.root /\ k.at = s.receiving.at + gap
  BY <1>1 DEF KeySet
<1>3. \A i \in 1 .. gap : new[i].key.root = s.receiving.root /\ new[i].key.at = s.receiving.at + i - 1
  <2> SUFFICES ASSUME NEW i \in 1 .. gap
               PROVE  new[i].key.root = s.receiving.root /\ new[i].key.at = s.receiving.at + i - 1
    OBVIOUS
  <2>1. new[i].key = [root |-> s.receiving.root, at |-> s.receiving.at + i - 1]
    OBVIOUS
  <2> QED
    BY <2>1
<1>4. PICK all : all = s.skipped \o new
  OBVIOUS
<1>5. /\ all \in Seq(SkippedKey) /\ Len(all) = Len(s.skipped) + gap
      /\ \A i \in 1 .. Len(all) : all[i] = IF i <= Len(s.skipped) THEN s.skipped[i] ELSE new[i - Len(s.skipped)]
  <2>1. /\ s.skipped \o new \in Seq(SkippedKey)
        /\ Len(s.skipped \o new) = Len(s.skipped) + Len(new)
        /\ \A i \in 1 .. Len(s.skipped) + Len(new) :
             (s.skipped \o new)[i] = IF i <= Len(s.skipped) THEN s.skipped[i] ELSE new[i - Len(s.skipped)]
    <3>1. s.skipped \in Seq(SkippedKey) /\ new \in Seq(SkippedKey)
      BY <1>1
    <3> QED
      BY <3>1, JoinedKeys, Zenon
  <2> QED
    BY <1>4, <2>1
<1>6. \A i \in 1 .. Len(all) :
        \/ i \in 1 .. Len(s.skipped) /\ all[i] = s.skipped[i]
        \/ \E j \in 1 .. gap : i = Len(s.skipped) + j /\ all[i] = new[j]
  <2> SUFFICES ASSUME NEW i \in 1 .. Len(all), ~(i \in 1 .. Len(s.skipped))
               PROVE  i - Len(s.skipped) \in 1 .. gap /\ all[i] = new[i - Len(s.skipped)]
    BY <1>1, <1>5
  <2> QED
    BY <1>1, <1>5
<1>7. PICK d \in Nat : /\ Newest(all) \in Seq(SkippedKey) /\ Len(Newest(all)) + d = Len(all)
                       /\ \A i \in 1 .. Len(Newest(all)) : Newest(all)[i] = all[i + d]
  <2>1. /\ Newest(all) \in Seq(SkippedKey)
        /\ \E d \in Nat : /\ Len(Newest(all)) + d = Len(all)
                          /\ \A i \in 1 .. Len(Newest(all)) : Newest(all)[i] = all[i + d]
    <3>1. all \in Seq(SkippedKey)
      BY <1>5
    <3> QED
      BY <3>1, NewestKeys, Zenon
  <2> QED
    BY <2>1, Zenon
<1>8. \A i \in 1 .. Len(t.skipped) : i + d \in 1 .. Len(all) /\ t.skipped[i] = all[i + d]
  <2>1. t.skipped = Newest(all) /\ Len(all) \in Nat /\ Len(Newest(all)) \in Nat
    BY <1>1, <1>4, <1>5, <1>7, LenProperties
  <2> QED
    BY <1>7, <2>1
<1>9. \A j \in KeySet : Passed(s, j) => Passed(t, j)
  <2> SUFFICES ASSUME NEW j \in KeySet, Passed(s, j) PROVE Passed(t, j)
    OBVIOUS
  <2>1. j.at \in Nat /\ (j.root = s.receiving.root => j.at < s.receiving.at)
    BY KeyFields DEF Passed
  <2>2. t.receiving.root = s.receiving.root /\ t.receiving.at = s.receiving.at + gap + 1
    OBVIOUS
  <2> QED
    BY <1>1, <2>1, <2>2 DEF Passed
<1>10. Len(s.receiving.root) <= Len(s.root)
  BY DEF Good
<1>11. \A i \in 1 .. gap : Passed(t, new[i].key)
  <2>2. t.receiving.root = s.receiving.root /\ t.receiving.at = s.receiving.at + gap + 1
    OBVIOUS
  <2> QED
    BY <1>1, <1>3, <1>10, <2>2 DEF Passed
<1>12. \A i \in 1 .. Len(all) : Passed(t, all[i].key)
  <2> SUFFICES ASSUME NEW i \in 1 .. Len(all) PROVE Passed(t, all[i].key)
    OBVIOUS
  <2>1. CASE i \in 1 .. Len(s.skipped) /\ all[i] = s.skipped[i]
    BY <1>1, <1>9, <2>1 DEF Good
  <2>2. CASE \E j \in 1 .. gap : i = Len(s.skipped) + j /\ all[i] = new[j]
    BY <1>11, <2>2
  <2> QED
    BY <1>6, <2>1, <2>2
<1>13. \A a \in 1 .. Len(s.skipped), b \in 1 .. gap : s.skipped[a].key # new[b].key
  <2> SUFFICES ASSUME NEW a \in 1 .. Len(s.skipped), NEW b \in 1 .. gap, s.skipped[a].key = new[b].key
               PROVE  FALSE
    OBVIOUS
  <2>1. Passed(s, new[b].key)
    BY DEF Good
  <2> QED
    BY <1>1, <1>3, <2>1 DEF Passed
<1>14. \A a, b \in 1 .. gap : new[a].key = new[b].key => a = b
  <2> SUFFICES ASSUME NEW a \in 1 .. gap, NEW b \in 1 .. gap, new[a].key = new[b].key PROVE a = b
    OBVIOUS
  <2>1. s.receiving.at + a - 1 = s.receiving.at + b - 1
    BY <1>3
  <2> QED
    BY <1>1, <2>1
<1>15. \A i, j \in 1 .. Len(all) : all[i].key = all[j].key => i = j
  <2> SUFFICES ASSUME NEW i \in 1 .. Len(all), NEW j \in 1 .. Len(all), all[i].key = all[j].key
               PROVE  i = j
    OBVIOUS
  <2>1. CASE i \in 1 .. Len(s.skipped) /\ all[i] = s.skipped[i]
    <3>1. CASE j \in 1 .. Len(s.skipped) /\ all[j] = s.skipped[j]
      BY <2>1, <3>1 DEF Good
    <3>2. CASE \E b \in 1 .. gap : j = Len(s.skipped) + b /\ all[j] = new[b]
      BY <1>13, <2>1, <3>2
    <3> QED
      BY <1>6, <3>1, <3>2
  <2>2. CASE \E a \in 1 .. gap : i = Len(s.skipped) + a /\ all[i] = new[a]
    <3>1. CASE j \in 1 .. Len(s.skipped) /\ all[j] = s.skipped[j]
      BY <1>13, <2>2, <3>1
    <3>2. CASE \E b \in 1 .. gap : j = Len(s.skipped) + b /\ all[j] = new[b]
      BY <1>14, <2>2, <3>2
    <3> QED
      BY <1>6, <3>1, <3>2
  <2> QED
    BY <1>6, <2>1, <2>2
<1>16. Good(t)
  <2>1. \A i \in 1 .. Len(t.skipped) : Passed(t, t.skipped[i].key)
    BY <1>8, <1>12
  <2>2. Len(t.skipped) \in Nat
    BY StateFields
  <2>3. \A i, j \in 1 .. Len(t.skipped) : t.skipped[i].key = t.skipped[j].key => i = j
    <3> SUFFICES ASSUME NEW i \in 1 .. Len(t.skipped), NEW j \in 1 .. Len(t.skipped),
                        t.skipped[i].key = t.skipped[j].key
                 PROVE  i = j
      OBVIOUS
    <3>1. i + d = j + d
      BY <1>8, <1>15
    <3> QED
      BY <2>2, <3>1
  <2>4. t.sending = [root |-> t.root, at |-> t.sendCount] /\ Len(t.receiving.root) <= Len(t.root)
    BY DEF Good
  <2> QED
    BY <2>1, <2>3, <2>4 DEF Good
<1>17. ASSUME NEW j \in KeySet, Spent(s, j)
       PROVE  Spent(t, j) /\ j # k
  <2>1. j.at \in Nat /\ (j.root = s.receiving.root => j.at < s.receiving.at)
    BY <1>17, KeyFields DEF Spent, Passed
  <2>2. \A i \in 1 .. gap : new[i].key # j
    BY <1>1, <1>3, <2>1
  <2>3. \A i \in 1 .. Len(all) : all[i].key # j
    <3>1. \A i \in 1 .. Len(s.skipped) : s.skipped[i].key # j
      BY <1>17 DEF Spent
    <3> QED
      BY <1>6, <2>2, <3>1
  <2>4. \A i \in 1 .. Len(t.skipped) : t.skipped[i].key # j
    BY <1>8, <2>3
  <2>5. j # k
    BY <1>1, <1>2, <2>1
  <2> QED
    BY <1>9, <1>17, <2>4, <2>5 DEF Spent
<1>18. Spent(t, k)
  <2>1. Passed(t, k)
    <3>1. t.receiving.root = s.receiving.root /\ t.receiving.at = s.receiving.at + gap + 1
      OBVIOUS
    <3> QED
      BY <1>1, <1>2, <1>10, <3>1 DEF Passed
  <2>2. \A i \in 1 .. gap : new[i].key # k
    BY <1>1, <1>2, <1>3
  <2>3. \A i \in 1 .. Len(s.skipped) : s.skipped[i].key # k
    <3> SUFFICES ASSUME NEW i \in 1 .. Len(s.skipped), s.skipped[i].key = k PROVE FALSE
      OBVIOUS
    <3>1. Passed(s, k)
      BY DEF Good
    <3> QED
      BY <1>1, <1>2, <3>1 DEF Passed
  <2>4. \A i \in 1 .. Len(all) : all[i].key # k
    BY <1>6, <2>2, <2>3
  <2>5. \A i \in 1 .. Len(t.skipped) : t.skipped[i].key # k
    BY <1>8, <2>4
  <2> QED
    BY <2>1, <2>5 DEF Spent
<1> QED
  BY <1>2, <1>16, <1>17, <1>18 DEF Uses, SameSender

\* skipUntil, and the use of the key that follows it.
Moved(u) == [u EXCEPT !.receiving = Advanced(@, 1), !.receiveCount = @ + 1]

LEMMA SkipKeeps ==
  ASSUME NEW s, Good(s), NEW h, h.dh \in PairSet, h.n \in Nat
  PROVE  /\ Uses(s, Moved(SkipUntil(s, h)), MessageKey(SkipUntil(s, h).receiving))
         /\ SameSender(s, Moved(SkipUntil(s, h)))
<1>u. PICK u : u = SkipUntil(s, h)
  OBVIOUS
<1>t. PICK t : t = Moved(u)
  OBVIOUS
<1>1. s \in State
  BY DEF Good
<1>2. /\ s.receiving \in KeySet /\ s.receiving.root \in Seq(Secret) /\ s.receiving.at \in Nat
      /\ s.receiveCount \in Nat /\ s.skipped \in Seq(SkippedKey)
  BY <1>1, StateFields, KeyFields
<1>3. PICK gap \in Nat : gap = IF h.n > s.receiveCount THEN h.n - s.receiveCount ELSE 0
  <2>1. (IF h.n > s.receiveCount THEN h.n - s.receiveCount ELSE 0) \in Nat
    BY <1>2
  <2> QED
    BY <2>1, Zenon
<1> DEFINE key(k) == [root |-> s.receiving.root, at |-> s.receiving.at + k]
<1>4. \A k \in Int : Advanced(s.receiving, k) = key(k)
  BY <1>2 DEF Advanced, KeySet
<1>5. PICK new : new = [i \in 1 .. gap |-> [dh |-> h.dh, n |-> s.receiveCount + i - 1,
                                            key |-> MessageKey(Advanced(s.receiving, i - 1))]]
  OBVIOUS
<1>6. \A i \in 1 .. gap : new[i] \in SkippedKey /\ new[i].key = key(i - 1)
  <2> SUFFICES ASSUME NEW i \in 1 .. gap
               PROVE  new[i] \in SkippedKey /\ new[i].key = key(i - 1)
    OBVIOUS
  <2>1. i - 1 \in Nat /\ s.receiveCount + i - 1 \in Nat
    BY <1>2
  <2>2. new[i] = [dh |-> h.dh, n |-> s.receiveCount + i - 1, key |-> key(i - 1)]
    BY <1>4, <1>5, <2>1 DEF MessageKey
  <2>3. key(i - 1) \in KeySet
    BY <1>2, <2>1 DEF KeySet
  <2>4. new[i].key = key(i - 1)
    BY <2>2
  <2> QED
    BY <2>1, <2>2, <2>3, <2>4 DEF SkippedKey
<1>7. new \in Seq(SkippedKey) /\ Len(new) = gap
  <2>1. new \in [1 .. gap -> SkippedKey]
    BY <1>5, <1>6
  <2> QED
    BY <2>1, SeqDef
<1>8. \A i \in 1 .. gap : new[i].key = [root |-> s.receiving.root, at |-> s.receiving.at + i - 1]
  <2> SUFFICES ASSUME NEW i \in 1 .. gap
               PROVE  new[i].key = [root |-> s.receiving.root, at |-> s.receiving.at + i - 1]
    OBVIOUS
  <2>1. s.receiving.at + (i - 1) = s.receiving.at + i - 1
    BY <1>2
  <2>2. new[i].key = key(i - 1)
    BY <1>6
  <2> QED
    BY <2>1, <2>2
<1>9. s.skipped \o new \in Seq(SkippedKey) /\ Newest(s.skipped \o new) \in Seq(SkippedKey)
  <2>1. s.skipped \o new \in Seq(SkippedKey)
    BY <1>2, <1>7, ConcatProperties
  <2> QED
    BY <2>1, NewestIsTail, Zenon
<1>10. /\ key(gap) \in KeySet /\ key(gap + 1) \in KeySet
       /\ Advanced(key(gap), 1) = key(gap + 1)
  <2>1. s.receiving.at + gap \in Nat /\ s.receiving.at + (gap + 1) \in Nat
    BY <1>2
  <2>2. (s.receiving.at + gap) + 1 = s.receiving.at + (gap + 1)
    <3>1. \A a, b \in Nat : (a + b) + 1 = a + (b + 1)
      OBVIOUS
    <3> QED
      BY <1>2, <3>1
  <2>3. Advanced(key(gap), 1) = [root |-> s.receiving.root, at |-> (s.receiving.at + gap) + 1]
    BY DEF Advanced
  <2> QED
    BY <1>2, <2>1, <2>2, <2>3 DEF KeySet
<1>11. u = [s EXCEPT !.skipped = Newest(s.skipped \o new), !.receiving = key(gap), !.receiveCount = s.receiveCount + gap]
  <2>1. Advanced(s.receiving, gap) = key(gap)
    BY <1>4
  <2>2. u = [s EXCEPT !.skipped = Newest(s.skipped \o new), !.receiving = Advanced(s.receiving, gap),
                      !.receiveCount = s.receiveCount + gap]
    BY <1>u, <1>3, <1>5, Zenon DEF SkipUntil
  <2> QED
    BY <2>1, <2>2
<1>12. t = [s EXCEPT !.skipped = Newest(s.skipped \o new), !.receiving = key(gap + 1),
                     !.receiveCount = s.receiveCount + gap + 1]
  BY <1>t, <1>1, <1>10, <1>11 DEF State, Moved
<1>13. u.receiving = key(gap)
  BY <1>1, <1>11 DEF State
<1> DEFINE skipped == Newest(s.skipped \o new)
<1> HIDE DEF skipped
<1>14. /\ t \in State /\ t.skipped = skipped /\ t.receiving = key(gap + 1)
       /\ t.root = s.root /\ t.own = s.own /\ t.sending = s.sending /\ t.sendCount = s.sendCount
  <2>1. skipped \in Seq(SkippedKey) /\ s.receiveCount + gap + 1 \in Nat
    BY <1>2, <1>9 DEF skipped
  <2>2. t = [s EXCEPT !.skipped = skipped, !.receiving = key(gap + 1),
                      !.receiveCount = s.receiveCount + gap + 1]
    BY <1>12 DEF skipped
  <2> QED
    BY <1>1, <1>10, <2>1, <2>2 DEF State
<1>15. t.receiving = [root |-> s.receiving.root, at |-> s.receiving.at + gap + 1]
  <2>1. s.receiving.at + (gap + 1) = s.receiving.at + gap + 1
    BY <1>2
  <2> QED
    BY <1>14, <2>1
<1>16. t.skipped = Newest(s.skipped \o new)
  BY <1>14 DEF skipped
<1> QED
  <2>1. Uses(s, t, key(gap)) /\ SameSender(s, t)
    BY <1>7, <1>8, <1>14, <1>15, <1>16, PutBy
  <2>2. MessageKey(u.receiving) = key(gap)
    BY <1>13 DEF MessageKey
  <2> QED
    BY <1>u, <1>t, <2>1, <2>2

\* A set of positions has a first one.
LEMMA FirstOf ==
  ASSUME NEW S \in SUBSET Nat, S # {}
  PROVE  (CHOOSE i \in S : \A j \in S : i <= j) \in S
<1>1. PICK x \in S : \A y \in S : <<y, x>> \notin OpToRel(<, Nat)
  BY NatLessThanWellFounded, WFMin, Zenon
<1>2. \A y \in S : x <= y
  <2> SUFFICES ASSUME NEW y \in S, ~(x <= y) PROVE FALSE
    OBVIOUS
  <2>1. x \in Nat /\ y \in Nat /\ y < x
    OBVIOUS
  <2>2. <<y, x>> \in OpToRel(<, Nat)
    BY <2>1 DEF OpToRel
  <2> QED
    BY <1>1, <2>2
<1> QED
  BY <1>2

\* decryptRatchetMessage: a packet that is read uses a key that was not spent.
LEMMA DecryptKeeps ==
  ASSUME NEW s, Good(s), NEW h, h.dh \in PairSet, h.n \in Nat, Decrypt(s, h).ok
  PROVE  LET t == Decrypt(s, h).state IN
         Uses(s, t, Decrypt(s, h).key) /\ (SameSender(s, t) \/ NewSender(s, t))
<1> DEFINE found   == {i \in 1 .. Len(s.skipped) : s.skipped[i].dh = h.dh /\ s.skipped[i].n = h.n}
           first   == CHOOSE i \in found : \A j \in found : i <= j
           stepped == IF s.remote = h.dh THEN s ELSE RatchetReceiveStep(s, h.dh)
           passed  == SkipUntil(stepped, h)
           after   == Moved(passed)
<1>1. CASE found # {}
  <2>1. first \in found
    <3>1. found \in SUBSET Nat
      OBVIOUS
    <3> QED
      BY <1>1, <3>1, FirstOf, Zenon
  <2>2. first \in 1 .. Len(s.skipped)
    BY <2>1
  <2>3. Decrypt(s, h) = [ok |-> TRUE, key |-> s.skipped[first].key, state |-> TakeSkipped(s, first)]
    BY <1>1 DEF Decrypt
  <2> HIDE DEF found, first
  <2>4. Uses(s, TakeSkipped(s, first), s.skipped[first].key) /\ SameSender(s, TakeSkipped(s, first))
    BY <2>2, TakeKeeps
  <2> QED
    BY <2>3, <2>4
<1>2. CASE found = {}
  <2>1. Decrypt(s, h) = [ok |-> TRUE, key |-> MessageKey(passed.receiving), state |-> after]
    <3>1. Failure.ok = FALSE
      BY DEF Failure
    <3> QED
      BY <1>2, <3>1 DEF Decrypt, Moved
  <2>2. /\ Good(stepped) /\ (stepped = s \/ NewSender(s, stepped))
        /\ \A k \in KeySet : Spent(s, k) => Spent(stepped, k)
    BY StepKeeps
  <2>3. Uses(stepped, after, MessageKey(passed.receiving)) /\ SameSender(stepped, after)
    <3> HIDE DEF stepped
    <3> QED
      BY <2>2, SkipKeeps
  <2> HIDE DEF stepped, passed, after, found
  <2>4. Uses(s, after, MessageKey(passed.receiving))
    BY <2>2, <2>3 DEF Uses
  <2>5. SameSender(s, after) \/ NewSender(s, after)
    BY <2>2, <2>3 DEF SameSender, NewSender
  <2> QED
    BY <2>1, <2>4, <2>5
<1> QED
  BY <1>1, <1>2

-----------------------------------------------------------------------------
(* The two ends.                                                           *)

LEMMA Ends ==
  /\ Alice \in End /\ Bob \in End
  /\ \A e \in End : Other(e) \in End /\ Other(e) # e /\ Other(Other(e)) = e
  BY RatchetAssumption DEF RatchetAssumption, End, Other

\* The length of a root key tells whose it is, and of which key pair.
LEMMA RootLenInjective ==
  ASSUME NEW e \in End, NEW f \in End, NEW k \in Nat, NEW j \in Nat, RootLen(e, k) = RootLen(f, j)
  PROVE  e = f /\ k = j
  BY RatchetAssumption DEF RatchetAssumption, End, RootLen

LEMMA InitInv == Init => RInv
<1> SUFFICES ASSUME Init PROVE RInv
  OBVIOUS
<1>1. st = [e \in End |-> Created(e)] /\ packets = {} /\ read = {}
  BY DEF Init
<1>2. ASSUME NEW e \in End
      PROVE  Created(e) \in State /\ Good(Created(e)) /\ Created(e).own.of = e
             /\ Len(Created(e).root) = RootLen(e, Created(e).own.nr)
  <2>1. /\ Pair(Alice, 0) \in PairSet /\ Pair(Bob, 0) \in PairSet /\ Pair(e, 0) \in PairSet
        /\ Pair(e, 0).of = e /\ Pair(e, 0).nr = 0
    BY Ends DEF Pair, PairSet
  <2>2. DH(Pair(Alice, 0), Pair(Bob, 0)) \in Secret
    BY <2>1, Zenon DEF DH, Secret
  <2>3. PICK root : root = IF e = Alice THEN << DH(Pair(Alice, 0), Pair(Bob, 0)) >> ELSE <<>>
    OBVIOUS
  <2>4. root \in Seq(Secret) /\ Len(root) = RootLen(e, 0)
    BY <2>2, <2>3 DEF RootLen
  <2>5. PICK remote \in PairSet \cup {NoPair} : remote = IF e = Alice THEN Pair(Bob, 0) ELSE NoPair
    <3>1. (IF e = Alice THEN Pair(Bob, 0) ELSE NoPair) \in PairSet \cup {NoPair}
      BY <2>1, Zenon
    <3> QED
      BY <3>1, Zenon
  <2>6. Created(e) = [root |-> root, own |-> Pair(e, 0), remote |-> remote,
                      sending |-> [root |-> root, at |-> 0],
                      receiving |-> [root |-> <<>>, at |-> 0],
                      sendCount |-> 0, receiveCount |-> 0, previousSendCount |-> 0,
                      skipped |-> <<>>]
    BY <2>3, <2>5 DEF Created, Chain, NoChain
  <2>7. PICK c : c = Created(e)
    OBVIOUS
  <2>8. /\ c.root = root /\ c.own = Pair(e, 0) /\ c.sending = [root |-> root, at |-> 0]
        /\ c.receiving = [root |-> <<>>, at |-> 0] /\ c.sendCount = 0 /\ c.skipped = <<>>
    BY <2>6, <2>7
  <2>9. [root |-> root, at |-> 0] \in KeySet /\ [root |-> <<>>, at |-> 0] \in KeySet
    BY <2>4 DEF KeySet
  <2>10. c \in State
    BY <2>1, <2>4, <2>6, <2>7, <2>9 DEF State
  <2>11. Len(root) \in Nat /\ Len(c.skipped) = 0 /\ Len(c.receiving.root) = 0
    BY <2>4, <2>8, LenProperties
  <2>12. Good(c)
    BY <2>8, <2>10, <2>11 DEF Good
  <2> QED
    BY <2>1, <2>4, <2>7, <2>8, <2>10, <2>12
<1> QED
  BY <1>1, <1>2 DEF RInv, EndInv

\* encryptRatchetMessage takes the key that its chain and its counter name.
LEMMA EncryptInv ==
  ASSUME RInv, NEW e \in End, Encrypt(e)
  PROVE  RInv'
<1>1. PICK s : s = st[e]
  OBVIOUS
<1>2. /\ s \in State /\ Good(s) /\ s.own.of = e /\ Len(s.root) = RootLen(e, s.own.nr)
      /\ st \in [End -> State]
  BY <1>1 DEF RInv, EndInv
<1>3. /\ s.root \in Seq(Secret) /\ s.own \in PairSet /\ s.sendCount \in Nat
      /\ s.sending = [root |-> s.root, at |-> s.sendCount]
  BY <1>2, StateFields DEF Good
<1>4. PICK new : new = [from |-> e, nr |-> Cardinality(SentBy(e)), dh |-> s.own,
                        pn |-> s.previousSendCount, n |-> s.sendCount, key |-> s.sending]
  OBVIOUS
<1>5. PICK t : t = AdvanceSending(s)
  OBVIOUS
<1>6. packets' = packets \cup {new} /\ st' = [st EXCEPT ![e] = t] /\ read' = read
  BY <1>1, <1>4, <1>5 DEF Encrypt, MessageKey
<1>7. /\ t \in State /\ t.root = s.root /\ t.own = s.own /\ t.receiving = s.receiving
      /\ t.skipped = s.skipped /\ t.sendCount = s.sendCount + 1
      /\ t.sending = [root |-> s.root, at |-> s.sendCount + 1]
  <2>1. [root |-> s.root, at |-> s.sendCount + 1] \in KeySet
    BY <1>3 DEF KeySet
  <2>2. t = [s EXCEPT !.sending = [root |-> s.root, at |-> s.sendCount + 1], !.sendCount = s.sendCount + 1]
    <3>1. Advanced(s.sending, 1) = [root |-> s.root, at |-> s.sendCount + 1]
      BY <1>3 DEF Advanced
    <3> QED
      BY <1>5, <3>1 DEF AdvanceSending
  <2>3. s.sendCount + 1 \in Nat
    BY <1>3
  <2> QED
    BY <1>2, <2>1, <2>2, <2>3 DEF State
<1>8. \A k : (Passed(s, k) <=> Passed(t, k)) /\ (Spent(s, k) <=> Spent(t, k))
  BY <1>7 DEF Passed, Spent
<1>9. Good(t)
  <2>1. \A i \in 1 .. Len(t.skipped) : Passed(t, t.skipped[i].key)
    BY <1>2, <1>7, <1>8 DEF Good
  <2> QED
    BY <1>2, <1>7, <2>1 DEF Good
<1>10. st' \in [End -> State] /\ st'[e] = t /\ \A f \in End : f # e => st'[f] = st[f]
  BY <1>2, <1>6, <1>7
<1>11. \A f \in End : EndInv(f)'
  <2> SUFFICES ASSUME NEW f \in End
               PROVE  Good(st'[f]) /\ st'[f].own.of = f /\ Len(st'[f].root) = RootLen(f, st'[f].own.nr)
    BY DEF EndInv
  <2>1. CASE f = e
    BY <1>2, <1>7, <1>9, <1>10, <2>1
  <2>2. CASE f # e
    BY <1>10, <2>2 DEF RInv, EndInv
  <2> QED
    BY <2>1, <2>2
<1>12. \A f \in End : st'[f].own = st[f].own
  BY <1>1, <1>7, <1>10
<1>13. /\ new.from = e /\ new.dh = s.own /\ new.n = s.sendCount
       /\ new.key.root = s.root /\ new.key.at = s.sendCount /\ new.key \in KeySet
  <2>1. new.from = e /\ new.dh = s.own /\ new.n = s.sendCount /\ new.key = s.sending
    BY <1>4
  <2>2. s.sending \in KeySet
    BY <1>2, StateFields
  <2> QED
    BY <1>3, <2>1, <2>2
<1>14. \A p \in packets : PacketInv(p)'
  <2> SUFFICES ASSUME NEW p \in packets PROVE PacketInv(p)'
    OBVIOUS
  <2>1. /\ PacketInv(p) /\ p.from \in End /\ p.n \in Nat
    BY DEF RInv, PacketInv
  <2>2. p.dh.nr = st'[p.from].own.nr => p.n < st'[p.from].sendCount
    <3>1. CASE p.from = e
      BY <1>1, <1>3, <1>7, <1>10, <2>1, <3>1 DEF PacketInv
    <3>2. CASE p.from # e
      BY <1>10, <2>1, <3>2 DEF PacketInv
    <3> QED
      BY <3>1, <3>2
  <2> QED
    BY <1>12, <2>1, <2>2 DEF PacketInv
<1>15. PacketInv(new)'
  <2>1. s.own.nr \in Nat
    BY <1>3 DEF PairSet
  <2> QED
    BY <1>2, <1>3, <1>7, <1>10, <1>13, <2>1 DEF PacketInv
<1>16. \A p \in packets : p.from = e /\ p.dh = s.own => p.n # s.sendCount
  <2> SUFFICES ASSUME NEW p \in packets, p.from = e, p.dh = s.own PROVE p.n # s.sendCount
    OBVIOUS
  <2>1. PacketInv(p)
    BY DEF RInv
  <2>2. p.n \in Nat /\ p.n < s.sendCount
    BY <1>1, <2>1 DEF PacketInv
  <2> QED
    BY <1>3, <2>2
<1>17. \A p, q \in packets' : p.from = q.from /\ p.dh = q.dh /\ p.n = q.n => p = q
  <2> SUFFICES ASSUME NEW p \in packets', NEW q \in packets', p.from = q.from, p.dh = q.dh, p.n = q.n
               PROVE  p = q
    OBVIOUS
  <2>1. CASE p \in packets /\ q \in packets
    BY <2>1 DEF RInv
  <2>2. CASE p \in packets /\ q = new
    BY <1>13, <1>16, <2>2
  <2>3. CASE p = new /\ q \in packets
    BY <1>13, <1>16, <2>3
  <2> QED
    BY <1>6, <2>1, <2>2, <2>3
<1>18. \A p \in read : Spent(st'[Other(p.from)], p.key)
  <2> SUFFICES ASSUME NEW p \in read PROVE Spent(st'[Other(p.from)], p.key)
    OBVIOUS
  <2>1. p \in packets /\ p.from \in End /\ Other(p.from) \in End /\ Spent(st[Other(p.from)], p.key)
    BY Ends DEF RInv, PacketInv
  <2> QED
    BY <1>1, <1>8, <1>10, <2>1
<1> QED
  BY <1>6, <1>10, <1>11, <1>14, <1>15, <1>17, <1>18 DEF RInv

\* saveRatchet writes the beginning of the list, and the rest as it is.
LEMMA StoredShape ==
  ASSUME NEW t \in State, NEW v, v = Stored(t)
  PROVE  /\ v \in State /\ v.skipped \in Seq(SkippedKey) /\ Len(v.skipped) \in Nat
         /\ Len(v.skipped) = IF Len(t.skipped) > StoreList THEN StoreList ELSE Len(t.skipped)
         /\ \A i \in 1 .. Len(v.skipped) : i \in 1 .. Len(t.skipped) /\ v.skipped[i] = t.skipped[i]
         /\ v.root = t.root /\ v.own = t.own /\ v.remote = t.remote
         /\ v.sending = t.sending /\ v.receiving = t.receiving
         /\ v.sendCount = t.sendCount /\ v.receiveCount = t.receiveCount
         /\ v.previousSendCount = t.previousSendCount
<1>1. t.skipped \in Seq(SkippedKey) /\ Len(t.skipped) \in Nat /\ StoreList \in Nat
  BY RatchetAssumption, LenProperties DEF State, RatchetAssumption
<1>2. PICK m \in Nat : m = IF Len(t.skipped) > StoreList THEN StoreList ELSE Len(t.skipped)
  <2>1. (IF Len(t.skipped) > StoreList THEN StoreList ELSE Len(t.skipped)) \in Nat
    BY <1>1
  <2> QED
    BY <2>1, Zenon
<1>3. m <= Len(t.skipped)
  BY <1>1, <1>2
<1>4. PICK q : q = SubSeq(t.skipped, 1, m)
  OBVIOUS
<1>5. /\ q \in Seq(SkippedKey) /\ Len(q) = m
      /\ \A i \in 1 .. m : i \in 1 .. Len(t.skipped) /\ q[i] = t.skipped[i]
  <2>1. \A i \in 1 .. m : t.skipped[i] \in SkippedKey /\ i \in 1 .. Len(t.skipped)
    BY <1>1, <1>3, ElementOfSeq
  <2>2. 1 \in Int /\ m \in Int
    OBVIOUS
  <2>3. /\ q \in Seq(SkippedKey)
        /\ Len(q) = IF 1 <= m THEN m - 1 + 1 ELSE 0
        /\ \A i \in 1 .. m - 1 + 1 : q[i] = t.skipped[1 + i - 1]
    BY <1>4, <2>1, <2>2, SubSeqProperties
  <2>4. Len(q) = m /\ m - 1 + 1 = m /\ \A i \in 1 .. m : 1 + i - 1 = i
    BY <2>3
  <2> QED
    BY <2>1, <2>3, <2>4
<1>6. v = [t EXCEPT !.skipped = q]
  BY <1>2, <1>4 DEF Stored
<1>7. /\ v \in State /\ v.skipped = q
      /\ v.root = t.root /\ v.own = t.own /\ v.remote = t.remote
      /\ v.sending = t.sending /\ v.receiving = t.receiving
      /\ v.sendCount = t.sendCount /\ v.receiveCount = t.receiveCount
      /\ v.previousSendCount = t.previousSendCount
  BY <1>5, <1>6 DEF State
<1> QED
  BY <1>2, <1>5, <1>7

\* What is saved is good, and what was spent stays spent.
LEMMA StoredKeeps ==
  ASSUME NEW t, Good(t), NEW v, v = Stored(t)
  PROVE  Good(v) /\ \A k : Spent(t, k) => Spent(v, k)
<1>1. t \in State
  BY DEF Good
<1>2. /\ v \in State /\ Len(v.skipped) \in Nat
      /\ \A i \in 1 .. Len(v.skipped) : i \in 1 .. Len(t.skipped) /\ v.skipped[i] = t.skipped[i]
      /\ v.root = t.root /\ v.sending = t.sending /\ v.receiving = t.receiving
      /\ v.sendCount = t.sendCount
  BY <1>1, StoredShape
<1>3. \A k : Passed(v, k) <=> Passed(t, k)
  BY <1>2 DEF Passed
<1>4. \A k : Spent(t, k) => Spent(v, k)
  BY <1>2, <1>3 DEF Spent
<1>5. \A i \in 1 .. Len(v.skipped) : Passed(v, v.skipped[i].key)
  BY <1>2, <1>3 DEF Good
<1>6. \A i, j \in 1 .. Len(v.skipped) : v.skipped[i].key = v.skipped[j].key => i = j
  BY <1>2 DEF Good
<1> QED
  BY <1>2, <1>4, <1>5, <1>6 DEF Good

\* decryptRatchetMessage and saveRatchet.
LEMMA ReceiveInv ==
  ASSUME RInv, NEW p \in packets, Receive(p)
  PROVE  RInv'
<1>1. PICK e \in End : e = Other(p.from)
  BY Ends DEF RInv, PacketInv
<1>2. PICK s : s = st[e]
  OBVIOUS
<1>w. PICK w : w = Decrypt(s, p).state
  OBVIOUS
<1>3. PICK t : t = Stored(w)
  OBVIOUS
<1>4. /\ s \in State /\ Good(s) /\ s.own.of = e /\ Len(s.root) = RootLen(e, s.own.nr)
      /\ s.own \in PairSet /\ s.own.nr \in Nat /\ Len(s.root) \in Nat /\ st \in [End -> State]
  <2>1. s \in State /\ Good(s) /\ s.own.of = e /\ Len(s.root) = RootLen(e, s.own.nr) /\ st \in [End -> State]
    BY <1>2 DEF RInv, EndInv
  <2>2. s.own \in PairSet /\ s.root \in Seq(Secret)
    BY <2>1, StateFields
  <2> QED
    BY <2>1, <2>2, LenProperties DEF PairSet
<1>5. st' = [st EXCEPT ![e] = t] /\ read' = read \cup {p} /\ packets' = packets
  BY <1>1, <1>2, <1>w, <1>3 DEF Receive
<1>6. p.dh \in PairSet /\ p.n \in Nat /\ p.key \in KeySet /\ p.from \in End
  BY DEF RInv, PacketInv
<1>7. Decrypt(s, p).ok /\ Decrypt(s, p).key = p.key
  BY <1>1, <1>2 DEF Receive, Readable
<1>8. Uses(s, t, p.key) /\ (SameSender(s, t) \/ NewSender(s, t))
  <2>1. Uses(s, w, p.key) /\ (SameSender(s, w) \/ NewSender(s, w))
    BY <1>w, <1>4, <1>6, <1>7, DecryptKeeps
  <2>2. Good(w) /\ w \in State
    BY <2>1 DEF Uses, Good
  <2>3. Good(t) /\ \A k : Spent(w, k) => Spent(t, k)
    BY <1>3, <2>2, StoredKeeps
  <2>4. t.root = w.root /\ t.own = w.own /\ t.sendCount = w.sendCount
    BY <1>3, <2>2, StoredShape
  <2>5. Uses(s, t, p.key)
    BY <2>1, <2>3 DEF Uses
  <2>6. SameSender(s, t) \/ NewSender(s, t)
    BY <2>1, <2>4 DEF SameSender, NewSender
  <2> QED
    BY <2>5, <2>6
<1>9. Good(t) /\ t \in State /\ Spent(t, p.key) /\ \A k \in KeySet : Spent(s, k) => Spent(t, k)
  BY <1>8 DEF Uses, Good
<1>10. st' \in [End -> State] /\ st'[e] = t /\ \A f \in End : f # e => st'[f] = st[f]
  BY <1>4, <1>5, <1>9
<1>11. /\ t.own.of = e /\ Len(t.root) = RootLen(e, t.own.nr)
       /\ t.own.nr \in Nat /\ s.own.nr <= t.own.nr
       /\ t.own.nr = s.own.nr => t.sendCount = s.sendCount
  <2>1. CASE SameSender(s, t)
    BY <1>4, <2>1 DEF SameSender
  <2>2. CASE NewSender(s, t)
    <3>1. t.own.of = e /\ t.own.nr = s.own.nr + 1 /\ Len(t.root) = Len(s.root) + 2
      BY <1>4, <2>2 DEF NewSender, Pair
    <3>2. RootLen(e, s.own.nr + 1) = RootLen(e, s.own.nr) + 2
      BY <1>4 DEF RootLen
    <3> QED
      BY <1>4, <3>1, <3>2
  <2> QED
    BY <1>8, <2>1, <2>2
<1>12. \A f \in End : EndInv(f)'
  <2> SUFFICES ASSUME NEW f \in End
               PROVE  Good(st'[f]) /\ st'[f].own.of = f /\ Len(st'[f].root) = RootLen(f, st'[f].own.nr)
    BY DEF EndInv
  <2>1. CASE f = e
    BY <1>9, <1>10, <1>11, <2>1
  <2>2. CASE f # e
    BY <1>10, <2>2 DEF RInv, EndInv
  <2> QED
    BY <2>1, <2>2
<1>13. \A q \in packets : PacketInv(q)'
  <2> SUFFICES ASSUME NEW q \in packets PROVE PacketInv(q)'
    OBVIOUS
  <2>1. PacketInv(q) /\ q.from \in End /\ q.dh \in PairSet /\ q.dh.nr \in Nat
    BY DEF RInv, PacketInv, PairSet
  <2>2. /\ q.dh.nr <= st'[q.from].own.nr
        /\ q.dh.nr = st'[q.from].own.nr => q.n < st'[q.from].sendCount
    <3>1. CASE q.from = e
      <4>1. q.dh.nr <= s.own.nr /\ (q.dh.nr = s.own.nr => q.n < s.sendCount)
        BY <1>2, <2>1, <3>1 DEF PacketInv
      <4>2. st'[q.from] = t
        BY <1>10, <3>1
      <4> QED
        BY <1>4, <1>11, <2>1, <4>1, <4>2
    <3>2. CASE q.from # e
      BY <1>10, <2>1, <3>2 DEF PacketInv
    <3> QED
      BY <3>1, <3>2
  <2> QED
    BY <2>1, <2>2 DEF PacketInv
<1>14. \A q \in read' : Spent(st'[Other(q.from)], q.key)
  <2> SUFFICES ASSUME NEW q \in read' PROVE Spent(st'[Other(q.from)], q.key)
    OBVIOUS
  <2>1. CASE q = p
    BY <1>1, <1>9, <1>10, <2>1
  <2>2. CASE q \in read
    <3>1. q.key \in KeySet /\ Other(q.from) \in End /\ Spent(st[Other(q.from)], q.key)
      BY <2>2, Ends DEF RInv, PacketInv
    <3> QED
      BY <1>2, <1>9, <1>10, <3>1
  <2> QED
    BY <1>5, <2>1, <2>2
<1>15. /\ read' \subseteq packets'
       /\ \A q, r \in packets' : q.from = r.from /\ q.dh = r.dh /\ q.n = r.n => q = r
  BY <1>5 DEF RInv
<1> QED
  BY <1>5, <1>10, <1>12, <1>13, <1>14, <1>15 DEF RInv

LEMMA NextInv == RInv /\ [Next]_vars => RInv'
<1> SUFFICES ASSUME RInv, [Next]_vars PROVE RInv'
  OBVIOUS
<1>1. CASE \E e \in End : Encrypt(e)
  BY <1>1, EncryptInv
<1>2. CASE \E p \in packets : Receive(p)
  BY <1>2, ReceiveInv
<1>3. CASE UNCHANGED vars
  BY <1>3 DEF vars, RInv, EndInv, PacketInv
<1> QED
  BY <1>1, <1>2, <1>3 DEF Next

-----------------------------------------------------------------------------
\* No two packets are sealed with one key.
LEMMA Sealing == RInv => KeysUsedOnce
<1> SUFFICES ASSUME RInv, NEW p \in packets, NEW q \in packets, p.key = q.key
             PROVE  p = q
  BY DEF KeysUsedOnce
<1>1. PacketInv(p) /\ PacketInv(q)
  BY DEF RInv
<1>2. /\ p.from \in End /\ q.from \in End /\ p.dh.nr \in Nat /\ q.dh.nr \in Nat
      /\ p.dh \in PairSet /\ q.dh \in PairSet /\ p.dh.of = p.from /\ q.dh.of = q.from
  BY <1>1 DEF PacketInv, PairSet
<1>3. p.from = q.from /\ p.dh.nr = q.dh.nr
  <2>1. RootLen(p.from, p.dh.nr) = RootLen(q.from, q.dh.nr)
    BY <1>1 DEF PacketInv
  <2> QED
    BY <1>2, <2>1, RootLenInjective
<1>4. p.dh = q.dh
  BY <1>2, <1>3 DEF PairSet
<1>5. p.n = q.n
  BY <1>1 DEF PacketInv
<1> QED
  BY <1>3, <1>4, <1>5 DEF RInv

\* A packet that was read does not open again.
LEMMA Opening == RInv => ReadOnlyOnce
<1> SUFFICES ASSUME RInv, NEW p \in read, Readable(p) PROVE FALSE
  BY DEF ReadOnlyOnce
<1>1. /\ p \in packets /\ p.dh \in PairSet /\ p.n \in Nat /\ p.key \in KeySet
      /\ Other(p.from) \in End /\ Spent(st[Other(p.from)], p.key)
  BY Ends DEF RInv, PacketInv
<1>2. PICK s : s = st[Other(p.from)]
  OBVIOUS
<1>3. Good(s) /\ Decrypt(s, p).ok /\ Decrypt(s, p).key = p.key
  BY <1>1, <1>2 DEF RInv, EndInv, Readable
<1>4. Uses(s, Decrypt(s, p).state, p.key)
  BY <1>1, <1>3, DecryptKeeps
<1> QED
  BY <1>1, <1>2, <1>4 DEF Uses

\* A message key seals one packet and opens it once, whatever the number of
\* packets, the order they come in and how often each is delivered.
THEOREM KeysServe == Spec => []KeysServeOnce
<1>1. RInv => KeysServeOnce
  BY Sealing, Opening DEF KeysServeOnce
<1> QED
  BY <1>1, InitInv, NextInv, PTL DEF Spec


-----------------------------------------------------------------------------
(***************************************************************************)
(* InStep of RatchetSession, for every number of packets and of skipped    *)
(* keys: the root keys of the two ends never part, and the receiver can    *)
(* read what the sender's current chain has sent, in any order, as long as *)
(* the chain is no longer than the keys that can be skipped, except for    *)
(* the packets whose keys the store cut off the list.                      *)
(*                                                                         *)
(* One end is ahead: it has made the last DH step, with the current key of *)
(* the other.  An end steps only with a packet that opens, and a packet    *)
(* opens by a step only when its root is one secret longer than the root   *)
(* of the reader, which is then behind.  The keys that were skipped on the *)
(* current chain are the last of the list, in order, so the limit takes    *)
(* those of earlier chains first.  The store takes the last ones: of those *)
(* the history has a record, and of no others.                             *)
(***************************************************************************)

\* The DH keys of the entries, and whether a packet has one.
Heads(s)      == {s.skipped[i].dh : i \in 1 .. Len(s.skipped)}
Has(s, dh, n) == \E i \in 1 .. Len(s.skipped) : s.skipped[i].dh = dh /\ s.skipped[i].n = n

\* The chain counts what it has passed, and what it has skipped is at the end
\* of the list, in order, under its own keys.
Fit(s) ==
  /\ s.receiving.at = s.receiveCount
  /\ \A i \in 1 .. Len(s.skipped) :
       s.skipped[i].dh = s.remote =>
         /\ Len(s.skipped) - i + s.skipped[i].n + 1 < s.receiveCount
         /\ s.skipped[i].key = [root |-> s.receiving.root, at |-> s.skipped[i].n]

\* A root key with one more secret.
Mixed(root, x, y) == Append(root, DH(x, y))

\* e has stepped with the current key of the other end, which has not yet
\* stepped with the current key of e.
Ahead(e) ==
  LET s == st[e]  o == st[Other(e)]
  IN  /\ s.root = Mixed(o.root, s.own, o.own)
      /\ s.remote = o.own /\ s.receiving.root = o.root
      /\ o.remote # s.own

\* What the receiving side of e knows of the other end.
Knows(e) ==
  LET s == st[e]  o == st[Other(e)]
  IN  /\ \A dh \in Heads(s) : dh.nr <= o.own.nr
      /\ o.own \in Heads(s) => s.remote = o.own
      /\ s.remote = o.own => s.receiveCount <= o.sendCount

\* What was sent on the current chain has its root.
OnChain(p) == p.key.root # <<>> /\ (p.dh = st[p.from].own => p.key.root = st[p.from].root)

\* A packet that was overtaken on the current chain has its key put by, or lost
\* to the store.
PutByFor(p) ==
  LET s == st[Other(p.from)]  o == st[p.from]
  IN  p.dh = o.own /\ s.remote = o.own /\ o.sendCount <= MaxSkip + 1 /\ p.n < s.receiveCount
      => Has(s, p.dh, p.n) \/ p.key \in dropped

SInv ==
  /\ \E e \in End : Ahead(e)
  /\ \A e \in End : Fit(st[e]) /\ Knows(e) /\ (st[e].root = <<>> => st[e].sendCount = 0)
  /\ \A p \in packets : OnChain(p)
  /\ \A p \in packets \ read : PutByFor(p)
-----------------------------------------------------------------------------
(* The receiving side of one end.                                          *)

LEMMA Entries ==
  ASSUME NEW s \in State
  PROVE  /\ s.skipped \in Seq(SkippedKey) /\ Len(s.skipped) \in Nat
         /\ \A i \in 1 .. Len(s.skipped) :
              s.skipped[i].dh \in PairSet /\ s.skipped[i].n \in Nat /\ s.skipped[i].key \in KeySet
         /\ s.receiveCount \in Nat /\ s.receiving.root \in Seq(Secret) /\ s.receiving.at \in Nat
         /\ s.receiving = [root |-> s.receiving.root, at |-> s.receiving.at]
<1>1. s.skipped \in Seq(SkippedKey) /\ Len(s.skipped) \in Nat /\ s.receiveCount \in Nat /\ s.receiving \in KeySet
  BY StateFields
<1>2. \A i \in 1 .. Len(s.skipped) : s.skipped[i] \in SkippedKey
  BY <1>1, ElementOfSeq
<1>3. \A k \in SkippedKey : k.dh \in PairSet /\ k.n \in Nat /\ k.key \in KeySet
  BY DEF SkippedKey
<1> QED
  BY <1>1, <1>2, <1>3 DEF KeySet

\* takeSkipped leaves the other entries, and their order.
LEMMA TakeFits ==
  ASSUME NEW s, Good(s), Fit(s), NEW i \in 1 .. Len(s.skipped), NEW t, t = TakeSkipped(s, i)
  PROVE  /\ Fit(t) /\ Heads(t) \subseteq Heads(s)
         /\ t.remote = s.remote /\ t.receiveCount = s.receiveCount /\ t.receiving = s.receiving
         /\ \A dh, n : Has(s, dh, n) => Has(t, dh, n) \/ (s.skipped[i].dh = dh /\ s.skipped[i].n = n)
<1>1. s \in State
  BY DEF Good
<1>2. /\ s.skipped \in Seq(SkippedKey) /\ Len(s.skipped) \in Nat /\ s.receiveCount \in Nat
      /\ \A j \in 1 .. Len(s.skipped) : s.skipped[j].n \in Nat
  BY <1>1, Entries
<1>3. PICK r : r = Without(s.skipped, i)
  OBVIOUS
<1>4. /\ r \in Seq(SkippedKey) /\ Len(r) = Len(s.skipped) - 1
      /\ \A j \in 1 .. Len(r) : r[j] = IF j < i THEN s.skipped[j] ELSE s.skipped[j + 1]
  BY <1>2, <1>3, TakenOut
<1>5. /\ t.skipped = r /\ t.remote = s.remote /\ t.receiveCount = s.receiveCount
      /\ t.receiving = s.receiving
  <2>1. t = [s EXCEPT !.skipped = r]
    BY <1>3 DEF TakeSkipped, Without
  <2> QED
    BY <1>1, <2>1 DEF State
<1> DEFINE pos(x) == IF x < i THEN x ELSE x + 1
<1>6. \A j \in 1 .. Len(r) : pos(j) \in 1 .. Len(s.skipped) /\ pos(j) <= j + 1 /\ r[j] = s.skipped[pos(j)]
  BY <1>2, <1>4
<1>7. \A k \in 1 .. Len(s.skipped) : k # i => \E j \in 1 .. Len(r) : pos(j) = k
  <2> SUFFICES ASSUME NEW k \in 1 .. Len(s.skipped), k # i PROVE \E j \in 1 .. Len(r) : pos(j) = k
    OBVIOUS
  <2>1. CASE k < i
    BY <1>2, <1>4, <2>1
  <2>2. CASE ~(k < i)
    <3>1. k - 1 \in 1 .. Len(r) /\ pos(k - 1) = k
      BY <1>2, <1>4, <2>2
    <3> QED
      BY <3>1
  <2> QED
    BY <2>1, <2>2
<1> HIDE DEF pos
<1>8. Fit(t)
  <2> SUFFICES ASSUME NEW j \in 1 .. Len(r), r[j].dh = s.remote
               PROVE  /\ Len(r) - j + r[j].n + 1 < s.receiveCount
                      /\ r[j].key = [root |-> s.receiving.root, at |-> r[j].n]
    BY <1>5 DEF Fit
  <2>1. PICK k \in 1 .. Len(s.skipped) : r[j] = s.skipped[k] /\ k <= j + 1
    BY <1>6
  <2>2. /\ Len(s.skipped) - k + s.skipped[k].n + 1 < s.receiveCount
        /\ s.skipped[k].key = [root |-> s.receiving.root, at |-> s.skipped[k].n]
    BY <2>1 DEF Fit
  <2>3. Len(r) \in Nat /\ s.skipped[k].n \in Nat
    BY <1>2, <1>4, LenProperties
  <2>4. Len(r) - j + s.skipped[k].n + 1 < s.receiveCount
    <3>1. \A a, b, c, d, e \in Int : c <= b + 1 /\ a - c + d + 1 < e => (a - 1) - b + d + 1 < e
      OBVIOUS
    <3>2. Len(s.skipped) \in Int /\ j \in Int /\ k \in Int /\ s.skipped[k].n \in Int /\ s.receiveCount \in Int
      BY <1>2, <2>3
    <3>3. (Len(s.skipped) - 1) - j + s.skipped[k].n + 1 < s.receiveCount
      BY <2>1, <2>2, <3>1, <3>2
    <3>4. Len(r) = Len(s.skipped) - 1
      BY <1>4
    <3> QED
      BY <3>3, <3>4
  <2> QED
    BY <2>1, <2>2, <2>4
<1>9. Heads(t) \subseteq Heads(s)
  BY <1>5, <1>6 DEF Heads
<1>10. \A dh, n : Has(s, dh, n) => Has(t, dh, n) \/ (s.skipped[i].dh = dh /\ s.skipped[i].n = n)
  <2> SUFFICES ASSUME NEW dh, NEW n, Has(s, dh, n), ~(s.skipped[i].dh = dh /\ s.skipped[i].n = n)
               PROVE  Has(t, dh, n)
    OBVIOUS
  <2>1. PICK k \in 1 .. Len(s.skipped) : s.skipped[k].dh = dh /\ s.skipped[k].n = n
    BY DEF Has
  <2>2. PICK j \in 1 .. Len(r) : pos(j) = k
    BY <1>7, <2>1
  <2> QED
    BY <1>5, <1>6, <2>1, <2>2 DEF Has
<1> QED
  BY <1>5, <1>8, <1>9, <1>10

\* The store's cut leaves the order of the entries, and what it takes is known.
LEMMA StoredFits ==
  ASSUME NEW t, Good(t), Fit(t), NEW v, v = Stored(t)
  PROVE  /\ Fit(v) /\ Heads(v) \subseteq Heads(t)
         /\ \A n : Has(t, t.remote, n) =>
              Has(v, t.remote, n) \/ [root |-> t.receiving.root, at |-> n] \in CutOff(t)
<1>1. t \in State
  BY DEF Good
<1>2. /\ Len(t.skipped) \in Nat /\ t.receiveCount \in Nat /\ StoreList \in Nat
      /\ \A i \in 1 .. Len(t.skipped) : t.skipped[i].n \in Nat
  BY <1>1, Entries, RatchetAssumption DEF RatchetAssumption
<1>3. /\ Len(v.skipped) \in Nat
      /\ Len(v.skipped) = IF Len(t.skipped) > StoreList THEN StoreList ELSE Len(t.skipped)
      /\ \A i \in 1 .. Len(v.skipped) : i \in 1 .. Len(t.skipped) /\ v.skipped[i] = t.skipped[i]
      /\ v.remote = t.remote /\ v.receiving = t.receiving /\ v.receiveCount = t.receiveCount
  BY <1>1, StoredShape
<1>4. Fit(v)
  <2> SUFFICES ASSUME NEW i \in 1 .. Len(v.skipped), v.skipped[i].dh = v.remote
               PROVE  /\ Len(v.skipped) - i + v.skipped[i].n + 1 < v.receiveCount
                      /\ v.skipped[i].key = [root |-> v.receiving.root, at |-> v.skipped[i].n]
    BY <1>3 DEF Fit
  <2>1. i \in 1 .. Len(t.skipped) /\ v.skipped[i] = t.skipped[i] /\ t.skipped[i].n \in Nat
    BY <1>2, <1>3
  <2>2. /\ Len(t.skipped) - i + t.skipped[i].n + 1 < t.receiveCount
        /\ t.skipped[i].key = [root |-> t.receiving.root, at |-> t.skipped[i].n]
    BY <1>3, <2>1 DEF Fit
  <2>3. Len(v.skipped) <= Len(t.skipped)
    BY <1>2, <1>3
  <2>4. Len(v.skipped) - i + t.skipped[i].n + 1 < t.receiveCount
    <3>1. \A a, b, c, d, e \in Int : a <= b /\ b - c + d + 1 < e => a - c + d + 1 < e
      OBVIOUS
    <3>2. /\ Len(v.skipped) \in Int /\ Len(t.skipped) \in Int /\ i \in Int
          /\ t.skipped[i].n \in Int /\ t.receiveCount \in Int
      BY <1>2, <1>3, <2>1
    <3> QED
      BY <2>2, <2>3, <3>1, <3>2
  <2> QED
    BY <1>3, <2>1, <2>2, <2>4
<1>5. Heads(v) \subseteq Heads(t)
  BY <1>3 DEF Heads
<1>6. ASSUME NEW n, Has(t, t.remote, n)
      PROVE  Has(v, t.remote, n) \/ [root |-> t.receiving.root, at |-> n] \in CutOff(t)
  <2>1. PICK i \in 1 .. Len(t.skipped) : t.skipped[i].dh = t.remote /\ t.skipped[i].n = n
    BY <1>6 DEF Has
  <2>2. CASE i \in 1 .. Len(v.skipped)
    BY <1>3, <2>1, <2>2 DEF Has
  <2>3. CASE i \notin 1 .. Len(v.skipped)
    <3>1. i \in StoreList + 1 .. Len(t.skipped)
      BY <1>2, <1>3, <2>1, <2>3
    <3>2. t.skipped[i].key = [root |-> t.receiving.root, at |-> n]
      BY <2>1 DEF Fit
    <3> QED
      BY <3>1, <3>2 DEF CutOff
  <2> QED
    BY <2>2, <2>3
<1> QED
  BY <1>4, <1>5, <1>6

\* ratchetReceiveStep begins a chain that has skipped nothing.
LEMMA StepFits ==
  ASSUME NEW s, Good(s), NEW dh \in PairSet, NEW t, t = RatchetReceiveStep(s, dh)
  PROVE  /\ dh \notin Heads(s) => Fit(t)
         /\ Heads(t) = Heads(s)
         /\ t.remote = dh /\ t.receiveCount = 0 /\ t.sendCount = 0 /\ t.receiving.at = 0
         /\ t.own = Pair(s.own.of, s.own.nr + 1)
         /\ t.receiving.root = Mixed(s.root, s.own, dh)
         /\ t.root = Mixed(t.receiving.root, t.own, dh)
<1>1. s \in State
  BY DEF Good
<1>2. PICK own : own = Pair(s.own.of, s.own.nr + 1)
  OBVIOUS
<1>3. PICK receive : receive = Mixed(s.root, s.own, dh)
  OBVIOUS
<1>4. PICK send : send = Mixed(receive, own, dh)
  OBVIOUS
<1>5. t = [s EXCEPT !.previousSendCount = s.sendCount, !.sendCount = 0, !.receiveCount = 0,
                    !.remote = dh, !.own = own, !.root = send,
                    !.receiving = [root |-> receive, at |-> 0], !.sending = [root |-> send, at |-> 0]]
  BY <1>2, <1>3, <1>4 DEF RatchetReceiveStep, Chain, Mixed
<1>6. /\ t.skipped = s.skipped /\ t.remote = dh /\ t.receiveCount = 0 /\ t.sendCount = 0
      /\ t.own = own /\ t.root = send /\ t.receiving = [root |-> receive, at |-> 0]
  BY <1>1, <1>5 DEF State
<1>7. Heads(t) = Heads(s)
  BY <1>6 DEF Heads
<1>8. dh \notin Heads(s) => Fit(t)
  BY <1>6 DEF Fit, Heads
<1> QED
  BY <1>2, <1>3, <1>4, <1>6, <1>7, <1>8

\* saveSkipped drops what is over the limit.
LEMMA NewestLen ==
  ASSUME NEW S, NEW q \in Seq(S)
  PROVE  Len(Newest(q)) = IF Len(q) > MaxSkip THEN MaxSkip ELSE Len(q)
<1>0. Len(q) \in Nat /\ MaxSkip \in Nat
  BY RatchetAssumption, LenProperties DEF RatchetAssumption
<1>1. PICK m \in 1 .. Len(q) + 1 : m = IF Len(q) > MaxSkip THEN Len(q) - MaxSkip + 1 ELSE 1
  <2>1. (IF Len(q) > MaxSkip THEN Len(q) - MaxSkip + 1 ELSE 1) \in 1 .. Len(q) + 1
    BY <1>0
  <2> QED
    BY <2>1, Zenon
<1>2. Newest(q) = SubSeq(q, m, Len(q))
  BY <1>1 DEF Newest
<1>3. \A i \in m .. Len(q) : q[i] \in S
  BY <1>1, ElementOfSeq
<1>4. Len(Newest(q)) = IF m <= Len(q) THEN Len(q) - m + 1 ELSE 0
  <2>1. m \in Int /\ Len(q) \in Int
    BY <1>0
  <2> QED
    BY <1>2, <1>3, <2>1, SubSeqProperties
<1> QED
  <2>1. CASE Len(q) > MaxSkip
    <3>1. \A a, b \in Nat : a > b => a - (a - b + 1) + 1 = b /\ (a - b + 1 <= a <=> b > 0)
      OBVIOUS
    <3> QED
      BY <1>0, <1>1, <1>4, <2>1, <3>1
  <2>2. CASE ~(Len(q) > MaxSkip)
    <3>1. m = 1
      BY <1>1, <2>2
    <3> QED
      BY <1>0, <1>4, <2>2, <3>1
  <2> QED
    BY <2>1, <2>2

\* skipUntil, and the use of the key that follows it: the chain moves past the
\* gap, and an entry for each number of it is put at the end of the list.
Shape(s, h, u, t, gap, new) ==
  /\ gap = IF h.n > s.receiveCount THEN h.n - s.receiveCount ELSE 0
  /\ Len(new) = gap
  /\ \A i \in 1 .. gap :
       /\ new[i].dh = h.dh /\ new[i].n = s.receiveCount + i - 1
       /\ new[i].key = [root |-> s.receiving.root, at |-> s.receiving.at + (i - 1)]
  /\ u.receiving = [root |-> s.receiving.root, at |-> s.receiving.at + gap]
  /\ t.receiving = [root |-> s.receiving.root, at |-> s.receiving.at + gap + 1]
  /\ t.receiveCount = s.receiveCount + gap + 1
  /\ t.skipped = Newest(s.skipped \o new)
  /\ t.remote = s.remote

LEMMA SkipShape ==
  ASSUME NEW s, Good(s), NEW h, h.dh \in PairSet, h.n \in Nat,
         NEW u, u = SkipUntil(s, h), NEW t, t = Moved(u)
  PROVE  \E gap \in Nat, new \in Seq(SkippedKey) : Shape(s, h, u, t, gap, new)
<1>1. s \in State
  BY DEF Good
<1>2. /\ s.receiving.root \in Seq(Secret) /\ s.receiving.at \in Nat /\ s.receiveCount \in Nat
      /\ s.receiving = [root |-> s.receiving.root, at |-> s.receiving.at]
  BY <1>1, Entries
<1>3. PICK gap \in Nat : gap = IF h.n > s.receiveCount THEN h.n - s.receiveCount ELSE 0
  <2>1. (IF h.n > s.receiveCount THEN h.n - s.receiveCount ELSE 0) \in Nat
    BY <1>2
  <2> QED
    BY <2>1, Zenon
<1>4. \A k \in Int : Advanced(s.receiving, k) = [root |-> s.receiving.root, at |-> s.receiving.at + k]
  BY <1>2 DEF Advanced
<1>5. PICK new : new = [i \in 1 .. gap |-> [dh |-> h.dh, n |-> s.receiveCount + i - 1,
                                            key |-> MessageKey(Advanced(s.receiving, i - 1))]]
  OBVIOUS
<1>6. ASSUME NEW i \in 1 .. gap
      PROVE  /\ new[i] \in SkippedKey /\ new[i].dh = h.dh /\ new[i].n = s.receiveCount + i - 1
             /\ new[i].key = [root |-> s.receiving.root, at |-> s.receiving.at + (i - 1)]
  <2>1. i - 1 \in Nat /\ s.receiveCount + i - 1 \in Nat /\ s.receiving.at + (i - 1) \in Nat
    BY <1>2
  <2>2. new[i] = [dh |-> h.dh, n |-> s.receiveCount + i - 1,
                  key |-> [root |-> s.receiving.root, at |-> s.receiving.at + (i - 1)]]
    BY <1>4, <1>5, <2>1 DEF MessageKey
  <2>3. [root |-> s.receiving.root, at |-> s.receiving.at + (i - 1)] \in KeySet
    BY <1>2, <2>1 DEF KeySet
  <2> QED
    BY <2>1, <2>2, <2>3 DEF SkippedKey
<1>7. new \in Seq(SkippedKey) /\ Len(new) = gap
  <2>1. new \in [1 .. gap -> SkippedKey]
    BY <1>5, <1>6
  <2> QED
    BY <2>1, SeqDef
<1>8. u = [s EXCEPT !.skipped = Newest(s.skipped \o new), !.receiving = Advanced(s.receiving, gap),
                    !.receiveCount = s.receiveCount + gap]
  BY <1>3, <1>5, Zenon DEF SkipUntil
<1>9. /\ u.skipped = Newest(s.skipped \o new) /\ u.remote = s.remote
      /\ u.receiving = [root |-> s.receiving.root, at |-> s.receiving.at + gap]
      /\ u.receiveCount = s.receiveCount + gap
      /\ t = [u EXCEPT !.receiving = Advanced(u.receiving, 1), !.receiveCount = u.receiveCount + 1]
      /\ DOMAIN u = DOMAIN s
  BY <1>1, <1>4, <1>8 DEF State, Moved
<1>10. Advanced(u.receiving, 1) = [root |-> s.receiving.root, at |-> s.receiving.at + gap + 1]
  BY <1>9 DEF Advanced
<1>11. /\ t.skipped = u.skipped /\ t.remote = u.remote /\ t.receiving = Advanced(u.receiving, 1)
       /\ t.receiveCount = u.receiveCount + 1
  BY <1>1, <1>9 DEF State
<1> QED
  BY <1>3, <1>6, <1>7, <1>9, <1>10, <1>11 DEF Shape

\* The entries of the current chain stay the last ones, and all that fit, fit.
LEMMA SkipFits ==
  ASSUME NEW s, Good(s), Fit(s), NEW h, h.dh \in PairSet, h.n \in Nat,
         h.dh = s.remote, s.receiveCount <= h.n, NEW t, t = Moved(SkipUntil(s, h))
  PROVE  /\ Fit(t) /\ Heads(t) \subseteq Heads(s) \cup {h.dh}
         /\ t.remote = s.remote /\ t.receiveCount = h.n + 1 /\ t.receiving.root = s.receiving.root
         /\ h.n <= MaxSkip =>
              \A n \in Nat : Has(s, h.dh, n) \/ (s.receiveCount <= n /\ n < h.n) => Has(t, h.dh, n)
<1>1. s \in State
  BY DEF Good
<1>2. /\ s.skipped \in Seq(SkippedKey) /\ Len(s.skipped) \in Nat /\ s.receiveCount \in Nat
      /\ s.receiving.at = s.receiveCount /\ MaxSkip \in Nat
      /\ \A i \in 1 .. Len(s.skipped) : s.skipped[i].n \in Nat
  BY <1>1, Entries, RatchetAssumption DEF Fit, RatchetAssumption
<1>u. PICK u : u = SkipUntil(s, h)
  OBVIOUS
<1>g. PICK gap \in Nat, new \in Seq(SkippedKey) : Shape(s, h, u, t, gap, new)
  <2>1. t = Moved(u)
    BY <1>u
  <2> QED
    BY <1>u, <2>1, SkipShape
<1>3. /\ gap = IF h.n > s.receiveCount THEN h.n - s.receiveCount ELSE 0
      /\ Len(new) = gap
      /\ \A i \in 1 .. gap :
           /\ new[i].dh = h.dh /\ new[i].n = s.receiveCount + i - 1
           /\ new[i].key = [root |-> s.receiving.root, at |-> s.receiving.at + (i - 1)]
      /\ t.receiving = [root |-> s.receiving.root, at |-> s.receiving.at + gap + 1]
      /\ t.receiveCount = s.receiveCount + gap + 1
      /\ t.skipped = Newest(s.skipped \o new)
      /\ t.remote = s.remote
  BY <1>g DEF Shape
<1>4. s.receiveCount + gap = h.n /\ t.receiveCount = h.n + 1
  <2>1. s.receiveCount + gap = h.n
    BY <1>2, <1>3
  <2> QED
    BY <1>3, <2>1
<1>5. PICK all : all = s.skipped \o new
  OBVIOUS
<1>6. /\ all \in Seq(SkippedKey) /\ Len(all) = Len(s.skipped) + gap
      /\ \A i \in 1 .. Len(all) : all[i] = IF i <= Len(s.skipped) THEN s.skipped[i] ELSE new[i - Len(s.skipped)]
  <2>1. /\ s.skipped \o new \in Seq(SkippedKey)
        /\ Len(s.skipped \o new) = Len(s.skipped) + Len(new)
        /\ \A i \in 1 .. Len(s.skipped) + Len(new) :
             (s.skipped \o new)[i] = IF i <= Len(s.skipped) THEN s.skipped[i] ELSE new[i - Len(s.skipped)]
    BY <1>2, ConcatProperties
  <2> QED
    BY <1>3, <1>5, <2>1
<1>a. \A i \in 1 .. Len(s.skipped) : i \in 1 .. Len(all) /\ all[i] = s.skipped[i]
  BY <1>2, <1>6
<1>b. ASSUME NEW j \in 1 .. gap
      PROVE  Len(s.skipped) + j \in 1 .. Len(all) /\ all[Len(s.skipped) + j] = new[j]
  <2>1. /\ Len(s.skipped) + j \in 1 .. Len(all) /\ ~(Len(s.skipped) + j <= Len(s.skipped))
        /\ (Len(s.skipped) + j) - Len(s.skipped) = j
    BY <1>2, <1>6
  <2> QED
    BY <1>6, <2>1
<1>c. ASSUME NEW i \in 1 .. Len(all), ~(i \in 1 .. Len(s.skipped))
      PROVE  \E j \in 1 .. gap : i = Len(s.skipped) + j /\ all[i] = new[j]
  <2>1. i - Len(s.skipped) \in 1 .. gap /\ i = Len(s.skipped) + (i - Len(s.skipped))
    BY <1>2, <1>6, <1>c
  <2> QED
    BY <1>b, <2>1
<1>7. PICK d \in Nat : /\ Newest(all) \in Seq(SkippedKey) /\ Len(Newest(all)) + d = Len(all)
                       /\ \A i \in 1 .. Len(Newest(all)) : Newest(all)[i] = all[i + d]
  BY <1>6, NewestIsTail, Zenon
<1>8. d > 0 => Len(Newest(all)) = MaxSkip
  <2>1. Len(Newest(all)) = IF Len(all) > MaxSkip THEN MaxSkip ELSE Len(all)
    BY <1>6, NewestLen
  <2> QED
    BY <1>2, <1>6, <1>7, <2>1
<1>9. t.skipped = Newest(all) /\ Len(t.skipped) \in Nat /\ Len(all) \in Nat /\ Len(t.skipped) + d = Len(all)
  BY <1>2, <1>3, <1>5, <1>6, <1>7, LenProperties
<1>10. \A i \in 1 .. Len(t.skipped) : i + d \in 1 .. Len(all) /\ t.skipped[i] = all[i + d]
  BY <1>7, <1>9
\* Each entry of the chain in the long list: its place, its number, its key.
<1>11. ASSUME NEW i \in 1 .. Len(all), all[i].dh = s.remote
       PROVE  /\ all[i].n \in Nat /\ Len(all) - i + all[i].n + 1 < h.n + 1
              /\ all[i].key = [root |-> s.receiving.root, at |-> all[i].n]
  <2>1. CASE i \in 1 .. Len(s.skipped)
    <3>1. i \in 1 .. Len(s.skipped) /\ all[i] = s.skipped[i]
      BY <1>a, <2>1
    <3>2. /\ s.skipped[i].n \in Nat
          /\ Len(s.skipped) - i + s.skipped[i].n + 1 < s.receiveCount
          /\ s.skipped[i].key = [root |-> s.receiving.root, at |-> s.skipped[i].n]
      BY <1>2, <1>11, <3>1 DEF Fit
    <3>3. \A a, b, c, r, g \in Int : a - b + c + 1 < r /\ g >= 0 => (a + g) - b + c + 1 < (r + g) + 1
      OBVIOUS
    <3>4. (Len(s.skipped) + gap) - i + s.skipped[i].n + 1 < (s.receiveCount + gap) + 1
      <4>1. /\ Len(s.skipped) \in Int /\ i \in Int /\ s.skipped[i].n \in Int /\ s.receiveCount \in Int
            /\ gap \in Int /\ gap >= 0
        BY <1>2, <3>2
      <4> QED
        BY <3>2, <3>3, <4>1
    <3> QED
      BY <1>4, <1>6, <3>1, <3>2, <3>4
  <2>2. CASE ~(i \in 1 .. Len(s.skipped))
    <3>1. PICK j \in 1 .. gap : i = Len(s.skipped) + j /\ all[i] = new[j]
      BY <1>c, <2>2
    <3>2. /\ new[j].n = s.receiveCount + j - 1
          /\ new[j].key = [root |-> s.receiving.root, at |-> s.receiving.at + (j - 1)]
      BY <1>3
    <3>3. s.receiveCount + j - 1 \in Nat /\ s.receiving.at + (j - 1) = s.receiveCount + j - 1
      BY <1>2
    <3>4. \A a, b, r, g \in Int : (a + g) - (a + b) + (r + b - 1) + 1 < (r + g) + 1
      OBVIOUS
    <3>5. (Len(s.skipped) + gap) - (Len(s.skipped) + j) + (s.receiveCount + j - 1) + 1 < (s.receiveCount + gap) + 1
      <4>1. Len(s.skipped) \in Int /\ j \in Int /\ s.receiveCount \in Int /\ gap \in Int
        BY <1>2
      <4> QED
        BY <3>4, <4>1
    <3> QED
      BY <1>4, <1>6, <3>1, <3>2, <3>3, <3>5
  <2> QED
    BY <2>1, <2>2
<1>12. Fit(t)
  <2>1. t.receiving.at = t.receiveCount /\ t.receiving.root = s.receiving.root
    BY <1>2, <1>3
  <2>2. ASSUME NEW i \in 1 .. Len(t.skipped), t.skipped[i].dh = t.remote
        PROVE  /\ Len(t.skipped) - i + t.skipped[i].n + 1 < t.receiveCount
               /\ t.skipped[i].key = [root |-> t.receiving.root, at |-> t.skipped[i].n]
    <3>1. /\ t.skipped[i].n \in Nat /\ Len(all) - (i + d) + t.skipped[i].n + 1 < h.n + 1
          /\ t.skipped[i].key = [root |-> s.receiving.root, at |-> t.skipped[i].n]
      BY <1>3, <1>10, <1>11, <2>2
    <3>2. Len(all) - (i + d) = Len(t.skipped) - i
      BY <1>9
    <3> QED
      BY <1>4, <2>1, <3>1, <3>2
  <2> QED
    BY <2>1, <2>2 DEF Fit
<1>13. Heads(t) \subseteq Heads(s) \cup {h.dh}
  <2>1. ASSUME NEW i \in 1 .. Len(all) PROVE all[i].dh \in Heads(s) \cup {h.dh}
    <3>1. CASE i \in 1 .. Len(s.skipped)
      BY <1>a, <3>1 DEF Heads
    <3>2. CASE ~(i \in 1 .. Len(s.skipped))
      BY <1>3, <1>c, <3>2
    <3> QED
      BY <3>1, <3>2
  <2>2. \A i \in 1 .. Len(t.skipped) : t.skipped[i].dh \in Heads(s) \cup {h.dh}
    BY <1>10, <2>1
  <2> QED
    BY <2>2 DEF Heads
<1>14. ASSUME h.n <= MaxSkip, NEW n \in Nat, Has(s, h.dh, n) \/ (s.receiveCount <= n /\ n < h.n)
       PROVE  Has(t, h.dh, n)
  <2>1. PICK i \in 1 .. Len(all) : all[i].dh = h.dh /\ all[i].n = n
    <3>1. CASE Has(s, h.dh, n)
      <4>1. PICK i \in 1 .. Len(s.skipped) : s.skipped[i].dh = h.dh /\ s.skipped[i].n = n
        BY <3>1 DEF Has
      <4>2. i \in 1 .. Len(all) /\ all[i] = s.skipped[i]
        BY <1>a
      <4> QED
        BY <4>1, <4>2
    <3>2. CASE s.receiveCount <= n /\ n < h.n
      <4>1. PICK j \in 1 .. gap : j = n - s.receiveCount + 1
        BY <1>2, <1>4, <3>2
      <4>2. s.receiveCount + j - 1 = n
        BY <1>2, <4>1
      <4>3. Len(s.skipped) + j \in 1 .. Len(all) /\ all[Len(s.skipped) + j] = new[j]
        BY <1>b
      <4> QED
        BY <1>3, <4>2, <4>3
    <3> QED
      BY <1>14, <3>1, <3>2
  <2>2. Len(all) - i + n + 1 < h.n + 1
    BY <1>11, <2>1
  <2>3. i > d
    <3> SUFFICES ASSUME i <= d PROVE FALSE
      BY <2>1
    <3>1. Len(all) = MaxSkip + d
      BY <1>8, <1>9, <2>1
    <3> QED
      BY <1>2, <1>9, <1>14, <2>1, <2>2, <3>1
  <2>4. i - d \in 1 .. Len(t.skipped) /\ (i - d) + d = i
    BY <1>9, <2>3
  <2>5. t.skipped[i - d] = all[i]
    BY <1>10, <2>4
  <2> QED
    BY <2>1, <2>4, <2>5 DEF Has
<1> QED
  BY <1>3, <1>4, <1>12, <1>13, <1>14

\* A packet is read with a key that was put by, or with one of the chain: the
\* current one, or the one a DH step begins.
Stepped(s, h) == IF s.remote = h.dh THEN s ELSE RatchetReceiveStep(s, h.dh)

LEMMA DecryptCases ==
  ASSUME NEW s, NEW h
  PROVE  LET d == Decrypt(s, h)  x == Stepped(s, h) IN
         \/ \E i \in 1 .. Len(s.skipped) :
              /\ s.skipped[i].dh = h.dh /\ s.skipped[i].n = h.n
              /\ d = [ok |-> TRUE, key |-> s.skipped[i].key, state |-> TakeSkipped(s, i)]
         \/ /\ ~Has(s, h.dh, h.n)
            /\ d = IF h.n > x.receiveCount + MaxSkip \/ x.receiving = NoChain THEN Failure
                   ELSE [ok |-> TRUE, key |-> SkipUntil(x, h).receiving, state |-> Moved(SkipUntil(x, h))]
<1> DEFINE found == {i \in 1 .. Len(s.skipped) : s.skipped[i].dh = h.dh /\ s.skipped[i].n = h.n}
           first == CHOOSE i \in found : \A j \in found : i <= j
<1>1. CASE found # {}
  <2>1. first \in found
    <3>1. found \in SUBSET Nat
      OBVIOUS
    <3> QED
      BY <1>1, <3>1, FirstOf, Zenon
  <2>2. Decrypt(s, h) = [ok |-> TRUE, key |-> s.skipped[first].key, state |-> TakeSkipped(s, first)]
    BY <1>1 DEF Decrypt
  <2>3. first \in 1 .. Len(s.skipped) /\ s.skipped[first].dh = h.dh /\ s.skipped[first].n = h.n
    BY <2>1
  <2> HIDE DEF found, first
  <2> QED
    BY <2>2, <2>3
<1>2. CASE found = {}
  <2>1. ~Has(s, h.dh, h.n)
    BY <1>2 DEF Has
  <2>2. Decrypt(s, h) = IF h.n > Stepped(s, h).receiveCount + MaxSkip \/ Stepped(s, h).receiving = NoChain
                        THEN Failure
                        ELSE [ok |-> TRUE, key |-> SkipUntil(Stepped(s, h), h).receiving,
                              state |-> Moved(SkipUntil(Stepped(s, h), h))]
    BY <1>2 DEF Decrypt, Stepped, Moved, MessageKey
  <2> QED
    BY <2>1, <2>2
<1> QED
  BY <1>1, <1>2

-----------------------------------------------------------------------------
(* The two ends.                                                           *)

\* What is known of a packet and of the two ends that have to do with it.
LEMMA Facts ==
  ASSUME RInv, SInv, NEW p \in packets
  PROVE  LET f == p.from  e == Other(p.from) IN
         /\ e \in End /\ f \in End /\ Other(e) = f /\ e # f
         /\ \A g \in End : g = e \/ g = f
         /\ Good(st[e]) /\ Good(st[f]) /\ st[e] \in State /\ st[f] \in State
         /\ Fit(st[e]) /\ Knows(e) /\ Knows(f) /\ OnChain(p)
         /\ p.dh \in PairSet /\ p.n \in Nat /\ p.key = [root |-> p.key.root, at |-> p.n]
         /\ p.key.root \in Seq(Secret) /\ p.key.root # <<>>
         /\ st[f].own \in PairSet /\ st[e].own \in PairSet
         /\ st[f].own.nr \in Nat /\ st[e].own.nr \in Nat /\ p.dh.nr \in Nat
         /\ p.dh.nr <= st[f].own.nr
         /\ p.dh.nr = st[f].own.nr => p.dh = st[f].own /\ p.n < st[f].sendCount
         /\ st[f].sendCount \in Nat /\ st[e].sendCount \in Nat
         /\ st[e].root \in Seq(Secret) /\ st[f].root \in Seq(Secret)
         /\ Len(st[f].root) = RootLen(f, st[f].own.nr) /\ Len(p.key.root) = RootLen(f, p.dh.nr)
<1>1. PICK f \in End : f = p.from
  BY DEF RInv, PacketInv
<1>2. PICK e \in End : e = Other(f) /\ Other(e) = f /\ e # f /\ \A g \in End : g = e \/ g = f
  BY RatchetAssumption, <1>1 DEF End, Other, RatchetAssumption
<1>3. PacketInv(p) /\ OnChain(p)
  BY DEF RInv, SInv
<1>4. /\ Good(st[e]) /\ Good(st[f]) /\ st[e] \in State /\ st[f] \in State
      /\ Fit(st[e]) /\ Knows(e) /\ Knows(f)
      /\ Len(st[f].root) = RootLen(f, st[f].own.nr) /\ st[f].own.of = f
  BY DEF RInv, SInv, EndInv
<1>5. /\ st[f].own \in PairSet /\ st[e].own \in PairSet /\ st[f].sendCount \in Nat /\ st[e].sendCount \in Nat
      /\ st[e].root \in Seq(Secret) /\ st[f].root \in Seq(Secret)
  BY <1>4, StateFields
<1>6. /\ p.dh \in PairSet /\ p.n \in Nat /\ p.key \in KeySet /\ p.key.at = p.n /\ p.key.root # <<>>
      /\ p.dh.of = f /\ p.dh.nr <= st[f].own.nr /\ (p.dh.nr = st[f].own.nr => p.n < st[f].sendCount)
      /\ Len(p.key.root) = RootLen(f, p.dh.nr)
  BY <1>1, <1>3 DEF PacketInv, OnChain
<1>7. p.key = [root |-> p.key.root, at |-> p.n] /\ p.key.root \in Seq(Secret)
  BY <1>6 DEF KeySet
<1>8. st[f].own.nr \in Nat /\ st[e].own.nr \in Nat /\ p.dh.nr \in Nat
  BY <1>5, <1>6 DEF PairSet
<1>9. p.dh.nr = st[f].own.nr => p.dh = st[f].own
  BY <1>4, <1>5, <1>6 DEF PairSet
<1> QED
  BY <1>1, <1>2, <1>3, <1>4, <1>5, <1>6, <1>7, <1>8, <1>9

LEMMA AheadLonger ==
  ASSUME RInv, NEW e \in End, Ahead(e)
  PROVE  Len(st[e].root) = Len(st[Other(e)].root) + 1
<1>1. PICK f \in End : f = Other(e)
  BY Ends
<1>2. st[f].root \in Seq(Secret)
  BY StateFields DEF RInv
<1>3. DH(st[e].own, st[f].own) \in Secret
  <2>1. st[e].own \in PairSet /\ st[f].own \in PairSet
    BY StateFields DEF RInv
  <2> QED
    BY <2>1, Zenon DEF DH, Secret
<1>4. st[e].root = Append(st[f].root, DH(st[e].own, st[f].own))
  BY <1>1 DEF Ahead, Mixed
<1>5. Len(Append(st[f].root, DH(st[e].own, st[f].own))) = Len(st[f].root) + 1
  BY <1>2, <1>3, AppendProperties
<1> QED
  BY <1>1, <1>4, <1>5

\* A packet that opens by a DH step: its sender is ahead, and it is of the
\* sender's current chain.
LEMMA OpensByStep ==
  ASSUME RInv, SInv, NEW p \in packets, NEW e, e = Other(p.from), NEW f, f = p.from,
         p.key.root = Mixed(st[e].root, st[e].own, p.dh)
  PROVE  /\ Ahead(f) /\ p.dh = st[f].own /\ p.key.root = st[f].root
         /\ st[e].remote # st[f].own /\ st[f].own \notin Heads(st[e])
<1>1. /\ e \in End /\ f \in End /\ Other(e) = f /\ \A g \in End : g = e \/ g = f
      /\ st[e].root \in Seq(Secret) /\ st[f].root \in Seq(Secret)
      /\ st[e].own \in PairSet /\ p.dh \in PairSet /\ st[f].own.nr \in Nat /\ p.dh.nr \in Nat
      /\ p.dh.nr <= st[f].own.nr /\ (p.dh.nr = st[f].own.nr => p.dh = st[f].own)
      /\ Len(st[f].root) = RootLen(f, st[f].own.nr) /\ Len(p.key.root) = RootLen(f, p.dh.nr)
      /\ Knows(e) /\ OnChain(p)
  BY Facts
<1>2. Len(p.key.root) = Len(st[e].root) + 1 /\ Len(st[e].root) \in Nat
  <2>1. DH(st[e].own, p.dh) \in Secret
    BY <1>1, Zenon DEF DH, Secret
  <2> QED
    BY <1>1, <2>1, AppendProperties, LenProperties DEF Mixed
<1>3. Len(p.key.root) <= Len(st[f].root)
  <2>1. \A a, b \in Nat : a <= b => 2 * a <= 2 * b /\ 2 * a + 1 <= 2 * b + 1
    OBVIOUS
  <2>2. RootLen(f, p.dh.nr) <= RootLen(f, st[f].own.nr)
    BY <1>1, <2>1 DEF RootLen
  <2> QED
    BY <1>1, <2>2
<1>4. Ahead(f)
  <2>1. CASE Ahead(e)
    <3>1. Len(st[e].root) = Len(st[f].root) + 1 /\ Len(st[f].root) \in Nat
      BY <1>1, <2>1, AheadLonger, LenProperties
    <3> QED
      BY <1>2, <1>3, <3>1
  <2>2. CASE Ahead(f)
    BY <2>2
  <2> QED
    BY <1>1, <2>1, <2>2 DEF SInv
<1>5. Len(st[f].root) = Len(st[e].root) + 1
  <2>1. Other(f) = e
    OBVIOUS
  <2> QED
    BY <1>1, <1>4, <2>1, AheadLonger
<1>6. p.dh.nr = st[f].own.nr
  <2>1. RootLen(f, p.dh.nr) = RootLen(f, st[f].own.nr)
    BY <1>1, <1>2, <1>5
  <2> QED
    BY <1>1, <2>1, RootLenInjective
<1>7. p.dh = st[f].own /\ p.key.root = st[f].root
  BY <1>1, <1>6 DEF OnChain
<1>8. st[e].remote # st[f].own
  BY <1>4 DEF Ahead
<1>9. st[f].own \notin Heads(st[e])
  BY <1>1, <1>8 DEF Knows
<1> QED
  BY <1>4, <1>7, <1>8, <1>9

\* What reading does to the end that reads: it stays on its chain, or it turns
\* to the chain of the other end and is ahead.
Stays(s, t) ==
  /\ t.root = s.root /\ t.own = s.own /\ t.sendCount = s.sendCount
  /\ t.remote = s.remote /\ t.receiving.root = s.receiving.root

Turns(s, t, f) ==
  /\ Ahead(f)
  /\ t.root = Mixed(st[f].root, t.own, st[f].own)
  /\ t.own = Pair(s.own.of, s.own.nr + 1) /\ t.sendCount = 0
  /\ t.remote = st[f].own /\ t.receiving.root = st[f].root

LEMMA Reading ==
  ASSUME RInv, SInv, NEW p \in packets, Readable(p), NEW e, e = Other(p.from), NEW f, f = p.from,
         NEW s, s = st[e], NEW t, t = Decrypt(s, p).state
  PROVE  /\ Fit(t) /\ Heads(t) \subseteq Heads(s) \cup {p.dh}
         /\ st[f].own \in Heads(t) => t.remote = st[f].own
         /\ t.remote = st[f].own => t.receiveCount <= st[f].sendCount
         /\ Stays(s, t) \/ Turns(s, t, f)
         /\ \A q \in packets \ (read \cup {p}) :
              /\ q.from = f /\ q.dh = st[f].own /\ t.remote = st[f].own
              /\ st[f].sendCount <= MaxSkip + 1 /\ q.n < t.receiveCount
              => Has(t, q.dh, q.n) \/ q.key \in dropped
<1>1. /\ e \in End /\ f \in End /\ Other(e) = f
      /\ Good(s) /\ s \in State /\ Fit(s) /\ Knows(e)
      /\ p.dh \in PairSet /\ p.n \in Nat /\ p.key = [root |-> p.key.root, at |-> p.n]
      /\ p.dh.nr \in Nat /\ st[f].own.nr \in Nat
      /\ (p.dh.nr = st[f].own.nr => p.dh = st[f].own /\ p.n < st[f].sendCount)
      /\ st[f].sendCount \in Nat
  BY Facts
<1>2. Decrypt(s, p).ok /\ Decrypt(s, p).key = p.key
  BY DEF Readable
<1>3. s.receiveCount \in Nat /\ s.receiving.at = s.receiveCount /\ MaxSkip \in Nat
  BY <1>1, Entries, RatchetAssumption DEF Fit, RatchetAssumption
\* Another packet of the same chain has another number.
<1>4. ASSUME NEW q \in packets \ (read \cup {p}), q.from = f, q.dh = p.dh PROVE q.n # p.n /\ q.n \in Nat
  BY <1>4 DEF RInv, PacketInv
<1>5. ASSUME NEW q \in packets \ (read \cup {p}), q.from = f, q.dh = st[f].own, s.remote = st[f].own,
             st[f].sendCount <= MaxSkip + 1, q.n < s.receiveCount
      PROVE  Has(s, q.dh, q.n) \/ q.key \in dropped
  BY <1>5 DEF SInv, PutByFor
<1>6. CASE \E i \in 1 .. Len(s.skipped) :
             /\ s.skipped[i].dh = p.dh /\ s.skipped[i].n = p.n
             /\ Decrypt(s, p) = [ok |-> TRUE, key |-> s.skipped[i].key, state |-> TakeSkipped(s, i)]
  <2>1. PICK i \in 1 .. Len(s.skipped) :
          /\ s.skipped[i].dh = p.dh /\ s.skipped[i].n = p.n /\ t = TakeSkipped(s, i)
    BY <1>6
  <2>2. /\ Fit(t) /\ Heads(t) \subseteq Heads(s)
        /\ t.remote = s.remote /\ t.receiveCount = s.receiveCount /\ t.receiving = s.receiving
        /\ \A dh, n : Has(s, dh, n) => Has(t, dh, n) \/ (s.skipped[i].dh = dh /\ s.skipped[i].n = n)
    BY <1>1, <2>1, TakeFits
  <2>3. SameSender(s, t)
    BY <1>1, <2>1, TakeKeeps
  <2>4. ASSUME NEW q \in packets \ (read \cup {p}), q.from = f, q.dh = st[f].own, t.remote = st[f].own,
               st[f].sendCount <= MaxSkip + 1, q.n < t.receiveCount
        PROVE  Has(t, q.dh, q.n) \/ q.key \in dropped
    <3>1. Has(s, q.dh, q.n) \/ q.key \in dropped
      BY <1>5, <2>2, <2>4
    <3>2. ~(q.dh = p.dh /\ q.n = p.n)
      BY <1>4, <2>4
    <3> QED
      BY <2>1, <2>2, <3>1, <3>2
  <2>5. Stays(s, t)
    BY <2>2, <2>3 DEF Stays, SameSender
  <2>6. /\ st[f].own \in Heads(t) => t.remote = st[f].own
        /\ t.remote = st[f].own => t.receiveCount <= st[f].sendCount
    BY <1>1, <2>2 DEF Knows
  <2> QED
    BY <2>2, <2>4, <2>5, <2>6
<1>7. CASE /\ ~Has(s, p.dh, p.n)
           /\ Decrypt(s, p) =
                LET x == Stepped(s, p) IN
                IF p.n > x.receiveCount + MaxSkip \/ x.receiving = NoChain THEN Failure
                ELSE [ok |-> TRUE, key |-> SkipUntil(x, p).receiving, state |-> Moved(SkipUntil(x, p))]
  <2>1. PICK x : x = Stepped(s, p)
    OBVIOUS
  <2>2. p.key = SkipUntil(x, p).receiving /\ t = Moved(SkipUntil(x, p))
    BY <1>2, <1>7, <2>1 DEF Failure
  <2>3. /\ Good(x) /\ (x = s \/ s.remote # p.dh) /\ x.remote = p.dh
        /\ s.remote = p.dh => x = s
        /\ s.remote # p.dh => x = RatchetReceiveStep(s, p.dh)
    <3>1. CASE s.remote = p.dh
      BY <1>1, <2>1, <3>1 DEF Stepped
    <3>2. CASE s.remote # p.dh
      <4>1. x = RatchetReceiveStep(s, p.dh)
        BY <2>1, <3>2 DEF Stepped
      <4> QED
        BY <1>1, <3>2, <4>1, StepKeeps, StepFits
    <3> QED
      BY <3>1, <3>2
  <2>4. p.key.root = x.receiving.root /\ x.receiving.at <= p.n
    <3>1. PICK u : u = SkipUntil(x, p)
      OBVIOUS
    <3>2. PICK v : v = Moved(u)
      OBVIOUS
    <3>3. PICK gap \in Nat, new \in Seq(SkippedKey) : Shape(x, p, u, v, gap, new)
      BY <1>1, <2>3, <3>1, <3>2, SkipShape
    <3>4. p.key = [root |-> x.receiving.root, at |-> x.receiving.at + gap]
      BY <2>2, <3>1, <3>3 DEF Shape
    <3>5. x.receiving.at \in Nat
      BY <2>3, Entries DEF Good
    <3> QED
      BY <1>1, <3>4, <3>5
\* The chain that is read is a good one, and is that of the sender if it is new.
  <2>5. /\ Fit(x) /\ Heads(x) \subseteq Heads(s)
        /\ x = s \/ (Turns(s, x, f) /\ p.dh = st[f].own /\ x.receiveCount = 0)
    <3>1. CASE s.remote = p.dh
      BY <1>1, <2>3, <3>1
    <3>2. CASE s.remote # p.dh
      <4>1. x = RatchetReceiveStep(s, p.dh)
        BY <2>3, <3>2
      <4>2. /\ p.dh \notin Heads(s) => Fit(x)
            /\ Heads(x) = Heads(s) /\ x.remote = p.dh /\ x.receiveCount = 0 /\ x.sendCount = 0
            /\ x.own = Pair(s.own.of, s.own.nr + 1)
            /\ x.receiving.root = Mixed(s.root, s.own, p.dh)
            /\ x.root = Mixed(x.receiving.root, x.own, p.dh)
        BY <1>1, <4>1, StepFits
      <4>3. /\ Ahead(f) /\ p.dh = st[f].own /\ p.key.root = st[f].root /\ st[f].own \notin Heads(s)
        BY <2>4, <4>2, OpensByStep
      <4> QED
        BY <2>4, <4>2, <4>3 DEF Turns
    <3> QED
      BY <3>1, <3>2
  <2>6. x.receiveCount <= p.n
    BY <2>4, <2>5 DEF Fit
  <2>7. /\ Fit(t) /\ Heads(t) \subseteq Heads(x) \cup {p.dh}
        /\ t.remote = x.remote /\ t.receiveCount = p.n + 1 /\ t.receiving.root = x.receiving.root
        /\ p.n <= MaxSkip =>
             \A n \in Nat : Has(x, p.dh, n) \/ (x.receiveCount <= n /\ n < p.n) => Has(t, p.dh, n)
    BY <1>1, <2>2, <2>3, <2>5, <2>6, SkipFits
  <2>8. SameSender(x, t)
    BY <1>1, <2>2, <2>3, SkipKeeps
  <2>9. Stays(s, t) \/ Turns(s, t, f)
    BY <2>5, <2>7, <2>8 DEF Stays, Turns, SameSender
  <2>10. st[f].own \in Heads(t) => t.remote = st[f].own
    BY <1>1, <2>3, <2>5, <2>7 DEF Knows
  <2>11. t.remote = st[f].own => t.receiveCount <= st[f].sendCount
    BY <1>1, <2>3, <2>7
  <2>12. ASSUME NEW q \in packets \ (read \cup {p}), q.from = f, q.dh = st[f].own, t.remote = st[f].own,
                st[f].sendCount <= MaxSkip + 1, q.n < t.receiveCount
         PROVE  Has(t, q.dh, q.n) \/ q.key \in dropped
    <3>1. p.dh = st[f].own /\ q.dh = p.dh
      BY <2>3, <2>7, <2>12
    <3>2. p.n <= MaxSkip /\ q.n \in Nat /\ q.n < p.n
      BY <1>1, <1>3, <1>4, <2>7, <2>12, <3>1
    <3>3. CASE x.receiveCount <= q.n
      BY <2>7, <3>1, <3>2, <3>3
    <3>4. CASE ~(x.receiveCount <= q.n)
      <4>1. x = s
        BY <2>5, <3>2, <3>4
      <4>2. Has(s, q.dh, q.n) \/ q.key \in dropped
        BY <1>3, <1>5, <2>3, <2>12, <3>1, <3>2, <3>4, <4>1
      <4> QED
        BY <2>7, <3>1, <3>2, <4>1, <4>2
    <3> QED
      BY <3>3, <3>4
  <2>13. Heads(t) \subseteq Heads(s) \cup {p.dh}
    BY <2>5, <2>7
  <2> QED
    BY <2>7, <2>9, <2>10, <2>11, <2>12, <2>13
<1> QED
  BY <1>6, <1>7, DecryptCases

LEMMA InitInStep == Init => SInv
<1> SUFFICES ASSUME Init PROVE SInv
  OBVIOUS
<1>1. /\ packets = {} /\ Alice # Bob /\ "nobody" # Alice
      /\ \A e \in End : st[e] = Created(e)
      /\ Other(Alice) = Bob /\ Other(Bob) = Alice /\ End = {Alice, Bob}
  BY RatchetAssumption DEF Init, RatchetAssumption, Other, End
<1>2. PICK a : a = st[Alice]
  OBVIOUS
<1>3. PICK b : b = st[Bob]
  OBVIOUS
<1>4. /\ a.root = << DH(Pair(Alice, 0), Pair(Bob, 0)) >> /\ a.own = Pair(Alice, 0) /\ a.remote = Pair(Bob, 0)
      /\ a.receiving = [root |-> <<>>, at |-> 0] /\ a.sendCount = 0 /\ a.receiveCount = 0 /\ a.skipped = <<>>
  BY <1>1, <1>2 DEF Created, NoChain, Chain
<1>5. /\ b.root = <<>> /\ b.own = Pair(Bob, 0) /\ b.remote = NoPair
      /\ b.receiving = [root |-> <<>>, at |-> 0] /\ b.sendCount = 0 /\ b.receiveCount = 0 /\ b.skipped = <<>>
  BY <1>1, <1>3 DEF Created, NoChain, Chain
<1>6. NoPair # Pair(Alice, 0)
  BY <1>1 DEF NoPair, Pair
<1>7. Ahead(Alice)
  <2>1. a.root = Mixed(b.root, a.own, b.own)
    <3>1. \A x : Append(<<>>, x) = <<x>>
      OBVIOUS
    <3> QED
      BY <1>4, <1>5, <3>1 DEF Mixed
  <2>2. a.remote = b.own /\ a.receiving.root = b.root /\ b.remote # a.own
    BY <1>4, <1>5, <1>6
  <2> QED
    BY <1>1, <1>2, <1>3, <2>1, <2>2 DEF Ahead
<1>8. Fit(a) /\ Fit(b) /\ Heads(a) = {} /\ Heads(b) = {}
  BY <1>4, <1>5 DEF Fit, Heads
<1>9. Knows(Alice) /\ Knows(Bob)
  BY <1>1, <1>2, <1>3, <1>4, <1>5, <1>8 DEF Knows
<1> QED
  BY <1>1, <1>2, <1>3, <1>4, <1>5, <1>7, <1>8, <1>9 DEF SInv

\* encryptRatchetMessage counts, and changes nothing else of what is compared.
LEMMA EncryptInStep ==
  ASSUME RInv, SInv, NEW e \in End, Encrypt(e)
  PROVE  SInv'
<1>1. PICK s : s = st[e]
  OBVIOUS
<1>2. PICK f \in End : f = Other(e) /\ Other(f) = e /\ f # e /\ \A g \in End : g = e \/ g = f
  BY RatchetAssumption DEF End, Other, RatchetAssumption
<1>3. /\ s \in State /\ s.sendCount \in Nat /\ s.sending = [root |-> s.root, at |-> s.sendCount]
      /\ st \in [End -> State] /\ MaxSkip \in Nat
  <2>1. s \in State /\ s.sending = [root |-> s.root, at |-> s.sendCount] /\ st \in [End -> State]
    BY <1>1 DEF RInv, EndInv, Good
  <2> QED
    BY <2>1, StateFields, RatchetAssumption DEF RatchetAssumption
<1>4. PICK new : /\ packets' = packets \cup {new} /\ new.from = e /\ new.dh = s.own /\ new.n = s.sendCount
                 /\ new.key = s.sending /\ s.sending # NoChain /\ st' = [st EXCEPT ![e] = AdvanceSending(s)]
                 /\ read' = read /\ dropped' = dropped
  <2>1. PICK x : x = [from |-> e, nr |-> Cardinality(SentBy(e)), dh |-> s.own,
                      pn |-> s.previousSendCount, n |-> s.sendCount, key |-> s.sending]
    OBVIOUS
  <2>2. x.from = e /\ x.dh = s.own /\ x.n = s.sendCount /\ x.key = s.sending
    BY <2>1
  <2>3. /\ packets' = packets \cup {x} /\ s.sending # NoChain /\ st' = [st EXCEPT ![e] = AdvanceSending(s)]
        /\ read' = read /\ dropped' = dropped
    BY <1>1, <2>1 DEF Encrypt, MessageKey
  <2> QED
    BY <2>2, <2>3
<1>5. PICK t : t = AdvanceSending(s)
  OBVIOUS
<1>6. /\ t.root = s.root /\ t.own = s.own /\ t.remote = s.remote /\ t.receiving = s.receiving
      /\ t.receiveCount = s.receiveCount /\ t.skipped = s.skipped /\ t.sendCount = s.sendCount + 1
  BY <1>3, <1>5 DEF AdvanceSending, State
<1>7. st'[e] = t /\ st'[f] = st[f]
  BY <1>2, <1>3, <1>4, <1>5
<1>8. (Ahead(e) => Ahead(e)') /\ (Ahead(f) => Ahead(f)')
  BY <1>1, <1>2, <1>6, <1>7 DEF Ahead
<1>9. (\E g \in End : Ahead(g))'
  BY <1>2, <1>8 DEF SInv
<1>10. /\ Heads(t) = Heads(s) /\ \A dh, n : Has(t, dh, n) <=> Has(s, dh, n)
       /\ Fit(t) <=> Fit(s)
  BY <1>6 DEF Heads, Has, Fit
<1>11. Fit(st'[e]) /\ Fit(st'[f])
  BY <1>1, <1>2, <1>7, <1>10 DEF SInv
<1>12. Knows(e)'
  <2>1. Knows(e)
    BY DEF SInv
  <2> QED
    BY <1>1, <1>2, <1>6, <1>7, <1>10, <2>1 DEF Knows
<1>13. Knows(f)'
  <2>1. Knows(f) /\ st[f].receiveCount \in Nat
    BY <1>3, StateFields DEF SInv
  <2>2. st[f].remote = s.own => st[f].receiveCount <= s.sendCount + 1
    BY <1>1, <1>2, <1>3, <2>1 DEF Knows
  <2> QED
    BY <1>1, <1>2, <1>6, <1>7, <2>1, <2>2 DEF Knows
<1>14. s.root # <<>>
  <2> SUFFICES ASSUME s.root = <<>> PROVE FALSE
    OBVIOUS
  <2>1. s.sendCount = 0
    BY <1>1 DEF SInv
  <2> QED
    BY <1>3, <1>4, <2>1 DEF NoChain, Chain
<1>15. \A g \in End : Fit(st'[g]) /\ Knows(g)' /\ (st'[g].root = <<>> => st'[g].sendCount = 0)
  BY <1>2, <1>6, <1>7, <1>11, <1>12, <1>13, <1>14 DEF SInv
<1>16. ASSUME NEW q \in packets' PROVE OnChain(q)'
  <2>1. CASE q = new
    BY <1>3, <1>4, <1>6, <1>7, <1>14, <2>1 DEF OnChain
  <2>2. CASE q \in packets
    <3>1. q.from \in End /\ OnChain(q)
      BY <2>2 DEF RInv, PacketInv, SInv
    <3> QED
      BY <1>1, <1>2, <1>6, <1>7, <3>1 DEF OnChain
  <2> QED
    BY <1>4, <2>1, <2>2
<1>17. ASSUME NEW q \in packets' \ read' PROVE PutByFor(q)'
  <2>1. CASE q = new
    <3>1. Knows(f) /\ st[f].receiveCount \in Nat
      BY <1>3, StateFields DEF SInv
    <3>2. st[f].remote = s.own => ~(s.sendCount < st[f].receiveCount)
      BY <1>1, <1>2, <1>3, <3>1 DEF Knows
    <3>3. Other(q.from) = f /\ q.from = e /\ q.n = s.sendCount /\ st'[f] = st[f] /\ st'[e].own = s.own
      BY <1>2, <1>4, <1>6, <1>7, <2>1
    <3> QED
      BY <3>2, <3>3 DEF PutByFor
  <2>2. CASE q \in packets
    <3>1. PutByFor(q) /\ q.from \in End
      BY <1>4, <2>2 DEF RInv, PacketInv, SInv
    <3>2. CASE q.from = e
      <4>1. s.sendCount + 1 <= MaxSkip + 1 => s.sendCount <= MaxSkip + 1
        BY <1>3
      <4> QED
        BY <1>1, <1>2, <1>4, <1>6, <1>7, <3>1, <3>2, <4>1 DEF PutByFor
    <3>3. CASE q.from = f
      BY <1>1, <1>2, <1>4, <1>6, <1>7, <1>10, <3>1, <3>3 DEF PutByFor
    <3> QED
      BY <1>2, <3>1, <3>2, <3>3
  <2> QED
    BY <1>4, <2>1, <2>2
<1> QED
  BY <1>9, <1>15, <1>16, <1>17 DEF SInv

\* A packet that is read leaves its reader where it was or turns it ahead.
LEMMA ReceiveInStep ==
  ASSUME RInv, SInv, NEW p \in packets, Receive(p)
  PROVE  SInv'
<1>1. PICK f : f = p.from
  OBVIOUS
<1>2. PICK e : e = Other(f)
  OBVIOUS
<1>3. /\ e \in End /\ f \in End /\ Other(e) = f /\ Other(f) = e /\ e # f /\ \A g \in End : g = e \/ g = f
      /\ p.dh.nr <= st[f].own.nr /\ Knows(e) /\ Knows(f)
      /\ st[e].own \in PairSet /\ st[e].own.nr \in Nat
  BY <1>1, <1>2, Facts
<1>4. PICK s : s = st[e]
  OBVIOUS
<1>5. PICK w : w = Decrypt(s, p).state
  OBVIOUS
<1>t. PICK t : t = Stored(w)
  OBVIOUS
<1>w. /\ Fit(w) /\ Heads(w) \subseteq Heads(s) \cup {p.dh}
      /\ st[f].own \in Heads(w) => w.remote = st[f].own
      /\ w.remote = st[f].own => w.receiveCount <= st[f].sendCount
      /\ Stays(s, w) \/ Turns(s, w, f)
      /\ \A q \in packets \ (read \cup {p}) :
           /\ q.from = f /\ q.dh = st[f].own /\ w.remote = st[f].own
           /\ st[f].sendCount <= MaxSkip + 1 /\ q.n < w.receiveCount
           => Has(w, q.dh, q.n) \/ q.key \in dropped
  BY <1>1, <1>2, <1>4, <1>5, Reading DEF Receive
<1>g. Good(w) /\ w \in State
  <2>1. Good(s) /\ p.dh \in PairSet /\ p.n \in Nat /\ p.key \in KeySet
    BY <1>3, <1>4 DEF RInv, EndInv, PacketInv
  <2>2. Decrypt(s, p).ok /\ Decrypt(s, p).key = p.key
    BY <1>1, <1>2, <1>4 DEF Receive, Readable
  <2>3. Good(w)
    BY <1>5, <2>1, <2>2, DecryptKeeps DEF Uses
  <2> QED
    BY <2>3 DEF Good
<1>7. /\ st'[e] = t /\ st'[f] = st[f] /\ packets' = packets /\ read' = read \cup {p}
      /\ dropped' = dropped \cup CutOff(w)
  <2>1. /\ st' = [st EXCEPT ![e] = t] /\ packets' = packets /\ read' = read \cup {p}
        /\ dropped' = dropped \cup CutOff(w)
    BY <1>1, <1>2, <1>4, <1>5, <1>t DEF Receive
  <2>2. e \in DOMAIN st /\ e # f
    BY <1>3 DEF RInv
  <2> QED
    BY <2>1, <2>2
\* The same of what is saved.
<1>s. /\ t.root = w.root /\ t.own = w.own /\ t.remote = w.remote /\ t.receiving = w.receiving
      /\ t.sendCount = w.sendCount /\ t.receiveCount = w.receiveCount
  BY <1>g, <1>t, StoredShape
<1>f. /\ Fit(t) /\ Heads(t) \subseteq Heads(w)
      /\ \A n : Has(w, w.remote, n) =>
           Has(t, w.remote, n) \/ [root |-> w.receiving.root, at |-> n] \in CutOff(w)
  BY <1>g, <1>t, <1>w, StoredFits
<1>6. /\ Fit(t) /\ Heads(t) \subseteq Heads(s) \cup {p.dh}
      /\ st[f].own \in Heads(t) => t.remote = st[f].own
      /\ t.remote = st[f].own => t.receiveCount <= st[f].sendCount
      /\ Stays(s, t) \/ Turns(s, t, f)
      /\ \A q \in packets \ (read \cup {p}) :
           /\ q.from = f /\ q.dh = st[f].own /\ t.remote = st[f].own
           /\ st[f].sendCount <= MaxSkip + 1 /\ q.n < t.receiveCount
           => Has(t, q.dh, q.n) \/ q.key \in dropped'
  <2>1. Stays(s, t) \/ Turns(s, t, f)
    BY <1>s, <1>w DEF Stays, Turns
  <2>2. ASSUME NEW q \in packets \ (read \cup {p}), q.from = f, q.dh = st[f].own, t.remote = st[f].own,
               st[f].sendCount <= MaxSkip + 1, q.n < t.receiveCount
        PROVE  Has(t, q.dh, q.n) \/ q.key \in dropped'
    <3>1. Has(w, w.remote, q.n) \/ q.key \in dropped
      BY <1>s, <1>w, <2>2
    <3>2. w.receiving.root = st[f].root
      <4>1. CASE Turns(s, w, f)
        BY <4>1 DEF Turns
      <4>2. CASE Stays(s, w)
        <5>1. s.remote = st[f].own
          BY <1>s, <2>2, <4>2 DEF Stays
        <5>2. Ahead(e)
          BY <1>3, <1>4, <5>1 DEF SInv, Ahead
        <5> QED
          BY <1>3, <1>4, <4>2, <5>2 DEF Ahead, Stays
      <4> QED
        BY <1>w, <4>1, <4>2
    <3>3. q.key = [root |-> st[f].root, at |-> q.n]
      <4>1. q.key = [root |-> q.key.root, at |-> q.n] /\ OnChain(q)
        BY Facts
      <4> QED
        BY <2>2, <4>1 DEF OnChain
    <3> QED
      BY <1>7, <1>f, <1>s, <2>2, <3>1, <3>2, <3>3
  <2> QED
    BY <1>f, <1>s, <1>w, <2>1, <2>2
\* With a turn the reader has a key pair that nobody has seen.
<1>8. /\ t.own = s.own \/ (t.own.nr = s.own.nr + 1 /\ t.own # s.own)
      /\ s.own.nr \in Nat /\ t.own.nr \in Nat /\ s.own.nr <= t.own.nr
  <2>1. CASE Stays(s, t)
    BY <1>3, <1>4, <2>1 DEF Stays
  <2>2. CASE Turns(s, t, f)
    <3>1. t.own.nr = s.own.nr + 1
      BY <2>2 DEF Turns, Pair
    <3> QED
      BY <1>3, <1>4, <3>1
  <2> QED
    BY <1>6, <2>1, <2>2
<1>9. (\E g \in End : Ahead(g))'
  <2>1. CASE Stays(s, t)
    <3>1. (Ahead(e) => Ahead(e)') /\ (Ahead(f) => Ahead(f)')
      BY <1>3, <1>4, <1>7, <2>1 DEF Ahead, Stays
    <3> QED
      BY <1>3, <3>1 DEF SInv
  <2>2. CASE Turns(s, t, f)
    <3>1. st[f].remote = s.own /\ t.own # s.own
      <4>1. st[f].remote = s.own
        BY <1>3, <1>4, <2>2 DEF Turns, Ahead
      <4>2. t.own.nr = s.own.nr + 1
        BY <2>2 DEF Turns, Pair
      <4> QED
        BY <1>8, <4>1, <4>2
    <3>2. Ahead(e)'
      BY <1>3, <1>7, <2>2, <3>1 DEF Ahead, Turns
    <3> QED
      BY <1>3, <3>2
  <2> QED
    BY <1>6, <2>1, <2>2
<1>10. Knows(e)'
  <2>1. \A dh \in Heads(t) : dh.nr <= st[f].own.nr
    BY <1>3, <1>4, <1>6 DEF Knows
  <2> QED
    BY <1>3, <1>6, <1>7, <2>1 DEF Knows
<1>11. Knows(f)'
  <2>1. \A dh \in Heads(st[f]) : dh.nr <= t.own.nr /\ (t.own # s.own => dh # t.own)
    <3> SUFFICES ASSUME NEW dh \in Heads(st[f]) PROVE dh.nr <= t.own.nr /\ (t.own # s.own => dh # t.own)
      OBVIOUS
    <3>1. dh \in PairSet /\ dh.nr \in Nat /\ dh.nr <= s.own.nr
      <4>1. dh.nr <= s.own.nr
        BY <1>3, <1>4 DEF Knows
      <4>2. st[f] \in State
        BY <1>3 DEF RInv
      <4>3. dh \in PairSet
        BY <4>2, Entries DEF Heads
      <4> QED
        BY <4>1, <4>3 DEF PairSet
    <3> QED
      BY <1>8, <3>1
  <2>2. st[f].remote = t.own => t.own = s.own
    <3>1. CASE Stays(s, t)
      BY <3>1 DEF Stays
    <3>2. CASE Turns(s, t, f)
      BY <1>3, <1>4, <3>2 DEF Turns, Ahead
    <3> QED
      BY <1>6, <3>1, <3>2
  <2>3. t.own = s.own => t.sendCount = s.sendCount
    <3>1. CASE Stays(s, t)
      BY <3>1 DEF Stays
    <3>2. CASE Turns(s, t, f)
      <4>1. t.own.nr = s.own.nr + 1
        BY <3>2 DEF Turns, Pair
      <4> QED
        BY <1>8, <4>1
    <3> QED
      BY <1>6, <3>1, <3>2
  <2> QED
    BY <1>3, <1>4, <1>7, <2>1, <2>2, <2>3 DEF Knows
<1>12. \A g \in End : Fit(st'[g]) /\ Knows(g)' /\ (st'[g].root = <<>> => st'[g].sendCount = 0)
  <2>1. t.root = <<>> => t.sendCount = 0
    <3>1. s.root = <<>> => s.sendCount = 0
      BY <1>3, <1>4 DEF SInv
    <3> QED
      BY <1>6, <3>1 DEF Stays, Turns
  <2>2. Fit(st'[e]) /\ Fit(st'[f]) /\ (st[f].root = <<>> => st[f].sendCount = 0)
    BY <1>3, <1>6, <1>7 DEF SInv
  <2> QED
    BY <1>3, <1>7, <1>10, <1>11, <2>1, <2>2
<1>13. ASSUME NEW q \in packets, q.from = e PROVE q.dh = t.own => t.own = s.own
  <2>1. q.dh.nr \in Nat /\ q.dh.nr <= s.own.nr
    BY <1>4, <1>13, Facts
  <2> QED
    BY <1>8, <2>1
<1>14. ASSUME NEW q \in packets' PROVE OnChain(q)'
  <2>1. q \in packets /\ q.from \in End /\ OnChain(q)
    BY <1>7 DEF RInv, PacketInv, SInv
  <2>2. CASE q.from = f
    BY <1>7, <2>1, <2>2 DEF OnChain
  <2>3. CASE q.from = e
    <3>1. CASE Stays(s, t)
      BY <1>4, <1>7, <2>1, <2>3, <3>1 DEF OnChain, Stays
    <3>2. CASE Turns(s, t, f)
      <4>1. t.own # s.own
        BY <1>8, <3>2 DEF Turns, Pair
      <4> QED
        BY <1>7, <1>13, <2>1, <2>3, <4>1 DEF OnChain
    <3> QED
      BY <1>6, <3>1, <3>2
  <2> QED
    BY <1>3, <2>1, <2>2, <2>3
<1>15. ASSUME NEW q \in packets' \ read' PROVE PutByFor(q)'
  <2>1. q \in packets \ (read \cup {p}) /\ q \in packets \ read /\ q.from \in End /\ PutByFor(q)
    BY <1>7 DEF RInv, PacketInv, SInv
  <2>2. CASE q.from = f
    BY <1>3, <1>6, <1>7, <2>1, <2>2 DEF PutByFor
  <2>3. CASE q.from = e
    <3>1. CASE Stays(s, t)
      BY <1>3, <1>4, <1>7, <2>1, <2>3, <3>1 DEF PutByFor, Stays
    <3>2. CASE Turns(s, t, f)
      <4>1. t.own # s.own
        BY <1>8, <3>2 DEF Turns, Pair
      <4> QED
        BY <1>7, <1>13, <2>1, <2>3, <4>1 DEF PutByFor
    <3> QED
      BY <1>6, <3>1, <3>2
  <2> QED
    BY <1>3, <2>1, <2>2, <2>3
<1> QED
  BY <1>9, <1>12, <1>14, <1>15 DEF SInv

LEMMA NextInStep == RInv /\ SInv /\ [Next]_vars => SInv'
<1> SUFFICES ASSUME RInv, SInv, [Next]_vars PROVE SInv'
  OBVIOUS
<1>1. CASE \E e \in End : Encrypt(e)
  BY <1>1, EncryptInStep
<1>2. CASE \E p \in packets : Receive(p)
  BY <1>2, ReceiveInStep
<1>3. CASE UNCHANGED vars
  BY <1>3 DEF vars, SInv, Ahead, Knows, OnChain, PutByFor
<1> QED
  BY <1>1, <1>2, <1>3 DEF Next

-----------------------------------------------------------------------------

\* The two root keys never part.
LEMMA Roots == RInv /\ SInv => RootsAgree
<1> SUFFICES ASSUME RInv, SInv PROVE RootsAgree
  OBVIOUS
<1>1. PICK e \in End : Ahead(e)
  BY DEF SInv
<1>2. PICK f \in End : f = Other(e) /\ Other(f) = e
  BY Ends
<1>3. PICK q \in Seq(Secret) : q = st[f].root
  BY StateFields DEF RInv
<1>4. PICK x \in Secret : x = DH(st[e].own, st[f].own)
  <2>1. st[e].own \in PairSet /\ st[f].own \in PairSet
    BY StateFields DEF RInv
  <2>2. DH(st[e].own, st[f].own) \in Secret
    BY <2>1, Zenon DEF DH, Secret
  <2> QED
    BY <2>2, Zenon
<1>5. st[e].root = Append(q, x)
  BY <1>1, <1>2, <1>3, <1>4 DEF Ahead, Mixed
<1>6. /\ Append(q, x) \in Seq(Secret) /\ Len(Append(q, x)) = Len(q) + 1 /\ Len(q) \in Nat
      /\ \A i \in 1 .. Len(q) : Append(q, x)[i] = q[i]
  BY AppendProperties, LenProperties
<1>7. SubSeq(Append(q, x), 1, Len(q)) = q
  <2>1. \A i \in 1 .. Len(q) : Append(q, x)[i] \in Secret
    BY <1>6, ElementOfSeq
  <2>2. /\ SubSeq(Append(q, x), 1, Len(q)) \in Seq(Secret)
        /\ Len(SubSeq(Append(q, x), 1, Len(q))) = IF 1 <= Len(q) THEN Len(q) - 1 + 1 ELSE 0
        /\ \A i \in 1 .. Len(q) - 1 + 1 : SubSeq(Append(q, x), 1, Len(q))[i] = Append(q, x)[1 + i - 1]
    BY <1>6, <2>1, SubSeqProperties
  <2>3. PICK r \in Seq(Secret) : r = SubSeq(Append(q, x), 1, Len(q))
    BY <2>2
  <2>4. Len(r) = Len(q) /\ \A i \in 1 .. Len(q) : r[i] = q[i]
    <3>1. \A n \in Nat : (IF 1 <= n THEN n - 1 + 1 ELSE 0) = n
      OBVIOUS
    <3>2. \A i \in 1 .. Len(q) : i \in 1 .. Len(q) - 1 + 1 /\ 1 + i - 1 = i
      BY <1>6
    <3> QED
      BY <1>6, <2>2, <2>3, <3>1, <3>2
  <2>5. r = q
    BY <2>4, SeqEqual
  <2> QED
    BY <2>3, <2>5
<1>8. /\ Len(st[e].root) = Len(st[f].root) + 1
      /\ SubSeq(st[e].root, 1, Len(st[f].root)) = st[f].root
  BY <1>3, <1>5, <1>6, <1>7
<1> QED
  BY <1>2, <1>8 DEF RootsAgree

\* What the current chain of the other end has sent can be read.
LEMMA CurrentChain == RInv /\ SInv => CurrentChainReadable
<1> SUFFICES ASSUME RInv, SInv, NEW p \in packets \ read,
                    p.dh = st[p.from].own, st[p.from].sendCount <= MaxSkip + 1
             PROVE  Readable(p) \/ p.key \in dropped
  BY DEF CurrentChainReadable, WithinLimit
<1>1. PICK f : f = p.from
  OBVIOUS
<1>2. PICK e : e = Other(f)
  OBVIOUS
<1>3. PICK s : s = st[e]
  OBVIOUS
<1>4. /\ e \in End /\ f \in End /\ Other(e) = f /\ Other(f) = e /\ \A g \in End : g = e \/ g = f
      /\ Good(s) /\ s \in State /\ Fit(s) /\ Knows(e) /\ OnChain(p)
      /\ p.dh \in PairSet /\ p.n \in Nat /\ p.key = [root |-> p.key.root, at |-> p.n]
      /\ st[f].sendCount \in Nat /\ p.n < st[f].sendCount
  BY <1>1, <1>2, <1>3, Facts
<1>5. p.n <= MaxSkip /\ MaxSkip \in Nat /\ p.key.root = st[f].root /\ p.key.root # <<>>
  BY <1>1, <1>4, RatchetAssumption DEF OnChain, RatchetAssumption
\* A packet that opens with its key, from the chain x.
<1>6. ASSUME NEW x, x = Stepped(s, p), Good(x), Fit(x), x.remote = p.dh, x.receiving.root = st[f].root,
             x.receiveCount <= p.n, ~Has(s, p.dh, p.n)
      PROVE  Readable(p)
  <2>1. x.receiveCount \in Nat /\ x.receiving.at = x.receiveCount
    BY <1>6, Entries DEF Good, Fit
  <2>2. ~(p.n > x.receiveCount + MaxSkip)
    BY <1>4, <1>5, <2>1
  <2>3. x.receiving # NoChain
    BY <1>5, <1>6 DEF NoChain, Chain
  <2>4. Decrypt(s, p).ok /\ Decrypt(s, p).key = SkipUntil(x, p).receiving
    <3>1. ASSUME NEW i \in 1 .. Len(s.skipped) PROVE ~(s.skipped[i].dh = p.dh /\ s.skipped[i].n = p.n)
      BY <1>6 DEF Has
    <3>2. Decrypt(s, p) = IF p.n > x.receiveCount + MaxSkip \/ x.receiving = NoChain THEN Failure
                          ELSE [ok |-> TRUE, key |-> SkipUntil(x, p).receiving, state |-> Moved(SkipUntil(x, p))]
      BY <1>6, <3>1, DecryptCases
    <3>3. Decrypt(s, p) = [ok |-> TRUE, key |-> SkipUntil(x, p).receiving, state |-> Moved(SkipUntil(x, p))]
      BY <2>2, <2>3, <3>2
    <3> QED
      BY <3>3
  <2>5. SkipUntil(x, p).receiving = p.key
    <3>1. PICK u : u = SkipUntil(x, p)
      OBVIOUS
    <3>2. PICK v : v = Moved(u)
      OBVIOUS
    <3>3. PICK gap \in Nat, new \in Seq(SkippedKey) : Shape(x, p, u, v, gap, new)
      BY <1>4, <1>6, <3>1, <3>2, SkipShape
    <3>4. /\ gap = IF p.n > x.receiveCount THEN p.n - x.receiveCount ELSE 0
          /\ u.receiving = [root |-> x.receiving.root, at |-> x.receiving.at + gap]
      BY <3>3 DEF Shape
    <3>5. x.receiving.at + gap = p.n
      BY <1>4, <1>6, <2>1, <3>4
    <3> QED
      BY <1>4, <1>5, <1>6, <3>1, <3>4, <3>5
  <2> QED
    BY <1>1, <1>2, <1>3, <2>4, <2>5 DEF Readable
<1>7. CASE Ahead(e)
  <2>1. s.remote = p.dh /\ s.receiving.root = st[f].root
    BY <1>1, <1>3, <1>4, <1>7 DEF Ahead
  <2>2. CASE Has(s, p.dh, p.n)
    <3>1. PICK i \in 1 .. Len(s.skipped) :
            /\ s.skipped[i].dh = p.dh /\ s.skipped[i].n = p.n
            /\ Decrypt(s, p) = [ok |-> TRUE, key |-> s.skipped[i].key, state |-> TakeSkipped(s, i)]
      BY <2>2, DecryptCases
    <3>2. s.skipped[i].key = [root |-> s.receiving.root, at |-> p.n]
      BY <1>4, <2>1, <3>1 DEF Fit
    <3>3. Decrypt(s, p).ok /\ Decrypt(s, p).key = p.key
      BY <1>4, <1>5, <2>1, <3>1, <3>2
    <3> QED
      BY <1>1, <1>2, <1>3, <3>3 DEF Readable
  <2>3. CASE ~Has(s, p.dh, p.n) /\ p.key \notin dropped
    <3>1. s.receiveCount <= p.n
      <4>1. s.receiveCount \in Nat
        BY <1>4, Entries
      <4>2. ~(p.n < s.receiveCount)
        BY <1>1, <1>2, <1>3, <2>1, <2>3 DEF SInv, PutByFor
      <4> QED
        BY <1>4, <4>1, <4>2
    <3>2. s = Stepped(s, p)
      BY <2>1 DEF Stepped
    <3> QED
      BY <1>4, <1>6, <2>1, <2>3, <3>1, <3>2
  <2> QED
    BY <2>2, <2>3
<1>8. CASE Ahead(f)
  <2>1. s.remote # p.dh /\ st[f].root = Mixed(s.root, s.own, p.dh)
    <3>1. s.remote # p.dh /\ st[f].root = Mixed(s.root, p.dh, s.own)
      BY <1>1, <1>3, <1>4, <1>8 DEF Ahead
    <3>2. DH(p.dh, s.own) = DH(s.own, p.dh)
      BY Zenon DEF DH
    <3> QED
      BY <3>1, <3>2 DEF Mixed
  <2>2. p.dh \notin Heads(s)
    BY <1>1, <1>3, <1>4, <2>1 DEF Knows
  <2>3. ~Has(s, p.dh, p.n)
    BY <2>2 DEF Has, Heads
  <2>4. PICK x : x = RatchetReceiveStep(s, p.dh)
    OBVIOUS
  <2>5. x = Stepped(s, p)
    BY <2>1, <2>4 DEF Stepped
  <2>6. Good(x)
    BY <1>4, <2>4, StepKeeps
  <2>7. Fit(x) /\ x.remote = p.dh /\ x.receiveCount = 0 /\ x.receiving.root = st[f].root
    BY <1>4, <2>1, <2>2, <2>4, StepFits
  <2> QED
    BY <1>4, <1>6, <2>3, <2>5, <2>6, <2>7
<1> QED
  BY <1>4, <1>7, <1>8 DEF SInv

\* The two ends stay in step, whatever is reordered, repeated or evicted, for
\* every number of packets, of skipped keys and of items the store writes: of
\* the current chain, within the limit, only what the store cut off is lost.
THEOREM StayInStep == Spec => []InStep
<1>1. RInv /\ SInv => InStep
  BY Roots, CurrentChain DEF InStep
<1> QED
  BY <1>1, InitInv, NextInv, InitInStep, NextInStep, PTL DEF Spec


-----------------------------------------------------------------------------
(***************************************************************************)
(* TypeOK of RatchetSession: what is encrypted and decrypted stays within  *)
(* the bounds of the model, and the skipped keys within their limit.       *)
(***************************************************************************)

Bounded(s) ==
  /\ s.previousSendCount <= MaxSend /\ s.receiveCount <= MaxSend
  /\ Len(s.skipped) <= MaxSkip /\ Len(s.skipped) <= StoreList

BInv ==
  /\ IsFiniteSet(packets) /\ packets \subseteq Packet
  /\ \A e \in End :
       /\ Cardinality(SentBy(e)) \in 0 .. MaxSend
       /\ st[e].sendCount <= Cardinality(SentBy(e))
       /\ Bounded(st[e])

LEMMA InitBounds == Init => BInv
<1> SUFFICES ASSUME Init PROVE BInv
  OBVIOUS
<1>0. MaxSend \in Nat /\ MaxSkip \in Nat /\ StoreList \in Nat
  BY RatchetAssumption DEF RatchetAssumption
<1>1. IsFiniteSet(packets) /\ packets \subseteq Packet /\ \A e \in End : SentBy(e) = {}
  BY FS_EmptySet DEF Init, SentBy
<1>2. \A e \in End : /\ st[e].sendCount = 0 /\ st[e].previousSendCount = 0 /\ st[e].receiveCount = 0
                     /\ st[e].skipped = <<>>
  BY DEF Init, Created
<1>3. Len(<<>>) = 0 /\ Cardinality({}) = 0
  BY FS_EmptySet, EmptySeq
<1>4. ASSUME NEW e \in End PROVE /\ Cardinality(SentBy(e)) \in 0 .. MaxSend
                                /\ st[e].sendCount <= Cardinality(SentBy(e))
                                /\ Bounded(st[e])
  <2>1. Len(st[e].skipped) = 0 /\ Cardinality(SentBy(e)) = 0
    BY <1>1, <1>2, <1>3
  <2> QED
    BY <1>0, <1>2, <2>1 DEF Bounded
<1> QED
  BY <1>1, <1>4 DEF BInv

\* A packet more of e, while there is room for it.
LEMMA EncryptBounds ==
  ASSUME RInv, BInv, NEW e \in End, Encrypt(e)
  PROVE  BInv'
<1>0. MaxSend \in Nat
  BY RatchetAssumption DEF RatchetAssumption
<1>1. PICK s : s = st[e]
  OBVIOUS
<1>2. PICK c : c = Cardinality(SentBy(e))
  OBVIOUS
<1>3. PICK new : new = [from |-> e, nr |-> c, dh |-> s.own, pn |-> s.previousSendCount,
                        n |-> s.sendCount, key |-> s.sending]
  OBVIOUS
<1>4. /\ c < MaxSend /\ packets' = packets \cup {new} /\ st' = [st EXCEPT ![e] = AdvanceSending(s)]
  BY <1>1, <1>2, <1>3 DEF Encrypt, MessageKey
<1>5. /\ s \in State /\ s.sending = [root |-> s.root, at |-> s.sendCount] /\ st \in [End -> State]
  BY <1>1 DEF RInv, EndInv, Good
<1>6. /\ s.root \in Seq(Secret) /\ s.own \in PairSet /\ s.sendCount \in Nat /\ s.previousSendCount \in Nat
      /\ s.receiveCount \in Nat
  BY <1>5 DEF State
<1>7. /\ c \in 0 .. MaxSend /\ s.sendCount <= c /\ Bounded(s) /\ IsFiniteSet(packets)
      /\ packets \subseteq Packet
  BY <1>1, <1>2 DEF BInv
<1>8. new \in Packet
  <2>1. s.sendCount \in 0 .. MaxSend - 1 /\ c \in 0 .. MaxSend - 1 /\ s.previousSendCount \in 0 .. MaxSend
    BY <1>0, <1>4, <1>6, <1>7 DEF Bounded
  <2>2. s.sending \in [root : Seq(Secret), at : 0 .. MaxSend - 1]
    BY <1>5, <1>6, <2>1
  <2> QED
    BY <1>3, <1>6, <2>1, <2>2 DEF Packet
<1>9. new \notin packets
  <2> SUFFICES ASSUME new \in packets PROVE FALSE
    OBVIOUS
  <2>1. new.from = e /\ new.dh = s.own /\ new.n = s.sendCount
    BY <1>3
  <2>2. new.dh.nr = s.own.nr => new.n < s.sendCount
    BY <1>1, <2>1 DEF RInv, PacketInv
  <2> QED
    BY <1>6, <2>1, <2>2
<1>10. SentBy(e)' = SentBy(e) \cup {new} /\ new \notin SentBy(e)
  BY <1>3, <1>4, <1>9 DEF SentBy
<1>11. \A f \in End : f # e => SentBy(f)' = SentBy(f)
  BY <1>3, <1>4 DEF SentBy
<1>12. Cardinality(SentBy(e)') = c + 1
  <2>1. SentBy(e) \in SUBSET packets
    BY DEF SentBy
  <2>2. IsFiniteSet(SentBy(e))
    BY <1>7, <2>1, FS_Subset
  <2> QED
    BY <1>2, <1>10, <2>2, FS_AddElement
<1>13. /\ st'[e].sendCount = s.sendCount + 1 /\ st'[e].previousSendCount = s.previousSendCount
       /\ st'[e].receiveCount = s.receiveCount /\ st'[e].skipped = s.skipped
       /\ \A f \in End : f # e => st'[f] = st[f]
  BY <1>4, <1>5 DEF AdvanceSending, State
<1>14. IsFiniteSet(packets') /\ packets' \subseteq Packet
  BY <1>4, <1>7, <1>8, FS_AddElement
<1>15. ASSUME NEW f \in End
       PROVE  /\ Cardinality(SentBy(f)') \in 0 .. MaxSend
              /\ st'[f].sendCount <= Cardinality(SentBy(f)')
              /\ Bounded(st'[f])
  <2>1. CASE f = e
    <3>1. Bounded(st'[e])
      BY <1>7, <1>13 DEF Bounded
    <3> QED
      BY <1>0, <1>4, <1>6, <1>7, <1>12, <1>13, <2>1, <3>1
  <2>2. CASE f # e
    BY <1>11, <1>13, <2>2 DEF BInv
  <2> QED
    BY <2>1, <2>2
<1> QED
  BY <1>14, <1>15 DEF BInv

\* What the key of a packet that is used leaves of the fields that are counted.
LEMMA MovedFields ==
  ASSUME NEW s \in State, NEW h
  PROVE  /\ Moved(SkipUntil(s, h)).sendCount = s.sendCount
         /\ Moved(SkipUntil(s, h)).previousSendCount = s.previousSendCount
  BY DEF Moved, SkipUntil, State

LEMMA TakenFields ==
  ASSUME NEW s \in State, NEW i \in 1 .. Len(s.skipped)
  PROVE  /\ TakeSkipped(s, i).sendCount = s.sendCount
         /\ TakeSkipped(s, i).previousSendCount = s.previousSendCount
         /\ TakeSkipped(s, i).receiveCount = s.receiveCount
         /\ Len(TakeSkipped(s, i).skipped) = Len(s.skipped) - 1
<1>1. s.skipped \in Seq(SkippedKey)
  BY DEF State
<1>2. Len(Without(s.skipped, i)) = Len(s.skipped) - 1
  BY <1>1, TakenOut
<1>3. TakeSkipped(s, i) = [s EXCEPT !.skipped = Without(s.skipped, i)]
  BY DEF TakeSkipped, Without
<1> QED
  BY <1>2, <1>3 DEF State

LEMMA ReceiveBounds ==
  ASSUME RInv, SInv, BInv, NEW p \in packets, Receive(p)
  PROVE  BInv'
<1>0. MaxSend \in Nat /\ MaxSkip \in Nat /\ StoreList \in Nat
  BY RatchetAssumption DEF RatchetAssumption
<1>1. PICK e : e = Other(p.from)
  OBVIOUS
<1>2. PICK s : s = st[e]
  OBVIOUS
<1>3. PICK t : t = Decrypt(s, p).state
  OBVIOUS
<1>v. PICK v : v = Stored(t)
  OBVIOUS
<1>4. /\ e \in End /\ Good(s) /\ s \in State /\ Fit(s)
      /\ p.dh \in PairSet /\ p.n \in Nat /\ p.key = [root |-> p.key.root, at |-> p.n]
  BY <1>1, <1>2, Facts
<1>5. /\ Decrypt(s, p).ok /\ Decrypt(s, p).key = p.key
      /\ st' = [st EXCEPT ![e] = v] /\ packets' = packets
  BY <1>1, <1>2, <1>3, <1>v DEF Receive, Readable
<1>6. p.n < MaxSend
  <2>1. p \in Packet
    BY DEF BInv
  <2> QED
    BY <1>0, <1>4, <2>1 DEF Packet
<1>7. /\ Bounded(s) /\ s.sendCount \in Nat /\ s.previousSendCount \in Nat /\ s.receiveCount \in Nat
      /\ s.sendCount <= Cardinality(SentBy(e)) /\ Cardinality(SentBy(e)) \in 0 .. MaxSend
      /\ s.skipped \in Seq(SkippedKey) /\ Len(s.skipped) \in Nat
  BY <1>2, <1>4, LenProperties DEF BInv, State
<1>8. /\ t.previousSendCount <= MaxSend /\ t.receiveCount <= MaxSend
      /\ Len(t.skipped) <= MaxSkip /\ t.sendCount <= s.sendCount
  <2>1. CASE \E i \in 1 .. Len(s.skipped) :
               /\ s.skipped[i].dh = p.dh /\ s.skipped[i].n = p.n
               /\ Decrypt(s, p) = [ok |-> TRUE, key |-> s.skipped[i].key, state |-> TakeSkipped(s, i)]
    <3>1. PICK i \in 1 .. Len(s.skipped) : t = TakeSkipped(s, i)
      BY <1>3, <2>1
    <3>2. /\ t.sendCount = s.sendCount /\ t.previousSendCount = s.previousSendCount
          /\ t.receiveCount = s.receiveCount /\ Len(t.skipped) = Len(s.skipped) - 1
      BY <1>4, <3>1, TakenFields
    <3> QED
      BY <1>0, <1>7, <3>2 DEF Bounded
  <2>2. CASE ~(\E i \in 1 .. Len(s.skipped) :
               /\ s.skipped[i].dh = p.dh /\ s.skipped[i].n = p.n
               /\ Decrypt(s, p) = [ok |-> TRUE, key |-> s.skipped[i].key, state |-> TakeSkipped(s, i)])
    <3>1. PICK x : x = Stepped(s, p)
      OBVIOUS
    <3>2. PICK u : u = SkipUntil(x, p)
      OBVIOUS
    <3>3. u.receiving = p.key /\ t = Moved(u)
      <4>1. Decrypt(s, p) = IF p.n > x.receiveCount + MaxSkip \/ x.receiving = NoChain THEN Failure
                            ELSE [ok |-> TRUE, key |-> u.receiving, state |-> Moved(u)]
        BY <2>2, <3>1, <3>2, DecryptCases
      <4>2. Failure.ok = FALSE
        BY DEF Failure
      <4> QED
        BY <1>3, <1>5, <4>1, <4>2
    <3>4. /\ Good(x) /\ x \in State /\ x.receiving.at = x.receiveCount
          /\ (x.sendCount = s.sendCount /\ x.previousSendCount = s.previousSendCount)
             \/ (x.sendCount = 0 /\ x.previousSendCount = s.sendCount)
      <4>1. CASE s.remote = p.dh
        BY <1>4, <3>1, <4>1 DEF Stepped, Fit
      <4>2. CASE s.remote # p.dh
        <5>1. x = RatchetReceiveStep(s, p.dh)
          BY <3>1, <4>2 DEF Stepped
        <5>2. x.receiveCount = 0 /\ x.sendCount = 0 /\ x.receiving.at = 0
          BY <1>4, <5>1, StepFits
        <5>3. x.previousSendCount = s.sendCount
          BY <1>4, <5>1 DEF RatchetReceiveStep, State
        <5>4. Good(x)
          BY <1>4, <5>1, StepKeeps
        <5> QED
          BY <5>2, <5>3, <5>4 DEF Good
      <4> QED
        BY <4>1, <4>2
    <3>5. PICK gap \in Nat, new \in Seq(SkippedKey) : Shape(x, p, u, t, gap, new)
      BY <1>4, <3>2, <3>3, <3>4, SkipShape
    <3>6. x.receiveCount \in Nat /\ x.skipped \in Seq(SkippedKey)
      BY <3>4, Entries
    <3>7. x.receiveCount + gap = p.n
      <4>1. u.receiving.at = x.receiving.at + gap
        BY <3>5 DEF Shape
      <4>2. u.receiving.at = p.n
        BY <1>4, <3>3
      <4> QED
        BY <3>4, <4>1, <4>2
    <3>8. t.receiveCount = p.n + 1
      BY <3>5, <3>6, <3>7 DEF Shape
    <3>9. Len(t.skipped) <= MaxSkip
      <4>1. x.skipped \o new \in Seq(SkippedKey) /\ t.skipped = Newest(x.skipped \o new)
        BY <3>5, <3>6, ConcatProperties DEF Shape
      <4>2. Len(x.skipped \o new) \in Nat
        BY <4>1, LenProperties
      <4>3. PICK m : m = Len(x.skipped \o new)
        OBVIOUS
      <4>4. Len(t.skipped) = IF m > MaxSkip THEN MaxSkip ELSE m
        BY <4>1, <4>3, NewestLen
      <4> QED
        BY <1>0, <4>2, <4>3, <4>4
    <3>10. t.sendCount = x.sendCount /\ t.previousSendCount = x.previousSendCount
      BY <3>2, <3>3, <3>4, MovedFields
    <3> QED
      BY <1>0, <1>4, <1>6, <1>7, <3>4, <3>8, <3>9, <3>10 DEF Bounded
  <2> QED
    BY <2>1, <2>2
<1>9. t \in State /\ t.sendCount \in Nat /\ Len(t.skipped) \in Nat
  <2>1. t = Decrypt(s, p).state /\ Good(t)
    BY <1>3, <1>4, <1>5, DecryptKeeps DEF RInv, PacketInv, Uses
  <2>2. t \in State
    BY <2>1 DEF Good
  <2> QED
    BY <2>2, LenProperties DEF State
<1>b. Bounded(v) /\ v.sendCount = t.sendCount
  <2>1. /\ Len(v.skipped) = IF Len(t.skipped) > StoreList THEN StoreList ELSE Len(t.skipped)
        /\ v.sendCount = t.sendCount /\ v.receiveCount = t.receiveCount
        /\ v.previousSendCount = t.previousSendCount
    BY <1>9, <1>v, StoredShape
  <2>2. Len(v.skipped) <= MaxSkip /\ Len(v.skipped) <= StoreList
    BY <1>0, <1>8, <1>9, <2>1
  <2> QED
    BY <1>8, <2>1, <2>2 DEF Bounded
<1>10. \A f \in End : SentBy(f)' = SentBy(f)
  BY <1>5 DEF SentBy
<1>11. st'[e] = v /\ \A f \in End : f # e => st'[f] = st[f]
  BY <1>4, <1>5 DEF RInv
<1>12. ASSUME NEW f \in End
       PROVE  /\ Cardinality(SentBy(f)') \in 0 .. MaxSend
              /\ st'[f].sendCount <= Cardinality(SentBy(f)')
              /\ Bounded(st'[f])
  <2>1. CASE f = e
    BY <1>0, <1>7, <1>8, <1>9, <1>b, <1>10, <1>11, <2>1
  <2>2. CASE f # e
    BY <1>10, <1>11, <2>2 DEF BInv
  <2> QED
    BY <2>1, <2>2
<1> QED
  BY <1>5, <1>12 DEF BInv

LEMMA NextBounds == RInv /\ SInv /\ BInv /\ [Next]_vars => BInv'
<1> SUFFICES ASSUME RInv, SInv, BInv, [Next]_vars PROVE BInv'
  OBVIOUS
<1>1. CASE UNCHANGED vars
  <2>1. \A e \in End : SentBy(e)' = SentBy(e)
    BY <1>1 DEF vars, SentBy
  <2> QED
    BY <1>1, <2>1 DEF BInv, Bounded, vars
<1> QED
  BY <1>1, EncryptBounds, ReceiveBounds DEF Next

\* Whatever is sent, lost, repeated and reordered: the packets and counters keep
\* their types, and no end holds more skipped keys than the limit.
THEOREM TypeCorrect == Spec => []TypeOK
<1>1. RInv /\ BInv => TypeOK
  <2> SUFFICES ASSUME RInv, BInv PROVE TypeOK
    OBVIOUS
  <2>0. MaxSend \in Nat /\ MaxSkip \in Nat /\ StoreList \in Nat
    BY RatchetAssumption DEF RatchetAssumption
  <2>1. ASSUME NEW e \in End
        PROVE  /\ st[e].own.of = e /\ st[e].sendCount \in 0 .. MaxSend
               /\ st[e].previousSendCount \in 0 .. MaxSend
               /\ st[e].receiveCount \in 0 .. MaxSend
               /\ Len(st[e].skipped) <= MaxSkip /\ Len(st[e].skipped) <= StoreList
    <3>1. st[e] \in State /\ st[e].own.of = e
      BY DEF RInv, EndInv, Good
    <3>2. st[e].sendCount \in Nat /\ st[e].receiveCount \in Nat /\ st[e].previousSendCount \in Nat
      BY <3>1 DEF State
    <3> QED
      BY <2>0, <3>1, <3>2 DEF BInv, Bounded
  <2> QED
    BY <2>1 DEF TypeOK, RInv, BInv
<1> QED
  BY <1>1, InitInv, NextInv, InitInStep, NextInStep, InitBounds, NextBounds, PTL DEF Spec

=============================================================================
