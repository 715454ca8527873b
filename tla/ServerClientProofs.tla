-------------------------- MODULE ServerClientProofs --------------------------
(***************************************************************************)
(* The clients of the two kinds of server.                                 *)
(*                                                                         *)
(* SMP: the frame queue of WsTransport and the client above it, SmpClient, *)
(* for any number of callers, frames, queues and messages, blocks of any   *)
(* size and buffers of any length: nobody who waits is forgotten, frames   *)
(* come in order, and no transmission is had twice.  Both arguments are    *)
(* about places: a caller that waits has one entry among the waiters, and  *)
(* an entry belongs to one call that began to wait; a transmission is in   *)
(* one block, and a block is buffered or was read.                         *)
(*                                                                         *)
(* XFTP: XftpTransfer, for every size, every plan and every number of      *)
(* exchanges that fail.  At every point of an upload the client can name   *)
(* what is at the server: the chunks it has recorded, the file it has just *)
(* created, and those it has no answer for.                                *)
(* A plan has chunks of at most two sizes, so its sum is known; and a list *)
(* that was sorted by number is the list that was sent.                    *)
(***************************************************************************)
EXTENDS SmpClient, XftpTransfer, Integers, FiniteSetTheorems, SequenceTheorems,
        WellFoundedInduction, TLAPS

-----------------------------------------------------------------------------
(* The invariant of the transport.                                         *)

Entries == Items(waiters)

Distinct(s) == \A i, j \in 1 .. Len(s) : i # j => s[i] # s[j]

\* Before the socket opens there is no queue and nobody waits in it.
Untouched ==
  /\ phase = "opening" => socket = "connecting"
  /\ socket = "connecting" =>
       /\ phase \in {"opening", "failed"} /\ listening = FALSE /\ closeError = FALSE
       /\ frames = <<>> /\ waiters = <<>> /\ resolved = <<>> /\ received = 0
       /\ \A w \in Waiter : call[w] = "idle"

\* While connect waits for the hello, only its own entry is there; once
\* connected, connect waits no more.
HelloIsFirst ==
  /\ phase = "hello" => /\ frames = <<>> /\ waiters = <<Connect>>
                        /\ call[Connect] = "waiting"
  /\ phase = "connected" => call[Connect] = "idle"

\* An entry is that of a call that began to wait and was not told.
EntriesAreCalls ==
  /\ Distinct(waiters)
  /\ frames = <<>> \/ waiters = <<>>
  /\ \A w \in Waiter :
       /\ w \in Entries => call[w] # "idle"
       /\ call[w] = "waiting" => w \in Entries /\ ~closeError

\* Frames are given out by their number, and those that are buffered follow.
Numbered ==
  /\ listening \/ frames = <<>>
  /\ listening => /\ received = Len(resolved) + Len(frames)
                  /\ \A i \in 1 .. Len(resolved) : resolved[i] = i
                  /\ \A k \in 1 .. Len(frames) : frames[k] = Len(resolved) + k

GoneWithout == {w \in Waiter : call[w] = "gone" /\ w \notin Entries}

\* A lost frame was the one of a caller that is gone, and has no entry any more.
LossesPaid == IsFiniteSet(lost) /\ Cardinality(lost) <= Cardinality(GoneWithout)

WsInv == WsTypeOK /\ Untouched /\ HelloIsFirst /\ EntriesAreCalls /\ Numbered /\ LossesPaid

-----------------------------------------------------------------------------
(* The invariant of the client.                                            *)

\* The transmissions of the blocks that were read.
Read == UNION {Items(block[i]) : i \in {j \in 1 .. Len(block) : \A k \in 1 .. Len(frames) : frames[k] # j}}

\* A transmission leaves the broker once, in one block; before it is sent it is
\* nowhere, and an answer is made once, when its command starts.
SentOnce ==
  /\ \A i \in 1 .. Len(block) : Distinct(block[i]) /\ Items(block[i]) \cap outbox = {}
  /\ \A i, j \in 1 .. Len(block) : i # j => Items(block[i]) \cap Items(block[j]) = {}
  /\ \A c \in Cmd : op[c] = "unused" =>
       \A t \in {"OK", "ERR"} :
         /\ Answer(c, t) \notin outbox
         /\ \A i \in 1 .. Len(block) : Answer(c, t) \notin Items(block[i])

\* What an operation has, or is kept for one, was read; and is in one place.
KeptOnce ==
  /\ Items(pending) \subseteq Read /\ Taken \subseteq Read
  /\ Distinct(pending) /\ Items(pending) \cap Taken = {}
  /\ \A c, d \in Caller : (c # d /\ got[c] # Nothing) => got[c] # got[d]

\* An operation waits exactly when its call of the transport does.
WaitsBelow == \A c \in Caller : op[c] = "waiting" <=> call[c] = "waiting"

ClientInv == WsInv /\ TypeOK /\ SentOnce /\ KeptOnce /\ WaitsBelow
-----------------------------------------------------------------------------
(* What sequences hold.                                                    *)

\* The items of a sequence of S are those of its places.
LEMMA Places ==
  ASSUME NEW S, NEW s \in Seq(S)
  PROVE  /\ Len(s) \in Nat /\ Items(s) \subseteq S
         /\ \A i \in 1 .. Len(s) : s[i] \in S /\ s[i] \in Items(s)
         /\ \A x \in Items(s) : \E i \in 1 .. Len(s) : x = s[i]
  BY ElementOfSeq, LenProperties DEF Items

LEMMA EmptyPlaces == Items(<<>>) = {} /\ Distinct(<<>>)
  BY DEF Items, Distinct

LEMMA AppendPlaces ==
  ASSUME NEW S, NEW s \in Seq(S), NEW e \in S
  PROVE  /\ Append(s, e) \in Seq(S) /\ Len(Append(s, e)) = Len(s) + 1
         /\ Items(Append(s, e)) = Items(s) \cup {e}
         /\ Distinct(s) /\ e \notin Items(s) => Distinct(Append(s, e))
<1>1. /\ Append(s, e) \in Seq(S) /\ Len(Append(s, e)) = Len(s) + 1 /\ Len(s) \in Nat
      /\ \A i \in 1 .. Len(s) : Append(s, e)[i] = s[i]
      /\ Append(s, e)[Len(s) + 1] = e
  BY AppendProperties, LenProperties
<1>2. Items(Append(s, e)) \subseteq Items(s) \cup {e}
  BY <1>1 DEF Items
<1>3. \A i \in 1 .. Len(s) : i \in 1 .. Len(Append(s, e)) /\ s[i] = Append(s, e)[i]
  BY <1>1
<1>4. e = Append(s, e)[Len(Append(s, e))] /\ Len(Append(s, e)) \in 1 .. Len(Append(s, e))
  BY <1>1
<1>5. Items(s) \cup {e} \subseteq Items(Append(s, e))
  BY <1>3, <1>4 DEF Items
<1>6. ASSUME Distinct(s), e \notin Items(s) PROVE Distinct(Append(s, e))
  BY <1>1, <1>6 DEF Distinct, Items
<1> QED
  BY <1>1, <1>2, <1>5, <1>6

LEMMA TailPlaces ==
  ASSUME NEW S, NEW s \in Seq(S), s # <<>>
  PROVE  /\ Tail(s) \in Seq(S) /\ Len(Tail(s)) = Len(s) - 1
         /\ Head(s) = s[1] /\ Head(s) \in Items(s) /\ Head(s) \in S /\ Len(s) \in Nat \ {0}
         /\ Items(s) = Items(Tail(s)) \cup {Head(s)}
         /\ Distinct(s) => Distinct(Tail(s)) /\ Items(Tail(s)) = Items(s) \ {Head(s)}
<1>1. /\ Tail(s) \in Seq(S) /\ Len(Tail(s)) = Len(s) - 1 /\ Len(s) \in Nat \ {0}
      /\ \A i \in 1 .. Len(Tail(s)) : Tail(s)[i] = s[i + 1]
      /\ Head(s) = s[1] /\ Head(s) \in S
  BY HeadTailProperties, EmptySeq
<1>2. 1 \in 1 .. Len(s) /\ Head(s) \in Items(s)
  BY <1>1 DEF Items
<1>3. \A i \in 1 .. Len(Tail(s)) : i + 1 \in 1 .. Len(s) /\ i + 1 # 1 /\ Tail(s)[i] = s[i + 1]
  BY <1>1
<1>4. \A i \in 1 .. Len(s) : i = 1 \/ (i - 1 \in 1 .. Len(Tail(s)) /\ s[i] = Tail(s)[i - 1])
  BY <1>1
<1>5. Items(s) = Items(Tail(s)) \cup {Head(s)}
  BY <1>1, <1>2, <1>3, <1>4 DEF Items
<1>6. ASSUME Distinct(s) PROVE Distinct(Tail(s)) /\ Head(s) \notin Items(Tail(s))
  <2>1. Distinct(Tail(s))
    BY <1>1, <1>6 DEF Distinct
  <2>2. Head(s) \notin Items(Tail(s))
    BY <1>1, <1>2, <1>3, <1>6 DEF Distinct, Items
  <2> QED
    BY <2>1, <2>2
<1> QED
  BY <1>1, <1>2, <1>5, <1>6

LEMMA ConcatPlaces ==
  ASSUME NEW S, NEW s \in Seq(S), NEW t \in Seq(S)
  PROVE  /\ s \o t \in Seq(S) /\ Len(s \o t) = Len(s) + Len(t)
         /\ Items(s \o t) = Items(s) \cup Items(t)
         /\ Distinct(s) /\ Distinct(t) /\ Items(s) \cap Items(t) = {} => Distinct(s \o t)
<1>1. /\ s \o t \in Seq(S) /\ Len(s \o t) = Len(s) + Len(t) /\ Len(s) \in Nat /\ Len(t) \in Nat
      /\ \A i \in 1 .. Len(s) + Len(t) : (s \o t)[i] = IF i <= Len(s) THEN s[i] ELSE t[i - Len(s)]
  BY ConcatProperties, LenProperties
<1>2. \A i \in 1 .. Len(s) : i \in 1 .. Len(s \o t) /\ s[i] = (s \o t)[i]
  BY <1>1
<1>3. \A i \in 1 .. Len(t) : i + Len(s) \in 1 .. Len(s \o t) /\ t[i] = (s \o t)[i + Len(s)]
  BY <1>1
<1>4. \A i \in 1 .. Len(s \o t) : \/ i \in 1 .. Len(s) /\ (s \o t)[i] = s[i]
                                  \/ i - Len(s) \in 1 .. Len(t) /\ (s \o t)[i] = t[i - Len(s)]
  BY <1>1
<1>5. Items(s \o t) = Items(s) \cup Items(t)
  BY <1>2, <1>3, <1>4 DEF Items
<1>6. ASSUME Distinct(s), Distinct(t), Items(s) \cap Items(t) = {},
             NEW i \in 1 .. Len(s \o t), NEW j \in 1 .. Len(s \o t), i # j
      PROVE  (s \o t)[i] # (s \o t)[j]
  <2>1. \A k \in 1 .. Len(s), l \in 1 .. Len(t) : s[k] # t[l]
    BY <1>6 DEF Items
  <2>2. CASE i \in 1 .. Len(s) /\ j \in 1 .. Len(s)
    BY <1>1, <1>6, <2>2 DEF Distinct
  <2>3. CASE i \notin 1 .. Len(s) /\ j \notin 1 .. Len(s)
    <3>1. /\ i - Len(s) \in 1 .. Len(t) /\ j - Len(s) \in 1 .. Len(t) /\ i - Len(s) # j - Len(s)
          /\ (s \o t)[i] = t[i - Len(s)] /\ (s \o t)[j] = t[j - Len(s)]
      BY <1>1, <1>6, <2>3
    <3> QED
      BY <1>6, <3>1 DEF Distinct
  <2> QED
    BY <1>4, <2>1, <2>2, <2>3
<1> QED
  BY <1>1, <1>5, <1>6 DEF Distinct

LEMMA SubPlaces ==
  ASSUME NEW S, NEW s \in Seq(S), NEW m \in Nat \ {0}, NEW n \in Nat, n <= Len(s)
  PROVE  /\ SubSeq(s, m, n) \in Seq(S)
         /\ Len(SubSeq(s, m, n)) = IF m <= n THEN n - m + 1 ELSE 0
         /\ \A i \in 1 .. Len(SubSeq(s, m, n)) : SubSeq(s, m, n)[i] = s[m + i - 1]
         /\ Items(SubSeq(s, m, n)) = {s[i] : i \in m .. n}
         /\ Distinct(s) => Distinct(SubSeq(s, m, n))
<1>1. Len(s) \in Nat /\ \A i \in m .. n : s[i] \in S
  BY LenProperties, ElementOfSeq
<1> DEFINE t == SubSeq(s, m, n)
<1>2. /\ t \in Seq(S) /\ Len(t) = IF m <= n THEN n - m + 1 ELSE 0
      /\ \A i \in 1 .. n - m + 1 : t[i] = s[m + i - 1]
  BY <1>1, SubSeqProperties
<1>3. \A i \in 1 .. Len(t) : t[i] = s[m + i - 1] /\ m + i - 1 \in m .. n /\ m + i - 1 \in 1 .. Len(s)
  BY <1>1, <1>2
<1>4. \A i \in m .. n : i - m + 1 \in 1 .. Len(t) /\ t[i - m + 1] = s[i]
  BY <1>1, <1>2
<1>5. Items(t) = {s[i] : i \in m .. n}
  <2>1. ASSUME NEW x \in Items(t) PROVE x \in {s[i] : i \in m .. n}
    BY <1>3, <2>1 DEF Items
  <2>2. ASSUME NEW i \in m .. n PROVE s[i] \in Items(t)
    <3> HIDE DEF t
    <3> QED
      BY <1>4, <2>2 DEF Items
  <2> QED
    BY <2>1, <2>2
<1>6. ASSUME Distinct(s), NEW i \in 1 .. Len(t), NEW j \in 1 .. Len(t), i # j PROVE t[i] # t[j]
  <2>1. m + i - 1 # m + j - 1
    BY <1>2, <1>6
  <2> QED
    BY <1>3, <1>6, <2>1 DEF Distinct
<1>7. Distinct(s) => Distinct(t)
  BY <1>6 DEF Distinct
<1> QED
  BY <1>2, <1>3, <1>5, <1>7

\* What comes first in a sequence.
LEMMA FirstPlaces ==
  ASSUME NEW S, NEW s \in Seq(S), NEW n \in Nat, n <= Len(s)
  PROVE  /\ SubSeq(s, 1, n) \in Seq(S) /\ Len(SubSeq(s, 1, n)) = n
         /\ Items(SubSeq(s, 1, n)) = {s[i] : i \in 1 .. n}
         /\ Distinct(s) => Distinct(SubSeq(s, 1, n))
<1>1. PICK m \in Nat \ {0} : m = 1
  OBVIOUS
<1>2. /\ SubSeq(s, m, n) \in Seq(S)
      /\ Len(SubSeq(s, m, n)) = IF m <= n THEN n - m + 1 ELSE 0
      /\ Items(SubSeq(s, m, n)) = {s[i] : i \in m .. n}
      /\ Distinct(s) => Distinct(SubSeq(s, m, n))
  BY SubPlaces
<1>3. (IF 1 <= n THEN n - 1 + 1 ELSE 0) = n
  OBVIOUS
<1> QED
  BY <1>1, <1>2, <1>3

\* RemovedAt takes one place away, and nothing else.
LEMMA RemovedPlaces ==
  ASSUME NEW S, NEW s \in Seq(S), NEW i \in 1 .. Len(s)
  PROVE  /\ RemovedAt(s, i) \in Seq(S) /\ Len(RemovedAt(s, i)) = Len(s) - 1
         /\ Items(RemovedAt(s, i)) \subseteq Items(s)
         /\ Distinct(s) => Distinct(RemovedAt(s, i)) /\ s[i] \notin Items(RemovedAt(s, i))
<1> DEFINE a == SubSeq(s, 1, i - 1)
           b == SubSeq(s, i + 1, Len(s))
<1>1. Len(s) \in Nat /\ i - 1 \in Nat /\ i - 1 <= Len(s) /\ i + 1 \in Nat \ {0}
  BY LenProperties
<1>2. /\ a \in Seq(S) /\ Len(a) = i - 1 /\ Items(a) = {s[k] : k \in 1 .. i - 1}
      /\ Distinct(s) => Distinct(a)
  BY <1>1, FirstPlaces
<1>3. /\ b \in Seq(S) /\ Len(b) = Len(s) - i /\ Items(b) = {s[k] : k \in i + 1 .. Len(s)}
      /\ Distinct(s) => Distinct(b)
  BY <1>1, SubPlaces
<1>4. Items(a) \subseteq Items(s) /\ Items(b) \subseteq Items(s)
  BY <1>1, <1>2, <1>3 DEF Items
<1>5. ASSUME Distinct(s)
      PROVE  Items(a) \cap Items(b) = {} /\ s[i] \notin Items(a) \cup Items(b)
  <2>1. /\ \A k \in 1 .. i - 1, l \in i + 1 .. Len(s) : s[k] # s[l]
        /\ \A k \in 1 .. i - 1 : s[k] # s[i]
        /\ \A l \in i + 1 .. Len(s) : s[l] # s[i]
    BY <1>1, <1>5 DEF Distinct
  <2> HIDE DEF a, b
  <2>2. s[i] \notin Items(a) /\ s[i] \notin Items(b)
    BY <1>2, <1>3, <2>1
  <2>3. Items(a) \cap Items(b) = {}
    BY <1>2, <1>3, <2>1
  <2> QED
    BY <2>2, <2>3
<1> HIDE DEF a, b
<1>6. /\ a \o b \in Seq(S) /\ Len(a \o b) = Len(s) - 1
      /\ Items(a \o b) = Items(a) \cup Items(b)
      /\ Distinct(a) /\ Distinct(b) /\ Items(a) \cap Items(b) = {} => Distinct(a \o b)
  <2>1. /\ a \o b \in Seq(S) /\ Len(a \o b) = Len(a) + Len(b)
        /\ Items(a \o b) = Items(a) \cup Items(b)
        /\ Distinct(a) /\ Distinct(b) /\ Items(a) \cap Items(b) = {} => Distinct(a \o b)
    BY <1>2, <1>3, ConcatPlaces
  <2>2. Len(a) + Len(b) = Len(s) - 1
    BY <1>1, <1>2, <1>3
  <2> QED
    BY <2>1, <2>2
<1>7. RemovedAt(s, i) = a \o b
  BY DEF RemovedAt, a, b
<1> QED
  BY <1>2, <1>3, <1>4, <1>5, <1>6, <1>7

\* The buffer keeps to its limit, and holds the last of what it is given.
LEMMA RememberedPlaces ==
  ASSUME NEW txs \in Seq(Transmission), pending \in Seq(Transmission)
  PROVE  /\ Remembered(txs) \in Seq(Transmission) /\ Len(Remembered(txs)) <= MaxPending
         /\ Items(Remembered(txs)) \subseteq Items(pending) \cup Items(txs)
         /\ Distinct(pending) /\ Distinct(txs) /\ Items(pending) \cap Items(txs) = {}
              => Distinct(Remembered(txs))
<1> DEFINE all == pending \o txs
<1>1. /\ all \in Seq(Transmission) /\ Items(all) = Items(pending) \cup Items(txs)
      /\ Distinct(pending) /\ Distinct(txs) /\ Items(pending) \cap Items(txs) = {} => Distinct(all)
  BY ConcatPlaces
<1> HIDE DEF all
<1>2. Len(all) \in Nat /\ MaxPending \in Nat
  BY <1>1, LenProperties, ClientAssumption
<1>3. CASE Len(all) > MaxPending
  <2> DEFINE m == Len(all) - MaxPending + 1
  <2>1. m \in Nat \ {0} /\ Len(all) - m + 1 = MaxPending
    BY <1>2, <1>3
  <2>2. Remembered(txs) = SubSeq(all, m, Len(all))
    BY <1>3 DEF Remembered, all
  <2>3. /\ SubSeq(all, m, Len(all)) \in Seq(Transmission)
        /\ Len(SubSeq(all, m, Len(all))) = IF m <= Len(all) THEN Len(all) - m + 1 ELSE 0
        /\ Items(SubSeq(all, m, Len(all))) = {all[i] : i \in m .. Len(all)}
        /\ Distinct(all) => Distinct(SubSeq(all, m, Len(all)))
    <3>1. m \in Nat \ {0} /\ Len(all) \in Nat /\ Len(all) <= Len(all) /\ all \in Seq(Transmission)
      BY <1>1, <1>2, <2>1
    <3> HIDE DEF m
    <3>2. SubSeq(all, m, Len(all)) \in Seq(Transmission)
      BY <3>1, SubPlaces
    <3>3. Len(SubSeq(all, m, Len(all))) = IF m <= Len(all) THEN Len(all) - m + 1 ELSE 0
      BY <3>1, SubPlaces
    <3>4. Items(SubSeq(all, m, Len(all))) = {all[i] : i \in m .. Len(all)}
      BY <3>1, SubPlaces
    <3>5. Distinct(all) => Distinct(SubSeq(all, m, Len(all)))
      BY <3>1, SubPlaces
    <3> QED
      BY <3>2, <3>3, <3>4, <3>5
  <2>4. {all[i] : i \in m .. Len(all)} \subseteq Items(all)
    <3>1. \A i \in m .. Len(all) : i \in 1 .. Len(all)
      BY <1>2, <2>1
    <3> QED
      BY <3>1 DEF Items
  <2> HIDE DEF m
  <2> QED
    BY <1>1, <1>2, <2>1, <2>2, <2>3, <2>4
<1>4. CASE ~(Len(all) > MaxPending)
  <2>1. Remembered(txs) = all
    BY <1>4 DEF Remembered, all
  <2> QED
    BY <1>1, <1>2, <1>4, <2>1
<1> QED
  BY <1>3, <1>4

-----------------------------------------------------------------------------
(* The transport keeps its invariant.                                      *)

LEMMA WaitersFinite == IsFiniteSet(Waiter) /\ IsFiniteSet(GoneWithout)
<1>1. IsFiniteSet(Waiter)
  BY CallerAssumption, FS_Singleton, FS_Union DEF Waiter
<1>2. GoneWithout \in SUBSET Waiter
  BY DEF GoneWithout
<1> QED
  BY <1>1, <1>2, FS_Subset

\* A frame that is handed on is the next one, for the first entry or behind the
\* frames that are buffered.
LEMMA Delivered ==
  ASSUME WsInv, received < MaxFrames, received' = received + 1, Deliver(received'),
         listening \/ waiters # <<>>, UNCHANGED <<listening, closeError>>
  PROVE  /\ received' \in 0 .. MaxFrames /\ frames' \in Seq(Frame) /\ waiters' \in Seq(Waiter)
         /\ resolved' \in Seq(Frame) /\ lost' \subseteq Frame
         /\ call' \in [Waiter -> {"idle", "waiting", "gone"}]
         /\ EntriesAreCalls' /\ Numbered' /\ LossesPaid'
<1> DEFINE f == received + 1
<1>0. /\ f \in Frame /\ f = received' /\ received' \in 0 .. MaxFrames /\ Deliver(f)
      /\ frames \in Seq(Frame) /\ waiters \in Seq(Waiter) /\ resolved \in Seq(Frame)
      /\ lost \subseteq Frame /\ call \in [Waiter -> {"idle", "waiting", "gone"}]
      /\ Len(frames) \in Nat /\ Len(resolved) \in Nat /\ received \in Nat
  BY CallerAssumption, LenProperties DEF WsInv, WsTypeOK, Frame
<1> HIDE DEF f
<1>1. CASE waiters = <<>>
  <2>1. frames' = Append(frames, f) /\ UNCHANGED <<waiters, call, resolved, lost>>
    BY <1>0, <1>1 DEF Deliver
  <2>2. /\ frames' \in Seq(Frame) /\ Len(frames') = Len(frames) + 1
        /\ \A i \in 1 .. Len(frames) : frames'[i] = frames[i]
        /\ frames'[Len(frames) + 1] = f
    BY <1>0, <2>1, AppendProperties
  <2>3. EntriesAreCalls'
    BY <1>1, <2>1 DEF WsInv, EntriesAreCalls, Entries
  <2>4. listening
    BY <1>1
  <2>5. f = Len(resolved) + Len(frames) + 1
    BY <1>0, <2>4 DEF f, WsInv, Numbered
  <2>6. \A k \in 1 .. Len(frames') : frames'[k] = Len(resolved) + k
    <3>1. \A k \in 1 .. Len(frames) : frames'[k] = Len(resolved) + k
      BY <2>2, <2>4 DEF WsInv, Numbered
    <3>2. \A k \in 1 .. Len(frames') : k \in 1 .. Len(frames) \/ k = Len(frames) + 1
      BY <1>0, <2>2
    <3>3. frames'[Len(frames) + 1] = Len(resolved) + (Len(frames) + 1)
      BY <1>0, <2>2, <2>5
    <3> QED
      BY <3>1, <3>2, <3>3
  <2>7. received' = Len(resolved') + Len(frames')
    BY <1>0, <2>1, <2>2, <2>5
  <2>8. Numbered'
    BY <2>1, <2>4, <2>6, <2>7 DEF WsInv, Numbered
  <2>9. LossesPaid'
    BY <2>1 DEF WsInv, LossesPaid, GoneWithout, Entries
  <2> QED
    BY <1>0, <2>1, <2>2, <2>3, <2>8, <2>9
<1>2. CASE waiters # <<>>
  <2> DEFINE w == Head(waiters)
  <2>1. /\ waiters' = Tail(waiters) /\ resolved' = Append(resolved, f) /\ UNCHANGED frames
        /\ call' = [call EXCEPT ![w] = IF call[w] = "waiting" THEN "idle" ELSE call[w]]
        /\ lost' = IF call[w] = "gone" THEN lost \cup {f} ELSE lost
    BY <1>0, <1>2 DEF Deliver
  <2>2. /\ waiters' \in Seq(Waiter) /\ w \in Waiter /\ w \in Items(waiters)
        /\ Distinct(waiters') /\ Items(waiters') = Items(waiters) \ {w}
    BY <1>0, <1>2, <2>1, TailPlaces DEF WsInv, EntriesAreCalls
  <2>3. frames = <<>> /\ frames' = <<>>
    BY <1>2, <2>1 DEF WsInv, EntriesAreCalls
  <2>4. /\ resolved' \in Seq(Frame) /\ Len(resolved') = Len(resolved) + 1
        /\ \A i \in 1 .. Len(resolved) : resolved'[i] = resolved[i]
        /\ resolved'[Len(resolved) + 1] = f
    BY <1>0, <2>1, AppendProperties
  <2> HIDE DEF w
  <2>5. /\ call' \in [Waiter -> {"idle", "waiting", "gone"}]
        /\ \A v \in Waiter \ {w} : call'[v] = call[v]
        /\ call'[w] = (IF call[w] = "waiting" THEN "idle" ELSE call[w])
    BY <1>0, <2>1, <2>2
  <2>6. EntriesAreCalls'
    BY <2>2, <2>3, <2>5 DEF WsInv, EntriesAreCalls, Entries
  <2>7. Numbered'
    <3>1. listening => f = Len(resolved) + 1 /\ Len(frames) = 0
      BY <1>0, <2>3, EmptySeq DEF f, WsInv, Numbered
    <3>2. listening => /\ \A i \in 1 .. Len(resolved') : resolved'[i] = i
                       /\ received' = Len(resolved') + Len(frames')
      BY <1>0, <2>3, <2>4, <3>1 DEF WsInv, Numbered
    <3>3. \A k \in 1 .. Len(frames') : frames'[k] = Len(resolved') + k
      BY <2>3, EmptySeq
    <3> QED
      BY <2>3, <3>2, <3>3 DEF Numbered
  <2>8. lost' \subseteq Frame
    BY <1>0, <2>1
  <2>9. LossesPaid'
    <3>1. CASE call[w] = "gone"
      <4>1. GoneWithout' = GoneWithout \cup {w} /\ w \notin GoneWithout
        BY <2>2, <2>5, <3>1 DEF GoneWithout, Entries
      <4>2. Cardinality(GoneWithout') = Cardinality(GoneWithout) + 1
        BY <4>1, WaitersFinite, FS_AddElement
      <4>3. IsFiniteSet(lost') /\ Cardinality(lost') <= Cardinality(lost) + 1
        <5>1. lost' = lost \cup {f} /\ IsFiniteSet(lost) /\ Cardinality(lost) \in Nat
          BY <2>1, <3>1, FS_CardinalityType DEF WsInv, LossesPaid
        <5>2. /\ IsFiniteSet(lost \cup {f})
              /\ Cardinality(lost \cup {f})
                   = IF f \in lost THEN Cardinality(lost) ELSE Cardinality(lost) + 1
          BY <5>1, FS_AddElement
        <5> QED
          BY <5>1, <5>2
      <4>4. Cardinality(lost) \in Nat /\ Cardinality(lost') \in Nat /\ Cardinality(GoneWithout) \in Nat
        BY <4>3, WaitersFinite, FS_CardinalityType DEF WsInv, LossesPaid
      <4> QED
        BY <4>2, <4>3, <4>4 DEF WsInv, LossesPaid
    <3>2. CASE call[w] # "gone"
      <4>1. GoneWithout' = GoneWithout /\ lost' = lost
        BY <2>1, <2>2, <2>5, <3>2 DEF GoneWithout, Entries
      <4> QED
        BY <4>1 DEF WsInv, LossesPaid
    <3> QED
      BY <3>1, <3>2
  <2> QED
    BY <1>0, <2>2, <2>3, <2>4, <2>5, <2>6, <2>7, <2>8, <2>9
<1> QED
  BY <1>1, <1>2

\* When all who wait are told, the queue is empty and only those who are gone,
\* and were not told, are not idle.
LEMMA Rejected ==
  ASSUME WsInv, RejectWaiters, UNCHANGED lost
  PROVE  /\ waiters' \in Seq(Waiter) /\ call' \in [Waiter -> {"idle", "waiting", "gone"}]
         /\ \A w \in Waiter : call'[w] # "waiting" /\ (call'[w] = "gone" <=> call[w] = "gone")
         /\ Items(waiters') = {} /\ Distinct(waiters') /\ LossesPaid'
<1>1. /\ waiters' = <<>> /\ call' \in [Waiter -> {"idle", "waiting", "gone"}]
      /\ \A w \in Waiter : call'[w] # "waiting" /\ (call'[w] = "gone" <=> call[w] = "gone")
  BY DEF RejectWaiters, WsInv, WsTypeOK
<1>2. Items(waiters') = {} /\ Distinct(waiters') /\ waiters' \in Seq(Waiter)
  BY <1>1, EmptyPlaces, EmptySeq
<1>3. GoneWithout \in SUBSET GoneWithout'
  BY <1>1, <1>2 DEF GoneWithout, Entries
<1>4. GoneWithout' \in SUBSET Waiter
  BY DEF GoneWithout
<1>5. /\ Cardinality(GoneWithout) <= Cardinality(GoneWithout')
      /\ Cardinality(GoneWithout) \in Nat /\ Cardinality(GoneWithout') \in Nat
      /\ Cardinality(lost) \in Nat
  BY <1>3, <1>4, WaitersFinite, FS_Subset, FS_CardinalityType DEF WsInv, LossesPaid
<1> QED
  BY <1>1, <1>2, <1>5 DEF WsInv, LossesPaid

LEMMA WsInitInv == WsInit => WsInv
<1> SUFFICES ASSUME WsInit PROVE WsInv
  OBVIOUS
<1>1. WsTypeOK
  <2>1. <<>> \in Seq(Frame) /\ <<>> \in Seq(Waiter) /\ 0 \in 0 .. MaxFrames
    BY CallerAssumption, EmptySeq
  <2> QED
    BY <2>1 DEF WsInit, WsTypeOK
<1>2. Untouched /\ HelloIsFirst /\ Numbered
  BY DEF WsInit, Untouched, HelloIsFirst, Numbered
<1>3. EntriesAreCalls
  BY EmptyPlaces DEF WsInit, EntriesAreCalls, Entries
<1>4. LossesPaid
  BY WaitersFinite, FS_EmptySet, FS_CardinalityType DEF WsInit, LossesPaid
<1> QED
  BY <1>1, <1>2, <1>3, <1>4 DEF WsInv

\* The socket opens, or not; a queue is made once.
LEMMA OpeningInv ==
  ASSUME WsInv, SocketOpens \/ OpenTimesOut
  PROVE  WsInv'
<1>1. CASE OpenTimesOut
  BY <1>1 DEF OpenTimesOut, WsInv, WsTypeOK, Untouched, HelloIsFirst, EntriesAreCalls, Entries,
     Numbered, LossesPaid, GoneWithout
<1>2. CASE SocketOpens /\ phase # "opening"
  BY <1>2 DEF SocketOpens, WsInv, WsTypeOK, Untouched, HelloIsFirst, EntriesAreCalls, Entries,
     Numbered, LossesPaid, GoneWithout
<1>3. CASE SocketOpens /\ phase = "opening"
  <2>1. /\ phase' = "hello" /\ socket' = "open" /\ listening' = TRUE /\ waiters' = <<Connect>>
        /\ frames = <<>> /\ resolved = <<>> /\ received = 0 /\ ~closeError
        /\ UNCHANGED <<frames, closeError, received, resolved, lost>>
        /\ \A w \in Waiter : call[w] = "idle"
    BY <1>3 DEF SocketOpens, WsInv, Untouched
  <2>2. Connect \in Waiter
    BY DEF Waiter
  <2>3. /\ call' \in [Waiter -> {"idle", "waiting", "gone"}] /\ call'[Connect] = "waiting"
        /\ \A w \in Waiter \ {Connect} : call'[w] = call[w]
    BY <1>3, <2>2 DEF SocketOpens, WsInv, WsTypeOK
  <2>4. waiters' \in Seq(Waiter) /\ Items(waiters') = {Connect} /\ Distinct(waiters')
    BY <2>1, <2>2 DEF Items, Distinct
  <2>5. WsTypeOK'
    BY <2>1, <2>3, <2>4 DEF WsInv, WsTypeOK
  <2>6. Untouched' /\ HelloIsFirst'
    BY <2>1, <2>3 DEF Untouched, HelloIsFirst
  <2>7. EntriesAreCalls'
    BY <2>1, <2>3, <2>4 DEF EntriesAreCalls, Entries
  <2>8. Numbered'
    BY <2>1, EmptySeq DEF Numbered
  <2>9. GoneWithout' = {} /\ GoneWithout = {}
    BY <2>1, <2>3 DEF GoneWithout
  <2> QED
    BY <2>1, <2>5, <2>6, <2>7, <2>8, <2>9 DEF WsInv, LossesPaid
<1> QED
  BY <1>1, <1>2, <1>3

LEMMA HelloArrivesInv == ASSUME WsInv, HelloArrives PROVE WsInv'
<1>1. /\ phase = "hello" /\ socket = "open" /\ waiters = <<Connect>> /\ frames = <<>>
      /\ call[Connect] = "waiting" /\ UNCHANGED <<listening, closeError>>
  BY DEF HelloArrives, WsInv, HelloIsFirst
<1>2. Connect \in Waiter /\ waiters # <<>> /\ Head(waiters) = Connect
  BY <1>1 DEF Waiter
<1>3. /\ received' \in 0 .. MaxFrames /\ frames' \in Seq(Frame) /\ waiters' \in Seq(Waiter)
      /\ resolved' \in Seq(Frame) /\ lost' \subseteq Frame
      /\ call' \in [Waiter -> {"idle", "waiting", "gone"}]
      /\ EntriesAreCalls' /\ Numbered' /\ LossesPaid'
  BY <1>1, <1>2, Delivered DEF HelloArrives
<1>4. call'[Connect] = "idle"
  BY <1>1, <1>2 DEF HelloArrives, Deliver, WsInv, WsTypeOK
<1>5. phase' \in {"connected", "failed"} /\ socket' \in {"open", "closing"}
  BY <1>1 DEF HelloArrives
<1> QED
  BY <1>1, <1>3, <1>4, <1>5 DEF WsInv, WsTypeOK, Untouched, HelloIsFirst

LEMMA FrameArrivesInv == ASSUME WsInv, FrameArrives PROVE WsInv'
<1>1. /\ phase \in {"connected", "failed"} /\ socket = "open" /\ listening
      /\ UNCHANGED <<phase, socket, listening, closeError>>
  BY DEF FrameArrives
<1>2. /\ received' \in 0 .. MaxFrames /\ frames' \in Seq(Frame) /\ waiters' \in Seq(Waiter)
      /\ resolved' \in Seq(Frame) /\ lost' \subseteq Frame
      /\ call' \in [Waiter -> {"idle", "waiting", "gone"}]
      /\ EntriesAreCalls' /\ Numbered' /\ LossesPaid'
  BY <1>1, Delivered DEF FrameArrives
<1>3. phase = "connected" => call'[Connect] = "idle"
  <2> SUFFICES ASSUME phase = "connected" PROVE call'[Connect] = "idle"
    OBVIOUS
  <2>1. Connect \in Waiter /\ call[Connect] = "idle" /\ Connect \notin Items(waiters)
    BY DEF WsInv, HelloIsFirst, EntriesAreCalls, Entries, Waiter
  <2>2. CASE waiters = <<>>
    BY <2>1, <2>2 DEF FrameArrives, Deliver
  <2>3. CASE waiters # <<>>
    <3>1. Head(waiters) \in Items(waiters)
      BY <2>3, TailPlaces DEF WsInv, WsTypeOK
    <3> QED
      BY <2>1, <2>3, <3>1 DEF FrameArrives, Deliver, WsInv, WsTypeOK
  <2> QED
    BY <2>2, <2>3
<1> QED
  BY <1>1, <1>2, <1>3 DEF WsInv, WsTypeOK, Untouched, HelloIsFirst

\* An error or a close ends every call that waits.
LEMMA ClosingInv == ASSUME WsInv, BadFrameArrives \/ SocketCloses \/ Close PROVE WsInv'
<1>1. CASE SocketCloses /\ ~listening
  BY <1>1 DEF SocketCloses, FlushError, WsInv, WsTypeOK, Untouched, HelloIsFirst, EntriesAreCalls,
     Entries, Numbered, LossesPaid, GoneWithout
<1>2. CASE Close \/ (listening /\ (BadFrameArrives \/ SocketCloses))
  <2>1. RejectWaiters /\ UNCHANGED <<received, resolved, lost>>
    BY <1>2 DEF BadFrameArrives, SocketCloses, Close, FlushError
  <2>2. /\ waiters' \in Seq(Waiter) /\ call' \in [Waiter -> {"idle", "waiting", "gone"}]
        /\ \A w \in Waiter : call'[w] # "waiting" /\ (call'[w] = "gone" <=> call[w] = "gone")
        /\ Items(waiters') = {} /\ Distinct(waiters') /\ LossesPaid'
    BY <2>1, Rejected
  <2>3. waiters' = <<>> /\ Connect \in Waiter
    BY <2>1 DEF RejectWaiters, Waiter
  <2>4. /\ frames' \in Seq(Frame)
        /\ \/ frames' = frames /\ (listening' <=> listening)
           \/ frames' = <<>> /\ ~listening'
    <3>1. <<>> \in Seq(Frame) /\ frames \in Seq(Frame)
      BY EmptySeq DEF WsInv, WsTypeOK
    <3>2. CASE Close
      BY <3>1, <3>2 DEF Close
    <3>3. CASE BadFrameArrives \/ SocketCloses
      BY <3>1, <3>3 DEF BadFrameArrives, SocketCloses
    <3> QED
      BY <1>2, <3>2, <3>3
  <2>5. WsTypeOK'
    BY <1>2, <2>1, <2>2, <2>4 DEF BadFrameArrives, SocketCloses, Close, FlushError, WsInv, WsTypeOK
  <2>6. socket # "connecting" /\ socket' # "connecting" /\ phase # "opening" /\ phase' # "opening"
        /\ phase' # "hello" /\ (phase' = "connected" => phase = "connected")
    BY <1>2 DEF BadFrameArrives, SocketCloses, Close, WsInv, Untouched, WsTypeOK
  <2>7. Untouched' /\ HelloIsFirst'
    BY <2>2, <2>3, <2>6 DEF WsInv, Untouched, HelloIsFirst, WsTypeOK
  <2>8. EntriesAreCalls'
    BY <2>2, <2>3 DEF EntriesAreCalls, Entries
  <2>9. Numbered'
    BY <2>1, <2>4 DEF WsInv, Numbered
  <2> QED
    BY <2>2, <2>5, <2>7, <2>8, <2>9 DEF WsInv
<1> QED
  BY <1>1, <1>2 DEF BadFrameArrives

\* A caller that is idle has no entry yet.
LEMMA ReceiveInv == ASSUME WsInv, NEW c \in Caller, Receive(c) PROVE WsInv'
<1>0. /\ c \in Waiter /\ c # Connect /\ phase = "connected" /\ call[c] = "idle" /\ ReceiveFrame(c)
      /\ UNCHANGED <<phase, socket, listening, closeError, received, lost>>
      /\ socket # "connecting" /\ c \notin Items(waiters)
  BY CallerAssumption DEF Receive, ReceiveFrame, Waiter, WsInv, Untouched, EntriesAreCalls, Entries
<1>1. CASE frames # <<>>
  <2>1. frames' = Tail(frames) /\ resolved' = Append(resolved, Head(frames)) /\ UNCHANGED <<waiters, call>>
    BY <1>0, <1>1 DEF ReceiveFrame
  <2>2. /\ frames' \in Seq(Frame) /\ Len(frames') = Len(frames) - 1 /\ Len(frames) \in Nat \ {0}
        /\ Head(frames) = frames[1] /\ Head(frames) \in Frame
        /\ \A i \in 1 .. Len(frames') : frames'[i] = frames[i + 1]
    BY <1>1, <2>1, TailPlaces, HeadTailProperties DEF WsInv, WsTypeOK
  <2>3. /\ resolved' \in Seq(Frame) /\ Len(resolved') = Len(resolved) + 1 /\ Len(resolved) \in Nat
        /\ \A i \in 1 .. Len(resolved) : resolved'[i] = resolved[i]
        /\ resolved'[Len(resolved) + 1] = Head(frames)
    BY <2>1, <2>2, AppendProperties, LenProperties DEF WsInv, WsTypeOK
  <2>4. listening /\ waiters = <<>>
    BY <1>1 DEF WsInv, Numbered, EntriesAreCalls
  <2>5. /\ received = Len(resolved) + Len(frames)
        /\ \A i \in 1 .. Len(resolved) : resolved[i] = i
        /\ \A k \in 1 .. Len(frames) : frames[k] = Len(resolved) + k
    BY <2>4 DEF WsInv, Numbered
  <2>6. received' = Len(resolved') + Len(frames')
    BY <1>0, <2>2, <2>3, <2>5
  <2>7. Head(frames) = Len(resolved) + 1
    BY <2>2, <2>5
  <2>8. \A i \in 1 .. Len(resolved') : resolved'[i] = i
    <3>1. \A i \in 1 .. Len(resolved') : i \in 1 .. Len(resolved) \/ i = Len(resolved) + 1
      BY <2>3
    <3> QED
      BY <2>3, <2>5, <2>7, <3>1
  <2>9. \A k \in 1 .. Len(frames') : frames'[k] = Len(resolved') + k
    <3>1. \A k \in 1 .. Len(frames') : k + 1 \in 1 .. Len(frames) /\ Len(resolved) + (k + 1) = Len(resolved') + k
      BY <2>2, <2>3
    <3> QED
      BY <2>2, <2>5, <3>1
  <2>10. Numbered'
    BY <1>0, <2>4, <2>6, <2>8, <2>9 DEF Numbered
  <2>11. WsTypeOK' /\ Untouched' /\ HelloIsFirst' /\ EntriesAreCalls' /\ LossesPaid'
    BY <1>0, <2>1, <2>2, <2>3, <2>4 DEF WsInv, WsTypeOK, Untouched, HelloIsFirst, EntriesAreCalls, Entries,
       LossesPaid, GoneWithout
  <2> QED
    BY <2>10, <2>11 DEF WsInv
<1>2. CASE frames = <<>> /\ closeError
  <2>1. UNCHANGED <<frames, resolved, waiters, call>>
    BY <1>0, <1>2 DEF ReceiveFrame
  <2> QED
    BY <1>0, <2>1 DEF WsInv, WsTypeOK, Untouched, HelloIsFirst, EntriesAreCalls, Entries, Numbered,
       LossesPaid, GoneWithout
<1>3. CASE frames = <<>> /\ ~closeError
  <2>1. /\ waiters' = Append(waiters, c) /\ call' = [call EXCEPT ![c] = "waiting"]
        /\ UNCHANGED <<frames, resolved>>
    BY <1>0, <1>3 DEF ReceiveFrame
  <2>2. /\ waiters' \in Seq(Waiter) /\ Items(waiters') = Items(waiters) \cup {c} /\ Distinct(waiters')
    BY <1>0, <2>1, AppendPlaces DEF WsInv, WsTypeOK, EntriesAreCalls
  <2>3. /\ call' \in [Waiter -> {"idle", "waiting", "gone"}] /\ call'[c] = "waiting"
        /\ \A w \in Waiter \ {c} : call'[w] = call[w]
    BY <1>0, <2>1 DEF WsInv, WsTypeOK
  <2>4. WsTypeOK' /\ Untouched' /\ HelloIsFirst' /\ Numbered'
    BY <1>0, <2>1, <2>2, <2>3 DEF WsInv, WsTypeOK, Untouched, HelloIsFirst, Numbered, Waiter
  <2>5. EntriesAreCalls'
    BY <1>0, <1>3, <2>1, <2>2, <2>3 DEF WsInv, EntriesAreCalls, Entries
  <2>6. GoneWithout' = GoneWithout
    BY <1>0, <2>2, <2>3 DEF GoneWithout, Entries
  <2> QED
    BY <1>0, <2>4, <2>5, <2>6 DEF WsInv, LossesPaid
<1> QED
  BY <1>1, <1>2, <1>3

\* The caller is gone; its entry stays.
LEMMA ReceiveTimesOutInv == ASSUME WsInv, NEW w \in Waiter, ReceiveTimesOut(w) PROVE WsInv'
<1>1. /\ call[w] = "waiting" /\ w \in Items(waiters) /\ phase' = IF w = Connect THEN "failed" ELSE phase
      /\ UNCHANGED <<socket, listening, frames, waiters, closeError, received, resolved, lost>>
  BY DEF ReceiveTimesOut, WsInv, EntriesAreCalls, Entries
<1>2. /\ call' \in [Waiter -> {"idle", "waiting", "gone"}] /\ call'[w] = "gone"
      /\ \A v \in Waiter \ {w} : call'[v] = call[v]
  BY DEF ReceiveTimesOut, WsInv, WsTypeOK
<1>3. WsTypeOK' /\ Numbered'
  BY <1>1, <1>2 DEF WsInv, WsTypeOK, Numbered
<1>4. Untouched'
  BY <1>1, <1>2 DEF WsInv, Untouched
<1>5. HelloIsFirst'
  <2>1. Connect \in Waiter
    BY DEF Waiter
  <2>2. ASSUME phase = "hello" PROVE w = Connect
    <3>1. Items(<<Connect>>) = {Connect}
      BY DEF Items
    <3> QED
      BY <1>1, <2>2, <3>1 DEF WsInv, HelloIsFirst
  <2> QED
    BY <1>1, <1>2, <2>1, <2>2 DEF WsInv, HelloIsFirst
<1>6. EntriesAreCalls'
  BY <1>1, <1>2 DEF WsInv, EntriesAreCalls, Entries
<1>7. GoneWithout' = GoneWithout
  BY <1>1, <1>2 DEF GoneWithout, Entries
<1> QED
  BY <1>1, <1>3, <1>4, <1>5, <1>6, <1>7 DEF WsInv, LossesPaid

LEMMA WsStepInv == ASSUME WsInv, [WsNext]_wsVars PROVE WsInv'
<1>1. CASE UNCHANGED wsVars
  BY <1>1 DEF wsVars, WsInv, WsTypeOK, Untouched, HelloIsFirst, EntriesAreCalls, Entries, Numbered,
     LossesPaid, GoneWithout
<1>2. CASE WsNext
  BY <1>2, OpeningInv, HelloArrivesInv, FrameArrivesInv, ClosingInv, ReceiveInv, ReceiveTimesOutInv DEF WsNext
<1> QED
  BY <1>1, <1>2

-----------------------------------------------------------------------------
(* What the operations take.                                               *)

\* A set of natural numbers that is not empty has a least element, which is what
\* a search from the front chooses.
LEMMA FirstIn ==
  ASSUME NEW T, T \subseteq Nat, T # {}
  PROVE  /\ (CHOOSE i \in T : \A j \in T : i <= j) \in T
         /\ \A j \in T : (CHOOSE i \in T : \A k \in T : i <= k) <= j
<1>1. PICK x \in T : \A y \in T : ~(<<y, x>> \in OpToRel(<, Nat))
  BY WFMin, NatLessThanWellFounded
<1>2. \A y \in T : x <= y
  <2> SUFFICES ASSUME NEW y \in T, y < x PROVE FALSE
    OBVIOUS
  <2>1. <<y, x>> \in Nat \X Nat
    OBVIOUS
  <2>2. <<y, x>>[1] = y /\ <<y, x>>[2] = x
    OBVIOUS
  <2>3. <<y, x>> \in OpToRel(<, Nat)
    BY <2>1, <2>2, Zenon DEF OpToRel
  <2> QED
    BY <1>1, <2>3
<1> QED
  BY <1>2

\* The operation has what it took, and nobody else has it.
LEMMA EndsOnce ==
  ASSUME ClientInv, NEW c \in Caller, NEW tx \in Transmission, tx \notin Taken, EndWith(c, tx)
  PROVE  /\ op' \in [Caller -> {"unused", "running", "waiting", "ok", "err", "timeout", "failed"}]
         /\ op'[c] \in {"ok", "err"} /\ \A d \in Caller \ {c} : op'[d] = op[d]
         /\ got' \in [Caller -> Transmission \cup {Nothing}]
         /\ Taken' \subseteq Taken \cup {tx}
         /\ \A d, e \in Caller : (d # e /\ got'[d] # Nothing) => got'[d] # got'[e]
<1>1. /\ op \in [Caller -> {"unused", "running", "waiting", "ok", "err", "timeout", "failed"}]
      /\ got \in [Caller -> Transmission \cup {Nothing}]
  BY DEF ClientInv, TypeOK
<1>2. /\ op' = [op EXCEPT ![c] = IF tx.type = "ERR" THEN "err" ELSE "ok"]
      /\ got' = [got EXCEPT ![c] = tx]
  BY DEF EndWith
<1>3. got'[c] = tx /\ \A d \in Caller \ {c} : got'[d] = got[d]
  BY <1>1, <1>2
<1>4. \A d \in Caller : got[d] = Nothing \/ got[d] # tx
  BY DEF Taken
<1>5. \A d, e \in Caller : (d # e /\ got'[d] # Nothing) => got'[d] # got'[e]
  BY <1>3, <1>4 DEF ClientInv, KeptOnce
<1>6. Taken' \subseteq Taken \cup {tx}
  BY <1>3 DEF Taken
<1>7. got' \in [Caller -> Transmission \cup {Nothing}]
  BY <1>1, <1>2
<1>8. /\ op' \in [Caller -> {"unused", "running", "waiting", "ok", "err", "timeout", "failed"}]
      /\ op'[c] \in {"ok", "err"} /\ \A d \in Caller \ {c} : op'[d] = op[d]
  BY <1>1, <1>2
<1> QED
  BY <1>5, <1>6, <1>7, <1>8

\* A block that is read goes to the buffer and to the operation, each item once.
LEMMA Processed ==
  ASSUME ClientInv, NEW c \in Caller, NEW txs \in Seq(Transmission), Distinct(txs),
         Items(txs) \cap (Items(pending) \cup Taken) = {}, ProcessBlock(c, txs)
  PROVE  /\ op' \in [Caller -> {"unused", "running", "waiting", "ok", "err", "timeout", "failed"}]
         /\ op'[c] \in {"running", "ok", "err"} /\ \A d \in Caller \ {c} : op'[d] = op[d]
         /\ got' \in [Caller -> Transmission \cup {Nothing}]
         /\ pending' \in Seq(Transmission) /\ Len(pending') <= MaxPending
         /\ Items(pending') \cup Taken' \subseteq Items(pending) \cup Taken \cup Items(txs)
         /\ Distinct(pending') /\ Items(pending') \cap Taken' = {}
         /\ \A d, e \in Caller : (d # e /\ got'[d] # Nothing) => got'[d] # got'[e]
<1> DEFINE ending == {i \in 1 .. Len(txs) : Ends(c, txs[i])}
           first  == CHOOSE i \in ending : \A j \in ending : i <= j
<1>0. /\ op \in [Caller -> {"unused", "running", "waiting", "ok", "err", "timeout", "failed"}]
      /\ got \in [Caller -> Transmission \cup {Nothing}]
      /\ pending \in Seq(Transmission) /\ Distinct(pending) /\ Items(pending) \cap Taken = {}
      /\ Len(txs) \in Nat
  BY LenProperties DEF ClientInv, TypeOK, KeptOnce
<1>1. CASE ending = {}
  <2>1. /\ pending' = Remembered(txs) /\ op' = [op EXCEPT ![c] = "running"] /\ UNCHANGED got
    BY <1>1 DEF ProcessBlock
  <2>2. /\ pending' \in Seq(Transmission) /\ Len(pending') <= MaxPending
        /\ Items(pending') \subseteq Items(pending) \cup Items(txs) /\ Distinct(pending')
    BY <1>0, <2>1, RememberedPlaces
  <2>3. Taken' = Taken
    BY <2>1 DEF Taken
  <2>4. /\ op' \in [Caller -> {"unused", "running", "waiting", "ok", "err", "timeout", "failed"}]
        /\ op'[c] = "running" /\ \A d \in Caller \ {c} : op'[d] = op[d]
    BY <1>0, <2>1
  <2>5. \A d, e \in Caller : (d # e /\ got'[d] # Nothing) => got'[d] # got'[e]
    BY <2>1 DEF ClientInv, KeptOnce
  <2> QED
    BY <1>0, <2>1, <2>2, <2>3, <2>4, <2>5
<1>2. CASE ending # {}
  <2> DEFINE before == SubSeq(txs, 1, first - 1)
             tx     == txs[first]
  <2>1. ending \subseteq Nat
    OBVIOUS
  <2>2. first \in ending
    <3> HIDE DEF ending
    <3> QED
      BY <1>2, <2>1, FirstIn
  <2>3. pending' = Remembered(before) /\ EndWith(c, tx)
    BY <1>2 DEF ProcessBlock
  <2>4. first \in 1 .. Len(txs) /\ first - 1 \in Nat /\ first - 1 <= Len(txs)
    BY <1>0, <2>2
  <2> HIDE DEF ending, first
  <2>5. /\ before \in Seq(Transmission) /\ Distinct(before)
        /\ Items(before) = {txs[i] : i \in 1 .. first - 1}
    BY <1>0, <2>4, FirstPlaces
  <2>6. tx \in Items(txs) /\ tx \in Transmission /\ Items(before) \subseteq Items(txs)
    <3>1. tx \in Items(txs) /\ tx \in Transmission
      BY <2>4, Places
    <3>2. \A i \in 1 .. first - 1 : i \in 1 .. Len(txs)
      BY <1>0, <2>4
    <3> QED
      BY <2>5, <3>1, <3>2 DEF Items
  <2>7. tx \notin Items(before)
    <3>1. \A i \in 1 .. first - 1 : i # first /\ i \in 1 .. Len(txs)
      BY <1>0, <2>4
    <3> QED
      BY <2>4, <2>5, <3>1 DEF Distinct
  <2> HIDE DEF before, tx
  <2>8. /\ pending' \in Seq(Transmission) /\ Len(pending') <= MaxPending
        /\ Items(pending') \subseteq Items(pending) \cup Items(before) /\ Distinct(pending')
    <3>1. Items(pending) \cap Items(before) = {}
      BY <2>6
    <3> QED
      BY <1>0, <2>3, <2>5, <3>1, RememberedPlaces
  <2>9. tx \notin Taken /\ tx \notin Items(pending)
    BY <2>6
  <2>10. /\ op' \in [Caller -> {"unused", "running", "waiting", "ok", "err", "timeout", "failed"}]
         /\ op'[c] \in {"ok", "err"} /\ \A d \in Caller \ {c} : op'[d] = op[d]
         /\ got' \in [Caller -> Transmission \cup {Nothing}]
         /\ Taken' \subseteq Taken \cup {tx}
         /\ \A d, e \in Caller : (d # e /\ got'[d] # Nothing) => got'[d] # got'[e]
    BY <2>3, <2>6, <2>9, EndsOnce
  <2>11. Items(pending') \cap Taken' = {}
    BY <1>0, <2>6, <2>7, <2>8, <2>9, <2>10
  <2> QED
    BY <2>6, <2>8, <2>10, <2>11
<1> QED
  BY <1>1, <1>2

\* The frames that are buffered are the numbers of different blocks, and what is
\* in those blocks was not read.
LEMMA BufferedAreUnread ==
  ASSUME ClientInv
  PROVE  /\ Distinct(frames) /\ \A k \in 1 .. Len(frames) : frames[k] \in 1 .. Len(block)
         /\ InFrames \cap Read = {}
         /\ \A b \in 1 .. Len(block) :
              b \notin Items(frames) => Items(block[b]) \subseteq Read
         /\ \A b \in Items(frames) : b \in 1 .. Len(block) /\ Items(block[b]) \cap Read = {}
<1>1. Len(block) = received /\ Len(frames) \in Nat /\ Len(resolved) \in Nat /\ received \in Nat
  BY LenProperties DEF ClientInv, TypeOK, WsTypeOK
<1>2. /\ Distinct(frames) /\ \A k \in 1 .. Len(frames) : frames[k] \in 1 .. Len(block)
  <2>1. CASE frames = <<>>
    BY <2>1, EmptyPlaces, EmptySeq
  <2>2. CASE listening
    BY <1>1, <2>2 DEF ClientInv, WsInv, Numbered, Distinct
  <2> QED
    BY <2>1, <2>2 DEF ClientInv, WsInv, Numbered
<1>3. \A b \in 1 .. Len(block) : b \notin Items(frames) => Items(block[b]) \subseteq Read
  BY DEF Read, Items
<1>4. ASSUME NEW b \in Items(frames)
      PROVE  b \in 1 .. Len(block) /\ Items(block[b]) \cap Read = {}
  <2>1. PICK k \in 1 .. Len(frames) : b = frames[k]
    BY <1>4 DEF Items
  <2>2. b \in 1 .. Len(block)
    BY <1>2, <2>1
  <2>3. \A i \in 1 .. Len(block) : i # b => Items(block[b]) \cap Items(block[i]) = {}
    BY <2>2 DEF ClientInv, SentOnce
  <2>4. \A x \in Read : \E i \in 1 .. Len(block) : i # b /\ x \in Items(block[i])
    BY <2>1 DEF Read
  <2> QED
    BY <2>2, <2>3, <2>4
<1>5. InFrames \cap Read = {}
  <2>1. \A x \in InFrames : \E b \in Items(frames) : x \in Items(block[b])
    BY DEF InFrames, Items
  <2> QED
    BY <1>4, <2>1
<1> QED
  BY <1>2, <1>3, <1>4, <1>5

-----------------------------------------------------------------------------
(* The client keeps its invariant.                                         *)

\* A step of the client is one of the transport, or does not concern it.
LEMMA ClientIsAbove == ClientNext => [WsNext]_wsVars
<1>1. Connecting => WsNext
  BY DEF Connecting, WsNext, Waiter
<1>2. BlockArrives => WsNext
  BY DEF BlockArrives, WsNext
<1>3. Disconnect => WsNext
  BY DEF Disconnect, WsNext
<1>4. ASSUME NEW c \in Caller, Start(c) \/ Loop(c) \/ Expire(c) PROVE WsNext \/ UNCHANGED wsVars
  BY <1>4 DEF Start, Loop, Expire, WsNext, Waiter
<1> QED
  BY <1>1, <1>2, <1>3, <1>4 DEF ClientNext

LEMMA ClientInitInv == ClientInit => ClientInv
<1> SUFFICES ASSUME ClientInit PROVE ClientInv
  OBVIOUS
<1>1. WsInit /\ WsInv
  BY WsInitInv DEF ClientInit
<1>2. /\ op = [c \in Caller |-> "unused"] /\ batches = [c \in Caller |-> 0] /\ pending = <<>>
      /\ block = <<>> /\ outbox = {Message(m) : m \in Push} /\ got = [c \in Caller |-> Nothing]
      /\ received = 0 /\ \A w \in Waiter : call[w] = "idle"
  BY DEF ClientInit, WsInit
<1>3. Len(block) = 0 /\ Len(pending) = 0 /\ Items(pending) = {} /\ Distinct(pending)
  BY <1>2, EmptyPlaces, EmptySeq
<1>4. Taken = {}
  BY <1>2 DEF Taken
<1>5. TypeOK
  <2>1. <<>> \in Seq(Transmission) /\ <<>> \in Seq(Seq(Transmission))
    BY EmptySeq
  <2>2. 0 \in 0 .. MaxBatches /\ 0 <= MaxPending
    BY ClientAssumption
  <2> QED
    BY <1>1, <1>2, <1>3, <2>1, <2>2 DEF TypeOK, Transmission, WsInv
<1>6. SentOnce
  <2>1. \A c \in Cmd, t \in {"OK", "ERR"}, m \in Push : Answer(c, t) # Message(m)
    BY DEF Answer, Message
  <2> QED
    BY <1>2, <1>3, <2>1 DEF SentOnce
<1>7. KeptOnce
  BY <1>2, <1>3, <1>4 DEF KeptOnce
<1>8. WaitsBelow
  BY <1>2 DEF WaitsBelow, Waiter
<1> QED
  BY <1>1, <1>5, <1>6, <1>7, <1>8 DEF ClientInv

\* What is buffered, and was read, when the frames and the blocks stay.
LEMMA SamePlaces ==
  ASSUME ClientInv, UNCHANGED <<block, pending, got>>,
         frames' = frames \/ Len(frames') = 0
  PROVE  Read \subseteq Read' /\ KeptOnce'
<1>1. Read \subseteq Read'
  BY DEF Read, Items
<1>2. Items(pending') = Items(pending) /\ Taken' = Taken /\ Distinct(pending')
  BY DEF ClientInv, KeptOnce, Taken, Items, Distinct
<1> QED
  BY <1>1, <1>2 DEF ClientInv, KeptOnce

LEMMA ConnectingInv == ASSUME ClientInv, Connecting, WsInv' PROVE ClientInv'
<1>0. UNCHANGED <<op, batches, pending, outbox, got>> /\ Len(block) = received
  BY DEF Connecting, ClientInv, TypeOK
<1>1. WaitsBelow'
  <2>1. \A c \in Caller : c \in Waiter /\ c # Connect
    BY CallerAssumption DEF Waiter
  <2>2. ASSUME HelloArrives PROVE Head(waiters) = Connect /\ waiters # <<>>
    BY <2>2 DEF HelloArrives, ClientInv, WsInv, HelloIsFirst
  <2>3. \A c \in Caller : call'[c] = call[c]
    BY <2>1, <2>2 DEF Connecting, SocketOpens, OpenTimesOut, ReceiveTimesOut, HelloArrives, Deliver,
       ClientInv, WsInv, WsTypeOK
  <2> QED
    BY <1>0, <2>3 DEF ClientInv, WaitsBelow
<1>2. CASE UNCHANGED block /\ (SocketOpens \/ OpenTimesOut \/ ReceiveTimesOut(Connect))
  <2>1. UNCHANGED <<frames, received>>
    BY <1>2 DEF SocketOpens, OpenTimesOut, ReceiveTimesOut
  <2>2. TypeOK'
    BY <1>0, <1>2, <2>1 DEF ClientInv, TypeOK, WsInv
  <2>3. SentOnce'
    BY <1>0, <1>2 DEF ClientInv, SentOnce
  <2>4. KeptOnce'
    BY <1>0, <1>2, <2>1, SamePlaces
  <2> QED
    BY <1>1, <2>2, <2>3, <2>4 DEF ClientInv
<1>3. CASE HelloArrives /\ block' = Append(block, <<>>)
  <2>1. /\ frames' = frames /\ Len(frames) = 0 /\ received' = received + 1
    BY <1>3, EmptySeq DEF HelloArrives, Deliver, ClientInv, WsInv, HelloIsFirst
  <2>2. block \in Seq(Seq(Transmission)) /\ <<>> \in Seq(Transmission)
    BY EmptySeq DEF ClientInv, TypeOK
  <2>3. /\ block' \in Seq(Seq(Transmission)) /\ Len(block') = Len(block) + 1 /\ Len(block) \in Nat
        /\ \A i \in 1 .. Len(block) : block'[i] = block[i]
        /\ block'[Len(block) + 1] = <<>>
    BY <1>3, <2>2, AppendProperties, LenProperties
  <2>4. \A i \in 1 .. Len(block') : i \in 1 .. Len(block) \/ (i = Len(block) + 1 /\ i \notin 1 .. Len(block))
    BY <2>3
  <2>5. TypeOK'
    BY <1>0, <2>1, <2>3 DEF ClientInv, TypeOK, WsInv
  <2>6. SentOnce'
    BY <1>0, <2>3, <2>4, EmptyPlaces DEF ClientInv, SentOnce
  <2>7. Read \subseteq Read'
    BY <2>1, <2>3 DEF Read
  <2>8. KeptOnce'
    BY <1>0, <2>7 DEF ClientInv, KeptOnce, Taken
  <2> QED
    BY <1>1, <2>5, <2>6, <2>8 DEF ClientInv
<1> QED
  BY <1>2, <1>3 DEF Connecting

LEMMA DisconnectInv == ASSUME ClientInv, Disconnect, WsInv' PROVE ClientInv'
<1>0. /\ UNCHANGED <<batches, pending, outbox, block, got, received>> /\ FailWaiting
      /\ frames' = frames \/ Len(frames') = 0
      /\ \A c \in Caller : call'[c] = "waiting" => call[c] = "waiting"
  BY EmptySeq DEF Disconnect, FailWaiting, BadFrameArrives, SocketCloses, Close, FlushError, RejectWaiters, Waiter
<1>1. /\ op' \in [Caller -> {"unused", "running", "waiting", "ok", "err", "timeout", "failed"}]
      /\ \A c \in Caller : op'[c] = IF op[c] = "waiting" /\ call'[c] # "waiting" THEN "failed" ELSE op[c]
  BY <1>0 DEF FailWaiting, ClientInv, TypeOK
<1>2. TypeOK'
  BY <1>0, <1>1 DEF ClientInv, TypeOK, WsInv
<1>3. WaitsBelow'
  BY <1>0, <1>1 DEF ClientInv, WaitsBelow
<1>4. SentOnce'
  BY <1>0, <1>1, ClientAssumption DEF ClientInv, SentOnce
<1>5. KeptOnce'
  BY <1>0, SamePlaces
<1> QED
  BY <1>2, <1>3, <1>4, <1>5 DEF ClientInv

LEMMA ExpireInv == ASSUME ClientInv, NEW c \in Caller, Expire(c), WsInv' PROVE ClientInv'
<1>0. /\ UNCHANGED <<batches, pending, outbox, block, got, received, frames>>
      /\ op' = [op EXCEPT ![c] = "timeout"] /\ call' = [call EXCEPT ![c] = "gone"] /\ c \in Waiter
  BY DEF Expire, ReceiveTimesOut, Waiter
<1>1. /\ op' \in [Caller -> {"unused", "running", "waiting", "ok", "err", "timeout", "failed"}]
      /\ op'[c] = "timeout" /\ \A d \in Caller \ {c} : op'[d] = op[d]
  BY <1>0 DEF ClientInv, TypeOK
<1>2. call'[c] = "gone" /\ \A d \in Caller \ {c} : call'[d] = call[d]
  BY <1>0 DEF ClientInv, WsInv, WsTypeOK, Waiter
<1>3. TypeOK'
  BY <1>0, <1>1 DEF ClientInv, TypeOK, WsInv
<1>4. WaitsBelow'
  BY <1>1, <1>2 DEF ClientInv, WaitsBelow
<1>5. SentOnce'
  BY <1>0, <1>1, ClientAssumption DEF ClientInv, SentOnce
<1>6. KeptOnce'
  BY <1>0, SamePlaces
<1> QED
  BY <1>3, <1>4, <1>5, <1>6 DEF ClientInv

\* The answer is made now; what was pending for the operation is taken.
LEMMA StartInv == ASSUME ClientInv, NEW c \in Caller, Start(c), WsInv' PROVE ClientInv'
<1>0. /\ UNCHANGED <<wsVars, batches, block>> /\ op[c] = "unused"
      /\ UNCHANGED <<frames, call, received>>
      /\ op \in [Caller -> {"unused", "running", "waiting", "ok", "err", "timeout", "failed"}]
      /\ pending \in Seq(Transmission) /\ outbox \subseteq Transmission
      /\ got \in [Caller -> Transmission \cup {Nothing}] /\ Caller = Cmd \cup Rcv
  BY ClientAssumption DEF Start, ClientInv, TypeOK, wsVars
<1>1. Read' = Read
  BY <1>0 DEF Read
<1> DEFINE Outcome ==
      /\ op' \in [Caller -> {"unused", "running", "waiting", "ok", "err", "timeout", "failed"}]
      /\ op'[c] \in {"running", "ok", "err", "failed"} /\ \A d \in Caller \ {c} : op'[d] = op[d]
      /\ got' \in [Caller -> Transmission \cup {Nothing}]
      /\ pending' \in Seq(Transmission) /\ Len(pending') <= MaxPending
      /\ KeptOnce'
<1>2. ASSUME UNCHANGED <<pending, got>>, NEW x \in {"running", "failed"}, op' = [op EXCEPT ![c] = x]
      PROVE  Outcome
  BY <1>0, <1>1, <1>2 DEF ClientInv, TypeOK, KeptOnce, Taken
<1>3. ASSUME NEW i \in 1 .. Len(pending), EndWith(c, pending[i]), pending' = RemovedAt(pending, i)
      PROVE  Outcome
  <2> DEFINE tx == pending[i]
  <2>1. tx \in Items(pending) /\ tx \in Transmission /\ tx \notin Taken /\ Items(pending) \cap Taken = {}
        /\ Items(pending) \subseteq Read /\ Taken \subseteq Read /\ Distinct(pending)
    BY <1>0, Places DEF ClientInv, KeptOnce
  <2>2. /\ pending' \in Seq(Transmission) /\ Len(pending') = Len(pending) - 1
        /\ Items(pending') \subseteq Items(pending)
        /\ Distinct(pending') /\ tx \notin Items(pending')
    BY <1>0, <1>3, <2>1, RemovedPlaces
  <2>3. EndWith(c, tx)
    BY <1>3
  <2> HIDE DEF tx
  <2>4. /\ op' \in [Caller -> {"unused", "running", "waiting", "ok", "err", "timeout", "failed"}]
        /\ op'[c] \in {"ok", "err"} /\ \A d \in Caller \ {c} : op'[d] = op[d]
        /\ got' \in [Caller -> Transmission \cup {Nothing}]
        /\ Taken' \subseteq Taken \cup {tx}
        /\ \A d, e \in Caller : (d # e /\ got'[d] # Nothing) => got'[d] # got'[e]
    BY <2>1, <2>3, EndsOnce
  <2>5. Len(pending') <= MaxPending
    BY <1>0, <2>2, ClientAssumption, LenProperties DEF ClientInv, TypeOK
  <2>6. KeptOnce'
    BY <1>1, <2>1, <2>2, <2>4 DEF KeptOnce
  <2> QED
    BY <2>2, <2>4, <2>5, <2>6
<1>4. Outcome
  <2> DEFINE found == {i \in 1 .. Len(pending) : TakesPending(c, pending[i])}
             i     == CHOOSE i \in found : \A j \in found : i <= j
  <2>1. CASE c \in Cmd /\ socket # "open"
    BY <2>1, <1>2 DEF Start
  <2>2. CASE ~(c \in Cmd /\ socket # "open") /\ found = {}
    BY <2>2, <1>2 DEF Start
  <2>3. CASE ~(c \in Cmd /\ socket # "open") /\ found # {}
    <3>1. EndWith(c, pending[i]) /\ pending' = RemovedAt(pending, i)
      BY <2>3 DEF Start
    <3>2. i \in found
      <4>1. found \subseteq Nat
        OBVIOUS
      <4> HIDE DEF found
      <4> QED
        BY <2>3, <4>1, FirstIn
    <3>3. i \in 1 .. Len(pending)
      BY <3>2
    <3> HIDE DEF i
    <3> QED
      BY <1>3, <3>1, <3>3
  <2> QED
    BY <2>1, <2>2, <2>3
<1>5. \/ outbox' = outbox
      \/ c \in Cmd /\ \E t \in {"OK", "ERR"} : outbox' = outbox \cup {Answer(c, t)}
  BY DEF Start
<1> HIDE DEF Outcome
<1>6. op' \in [Caller -> {"unused", "running", "waiting", "ok", "err", "timeout", "failed"}]
      /\ op'[c] \in {"running", "ok", "err", "failed"} /\ \A d \in Caller \ {c} : op'[d] = op[d]
  BY <1>4 DEF Outcome
<1>7. outbox' \subseteq Transmission
  BY <1>0, <1>5 DEF Transmission
<1>8. TypeOK'
  BY <1>0, <1>4, <1>7 DEF Outcome, ClientInv, TypeOK, WsInv
<1>9. SentOnce'
  <2>1. \A i \in 1 .. Len(block) : Items(block[i]) \cap outbox' = {}
    BY <1>0, <1>5 DEF ClientInv, SentOnce
  <2>2. ASSUME NEW d \in Cmd, op'[d] = "unused", NEW t \in {"OK", "ERR"}
        PROVE  /\ Answer(d, t) \notin outbox'
               /\ \A i \in 1 .. Len(block) : Answer(d, t) \notin Items(block[i])
    <3>1. d # c /\ op[d] = "unused"
      BY <1>0, <1>6, <2>2
    <3>2. \A u \in {"OK", "ERR"} : Answer(d, t) # Answer(c, u)
      BY <3>1 DEF Answer
    <3> QED
      BY <1>5, <3>1, <3>2 DEF ClientInv, SentOnce
  <2> QED
    BY <1>0, <2>1, <2>2 DEF ClientInv, SentOnce
<1>10. WaitsBelow'
  BY <1>0, <1>6 DEF ClientInv, WaitsBelow
<1> QED
  BY <1>4, <1>8, <1>9, <1>10 DEF Outcome, ClientInv

\* A buffered block is read; or there is none, and the operation waits or fails.
LEMMA LoopInv == ASSUME ClientInv, NEW c \in Caller, Loop(c), WsInv' PROVE ClientInv'
<1>0. /\ op[c] = "running" /\ UNCHANGED <<outbox, block, received>> /\ c \in Waiter
      /\ op \in [Caller -> {"unused", "running", "waiting", "ok", "err", "timeout", "failed"}]
      /\ batches \in [Caller -> 0 .. MaxBatches]
      /\ frames \in Seq(Frame) /\ block \in Seq(Seq(Transmission))
      /\ call \in [Waiter -> {"idle", "waiting", "gone"}]
  BY DEF Loop, Receive, wsVars, Waiter, ClientInv, TypeOK, WsTypeOK
<1>1. CASE batches[c] = MaxBatches
  <2>1. UNCHANGED <<wsVars, batches, pending, got>> /\ op' = [op EXCEPT ![c] = "timeout"]
    BY <1>1 DEF Loop
  <2>2. /\ UNCHANGED <<frames, call>>
        /\ op' \in [Caller -> {"unused", "running", "waiting", "ok", "err", "timeout", "failed"}]
        /\ op'[c] = "timeout" /\ \A d \in Caller \ {c} : op'[d] = op[d]
    BY <1>0, <2>1 DEF wsVars
  <2>3. TypeOK'
    BY <1>0, <2>1, <2>2 DEF ClientInv, TypeOK, WsInv
  <2>4. SentOnce'
    BY <1>0, <2>2, ClientAssumption DEF ClientInv, SentOnce
  <2>5. KeptOnce'
    BY <1>0, <2>1, <2>2, SamePlaces
  <2>6. WaitsBelow'
    BY <1>0, <2>2 DEF ClientInv, WaitsBelow
  <2> QED
    BY <2>3, <2>4, <2>5, <2>6 DEF ClientInv
<1>2. CASE batches[c] # MaxBatches
  <2>0. /\ batches' = [batches EXCEPT ![c] = batches[c] + 1] /\ ReceiveFrame(c)
        /\ IF frames # <<>> THEN ProcessBlock(c, block[Head(frames)])
           ELSE /\ op' = [op EXCEPT ![c] = IF closeError THEN "failed" ELSE "waiting"]
                /\ UNCHANGED <<pending, got>>
    BY <1>2 DEF Loop, Receive
  <2>1. batches' \in [Caller -> 0 .. MaxBatches]
    <3>1. batches[c] + 1 \in 0 .. MaxBatches
      BY <1>0, <1>2, ClientAssumption
    <3> QED
      BY <1>0, <2>0, <3>1
  <2>2. CASE frames # <<>>
    <3> DEFINE b == Head(frames)
    <3>1. /\ frames' = Tail(frames) /\ UNCHANGED call
      BY <2>0, <2>2 DEF ReceiveFrame
    <3>2. b \in Items(frames) /\ Items(frames') = Items(frames) \ {b}
      BY <1>0, <2>2, <3>1, BufferedAreUnread, TailPlaces
    <3>3. b \in 1 .. Len(block) /\ Items(block[b]) \cap Read = {} /\ ProcessBlock(c, block[b])
      BY <2>0, <2>2, <3>2, BufferedAreUnread
    <3> HIDE DEF b
    <3>4. block[b] \in Seq(Transmission) /\ Distinct(block[b])
      BY <1>0, <3>3, ElementOfSeq DEF ClientInv, SentOnce
    <3>5. Items(block[b]) \cap (Items(pending) \cup Taken) = {}
      BY <3>3 DEF ClientInv, KeptOnce
    <3>6. /\ op' \in [Caller -> {"unused", "running", "waiting", "ok", "err", "timeout", "failed"}]
          /\ op'[c] \in {"running", "ok", "err"} /\ \A d \in Caller \ {c} : op'[d] = op[d]
          /\ got' \in [Caller -> Transmission \cup {Nothing}]
          /\ pending' \in Seq(Transmission) /\ Len(pending') <= MaxPending
          /\ Items(pending') \cup Taken' \subseteq Items(pending) \cup Taken \cup Items(block[b])
          /\ Distinct(pending') /\ Items(pending') \cap Taken' = {}
          /\ \A d, e \in Caller : (d # e /\ got'[d] # Nothing) => got'[d] # got'[e]
      BY <3>3, <3>4, <3>5, Processed
    <3>7. Read \cup Items(block[b]) \subseteq Read'
      <4>1. Read' = UNION {Items(block'[i]) : i \in {j \in 1 .. Len(block') : j \notin Items(frames')}}
        BY DEF Read, Items
      <4>2. Read = UNION {Items(block[i]) : i \in {j \in 1 .. Len(block) : j \notin Items(frames)}}
        BY DEF Read, Items
      <4>3. b \in 1 .. Len(block') /\ b \notin Items(frames') /\ block' = block
        BY <1>0, <3>2, <3>3
      <4>4. \A j \in 1 .. Len(block) : j \notin Items(frames) => j \in 1 .. Len(block') /\ j \notin Items(frames')
        BY <3>2, <4>3
      <4>5. Read \subseteq Read'
        BY <4>1, <4>2, <4>3, <4>4
      <4>6. Items(block[b]) \subseteq Read'
        BY <4>1, <4>3
      <4> QED
        BY <4>5, <4>6
    <3>8. KeptOnce'
      BY <3>6, <3>7 DEF ClientInv, KeptOnce
    <3>9. TypeOK'
      BY <1>0, <2>1, <3>6 DEF ClientInv, TypeOK, WsInv
    <3>10. SentOnce'
      BY <1>0, <3>6, ClientAssumption DEF ClientInv, SentOnce
    <3>11. WaitsBelow'
      BY <1>0, <3>1, <3>6 DEF ClientInv, WaitsBelow
    <3> QED
      BY <3>8, <3>9, <3>10, <3>11 DEF ClientInv
  <2>3. CASE frames = <<>>
    <3>1. /\ UNCHANGED <<frames, pending, got>>
          /\ op' = [op EXCEPT ![c] = IF closeError THEN "failed" ELSE "waiting"]
          /\ IF closeError THEN call' = call ELSE call' = [call EXCEPT ![c] = "waiting"]
      BY <2>0, <2>3 DEF ReceiveFrame
    <3>2. /\ op' \in [Caller -> {"unused", "running", "waiting", "ok", "err", "timeout", "failed"}]
          /\ op'[c] = (IF closeError THEN "failed" ELSE "waiting")
          /\ \A d \in Caller \ {c} : op'[d] = op[d] /\ call'[d] = call[d]
          /\ call'[c] = (IF closeError THEN call[c] ELSE "waiting")
      BY <1>0, <3>1 DEF Waiter
    <3>3. TypeOK'
      BY <1>0, <2>1, <3>1, <3>2 DEF ClientInv, TypeOK, WsInv
    <3>4. SentOnce'
      BY <1>0, <3>2, ClientAssumption DEF ClientInv, SentOnce
    <3>5. KeptOnce'
      BY <1>0, <3>1, SamePlaces
    <3>6. WaitsBelow'
      BY <1>0, <3>2 DEF ClientInv, WaitsBelow
    <3> QED
      BY <3>3, <3>4, <3>5, <3>6 DEF ClientInv
  <2> QED
    BY <2>2, <2>3
<1> QED
  BY <1>1, <1>2

\* A block is made of what the broker had to send, and of nothing it sent before.
LEMMA BlockSent ==
  ASSUME ClientInv, BlockArrives
  PROVE  \E txs \in Seq(Transmission) :
           /\ Distinct(txs) /\ Items(txs) \subseteq outbox /\ outbox' = outbox \ Items(txs)
           /\ Items(txs) \cap (Items(pending) \cup Taken) = {}
           /\ block' \in Seq(Seq(Transmission)) /\ Len(block') = Len(block) + 1
           /\ \A i \in 1 .. Len(block) : block'[i] = block[i]
           /\ block'[Len(block) + 1] = txs
           /\ IF waiters # <<>> /\ call[Head(waiters)] = "waiting"
              THEN ProcessBlock(Head(waiters), txs)
              ELSE UNCHANGED <<op, pending, got>>
<1>1. PICK txs \in UNION {[1 .. n -> outbox] : n \in 1 .. MaxBlock} :
        /\ \A i, j \in DOMAIN txs : i # j => txs[i] # txs[j]
        /\ block' = Append(block, txs)
        /\ outbox' = outbox \ {txs[i] : i \in DOMAIN txs}
        /\ IF waiters # <<>> /\ call[Head(waiters)] = "waiting"
           THEN ProcessBlock(Head(waiters), txs)
           ELSE UNCHANGED <<op, pending, got>>
  BY DEF BlockArrives
<1>2. /\ txs \in Seq(Transmission) /\ Distinct(txs) /\ Items(txs) \subseteq outbox
      /\ outbox' = outbox \ Items(txs)
  <2>0. PICK n \in 1 .. MaxBlock : txs \in [1 .. n -> outbox]
    OBVIOUS
  <2>1. n \in Nat /\ DOMAIN txs = 1 .. n /\ \A i \in 1 .. n : txs[i] \in Transmission /\ txs[i] \in outbox
    BY <2>0, ClientAssumption DEF ClientInv, TypeOK
  <2>2. txs \in Seq(Transmission) /\ Len(txs) = n
    BY <2>1
  <2> QED
    BY <1>1, <2>1, <2>2 DEF Distinct, Items
<1>3. /\ block' \in Seq(Seq(Transmission)) /\ Len(block') = Len(block) + 1
      /\ \A i \in 1 .. Len(block) : block'[i] = block[i]
      /\ block'[Len(block) + 1] = txs
  BY <1>1, <1>2, AppendProperties DEF ClientInv, TypeOK
<1>4. Items(txs) \cap (Items(pending) \cup Taken) = {}
  <2>1. Read \cap outbox = {}
    BY DEF ClientInv, SentOnce, Read
  <2> QED
    BY <1>2, <2>1 DEF ClientInv, KeptOnce
<1> QED
  BY <1>1, <1>2, <1>3, <1>4

\* Who comes first among those that wait, or are gone, gets it.
LEMMA FirstServed ==
  ASSUME ClientInv, BlockArrives, waiters # <<>>, NEW h, h = Head(waiters)
  PROVE  /\ h \in Caller /\ call[h] \in {"waiting", "gone"}
         /\ call'[h] # "waiting" /\ \A d \in Waiter \ {h} : call'[d] = call[d]
         /\ call[h] = "gone" => call'[h] = "gone"
<1>1. /\ phase = "connected" /\ Deliver(received')
      /\ waiters \in Seq(Waiter) /\ call \in [Waiter -> {"idle", "waiting", "gone"}]
  BY DEF BlockArrives, FrameArrives, ClientInv, TypeOK, WsTypeOK
<1>2. h \in Waiter /\ h \in Items(waiters)
  BY <1>1, TailPlaces
<1>3. call[h] # "idle" /\ call[Connect] = "idle"
  BY <1>1, <1>2 DEF ClientInv, WsInv, EntriesAreCalls, Entries, HelloIsFirst
<1>4. h \in Caller
  BY <1>2, <1>3 DEF Waiter
<1>5. call' = [call EXCEPT ![h] = IF call[h] = "waiting" THEN "idle" ELSE call[h]]
  BY <1>1 DEF Deliver
<1> QED
  BY <1>1, <1>2, <1>3, <1>4, <1>5

\* A block that arrives is read at once by the first that waits, or is buffered.
LEMMA BlockArrivesInv == ASSUME ClientInv, BlockArrives, WsInv' PROVE ClientInv'
<1>0. /\ phase = "connected" /\ listening /\ received < MaxFrames /\ received' = received + 1
      /\ Deliver(received') /\ UNCHANGED batches
      /\ op \in [Caller -> {"unused", "running", "waiting", "ok", "err", "timeout", "failed"}]
      /\ pending \in Seq(Transmission) /\ outbox \subseteq Transmission
      /\ block \in Seq(Seq(Transmission)) /\ Len(block) = received /\ received \in Nat
      /\ frames \in Seq(Frame) /\ waiters \in Seq(Waiter)
      /\ call \in [Waiter -> {"idle", "waiting", "gone"}]
  BY DEF BlockArrives, FrameArrives, ClientInv, TypeOK, WsTypeOK
<1>1. PICK txs \in Seq(Transmission) :
        /\ Distinct(txs) /\ Items(txs) \subseteq outbox /\ outbox' = outbox \ Items(txs)
        /\ Items(txs) \cap (Items(pending) \cup Taken) = {}
        /\ block' \in Seq(Seq(Transmission)) /\ Len(block') = Len(block) + 1
        /\ \A i \in 1 .. Len(block) : block'[i] = block[i]
        /\ block'[Len(block) + 1] = txs
        /\ IF waiters # <<>> /\ call[Head(waiters)] = "waiting"
           THEN ProcessBlock(Head(waiters), txs)
           ELSE UNCHANGED <<op, pending, got>>
  BY BlockSent
<1>2. \A i \in 1 .. Len(block') : i \in 1 .. Len(block) \/ (i = Len(block) + 1 /\ i \notin 1 .. Len(block))
  BY <1>0, <1>1
<1>3. \A i \in 1 .. Len(block) : Items(block[i]) \cap outbox = {}
  BY DEF ClientInv, SentOnce
<1>4. Read \subseteq Read' /\ (waiters # <<>> => Read \cup Items(txs) \subseteq Read')
  <2>1. Read = UNION {Items(block[i]) : i \in {j \in 1 .. Len(block) : j \notin Items(frames)}}
    BY DEF Read, Items
  <2>2. Read' = UNION {Items(block'[i]) : i \in {j \in 1 .. Len(block') : j \notin Items(frames')}}
    BY DEF Read, Items
  <2>3. \A i \in 1 .. Len(block) : i \in 1 .. Len(block') /\ i # Len(block) + 1
    BY <1>0, <1>1
  <2>4. Len(block) + 1 \in 1 .. Len(block')
    BY <1>0, <1>1
  <2>5. CASE waiters = <<>>
    <3>1. frames' = Append(frames, received + 1) /\ received + 1 \in Frame
      BY <1>0, <2>5, CallerAssumption DEF Deliver, Frame
    <3>2. Items(frames') = Items(frames) \cup {Len(block) + 1}
      BY <1>0, <3>1, AppendPlaces
    <3> QED
      BY <1>1, <2>1, <2>2, <2>3, <2>5, <3>2
  <2>6. CASE waiters # <<>>
    <3>1. frames' = <<>> /\ frames = <<>>
      BY <1>0, <2>6 DEF Deliver, ClientInv, WsInv, EntriesAreCalls
    <3>2. Items(frames') = {} /\ Items(frames) = {}
      BY <3>1, EmptyPlaces
    <3> QED
      BY <1>1, <2>1, <2>2, <2>3, <2>4, <3>2
  <2> QED
    BY <2>5, <2>6
<1> DEFINE h == Head(waiters)
<1>5. ASSUME waiters # <<>>
      PROVE  /\ h \in Caller /\ call[h] \in {"waiting", "gone"}
             /\ call'[h] # "waiting" /\ \A d \in Waiter \ {h} : call'[d] = call[d]
             /\ call[h] = "gone" => call'[h] = "gone"
  BY <1>5, FirstServed
<1>6. /\ op' \in [Caller -> {"unused", "running", "waiting", "ok", "err", "timeout", "failed"}]
      /\ \A d \in Caller : op'[d] = "unused" => op[d] = "unused"
      /\ got' \in [Caller -> Transmission \cup {Nothing}]
      /\ pending' \in Seq(Transmission) /\ Len(pending') <= MaxPending
      /\ KeptOnce' /\ WaitsBelow'
  <2>1. CASE waiters # <<>> /\ call[h] = "waiting"
    <3>1. ProcessBlock(h, txs) /\ h \in Caller
      BY <1>1, <1>5, <2>1
    <3> HIDE DEF h
    <3>2. /\ op' \in [Caller -> {"unused", "running", "waiting", "ok", "err", "timeout", "failed"}]
          /\ op'[h] \in {"running", "ok", "err"} /\ \A d \in Caller \ {h} : op'[d] = op[d]
          /\ got' \in [Caller -> Transmission \cup {Nothing}]
          /\ pending' \in Seq(Transmission) /\ Len(pending') <= MaxPending
          /\ Items(pending') \cup Taken' \subseteq Items(pending) \cup Taken \cup Items(txs)
          /\ Distinct(pending') /\ Items(pending') \cap Taken' = {}
          /\ \A d, e \in Caller : (d # e /\ got'[d] # Nothing) => got'[d] # got'[e]
      BY <1>1, <3>1, Processed
    <3>3. KeptOnce'
      BY <1>4, <2>1, <3>2 DEF ClientInv, KeptOnce
    <3>4. WaitsBelow'
      BY <1>5, <2>1, <3>1, <3>2 DEF ClientInv, WaitsBelow, Waiter
    <3> QED
      BY <3>1, <3>2, <3>3, <3>4
  <2>2. CASE ~(waiters # <<>> /\ call[h] = "waiting")
    <3>1. UNCHANGED <<op, pending, got>>
      BY <1>1, <2>2
    <3>2. \A d \in Caller : call'[d] = "waiting" <=> call[d] = "waiting"
      <4>1. CASE waiters = <<>>
        BY <1>0, <4>1 DEF Deliver
      <4>2. CASE waiters # <<>>
        BY <1>5, <2>2, <4>2 DEF Waiter
      <4> QED
        BY <4>1, <4>2
    <3>3. KeptOnce'
      BY <1>4, <3>1 DEF ClientInv, KeptOnce, Taken
    <3>4. WaitsBelow'
      BY <3>1, <3>2 DEF ClientInv, WaitsBelow
    <3> QED
      BY <1>0, <3>1, <3>3, <3>4 DEF ClientInv, TypeOK
  <2> QED
    BY <2>1, <2>2
<1>7. TypeOK'
  <2>1. batches' \in [Caller -> 0 .. MaxBatches] /\ outbox' \subseteq Transmission
    BY <1>0, <1>1 DEF ClientInv, TypeOK
  <2> QED
    BY <1>0, <1>1, <1>6, <2>1 DEF TypeOK, WsInv
<1>8. SentOnce'
  <2>1. \A i \in 1 .. Len(block') : Distinct(block'[i]) /\ Items(block'[i]) \cap outbox' = {}
    BY <1>1, <1>2 DEF ClientInv, SentOnce
  <2>2. \A i, j \in 1 .. Len(block') : i # j => Items(block'[i]) \cap Items(block'[j]) = {}
    BY <1>1, <1>2, <1>3 DEF ClientInv, SentOnce
  <2>3. ASSUME NEW d \in Cmd, op'[d] = "unused", NEW t \in {"OK", "ERR"}
        PROVE  /\ Answer(d, t) \notin outbox'
               /\ \A i \in 1 .. Len(block') : Answer(d, t) \notin Items(block'[i])
    <3>1. op[d] = "unused"
      BY <1>6, <2>3, ClientAssumption
    <3> QED
      BY <1>1, <1>2, <3>1 DEF ClientInv, SentOnce
  <2> QED
    BY <2>1, <2>2, <2>3 DEF SentOnce
<1> QED
  BY <1>6, <1>7, <1>8 DEF ClientInv

LEMMA ClientStepInv == ASSUME ClientInv, [ClientNext]_allVars PROVE ClientInv'
<1>1. CASE UNCHANGED allVars
  <2>1. UNCHANGED wsVars /\ UNCHANGED <<frames, call, received, op, batches, pending, outbox, block, got>>
    BY <1>1 DEF allVars, wsVars, clientVars
  <2>2. WsInv'
    BY <2>1, WsStepInv DEF ClientInv
  <2> QED
    BY <2>1, <2>2, SamePlaces DEF ClientInv, WsInv, TypeOK, SentOnce, WaitsBelow
<1>2. CASE ClientNext
  <2>1. WsInv'
    BY <1>2, ClientIsAbove, WsStepInv DEF ClientInv
  <2> QED
    BY <1>2, <2>1, ConnectingInv, BlockArrivesInv, DisconnectInv, StartInv, LoopInv, ExpireInv
    DEF ClientNext
<1> QED
  BY <1>1, <1>2

-----------------------------------------------------------------------------
(* What the runs check.                                                    *)

\* ClientInv, of every reachable state.
THEOREM ClientInvariant == ClientSpec => []ClientInv
<1>1. ClientInv /\ [ClientNext]_allVars => ClientInv'
  BY ClientStepInv
<1> QED
  BY ClientInitInv, <1>1, PTL DEF ClientSpec

\* Every variable keeps its type: the buffer of the client keeps to its limit, and
\* no operation asks for more blocks than it may.
THEOREM ClientTypes == ClientSpec => []TypeOK
<1>1. ClientInv => TypeOK
  BY DEF ClientInv
<1> QED
  BY ClientInvariant, <1>1, PTL

\* However blocks, timeouts, closes and operations interleave, nothing that the
\* broker sent is had twice: it is in a buffered frame, or among the pending
\* transmissions, once, or was the outcome of one operation.
THEOREM NothingTwice == ClientSpec => []OnePlace
<1>1. ASSUME ClientInv PROVE OnePlace
  <2>1. InFrames \cap Read = {}
    BY <1>1, BufferedAreUnread
  <2> QED
    BY <1>1, <2>1 DEF ClientInv, KeptOnce, OnePlace, Distinct
<1> QED
  BY ClientInvariant, <1>1, PTL

\* Entries are counted: the callers that wait have one each.
LEMMA OneEntry ==
  ASSUME WsInv, NEW w \in Waiter, call[w] = "waiting"
  PROVE  \E i \in 1 .. Len(waiters) : /\ waiters[i] = w
                                      /\ {j \in 1 .. Len(waiters) : waiters[j] = w} = {i}
                                      /\ \A j \in 1 .. Len(waiters) : waiters[j] = w => j = i
<1>1. PICK i \in 1 .. Len(waiters) : waiters[i] = w
  BY DEF WsInv, EntriesAreCalls, Entries, Items
<1>2. \A j \in 1 .. Len(waiters) : waiters[j] = w => j = i
  BY <1>1 DEF WsInv, EntriesAreCalls, Distinct
<1> QED
  BY <1>1, <1>2

LEMMA WsNobodyForgotten == WsInv => NobodyForgotten
<1> SUFFICES ASSUME WsInv PROVE NobodyForgotten
  OBVIOUS
<1>1. \A w \in Waiter : call[w] = "waiting" =>
        ~closeError /\ \E i \in 1 .. Len(waiters) : /\ waiters[i] = w
                                                    /\ \A j \in 1 .. Len(waiters) : waiters[j] = w => j = i
  BY OneEntry DEF WsInv, EntriesAreCalls
<1> QED
  BY <1>1 DEF NobodyForgotten, WsInv, EntriesAreCalls

\* Whoever waits, in the transport or in the client, has one entry in the queue,
\* for the next frame or error, and frames are not buffered meanwhile.
THEOREM NobodyWaitsInVain == ClientSpec => []NobodyLeftWaiting
<1>1. ASSUME ClientInv PROVE WaitingIsReachable
  <2> SUFFICES ASSUME NEW c \in Caller, op[c] = "waiting"
               PROVE  ~closeError /\ Cardinality({i \in 1 .. Len(waiters) : waiters[i] = c}) = 1
    BY DEF WaitingIsReachable
  <2>1. c \in Waiter /\ call[c] = "waiting" /\ WsInv
    BY <1>1 DEF ClientInv, WaitsBelow, Waiter
  <2>2. \E i \in 1 .. Len(waiters) : {j \in 1 .. Len(waiters) : waiters[j] = c} = {i}
    BY <2>1, OneEntry
  <2> QED
    BY <2>1, <2>2, FS_Singleton DEF WsInv, EntriesAreCalls
<1>2. ASSUME ClientInv PROVE NobodyForgotten
  BY <1>2, WsNobodyForgotten DEF ClientInv
<1>3. ClientInv => NobodyLeftWaiting
  BY <1>1, <1>2 DEF NobodyLeftWaiting
<1> QED
  BY ClientInvariant, <1>3, PTL

LEMMA WsFramesInOrder == WsInv => FramesInOrder
<1> SUFFICES ASSUME WsInv, listening PROVE resolved \o frames = [i \in 1 .. received |-> i]
  BY DEF FramesInOrder
<1>1. /\ resolved \in Seq(Nat) /\ frames \in Seq(Nat) /\ received \in Nat
      /\ Len(resolved) \in Nat /\ Len(frames) \in Nat
  <2>1. resolved \in Seq(Frame) /\ frames \in Seq(Frame) /\ received \in Nat /\ Frame \subseteq Nat
    BY CallerAssumption DEF WsInv, WsTypeOK, Frame
  <2> QED
    BY <2>1, SeqMonotonic, LenProperties
<1>2. /\ received = Len(resolved) + Len(frames)
      /\ \A i \in 1 .. Len(resolved) : resolved[i] = i
      /\ \A k \in 1 .. Len(frames) : frames[k] = Len(resolved) + k
  BY DEF WsInv, Numbered
<1>3. /\ resolved \o frames \in Seq(Nat) /\ Len(resolved \o frames) = received
      /\ \A i \in 1 .. received : (resolved \o frames)[i]
           = IF i <= Len(resolved) THEN resolved[i] ELSE frames[i - Len(resolved)]
  BY <1>1, <1>2, ConcatProperties
<1>4. \A i \in 1 .. received : (resolved \o frames)[i] = i
  <2> SUFFICES ASSUME NEW i \in 1 .. received PROVE (resolved \o frames)[i] = i
    OBVIOUS
  <2>1. CASE i <= Len(resolved)
    BY <1>1, <1>2, <1>3, <2>1
  <2>2. CASE ~(i <= Len(resolved))
    <3>1. i - Len(resolved) \in 1 .. Len(frames) /\ Len(resolved) + (i - Len(resolved)) = i
      BY <1>1, <1>2, <2>2
    <3> QED
      BY <1>2, <1>3, <2>2, <3>1
  <2> QED
    BY <2>1, <2>2
<1>5. /\ [i \in 1 .. received |-> i] \in Seq(Nat) /\ Len([i \in 1 .. received |-> i]) = received
      /\ \A j \in 1 .. received : [i \in 1 .. received |-> i][j] = j
  BY <1>1
<1> QED
  BY <1>3, <1>4, <1>5, SeqEqual

LEMMA WsLossesAreTimeouts == WsInv => LossesAreTimeouts
<1> SUFFICES ASSUME WsInv PROVE LossesAreTimeouts
  OBVIOUS
<1> DEFINE I == {i \in 1 .. Len(waiters) : call[waiters[i]] = "gone"}
           E == {w \in Waiter : call[w] = "gone" /\ w \in Entries}
           G == {w \in Waiter : call[w] = "gone"}
           f == [i \in I |-> waiters[i]]
<1>1. E \in SUBSET Waiter /\ G \in SUBSET Waiter
  OBVIOUS
<1>2. IsFiniteSet(E) /\ IsFiniteSet(G)
  BY <1>1, WaitersFinite, FS_Subset
<1>3. Cardinality(I) <= Cardinality(E) /\ IsFiniteSet(I)
  <2>1. \A i \in I : waiters[i] \in E
    BY ElementOfSeq DEF WsInv, WsTypeOK, Entries, Items
  <2>2. f \in [I -> E] /\ \A i, j \in I : f[i] = f[j] => i = j
    BY <2>1 DEF WsInv, EntriesAreCalls, Distinct
  <2>3. f \in Injection(I, E)
    BY <2>2 DEF Injection, IsInjective
  <2> HIDE DEF I, E, f
  <2> QED
    BY <1>2, <2>3, FS_Injection
<1>4. Cardinality(E) + Cardinality(GoneWithout) = Cardinality(G)
  <2>1. G = E \cup GoneWithout /\ E \cap GoneWithout = {}
    BY DEF GoneWithout
  <2> HIDE DEF E, G
  <2>2. /\ Cardinality(E \cup GoneWithout)
             = Cardinality(E) + Cardinality(GoneWithout) - Cardinality(E \cap GoneWithout)
    BY <1>2, WaitersFinite, FS_Union
  <2>3. Cardinality(E \cap GoneWithout) = 0
    BY <2>1, FS_EmptySet
  <2> QED
    BY <1>2, <2>1, <2>2, <2>3, WaitersFinite, FS_CardinalityType
<1>5. /\ Cardinality(lost) <= Cardinality(GoneWithout)
      /\ Cardinality(lost) \in Nat /\ Cardinality(GoneWithout) \in Nat /\ Cardinality(E) \in Nat
      /\ Cardinality(I) \in Nat /\ Cardinality(G) \in Nat
  BY <1>2, <1>3, WaitersFinite, FS_CardinalityType DEF WsInv, LossesPaid
<1>6. Cardinality(lost) + Cardinality(I) <= Cardinality(G)
  <2> HIDE DEF I, E, G
  <2> QED
    BY <1>3, <1>4, <1>5
<1> QED
  BY <1>6 DEF LossesAreTimeouts

\* Frames reach the operations in the order of their arrival, and each that reaches
\* none is paid for by a receive that timed out.
THEOREM EveryFrameCounts == ClientSpec => []FramesAccounted
<1>1. ClientInv => FramesAccounted
  BY WsFramesInOrder, WsLossesAreTimeouts DEF ClientInv, FramesAccounted
<1> QED
  BY ClientInvariant, <1>1, PTL

-----------------------------------------------------------------------------
(* One operation at a time, over a connection that stays up.               *)

\* There is room for every message that is pushed, and for every block.
Roomy == MaxActive = 1 /\ MaxFrames <= MaxBatches /\ IsFiniteSet(Push) /\ Cardinality(Push) <= MaxPending

Calm ==
  /\ ~closeError
  /\ phase = "hello" => listening /\ socket = "open"
  /\ phase = "connected" => listening /\ socket = "open" /\ Len(resolved) > 0
  /\ phase # "connected" => /\ frames = <<>> /\ \A c \in Caller : op[c] = "unused"
                            /\ \A i \in 1 .. Len(block) : block[i] = <<>>
  /\ \A c \in Caller :
       /\ call[c] # "gone" /\ op[c] \in {"unused", "running", "waiting", "ok", "err"}
       /\ op[c] = "unused" => batches[c] = 0
       /\ op[c] = "running" => batches[c] < Len(resolved)
       /\ op[c] = "waiting" => batches[c] <= Len(resolved)

\* What an operation ends with is its own: an answer that the broker has still to
\* send is that of the operation which is under way.
OneByOne ==
  /\ \A c, d \in Active : c = d
  /\ \A c \in Caller : got[c] # Nothing => op[c] \in {"ok", "err"}
  /\ \A c \in Caller : op[c] = "err" => got[c].of = c
  /\ \A tx \in outbox : tx.type # "MSG" =>
       /\ tx.of \in Active
       /\ \A other \in outbox : other.type # "MSG" => other = tx
  /\ \A tx \in InFrames \cup Items(pending) : tx.type = "MSG"

Kept ==
  \A i \in 1 .. Len(block) : \A j \in 1 .. Len(block[i]) :
    \/ block[i][j] \in InFrames \cup Items(pending) \cup Taken
    \/ \E k \in 1 .. j - 1 : block[i][k] \in Taken

CalmInv == ClientInv /\ Calm /\ OneByOne /\ Kept

LEMMA Kinds ==
  \A tx \in Transmission :
    \/ tx.type = "MSG" /\ tx.of \in Push /\ tx = Message(tx.of)
    \/ tx.type \in {"OK", "ERR"} /\ tx.type # "MSG" /\ tx.of \in Cmd /\ tx = Answer(tx.of, tx.type)
  BY DEF Transmission, Answer, Message

\* Different messages fit into the buffer.
LEMMA Fits ==
  ASSUME Roomy, NEW s \in Seq(Transmission), Distinct(s), \A tx \in Items(s) : tx.type = "MSG"
  PROVE  Len(s) <= MaxPending
<1>1. PICK n \in Nat : n = Len(s)
  BY LenProperties
<1>2. \A i \in 1 .. n : s[i].of \in Push /\ s[i] = Message(s[i].of)
  BY <1>1, Places, Kinds
<1> DEFINE f == [i \in 1 .. n |-> s[i].of]
<1>3. f \in [1 .. n -> Push]
  BY <1>2
<1>4. IsFiniteSet(1 .. n) /\ Cardinality(1 .. n) = n
  BY FS_Interval
<1>5. Cardinality(Push) \in Nat /\ MaxPending \in Nat
  BY FS_CardinalityType, ClientAssumption DEF Roomy
<1>6. ASSUME Cardinality(Push) < Cardinality(1 .. n) PROVE FALSE
  <2>1. PICK x \in 1 .. n, y \in 1 .. n : x # y /\ f[x] = f[y]
    <3>1. IsFiniteSet(Push)
      BY DEF Roomy
    <3> HIDE DEF f
    <3>2. \E x, y \in 1 .. n : x # y /\ f[x] = f[y]
      BY <1>3, <1>4, <1>6, <3>1, FS_PigeonHole
    <3> QED
      BY <3>2
  <2>2. s[x].of = s[y].of
    BY <2>1
  <2>3. s[x] = s[y]
    BY <1>2, <2>2
  <2> QED
    BY <1>1, <2>1, <2>3 DEF Distinct
<1> QED
  BY <1>1, <1>4, <1>5, <1>6 DEF Roomy

\* Nothing is dropped for want of room.
LEMMA RoomForAll ==
  ASSUME Roomy, pending \in Seq(Transmission), Distinct(pending), \A tx \in Items(pending) : tx.type = "MSG",
         NEW txs \in Seq(Transmission), Distinct(txs), \A tx \in Items(txs) : tx.type = "MSG",
         Items(pending) \cap Items(txs) = {}
  PROVE  Items(Remembered(txs)) = Items(pending) \cup Items(txs)
<1> DEFINE all == pending \o txs
<1>1. all \in Seq(Transmission) /\ Items(all) = Items(pending) \cup Items(txs) /\ Distinct(all)
  BY ConcatPlaces
<1>2. Remembered(txs) = IF Len(all) > MaxPending
                        THEN SubSeq(all, Len(all) - MaxPending + 1, Len(all)) ELSE all
  BY DEF Remembered
<1> HIDE DEF all
<1>3. Len(all) <= MaxPending /\ Len(all) \in Nat /\ MaxPending \in Nat
  BY <1>1, Fits, LenProperties, ClientAssumption
<1> QED
  BY <1>1, <1>2, <1>3

\* An operation reads a block with no answer but its own.
LEMMA ReadsBlock ==
  ASSUME ClientInv, OneByOne, Roomy, NEW c \in Caller, NEW txs \in Seq(Transmission), Distinct(txs),
         Items(txs) \cap (Items(pending) \cup Taken) = {}, ProcessBlock(c, txs), got[c] = Nothing,
         \A tx \in Items(txs) : tx.type # "MSG" => tx.of = c
  PROVE  /\ Items(pending) \subseteq Items(pending') /\ Taken \subseteq Taken'
         /\ \A j \in 1 .. Len(txs) : \/ txs[j] \in Items(pending') \cup Taken'
                                     \/ \E k \in 1 .. j - 1 : txs[k] \in Taken'
         /\ \A tx \in Items(pending') : tx.type = "MSG"
         /\ op'[c] = "err" => got'[c].of = c
         /\ op'[c] = "running" => \A tx \in Items(txs) : tx.type = "MSG"
         /\ got'[c] # Nothing => op'[c] \in {"ok", "err"}
         /\ \A d \in Caller \ {c} : op'[d] = op[d] /\ got'[d] = got[d]
         /\ op'[c] \in {"running", "ok", "err"}
         /\ (c \in Cmd /\ op'[c] # "running") => \E tx \in Items(txs) : tx.type # "MSG"
<1> DEFINE ending == {i \in 1 .. Len(txs) : Ends(c, txs[i])}
           first  == CHOOSE i \in ending : \A j \in ending : i <= j
<1>0. /\ op \in [Caller -> {"unused", "running", "waiting", "ok", "err", "timeout", "failed"}]
      /\ got \in [Caller -> Transmission \cup {Nothing}]
      /\ pending \in Seq(Transmission) /\ Distinct(pending)
      /\ \A tx \in Items(pending) : tx.type = "MSG"
      /\ Len(txs) \in Nat /\ Caller = Cmd \cup Rcv /\ Cmd \cap Rcv = {}
  BY LenProperties, ClientAssumption DEF ClientInv, TypeOK, KeptOnce, OneByOne
<1>1. \A i \in 1 .. Len(txs) : txs[i] \in Items(txs) /\ txs[i] \in Transmission
  BY Places
<1>2. \A i \in 1 .. Len(txs) : i \notin ending => txs[i].type = "MSG"
  <2> SUFFICES ASSUME NEW i \in 1 .. Len(txs), txs[i].type # "MSG" PROVE Ends(c, txs[i])
    OBVIOUS
  <2>1. txs[i].of = c /\ c \in Cmd
    BY <1>1, Kinds
  <2> QED
    BY <2>1 DEF Ends, IsAnswer
<1>3. CASE ending = {}
  <2>1. /\ pending' = Remembered(txs) /\ op' = [op EXCEPT ![c] = "running"] /\ UNCHANGED got
    BY <1>3 DEF ProcessBlock
  <2>2. \A tx \in Items(txs) : tx.type = "MSG"
    BY <1>2, <1>3 DEF Items
  <2>3. Items(pending') = Items(pending) \cup Items(txs)
    BY <1>0, <2>1, <2>2, RoomForAll
  <2>4. Taken' = Taken
    BY <2>1 DEF Taken
  <2>5. op'[c] = "running" /\ \A d \in Caller \ {c} : op'[d] = op[d]
    BY <1>0, <2>1
  <2> HIDE DEF ending, first
  <2> QED
    BY <1>0, <1>1, <2>1, <2>2, <2>3, <2>4, <2>5
<1>4. CASE ending # {}
  <2> DEFINE before == SubSeq(txs, 1, first - 1)
             tx     == txs[first]
  <2>1. ending \subseteq Nat
    OBVIOUS
  <2>2. first \in ending /\ \A j \in ending : first <= j
    <3> HIDE DEF ending
    <3> QED
      BY <1>4, <2>1, FirstIn
  <2>3. pending' = Remembered(before) /\ EndWith(c, tx)
    BY <1>4 DEF ProcessBlock
  <2>4. /\ first \in 1 .. Len(txs) /\ first - 1 \in Nat /\ first - 1 <= Len(txs)
        /\ \A i \in 1 .. first - 1 : i \in 1 .. Len(txs) /\ i \notin ending
    <3>1. \A i \in ending : i \in 1 .. Len(txs)
      OBVIOUS
    <3> HIDE DEF ending, first
    <3> QED
      BY <1>0, <2>2, <3>1
  <2>5. \A i \in 1 .. first - 1 : txs[i].type = "MSG" /\ txs[i] \in Items(txs)
    BY <1>1, <1>2, <2>4
  <2> HIDE DEF ending, first
  <2>6. /\ before \in Seq(Transmission) /\ Distinct(before)
        /\ Items(before) = {txs[i] : i \in 1 .. first - 1}
    BY <1>0, <2>4, FirstPlaces
  <2>7. Items(before) \subseteq Items(txs) /\ \A x \in Items(before) : x.type = "MSG"
    BY <2>5, <2>6
  <2>8. tx \in Items(txs) /\ tx \in Transmission
    BY <1>1, <2>4
  <2> HIDE DEF before
  <2>9. Items(pending') = Items(pending) \cup Items(before)
    <3>1. Items(pending) \cap Items(before) = {}
      BY <2>7
    <3> QED
      BY <1>0, <2>3, <2>6, <2>7, <3>1, RoomForAll
  <2>10. /\ op'[c] = (IF tx.type = "ERR" THEN "err" ELSE "ok") /\ got'[c] = tx
         /\ \A d \in Caller \ {c} : op'[d] = op[d] /\ got'[d] = got[d]
    BY <1>0, <2>3 DEF EndWith
  <2>11. Taken \subseteq Taken' /\ tx \in Taken'
    <3>1. tx # Nothing
      BY <2>8, Kinds DEF Nothing
    <3>2. \A d \in Caller : got[d] # Nothing => d # c
      OBVIOUS
    <3> QED
      BY <2>10, <3>1, <3>2 DEF Taken
  <2>12. \A j \in 1 .. Len(txs) : \/ txs[j] \in Items(pending') \cup Taken'
                                  \/ \E k \in 1 .. j - 1 : txs[k] \in Taken'
    <3> SUFFICES ASSUME NEW j \in 1 .. Len(txs)
                 PROVE  \/ txs[j] \in Items(pending') \cup Taken'
                        \/ \E k \in 1 .. j - 1 : txs[k] \in Taken'
      OBVIOUS
    <3>1. CASE j < first
      <4>1. j \in 1 .. first - 1
        BY <1>0, <2>4, <3>1
      <4> QED
        BY <2>6, <2>9, <4>1
    <3>2. CASE j = first
      BY <2>11, <3>2
    <3>3. CASE j > first
      <4>1. first \in 1 .. j - 1
        BY <1>0, <2>4, <3>3
      <4> QED
        BY <2>11, <4>1
    <3> QED
      BY <1>0, <2>4, <3>1, <3>2, <3>3
  <2>13. /\ tx.type = "ERR" => tx.of = c
         /\ c \in Cmd => tx.type # "MSG"
    <3>1. Ends(c, tx)
      BY <2>2 DEF ending
    <3> HIDE DEF tx
    <3> QED
      BY <2>8, <3>1 DEF Ends, IsAnswer
  <2> HIDE DEF tx
  <2>14. op'[c] \in {"ok", "err"} /\ (op'[c] = "err" => got'[c].of = c)
    BY <2>10, <2>13
  <2>15. (c \in Cmd /\ op'[c] # "running") => \E x \in Items(txs) : x.type # "MSG"
    BY <2>8, <2>13
  <2>16. \A x \in Items(pending') : x.type = "MSG"
    BY <1>0, <2>7, <2>9
  <2> QED
    BY <2>9, <2>10, <2>11, <2>12, <2>14, <2>15, <2>16
<1> QED
  BY <1>3, <1>4

LEMMA KeptGrows ==
  ASSUME Kept, block' = block, Taken \subseteq Taken',
         InFrames \cup Items(pending) \cup Taken \subseteq InFrames' \cup Items(pending') \cup Taken'
  PROVE  Kept'
<1> DEFINE Somewhere == InFrames \cup Items(pending) \cup Taken
<1>1. Somewhere \subseteq Somewhere'
  OBVIOUS
<1>2. \A i \in 1 .. Len(block) : \A j \in 1 .. Len(block[i]) :
        block[i][j] \in Somewhere \/ \E k \in 1 .. j - 1 : block[i][k] \in Taken
  BY DEF Kept
<1> HIDE DEF Somewhere
<1>3. \A i \in 1 .. Len(block') : \A j \in 1 .. Len(block'[i]) :
        block'[i][j] \in Somewhere' \/ \E k \in 1 .. j - 1 : block'[i][k] \in Taken'
  BY <1>1, <1>2
<1> QED
  BY <1>3 DEF Kept, Somewhere

\* Nothing is under way before the connection is there.
LEMMA ConnectingCalm == ASSUME CalmInv, Connecting PROVE Calm' /\ OneByOne' /\ Kept'
<1>0. /\ UNCHANGED <<op, batches, pending, outbox, got>> /\ block \in Seq(Seq(Transmission))
      /\ call \in [Waiter -> {"idle", "waiting", "gone"}] /\ resolved \in Seq(Frame)
      /\ \A c \in Caller : c \in Waiter /\ c # Connect
  BY CallerAssumption DEF Connecting, CalmInv, ClientInv, WsInv, WsTypeOK, TypeOK, Waiter
<1>1. /\ phase # "connected"
      /\ HelloArrives => frames = <<>> /\ waiters = <<Connect>>
  BY DEF Connecting, SocketOpens, OpenTimesOut, ReceiveTimesOut, HelloArrives, CalmInv, Calm,
     ClientInv, WsInv, HelloIsFirst
<1>2. /\ frames = <<>> /\ ~closeError /\ \A c \in Caller : op[c] = "unused" /\ batches[c] = 0
      /\ \A i \in 1 .. Len(block) : block[i] = <<>>
  BY <1>1 DEF CalmInv, Calm
<1>3. \/ SocketOpens /\ block' = block
      \/ OpenTimesOut /\ block' = block
      \/ ReceiveTimesOut(Connect) /\ block' = block
      \/ HelloArrives /\ block' = Append(block, <<>>)
  BY DEF Connecting
<1>4. frames' = <<>> /\ ~closeError'
  BY <1>1, <1>2, <1>3 DEF SocketOpens, OpenTimesOut, ReceiveTimesOut, HelloArrives, Deliver
<1>5. \A c \in Caller : call'[c] = call[c]
  <2>1. HelloArrives => Head(waiters) = Connect /\ waiters # <<>>
    BY <1>1
  <2> QED
    BY <1>0, <1>3, <2>1 DEF SocketOpens, OpenTimesOut, ReceiveTimesOut, HelloArrives, Deliver
<1>6. \A i \in 1 .. Len(block') : block'[i] = <<>>
  <2>1. CASE block' = block
    BY <1>2, <2>1
  <2>2. CASE block' = Append(block, <<>>)
    <3>1. /\ Len(block') = Len(block) + 1 /\ Len(block) \in Nat /\ block'[Len(block) + 1] = <<>>
          /\ \A i \in 1 .. Len(block) : block'[i] = block[i]
      BY <1>0, <2>2, AppendProperties, LenProperties, EmptySeq
    <3> QED
      BY <1>2, <3>1
  <2> QED
    BY <1>3, <2>1, <2>2
<1>7. HelloArrives => Len(resolved') > 0
  <2>1. HelloArrives => \E f : resolved' = Append(resolved, f)
    BY <1>1 DEF HelloArrives, Deliver
  <2>2. \A f : Len(Append(resolved, f)) = Len(resolved) + 1 /\ Len(resolved) \in Nat
    BY <1>0, AppendProperties, LenProperties
  <2> QED
    BY <2>1, <2>2
<1>8. Calm'
  <2>1. /\ phase' = "hello" => listening' /\ socket' = "open"
        /\ phase' = "connected" => listening' /\ socket' = "open" /\ Len(resolved') > 0
    BY <1>1, <1>3, <1>7 DEF CalmInv, Calm, SocketOpens, OpenTimesOut, ReceiveTimesOut, HelloArrives
  <2>2. \A c \in Caller : /\ call'[c] # "gone" /\ op'[c] = "unused" /\ batches'[c] = 0
    BY <1>0, <1>2, <1>5 DEF CalmInv, Calm
  <2> QED
    BY <1>4, <1>6, <2>1, <2>2 DEF Calm
<1>9. OneByOne'
  <2>1. InFrames' = {}
    <3>1. Len(frames') = 0
      BY <1>4, EmptySeq
    <3> QED
      BY <3>1 DEF InFrames
  <2>2. Active' = Active /\ Items(pending') = Items(pending)
    BY <1>0 DEF Active, Items
  <2> QED
    BY <1>0, <2>1, <2>2 DEF CalmInv, OneByOne
<1>10. Kept'
  <2>1. \A i \in 1 .. Len(block') : Len(block'[i]) = 0
    BY <1>6, EmptySeq
  <2> QED
    BY <2>1 DEF Kept
<1> QED
  BY <1>8, <1>9, <1>10

LEMMA RemovedKeeps ==
  ASSUME NEW S, NEW s \in Seq(S), NEW i \in 1 .. Len(s)
  PROVE  Items(s) \subseteq Items(RemovedAt(s, i)) \cup {s[i]}
<1> DEFINE a == SubSeq(s, 1, i - 1)
           b == SubSeq(s, i + 1, Len(s))
<1>1. Len(s) \in Nat /\ i - 1 \in Nat /\ i - 1 <= Len(s) /\ i + 1 \in Nat \ {0}
  BY LenProperties
<1>2. a \in Seq(S) /\ Items(a) = {s[k] : k \in 1 .. i - 1}
  BY <1>1, FirstPlaces
<1>3. b \in Seq(S) /\ Items(b) = {s[k] : k \in i + 1 .. Len(s)}
  BY <1>1, SubPlaces
<1>4. \A k \in 1 .. Len(s) : k \in 1 .. i - 1 \/ k = i \/ k \in i + 1 .. Len(s)
  BY <1>1
<1> HIDE DEF a, b
<1>5. Items(a \o b) = Items(a) \cup Items(b)
  BY <1>2, <1>3, ConcatPlaces
<1>6. RemovedAt(s, i) = a \o b
  BY DEF RemovedAt, a, b
<1>7. Items(s) \subseteq Items(a) \cup Items(b) \cup {s[i]}
  BY <1>2, <1>3, <1>4 DEF Items
<1> QED
  BY <1>5, <1>6, <1>7
\* What an operation ends with is had, and what others had they have still.
LEMMA TakenGrows ==
  ASSUME NEW c \in Caller, got \in [Caller -> Transmission \cup {Nothing}], got[c] = Nothing,
         NEW tx \in Transmission, EndWith(c, tx)
  PROVE  /\ tx \in Taken' /\ Taken \subseteq Taken' /\ got'[c] = tx
         /\ \A d \in Caller \ {c} : got'[d] = got[d]
<1>1. got'[c] = tx /\ \A d \in Caller \ {c} : got'[d] = got[d]
  BY DEF EndWith
<1>2. tx # Nothing
  BY Kinds DEF Nothing
<1>3. \A d \in Caller : got[d] # Nothing => d # c
  OBVIOUS
<1> QED
  BY <1>1, <1>2, <1>3 DEF Taken

\* Nobody else is at work when an operation starts, and no answer is to be sent.
LEMMA StartCalm ==
  ASSUME Roomy, CalmInv, NEW c \in Caller, Start(c) PROVE Calm' /\ OneByOne' /\ Kept'
<1>0. /\ UNCHANGED <<wsVars, batches, block>> /\ phase = "connected" /\ op[c] = "unused"
      /\ UNCHANGED <<phase, socket, listening, frames, closeError, call, resolved>>
      /\ op \in [Caller -> {"unused", "running", "waiting", "ok", "err", "timeout", "failed"}]
      /\ pending \in Seq(Transmission) /\ outbox \subseteq Transmission
      /\ got \in [Caller -> Transmission \cup {Nothing}] /\ Caller = Cmd \cup Rcv /\ Cmd \cap Rcv = {}
      /\ resolved \in Seq(Frame) /\ Len(resolved) \in Nat
  BY ClientAssumption, LenProperties DEF Start, CalmInv, ClientInv, TypeOK, WsTypeOK, wsVars
<1>1. Active = {}
  <2>1. IsFiniteSet(Active) /\ Cardinality(Active) \in Nat
    <3>1. IsFiniteSet(Caller) /\ Active \subseteq Caller
      BY CallerAssumption DEF Active
    <3> QED
      BY <3>1, FS_Subset, FS_CardinalityType
  <2>2. Cardinality(Active) < 1
    BY DEF Start, Roomy
  <2> QED
    BY <2>1, <2>2, FS_EmptySet
<1>2. /\ socket = "open" /\ got[c] = Nothing /\ \A tx \in outbox : tx.type = "MSG"
      /\ \A i \in 1 .. Len(pending) : pending[i].type = "MSG"
  <2>1. socket = "open"
    BY <1>0 DEF CalmInv, Calm
  <2>2. got[c] = Nothing
    BY <1>0 DEF CalmInv, OneByOne
  <2>3. \A tx \in outbox : tx.type = "MSG"
    BY <1>1 DEF CalmInv, OneByOne
  <2> QED
    BY <2>1, <2>2, <2>3 DEF CalmInv, OneByOne, Items
<1>3. \/ outbox' = outbox /\ c \in Rcv
      \/ c \in Cmd /\ \E t \in {"OK", "ERR"} : outbox' = outbox \cup {Answer(c, t)}
  BY <1>2 DEF Start
<1> DEFINE Outcome ==
      /\ op'[c] \in {"running", "ok", "err"} /\ \A d \in Caller \ {c} : op'[d] = op[d] /\ got'[d] = got[d]
      /\ Taken \subseteq Taken' /\ Items(pending) \subseteq Items(pending') \cup Taken'
      /\ \A tx \in Items(pending') : tx.type = "MSG"
      /\ got'[c] # Nothing => op'[c] \in {"ok", "err"}
      /\ op'[c] # "err" /\ (c \in Cmd => op'[c] = "running")
<1>4. ASSUME op' = [op EXCEPT ![c] = "running"], UNCHANGED <<pending, got>> PROVE Outcome
  <2>1. Taken' = Taken /\ Items(pending') = Items(pending)
    BY <1>4 DEF Taken, Items
  <2>2. op'[c] = "running" /\ \A d \in Caller \ {c} : op'[d] = op[d] /\ got'[d] = got[d]
    BY <1>0, <1>4
  <2>3. \A tx \in Items(pending') : tx.type = "MSG"
    BY <2>1 DEF CalmInv, OneByOne
  <2> QED
    BY <1>2, <1>4, <2>1, <2>2, <2>3
<1>5. ASSUME NEW i \in 1 .. Len(pending), EndWith(c, pending[i]), pending' = RemovedAt(pending, i), c \in Rcv
      PROVE  Outcome
  <2> DEFINE tx == pending[i]
  <2>1. tx \in Transmission /\ tx.type = "MSG"
    BY <1>0, <1>2, Places
  <2>2. Items(pending') \subseteq Items(pending) /\ Items(pending) \subseteq Items(pending') \cup {tx}
    BY <1>0, <1>5, RemovedPlaces, RemovedKeeps
  <2>3. EndWith(c, tx)
    BY <1>5
  <2> HIDE DEF tx
  <2>4. /\ tx \in Taken' /\ Taken \subseteq Taken' /\ \A d \in Caller \ {c} : got'[d] = got[d]
    BY <1>0, <1>2, <2>1, <2>3, TakenGrows
  <2>5. op'[c] = "ok" /\ \A d \in Caller \ {c} : op'[d] = op[d]
    BY <1>0, <2>1, <2>3 DEF EndWith
  <2>6. \A x \in Items(pending') : x.type = "MSG"
    BY <2>2 DEF CalmInv, OneByOne
  <2>7. c \notin Cmd
    BY <1>0, <1>5
  <2> QED
    BY <2>2, <2>4, <2>5, <2>6, <2>7
<1>6. Outcome
  <2> DEFINE found == {i \in 1 .. Len(pending) : TakesPending(c, pending[i])}
             i     == CHOOSE i \in found : \A j \in found : i <= j
  <2>1. CASE found = {}
    BY <2>1, <1>2, <1>4 DEF Start
  <2>2. CASE found # {}
    <3>1. EndWith(c, pending[i]) /\ pending' = RemovedAt(pending, i)
      BY <1>2, <2>2 DEF Start
    <3>2. i \in found
      <4>1. found \subseteq Nat
        OBVIOUS
      <4> HIDE DEF found
      <4> QED
        BY <2>2, <4>1, FirstIn
    <3>3. i \in 1 .. Len(pending) /\ TakesPending(c, pending[i])
      BY <3>2
    <3> HIDE DEF i
    <3>4. c \in Rcv
      BY <1>0, <1>2, <3>3 DEF TakesPending, IsAnswer
    <3> QED
      BY <1>5, <3>1, <3>3, <3>4
  <2> QED
    BY <2>1, <2>2
<1> HIDE DEF Outcome
<1>7. /\ op'[c] \in {"running", "ok", "err"} /\ \A d \in Caller \ {c} : op'[d] = op[d] /\ got'[d] = got[d]
      /\ Taken \subseteq Taken' /\ Items(pending) \subseteq Items(pending') \cup Taken'
      /\ \A tx \in Items(pending') : tx.type = "MSG"
      /\ got'[c] # Nothing => op'[c] \in {"ok", "err"}
      /\ op'[c] # "err" /\ (c \in Cmd => op'[c] = "running")
  BY <1>6 DEF Outcome
<1>8. InFrames' = InFrames
  BY <1>0 DEF InFrames, Items
<1>9. Calm'
  <2>1. batches'[c] = 0
    BY <1>0 DEF CalmInv, Calm
  <2> QED
    BY <1>0, <1>7, <2>1 DEF CalmInv, Calm
<1>10. OneByOne'
  <2>1. \A d \in Active' : d = c
    BY <1>1, <1>7 DEF Active
  <2>2. \A d \in Caller : (got'[d] # Nothing => op'[d] \in {"ok", "err"}) /\ (op'[d] = "err" => got'[d].of = d)
    BY <1>7 DEF CalmInv, OneByOne
  <2>3. \A tx \in outbox' : tx.type # "MSG" =>
          tx.of \in Active' /\ \A other \in outbox' : other.type # "MSG" => other = tx
    <3>1. CASE outbox' = outbox
      BY <1>2, <3>1
    <3>2. CASE c \in Cmd /\ \E t \in {"OK", "ERR"} : outbox' = outbox \cup {Answer(c, t)}
      <4>1. c \in Active'
        BY <1>7, <3>2 DEF Active
      <4> QED
        BY <1>2, <3>2, <4>1 DEF Answer
    <3> QED
      BY <1>3, <3>1, <3>2
  <2> QED
    BY <1>7, <1>8, <2>1, <2>2, <2>3 DEF CalmInv, OneByOne
<1>11. Kept'
  BY <1>0, <1>7, <1>8, KeptGrows DEF CalmInv
<1> QED
  BY <1>9, <1>10, <1>11
LEMMA FramesHold == InFrames = UNION {Items(block[f]) : f \in Items(frames)}
  BY DEF InFrames, Items

\* Who has still to end has nothing, and is alone.
LEMMA Alone ==
  ASSUME CalmInv, NEW c \in Active
  PROVE  /\ Active = {c} /\ got[c] = Nothing /\ phase = "connected" /\ ~closeError
         /\ listening /\ socket = "open" /\ Len(resolved) > 0
<1>1. c \in Caller /\ op[c] # "unused" /\ op[c] \notin {"ok", "err"}
  BY DEF Active
<1> QED
  BY <1>1 DEF CalmInv, Calm, OneByOne

\* The buffered blocks hold messages; an operation that reads one of them either
\* ends with it or goes on, and a command goes on.
LEMMA LoopCalm ==
  ASSUME Roomy, CalmInv, NEW c \in Caller, Loop(c) PROVE Calm' /\ OneByOne' /\ Kept'
<1>0. /\ op[c] = "running" /\ UNCHANGED <<outbox, block, received>> /\ c \in Waiter /\ c \in Active
      /\ op \in [Caller -> {"unused", "running", "waiting", "ok", "err", "timeout", "failed"}]
      /\ batches \in [Caller -> 0 .. MaxBatches] /\ outbox \subseteq Transmission
      /\ frames \in Seq(Frame) /\ block \in Seq(Seq(Transmission)) /\ resolved \in Seq(Frame)
      /\ call \in [Waiter -> {"idle", "waiting", "gone"}] /\ received \in 0 .. MaxFrames
      /\ Caller = Cmd \cup Rcv /\ Cmd \cap Rcv = {} /\ ClientInv
  BY ClientAssumption DEF Loop, Receive, wsVars, Waiter, CalmInv, ClientInv, TypeOK, WsTypeOK, Active
<1>1. /\ Active = {c} /\ got[c] = Nothing /\ phase = "connected" /\ ~closeError
      /\ listening /\ socket = "open" /\ Len(resolved) > 0
  BY <1>0, Alone
<1>2. batches[c] < Len(resolved) /\ batches[c] # MaxBatches /\ batches[c] \in Nat /\ Len(resolved) \in Nat
  <2>1. batches[c] < Len(resolved)
    BY <1>0 DEF CalmInv, Calm
  <2>2. received = Len(resolved) + Len(frames) /\ Len(resolved) \in Nat /\ Len(frames) \in Nat
    BY <1>0, <1>1, LenProperties DEF ClientInv, WsInv, Numbered
  <2> QED
    BY <1>0, <2>1, <2>2, ClientAssumption, CallerAssumption DEF Roomy
<1>3. /\ batches' = [batches EXCEPT ![c] = batches[c] + 1] /\ ReceiveFrame(c)
      /\ UNCHANGED <<phase, socket, listening, closeError>>
      /\ IF frames # <<>> THEN ProcessBlock(c, block[Head(frames)])
         ELSE /\ op' = [op EXCEPT ![c] = IF closeError THEN "failed" ELSE "waiting"]
              /\ UNCHANGED <<pending, got>>
  BY <1>2 DEF Loop, Receive
<1>4. batches'[c] = batches[c] + 1 /\ \A d \in Caller \ {c} : batches'[d] = batches[d]
  BY <1>0, <1>3
<1>5. CASE frames # <<>>
  <2> DEFINE b == Head(frames)
  <2>1. /\ frames' = Tail(frames) /\ UNCHANGED call /\ resolved' = Append(resolved, b)
    BY <1>3, <1>5 DEF ReceiveFrame
  <2>2. b \in Items(frames) /\ Items(frames') = Items(frames) \ {b} /\ Len(resolved') = Len(resolved) + 1
    BY <1>0, <1>5, <2>1, BufferedAreUnread, TailPlaces, AppendProperties
  <2>3. b \in 1 .. Len(block) /\ Items(block[b]) \cap Read = {} /\ ProcessBlock(c, block[b])
    BY <1>0, <1>3, <1>5, <2>2, BufferedAreUnread
  <2> HIDE DEF b
  <2>4. block[b] \in Seq(Transmission) /\ Distinct(block[b])
    BY <1>0, <2>3, ElementOfSeq DEF ClientInv, SentOnce
  <2>5. Items(block[b]) \cap (Items(pending) \cup Taken) = {}
    BY <1>0, <2>3 DEF ClientInv, KeptOnce
  <2>6. \A tx \in Items(block[b]) : tx.type = "MSG"
    BY <2>2, FramesHold DEF CalmInv, OneByOne
  <2>7. /\ Items(pending) \subseteq Items(pending') /\ Taken \subseteq Taken'
        /\ \A j \in 1 .. Len(block[b]) : \/ block[b][j] \in Items(pending') \cup Taken'
                                         \/ \E k \in 1 .. j - 1 : block[b][k] \in Taken'
        /\ \A tx \in Items(pending') : tx.type = "MSG"
        /\ op'[c] = "err" => got'[c].of = c
        /\ got'[c] # Nothing => op'[c] \in {"ok", "err"}
        /\ \A d \in Caller \ {c} : op'[d] = op[d] /\ got'[d] = got[d]
        /\ op'[c] \in {"running", "ok", "err"}
        /\ c \in Cmd => op'[c] = "running"
    <3> DEFINE txs == block[b]
    <3>1. /\ txs \in Seq(Transmission) /\ Distinct(txs) /\ Items(txs) \cap (Items(pending) \cup Taken) = {}
          /\ ProcessBlock(c, txs) /\ \A tx \in Items(txs) : tx.type = "MSG"
      BY <2>3, <2>4, <2>5, <2>6
    <3> HIDE DEF txs
    <3>2. /\ Items(pending) \subseteq Items(pending') /\ Taken \subseteq Taken'
          /\ \A j \in 1 .. Len(txs) : \/ txs[j] \in Items(pending') \cup Taken'
                                      \/ \E k \in 1 .. j - 1 : txs[k] \in Taken'
          /\ \A tx \in Items(pending') : tx.type = "MSG"
          /\ op'[c] = "err" => got'[c].of = c
          /\ got'[c] # Nothing => op'[c] \in {"ok", "err"}
          /\ \A d \in Caller \ {c} : op'[d] = op[d] /\ got'[d] = got[d]
          /\ op'[c] \in {"running", "ok", "err"}
          /\ (c \in Cmd /\ op'[c] # "running") => \E tx \in Items(txs) : tx.type # "MSG"
      <4>1. OneByOne /\ ClientInv /\ got[c] = Nothing /\ \A tx \in Items(txs) : tx.type # "MSG" => tx.of = c
        BY <1>0, <1>1, <3>1 DEF CalmInv
      <4> QED
        BY <3>1, <4>1, ReadsBlock, Zenon
    <3> QED
      BY <3>1, <3>2 DEF txs
  <2>8. InFrames' = UNION {Items(block[f]) : f \in Items(frames')} /\ InFrames' \subseteq InFrames
    <3>1. InFrames' = UNION {Items(block'[f]) : f \in Items(frames')}
      BY DEF InFrames, Items
    <3> QED
      BY <1>0, <2>2, <3>1, FramesHold
  <2>9. Calm'
    <3>1. \A d \in Caller \ {c} : op'[d] = op[d] /\ batches'[d] = batches[d] /\ op[d] \notin {"running", "waiting"}
      BY <1>1, <1>4, <2>7 DEF Active
    <3>2. op'[c] \in {"running", "ok", "err"} /\ batches'[c] < Len(resolved') /\ Len(resolved') > 0
      BY <1>2, <1>4, <2>2, <2>7
    <3> QED
      BY <1>1, <1>3, <2>1, <3>1, <3>2 DEF CalmInv, Calm
  <2>10. OneByOne'
    <3>1. \A d \in Active' : d = c
      BY <1>1, <2>7 DEF Active
    <3>2. \A d \in Caller : (got'[d] # Nothing => op'[d] \in {"ok", "err"}) /\ (op'[d] = "err" => got'[d].of = d)
      BY <2>7 DEF CalmInv, OneByOne
    <3>3. \A tx \in outbox : tx.type # "MSG" =>
            tx.of \in Active' /\ \A other \in outbox : other.type # "MSG" => other = tx
      <4> SUFFICES ASSUME NEW tx \in outbox, tx.type # "MSG"
                   PROVE  tx.of \in Active' /\ \A other \in outbox : other.type # "MSG" => other = tx
        OBVIOUS
      <4>1. tx.of = c /\ \A other \in outbox : other.type # "MSG" => other = tx
        BY <1>1 DEF CalmInv, OneByOne
      <4>2. c \in Cmd
        BY <1>0, <4>1, Kinds
      <4>3. c \in Active'
        BY <2>7, <4>2 DEF Active
      <4> QED
        BY <4>1, <4>3
    <3>4. \A tx \in InFrames' \cup Items(pending') : tx.type = "MSG"
      BY <2>7, <2>8 DEF CalmInv, OneByOne
    <3> QED
      BY <1>0, <3>1, <3>2, <3>3, <3>4 DEF OneByOne
  <2>11. Kept'
    <3> SUFFICES ASSUME NEW i \in 1 .. Len(block), NEW j \in 1 .. Len(block[i])
                 PROVE  \/ block[i][j] \in InFrames' \cup Items(pending') \cup Taken'
                        \/ \E k \in 1 .. j - 1 : block[i][k] \in Taken'
      BY <1>0 DEF Kept
    <3>1. CASE i = b
      BY <2>7, <3>1
    <3>2. CASE i # b
      <4>1. ASSUME block[i][j] \in InFrames PROVE block[i][j] \in InFrames'
        <5>1. PICK f \in Items(frames) : block[i][j] \in Items(block[f])
          BY <4>1, FramesHold
        <5>2. block[i][j] \in Items(block[i]) /\ f \in 1 .. Len(block)
          BY <1>0, <5>1, BufferedAreUnread DEF Items
        <5>3. f = i
          BY <1>0, <5>1, <5>2 DEF ClientInv, SentOnce
        <5>4. f \in Items(frames')
          BY <2>2, <3>2, <5>1, <5>3
        <5> QED
          BY <2>8, <5>1, <5>4
      <4>2. \/ block[i][j] \in InFrames \cup Items(pending) \cup Taken
            \/ \E k \in 1 .. j - 1 : block[i][k] \in Taken
        BY DEF CalmInv, Kept
      <4> QED
        BY <2>7, <4>1, <4>2
    <3> QED
      BY <3>1, <3>2
  <2> QED
    BY <2>9, <2>10, <2>11
<1>6. CASE frames = <<>>
  <2>1. /\ op' = [op EXCEPT ![c] = "waiting"] /\ call' = [call EXCEPT ![c] = "waiting"]
        /\ UNCHANGED <<pending, got, frames, resolved>>
    BY <1>1, <1>3, <1>6 DEF ReceiveFrame
  <2>2. /\ op'[c] = "waiting" /\ \A d \in Caller \ {c} : op'[d] = op[d]
        /\ \A d \in Caller : call'[d] = call[d] \/ call'[d] = "waiting"
    BY <1>0, <2>1 DEF Waiter
  <2>3. Active' = Active /\ InFrames' = InFrames /\ Items(pending') = Items(pending) /\ Taken' = Taken
    <3>1. Active' = Active
      BY <1>0, <2>2 DEF Active
    <3> QED
      BY <1>0, <2>1, <3>1 DEF InFrames, Items, Taken
  <2>4. Calm'
    <3>1. batches'[c] <= Len(resolved)
      BY <1>2, <1>4
    <3> QED
      BY <1>1, <1>3, <1>4, <2>1, <2>2, <3>1 DEF CalmInv, Calm
  <2>5. OneByOne'
    <3>1. \A d \in Caller : (got[d] # Nothing => op'[d] \in {"ok", "err"}) /\ (op'[d] = "err" => got[d].of = d)
      BY <1>1, <2>2 DEF CalmInv, OneByOne
    <3> QED
      BY <1>0, <2>1, <2>3, <3>1 DEF CalmInv, OneByOne
  <2>6. Kept'
    BY <1>0, <2>3, KeptGrows DEF CalmInv
  <2> QED
    BY <2>4, <2>5, <2>6
<1> QED
  BY <1>5, <1>6
\* A block with an answer finds the one operation that the answer is for waiting.
LEMMA BlockCalm ==
  ASSUME Roomy, CalmInv, BlockArrives PROVE Calm' /\ OneByOne' /\ Kept'
<1>0. /\ UNCHANGED <<phase, socket, listening, closeError, batches>> /\ phase = "connected" /\ Settled
      /\ Deliver(received') /\ received' = received + 1 /\ received < MaxFrames
      /\ op \in [Caller -> {"unused", "running", "waiting", "ok", "err", "timeout", "failed"}]
      /\ batches \in [Caller -> 0 .. MaxBatches] /\ outbox \subseteq Transmission
      /\ frames \in Seq(Frame) /\ waiters \in Seq(Waiter) /\ resolved \in Seq(Frame)
      /\ block \in Seq(Seq(Transmission)) /\ Len(block) = received /\ received \in Nat
      /\ call \in [Waiter -> {"idle", "waiting", "gone"}] /\ Len(resolved) \in Nat
      /\ Caller = Cmd \cup Rcv /\ Cmd \cap Rcv = {} /\ ClientInv
  BY ClientAssumption, LenProperties DEF BlockArrives, FrameArrives, CalmInv, ClientInv, TypeOK, WsTypeOK
<1>1. PICK txs \in Seq(Transmission) :
        /\ Distinct(txs) /\ Items(txs) \subseteq outbox /\ outbox' = outbox \ Items(txs)
        /\ Items(txs) \cap (Items(pending) \cup Taken) = {}
        /\ block' \in Seq(Seq(Transmission)) /\ Len(block') = Len(block) + 1
        /\ \A i \in 1 .. Len(block) : block'[i] = block[i]
        /\ block'[Len(block) + 1] = txs
        /\ IF waiters # <<>> /\ call[Head(waiters)] = "waiting"
           THEN ProcessBlock(Head(waiters), txs)
           ELSE UNCHANGED <<op, pending, got>>
  BY <1>0, BlockSent
<1>2. \A i \in 1 .. Len(block') : i \in 1 .. Len(block) \/ i = Len(block) + 1
  BY <1>0, <1>1
<1>3. /\ listening /\ socket = "open" /\ Len(resolved) > 0 /\ ~closeError
  BY <1>0 DEF CalmInv, Calm
<1>4. InFrames' = UNION {Items(block'[f]) : f \in Items(frames')}
  BY DEF InFrames, Items
<1>5. CASE waiters = <<>>
  <2>1. /\ frames' = Append(frames, received + 1) /\ UNCHANGED <<call, resolved, op, pending, got>>
        /\ received + 1 \in Frame
    BY <1>0, <1>1, <1>5, CallerAssumption DEF Deliver, Frame
  <2>2. Active = {}
    <3>1. \A c \in Caller : op[c] # "waiting"
      BY <1>0, <1>5, EmptyPlaces DEF ClientInv, WaitsBelow, WsInv, EntriesAreCalls, Entries, Waiter
    <3> QED
      BY <1>0, <3>1 DEF Active, Settled
  <2>3. \A tx \in outbox : tx.type = "MSG"
    BY <2>2 DEF CalmInv, OneByOne
  <2>4. InFrames' = InFrames \cup Items(txs)
    <3>1. Items(frames') = Items(frames) \cup {Len(block) + 1}
      BY <1>0, <2>1, AppendPlaces
    <3>2. \A f \in Items(frames) : block'[f] = block[f]
      BY <1>0, <1>1, BufferedAreUnread
    <3>3. \A x : x \in InFrames' <=> \E f \in Items(frames') : x \in Items(block'[f])
      BY <1>4
    <3>4. \A x : x \in InFrames <=> \E f \in Items(frames) : x \in Items(block[f])
      BY FramesHold
    <3>5. \A x : x \in InFrames' <=> x \in InFrames \/ x \in Items(txs)
      BY <1>1, <3>1, <3>2, <3>3, <3>4, Zenon
    <3> QED
      BY <3>5
  <2>5. Active' = Active /\ Items(pending') = Items(pending) /\ Taken' = Taken
    BY <2>1 DEF Active, Items, Taken
  <2>6. Calm'
    BY <1>0, <1>3, <2>1 DEF CalmInv, Calm
  <2>7. OneByOne'
    <3>1. \A tx \in outbox' : tx.type = "MSG"
      BY <1>1, <2>3
    <3>2. \A tx \in InFrames' \cup Items(pending') : tx.type = "MSG"
      BY <1>1, <2>3, <2>4, <2>5 DEF CalmInv, OneByOne
    <3> QED
      BY <2>1, <2>5, <3>1, <3>2 DEF CalmInv, OneByOne
  <2>8. Kept'
    <3>1. ASSUME NEW i \in 1 .. Len(block'), NEW j \in 1 .. Len(block'[i])
          PROVE  \/ block'[i][j] \in InFrames' \cup Items(pending') \cup Taken'
                 \/ \E k \in 1 .. j - 1 : block'[i][k] \in Taken'
      <4>1. CASE i \in 1 .. Len(block)
        BY <1>1, <2>4, <2>5, <3>1, <4>1 DEF CalmInv, Kept
      <4>2. CASE i = Len(block) + 1
        BY <1>1, <2>4, <3>1, <4>2 DEF Items
      <4> QED
        BY <1>2, <4>1, <4>2
    <3> QED
      BY <3>1 DEF Kept
  <2> QED
    BY <2>6, <2>7, <2>8
<1>6. CASE waiters # <<>>
  <2> DEFINE h == Head(waiters)
  <2>1. /\ h \in Caller /\ call[h] \in {"waiting", "gone"} /\ call'[h] \in {"idle", "waiting", "gone"}
        /\ call'[h] # "waiting" /\ \A d \in Waiter \ {h} : call'[d] = call[d]
    <3>1. call' = [call EXCEPT ![h] = IF call[h] = "waiting" THEN "idle" ELSE call[h]]
      BY <1>0, <1>6 DEF Deliver
    <3>2. h \in Caller /\ h \in Waiter
      BY <1>0, <1>6, FirstServed DEF Waiter
    <3>3. /\ h \in Caller /\ call[h] \in {"waiting", "gone"}
          /\ call'[h] # "waiting" /\ \A d \in Waiter \ {h} : call'[d] = call[d]
      BY <1>0, <1>6, FirstServed
    <3> HIDE DEF h
    <3> QED
      BY <1>0, <3>1, <3>2, <3>3
  <2>2. /\ frames = <<>> /\ frames' = <<>> /\ resolved' = Append(resolved, received + 1)
    BY <1>0, <1>6 DEF Deliver, ClientInv, WsInv, EntriesAreCalls
  <2>3. call[h] = "waiting" /\ op[h] = "waiting" /\ ProcessBlock(h, txs)
    <3>1. call[h] # "gone"
      BY <2>1 DEF CalmInv, Calm
    <3> QED
      BY <1>0, <1>1, <1>6, <2>1, <3>1 DEF ClientInv, WaitsBelow
  <2>4. call'[h] = "idle"
    <3>1. call' = [call EXCEPT ![h] = IF call[h] = "waiting" THEN "idle" ELSE call[h]]
      BY <1>0, <1>6 DEF Deliver
    <3>2. h \in Waiter
      BY <2>1 DEF Waiter
    <3> QED
      BY <1>0, <2>3, <3>1, <3>2
  <2> HIDE DEF h
  <2>5. Active = {h} /\ got[h] = Nothing
    <3>1. h \in Active
      BY <2>1, <2>3 DEF Active
    <3> QED
      BY <3>1, Alone
  <2>6. \A tx \in outbox : tx.type # "MSG" => tx.of = h /\ \A other \in outbox : other.type # "MSG" => other = tx
    BY <2>5 DEF CalmInv, OneByOne
  <2>7. /\ Items(pending) \subseteq Items(pending') /\ Taken \subseteq Taken'
        /\ \A j \in 1 .. Len(txs) : \/ txs[j] \in Items(pending') \cup Taken'
                                    \/ \E k \in 1 .. j - 1 : txs[k] \in Taken'
        /\ \A tx \in Items(pending') : tx.type = "MSG"
        /\ op'[h] = "err" => got'[h].of = h
        /\ got'[h] # Nothing => op'[h] \in {"ok", "err"}
        /\ \A d \in Caller \ {h} : op'[d] = op[d] /\ got'[d] = got[d]
        /\ op'[h] \in {"running", "ok", "err"}
        /\ (h \in Cmd /\ op'[h] # "running") => \E tx \in Items(txs) : tx.type # "MSG"
    <3>1. /\ OneByOne /\ ClientInv /\ h \in Caller /\ got[h] = Nothing /\ ProcessBlock(h, txs)
          /\ \A tx \in Items(txs) : tx.type # "MSG" => tx.of = h
          /\ Distinct(txs) /\ Items(txs) \cap (Items(pending) \cup Taken) = {}
      BY <1>1, <2>1, <2>3, <2>5, <2>6 DEF CalmInv
    <3> QED
      BY <3>1, ReadsBlock, Zenon
  <2>8. Len(resolved') = Len(resolved) + 1
    BY <1>0, <2>2, AppendProperties
  <2>9. InFrames = {} /\ InFrames' = {}
    BY <1>4, <2>2, EmptyPlaces, FramesHold
  <2>10. Calm'
    <3>1. \A d \in Caller \ {h} : op'[d] = op[d] /\ op[d] \notin {"running", "waiting"} /\ call'[d] = call[d]
      BY <2>1, <2>5, <2>7 DEF Active, Waiter
    <3>2. op'[h] = "running" => batches[h] < Len(resolved')
      <4>1. batches[h] <= Len(resolved) /\ batches[h] \in Nat
        BY <1>0, <2>1, <2>3, ClientAssumption DEF CalmInv, Calm
      <4> QED
        BY <1>0, <2>8, <4>1
    <3>3. Len(resolved') > 0
      BY <1>0, <2>8
    <3>4. /\ op'[h] \in {"running", "ok", "err"} /\ call'[h] = "idle" /\ batches' = batches
          /\ phase' = "connected" /\ listening' /\ socket' = "open" /\ ~closeError'
      BY <1>0, <1>3, <2>4, <2>7
    <3>5. \A d \in Caller :
            /\ call'[d] # "gone" /\ op'[d] \in {"unused", "running", "waiting", "ok", "err"}
            /\ op'[d] = "unused" => batches'[d] = 0
            /\ op'[d] = "running" => batches'[d] < Len(resolved')
            /\ op'[d] # "waiting"
      BY <3>1, <3>2, <3>4 DEF CalmInv, Calm
    <3> QED
      BY <3>3, <3>4, <3>5 DEF Calm
  <2>11. OneByOne'
    <3>1. \A d \in Active' : d = h
      BY <2>5, <2>7 DEF Active
    <3>2. \A d \in Caller : (got'[d] # Nothing => op'[d] \in {"ok", "err"}) /\ (op'[d] = "err" => got'[d].of = d)
      BY <2>7 DEF CalmInv, OneByOne
    <3>3. \A tx \in outbox' : tx.type # "MSG" =>
            tx.of \in Active' /\ \A other \in outbox' : other.type # "MSG" => other = tx
      <4> SUFFICES ASSUME NEW tx \in outbox', tx.type # "MSG"
                   PROVE  tx.of \in Active' /\ \A other \in outbox' : other.type # "MSG" => other = tx
        OBVIOUS
      <4>1. /\ tx \in outbox /\ tx \notin Items(txs) /\ tx.of = h
            /\ \A other \in outbox : other.type # "MSG" => other = tx
        BY <1>1, <2>6
      <4>2. h \in Cmd
        BY <1>0, <4>1, Kinds
      <4>3. op'[h] = "running"
        BY <1>1, <2>7, <4>1, <4>2
      <4>4. h \in Active'
        BY <2>1, <4>3 DEF Active
      <4> QED
        BY <1>1, <4>1, <4>4
    <3>4. \A tx \in InFrames' \cup Items(pending') : tx.type = "MSG"
      BY <2>7, <2>9
    <3> QED
      BY <3>1, <3>2, <3>3, <3>4 DEF OneByOne
  <2>12. Kept'
    <3>1. ASSUME NEW i \in 1 .. Len(block'), NEW j \in 1 .. Len(block'[i])
          PROVE  \/ block'[i][j] \in InFrames' \cup Items(pending') \cup Taken'
                 \/ \E k \in 1 .. j - 1 : block'[i][k] \in Taken'
      <4>1. CASE i \in 1 .. Len(block)
        <5>1. block'[i] = block[i] /\ j \in 1 .. Len(block[i])
          BY <1>1, <3>1, <4>1
        <5>2. \/ block[i][j] \in InFrames \cup Items(pending) \cup Taken
              \/ \E k \in 1 .. j - 1 : block[i][k] \in Taken
          BY <4>1, <5>1 DEF CalmInv, Kept
        <5> QED
          BY <2>7, <2>9, <5>1, <5>2
      <4>2. CASE i = Len(block) + 1
        BY <1>1, <2>7, <3>1, <4>2
      <4> QED
        BY <1>2, <4>1, <4>2
    <3> QED
      BY <3>1 DEF Kept
  <2> QED
    BY <2>10, <2>11, <2>12
<1> QED
  BY <1>5, <1>6

LEMMA CalmInit == ClientInit => CalmInv
<1> SUFFICES ASSUME ClientInit PROVE CalmInv
  OBVIOUS
<1>1. ClientInv
  BY ClientInitInv
<1>2. /\ phase = "opening" /\ ~closeError /\ frames = <<>> /\ \A w \in Waiter : call[w] = "idle"
      /\ \A c \in Caller : op[c] = "unused" /\ batches[c] = 0 /\ got[c] = Nothing
      /\ pending = <<>> /\ block = <<>> /\ outbox = {Message(m) : m \in Push}
  BY DEF ClientInit, WsInit
<1>3. Len(block) = 0 /\ Items(pending) = {} /\ InFrames = {}
  BY <1>2, EmptyPlaces, EmptySeq, FramesHold
<1>4. Calm
  BY <1>2, <1>3 DEF Calm, Waiter
<1>5. OneByOne
  BY <1>2, <1>3 DEF OneByOne, Active, Message
<1>6. Kept
  BY <1>3 DEF Kept
<1> QED
  BY <1>1, <1>4, <1>5, <1>6 DEF CalmInv

LEMMA CalmStep == ASSUME Roomy, CalmInv, [CalmNext]_allVars PROVE CalmInv'
<1>1. CASE UNCHANGED allVars
  <2>1. ClientInv'
    BY <1>1, ClientStepInv DEF CalmInv
  <2>2. UNCHANGED <<phase, socket, listening, frames, closeError, call, resolved>>
    BY <1>1 DEF allVars, wsVars
  <2>3. UNCHANGED <<op, batches, pending, outbox, block, got>>
    BY <1>1 DEF allVars, clientVars
  <2>4. Active' = Active /\ InFrames' = InFrames /\ Items(pending') = Items(pending) /\ Taken' = Taken
    BY <2>2, <2>3 DEF Active, InFrames, Items, Taken
  <2>5. Calm'
    BY <2>2, <2>3 DEF CalmInv, Calm
  <2>6. OneByOne'
    BY <2>3, <2>4 DEF CalmInv, OneByOne
  <2>7. Kept'
    BY <2>3, <2>4 DEF CalmInv, Kept
  <2> QED
    BY <2>1, <2>5, <2>6, <2>7 DEF CalmInv
<1>2. CASE CalmNext
  <2>1. ClientNext
    BY <1>2 DEF CalmNext, ClientNext
  <2>2. ClientInv'
    BY <2>1, ClientStepInv DEF CalmInv
  <2>3. Calm' /\ OneByOne' /\ Kept'
    BY <1>2, ConnectingCalm, BlockCalm, StartCalm, LoopCalm DEF CalmNext
  <2> QED
    BY <2>2, <2>3 DEF CalmInv
<1> QED
  BY <1>1, <1>2

\* Used one operation at a time over a connection that stays up, and as long as
\* no limit of the client is reached (there is room for all messages that are
\* pushed, and maxBatches allows for every block that the broker sends), an
\* operation that fails does so for the answer to itself, and of the blocks read
\* nothing is dropped but what follows the transmission that ended an operation.
THEOREM SequentialUse == ASSUME Roomy PROVE CalmSpec => []OwnAnswers
<1>1. CalmInv => OwnAnswers
  BY DEF CalmInv, OneByOne, Kept, OwnAnswers, NoCrossTalk, KeptUpToAnswer
<1>2. CalmInv /\ [CalmNext]_allVars => CalmInv'
  BY CalmStep
<1> QED
  BY <1>1, <1>2, CalmInit, PTL DEF CalmSpec

-----------------------------------------------------------------------------
(* The transfer of a file.                                                 *)

Recorded == Items(uploaded)
InHand   == IF stage \in {"put", "undo"} THEN {current} ELSE {}

XInv ==
  /\ made \in Nat /\ uploaded \in Seq(Nat) /\ current \in Nat
  /\ profile = "web" =>
       /\ DOMAIN server \subseteq unknown \cup Recorded \cup InHand
       /\ stage \in {"idle", "failed"} => uploaded = <<>>

\* The last of a sequence, and what is left without it.
LEMMA FrontPlaces ==
  ASSUME NEW S, NEW q \in Seq(S), q # <<>>
  PROVE  /\ Front(q) \in Seq(S) /\ Len(Front(q)) = Len(q) - 1
         /\ Items(q) = Items(Front(q)) \cup {Last(q)}
<1>1. Len(q) \in Nat \ {0} /\ Len(q) - 1 \in Nat /\ Len(q) - 1 <= Len(q)
  BY LenProperties, EmptySeq
<1> DEFINE n == Len(q) - 1
<1>2. Front(q) = SubSeq(q, 1, n) /\ Last(q) = q[Len(q)]
  BY DEF Front, Last
<1>3. /\ SubSeq(q, 1, n) \in Seq(S) /\ Len(SubSeq(q, 1, n)) = n
      /\ Items(SubSeq(q, 1, n)) = {q[i] : i \in 1 .. n}
  <2>1. n \in Nat /\ n <= Len(q)
    BY <1>1
  <2> HIDE DEF n
  <2> QED
    BY <2>1, FirstPlaces
<1>4. \A i \in 1 .. Len(q) : i \in 1 .. n \/ i = Len(q)
  BY <1>1
<1>5. Items(q) = {q[i] : i \in 1 .. n} \cup {q[Len(q)]}
  BY <1>1, <1>4 DEF Items
<1> QED
  BY <1>2, <1>3, <1>5

\* An exchange that deletes takes the file away, or its answer is missing.
LEMMA DeleteLeaves ==
  ASSUME NEW file, NEW result, DeleteOf(file, result)
  PROVE  DOMAIN server' \subseteq DOMAIN server /\ unknown \subseteq unknown'
         /\ (file \in DOMAIN server' => file \in unknown')
  BY DEF DeleteOf, Deleted

LEMMA InitInv == Init => XInv
  BY EmptyPlaces DEF Init, XInv, Recorded, InHand

LEMMA NextInv ==
  ASSUME OwnAddress, XInv, [Next]_vars
  PROVE  XInv'
<1> USE DEF XInv
<1>1. ASSUME ConnectXftp PROVE XInv'
  BY <1>1 DEF ConnectXftp, Recorded, InHand
<1>2. ASSUME StartDelete PROVE XInv'
  BY <1>2 DEF StartDelete, Sending, Recorded, InHand
<1>3. ASSUME NEW result \in Result, CreateFile(result) PROVE XInv'
  <2>1. uploaded' = uploaded /\ profile' = profile /\ stage = "create"
    BY <1>3 DEF CreateFile, Sending
  <2>2. CASE result = "refused"
    BY <1>3, <2>1, <2>2 DEF CreateFile, Recorded, InHand
  <2>3. CASE result # "refused"
    <3>1. /\ made' = made + 1 /\ DOMAIN server' = DOMAIN server \cup {made'}
          /\ unknown' = IF result = "lost" THEN unknown \cup {made'} ELSE unknown
      BY <1>3, <2>3 DEF CreateFile, Placed
    <3>2. CASE result = "ok"
      BY <1>3, <2>1, <3>1, <3>2 DEF CreateFile, Recorded, InHand
    <3>3. CASE result = "lost"
      BY <1>3, <2>1, <3>1, <3>3 DEF CreateFile, Recorded, InHand
    <3> QED
      BY <2>3, <3>2, <3>3 DEF Result
  <2> QED
    BY <2>2, <2>3
<1>4. ASSUME NEW result \in Result, PutFile(result) PROVE XInv'
  <2>1. /\ stage = "put" /\ DOMAIN server' = DOMAIN server /\ profile' = profile
        /\ made' = made /\ current' = current /\ unknown' = unknown
    BY <1>4 DEF PutFile, Sending
  <2>2. CASE result = "ok"
    <3>1. uploaded' = Append(uploaded, current) /\ stage' \in {"done", "create"}
      BY <1>4, <2>2 DEF PutFile, AfterPut
    <3>2. Recorded' = Recorded \cup {current} /\ uploaded' \in Seq(Nat)
      BY <3>1, AppendPlaces DEF Recorded
    <3> QED
      BY <2>1, <3>1, <3>2 DEF InHand
  <2>3. CASE result # "ok"
    <3>1. uploaded' = uploaded /\ stage' = "undo"
      BY <1>4, <2>3 DEF PutFile, AfterPut
    <3> QED
      BY <2>1, <3>1 DEF InHand, Recorded
  <2> QED
    BY <2>2, <2>3
<1>5. ASSUME NEW result \in Result, Undo(result) PROVE XInv'
  <2>1. /\ DeleteOf(current, result) /\ stage = "undo" /\ stage' = "cleanup" /\ profile' = profile
        /\ made' = made /\ current' = current /\ uploaded' = uploaded
    BY <1>5 DEF Undo, CleanOne, Sending
  <2>2. /\ DOMAIN server' \subseteq DOMAIN server /\ unknown \subseteq unknown'
        /\ current \in DOMAIN server' => current \in unknown'
    BY <2>1, DeleteLeaves
  <2> QED
    BY <2>1, <2>2 DEF Recorded, InHand
<1>6. ASSUME NEW result \in Result, Cleanup(result) PROVE XInv'
  <2>1. stage = "cleanup" /\ profile' = profile /\ made' = made /\ current' = current
    BY <1>6 DEF Cleanup, Sending
  <2>2. CASE uploaded = <<>>
    BY <1>6, <2>1, <2>2 DEF Cleanup, Recorded, InHand
  <2>3. CASE uploaded # <<>>
    <3>1. /\ DeleteOf(Last(uploaded), result) /\ uploaded' = Front(uploaded) /\ stage' = "cleanup"
      BY <1>6, <2>3 DEF Cleanup, CleanOne
    <3>2. /\ DOMAIN server' \subseteq DOMAIN server /\ unknown \subseteq unknown'
          /\ Last(uploaded) \in DOMAIN server' => Last(uploaded) \in unknown'
      BY <3>1, DeleteLeaves
    <3>3. uploaded' \in Seq(Nat) /\ Recorded \subseteq Recorded' \cup {Last(uploaded)}
      BY <2>3, <3>1, FrontPlaces DEF Recorded
    <3> QED
      BY <2>1, <3>1, <3>2, <3>3 DEF InHand
  <2> QED
    BY <2>2, <2>3
<1>7. ASSUME NEW result \in Result, PutChunk(result) PROVE XInv'
  <2>1. /\ profile = "store" /\ profile' = profile /\ current' = current
        /\ made' \in Nat /\ uploaded' \in {uploaded, Append(uploaded, made')}
    BY <1>7 DEF PutChunk, Sending
  <2>2. uploaded' \in Seq(Nat)
    BY <2>1, AppendPlaces
  <2> QED
    BY <2>1, <2>2
<1>8. ASSUME NEW result \in Result, Delete(result) PROVE XInv'
  <2>1. /\ DeleteOf(uploaded[at], result) /\ stage = "deleting" /\ stage' \in {"partly", "deleted", "deleting"}
        /\ profile' = profile /\ made' = made /\ current' = current /\ uploaded' = uploaded
    BY <1>8 DEF Delete, Sending
  <2>2. DOMAIN server' \subseteq DOMAIN server /\ unknown \subseteq unknown'
    BY <2>1, DeleteLeaves
  <2> QED
    BY <2>1, <2>2 DEF Recorded, InHand
<1>9. ASSUME NEW result \in Result, GetChunk(result) PROVE XInv'
  BY <1>9 DEF GetChunk, Recorded, InHand
<1>10. ASSUME NEW d, StartDownload(d) PROVE XInv'
  BY <1>10 DEF StartDownload, Recorded, InHand
<1>11. CASE UNCHANGED vars
  BY <1>11 DEF vars, Recorded, InHand
<1> QED
  BY <1>1, <1>2, <1>3, <1>4, <1>5, <1>6, <1>7, <1>8, <1>9, <1>10, <1>11 DEF Next

\* An upload to the client's own server that fails cleans up after itself.
THEOREM FailsClean == ASSUME OwnAddress PROVE Spec => []CleanFailure
<1>1. XInv => CleanFailure
  BY EmptyPlaces DEF XInv, CleanFailure, Recorded, InHand
<1>2. XInv /\ [Next]_vars => XInv'
  BY NextInv
<1> QED
  BY <1>1, <1>2, InitInv, PTL DEF Spec
-----------------------------------------------------------------------------
(* The stages of the transfer.                                             *)

\* As long as chunks are uploaded, the one the sender is at is the first that is
\* not recorded; and files are known by the numbers they were created with.
StagesInv ==
  /\ made \in Nat /\ uploaded \in Seq(Nat) /\ at \in Nat
  /\ Recorded \subseteq 1 .. made /\ DOMAIN server \subseteq 1 .. made /\ unknown \subseteq 1 .. made
  /\ stage \in {"planned", "idle", "create", "put", "undo", "cleanup", "done", "failed",
                "deleting", "partly", "deleted"}
  /\ stage # "planned" => Len(Sizes) \in Nat \ {0}
  /\ stage \in {"idle", "create", "put"} => at = Len(uploaded) + 1 /\ Len(uploaded) < Len(Sizes)
  /\ stage \in {"create", "put"} => version > 0
  /\ stage \in {"put", "undo"} => current \in 1 .. made
  /\ stage \in {"done", "deleting", "partly"} => Len(uploaded) = Len(Sizes)
  /\ stage = "deleting" => at \in 1 .. Len(uploaded)
  /\ faults \in 0 .. MaxFaults
  /\ DOMAIN recv = {"stage", "chunks", "intact", "faulted", "got"}
  /\ recv.stage \in {"idle", "getting", "done", "failed"}

LEMMA StagesInit == Init => StagesInv
<1> SUFFICES ASSUME Init PROVE StagesInv
  OBVIOUS
<1> USE DEF Init
<1>1. Recorded = {} /\ Len(uploaded) = 0 /\ uploaded \in Seq(Nat)
  BY EmptyPlaces, EmptySeq DEF Recorded
<1>2. stage \in {"idle", "planned"} /\ (stage # "planned" => Len(Sizes) \in Nat \ {0})
  <2> HIDE DEF Sizes
  <2>1. Len(Sizes) \in 1 .. MaxPieces => Len(Sizes) \in Nat \ {0}
    BY XftpAssumption
  <2> QED
    BY <2>1
<1>3. DOMAIN server = {}
  OBVIOUS
<1>4. 0 \in 0 .. MaxFaults
  BY XftpAssumption
<1>5. DOMAIN recv = {"stage", "chunks", "intact", "faulted", "got"} /\ recv.stage = "idle"
  OBVIOUS
<1>6. made = 0 /\ at = 1 /\ unknown = {} /\ faults = 0
  OBVIOUS
<1> QED
  BY <1>1, <1>2, <1>3, <1>4, <1>5, <1>6 DEF StagesInv

LEMMA Faulted ==
  ASSUME faults \in 0 .. MaxFaults, NEW result, Fault(result)
  PROVE  faults' \in 0 .. MaxFaults
  BY XftpAssumption DEF Fault

LEMMA SamePlan == ASSUME UNCHANGED <<profile, payload>> PROVE Sizes' = Sizes
  BY DEF Sizes

LEMMA StagesNext == ASSUME StagesInv, [Next]_vars PROVE StagesInv'
<1> USE DEF StagesInv
<1>0. /\ Len(uploaded) \in Nat
      /\ stage \in {"idle", "put"} =>
           Len(Sizes) \in Nat \ {0} /\ at = Len(uploaded) + 1 /\ Len(uploaded) < Len(Sizes)
      /\ stage = "put" => version > 0 /\ current \in 1 .. made
  <2>1. Len(uploaded) \in Nat
    BY LenProperties
  <2> QED
    BY <2>1, Zenon
<1>1. ASSUME ConnectXftp PROVE StagesInv'
  <2>1. /\ UNCHANGED <<profile, payload, at, current, uploaded, server, made, faults, unknown, recv>>
        /\ stage = "idle" /\ (stage' = "failed" \/ (stage' = "create" /\ version' > 0))
    BY <1>1 DEF ConnectXftp
  <2>2. Sizes' = Sizes /\ Recorded' = Recorded
    BY <2>1, SamePlan DEF Recorded, Items
  <2> QED
    BY <2>1, <2>2
<1>2. ASSUME StartDelete PROVE StagesInv'
  <2>1. /\ UNCHANGED <<profile, payload, version, current, uploaded, server, made, faults, unknown, recv>>
        /\ stage \in {"done", "partly"} /\ stage' = "deleting" /\ at' = 1
    BY <1>2 DEF StartDelete, Sending
  <2>2. Sizes' = Sizes /\ Recorded' = Recorded
    BY <2>1, SamePlan DEF Recorded, Items
  <2> QED
    BY <1>0, <2>1, <2>2
<1>3. ASSUME NEW result \in Result, CreateFile(result) PROVE StagesInv'
  <2>1. /\ UNCHANGED <<profile, payload, version, at, uploaded, recv>> /\ stage = "create"
        /\ faults' \in 0 .. MaxFaults
    BY <1>3, Faulted DEF CreateFile, Sending
  <2>2. Sizes' = Sizes /\ Recorded' = Recorded
    BY <2>1, SamePlan DEF Recorded, Items
  <2>3. \/ UNCHANGED <<server, made, unknown>> /\ result = "refused"
        \/ /\ made' = made + 1 /\ DOMAIN server' = DOMAIN server \cup {made'}
           /\ unknown' \subseteq unknown \cup {made'}
    BY <1>3 DEF CreateFile, Placed
  <2>4. (stage' = "put" /\ current' = made' /\ result = "ok") \/ stage' = "cleanup"
    BY <1>3 DEF CreateFile
  <2>5. 1 .. made \subseteq 1 .. made' /\ made' \in Nat /\ (result = "ok" => made' \in 1 .. made')
    BY <2>3
  <2>6. DOMAIN server' \subseteq 1 .. made' /\ unknown' \subseteq 1 .. made'
    <3>1. CASE UNCHANGED <<server, made, unknown>>
      BY <3>1
    <3>2. CASE /\ made' = made + 1 /\ DOMAIN server' = DOMAIN server \cup {made'}
               /\ unknown' \subseteq unknown \cup {made'}
      <4>1. made' \in 1 .. made'
        BY <3>2
      <4> QED
        BY <2>5, <3>2, <4>1
    <3> QED
      BY <2>3, <3>1, <3>2
  <2> QED
    BY <2>1, <2>2, <2>4, <2>5, <2>6
<1>4. ASSUME NEW result \in Result, PutFile(result) PROVE StagesInv'
  <2>1. /\ UNCHANGED <<profile, payload, version, current, made, unknown, recv>> /\ stage = "put"
        /\ DOMAIN server' = DOMAIN server /\ faults' \in 0 .. MaxFaults
    BY <1>4, Faulted DEF PutFile, Sending
  <2>2. Sizes' = Sizes
    BY <2>1, SamePlan
  <2>3. CASE result = "ok"
    <3>1. /\ uploaded' = Append(uploaded, current) /\ at' = at + 1
          /\ stage' = IF Len(uploaded') = Len(Sizes) THEN "done" ELSE "create"
      BY <1>4, <2>3 DEF PutFile, AfterPut, Finished
    <3>2. /\ uploaded' \in Seq(Nat) /\ Len(uploaded') = Len(uploaded) + 1 /\ Recorded' = Recorded \cup {current}
      <4>1. current \in Nat /\ uploaded \in Seq(Nat)
        BY <1>0, <2>1
      <4> HIDE DEF StagesInv
      <4> QED
        BY <3>1, <4>1, AppendPlaces DEF Recorded
    <3>3. /\ Len(Sizes) \in Nat \ {0} /\ at = Len(uploaded) + 1 /\ Len(uploaded) < Len(Sizes)
          /\ version > 0 /\ current \in 1 .. made
      BY <1>0, <2>1, Zenon
    <3>4. \/ stage' = "done" /\ Len(uploaded') = Len(Sizes)
          \/ stage' = "create" /\ at' = Len(uploaded') + 1 /\ Len(uploaded') < Len(Sizes)
      BY <1>0, <3>1, <3>2, <3>3
    <3>5. Recorded' \subseteq 1 .. made /\ at' \in Nat
      BY <3>1, <3>2, <3>3
    <3> QED
      BY <2>1, <2>2, <3>2, <3>3, <3>4, <3>5
  <2>4. CASE result # "ok"
    <3>1. uploaded' = uploaded /\ stage' = "undo" /\ at' = at
      BY <1>4, <2>4 DEF PutFile, AfterPut
    <3>2. Recorded' = Recorded
      BY <3>1 DEF Recorded, Items
    <3> QED
      BY <2>1, <2>2, <3>1, <3>2
  <2> QED
    BY <2>3, <2>4
<1>5. ASSUME NEW file \in 1 .. made, NEW result \in Result, CleanOne(file, result)
      PROVE  /\ faults' \in 0 .. MaxFaults /\ unknown' \subseteq 1 .. made
             /\ DOMAIN server' \subseteq 1 .. made
  BY <1>5, Faulted DEF CleanOne, DeleteOf, Deleted
<1>6. ASSUME NEW result \in Result, Undo(result) PROVE StagesInv'
  <2>1. /\ UNCHANGED <<profile, payload, version, at, current, uploaded, made, recv>>
        /\ stage = "undo" /\ stage' = "cleanup" /\ CleanOne(current, result)
    BY <1>6 DEF Undo, Sending
  <2>2. Sizes' = Sizes /\ Recorded' = Recorded
    BY <2>1, SamePlan DEF Recorded, Items
  <2>3. faults' \in 0 .. MaxFaults /\ unknown' \subseteq 1 .. made /\ DOMAIN server' \subseteq 1 .. made
    BY <1>5, <2>1
  <2> QED
    BY <2>1, <2>2, <2>3
<1>7. ASSUME NEW result \in Result, Cleanup(result) PROVE StagesInv'
  <2>1. /\ UNCHANGED <<profile, payload, version, at, current, made, recv>> /\ stage = "cleanup"
    BY <1>7 DEF Cleanup, Sending
  <2>2. Sizes' = Sizes
    BY <2>1, SamePlan
  <2>3. CASE uploaded = <<>>
    <3>1. stage' = "failed" /\ UNCHANGED <<uploaded, server, unknown, faults>>
      BY <1>7, <2>3 DEF Cleanup
    <3>2. Recorded' = Recorded
      BY <3>1 DEF Recorded, Items
    <3> QED
      BY <2>1, <2>2, <3>1, <3>2
  <2>4. CASE uploaded # <<>>
    <3>1. stage' = "cleanup" /\ CleanOne(Last(uploaded), result) /\ uploaded' = Front(uploaded)
      BY <1>7, <2>1, <2>4 DEF Cleanup
    <3>2. uploaded' \in Seq(Nat) /\ Recorded = Recorded' \cup {Last(uploaded)}
      BY <2>4, <3>1, FrontPlaces DEF Recorded
    <3>3. faults' \in 0 .. MaxFaults /\ unknown' \subseteq 1 .. made /\ DOMAIN server' \subseteq 1 .. made
      BY <1>5, <3>1, <3>2
    <3> QED
      BY <2>1, <2>2, <3>1, <3>2, <3>3
  <2> QED
    BY <2>3, <2>4
<1>8. ASSUME NEW result \in Result, PutChunk(result) PROVE StagesInv'
  <2>1. /\ UNCHANGED <<profile, payload, version, current, unknown, recv>> /\ stage = "idle"
        /\ faults' \in 0 .. MaxFaults
    BY <1>8, Faulted DEF PutChunk, Sending
  <2>2. Sizes' = Sizes
    BY <2>1, SamePlan
  <2>3. /\ made' \in Nat /\ 1 .. made \subseteq 1 .. made' /\ (result = "ok" => made' \in 1 .. made')
        /\ DOMAIN server' \subseteq 1 .. made'
    <3>1. \/ UNCHANGED <<server, made>> /\ result = "refused"
          \/ made' = made + 1 /\ DOMAIN server' = DOMAIN server \cup {made'}
      BY <1>8 DEF PutChunk, Placed
    <3> QED
      BY <3>1
  <2>4. CASE result = "ok"
    <3>1. /\ uploaded' = Append(uploaded, made') /\ at' = at + 1
          /\ stage' = IF Len(uploaded') = Len(Sizes) THEN "done" ELSE "idle"
      BY <1>8, <2>4 DEF PutChunk, Finished
    <3>2. /\ uploaded' \in Seq(Nat) /\ Len(uploaded') = Len(uploaded) + 1 /\ Recorded' = Recorded \cup {made'}
      <4>1. made' \in Nat /\ uploaded \in Seq(Nat)
        BY <2>3
      <4> HIDE DEF StagesInv
      <4> QED
        BY <3>1, <4>1, AppendPlaces DEF Recorded
    <3>3. /\ Len(Sizes) \in Nat \ {0} /\ at = Len(uploaded) + 1 /\ Len(uploaded) < Len(Sizes)
      BY <1>0, <2>1, Zenon
    <3>4. \/ stage' = "done" /\ Len(uploaded') = Len(Sizes)
          \/ stage' = "idle" /\ at' = Len(uploaded') + 1 /\ Len(uploaded') < Len(Sizes)
      BY <1>0, <3>1, <3>2, <3>3
    <3>5. Recorded' \subseteq 1 .. made' /\ unknown' \subseteq 1 .. made'
      <4>1. made' \in 1 .. made' /\ Recorded \subseteq 1 .. made' /\ unknown' = unknown
        BY <2>1, <2>3, <2>4
      <4>2. unknown \subseteq 1 .. made'
        BY <2>3
      <4> QED
        BY <3>2, <4>1, <4>2
    <3>6. at' \in Nat
      BY <3>1, <3>3
    <3> QED
      BY <2>1, <2>2, <2>3, <3>2, <3>3, <3>4, <3>5, <3>6
  <2>5. CASE result # "ok"
    <3>1. uploaded' = uploaded /\ stage' = "failed" /\ at' = at
      BY <1>8, <2>5 DEF PutChunk
    <3>2. Recorded' = Recorded
      BY <3>1 DEF Recorded, Items
    <3> QED
      BY <2>1, <2>2, <2>3, <3>1, <3>2
  <2> QED
    BY <2>4, <2>5
<1>9. ASSUME NEW result \in Result, Delete(result) PROVE StagesInv'
  <2>1. /\ UNCHANGED <<profile, payload, version, current, uploaded, made, recv>> /\ stage = "deleting"
        /\ DeleteOf(uploaded[at], result) /\ at' = at + 1
        /\ stage' \in {"partly", "deleted"} \/ (stage' = "deleting" /\ at # Len(uploaded))
    BY <1>9 DEF Delete, Sending
  <2>2. Sizes' = Sizes /\ Recorded' = Recorded
    BY <2>1, SamePlan DEF Recorded, Items
  <2>3. uploaded[at] \in 1 .. made
    BY <2>1, Places DEF Recorded
  <2>4. faults' \in 0 .. MaxFaults /\ unknown' \subseteq 1 .. made /\ DOMAIN server' \subseteq 1 .. made
    BY <2>1, <2>3, Faulted DEF DeleteOf, Deleted
  <2> QED
    BY <1>0, <2>1, <2>2, <2>4
<1>10. ASSUME NEW result \in Result, GetChunk(result) PROVE StagesInv'
  <2>1. /\ UNCHANGED <<profile, payload, stage, version, at, current, uploaded, server, made, unknown>>
        /\ faults' \in 0 .. MaxFaults
    BY <1>10, Faulted DEF GetChunk
  <2>2. Sizes' = Sizes /\ Recorded' = Recorded
    BY <2>1, SamePlan DEF Recorded, Items
  <2>3. /\ DOMAIN recv' = DOMAIN recv /\ recv'.stage \in {"getting", "done", "failed"}
    BY <1>10 DEF GetChunk
  <2> QED
    BY <2>1, <2>2, <2>3
<1>11. ASSUME NEW d, StartDownload(d) PROVE StagesInv'
  <2>1. UNCHANGED <<profile, payload, stage, version, at, current, uploaded, server, made, faults, unknown>>
    BY <1>11 DEF StartDownload
  <2>2. Sizes' = Sizes /\ Recorded' = Recorded
    BY <2>1, SamePlan DEF Recorded, Items
  <2>3. /\ DOMAIN recv' = DOMAIN recv /\ recv'.stage \in {"getting", "failed"}
    BY <1>11 DEF StartDownload
  <2> QED
    BY <2>1, <2>2, <2>3
<1>12. CASE UNCHANGED vars
  <2>1. Sizes' = Sizes /\ Recorded' = Recorded
    BY <1>12, SamePlan DEF Recorded, Items, vars
  <2> QED
    BY <1>12, <2>1 DEF vars
<1> QED
  BY <1>1, <1>2, <1>3, <1>4, <1>6, <1>7, <1>8, <1>9, <1>10, <1>11, <1>12 DEF Next

\* In either client, to whatever address and whatever exchanges fail: the chunk
\* that is sent is one of the plan, an upload or a deletion of a file concerns as
\* many chunks as its plan has, and only files that were created are at the server.
THEOREM TransferTypes == Spec => []TransferTypeOK
<1>1. ASSUME StagesInv PROVE TransferTypeOK
  <2>1. Len(uploaded) \in Nat
    BY <1>1, LenProperties DEF StagesInv
  <2> QED
    BY <1>1, <2>1 DEF StagesInv, TransferTypeOK
<1>2. StagesInv /\ [Next]_vars => StagesInv'
  BY StagesNext
<1> QED
  BY <1>1, <1>2, StagesInit, PTL DEF Spec
-----------------------------------------------------------------------------
(* Induction.  The library's principle takes the property as an operator;  *)
(* that Nat is well-founded is a fact about sets, and serves as well.      *)

LEMMA LeastOne ==
  ASSUME NEW S \in SUBSET Nat, S # {}
  PROVE  \E m \in S : \A n \in S : m <= n
<1>1. IsWellFoundedOn(OpToRel(<, Nat), Nat)
  BY NatLessThanWellFounded
<1>2. PICK m \in S : \A n \in S : <<n, m>> \notin OpToRel(<, Nat)
  BY <1>1, WFMin
<1>3. \A n \in S : ~(n < m)
  BY <1>2 DEF OpToRel
<1> QED
  BY <1>3

LEMMA Inductive ==
  ASSUME NEW S, 0 \in S, \A n \in S \cap Nat : n + 1 \in S
  PROVE  Nat \subseteq S
<1> SUFFICES ASSUME Nat \ S # {} PROVE FALSE
  OBVIOUS
<1>1. PICK m \in Nat \ S : \A n \in Nat \ S : m <= n
  BY LeastOne
<1>2. m - 1 \in Nat /\ (m - 1) + 1 = m
  BY <1>1
<1>3. m - 1 \in S
  <2> SUFFICES ASSUME m - 1 \notin S PROVE FALSE
    OBVIOUS
  <2>1. m <= m - 1
    BY <1>1, <1>2
  <2> QED
    BY <2>1, <1>2
<1> QED
  BY <1>1, <1>2, <1>3

-----------------------------------------------------------------------------
(* Sums.                                                                   *)

LEMMA RunningExists ==
  ASSUME NEW s, NEW n \in Nat
  PROVE  \E f : f = [k \in 0 .. n |-> IF k = 0 THEN 0 ELSE f[k - 1] + s[k]]
<1> DEFINE S == {m \in Nat : \E f : f = [k \in 0 .. m |-> IF k = 0 THEN 0 ELSE f[k - 1] + s[k]]}
<1>1. 0 \in S
  <2> DEFINE f == [k \in 0 .. 0 |-> 0]
  <2>1. f = [k \in 0 .. 0 |-> IF k = 0 THEN 0 ELSE f[k - 1] + s[k]]
    OBVIOUS
  <2> HIDE DEF f
  <2> QED
    BY <2>1
<1>2. ASSUME NEW m \in S PROVE m + 1 \in S
  <2>1. PICK f : f = [k \in 0 .. m |-> IF k = 0 THEN 0 ELSE f[k - 1] + s[k]]
    OBVIOUS
  <2> DEFINE g == [k \in 0 .. m + 1 |-> IF k = m + 1 THEN f[m] + s[m + 1] ELSE f[k]]
  <2>2. ASSUME NEW k \in 0 .. m + 1
        PROVE  g[k] = IF k = 0 THEN 0 ELSE g[k - 1] + s[k]
    <3>1. CASE k = m + 1
      <4>1. k # 0 /\ k - 1 = m /\ m \in 0 .. m + 1 /\ m # m + 1
        BY <3>1
      <4> QED
        BY <3>1, <4>1
    <3>2. CASE k # m + 1
      <4>1. k \in 0 .. m /\ (k # 0 => k - 1 \in 0 .. m + 1 /\ k - 1 # m + 1)
        BY <3>2
      <4>2. f[k] = IF k = 0 THEN 0 ELSE f[k - 1] + s[k]
        BY <2>1, <4>1
      <4> QED
        BY <3>2, <4>1, <4>2
    <3> QED
      BY <3>1, <3>2
  <2>3. g = [k \in 0 .. m + 1 |-> g[k]]
    OBVIOUS
  <2> HIDE DEF g
  <2>4. g = [k \in 0 .. m + 1 |-> IF k = 0 THEN 0 ELSE g[k - 1] + s[k]]
    BY <2>2, <2>3
  <2> QED
    BY <2>4
<1> HIDE DEF S
<1>3. Nat \subseteq S
  BY <1>1, <1>2, Inductive
<1> QED
  BY <1>3 DEF S

LEMMA OffsetsStep ==
  ASSUME NEW s \in Seq(Nat)
  PROVE  /\ Offsets(s)[0] = 0
         /\ \A n \in 1 .. Len(s) : Offsets(s)[n] = Offsets(s)[n - 1] + s[n]
<1> DEFINE o == Offsets(s)
<1>1. Len(s) \in Nat
  BY LenProperties
<1>2. o = CHOOSE f : f = [k \in 0 .. Len(s) |-> IF k = 0 THEN 0 ELSE f[k - 1] + s[k]]
  BY DEF Offsets
<1>3. o = [k \in 0 .. Len(s) |-> IF k = 0 THEN 0 ELSE o[k - 1] + s[k]]
  <2> HIDE DEF o
  <2> QED
    BY <1>1, <1>2, RunningExists
<1> HIDE DEF o
<1>4. o[0] = 0 /\ \A n \in 1 .. Len(s) : o[n] = o[n - 1] + s[n]
  <2>1. 0 \in 0 .. Len(s) /\ \A n \in 1 .. Len(s) : n \in 0 .. Len(s) /\ n # 0
    BY <1>1
  <2> QED
    BY <1>3, <2>1
<1> QED
  BY <1>4 DEF o

LEMMA OffsetsAre ==
  ASSUME NEW s \in Seq(Nat), NEW f, f[0] = 0, \A n \in 1 .. Len(s) : f[n] = f[n - 1] + s[n]
  PROVE  \A n \in 0 .. Len(s) : Offsets(s)[n] = f[n]
<1> DEFINE S == {n \in Nat : n <= Len(s) => Offsets(s)[n] = f[n]}
<1>1. 0 \in S
  BY OffsetsStep
<1>2. ASSUME NEW n \in S PROVE n + 1 \in S
  <2> SUFFICES ASSUME n + 1 <= Len(s) PROVE Offsets(s)[n + 1] = f[n + 1]
    OBVIOUS
  <2>1. Len(s) \in Nat /\ n + 1 \in 1 .. Len(s) /\ (n + 1) - 1 = n /\ n <= Len(s)
    BY LenProperties
  <2> QED
    BY <2>1, OffsetsStep
<1> HIDE DEF S
<1>3. Nat \subseteq S
  BY <1>1, <1>2, Inductive
<1>4. Len(s) \in Nat
  BY LenProperties
<1> QED
  BY <1>3, <1>4 DEF S

-----------------------------------------------------------------------------
(* The arithmetic of a plan.                                               *)

LEMMA Divides ==
  ASSUME NEW a \in Nat, NEW d \in Nat \ {0}
  PROVE  a \div d \in Nat /\ a % d \in 0 .. d - 1 /\ a = d * (a \div d) + (a % d)
<1>1. a \div d \in Nat /\ a % d \in 0 .. d - 1
  OBVIOUS
<1>2. a = d * (a \div d) + (a % d)
  OBVIOUS
<1> QED
  BY <1>1, <1>2

\* So many chunks hold all, and with one less something is left.
LEMMA CeilingHolds ==
  ASSUME NEW n \in Nat, NEW d \in Nat \ {0}
  PROVE  /\ Ceiling(n, d) \in Nat
         /\ d * Ceiling(n, d) >= n /\ d * Ceiling(n, d) < n + d
         /\ n > 0 => Ceiling(n, d) > 0
<1> DEFINE q == (n + d - 1) \div d
           r == (n + d - 1) % d
<1>1. n + d - 1 \in Nat
  OBVIOUS
<1>2. q \in Nat /\ r \in 0 .. d - 1 /\ n + d - 1 = d * q + r
  BY <1>1, Divides
<1> HIDE DEF q, r
<1>3. d * q \in Nat /\ (q = 0 => d * q = 0)
  BY <1>2
<1>4. d * q >= n /\ d * q < n + d /\ (n > 0 => q > 0)
  BY <1>2, <1>3
<1> QED
  BY <1>2, <1>4 DEF Ceiling, q

\* b chunks of one size before k of another.
Two(b, big, k, small) == [i \in 1 .. b |-> big] \o [i \in 1 .. k |-> small]

LEMMA TwoLength ==
  ASSUME NEW b \in Nat, NEW big \in Nat, NEW k \in Nat, NEW small \in Nat,
         NEW s, s = Two(b, big, k, small)
  PROVE  s \in Seq(Nat) /\ Len(s) = b + k
<1>1. [i \in 1 .. b |-> big] \in Seq(Nat) /\ Len([i \in 1 .. b |-> big]) = b
  OBVIOUS
<1>2. [i \in 1 .. k |-> small] \in Seq(Nat) /\ Len([i \in 1 .. k |-> small]) = k
  OBVIOUS
<1> QED
  BY <1>1, <1>2, ConcatProperties DEF Two

\* The first b places of s hold big, the next k hold small.
HasTwo(s, b, big, k, small) ==
  /\ \A i \in 1 .. b : s[i] = big
  /\ \A i \in b + 1 .. b + k : s[i] = small

LEMMA TwoPlaces ==
  ASSUME NEW b \in Nat, NEW big \in Nat, NEW k \in Nat, NEW small \in Nat,
         NEW s, s = Two(b, big, k, small)
  PROVE  HasTwo(s, b, big, k, small)
<1> DEFINE u == [i \in 1 .. b |-> big]
           t == [i \in 1 .. k |-> small]
<1>1. u \in Seq(Nat) /\ Len(u) = b /\ \A i \in 1 .. b : u[i] = big
  OBVIOUS
<1>2. t \in Seq(Nat) /\ Len(t) = k /\ \A i \in 1 .. k : t[i] = small
  OBVIOUS
<1>0. s = u \o t
  BY DEF Two
<1> HIDE DEF u, t
<1>3. /\ s \in Seq(Nat) /\ Len(s) = b + k
      /\ \A i \in 1 .. b + k : s[i] = IF i <= b THEN u[i] ELSE t[i - b]
  <2>1. /\ u \o t \in Seq(Nat) /\ Len(u \o t) = b + k
        /\ \A i \in 1 .. b + k : (u \o t)[i] = IF i <= b THEN u[i] ELSE t[i - b]
    BY <1>1, <1>2, ConcatProperties
  <2> QED
    BY <1>0, <2>1, Zenon
<1>4. \A i \in 1 .. b : s[i] = big
  BY <1>1, <1>3
<1>5. \A i \in b + 1 .. b + k : s[i] = small
  <2> TAKE i \in b + 1 .. b + k
  <2>1. i \in 1 .. b + k /\ ~(i <= b) /\ i - b \in 1 .. k
    OBVIOUS
  <2> QED
    BY <1>2, <1>3, <2>1
<1> QED
  BY <1>3, <1>4, <1>5 DEF HasTwo

LEMMA TwoTotal ==
  ASSUME NEW b \in Nat, NEW big \in Nat, NEW k \in Nat, NEW small \in Nat,
         NEW s, s = Two(b, big, k, small)
  PROVE  Total(s) = b * big + k * small
<1> DEFINE f == [n \in 0 .. b + k |-> IF n <= b THEN n * big ELSE b * big + (n - b) * small]
<1>1. /\ s \in Seq(Nat) /\ Len(s) = b + k
      /\ \A i \in 1 .. b : s[i] = big
      /\ \A i \in b + 1 .. b + k : s[i] = small
  <2> HIDE DEF f
  <2>1. s \in Seq(Nat) /\ Len(s) = b + k
    BY TwoLength
  <2>2. HasTwo(s, b, big, k, small)
    BY TwoPlaces
  <2> QED
    BY <2>1, <2>2 DEF HasTwo
<1>2. f[0] = 0
  OBVIOUS
<1>3. ASSUME NEW n \in 1 .. Len(s) PROVE f[n] = f[n - 1] + s[n]
  <2>1. n \in 0 .. b + k /\ n - 1 \in 0 .. b + k /\ n \in Nat /\ n - 1 \in Nat
    BY <1>1
  <2>2. CASE n <= b
    <3>1. f[n] = n * big /\ f[n - 1] = (n - 1) * big /\ s[n] = big
      BY <1>1, <2>1, <2>2
    <3>2. n * big = (n - 1) * big + big
      BY <2>1
    <3> QED
      BY <3>1, <3>2
  <2>3. CASE n = b + 1
    <3>1. f[n] = b * big + 1 * small /\ f[n - 1] = b * big /\ s[n] = small
      BY <1>1, <2>1, <2>3
    <3> QED
      BY <3>1
  <2>4. CASE n > b + 1
    <3>1. f[n] = b * big + (n - b) * small /\ f[n - 1] = b * big + (n - 1 - b) * small /\ s[n] = small
      BY <1>1, <2>1, <2>4
    <3>2. n - b \in Nat /\ (n - b) * small = (n - 1 - b) * small + small
      BY <2>1, <2>4
    <3>3. b * big \in Int /\ (n - 1 - b) * small \in Int
      BY <2>1
    <3> HIDE DEF f
    <3> QED
      BY <3>1, <3>2, <3>3
  <2> QED
    BY <2>1, <2>2, <2>3, <2>4
<1>4. f[b + k] = b * big + k * small
  <2>1. CASE k = 0
    BY <2>1
  <2>2. CASE k # 0
    <3>1. b + k \in 0 .. b + k /\ ~(b + k <= b) /\ (b + k) - b = k
      BY <2>2
    <3> QED
      BY <3>1
  <2> QED
    BY <2>1, <2>2
<1> HIDE DEF f
<1>5. Len(s) \in 0 .. Len(s) /\ \A n \in 1 .. Len(s) : f[n] = f[n - 1] + s[n]
  BY <1>1, <1>3
<1>6. Offsets(s)[Len(s)] = f[Len(s)]
  BY <1>1, <1>2, <1>5, OffsetsAre
<1> QED
  BY <1>1, <1>4, <1>6 DEF Total
-----------------------------------------------------------------------------
(* Plans.                                                                  *)

\* The sizes are far apart, as 64K, 256K, 1M and 4M are.
Scaled == 4 * Medium <= Large /\ 4 * Large <= Huge

LEMMA BandsFit ==
  ASSUME Scaled, NEW size \in Nat
  PROVE  LET bands == ChunkBands(size)
         IN  /\ bands.small \in Nat \ {0} /\ bands.big \in Nat \ {0} /\ bands.small <= bands.big
             /\ bands.small = Small \/ 3 * bands.small < size
<1>1. /\ Small \in Nat \ {0} /\ Medium \in Nat \ {0} /\ Large \in Nat \ {0} /\ Huge \in Nat \ {0}
      /\ Small <= Medium /\ Medium <= Large /\ Large <= Huge
  BY XftpAssumption
<1>2. CASE size > ThreeQuarter(Huge)
  <2>1. ChunkBands(size) = [small |-> Large, big |-> Huge]
    BY <1>2 DEF ChunkBands
  <2>2. 3 * Large < size
    BY <1>1, <1>2 DEF ThreeQuarter, Scaled
  <2> QED
    BY <1>1, <2>1, <2>2
<1>3. CASE ~(size > ThreeQuarter(Huge)) /\ size > ThreeQuarter(Large)
  <2>1. ChunkBands(size) = [small |-> Medium, big |-> Large]
    BY <1>3 DEF ChunkBands
  <2>2. 3 * Medium < size
    BY <1>1, <1>3 DEF ThreeQuarter, Scaled
  <2> QED
    BY <1>1, <2>1, <2>2
<1>4. CASE ~(size > ThreeQuarter(Huge)) /\ ~(size > ThreeQuarter(Large))
  <2>1. ChunkBands(size) = [small |-> Small, big |-> Medium]
    BY <1>4 DEF ChunkBands
  <2> QED
    BY <1>1, <2>1
<1> QED
  BY <1>2, <1>3, <1>4

\* A web plan has chunks of one size and then of one that is not larger, which
\* hold the payload; not so without the last; and the padding is small.
LEMMA WebPlan ==
  ASSUME Scaled, NEW size \in Nat
  PROVE  \E b, big, k, small \in Nat :
           /\ ChunkSizes(size) = Two(b, big, k, small)
           /\ small <= big /\ b * big + k * small >= size
           /\ size > 0 => /\ b + k > 0
                          /\ b * big + k * small - (IF k > 0 THEN small ELSE big) < size
           /\ \/ b * big + k * small - size < Small
              \/ 3 * (b * big + k * small - size) < size
<1> DEFINE bands == ChunkBands(size)
           big   == bands.big
           b     == size \div big
           left  == size % big
           k     == Ceiling(left, bands.small)
<1>1. /\ bands.small \in Nat \ {0} /\ big \in Nat \ {0} /\ bands.small <= big
      /\ bands.small = Small \/ 3 * bands.small < size
  BY BandsFit
<1>2. Small \in Nat \ {0}
  BY XftpAssumption
<1>3. ChunkSizes(size) =
        [i \in 1 .. b |-> big] \o (IF left > ThreeQuarter(big) THEN << big >>
                                   ELSE [i \in 1 .. k |-> bands.small])
  BY DEF ChunkSizes
<1> HIDE DEF bands, big
<1>4. b \in Nat /\ left \in 0 .. big - 1 /\ size = big * b + left
  BY <1>1, Divides
<1> HIDE DEF b, left
<1>5. b * big \in Nat /\ b * big = big * b
  BY <1>1, <1>4
<1>6. CASE left > ThreeQuarter(big)
  <2>1. << big >> = [i \in 1 .. 1 |-> big]
    OBVIOUS
  <2>2. ChunkSizes(size) = Two(b, big, 1, big)
    BY <1>3, <1>6, <2>1 DEF Two
  <2>3. 3 * (big - left) < left
    BY <1>1, <1>4, <1>6 DEF ThreeQuarter
  <2>4. 1 * big = big /\ 1 \in Nat
    BY <1>1
  <2>5. /\ big <= big /\ b * big + 1 * big >= size
        /\ b + 1 > 0 /\ b * big + 1 * big - big < size
        /\ 3 * (b * big + 1 * big - size) < size
    BY <1>1, <1>4, <1>5, <1>6, <2>3, <2>4 DEF ThreeQuarter
  <2> QED
    BY <1>1, <1>4, <2>2, <2>4, <2>5
<1>7. CASE ~(left > ThreeQuarter(big))
  <2> DEFINE small == bands.small
  <2>1. ChunkSizes(size) = Two(b, big, k, small)
    BY <1>3, <1>7 DEF Two
  <2>2. left \in Nat
    BY <1>1, <1>4
  <2>3. /\ k \in Nat /\ small * k >= left /\ small * k < left + small /\ (left > 0 => k > 0)
    BY <1>1, <2>2, CeilingHolds
  <2> HIDE DEF k, small
  <2>4. /\ k * small = small * k /\ k * small \in Nat /\ (k = 0 => k * small = 0)
        /\ (b = 0 => b * big = 0)
    BY <1>1, <1>4, <2>3 DEF small
  <2>5. small \in Nat /\ small <= big /\ b * big + k * small >= size
    BY <1>1, <1>4, <1>5, <2>2, <2>3, <2>4 DEF small
  <2>6. size > 0 => b + k > 0 /\ b * big + k * small - (IF k > 0 THEN small ELSE big) < size
    BY <1>1, <1>4, <1>5, <2>2, <2>3, <2>4, <2>5
  <2>7. \/ b * big + k * small - size < Small
        \/ 3 * (b * big + k * small - size) < size
    BY <1>1, <1>2, <1>4, <1>5, <2>2, <2>3, <2>4, <2>5 DEF small
  <2> QED
    BY <1>1, <1>4, <2>1, <2>3, <2>5, <2>6, <2>7
<1> QED
  BY <1>6, <1>7

LEMMA LargerOfTwo == ASSUME NEW a \in Int, NEW b \in Int PROVE Max({a, b}) = IF a >= b THEN a ELSE b
  BY DEF Max

LEMMA SmallerOfTwo == ASSUME NEW a \in Int, NEW b \in Int PROVE Min({a, b}) = IF a <= b THEN a ELSE b
  BY DEF Min

\* A plan of the store: full chunks, and a last one that holds the rest.
LEMMA StorePlan ==
  ASSUME NEW size \in Nat, NEW s, s = StoreSizes(size)
  PROVE  /\ s \in Seq(Nat) /\ Len(s) \in Nat \ {0}
         /\ Total(s) = size /\ (size > 0 => Total(s) - s[Len(s)] < size)
         /\ \A i \in 2 .. Len(s) : s[i] <= s[i - 1]
<1> DEFINE c     == StoreChunk
           count == Max({1, Ceiling(size, c)})
<1>1. c \in Nat \ {0}
  BY XftpAssumption
<1>2. Ceiling(size, c) \in Nat /\ c * Ceiling(size, c) >= size /\ c * Ceiling(size, c) < size + c
  BY <1>1, CeilingHolds
<1>3. count = IF 1 >= Ceiling(size, c) THEN 1 ELSE Ceiling(size, c)
  BY <1>2, LargerOfTwo
<1>4. count \in Nat \ {0} /\ c * count >= size /\ (size > 0 => c * (count - 1) < size) /\ c * (count - 1) <= size
  <2>1. CASE Ceiling(size, c) = 0
    <3>1. size = 0 /\ count = 1 /\ c * 1 = c /\ c * (1 - 1) = 0
      BY <1>1, <1>2, <1>3, <2>1
    <3> QED
      BY <1>1, <3>1
  <2>2. CASE Ceiling(size, c) # 0
    <3>1. count = Ceiling(size, c)
      BY <1>2, <1>3, <2>2
    <3> HIDE DEF count, c
    <3>2. count \in Nat \ {0} /\ c * count >= size /\ c * count < size + c /\ c * (count - 1) = c * count - c
      BY <1>1, <1>2, <2>2, <3>1
    <3>3. c * count \in Nat
      BY <1>1, <3>2
    <3> QED
      BY <1>1, <3>2, <3>3
  <2> QED
    BY <2>1, <2>2
<1> HIDE DEF count, c
<1>5. ASSUME NEW i \in 1 .. count
      PROVE  /\ c * (i - 1) \in Nat /\ c * i \in Nat /\ c * i = c * (i - 1) + c /\ c * (i - 1) <= size
             /\ i < count => c * i <= size
  <2>1. i \in Nat /\ i - 1 \in Nat /\ i - 1 <= count - 1 /\ count - 1 \in Nat
    BY <1>4
  <2>2. c * (i - 1) \in Nat /\ c * i \in Nat /\ c * i = c * (i - 1) + c /\ c * (count - 1) \in Nat
    BY <1>1, <2>1
  <2>3. c * (i - 1) <= c * (count - 1) /\ (i < count => c * i <= c * (count - 1))
    <3>1. PICK d \in Nat : count - 1 = (i - 1) + d
      BY <2>1
    <3>2. c * (count - 1) = c * (i - 1) + c * d /\ c * d \in Nat
      BY <1>1, <2>1, <3>1
    <3>3. ASSUME i < count PROVE c * i <= c * (count - 1)
      <4>0. (count - 1) - i \in Nat /\ count - 1 = i + ((count - 1) - i)
        BY <1>4, <2>1, <3>3
      <4>1. PICK e \in Nat : count - 1 = i + e
        BY <4>0
      <4>2. c * (count - 1) = c * i + c * e /\ c * e \in Nat
        BY <1>1, <2>1, <4>1
      <4> QED
        BY <2>2, <4>2
    <3> QED
      BY <2>2, <3>2, <3>3
  <2> QED
    BY <1>4, <2>2, <2>3
<1>6. s = [i \in 1 .. count |-> Min({c, size - (i - 1) * c})]
  BY DEF StoreSizes, count, c
<1>7. ASSUME NEW i \in 1 .. count
      PROVE  s[i] = IF c * i <= size THEN c ELSE size - c * (i - 1)
  <2>1. (i - 1) * c = c * (i - 1)
    BY <1>1, <1>4
  <2>2. s[i] = Min({c, size - c * (i - 1)})
    BY <1>6, <2>1
  <2>3. Min({c, size - c * (i - 1)}) = IF c <= size - c * (i - 1) THEN c ELSE size - c * (i - 1)
    BY <1>1, <1>5, SmallerOfTwo
  <2> QED
    BY <1>1, <1>5, <2>2, <2>3
<1>8. s \in Seq(Nat) /\ Len(s) = count
  <2>1. \A i \in 1 .. count : s[i] \in Nat
    BY <1>1, <1>5, <1>7
  <2>2. s = [i \in 1 .. count |-> s[i]]
    BY <1>6
  <2>3. count \in Nat
    BY <1>4
  <2>4. [i \in 1 .. count |-> s[i]] \in Seq(Nat) /\ Len([i \in 1 .. count |-> s[i]]) = count
    BY <2>1, <2>3
  <2> QED
    BY <2>2, <2>4, Zenon
<1> DEFINE f == [n \in 0 .. count |-> IF c * n <= size THEN c * n ELSE size]
<1>9. f[0] = 0
  BY <1>1, <1>4
<1>10. ASSUME NEW n \in 1 .. count PROVE f[n] = f[n - 1] + s[n]
  <2>1. n \in 0 .. count /\ n - 1 \in 0 .. count
    BY <1>4
  <2>2. f[n] = (IF c * n <= size THEN c * n ELSE size) /\ f[n - 1] = c * (n - 1)
    BY <1>5, <2>1
  <2> HIDE DEF f
  <2> QED
    BY <1>1, <1>5, <1>7, <2>2
<1>11. f[count] = size
  <2>1. count \in 0 .. count /\ c * count \in Nat
    BY <1>1, <1>4
  <2>2. c * count >= size
    BY <1>4
  <2> QED
    BY <2>1, <2>2
<1> HIDE DEF f
<1>12. Total(s) = size
  <2>1. \A n \in 1 .. Len(s) : f[n] = f[n - 1] + s[n]
    BY <1>8, <1>10
  <2>2. count \in 0 .. Len(s)
    BY <1>4, <1>8
  <2>3. Offsets(s)[count] = f[count]
    BY <1>8, <1>9, <2>1, <2>2, OffsetsAre
  <2> QED
    BY <1>8, <1>11, <2>3 DEF Total
<1>13. ASSUME size > 0 PROVE size - s[count] < size
  <2>1. count \in 1 .. count
    BY <1>4
  <2>2. s[count] > 0
    BY <1>1, <1>4, <1>5, <1>7, <1>13, <2>1
  <2>3. s[count] \in Nat
    BY <1>1, <1>5, <1>7, <2>1
  <2> QED
    BY <2>2, <2>3
<1>14. ASSUME NEW i \in 2 .. count PROVE s[i] <= s[i - 1]
  <2>1. i \in 1 .. count /\ i - 1 \in 1 .. count /\ i - 1 < count
    BY <1>4
  <2>2. s[i - 1] = c
    BY <1>5, <1>7, <2>1
  <2> QED
    BY <1>1, <1>5, <1>7, <2>1, <2>2
<1> QED
  BY <1>4, <1>8, <1>12, <1>13, <1>14

LEMMA PlansFit == ASSUME Scaled, payload \in Nat, profile \in {"web", "store"} PROVE PlanFits
<1>1. CASE profile = "web"
  <2>1. PICK b \in Nat, big \in Nat, k \in Nat, small \in Nat :
           /\ ChunkSizes(payload) = Two(b, big, k, small)
           /\ small <= big /\ b * big + k * small >= payload
           /\ payload > 0 => /\ b + k > 0
                             /\ b * big + k * small - (IF k > 0 THEN small ELSE big) < payload
           /\ \/ b * big + k * small - payload < Small
              \/ 3 * (b * big + k * small - payload) < payload
    BY WebPlan
  <2> DEFINE s == Sizes
  <2>2. s = Two(b, big, k, small)
    BY <1>1, <2>1 DEF Sizes
  <2> HIDE DEF s
  <2>3. Len(s) = b + k /\ Total(s) = b * big + k * small
    <3>1. Len(s) = b + k
      BY <2>2, TwoLength
    <3>2. Total(s) = b * big + k * small
      BY <2>2, TwoTotal
    <3> QED
      BY <3>1, <3>2
  <2>4. HasTwo(s, b, big, k, small)
    BY <2>2, TwoPlaces
  <2>5. /\ \A i \in 1 .. b : s[i] = big
        /\ \A i \in b + 1 .. b + k : s[i] = small
    BY <2>4 DEF HasTwo
  <2>6. ASSUME payload > 0 PROVE Last(s) = IF k > 0 THEN small ELSE big
    BY <2>1, <2>3, <2>5, <2>6 DEF Last
  <2>7. ASSUME NEW i \in 2 .. Len(s) PROVE s[i] <= s[i - 1]
    <3>1. CASE i <= b
      <4>1. i \in 1 .. b /\ i - 1 \in 1 .. b
        BY <2>3, <3>1
      <4> QED
        BY <2>5, <4>1
    <3>2. CASE i = b + 1
      <4>1. i \in b + 1 .. b + k /\ i - 1 \in 1 .. b
        BY <2>3, <3>2
      <4> QED
        BY <2>1, <2>5, <4>1
    <3>3. CASE i > b + 1
      <4>1. i \in b + 1 .. b + k /\ i - 1 \in b + 1 .. b + k
        BY <2>3, <3>3
      <4> QED
        BY <2>5, <4>1
    <3> QED
      BY <2>3, <3>1, <3>2, <3>3
  <2>8. /\ Total(s) >= payload
        /\ payload > 0 => Total(s) - Last(s) < payload
        /\ Total(s) - payload < Small \/ 3 * (Total(s) - payload) < payload
    BY <2>1, <2>3, <2>6
  <2> QED
    BY <1>1, <2>7, <2>8 DEF PlanFits, s
<1>2. CASE profile = "store"
  <2> DEFINE s == Sizes
  <2>1. s = StoreSizes(payload)
    BY <1>2 DEF Sizes
  <2> HIDE DEF s
  <2>2. /\ Total(s) = payload /\ (payload > 0 => Total(s) - s[Len(s)] < payload)
        /\ \A i \in 2 .. Len(s) : s[i] <= s[i - 1]
    BY <2>1, StorePlan
  <2>3. Last(s) = s[Len(s)] /\ profile # "web" /\ Total(s) >= payload
    BY <1>2, <2>2 DEF Last
  <2>4. payload > 0 => Total(s) - Last(s) < payload
    BY <2>2, <2>3
  <2> QED
    BY <2>2, <2>3, <2>4 DEF PlanFits, s
<1> QED
  BY <1>1, <1>2

\* Whatever is uploaded, with either client: its plan holds it, with no chunk
\* too many, the larger chunks first, and with little or no padding.
THEOREM EveryPlanFits == ASSUME Scaled PROVE Spec => []PlanFits
<1> DEFINE I == payload \in Payload /\ profile \in {"web", "store"}
<1>1. Init => I
  BY DEF Init
<1>2. I /\ [Next]_vars => I'
  BY DEF Next, vars, ConnectXftp, CreateFile, PutFile, Undo, Cleanup, PutChunk, StartDelete,
         Delete, StartDownload, GetChunk, Sending
<1>3. I => PlanFits
  BY PlansFit, XftpAssumption
<1> QED
  BY <1>1, <1>2, <1>3, PTL DEF Spec

-----------------------------------------------------------------------------
(* Lists of chunks.                                                        *)

LEMMA BandsPositive ==
  ASSUME NEW size \in Nat
  PROVE  ChunkBands(size).small \in Nat \ {0} /\ ChunkBands(size).big \in Nat \ {0}
  BY XftpAssumption DEF ChunkBands

LEMMA PlanIsList == ASSUME payload \in Nat, profile \in {"web", "store"} PROVE Sizes \in Seq(Nat)
<1>1. CASE profile = "web"
  <2> DEFINE bands == ChunkBands(payload)
             big   == bands.big
             left  == payload % big
             k     == Ceiling(left, bands.small)
             full  == [i \in 1 .. payload \div big |-> big]
             last  == IF left > ThreeQuarter(big) THEN << big >> ELSE [i \in 1 .. k |-> bands.small]
  <2>1. bands.small \in Nat \ {0} /\ big \in Nat \ {0}
    BY BandsPositive
  <2>2. Sizes = full \o last
    BY <1>1 DEF Sizes, ChunkSizes
  <2> HIDE DEF bands, big
  <2>3. payload \div big \in Nat /\ left \in Nat
    <3>1. payload \div big \in Nat /\ payload % big \in 0 .. big - 1
      BY <2>1, Divides
    <3> QED
      BY <2>1, <3>1
  <2>4. full \in Seq(Nat)
    BY <2>1, <2>3
  <2> HIDE DEF full, left
  <2>5. k \in Nat
    BY <2>1, <2>3, CeilingHolds
  <2> HIDE DEF k
  <2>6. last \in Seq(Nat)
    BY <2>1, <2>5
  <2> HIDE DEF last
  <2> QED
    BY <2>2, <2>4, <2>6, ConcatProperties
<1>2. CASE profile = "store"
  <2>1. Sizes = StoreSizes(payload)
    BY <1>2 DEF Sizes
  <2> QED
    BY <2>1, StorePlan
<1> QED
  BY <1>1, <1>2

\* The chunks of c are numbered from 1 as they stand.
CarryNumbers(c) ==
  /\ Len(c) \in Nat /\ c = [i \in 1 .. Len(c) |-> c[i]]
  /\ \A i \in 1 .. Len(c) : c[i].no = i

LEMMA Unmoved ==
  ASSUME NEW n \in Nat, NEW m \in [1 .. n -> 1 .. n], IsInjective(m),
         \A i \in 2 .. n : m[i - 1] <= m[i]
  PROVE  \A i \in 1 .. n : m[i] = i
<1>1. ASSUME NEW i \in 2 .. n PROVE m[i - 1] < m[i]
  <2>1. i - 1 \in 1 .. n /\ i \in 1 .. n /\ i - 1 # i
    OBVIOUS
  <2>2. m[i - 1] # m[i] /\ m[i - 1] \in 1 .. n /\ m[i] \in 1 .. n
    BY <2>1 DEF IsInjective
  <2> QED
    BY <1>1, <2>2
<1> DEFINE S == {k \in Nat : k + 1 \in 1 .. n => m[k + 1] >= k + 1}
           T == {k \in Nat : n - k \in 1 .. n => m[n - k] <= n - k}
<1>2. Nat \subseteq S
  <2>1. 0 \in S
    OBVIOUS
  <2>2. ASSUME NEW k \in S PROVE k + 1 \in S
    <3> SUFFICES ASSUME k + 2 \in 1 .. n PROVE m[k + 2] >= k + 2
      OBVIOUS
    <3>1. k + 2 \in 2 .. n /\ (k + 2) - 1 = k + 1 /\ k + 1 \in 1 .. n /\ m[k + 1] >= k + 1
      OBVIOUS
    <3>2. m[k + 1] < m[k + 2]
      BY <1>1, <3>1
    <3> QED
      BY <3>1, <3>2
  <2> HIDE DEF S
  <2> QED
    BY <2>1, <2>2, Inductive
<1>3. Nat \subseteq T
  <2>1. 0 \in T
    OBVIOUS
  <2>2. ASSUME NEW k \in T PROVE k + 1 \in T
    <3> SUFFICES ASSUME n - (k + 1) \in 1 .. n PROVE m[n - (k + 1)] <= n - (k + 1)
      OBVIOUS
    <3>1. n - k \in 2 .. n /\ (n - k) - 1 = n - (k + 1) /\ n - k \in 1 .. n /\ m[n - k] <= n - k
      OBVIOUS
    <3>2. m[n - (k + 1)] < m[n - k]
      BY <1>1, <3>1
    <3> QED
      BY <3>1, <3>2
  <2> HIDE DEF T
  <2> QED
    BY <2>1, <2>2, Inductive
<1>4. ASSUME NEW i \in 1 .. n PROVE m[i] = i
  <2>1. i - 1 \in Nat /\ n - i \in Nat /\ (i - 1) + 1 = i /\ n - (n - i) = i
    OBVIOUS
  <2>2. i - 1 \in S
    BY <1>2, <2>1, Zenon
  <2>3. n - i \in T
    BY <1>3, <2>1, Zenon
  <2>4. m[i] >= i /\ m[i] <= i
    BY <2>1, <2>2, <2>3
  <2> QED
    BY <2>4
<1> QED
  BY <1>4

\* The library's injections and those of FunctionTheorems are the same.
LEMMA OntoItself ==
  ASSUME NEW n \in Nat, NEW p \in [1 .. n -> 1 .. n], IsInjective(p)
  PROVE  \A j \in 1 .. n : \E i \in 1 .. n : p[i] = j
<1>1. IsFiniteSet(1 .. n)
  BY FS_Interval
<1>2. p \in Injection(1 .. n, 1 .. n)
  BY DEF Injection, IsInjective
<1>3. p \in Surjection(1 .. n, 1 .. n)
  BY <1>1, <1>2, FS_Injection
<1> QED
  BY <1>3 DEF Surjection

\* Sorting restores the order, whatever it was.
LEMMA SortRestores ==
  ASSUME NEW c, CarryNumbers(c), NEW d \in Reordered(c)
  PROVE  Sorted(d) = c
<1> DEFINE n == Len(c)
<1>1. n \in Nat /\ DOMAIN c = 1 .. n /\ c = [i \in 1 .. n |-> c[i]] /\ \A i \in 1 .. n : c[i].no = i
  BY DEF CarryNumbers
<1>2. PICK p \in [1 .. n -> 1 .. n] : IsInjective(p) /\ d = [i \in 1 .. n |-> c[p[i]]]
  BY <1>1 DEF Reordered
<1>3. DOMAIN d = 1 .. n
  BY <1>2
<1> HIDE DEF n
<1>4. c \in Reordered(d)
  <2> DEFINE q == [j \in 1 .. n |-> CHOOSE i \in 1 .. n : p[i] = j]
  <2>1. ASSUME NEW j \in 1 .. n PROVE q[j] \in 1 .. n /\ p[q[j]] = j
    <3>1. \E i \in 1 .. n : p[i] = j
      BY <1>1, <1>2, OntoItself
    <3>2. q[j] = CHOOSE i \in 1 .. n : p[i] = j
      OBVIOUS
    <3> QED
      BY <3>1, <3>2
  <2>2. q \in [1 .. n -> 1 .. n]
    BY <2>1
  <2> HIDE DEF q
  <2>3. IsInjective(q)
    BY <2>1, <2>2 DEF IsInjective
  <2>4. c = [i \in DOMAIN d |-> d[q[i]]]
    <3>1. \A i \in 1 .. n : d[q[i]] = c[i]
      BY <1>2, <2>1
    <3>2. c = [i \in 1 .. n |-> c[i]]
      BY <1>1
    <3> QED
      BY <1>3, <3>1, <3>2
  <2> QED
    BY <1>3, <2>2, <2>3, <2>4 DEF Reordered
<1>5. \A i \in 2 .. Len(c) : c[i - 1].no <= c[i].no
  BY <1>1 DEF n
<1>6. ASSUME NEW s \in Reordered(d), \A i \in 2 .. Len(s) : s[i - 1].no <= s[i].no
      PROVE  s = c
  <2>1. PICK r \in [1 .. n -> 1 .. n] : IsInjective(r) /\ s = [i \in 1 .. n |-> d[r[i]]]
    BY <1>3 DEF Reordered
  <2> DEFINE m == [i \in 1 .. n |-> p[r[i]]]
  <2>2. m \in [1 .. n -> 1 .. n] /\ IsInjective(m)
    BY <1>2, <2>1 DEF IsInjective
  <2>3. \A i \in 1 .. n : m[i] \in 1 .. n /\ s[i] = c[m[i]]
    BY <1>2, <2>1
  <2>4. Len(s) = n
    BY <1>1, <2>1
  <2> HIDE DEF m
  <2>5. ASSUME NEW i \in 2 .. n PROVE m[i - 1] <= m[i]
    <3>1. i \in 1 .. n /\ i - 1 \in 1 .. n /\ s[i - 1].no <= s[i].no
      BY <1>6, <2>4
    <3>2. s[i - 1].no = m[i - 1] /\ s[i].no = m[i]
      BY <1>1, <2>3, <3>1
    <3> QED
      BY <3>1, <3>2
  <2>6. \A i \in 1 .. n : m[i] = i
    BY <1>1, <2>2, <2>5, Unmoved
  <2>7. \A i \in 1 .. n : s[i] = c[i]
    BY <2>3, <2>6
  <2>8. s = [i \in 1 .. n |-> s[i]] /\ c = [i \in 1 .. n |-> c[i]]
    BY <1>1, <2>1
  <2> QED
    BY <2>7, <2>8
<1> QED
  BY <1>4, <1>5, <1>6 DEF Sorted
-----------------------------------------------------------------------------
(* The recipient.                                                          *)

Digests(chunks) == [i \in 1 .. Len(chunks) |-> chunks[i].digest]

\* A recipient that is on its way has taken the first digests of its list, which
\* is the sender's if the description arrived as it was sent, and else tells
\* something else.
RecvInv ==
  /\ recv.stage = "idle" => recv.got = <<>> /\ recv.faulted = FALSE
  /\ recv.stage = "getting" =>
       /\ Len(recv.got) \in Nat /\ Len(recv.chunks) \in Nat /\ Len(recv.got) < Len(recv.chunks)
       /\ recv.got = [i \in 1 .. Len(recv.got) |-> recv.chunks[i].digest]
       /\ recv.faulted = FALSE
       /\ IF recv.intact THEN recv.chunks = Chunks(Sizes, uploaded)
          ELSE Digests(recv.chunks) # Whole
  /\ DownloadIsTheFile

\* While and after chunks are sent, what is recorded is at the server, each chunk
\* in its file, until the sender deletes; before that, nobody receives.
GotInv ==
  /\ payload \in Nat /\ profile \in {"web", "store"}
  /\ stage # "planned" => Len(Sizes) <= MaxPieces
  /\ stage \in {"idle", "create", "put", "done"} =>
       \A i \in 1 .. Len(uploaded) : uploaded[i] \in DOMAIN server /\ server[uploaded[i]].chunk = i
  /\ stage = "put" => current \in DOMAIN server /\ server[current].chunk = at
  /\ stage \notin {"done", "deleting", "partly", "deleted"} => recv.stage = "idle"
  /\ RecvInv

LEMMA ListIsFunction ==
  ASSUME NEW S, NEW s \in Seq(S)
  PROVE  Len(s) \in Nat /\ s = [i \in 1 .. Len(s) |-> s[i]]
  OBVIOUS

LEMMA ChunksNumbered ==
  ASSUME Sizes \in Seq(Nat), NEW all, all = Chunks(Sizes, uploaded)
  PROVE  /\ CarryNumbers(all) /\ Len(all) = Len(Sizes) /\ DOMAIN all = 1 .. Len(Sizes)
         /\ \A i \in 1 .. Len(Sizes) :
              /\ all[i].no = i /\ all[i].digest = i /\ all[i].file = uploaded[i]
              /\ all[i].size = Sizes[i] /\ all[i].offset = Offsets(Sizes)[i - 1]
<1> DEFINE n == Len(Sizes)
<1>1. n \in Nat
  BY LenProperties
<1>2. all = [i \in 1 .. n |-> [no |-> i, offset |-> Offsets(Sizes)[i - 1],
                               size |-> Sizes[i], file |-> uploaded[i], digest |-> i]]
  BY DEF Chunks
<1> HIDE DEF n
<1>3. Len(all) = n /\ DOMAIN all = 1 .. n /\ all = [i \in 1 .. n |-> all[i]]
  BY <1>1, <1>2
<1>4. \A i \in 1 .. n :
        /\ all[i].no = i /\ all[i].digest = i /\ all[i].file = uploaded[i]
        /\ all[i].size = Sizes[i] /\ all[i].offset = Offsets(Sizes)[i - 1]
  BY <1>2
<1> QED
  BY <1>1, <1>3, <1>4 DEF CarryNumbers, n

LEMMA InPlace == ASSUME NEW c, CarryNumbers(c) PROVE c \in Reordered(c)
<1> DEFINE p == [i \in 1 .. Len(c) |-> i]
<1>1. DOMAIN c = 1 .. Len(c)
  BY DEF CarryNumbers
<1>2. p \in [1 .. Len(c) -> 1 .. Len(c)] /\ IsInjective(p)
  BY DEF IsInjective
<1>3. c = [i \in 1 .. Len(c) |-> c[p[i]]]
  BY DEF CarryNumbers
<1> HIDE DEF p
<1> QED
  BY <1>1, <1>2, <1>3 DEF Reordered

LEMMA SameLength ==
  ASSUME NEW c, CarryNumbers(c), NEW d \in Reordered(c)
  PROVE  Len(d) = Len(c)
<1>1. Len(c) \in Nat /\ DOMAIN c = 1 .. Len(c)
  BY DEF CarryNumbers
<1>2. PICK p \in [1 .. Len(c) -> 1 .. Len(c)] : d = [i \in 1 .. Len(c) |-> c[p[i]]]
  BY <1>1 DEF Reordered
<1> QED
  BY <1>1, <1>2

\* A description that arrived as it was sent is the sender's list; another one,
\* sorted, has other digests.
LEMMA WhatArrives ==
  ASSUME Sizes \in Seq(Nat), Len(Sizes) \in Nat \ {0}, NEW d \in Received
  PROVE  /\ d.intact => /\ Sorted(d.chunks) = Chunks(Sizes, uploaded)
                        /\ d.size = Total(Sizes) /\ Len(d.chunks) = Len(Sizes)
         /\ ~d.intact => Digests(Sorted(d.chunks)) # Whole
         /\ Len(Sorted(d.chunks)) = Len(d.chunks) /\ Len(d.chunks) \in Nat
<1> DEFINE all == Chunks(Sizes, uploaded)
           n   == Len(Sizes)
<1>1. /\ CarryNumbers(all) /\ Len(all) = n /\ DOMAIN all = 1 .. n
      /\ \A i \in 1 .. n : all[i].no = i /\ all[i].digest = i
  BY ChunksNumbered
<1>2. \/ \E c \in Reordered(all) : d = Described(TRUE, Sizes, c)
      \/ d = Described(FALSE, Front(Sizes), Front(all))
      \/ Len(all) > 1 /\ d = Described(FALSE, Sizes, Exchanged(all))
  BY DEF Received
<1>3. Whole = [i \in 1 .. n |-> i] /\ n \in Nat \ {0}
  BY DEF Whole
<1> HIDE DEF all, n
<1>4. CASE \E c \in Reordered(all) : d = Described(TRUE, Sizes, c)
  <2>1. PICK c \in Reordered(all) : d = Described(TRUE, Sizes, c)
    BY <1>4
  <2>2. d.intact = TRUE /\ d.chunks = c /\ d.size = Total(Sizes)
    BY <2>1 DEF Described
  <2>3. Sorted(c) = all /\ Len(c) = n
    BY <1>1, SortRestores, SameLength
  <2> QED
    BY <1>1, <1>3, <2>2, <2>3 DEF all, n
<1>5. CASE d = Described(FALSE, Front(Sizes), Front(all))
  <2> DEFINE c == Front(all)
  <2>1. d.intact = FALSE /\ d.chunks = c
    BY <1>5 DEF Described
  <2>2. Len(c) = n - 1 /\ \A i \in 1 .. n - 1 : c[i] = all[i]
    <3> DEFINE S == {all[i] : i \in 1 .. n}
    <3>1. c = SubSeq(all, 1, n - 1)
      BY <1>1 DEF Front
    <3>2. \A i \in 1 .. n - 1 : all[i] \in S
      BY <1>3
    <3> HIDE DEF c, S
    <3>3. /\ Len(c) = IF 1 <= n - 1 THEN (n - 1) - 1 + 1 ELSE 0
          /\ \A i \in 1 .. (n - 1) - 1 + 1 : c[i] = all[1 + i - 1]
      BY <1>3, <3>1, <3>2, SubSeqProperties
    <3> QED
      BY <1>3, <3>3
  <2>3. c = [i \in 1 .. n - 1 |-> c[i]]
    <3> DEFINE S == {all[i] : i \in 1 .. n}
    <3>1. c = SubSeq(all, 1, n - 1)
      BY <1>1 DEF Front
    <3>2. \A i \in 1 .. n - 1 : all[i] \in S
      BY <1>3
    <3> HIDE DEF c, S
    <3>3. c \in Seq(S)
      BY <1>3, <3>1, <3>2, SubSeqProperties
    <3> QED
      BY <2>2, <3>3, ListIsFunction DEF c
  <2> HIDE DEF c
  <2>4. CarryNumbers(c)
    BY <1>1, <1>3, <2>2, <2>3 DEF CarryNumbers
  <2>5. Sorted(c) = c
    BY <2>4, InPlace, SortRestores
  <2>6. Digests(c) # Whole
    <3>1. DOMAIN Digests(c) = 1 .. n - 1 /\ DOMAIN Whole = 1 .. n
      BY <1>3, <2>2 DEF Digests
    <3>2. n \in 1 .. n /\ n \notin 1 .. n - 1
      BY <1>3
    <3> QED
      BY <3>1, <3>2
  <2> QED
    BY <1>3, <2>1, <2>2, <2>5, <2>6
<1>6. CASE Len(all) > 1 /\ d = Described(FALSE, Sizes, Exchanged(all))
  <2> DEFINE c == Exchanged(all)
  <2>1. d.intact = FALSE /\ d.chunks = c
    BY <1>6 DEF Described
  <2>2. /\ 1 \in 1 .. n /\ 2 \in 1 .. n
        /\ all[1].no = 1 /\ all[2].no = 2 /\ all[2].digest = 2
    BY <1>1, <1>3, <1>6
  <2>3. /\ c = [i \in 1 .. n |-> c[i]] /\ Len(c) = n
        /\ \A i \in 1 .. n : c[i].no = i /\ c[1].digest = 2
    <3>1. all = [i \in 1 .. n |-> [no |-> i, offset |-> Offsets(Sizes)[i - 1],
                                   size |-> Sizes[i], file |-> uploaded[i], digest |-> i]]
      BY DEF all, n, Chunks
    <3>2. c = [all EXCEPT ![1].file = all[2].file, ![1].digest = all[2].digest,
                          ![2].file = all[1].file, ![2].digest = all[1].digest]
      BY DEF Exchanged
    <3> HIDE DEF c
    <3>3. c = [i \in 1 .. n |-> c[i]] /\ Len(c) = n
      <4> DEFINE e == [all EXCEPT ![1].file = all[2].file, ![1].digest = all[2].digest,
                                  ![2].file = all[1].file]
      <4>1. c = [e EXCEPT ![2].digest = all[1].digest]
        BY <3>2
      <4>2. DOMAIN e = 1 .. n
        BY <3>1
      <4> HIDE DEF e
      <4>3. c = [i \in 1 .. n |-> c[i]]
        BY <4>1, <4>2
      <4> QED
        BY <1>3, <4>3
    <3>4. c[1] = [[all[1] EXCEPT !.file = all[2].file] EXCEPT !.digest = all[2].digest]
      BY <2>2, <3>1, <3>2
    <3>5. c[2] = [[all[2] EXCEPT !.file = all[1].file] EXCEPT !.digest = all[1].digest]
      BY <2>2, <3>1, <3>2
    <3>6. c[1].no = 1 /\ c[1].digest = 2 /\ c[2].no = 2
      BY <2>2, <3>1, <3>4, <3>5
    <3>7. \A i \in 1 .. n : i # 1 /\ i # 2 => c[i] = all[i]
      BY <3>1, <3>2
    <3> QED
      BY <1>1, <3>3, <3>6, <3>7
  <2> HIDE DEF c
  <2>4. CarryNumbers(c)
    BY <1>3, <2>3 DEF CarryNumbers
  <2>5. Sorted(c) = c
    BY <2>4, InPlace, SortRestores
  <2>6. Digests(c)[1] = 2 /\ Whole[1] = 1
    BY <1>3, <2>2, <2>3 DEF Digests
  <2>7. Digests(c) # Whole
    BY <2>6
  <2> QED
    BY <1>3, <2>1, <2>3, <2>5, <2>7
<1> QED
  BY <1>2, <1>4, <1>5, <1>6
LEMMA OwnAccepted ==
  ASSUME Sizes \in Seq(Nat), Len(Sizes) \in 1 .. MaxDescribed, NEW d \in Received, d.intact
  PROVE  Accepted(d)
<1> DEFINE all == Chunks(Sizes, uploaded)
           n   == Len(Sizes)
<1>1. /\ CarryNumbers(all) /\ Len(all) = n
      /\ \A i \in 1 .. n : all[i].no = i /\ all[i].size = Sizes[i] /\ all[i].offset = Offsets(Sizes)[i - 1]
  BY ChunksNumbered
<1>2. n \in Nat \ {0}
  BY LenProperties
<1>3. Sorted(d.chunks) = all /\ d.size = Total(Sizes) /\ Len(d.chunks) = n
  BY <1>2, WhatArrives
<1>4. [i \in 1 .. Len(all) |-> all[i].size] = Sizes
  <2>1. Sizes = [i \in 1 .. n |-> Sizes[i]]
    BY ListIsFunction
  <2> HIDE DEF all, n
  <2> QED
    BY <1>1, <2>1
<1> HIDE DEF all
<1>5. WellFormed(d)
  <2>1. Len(all) \in 1 .. MaxDescribed
    BY <1>1
  <2>2. d.size = Offsets(Sizes)[Len(all)]
    BY <1>1, <1>3 DEF Total
  <2>3. \A i \in 1 .. Len(all) : all[i].no = i /\ all[i].offset = Offsets(Sizes)[i - 1]
    BY <1>1
  <2> HIDE DEF n
  <2> QED
    BY <1>3, <1>4, <2>1, <2>2, <2>3 DEF WellFormed
<1> QED
  BY <1>2, <1>3, <1>5 DEF Accepted

LEMMA GotInit == Init => GotInv
<1> SUFFICES ASSUME Init PROVE GotInv
  OBVIOUS
<1>1. payload \in Nat /\ profile \in {"web", "store"} /\ uploaded = <<>>
  BY XftpAssumption DEF Init
<1>2. stage \in {"idle", "planned"} /\ (stage # "planned" => Len(Sizes) <= MaxPieces)
  <2>1. stage = IF Len(Sizes) \in 1 .. MaxPieces THEN "idle" ELSE "planned"
    BY DEF Init
  <2> QED
    BY <2>1
<1>3. Len(uploaded) = 0
  BY <1>1
<1>4. recv.stage = "idle" /\ recv.got = <<>> /\ recv.faulted = FALSE
  BY DEF Init
<1>5. DownloadIsTheFile
  BY <1>4 DEF DownloadIsTheFile
<1> QED
  BY <1>1, <1>2, <1>3, <1>4, <1>5 DEF GotInv, RecvInv

LEMMA NobodyReceives ==
  ASSUME RecvInv, recv.stage = "idle", recv' = recv
  PROVE  RecvInv'
  BY DEF RecvInv, DownloadIsTheFile

\* The recipient's part holds on when the sender begins or goes on to delete.
LEMMA SenderDeletes ==
  ASSUME RecvInv, UNCHANGED <<recv, uploaded, profile, payload>>,
         stage' \in {"deleting", "partly", "deleted"}
  PROVE  RecvInv'
<1>1. Sizes' = Sizes /\ Whole' = Whole
  BY DEF Sizes, Whole
<1>2. Chunks(Sizes, uploaded)' = Chunks(Sizes, uploaded)
  BY <1>1 DEF Chunks
<1>3. DownloadIsTheFile'
  BY <1>1 DEF RecvInv, DownloadIsTheFile
<1> QED
  BY <1>1, <1>2, <1>3 DEF RecvInv

LEMMA GotNext ==
  ASSUME MaxPieces <= MaxDescribed, StagesInv, GotInv, [Next]_vars
  PROVE  GotInv'
<1> USE DEF GotInv
<1>0. Len(uploaded) \in Nat /\ uploaded \in Seq(Nat) /\ made \in Nat /\ DOMAIN server \subseteq 1 .. made
  BY LenProperties DEF StagesInv
<1>1. ASSUME ConnectXftp PROVE GotInv'
  <2>1. /\ UNCHANGED <<profile, payload, at, current, uploaded, server, made, faults, unknown, recv>>
        /\ stage = "idle" /\ stage' \in {"failed", "create"}
    BY <1>1 DEF ConnectXftp
  <2>2. Sizes' = Sizes
    BY <2>1, SamePlan
  <2>3. RecvInv'
    BY <2>1, NobodyReceives
  <2> QED
    BY <2>1, <2>2, <2>3
<1>2. ASSUME StartDelete PROVE GotInv'
  <2>1. /\ UNCHANGED <<profile, payload, version, current, uploaded, server, made, faults, unknown, recv>>
        /\ stage \in {"done", "partly"} /\ stage' = "deleting"
    BY <1>2 DEF StartDelete, Sending
  <2>2. Sizes' = Sizes
    BY <2>1, SamePlan
  <2>3. RecvInv'
    BY <2>1, SenderDeletes
  <2> QED
    BY <2>1, <2>2, <2>3
<1>3. ASSUME NEW result \in Result, CreateFile(result) PROVE GotInv'
  <2>1. /\ UNCHANGED <<profile, payload, version, at, uploaded, recv>> /\ stage = "create"
        /\ stage' = "cleanup" \/ (stage' = "put" /\ result = "ok" /\ current' = made')
    BY <1>3 DEF CreateFile, Sending
  <2>2. Sizes' = Sizes
    BY <2>1, SamePlan
  <2>3. RecvInv'
    BY <2>1, NobodyReceives
  <2>4. ASSUME stage' = "put"
        PROVE  /\ \A i \in 1 .. Len(uploaded) :
                    uploaded[i] \in DOMAIN server' /\ server'[uploaded[i]].chunk = i
               /\ current' \in DOMAIN server' /\ server'[current'].chunk = at
    <3>1. server' = Placed(made', [chunk |-> at, body |-> FALSE]) /\ made' = made + 1 /\ current' = made'
      BY <1>3, <2>1, <2>4 DEF CreateFile
    <3>2. made' \notin DOMAIN server
      BY <1>0, <3>1
    <3>3. /\ DOMAIN server' = DOMAIN server \cup {made'} /\ server'[made'].chunk = at
          /\ \A f \in DOMAIN server : server'[f] = server[f]
      BY <3>1, <3>2 DEF Placed
    <3> QED
      BY <2>1, <3>1, <3>3
  <2> QED
    BY <2>1, <2>2, <2>3, <2>4
<1>4. ASSUME NEW result \in Result, PutFile(result) PROVE GotInv'
  <2>1. /\ UNCHANGED <<profile, payload, version, current, made, unknown, recv>> /\ stage = "put"
        /\ stage' \in {"undo", "done", "create"}
    BY <1>4 DEF PutFile, AfterPut, Sending
  <2>2. Sizes' = Sizes
    BY <2>1, SamePlan
  <2>3. RecvInv'
    BY <2>1, NobodyReceives
  <2>4. ASSUME stage' \in {"create", "done"}
        PROVE  \A i \in 1 .. Len(uploaded') :
                 uploaded'[i] \in DOMAIN server' /\ server'[uploaded'[i]].chunk = i
    <3>1. /\ result = "ok" /\ server' = [server EXCEPT ![current].body = TRUE]
          /\ uploaded' = Append(uploaded, current)
      BY <1>4, <2>4 DEF PutFile, AfterPut
    <3>2. at = Len(uploaded) + 1 /\ current \in Nat
      BY <2>1 DEF StagesInv
    <3>3. /\ DOMAIN server' = DOMAIN server
          /\ \A f \in DOMAIN server : server'[f].chunk = server[f].chunk
      BY <3>1
    <3>4. /\ Len(uploaded') = Len(uploaded) + 1 /\ uploaded'[Len(uploaded) + 1] = current
          /\ \A i \in 1 .. Len(uploaded) : uploaded'[i] = uploaded[i]
      BY <1>0, <3>1, <3>2, AppendProperties
    <3>5. current \in DOMAIN server /\ server[current].chunk = at
      BY <2>1
    <3> TAKE i \in 1 .. Len(uploaded')
    <3>6. CASE i \in 1 .. Len(uploaded)
      BY <2>1, <3>3, <3>4, <3>6
    <3>7. CASE i = Len(uploaded) + 1
      BY <3>2, <3>3, <3>4, <3>5, <3>7
    <3> QED
      BY <1>0, <3>4, <3>6, <3>7
  <2> QED
    BY <2>1, <2>2, <2>3, <2>4
<1>5. ASSUME NEW result \in Result, Undo(result) PROVE GotInv'
  <2>1. UNCHANGED <<profile, payload, recv>> /\ stage = "undo" /\ stage' = "cleanup"
    BY <1>5 DEF Undo, Sending
  <2>2. Sizes' = Sizes
    BY <2>1, SamePlan
  <2>3. RecvInv'
    BY <2>1, NobodyReceives
  <2> QED
    BY <2>1, <2>2, <2>3
<1>6. ASSUME NEW result \in Result, Cleanup(result) PROVE GotInv'
  <2>1. UNCHANGED <<profile, payload, recv>> /\ stage = "cleanup" /\ stage' \in {"cleanup", "failed"}
    BY <1>6 DEF Cleanup, Sending
  <2>2. Sizes' = Sizes
    BY <2>1, SamePlan
  <2>3. RecvInv'
    BY <2>1, NobodyReceives
  <2> QED
    BY <2>1, <2>2, <2>3
<1>7. ASSUME NEW result \in Result, PutChunk(result) PROVE GotInv'
  <2>1. /\ UNCHANGED <<profile, payload, recv>> /\ stage = "idle" /\ stage' \in {"failed", "idle", "done"}
    BY <1>7 DEF PutChunk, Sending
  <2>2. Sizes' = Sizes
    BY <2>1, SamePlan
  <2>3. RecvInv'
    BY <2>1, NobodyReceives
  <2>4. ASSUME stage' \in {"idle", "done"}
        PROVE  \A i \in 1 .. Len(uploaded') :
                 uploaded'[i] \in DOMAIN server' /\ server'[uploaded'[i]].chunk = i
    <3>1. /\ result = "ok" /\ made' = made + 1 /\ uploaded' = Append(uploaded, made')
          /\ server' = Placed(made', [chunk |-> at, body |-> TRUE])
      BY <1>7, <2>4 DEF PutChunk
    <3>2. at = Len(uploaded) + 1 /\ made' \in Nat /\ made' \notin DOMAIN server
      BY <1>0, <2>1, <3>1 DEF StagesInv
    <3>3. /\ DOMAIN server' = DOMAIN server \cup {made'} /\ server'[made'].chunk = at
          /\ \A f \in DOMAIN server : server'[f] = server[f]
      BY <3>1, <3>2 DEF Placed
    <3>4. /\ Len(uploaded') = Len(uploaded) + 1 /\ uploaded'[Len(uploaded) + 1] = made'
          /\ \A i \in 1 .. Len(uploaded) : uploaded'[i] = uploaded[i]
      BY <1>0, <3>1, <3>2, AppendProperties
    <3> TAKE i \in 1 .. Len(uploaded')
    <3>6. CASE i \in 1 .. Len(uploaded)
      BY <2>1, <3>3, <3>4, <3>6
    <3>7. CASE i = Len(uploaded) + 1
      BY <3>2, <3>3, <3>4, <3>7
    <3> QED
      BY <1>0, <3>4, <3>6, <3>7
  <2> QED
    BY <2>1, <2>2, <2>3, <2>4
<1>8. ASSUME NEW result \in Result, Delete(result) PROVE GotInv'
  <2>1. /\ UNCHANGED <<profile, payload, version, current, uploaded, made, recv>> /\ stage = "deleting"
        /\ stage' \in {"partly", "deleted", "deleting"}
    BY <1>8 DEF Delete, Sending
  <2>2. Sizes' = Sizes
    BY <2>1, SamePlan
  <2>3. RecvInv'
    BY <2>1, SenderDeletes
  <2> QED
    BY <2>1, <2>2, <2>3
<1>9. ASSUME UNCHANGED <<profile, payload, stage, at, current, uploaded, server>>, RecvInv',
             stage \notin {"done", "deleting", "partly", "deleted"} => recv'.stage = "idle"
      PROVE  GotInv'
  <2>1. Sizes' = Sizes
    BY <1>9, SamePlan
  <2> QED
    BY <1>9, <2>1
<1>10. ASSUME NEW result \in Result, GetChunk(result) PROVE RecvInv'
  <2> DEFINE wanted == recv.chunks[Len(recv.got) + 1]
             good   == result = "ok" /\ wanted.file \in DOMAIN server
                         /\ server[wanted.file].chunk = wanted.digest
             plain  == Append(recv.got, wanted.digest)
  <2>1. /\ recv.stage = "getting" /\ UNCHANGED <<profile, payload, stage, uploaded, server>>
        /\ recv' = [recv EXCEPT
             !.got = IF good THEN plain ELSE @,
             !.faulted = @ \/ result # "ok",
             !.stage = IF ~good THEN "failed" ELSE IF Len(plain) < Len(recv.chunks) THEN "getting"
                       ELSE IF Opens(plain) THEN "done" ELSE "failed"]
    BY <1>10 DEF GetChunk
  <2>2. DOMAIN recv = {"stage", "chunks", "intact", "faulted", "got"}
    BY DEF StagesInv
  <2>3. /\ Len(recv.got) \in Nat /\ Len(recv.chunks) \in Nat /\ Len(recv.got) < Len(recv.chunks)
        /\ recv.got = [i \in 1 .. Len(recv.got) |-> recv.chunks[i].digest]
        /\ recv.faulted = FALSE
        /\ IF recv.intact THEN recv.chunks = Chunks(Sizes, uploaded)
           ELSE Digests(recv.chunks) # Whole
    BY <2>1 DEF RecvInv
  <2>4. Sizes' = Sizes /\ Whole' = Whole /\ Chunks(Sizes, uploaded)' = Chunks(Sizes, uploaded)
    BY <2>1 DEF Sizes, Whole, Chunks
  <2>5. /\ recv'.chunks = recv.chunks /\ recv'.intact = recv.intact
        /\ recv'.got = IF good THEN plain ELSE recv.got
        /\ recv'.faulted = (recv.faulted \/ result # "ok")
        /\ recv'.stage = IF ~good THEN "failed" ELSE IF Len(plain) < Len(recv.chunks) THEN "getting"
                         ELSE IF Opens(plain) THEN "done" ELSE "failed"
    <3> HIDE DEF wanted, good, plain
    <3> QED
      BY <2>1, <2>2
  <2>6. /\ Len(plain) = Len(recv.got) + 1
        /\ plain = [i \in 1 .. Len(plain) |-> recv.chunks[i].digest]
    <3> DEFINE n == Len(recv.got)
               g == [i \in 1 .. n |-> recv.chunks[i].digest]
    <3>1. n \in Nat /\ plain = Append(g, recv.chunks[n + 1].digest)
      BY <2>3
    <3> HIDE DEF n, plain
    <3>2. Len(g) = n /\ Append(g, recv.chunks[n + 1].digest) = [i \in 1 .. n + 1 |-> recv.chunks[i].digest]
      <4>1. Len(g) = n
        BY <3>1
      <4>2. Append(g, recv.chunks[n + 1].digest) =
              [i \in 1 .. n + 1 |-> IF i <= n THEN g[i] ELSE recv.chunks[n + 1].digest]
        BY <3>1
      <4>3. \A i \in 1 .. n + 1 :
              (IF i <= n THEN g[i] ELSE recv.chunks[n + 1].digest) = recv.chunks[i].digest
        BY <3>1
      <4> HIDE DEF g
      <4> QED
        BY <4>1, <4>2, <4>3
    <3>3. Len(plain) = n + 1
      BY <3>1, <3>2
    <3> QED
      BY <3>1, <3>2, <3>3 DEF n
  <2> HIDE DEF plain
  <2>7. ASSUME good, Len(plain) >= Len(recv.chunks) PROVE plain = Digests(recv.chunks)
    BY <2>3, <2>6, <2>7 DEF Digests
  <2>8. ASSUME recv.intact, stage = "done", result = "ok" PROVE good
    <3> DEFINE k == Len(recv.got) + 1
    <3>1. Sizes \in Seq(Nat)
      BY PlanIsList
    <3>2. recv.chunks = Chunks(Sizes, uploaded)
      BY <2>3, <2>8
    <3>3. Len(recv.chunks) = Len(Sizes) /\ k \in 1 .. Len(Sizes) /\ wanted.file = uploaded[k] /\ wanted.digest = k
      <4>1. Len(recv.chunks) = Len(Sizes)
        BY <3>1, <3>2, ChunksNumbered
      <4>2. k \in 1 .. Len(Sizes)
        BY <2>3, <4>1
      <4> HIDE DEF k
      <4>3. recv.chunks[k].file = uploaded[k] /\ recv.chunks[k].digest = k
        BY <3>1, <3>2, <4>2, ChunksNumbered
      <4> QED
        BY <4>1, <4>2, <4>3 DEF k
    <3>4. Len(uploaded) = Len(Sizes)
      BY <2>8 DEF StagesInv
    <3> HIDE DEF k, wanted
    <3>5. uploaded[k] \in DOMAIN server /\ server[uploaded[k]].chunk = k
      BY <2>8, <3>3, <3>4
    <3> QED
      BY <2>8, <3>3, <3>5
  <2>9. ASSUME recv.intact PROVE Digests(recv.chunks) = Whole
    <3>1. Sizes \in Seq(Nat)
      BY PlanIsList
    <3>2. /\ Len(recv.chunks) = Len(Sizes)
          /\ \A i \in 1 .. Len(Sizes) : recv.chunks[i].digest = i
      BY <2>3, <2>9, <3>1, ChunksNumbered
    <3> QED
      BY <3>2 DEF Digests, Whole
  <2>10. stage \in {"done", "deleting", "partly", "deleted"}
    BY <2>1
  <2> HIDE DEF good
  <2>11. DownloadIsTheFile'
    <3>1. ASSUME recv'.stage = "done" PROVE recv'.got = Whole /\ recv'.intact
      BY <2>3, <2>5, <2>6, <2>7, <3>1 DEF Opens
    <3>2. ASSUME recv'.stage = "failed"
          PROVE  ~recv'.intact \/ recv'.faulted \/ stage \in {"deleting", "partly", "deleted"}
      <4> SUFFICES ASSUME recv.intact, result = "ok", stage = "done" PROVE FALSE
        BY <2>5, <2>10
      <4>1. good
        BY <2>8
      <4>2. Len(plain) >= Len(recv.chunks) /\ plain # Whole
        BY <2>3, <2>5, <2>6, <3>2, <4>1 DEF Opens
      <4> QED
        BY <2>7, <2>9, <4>1, <4>2
    <3> QED
      BY <2>1, <2>4, <3>1, <3>2 DEF DownloadIsTheFile
  <2>12. ASSUME recv'.stage = "getting"
         PROVE  good /\ result = "ok" /\ Len(plain) < Len(recv.chunks)
    BY <2>5, <2>12 DEF good
  <2>13. recv'.stage # "idle"
    BY <2>5
  <2>14. ASSUME recv'.stage = "getting"
         PROVE  /\ Len(recv'.got) \in Nat /\ Len(recv'.chunks) \in Nat
                /\ Len(recv'.got) < Len(recv'.chunks)
                /\ recv'.got = [i \in 1 .. Len(recv'.got) |-> recv'.chunks[i].digest]
                /\ recv'.faulted = FALSE
    <3>1. recv'.got = plain /\ Len(plain) < Len(recv.chunks) /\ result = "ok"
      BY <2>5, <2>12, <2>14
    <3>2. Len(plain) \in Nat
      BY <2>3, <2>6
    <3> QED
      BY <2>3, <2>5, <2>6, <3>1, <3>2
  <2>15. IF recv'.intact THEN recv'.chunks = Chunks(Sizes, uploaded)'
         ELSE Digests(recv.chunks)' # Whole'
    <3>1. Digests(recv.chunks)' = Digests(recv.chunks)
      BY <2>5 DEF Digests
    <3> QED
      BY <2>3, <2>4, <2>5, <3>1
  <2> QED
    BY <2>11, <2>13, <2>14, <2>15 DEF RecvInv
<1>11. ASSUME NEW d \in Received, stage = "done", StartDownload(d) PROVE RecvInv'
  <2>1. /\ recv.stage = "idle" /\ UNCHANGED <<profile, payload, stage, uploaded>>
        /\ recv' = [recv EXCEPT !.stage = IF Accepted(d) THEN "getting" ELSE "failed",
                                !.chunks = Sorted(d.chunks), !.intact = d.intact]
    BY <1>11 DEF StartDownload
  <2>2. DOMAIN recv = {"stage", "chunks", "intact", "faulted", "got"}
    BY DEF StagesInv
  <2>3. /\ recv'.chunks = Sorted(d.chunks) /\ recv'.intact = d.intact
        /\ recv'.got = recv.got /\ recv'.faulted = recv.faulted
        /\ recv'.stage = IF Accepted(d) THEN "getting" ELSE "failed"
    BY <2>1, <2>2
  <2>4. Sizes' = Sizes /\ Whole' = Whole /\ Chunks(Sizes, uploaded)' = Chunks(Sizes, uploaded)
    BY <2>1 DEF Sizes, Whole, Chunks
  <2>5. Sizes \in Seq(Nat) /\ Len(Sizes) \in Nat \ {0} /\ Len(Sizes) <= MaxPieces
    BY <1>11, PlanIsList DEF StagesInv
  <2>6. /\ d.intact => /\ Sorted(d.chunks) = Chunks(Sizes, uploaded)
                       /\ d.size = Total(Sizes) /\ Len(d.chunks) = Len(Sizes)
        /\ ~d.intact => Digests(Sorted(d.chunks)) # Whole
        /\ Len(Sorted(d.chunks)) = Len(d.chunks) /\ Len(d.chunks) \in Nat
    BY <2>5, WhatArrives
  <2>7. d.intact => Accepted(d)
    BY <2>5, OwnAccepted, XftpAssumption
  <2>8. Accepted(d) => Len(d.chunks) > 0
    BY <2>6 DEF Accepted, WellFormed
  <2>9. recv.got = <<>> /\ recv.faulted = FALSE
    BY <2>1 DEF RecvInv
  <2>10. Len(recv.got) = 0 /\ recv.got = [i \in 1 .. Len(recv.got) |-> recv'.chunks[i].digest]
    BY <2>9
  <2>11. DownloadIsTheFile'
    BY <2>3, <2>7 DEF DownloadIsTheFile
  <2> QED
    BY <2>3, <2>4, <2>6, <2>7, <2>8, <2>9, <2>10, <2>11 DEF RecvInv, Digests
<1>12. CASE UNCHANGED vars
  <2>1. Sizes' = Sizes /\ Whole' = Whole /\ Chunks(Sizes, uploaded)' = Chunks(Sizes, uploaded)
    BY <1>12 DEF vars, Sizes, Whole, Chunks
  <2>2. RecvInv'
    BY <1>12, <2>1 DEF vars, RecvInv, DownloadIsTheFile
  <2> QED
    BY <1>12, <2>2, <1>9 DEF vars
<1>13. ASSUME NEW result \in Result, GetChunk(result) PROVE GotInv'
  <2>1. recv.stage = "getting" /\ UNCHANGED <<profile, payload, stage, at, current, uploaded, server>>
    BY <1>13 DEF GetChunk
  <2> QED
    BY <1>9, <1>10, <1>13, <2>1
<1>14. ASSUME NEW d \in Received, stage = "done", StartDownload(d) PROVE GotInv'
  <2>1. UNCHANGED <<profile, payload, stage, at, current, uploaded, server>>
    BY <1>14 DEF StartDownload
  <2> QED
    BY <1>9, <1>11, <1>14, <2>1
<1> HIDE DEF GotInv
<1> QED
  BY <1>1, <1>2, <1>3, <1>4, <1>5, <1>6, <1>7, <1>8, <1>12, <1>13, <1>14 DEF Next

\* When every plan that is carried out has no more chunks than a description may
\* list: a download of any upload, of any plan and with chunks in any order, ends
\* with the file or with a failure, and fails only when a command did, the
\* description is another or the sender deletes.
THEOREM DownloadsEndWell == ASSUME MaxPieces <= MaxDescribed PROVE Spec => []DownloadIsTheFile
<1>1. GotInv => DownloadIsTheFile
  BY DEF GotInv, RecvInv
<1>2. StagesInv /\ GotInv /\ [Next]_vars => StagesInv' /\ GotInv'
  BY StagesNext, GotNext
<1> QED
  BY <1>1, <1>2, StagesInit, GotInit, PTL DEF Spec

=============================================================================
