---------------------------- MODULE RatchetSession ----------------------------
(***************************************************************************)
(* The double ratchet of browser-simplex-ratchet.mjs between the two ends  *)
(* of a contact, over a medium that may delay, reorder and repeat packets, *)
(* as queues with retried sends and redeliveries do.                       *)
(*                                                                         *)
(* Keys are symbolic.  A key pair is its owner and a number; a root key is *)
(* the sequence of the DH secrets that were mixed into it, and names the   *)
(* chain key derived with it; a chain that was advanced k times is at k,   *)
(* and its next message key is the chain together with k.  AEAD succeeds   *)
(* exactly with the key that sealed the packet.                            *)
(***************************************************************************)
EXTENDS Naturals, Sequences, FiniteSets

CONSTANTS
  Alice,      \* the end that ran requestContact
  Bob,        \* the end that ran receiveContactRequest
  MaxSend,    \* bound: packets each end encrypts
  MaxSkip,    \* SIMPLEX_RATCHET_MAX_SKIP
  StoreList   \* SIMPLEX_STORE_MAX_LIST_ITEMS, as it applies to the skipped keys

ASSUME RatchetAssumption ==
  /\ Alice # Bob /\ "nobody" \notin {Alice, Bob}
  /\ MaxSend \in Nat /\ MaxSkip \in Nat /\ StoreList \in Nat

End == {Alice, Bob}
Other(e) == IF e = Alice THEN Bob ELSE Alice

VARIABLES
  st,        \* the stored ratchet of each end
  packets,   \* history: every packet that was encrypted
  read,      \* history: those the other end has decrypted
  dropped    \* history: the skipped keys that a save has cut off

vars == <<st, packets, read, dropped>>

Pair(e, k) == [of |-> e, nr |-> k]
NoPair     == [of |-> "nobody", nr |-> 0]
DH(x, y)   == {x, y}

Chain(root) == [root |-> root, at |-> 0]
NoChain     == Chain(<<>>)
MessageKey(chain) == chain
Advanced(chain, k) == [chain EXCEPT !.at = @ + k]

-----------------------------------------------------------------------------
(* The state machine of one end.                                           *)

\* createRatchetState, as the two handlers call it: the requester derives a
\* sending chain with the key of the invitation, the other end waits.
Created(e) ==
  [root |-> IF e = Alice THEN << DH(Pair(Alice, 0), Pair(Bob, 0)) >> ELSE <<>>,
   own |-> Pair(e, 0),
   remote |-> IF e = Alice THEN Pair(Bob, 0) ELSE NoPair,
   sending |-> IF e = Alice THEN Chain(<< DH(Pair(Alice, 0), Pair(Bob, 0)) >>) ELSE NoChain,
   receiving |-> NoChain,
   sendCount |-> 0, receiveCount |-> 0, previousSendCount |-> 0,
   skipped |-> <<>>]

\* Mutant: the chain key is not replaced by the next one.
AdvanceSendingCountOnly(s) == [s EXCEPT !.sendCount = @ + 1]

AdvanceSending(s) ==
  [s EXCEPT !.sending = Advanced(@, 1), !.sendCount = @ + 1]

\* Mutant: the new key pair is made before the receiving chain is derived.
RatchetReceiveStepSwapped(s, dh) ==
  LET own     == Pair(s.own.of, s.own.nr + 1)
      receive == Append(s.root, DH(own, dh))
      send    == Append(receive, DH(own, dh))
  IN  [s EXCEPT !.previousSendCount = s.sendCount, !.sendCount = 0, !.receiveCount = 0,
                !.remote = dh, !.own = own, !.root = send,
                !.receiving = Chain(receive), !.sending = Chain(send)]

\* A packet of another DH key: a receiving chain with it, and a sending chain
\* with a key pair of our own that is new.
RatchetReceiveStep(s, dh) ==
  LET receive == Append(s.root, DH(s.own, dh))
      own     == Pair(s.own.of, s.own.nr + 1)
      send    == Append(receive, DH(own, dh))
  IN  [s EXCEPT !.previousSendCount = s.sendCount, !.sendCount = 0, !.receiveCount = 0,
                !.remote = dh, !.own = own, !.root = send,
                !.receiving = Chain(receive), !.sending = Chain(send)]

\* saveSkipped keeps the newest MaxSkip keys.
Newest(q) == SubSeq(q, IF Len(q) > MaxSkip THEN Len(q) - MaxSkip + 1 ELSE 1, Len(q))

\* Mutant: the store writes the whole list.
StoredWhole(s) == s

\* saveRatchet writes the first StoreList items of the list: the oldest keys.
Stored(s) ==
  [s EXCEPT !.skipped = SubSeq(@, 1, IF Len(@) > StoreList THEN StoreList ELSE Len(@))]

CutOff(s) == {s.skipped[i].key : i \in StoreList + 1 .. Len(s.skipped)}

SkipUntil(s, h) ==
  LET gap == IF h.n > s.receiveCount THEN h.n - s.receiveCount ELSE 0
      new == [i \in 1 .. gap |-> [dh |-> h.dh, n |-> s.receiveCount + i - 1,
                                  key |-> MessageKey(Advanced(s.receiving, i - 1))]]
  IN  [s EXCEPT !.skipped = Newest(@ \o new),
                !.receiving = Advanced(@, gap), !.receiveCount = @ + gap]

\* Mutant: takeSkipped returns the key and leaves it.
TakeSkippedKeeping(s, i) == s

TakeSkipped(s, i) ==
  [s EXCEPT !.skipped = SubSeq(@, 1, i - 1) \o SubSeq(@, i + 1, Len(@))]

\* decryptRatchetMessage: the key it tries on a packet of header h, and the
\* state it returns; with neither when it throws earlier.
Failure == [ok |-> FALSE, key |-> NoChain, state |-> <<>>]

Decrypt(s, h) ==
  LET found   == {i \in 1 .. Len(s.skipped) : s.skipped[i].dh = h.dh /\ s.skipped[i].n = h.n}
      first   == CHOOSE i \in found : \A j \in found : i <= j
      stepped == IF s.remote = h.dh THEN s ELSE RatchetReceiveStep(s, h.dh)
      passed  == SkipUntil(stepped, h)
  IN  IF found # {}
      THEN [ok |-> TRUE, key |-> s.skipped[first].key, state |-> TakeSkipped(s, first)]
      ELSE IF h.n > stepped.receiveCount + MaxSkip \/ stepped.receiving = NoChain
      THEN Failure
      ELSE [ok |-> TRUE, key |-> MessageKey(passed.receiving),
            state |-> [passed EXCEPT !.receiving = Advanced(@, 1), !.receiveCount = @ + 1]]

\* Whether an end can read a packet, in its state.
Readable(p) ==
  LET d == Decrypt(st[Other(p.from)], p) IN d.ok /\ d.key = p.key

-----------------------------------------------------------------------------
Init == st = [e \in End |-> Created(e)] /\ packets = {} /\ read = {} /\ dropped = {}

SentBy(e) == {p \in packets : p.from = e}

\* encryptRatchetMessage and saveRatchet, in sendPlaintext; the list is as it was
\* loaded, and fits the store.
Encrypt(e) ==
  /\ Cardinality(SentBy(e)) < MaxSend
  /\ st[e].sending # NoChain
  /\ packets' = packets \cup
       {[from |-> e, nr |-> Cardinality(SentBy(e)),
         dh |-> st[e].own, pn |-> st[e].previousSendCount, n |-> st[e].sendCount,
         key |-> MessageKey(st[e].sending)]}
  /\ st' = [st EXCEPT ![e] = AdvanceSending(@)]
  /\ UNCHANGED <<read, dropped>>

\* decryptRatchetMessage and saveRatchet, in receiveNext: a packet that does
\* not open throws, and nothing is saved.
Receive(p) ==
  LET e == Other(p.from)
      after == Decrypt(st[e], p).state
  IN  /\ Readable(p)
      /\ st' = [st EXCEPT ![e] = Stored(after)]
      /\ dropped' = dropped \cup CutOff(after)
      /\ read' = read \cup {p}
      /\ UNCHANGED packets

Next ==
  \/ \E e \in End : Encrypt(e)
  \/ \E p \in packets : Receive(p)

Spec == Init /\ [][Next]_vars

-----------------------------------------------------------------------------
(* Properties.                                                             *)

PairSet == [of : End, nr : Nat]
Secret  == SUBSET PairSet
Packet  == [from : End, nr : 0 .. MaxSend - 1, dh : PairSet, pn : 0 .. MaxSend,
            n : 0 .. MaxSend - 1, key : [root : Seq(Secret), at : 0 .. MaxSend - 1]]

TypeOK ==
  /\ packets \subseteq Packet /\ read \subseteq packets
  /\ \A e \in End :
       /\ st[e].own.of = e /\ st[e].sendCount \in 0 .. MaxSend
       /\ st[e].previousSendCount \in 0 .. MaxSend
       /\ st[e].receiveCount \in 0 .. MaxSend
       /\ Len(st[e].skipped) <= MaxSkip /\ Len(st[e].skipped) <= StoreList

\* No message key, and so no AES-GCM key with a nonce of its own, seals two
\* packets: not of one end, and not of both ends.
KeysUsedOnce ==
  \A p, q \in packets : p.key = q.key => p = q

\* A packet that was read cannot be read again from the stored state, by the
\* receiver or by whoever gets hold of it: its key is gone.
ReadOnlyOnce == \A p \in read : ~Readable(p)

\* A message key serves once at each end: it seals one packet and opens it once.
KeysServeOnce == KeysUsedOnce /\ ReadOnlyOnce

\* The two root keys never part: one end is one derivation behind the other,
\* whatever order packets come in and whatever fails to decrypt.
RootsAgree ==
  \E e \in End :
    LET behind == st[e].root  ahead == st[Other(e)].root
    IN  Len(ahead) = Len(behind) + 1 /\ SubSeq(ahead, 1, Len(behind)) = behind

\* What was sent with the sender's current DH key, on a chain no longer than the
\* skipped keys, and the one that is read, allow.
WithinLimit(p) == p.dh = st[p.from].own /\ st[p.from].sendCount <= MaxSkip + 1

\* Within a chain any order will do: a packet can be read, once, however many
\* overtook it, unless its key was among those that a save cut off.
CurrentChainReadable ==
  \A p \in packets \ read : WithinLimit(p) => Readable(p) \/ p.key \in dropped

\* The two ends stay in step: the roots, and what the roots are for, that the
\* receiver can read the chain that the sender is on, whatever keys of earlier
\* chains it keeps and gives up.
InStep == RootsAgree /\ CurrentChainReadable

\* SIMPLEX_RATCHET_MAX_SKIP is the limit: a chain that is within it can be read
\* in any order.
LimitReadable == \A p \in packets \ read : WithinLimit(p) => Readable(p)

\* "It follows the standard DH-ratchet shape: ... skipped-message keys": also a
\* packet of the sender's previous chain that was overtaken can be read.
SkippedReadable == \A p \in packets \ read : Readable(p)
=============================================================================
