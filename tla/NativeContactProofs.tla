------------------------- MODULE NativeContactProofs -------------------------
(***************************************************************************)
(* NativeContact, for every number of calls, requests, messages, faults    *)
(* and key pairs.  Five invariants, each on top of those before it:        *)
(*                                                                         *)
(*   TInv  what the store, the servers and the calls hold;                 *)
(*   QInv  a reply queue is the rest of what the peer sent, after what     *)
(*         was read;                                                       *)
(*   KInv  a sending chain has one holder, who is ahead of its used keys;  *)
(*   OInv  who has the receipt of a text;                                  *)
(*   HInv  where the two ratchets and the calls between them stand.        *)
(***************************************************************************)
EXTENDS NativeContact, SequenceTheorems, TLAPS

-----------------------------------------------------------------------------
(***************************************************************************)
(* What the ratchet's operators give.                                      *)
(***************************************************************************)

KeySet   == [of : {"nobody", "client", "peer"}, session : Nat, nr : Nat]
Root     == Seq(SUBSET KeySet)
ChainSet == [root : Root, at : Nat]
HeaderSet == [root : Root, use : {"none", "send", "next", "receiveNext"}]
PacketSet == [hk : HeaderSet, dh : KeySet, key : ChainSet]
Ratchet   == [own : KeySet, remote : KeySet, root : Root,
              sending : ChainSet, sendHK : HeaderSet, nextSendHK : HeaderSet,
              receiving : ChainSet, recvHK : HeaderSet, nextRecvHK : HeaderSet]

LEMMA KeysFit ==
  ASSUME NEW n \in Nat, NEW k \in Nat
  PROVE  Mine(n, k) \in KeySet /\ Theirs(n, k) \in KeySet /\ NoKey \in KeySet
  BY DEF Mine, Theirs, Key, NoKey, KeySet

LEMMA NothingFits ==
  /\ <<>> \in Root /\ NoChain \in ChainSet /\ NoHeaderKey \in HeaderSet
  /\ NoPacket \in PacketSet /\ NoRatchet \in Ratchet
<1>1. <<>> \in Root /\ NoKey \in KeySet
  BY EmptySeq DEF Root, NoKey, Key, KeySet
<1>2. NoChain \in ChainSet /\ NoHeaderKey \in HeaderSet
  BY <1>1 DEF NoChain, Chain, ChainSet, NoHeaderKey, HeaderKey, HeaderSet
<1>3. NoPacket \in PacketSet
  BY <1>1, <1>2 DEF NoPacket, PacketSet
<1>4. \A use \in {"send", "receiveNext"} : HeaderKey(<<>>, use) \in HeaderSet
  BY <1>1 DEF HeaderKey, HeaderSet
<1>5. NoRatchet \in Ratchet
  BY <1>1, <1>2, <1>4 DEF NoRatchet, ReceivingRatchet, Ratchet
<1> QED
  BY <1>1, <1>2, <1>3, <1>5

\* A root that a secret was mixed into.
LEMMA RootGrows ==
  ASSUME NEW root \in Root, NEW x \in KeySet, NEW y \in KeySet
  PROVE  /\ Append(root, DH(x, y)) \in Root /\ Append(root, DH(x, y)) # <<>>
         /\ Append(root, DH(x, y))[Len(Append(root, DH(x, y)))] = DH(x, y)
<1>1. DH(x, y) \in SUBSET KeySet
  BY DEF DH
<1> QED
  BY <1>1, AppendProperties, LenProperties DEF Root

LEMMA AgreementFits ==
  ASSUME NEW a \in KeySet, NEW b \in KeySet, NEW x \in KeySet, NEW y \in KeySet
  PROVE  X3dhSender(a, b, x, y) \in Root /\ X3dhReceiver(a, b, x, y) \in Root
<1>1. \A u, v \in KeySet : DH(u, v) \in SUBSET KeySet
  BY DEF DH
<1> QED
  BY <1>1 DEF X3dhSender, X3dhReceiver, Root

LEMMA StartFits ==
  ASSUME NEW init \in Root, NEW own \in KeySet, NEW remote \in KeySet
  PROVE  /\ SendingRatchet(init, own, remote) \in Ratchet
         /\ SendingRatchet(init, own, remote).own = own
         /\ SendingRatchet(init, own, remote).remote = remote
         /\ SendingRatchet(init, own, remote).sending = Chain(Append(init, DH(own, remote)))
         /\ ReceivingRatchet(init, own) \in Ratchet
         /\ ReceivingRatchet(init, own).own = own
         /\ ReceivingRatchet(init, own).remote = NoKey
         /\ ReceivingRatchet(init, own).sending = NoChain
<1>1. PICK root : root = Append(init, DH(own, remote))
  OBVIOUS
<1>2. root \in Root /\ Chain(root) \in ChainSet
  BY <1>1, RootGrows DEF Chain, ChainSet
<1>3. /\ HeaderKey(init, "send") \in HeaderSet /\ HeaderKey(init, "receiveNext") \in HeaderSet
      /\ HeaderKey(root, "next") \in HeaderSet
  BY <1>2 DEF HeaderKey, HeaderSet
<1>4. NoChain \in ChainSet /\ NoHeaderKey \in HeaderSet /\ NoKey \in KeySet
  BY NothingFits, KeysFit
<1> QED
  BY <1>1, <1>2, <1>3, <1>4 DEF SendingRatchet, ReceivingRatchet, Ratchet

\* A packet is sealed with the chain there is, or with a new one that ends in a
\* secret of the new key pair; the chain is one further then.
LEMMA EncryptFits ==
  ASSUME NEW r \in Ratchet, NEW new \in KeySet
  PROVE  LET e    == Encrypt(r, new)
             root == Append(r.root, DH(new, r.remote))
         IN  /\ e.state \in Ratchet /\ e.packet \in PacketSet
             /\ e.state.remote = r.remote /\ e.packet.dh = e.state.own
             /\ e.state.sending = Advanced(e.packet.key)
             /\ r.sending # NoChain => e.packet.key = r.sending /\ e.state.own = r.own
             /\ r.sending = NoChain => e.packet.key = Chain(root) /\ e.state.own = new
<1> DEFINE e == Encrypt(r, new)
           t == SendStep(r, new)
           root == Append(r.root, DH(new, r.remote))
<1>1. root \in Root /\ Chain(root) \in ChainSet /\ HeaderKey(root, "next") \in HeaderSet
  <2>1. root \in Root
    BY RootGrows DEF Ratchet
  <2> QED
    BY <2>1 DEF Chain, ChainSet, HeaderKey, HeaderSet
<1>2. /\ t \in Ratchet /\ t.remote = r.remote
      /\ r.sending # NoChain => t = r
      /\ r.sending = NoChain => t.sending = Chain(root) /\ t.own = new
  <2>1. CASE r.sending # NoChain
    BY <2>1 DEF SendStep
  <2>2. CASE r.sending = NoChain
    <3>1. t = [r EXCEPT !.own = new, !.root = root, !.sending = Chain(root),
                        !.sendHK = r.nextSendHK, !.nextSendHK = HeaderKey(root, "next")]
      BY <2>2 DEF SendStep
    <3> HIDE DEF t, root
    <3> QED
      BY <1>1, <2>2, <3>1 DEF Ratchet
  <2> QED
    BY <2>1, <2>2
<1>3. e.state = [t EXCEPT !.sending = Advanced(t.sending)]
      /\ e.packet = [hk |-> t.sendHK, dh |-> t.own, key |-> t.sending]
  BY <1>2 DEF Encrypt, Ratchet
<1> HIDE DEF e, t, root
<1>4. t.sending \in ChainSet /\ Advanced(t.sending) \in ChainSet
  BY <1>2 DEF Ratchet, Advanced, ChainSet
<1>5. /\ e.state \in Ratchet /\ e.packet \in PacketSet /\ e.state.own = t.own
      /\ e.state.remote = t.remote /\ e.state.sending = Advanced(t.sending)
  BY <1>2, <1>3, <1>4 DEF Ratchet, PacketSet
<1>6. e.packet.key = t.sending /\ e.packet.dh = t.own
  BY <1>3
<1>7. /\ e.state \in Ratchet /\ e.packet \in PacketSet
      /\ e.state.remote = r.remote /\ e.packet.dh = e.state.own
      /\ e.state.sending = Advanced(e.packet.key)
      /\ r.sending # NoChain => e.packet.key = r.sending /\ e.state.own = r.own
      /\ r.sending = NoChain => e.packet.key = Chain(root) /\ e.state.own = new
  BY <1>2, <1>5, <1>6
<1> QED
  BY <1>7 DEF e, root

\* Decryption leaves the sending side as it is.
LEMMA DecryptFits ==
  ASSUME NEW r \in Ratchet, NEW p \in PacketSet
  PROVE  /\ Decrypt(r, p).state \in Ratchet
         /\ Decrypt(r, p).state.own = r.own
         /\ Decrypt(r, p).state.remote = p.dh
         /\ Decrypt(r, p).state.sending = r.sending
<1> DEFINE next == r.recvHK # p.hk
           t    == ReceiveStep(r, p, next)
           root == Append(r.root, DH(p.dh, r.own))
<1>1. root \in Root /\ Chain(root) \in ChainSet /\ HeaderKey(root, "next") \in HeaderSet
  <2>1. root \in Root
    BY RootGrows DEF Ratchet, PacketSet
  <2> QED
    BY <2>1 DEF Chain, ChainSet, HeaderKey, HeaderSet
<1>2. t \in Ratchet /\ t.own = r.own /\ t.sending = r.sending
  <2>1. CASE r.receiving # NoChain /\ ~next
    BY <2>1 DEF ReceiveStep
  <2>2. CASE ~(r.receiving # NoChain /\ ~next)
    <3>1. t = [r EXCEPT !.root = root, !.receiving = Chain(root), !.recvHK = p.hk,
                        !.nextRecvHK = HeaderKey(root, "next")]
      BY <2>2 DEF ReceiveStep
    <3> HIDE DEF t, root, next
    <3> QED
      BY <1>1, <3>1 DEF Ratchet, PacketSet
  <2> QED
    BY <2>1, <2>2
<1>3. Decrypt(r, p).state = [t EXCEPT !.receiving = Advanced(t.receiving), !.remote = p.dh]
  BY <1>2 DEF Decrypt, Ratchet
<1> HIDE DEF t
<1>4. Advanced(t.receiving) \in ChainSet /\ p.dh \in KeySet
  BY <1>2 DEF Ratchet, Advanced, ChainSet, PacketSet
<1> QED
  BY <1>2, <1>3, <1>4 DEF Ratchet

-----------------------------------------------------------------------------
(***************************************************************************)
(* Types.  A call that is past the first await has seen a contact, and     *)
(* once there is one the record of a ratchet is always that of a request.  *)
(***************************************************************************)

Count  == 0 .. MaxRequests
Triple == {"text", "receipt"} \X Nat \X Nat
Pair   == {"reply", "info", "address", "join", "chat"} \X Nat
What   == {<<"none">>} \cup Pair \cup Triple \cup ({"receipt"} \X Triple)

MsgSet == [env : {"none", "confirmation", "message"}, e2e : BOOLEAN, header : {"empty", "confirmation"},
           mode : {"M", "C"}, what : What, p : PacketSet]
OutSet == [n : Count, key : Nat, what : What, p : PacketSet]

ContactSet == [state : {"none", "requested", "active", "suspended"}, kind : {"address", "join"},
               session : Count, key : Nat]
RecordSet  == [pending : BOOLEAN, session : Count, r : Ratchet, next : Nat]
PeerSet    == [up : BOOLEAN, r : Ratchet, sent : Nat]
TaskSet    == [type : {"packet", "ack"}, o : {o \in OutSet : o.n \in Session}]

Step == {"idle", "creating", "confirming", "accepting", "securing", "skey", "informing", "sending",
         "receiving", "acking", "acking text", "receipting"}
CallSet == [step : Step, n : Count, key : Nat, contact : ContactSet, stored : RecordSet,
            msg : MsgSet, sent : OutSet]

\* A message that the peer puts into a reply queue.
FromPeer(m) ==
  /\ m.p.dh.of = "peer"
  /\ m.env = "message" => m.what \in Triple
  /\ m.env # "message" => m.env = "confirmation" /\ m.what \in {"reply", "info"} \X Nat
  /\ m.env = "confirmation" /\ ~m.e2e => m.header = "empty" /\ m.what[1] = "info"
Post == {m \in MsgSet : FromPeer(m)}

\* A call and the copies it holds, while the store has the record s.
Fits(k, s) ==
  /\ k \in CallSet
  /\ k.step \in {"creating", "accepting", "securing", "skey", "informing", "receiving", "acking",
                 "acking text"} => k.n \in Session
  /\ k.step \in {"confirming", "sending", "receipting", "informing"} => k.sent.n \in Session
  /\ k.step \in {"accepting", "securing", "skey", "informing", "receiving", "acking text"}
       => k.contact.session \in Session
  /\ k.step \in {"receiving", "acking text"} => k.contact.state = "active"
  /\ k.step \in {"securing", "skey", "informing"} => k.stored.session # 0 /\ k.stored.pending = FALSE
  /\ k.step = "acking text" => k.msg.what \in Triple
  /\ k.step \notin {"idle", "creating"} => s.session # 0

StoreInv ==
  /\ contact \in ContactSet /\ stored \in RecordSet
  /\ contact.state # "none" => contact.session \in Session /\ stored.session # 0
  /\ contact.state = "active" => stored.pending = FALSE

LogInv ==
  /\ tasks \subseteq TaskSet /\ received \subseteq Triple /\ sealed \subseteq OutSet
  /\ read \in Seq(Triple)
  /\ requests \in Count /\ sends \in Nat /\ keys \in Nat /\ keys >= 3

ServerInv ==
  /\ inbox \in [Session -> Seq(Post)] /\ secured \in [Session -> Nat] /\ outbox \subseteq OutSet
  /\ peer \in [Session -> PeerSet] /\ \A n \in Session : peer[n].up => peer[n].r.own.of = "peer"

CallsInv == DOMAIN call = Call /\ \A c \in Call : Fits(call[c], stored)

TInv == StoreInv /\ LogInv /\ ServerInv /\ CallsInv

LEMMA Numbers == Count \subseteq Nat /\ Session \subseteq Count /\ 0 \in Count /\ MaxRequests \in Nat
                 /\ \A n \in Session : n # 0 /\ n \in Nat
  BY NativeAssumption DEF Count, Session

LEMMA IdleFits == /\ NoContact \in ContactSet /\ NoRecord \in RecordSet
                  /\ \A s : Fits(IdleCall, s)
                  /\ IdleCall \in CallSet /\ IdleCall.step = "idle"
<1>1. NoContact \in ContactSet
  BY Numbers DEF NoContact, ContactSet
<1>2. NoRecord \in RecordSet
  BY Numbers, NothingFits DEF NoRecord, Record, RecordSet
<1>3. Message("none", FALSE, "empty", "C", <<"none">>, NoPacket) \in MsgSet
  BY NothingFits DEF Message, MsgSet, What
<1>4. Outgoing(0, 0, <<"none">>, NoPacket) \in OutSet
  BY Numbers, NothingFits DEF Outgoing, OutSet, What
<1>5. IdleCall \in CallSet /\ IdleCall.step = "idle"
  BY <1>1, <1>2, <1>3, <1>4, Numbers DEF IdleCall, CallSet, Step
<1> QED
  BY <1>1, <1>2, <1>5 DEF Fits

LEMMA InitTypes == Init => TInv
<1> SUFFICES ASSUME Init PROVE TInv
  OBVIOUS
<1>1. StoreInv
  BY IdleFits DEF Init, StoreInv, NoContact, NoRecord, Record
<1>2. LogInv
  BY EmptySeq, Numbers DEF Init, LogInv
<1>3. <<>> \in Seq(Post) /\ NoPeer \in PeerSet /\ NoPeer.up = FALSE
  BY EmptySeq, NothingFits DEF NoPeer, PeerSet
<1>4. ServerInv
  BY <1>3 DEF Init, ServerInv
<1>5. CallsInv
  BY IdleFits DEF Init, CallsInv
<1> QED
  BY <1>1, <1>2, <1>4, <1>5 DEF TInv

\* A call moves, and a record that is there stays there.
LEMMA CallMoves ==
  ASSUME CallsInv, NEW c \in Call, NEW k, Fits(k, stored'), call' = [call EXCEPT ![c] = k],
         stored.session # 0 => stored'.session # 0
  PROVE  CallsInv'
<1>1. DOMAIN call' = Call /\ call'[c] = k /\ \A d \in Call : d # c => call'[d] = call[d]
  BY DEF CallsInv
<1>2. \A d \in Call : d # c => Fits(call'[d], stored')
  BY <1>1 DEF CallsInv, Fits
<1> QED
  BY <1>1, <1>2 DEF CallsInv

LEMMA EndFits ==
  ASSUME CallsInv, NEW c \in Call, End(c), stored.session # 0 => stored'.session # 0
  PROVE  CallsInv'
  BY IdleFits, CallMoves DEF End

LEMMA CallsStay ==
  ASSUME CallsInv, call' = call, stored.session # 0 => stored'.session # 0
  PROVE  CallsInv'
  BY DEF CallsInv, Fits

LEMMA MessageFits ==
  ASSUME NEW e2e \in BOOLEAN, NEW env \in {"none", "confirmation", "message"},
         NEW header \in {"empty", "confirmation"}, NEW mode \in {"M", "C"}, NEW what \in What,
         NEW p \in PacketSet
  PROVE  LET m == Message(env, e2e, header, mode, what, p)
         IN  /\ m \in MsgSet /\ m.p = p /\ m.env = env /\ m.e2e = e2e /\ m.what = what
             /\ m.header = header
  BY DEF Message, MsgSet

LEMMA OutgoingFits ==
  ASSUME NEW n \in Count, NEW key \in Nat, NEW what \in What, NEW p \in PacketSet
  PROVE  LET o == Outgoing(n, key, what, p)
         IN  o \in OutSet /\ o.n = n /\ o.what = what /\ o.p = p
  BY DEF Outgoing, OutSet

LEMMA RecordFits ==
  ASSUME NEW n \in Count, NEW r \in Ratchet, NEW next \in Nat
  PROVE  /\ Record(FALSE, n, r, next) \in RecordSet
         /\ Record(FALSE, n, r, next).session = n /\ Record(FALSE, n, r, next).r = r
         /\ Record(TRUE, n, r, next) \in RecordSet
         /\ Record(TRUE, n, r, next).session = n /\ Record(TRUE, n, r, next).r = r
  BY DEF Record, RecordSet

\* The join of a request: a ratchet that has sealed one packet.
LEMMA JoinFits ==
  ASSUME NEW n \in Session
  PROVE  /\ Join(n).state \in Ratchet /\ Join(n).packet \in PacketSet
         /\ Join(n).state.remote = Theirs(n, 2)
         /\ Join(n).state.sending = Advanced(Join(n).packet.key)
         /\ \E root \in Root : Join(n).packet.key = Chain(Append(root, DH(Mine(n, 3), Theirs(n, 2))))
<1>0. n \in Nat
  BY Numbers
<1>1. PICK init : init = X3dhSender(Mine(n, 1), Mine(n, 2), Theirs(n, 1), Theirs(n, 2))
  OBVIOUS
<1>2. init \in Root /\ Mine(n, 3) \in KeySet /\ Theirs(n, 2) \in KeySet /\ NoKey \in KeySet
  BY <1>0, <1>1, KeysFit, AgreementFits
<1>3. PICK r : r = SendingRatchet(init, Mine(n, 3), Theirs(n, 2))
  OBVIOUS
<1>4. PICK root : root = Append(init, DH(Mine(n, 3), Theirs(n, 2)))
  OBVIOUS
<1>5. root # <<>> /\ r \in Ratchet /\ r.remote = Theirs(n, 2) /\ r.sending = Chain(root)
  <2>1. r \in Ratchet /\ r.remote = Theirs(n, 2) /\ r.sending = Chain(root)
    BY <1>2, <1>3, <1>4, StartFits
  <2>2. root # <<>>
    BY <1>2, <1>4, RootGrows
  <2> QED
    BY <2>1, <2>2
<1>6. r.sending # NoChain
  BY <1>5 DEF Chain, NoChain
<1>7. Join(n) = Encrypt(r, NoKey)
  BY <1>1, <1>3 DEF Join
<1> QED
  BY <1>2, <1>4, <1>5, <1>6, <1>7, EncryptFits

-----------------------------------------------------------------------------
(* Types: the calls, action by action.                                     *)

LEMMA BeginTypes ==
  ASSUME TInv, NEW c \in Call, BeginRequest(c) \/ BeginAccept(c) \/ BeginReceive(c)
  PROVE  TInv'
<1>1. UNCHANGED <<contact, stored, tasks, received, servers, sends, keys, sealed, read>>
  BY DEF BeginRequest, BeginAccept, BeginReceive, counters
<1>2. StoreInv' /\ ServerInv'
  BY <1>1 DEF TInv, StoreInv, ServerInv, servers
<1>3. LogInv'
  <2>1. requests' \in Count
    BY Numbers DEF TInv, LogInv, BeginRequest, BeginAccept, BeginReceive, counters, Count
  <2> QED
    BY <1>1, <2>1 DEF TInv, LogInv
<1>4. CallsInv'
  <2>1. PICK k : k = [IdleCall EXCEPT !.step = "creating", !.n = requests + 1]
    OBVIOUS
  <2>2. CASE BeginRequest(c)
    <3>1. requests + 1 \in Session
      BY <2>2, Numbers DEF TInv, LogInv, BeginRequest, Count, Session
    <3>2. k \in CallSet /\ k.step = "creating" /\ k.n \in Session
      BY <2>1, <3>1, IdleFits, Numbers DEF CallSet, Step
    <3>3. Fits(k, stored')
      BY <3>2 DEF Fits
    <3>4. call' = [call EXCEPT ![c] = k]
      BY <2>1, <2>2 DEF BeginRequest
    <3> QED
      BY <1>1, <3>3, <3>4, CallMoves DEF TInv
  <2>3. ASSUME NEW step \in {"accepting", "receiving"},
               contact.state # "none", step = "receiving" => contact.state = "active",
               call' = [call EXCEPT ![c] = [IdleCall EXCEPT !.step = step, !.n = contact.session,
                                                            !.contact = contact]]
        PROVE  CallsInv'
    <3>1. PICK a : a = [IdleCall EXCEPT !.step = step, !.n = contact.session, !.contact = contact]
      OBVIOUS
    <3>2. contact \in ContactSet /\ contact.session \in Session /\ stored.session # 0
      BY <2>3 DEF TInv, StoreInv
    <3>3. a \in CallSet /\ a.step = step /\ a.n \in Session /\ a.contact = contact
      BY <3>1, <3>2, IdleFits, Numbers DEF CallSet, Step
    <3>4. Fits(a, stored')
      BY <1>1, <2>3, <3>2, <3>3 DEF Fits
    <3> QED
      BY <1>1, <2>3, <3>1, <3>4, CallMoves DEF TInv
  <2> QED
    BY <2>2, <2>3 DEF BeginRequest, BeginAccept, BeginReceive
<1> QED
  BY <1>2, <1>3, <1>4 DEF TInv

\* With the queue there is, contact and ratchet are those of the new request.
LEMMA QueueCreatedTypes ==
  ASSUME TInv, NEW c \in Call, QueueCreated(c)
  PROVE  TInv'
<1>1. PICK n : n = call[c].n
  OBVIOUS
<1>2. n \in Session /\ n \in Count /\ n # 0 /\ n \in Nat /\ call[c] \in CallSet
  BY <1>1, Numbers DEF TInv, CallsInv, Fits, QueueCreated, At
<1>3. UNCHANGED <<tasks, received, servers, counters, keys, read>>
  BY DEF QueueCreated
<1>4. /\ Join(n).state \in Ratchet /\ Join(n).packet \in PacketSet
      /\ NoPacket \in PacketSet /\ NoRatchet \in Ratchet
  BY <1>2, JoinFits, NothingFits
<1>5. PICK kind \in {"address", "join"}, p \in PacketSet :
        /\ contact' = [state |-> "requested", kind |-> kind, session |-> n, key |-> 0]
        /\ call' = [call EXCEPT ![c].step = "confirming", ![c].sent = Outgoing(n, 0, <<kind, n>>, p)]
        /\ stored' \in {Record(TRUE, n, NoRatchet, 0), Record(FALSE, n, Join(n).state, 0)}
        /\ sealed' \in {sealed, sealed \cup {Outgoing(n, 0, <<"join", n>>, Join(n).packet)}}
  BY <1>1, <1>4 DEF QueueCreated
<1>6. <<kind, n>> \in What /\ <<"join", n>> \in What
  BY <1>2 DEF What, Pair
<1>7. contact' \in ContactSet /\ contact'.session = n /\ contact'.state = "requested"
  BY <1>2, <1>5 DEF ContactSet
<1>8. stored' \in RecordSet /\ stored'.session = n
  <2>1. 0 \in Nat
    OBVIOUS
  <2>2. CASE stored' = Record(TRUE, n, NoRatchet, 0)
    BY <1>2, <1>4, <2>1, <2>2, RecordFits
  <2>3. CASE stored' = Record(FALSE, n, Join(n).state, 0)
    BY <1>2, <1>4, <2>1, <2>3, RecordFits
  <2> QED
    BY <1>5, <2>2, <2>3
<1>9. StoreInv'
  BY <1>2, <1>7, <1>8 DEF StoreInv
<1>10. sealed' \subseteq OutSet
  <2>1. Outgoing(n, 0, <<"join", n>>, Join(n).packet) \in OutSet
    BY <1>2, <1>4, <1>6, OutgoingFits
  <2> QED
    BY <1>5, <2>1 DEF TInv, LogInv
<1>11. LogInv' /\ ServerInv'
  BY <1>3, <1>10 DEF TInv, LogInv, ServerInv, counters, servers
<1>12. CallsInv'
  <2>1. PICK o : o = Outgoing(n, 0, <<kind, n>>, p)
    OBVIOUS
  <2>2. o \in OutSet /\ o.n = n
    BY <1>2, <1>6, <2>1, OutgoingFits
  <2>3. PICK k : k = [call[c] EXCEPT !.step = "confirming", !.sent = o]
    OBVIOUS
  <2>4. k \in CallSet /\ k.step = "confirming" /\ k.sent = o
    BY <1>2, <2>2, <2>3 DEF CallSet, Step
  <2>5. Fits(k, stored')
    BY <1>2, <1>8, <2>2, <2>4 DEF Fits
  <2>6. call' = [call EXCEPT ![c] = k]
    BY <1>5, <2>1, <2>3
  <2> QED
    BY <1>2, <1>8, <2>5, <2>6, CallMoves DEF TInv
<1> QED
  BY <1>9, <1>11, <1>12 DEF TInv

\* What is sealed is saved before it is sent.
LEMMA SealTypes ==
  ASSUME TInv, NEW c \in Call, NEW what \in What, NEW step \in {"sending", "receipting"},
         NEW held \in ContactSet, held.state = "active", held.session \in Session,
         stored.session # 0, Seal(c, what, step, held)
  PROVE  /\ StoreInv' /\ CallsInv' /\ sealed' \subseteq OutSet
         /\ keys' \in Nat /\ keys' >= 3 /\ keys' >= keys
<1> DEFINE new == Mine(stored.session, keys + 1)
           e == Encrypt(stored.r, new)
           o == Outgoing(held.session, held.key, what, e.packet)
<1>1. /\ stored \in RecordSet /\ stored.r \in Ratchet /\ stored.session \in Nat /\ stored.session \in Count
      /\ keys \in Nat /\ keys + 1 \in Nat /\ keys >= 3
  <2>1. stored \in RecordSet /\ keys \in Nat /\ keys >= 3
    BY DEF TInv, StoreInv, LogInv
  <2>2. stored.r \in Ratchet /\ stored.session \in Count
    BY <2>1 DEF RecordSet
  <2>3. stored.session \in Nat
    BY <2>2, Numbers
  <2>4. keys + 1 \in Nat
    BY <2>1
  <2> QED
    BY <2>1, <2>2, <2>3, <2>4
<1>2. new \in KeySet
  BY <1>1, KeysFit
<1>3. e.state \in Ratchet /\ e.packet \in PacketSet
  <2> HIDE DEF new
  <2> QED
    BY <1>1, <1>2, EncryptFits
<1>4. /\ stored' = Saved(stored, e.state) /\ contact' = held /\ sealed' = sealed \cup {o}
      /\ keys' = IF stored.r.sending = NoChain THEN keys + 1 ELSE keys
      /\ call' = [call EXCEPT ![c] = [IdleCall EXCEPT !.step = step, !.sent = o]]
  BY DEF Seal
<1> HIDE DEF e, new
<1>5. o \in OutSet /\ o.n = held.session
  BY <1>3, Numbers, OutgoingFits DEF ContactSet
<1> HIDE DEF o
<1>6. PICK next \in Nat : next = IF stored.next # 0 THEN stored.next ELSE 2
  BY <1>1 DEF RecordSet
<1>7. stored' = Record(FALSE, stored.session, e.state, next)
  BY <1>4, <1>6 DEF Saved
<1>8. stored' \in RecordSet /\ stored'.session = stored.session /\ stored'.pending = FALSE
  <2>1. /\ Record(FALSE, stored.session, e.state, next) \in RecordSet
        /\ Record(FALSE, stored.session, e.state, next).session = stored.session
        /\ Record(FALSE, stored.session, e.state, next).pending = FALSE
    BY <1>1, <1>3 DEF Record, RecordSet
  <2> QED
    BY <1>7, <2>1
<1>9. StoreInv'
  BY <1>4, <1>8 DEF StoreInv
<1>10. CallsInv'
  <2>1. PICK k : k = [IdleCall EXCEPT !.step = step, !.sent = o]
    OBVIOUS
  <2>2. k \in CallSet /\ k.step = step /\ k.sent = o
    BY <1>5, <2>1, IdleFits DEF CallSet, Step
  <2>3. Fits(k, stored')
    BY <1>5, <1>8, <2>2 DEF Fits
  <2> QED
    BY <1>4, <1>8, <2>1, <2>3, CallMoves DEF TInv
<1>11. sealed' \subseteq OutSet
  BY <1>4, <1>5 DEF TInv, LogInv
<1> QED
  BY <1>1, <1>4, <1>9, <1>10, <1>11

LEMMA SendTypes ==
  ASSUME TInv, NEW c \in Call, BeginSend(c) \/ SendEnds(c) \/ Throws(c)
  PROVE  TInv'
<1>1. CASE BeginSend(c)
  <2>1. UNCHANGED <<tasks, received, servers, requests, faults, read>> /\ sends' = sends + 1
        /\ contact.state = "active" /\ Seal(c, <<"chat", sends + 1>>, "sending", contact)
    BY <1>1 DEF BeginSend
  <2>2. <<"chat", sends + 1>> \in What /\ sends' \in Nat
    BY <2>1 DEF TInv, LogInv, What, Pair
  <2>3. contact \in ContactSet /\ contact.session \in Session /\ stored.session # 0
    BY <2>1 DEF TInv, StoreInv
  <2>4. /\ StoreInv' /\ CallsInv' /\ sealed' \subseteq OutSet
        /\ keys' \in Nat /\ keys' >= 3
    BY <2>1, <2>2, <2>3, SealTypes
  <2> QED
    BY <2>1, <2>2, <2>4 DEF TInv, LogInv, ServerInv, servers
<1>2. CASE SendEnds(c)
  <2>1. PICK o : o = call[c].sent
    OBVIOUS
  <2>2. o \in OutSet /\ o.n \in Session
    BY <1>2, <2>1 DEF TInv, CallsInv, Fits, CallSet, SendEnds
  <2>3. /\ UNCHANGED <<contact, stored, received, inbox, secured, peer, requests, sends, keys, sealed, read>>
        /\ outbox' \subseteq outbox \cup {o} /\ tasks' \subseteq tasks \cup {[type |-> "packet", o |-> o]}
        /\ End(c)
    BY <1>2, <2>1 DEF SendEnds, Delivered, TaskFor
  <2>4. tasks' \subseteq TaskSet /\ outbox' \subseteq OutSet
    <3>1. [type |-> "packet", o |-> o] \in TaskSet
      BY <2>2 DEF TaskSet
    <3> QED
      BY <2>2, <2>3, <3>1 DEF TInv, LogInv, ServerInv
  <2> QED
    BY <2>3, <2>4, EndFits DEF TInv, StoreInv, LogInv, ServerInv
<1>3. CASE Throws(c)
  <2>1. /\ UNCHANGED <<contact, stored, tasks, received, servers, requests, sends, keys, sealed, read>>
        /\ End(c)
    BY <1>3 DEF Throws
  <2> QED
    BY <2>1, EndFits DEF TInv, StoreInv, LogInv, ServerInv, servers
<1> QED
  BY <1>1, <1>2, <1>3

\* The head of a reply queue is what the peer has put there.
LEMMA HeadFits ==
  ASSUME TInv, NEW n \in Session, inbox[n] # <<>>
  PROVE  /\ Head(inbox[n]) \in Post /\ Head(inbox[n]) \in MsgSet /\ Head(inbox[n]).p \in PacketSet
         /\ Head(inbox[n]).what \in What /\ Tail(inbox[n]) \in Seq(Post)
<1>1. inbox[n] \in Seq(Post)
  BY DEF TInv, ServerInv
<1> QED
  BY <1>1, HeadTailProperties DEF Post, MsgSet

\* The ratchet of an accept: a new one, or the stored one.
LEMMA AnsweringFits ==
  ASSUME NEW s \in RecordSet, NEW m \in Post, Acceptable(s, m)
  PROVE  /\ Answering(s, m) \in Ratchet
         /\ m.e2e => Answering(s, m).sending = NoChain
         /\ ~m.e2e => Answering(s, m) = s.r
<1>1. m.env = "confirmation" /\ m.what \in {"reply", "info"} \X Nat /\ s.session \in Nat /\ s.r \in Ratchet
  BY Numbers DEF Acceptable, Post, FromPeer, RecordSet
<1>2. CASE m.e2e
  <2>1. PICK k \in Nat : k = m.what[2]
    BY <1>1
  <2>2. PICK init : init = X3dhReceiver(Mine(s.session, 1), Mine(s.session, 2), Theirs(k, 1), Theirs(k, 2))
    OBVIOUS
  <2>3. init \in Root /\ Mine(s.session, 2) \in KeySet
    BY <1>1, <2>1, <2>2, KeysFit, AgreementFits
  <2>4. Answering(s, m) = ReceivingRatchet(init, Mine(s.session, 2))
    BY <1>2, <2>1, <2>2 DEF Answering
  <2> QED
    BY <1>2, <2>3, <2>4, StartFits
<1>3. CASE ~m.e2e
  BY <1>1, <1>3 DEF Answering
<1> QED
  BY <1>2, <1>3

\* The writes at the end of an accept.
LEMMA SaveAcceptTypes ==
  ASSUME TInv, NEW c \in Call, NEW m \in MsgSet, NEW key \in Nat, NEW record \in RecordSet,
         record.session # 0, record.pending = FALSE,
         call[c].step \in {"accepting", "securing", "informing"}, SaveAccept(c, m, key, record)
  PROVE  StoreInv' /\ CallsInv'
<1>1. /\ call[c] \in CallSet /\ call[c].n \in Session /\ call[c].contact \in ContactSet
      /\ call[c].contact.session \in Session
  BY DEF TInv, CallsInv, Fits, CallSet
<1>2. /\ contact' = [call[c].contact EXCEPT !.state = "active", !.key = key]
      /\ stored' = record
      /\ call' = [call EXCEPT ![c] = [IdleCall EXCEPT !.step = "acking", !.n = call[c].n, !.msg = m]]
  BY DEF SaveAccept
<1>3. contact' \in ContactSet /\ contact'.session \in Session
  BY <1>1, <1>2 DEF ContactSet
<1>4. StoreInv'
  BY <1>2, <1>3 DEF StoreInv
<1>5. PICK k : k = [IdleCall EXCEPT !.step = "acking", !.n = call[c].n, !.msg = m]
  OBVIOUS
<1>6. k \in CallSet /\ k.step = "acking" /\ k.n \in Session
  BY <1>1, <1>5, IdleFits, Numbers DEF CallSet, Step
<1>7. Fits(k, stored')
  BY <1>2, <1>6 DEF Fits
<1>8. CallsInv'
  BY <1>2, <1>5, <1>7, CallMoves DEF TInv
<1> QED
  BY <1>4, <1>8

LEMMA OpenedTypes ==
  ASSUME TInv, NEW c \in Call, NEW m \in MsgSet, NEW record \in RecordSet,
         record.session # 0, record.pending = FALSE,
         call[c].step \in {"accepting", "securing"}, Opened(c, m, record)
  PROVE  /\ StoreInv' /\ CallsInv' /\ keys' \in Nat /\ keys' >= 3 /\ keys' >= keys
<1>1. PICK key : key = IF m.what[1] = "reply" THEN keys + 1 ELSE 0
  OBVIOUS
<1>2. /\ key \in Nat /\ keys' \in Nat /\ keys' >= 3 /\ keys' >= keys
  BY <1>1 DEF TInv, LogInv, Opened
<1>3. CASE SaveAccept(c, m, key, record)
  BY <1>2, <1>3, SaveAcceptTypes
<1>4. CASE /\ call' = [call EXCEPT ![c].step = "skey", ![c].key = key, ![c].msg = m, ![c].stored = record]
           /\ UNCHANGED <<contact, stored>>
  <2>1. /\ call[c] \in CallSet /\ call[c].n \in Session /\ call[c].contact.session \in Session
        /\ stored.session # 0
    BY DEF TInv, CallsInv, Fits
  <2>2. PICK k : k = [call[c] EXCEPT !.step = "skey", !.key = key, !.msg = m, !.stored = record]
    OBVIOUS
  <2>3. /\ k \in CallSet /\ k.step = "skey" /\ k.n = call[c].n /\ k.contact = call[c].contact
        /\ k.stored = record
    BY <1>2, <2>1, <2>2 DEF CallSet, Step
  <2>4. Fits(k, stored')
    BY <1>4, <2>1, <2>3 DEF Fits
  <2>5. call' = [call EXCEPT ![c] = k]
    BY <1>4, <2>2
  <2>6. CallsInv'
    BY <1>4, <2>4, <2>5, CallMoves DEF TInv
  <2> QED
    BY <1>2, <1>4, <2>6 DEF TInv, StoreInv
<1> QED
  BY <1>1, <1>2, <1>3, <1>4 DEF Opened

LEMMA AcceptTypes ==
  ASSUME TInv, NEW c \in Call, AcceptArrives(c) \/ AcceptSecured(c)
  PROVE  TInv'
<1>1. /\ UNCHANGED <<tasks, received, servers, requests, sends, sealed, read>>
      /\ call[c].step \in {"accepting", "securing"}
  BY DEF AcceptArrives, AcceptSecured, At, counters
<1>2. Fits(call[c], stored) /\ call[c] \in CallSet /\ stored.session # 0 /\ call[c].n \in Session
  BY <1>1 DEF TInv, CallsInv, Fits
<1>3. StoreInv' /\ CallsInv' /\ keys' \in Nat /\ keys' >= 3
  <2>0. CASE End(c) /\ UNCHANGED <<contact, stored, keys>>
    BY <2>0, EndFits DEF TInv, StoreInv, LogInv
  <2>1. CASE AcceptArrives(c) /\ ~(End(c) /\ UNCHANGED <<contact, stored, keys>>)
    <3>1. PICK m : m = Head(inbox[call[c].n])
      OBVIOUS
    <3>2. PICK record : record = Record(FALSE, stored.session, Decrypt(Answering(stored, m), m.p).state, stored.next)
      OBVIOUS
    <3>3. /\ inbox[call[c].n] # <<>> /\ Acceptable(stored, m)
          /\ \/ /\ call' = [call EXCEPT ![c].step = "securing", ![c].stored = record, ![c].msg = m]
                /\ UNCHANGED <<contact, stored, keys>>
             \/ Opened(c, m, record)
      BY <2>1, <3>1, <3>2 DEF AcceptArrives
    <3>4. m \in Post /\ m \in MsgSet /\ m.p \in PacketSet
      BY <1>2, <3>1, <3>3, HeadFits
    <3>5. Decrypt(Answering(stored, m), m.p).state \in Ratchet
      BY <3>3, <3>4, AnsweringFits, DecryptFits DEF TInv, StoreInv
    <3>6. record \in RecordSet /\ record.session # 0 /\ record.pending = FALSE
      <4>1. stored.session \in Count /\ stored.next \in Nat
        BY DEF TInv, StoreInv, RecordSet
      <4>2. PICK r \in Ratchet : r = Decrypt(Answering(stored, m), m.p).state
        BY <3>5
      <4>3. /\ Record(FALSE, stored.session, r, stored.next) \in RecordSet
            /\ Record(FALSE, stored.session, r, stored.next).session = stored.session
            /\ Record(FALSE, stored.session, r, stored.next).pending = FALSE
        BY <4>1 DEF Record, RecordSet
      <4> QED
        BY <1>2, <3>2, <4>2, <4>3
    <3>7. CASE Opened(c, m, record)
      BY <1>1, <3>4, <3>6, <3>7, OpenedTypes
    <3>8. CASE /\ call' = [call EXCEPT ![c].step = "securing", ![c].stored = record, ![c].msg = m]
               /\ UNCHANGED <<contact, stored, keys>>
      <4>1. PICK k : k = [call[c] EXCEPT !.step = "securing", !.stored = record, !.msg = m]
        OBVIOUS
      <4>2. /\ k \in CallSet /\ k.step = "securing" /\ k.n = call[c].n /\ k.contact = call[c].contact
            /\ k.stored = record
        BY <1>2, <3>4, <3>6, <4>1 DEF CallSet, Step
      <4>3. Fits(k, stored')
        BY <1>1, <1>2, <3>6, <3>8, <4>2 DEF Fits
      <4>4. call' = [call EXCEPT ![c] = k]
        BY <3>8, <4>1
      <4>5. CallsInv'
        BY <3>8, <4>3, <4>4, CallMoves DEF TInv
      <4> QED
        BY <3>8, <4>5 DEF TInv, StoreInv, LogInv
    <3> QED
      BY <3>3, <3>7, <3>8
  <2>2. CASE AcceptSecured(c) /\ ~(End(c) /\ UNCHANGED <<contact, stored, keys>>)
    <3>1. Opened(c, call[c].msg, call[c].stored) /\ call[c].step = "securing"
      BY <2>2 DEF AcceptSecured, At
    <3>2. /\ call[c].msg \in MsgSet /\ call[c].stored \in RecordSet
          /\ call[c].stored.session # 0 /\ call[c].stored.pending = FALSE
      BY <1>2, <3>1 DEF Fits, CallSet
    <3> QED
      BY <3>1, <3>2, OpenedTypes
  <2> QED
    BY <2>0, <2>1, <2>2
<1> QED
  BY <1>1, <1>3 DEF TInv, LogInv, ServerInv, servers

LEMMA InfoTypes ==
  ASSUME TInv, NEW c \in Call, SenderSecured(c) \/ InfoSent(c)
  PROVE  TInv'
<1>1. /\ UNCHANGED <<tasks, received, inbox, peer, requests, sends, read>>
      /\ call[c].step \in {"skey", "informing"}
  BY DEF SenderSecured, InfoSent, At
<1>2. /\ call[c] \in CallSet /\ call[c].n \in Session /\ call[c].contact.session \in Session
      /\ call[c].stored.session # 0 /\ call[c].stored.pending = FALSE /\ stored.session # 0
      /\ call[c].step = "informing" => call[c].sent.n \in Session
  BY <1>1 DEF TInv, CallsInv, Fits
<1>3. /\ call[c].stored \in RecordSet /\ call[c].key \in Nat /\ call[c].msg \in MsgSet
      /\ call[c].sent \in OutSet /\ keys \in Nat /\ keys >= 3
  BY <1>2 DEF CallSet, TInv, LogInv
<1>4. CASE SenderSecured(c)
  <2>1. UNCHANGED <<contact, stored, outbox>>
    BY <1>4 DEF SenderSecured
  <2>2. PICK n \in Session, key \in Nat, s \in RecordSet :
          n = call[c].contact.session /\ key = call[c].key /\ s = call[c].stored
    BY <1>2, <1>3
  <2>3. /\ n \in Count /\ s.session \in Count /\ s.r \in Ratchet /\ s.session # 0 /\ s.pending = FALSE
    BY <1>2, <2>2, Numbers DEF RecordSet
  <2>4. PICK new : new = Mine(s.session, keys + 1)
    OBVIOUS
  <2>5. new \in KeySet
    <3>1. s.session \in Nat
      BY <2>3, Numbers
    <3>2. keys + 1 \in Nat
      BY <1>3
    <3> QED
      BY <2>4, <3>1, <3>2, KeysFit
  <2>6. PICK e : e = Encrypt(s.r, new)
    OBVIOUS
  <2>7. e.state \in Ratchet /\ e.packet \in PacketSet
    BY <2>3, <2>5, <2>6, EncryptFits
  <2>8. PICK o : o = Outgoing(n, key, <<"info", n>>, e.packet)
    OBVIOUS
  <2>9. o \in OutSet /\ o.n = n
    <3>1. <<"info", n>> \in What
      BY <2>2, Numbers DEF What, Pair
    <3> QED
      BY <2>2, <2>3, <2>7, <2>8, <3>1, OutgoingFits
  <2>10. PICK record : record = Record(FALSE, s.session, e.state, 2)
    OBVIOUS
  <2>11. record \in RecordSet /\ record.session # 0 /\ record.pending = FALSE
    BY <2>3, <2>7, <2>10 DEF Record, RecordSet
  <2>12. secured' \in [Session -> Nat]
    <3>1. secured' = secured \/ secured' = [secured EXCEPT ![n] = key]
      BY <1>4, <2>2 DEF SenderSecured
    <3> QED
      BY <2>2, <3>1 DEF TInv, ServerInv
  <2>13. \/ /\ keys' = keys + 1 /\ sealed' = sealed \cup {o}
            /\ call' = [call EXCEPT ![c].step = "informing", ![c].sent = o, ![c].stored = record]
         \/ End(c) /\ UNCHANGED <<keys, sealed>>
    BY <1>4, <2>2, <2>4, <2>6, <2>8, <2>10 DEF SenderSecured
  <2>14. CASE End(c) /\ UNCHANGED <<keys, sealed>>
    <3>1. CallsInv'
      BY <2>1, <2>14, EndFits DEF TInv
    <3> QED
      BY <1>1, <2>1, <2>12, <2>14, <3>1 DEF TInv, StoreInv, LogInv, ServerInv
  <2>15. CASE /\ keys' = keys + 1 /\ sealed' = sealed \cup {o}
              /\ call' = [call EXCEPT ![c].step = "informing", ![c].sent = o, ![c].stored = record]
    <3>1. PICK k : k = [call[c] EXCEPT !.step = "informing", !.sent = o, !.stored = record]
      OBVIOUS
    <3>2. /\ k \in CallSet /\ k.step = "informing" /\ k.n = call[c].n /\ k.contact = call[c].contact
          /\ k.sent = o /\ k.stored = record
      BY <1>2, <2>9, <2>11, <3>1 DEF CallSet, Step
    <3>3. Fits(k, stored')
      BY <1>2, <2>1, <2>2, <2>9, <2>11, <3>2 DEF Fits
    <3>4. call' = [call EXCEPT ![c] = k]
      BY <2>15, <3>1
    <3>5. CallsInv'
      BY <2>1, <3>3, <3>4, CallMoves DEF TInv
    <3>6. sealed' \subseteq OutSet /\ keys' \in Nat /\ keys' >= 3
      BY <1>3, <2>9, <2>15 DEF TInv, LogInv
    <3> QED
      BY <1>1, <2>1, <2>12, <3>5, <3>6 DEF TInv, StoreInv, LogInv, ServerInv
  <2> QED
    BY <2>13, <2>14, <2>15
<1>5. CASE InfoSent(c)
  <2>1. /\ UNCHANGED <<secured, keys, sealed>> /\ outbox' \subseteq outbox \cup {call[c].sent}
        /\ call[c].step = "informing"
        /\ \/ SaveAccept(c, call[c].msg, call[c].key, call[c].stored)
           \/ End(c) /\ UNCHANGED <<contact, stored>>
    BY <1>5 DEF InfoSent, Delivered, At
  <2>2. outbox' \subseteq OutSet
    BY <1>3, <2>1 DEF TInv, ServerInv
  <2>3. CASE SaveAccept(c, call[c].msg, call[c].key, call[c].stored)
    <3>1. StoreInv' /\ CallsInv'
      BY <1>2, <1>3, <2>1, <2>3, SaveAcceptTypes
    <3> QED
      BY <1>1, <2>1, <2>2, <3>1 DEF TInv, LogInv, ServerInv
  <2>4. CASE End(c) /\ UNCHANGED <<contact, stored>>
    <3>1. CallsInv'
      BY <2>4, EndFits DEF TInv
    <3> QED
      BY <1>1, <2>1, <2>2, <2>4, <3>1 DEF TInv, StoreInv, LogInv, ServerInv
  <2> QED
    BY <2>1, <2>3, <2>4
<1> QED
  BY <1>4, <1>5

LEMMA MessageArrivesTypes ==
  ASSUME TInv, NEW c \in Call, MessageArrives(c)
  PROVE  TInv'
<1>1. /\ UNCHANGED <<contact, tasks, servers, counters, keys, sealed>>
      /\ call[c].step = "receiving" /\ inbox[call[c].n] # <<>>
  BY DEF MessageArrives, At
<1>2. /\ call[c] \in CallSet /\ call[c].n \in Session /\ call[c].contact.session \in Session
      /\ call[c].contact.state = "active" /\ stored.session # 0 /\ stored \in RecordSet
  BY <1>1 DEF TInv, CallsInv, Fits, StoreInv
<1>3. PICK m : m = Head(inbox[call[c].n])
  OBVIOUS
<1>4. m \in Post /\ m \in MsgSet /\ m.p \in PacketSet
  BY <1>1, <1>2, <1>3, HeadFits
<1>5. /\ \/ UNCHANGED <<stored, received, read>>
         \/ /\ Take(m) /\ read' = Append(read, m.what) /\ m.env = "message"
      /\ \/ End(c)
         \/ \E step \in {"acking", "acking text"} :
              /\ call' = [call EXCEPT ![c].step = step, ![c].msg = m]
              /\ step = "acking text" => m.env = "message"
  BY <1>3 DEF MessageArrives, Readable
<1>6. /\ stored' \in RecordSet /\ stored'.session = stored.session
      /\ stored.pending = FALSE => stored'.pending = FALSE
  <2>1. CASE UNCHANGED stored
    BY <1>2, <2>1
  <2>2. CASE Take(m)
    <3>1. stored.r \in Ratchet
      BY <1>2 DEF RecordSet
    <3>2. PICK r \in Ratchet : r = Decrypt(stored.r, m.p).state
      BY <1>4, <3>1, DecryptFits
    <3>3. stored' = [stored EXCEPT !.r = r]
      BY <2>2, <3>2 DEF Take
    <3> QED
      BY <1>2, <3>3 DEF RecordSet
  <2> QED
    BY <1>5, <2>1, <2>2
<1>7. StoreInv'
  BY <1>1, <1>6 DEF TInv, StoreInv
<1>8. received' \subseteq Triple /\ read' \in Seq(Triple)
  <2>1. CASE UNCHANGED <<received, read>>
    BY <2>1 DEF TInv, LogInv
  <2>2. CASE Take(m) /\ read' = Append(read, m.what) /\ m.env = "message"
    <3>1. m.what \in Triple
      BY <1>4, <2>2 DEF Post, FromPeer
    <3>2. received' = received \cup {m.what}
      BY <2>2 DEF Take
    <3>3. read \in Seq(Triple)
      BY DEF TInv, LogInv
    <3>4. read' \in Seq(Triple)
      BY <2>2, <3>1, <3>3, AppendProperties
    <3> QED
      BY <3>1, <3>2, <3>4 DEF TInv, LogInv
  <2> QED
    BY <1>5, <2>1, <2>2
<1>9. CallsInv'
  <2>1. CASE End(c)
    BY <1>6, <2>1, EndFits DEF TInv
  <2>2. ASSUME NEW step \in {"acking", "acking text"}, step = "acking text" => m.env = "message",
               call' = [call EXCEPT ![c].step = step, ![c].msg = m]
        PROVE  CallsInv'
    <3>1. PICK k : k = [call[c] EXCEPT !.step = step, !.msg = m]
      OBVIOUS
    <3>2. /\ k \in CallSet /\ k.step = step /\ k.n = call[c].n /\ k.contact = call[c].contact /\ k.msg = m
      BY <1>2, <1>4, <3>1 DEF CallSet, Step
    <3>3. step = "acking text" => m.what \in Triple
      BY <1>4, <2>2 DEF Post, FromPeer
    <3>4. Fits(k, stored')
      BY <1>2, <1>6, <3>2, <3>3 DEF Fits
    <3>5. call' = [call EXCEPT ![c] = k]
      BY <2>2, <3>1
    <3> QED
      BY <1>6, <3>4, <3>5, CallMoves DEF TInv
  <2> QED
    BY <1>5, <2>1, <2>2
<1> QED
  BY <1>1, <1>7, <1>8, <1>9 DEF TInv, LogInv, ServerInv, servers, counters

\* An ACK takes the head, or nothing.
LEMMA AckedFits ==
  ASSUME TInv, NEW n \in Session, NEW what, inbox' = [inbox EXCEPT ![n] = Acked(n, what)]
  PROVE  inbox' \in [Session -> Seq(Post)]
<1>1. Acked(n, what) \in Seq(Post)
  BY HeadFits DEF Acked, TInv, ServerInv
<1> QED
  BY <1>1 DEF TInv, ServerInv

LEMMA AckEndsTypes ==
  ASSUME TInv, NEW c \in Call, AckEnds(c)
  PROVE  TInv'
<1>1. /\ UNCHANGED <<received, secured, outbox, peer, requests, sends, read>>
      /\ call[c].step \in {"acking", "acking text"}
  BY DEF AckEnds
<1>2. PICK n, what : n = call[c].n /\ what = call[c].msg.what
  OBVIOUS
<1>3. /\ call[c] \in CallSet /\ n \in Session /\ stored.session # 0 /\ what \in What
      /\ call[c].contact \in ContactSet
      /\ call[c].step = "acking text" =>
           call[c].contact.session \in Session /\ call[c].contact.state = "active" /\ what \in Triple
  BY <1>1, <1>2 DEF TInv, CallsInv, Fits, CallSet, MsgSet
<1>4. /\ inbox' = inbox \/ inbox' = [inbox EXCEPT ![n] = Acked(n, what)]
      /\ tasks' \subseteq tasks \cup {[type |-> "ack", o |-> Outgoing(n, 0, what, NoPacket)]}
      /\ \/ /\ call[c].step = "acking text"
            /\ Seal(c, <<"receipt", what>>, "receipting", call[c].contact)
         \/ End(c) /\ UNCHANGED <<contact, stored, keys, sealed>>
  BY <1>2 DEF AckEnds, At
<1>5. ServerInv'
  BY <1>1, <1>3, <1>4, AckedFits DEF TInv, ServerInv
<1>6. tasks' \subseteq TaskSet
  <2>1. PICK o : o = Outgoing(n, 0, what, NoPacket)
    OBVIOUS
  <2>2. n \in Count /\ 0 \in Nat
    BY <1>3, Numbers
  <2>3. o \in OutSet /\ o.n = n
    <3>1. NoPacket \in PacketSet
      BY NothingFits
    <3> QED
      BY <1>3, <2>1, <2>2, <3>1 DEF Outgoing, OutSet
  <2>4. [type |-> "ack", o |-> o] \in TaskSet
    BY <1>3, <2>3 DEF TaskSet
  <2> QED
    BY <1>4, <2>1, <2>4 DEF TInv, LogInv
<1>7. CASE call[c].step = "acking text" /\ Seal(c, <<"receipt", what>>, "receipting", call[c].contact)
  <2>1. <<"receipt", what>> \in What
    BY <1>3, <1>7 DEF What
  <2>2. StoreInv' /\ CallsInv' /\ sealed' \subseteq OutSet /\ keys' \in Nat /\ keys' >= 3
    BY <1>3, <1>7, <2>1, SealTypes
  <2> QED
    BY <1>1, <1>5, <1>6, <2>2 DEF TInv, LogInv
<1>8. CASE End(c) /\ UNCHANGED <<contact, stored, keys, sealed>>
  <2>1. CallsInv'
    BY <1>8, EndFits DEF TInv
  <2> QED
    BY <1>1, <1>5, <1>6, <1>8, <2>1 DEF TInv, StoreInv, LogInv
<1> QED
  BY <1>4, <1>7, <1>8

LEMMA DrainTypes ==
  ASSUME TInv, NEW t \in tasks, Drain(t)
  PROVE  TInv'
<1>1. /\ UNCHANGED <<contact, stored, received, call, secured, peer, counters, keys, sealed, read>>
      /\ tasks' = tasks \ {t}
      /\ inbox' = inbox \/ inbox' = [inbox EXCEPT ![t.o.n] = Acked(t.o.n, t.o.what)]
      /\ outbox' \subseteq outbox \cup {t.o}
  BY DEF Drain
<1>2. t.o \in OutSet /\ t.o.n \in Session
  BY DEF TInv, LogInv, TaskSet
<1>3. inbox' \in [Session -> Seq(Post)] /\ outbox' \subseteq OutSet
  BY <1>1, <1>2, AckedFits DEF TInv, ServerInv
<1>4. CallsInv'
  BY <1>1, CallsStay DEF TInv
<1> QED
  BY <1>1, <1>3, <1>4 DEF TInv, StoreInv, LogInv, ServerInv, counters

LEMMA SuspendTypes == TInv /\ SuspendContact => TInv'
<1> SUFFICES ASSUME TInv, SuspendContact PROVE TInv'
  OBVIOUS
<1>1. UNCHANGED <<stored, tasks, received, call, servers, counters, keys, sealed, read>>
      /\ contact.state = "active" /\ contact' = [contact EXCEPT !.state = "suspended"]
  BY DEF SuspendContact
<1>2. contact' \in ContactSet /\ contact'.session = contact.session /\ contact'.state = "suspended"
  BY <1>1 DEF TInv, StoreInv, ContactSet
<1>3. StoreInv'
  BY <1>1, <1>2 DEF TInv, StoreInv
<1>4. CallsInv'
  BY <1>1, CallsStay DEF TInv
<1> QED
  BY <1>1, <1>3, <1>4 DEF TInv, LogInv, ServerInv, servers, counters

-----------------------------------------------------------------------------
(* Types: the peer.                                                        *)

LEMMA PutsTypes ==
  ASSUME TInv, NEW n \in Session, NEW m \in Post, NEW r \in Ratchet, r.own.of = "peer", NEW k \in Nat,
         Puts(n, m, r, k),
         UNCHANGED <<contact, stored, tasks, received, call, secured, outbox, counters, keys, sealed, read>>
  PROVE  TInv'
<1>1. inbox' = [inbox EXCEPT ![n] = Append(inbox[n], m)]
      /\ peer' = [peer EXCEPT ![n] = [up |-> TRUE, r |-> r, sent |-> k]]
  BY DEF Puts, TInv, ServerInv
<1>2. Append(inbox[n], m) \in Seq(Post)
  BY AppendProperties DEF TInv, ServerInv
<1>3. inbox' \in [Session -> Seq(Post)]
  BY <1>1, <1>2 DEF TInv, ServerInv
<1>4. PICK p : p = [up |-> TRUE, r |-> r, sent |-> k]
  OBVIOUS
<1>5. p \in PeerSet /\ p.r.own.of = "peer"
  BY <1>4 DEF PeerSet
<1>6. peer' \in [Session -> PeerSet] /\ \A i \in Session : peer'[i].up => peer'[i].r.own.of = "peer"
  BY <1>1, <1>4, <1>5 DEF TInv, ServerInv
<1>7. CallsInv'
  BY CallsStay DEF TInv
<1> QED
  BY <1>3, <1>6, <1>7 DEF TInv, StoreInv, LogInv, ServerInv, counters

LEMMA PeerAnswersTypes ==
  ASSUME TInv, NEW n \in Session, PeerAnswers(n)
  PROVE  TInv'
<1>0. /\ UNCHANGED <<contact, stored, tasks, received, call, secured, outbox, counters, keys, sealed, read>>
      /\ n \in Nat
  BY Numbers DEF PeerAnswers
<1>1. /\ \A k \in Nat : /\ Theirs(n, k) \in KeySet /\ Mine(n, k) \in KeySet /\ NoKey \in KeySet
                        /\ Theirs(n, k).of = "peer"
      /\ 0 \in Nat /\ 1 \in Nat /\ 2 \in Nat /\ 3 \in Nat
  BY <1>0, KeysFit DEF Theirs, Key
<1>2. ASSUME NEW mode \in {"M", "C"}, NEW header \in {"empty", "confirmation"}, NEW e,
             e = Encrypt(SendingRatchet(X3dhSender(Theirs(n, 1), Theirs(n, 2), Mine(n, 1), Mine(n, 2)),
                                        Theirs(n, 3), Mine(n, 2)), NoKey),
             Puts(n, Message("confirmation", TRUE, header, mode, <<"reply", n>>, e.packet), e.state, 0)
      PROVE  TInv'
  <2>1. PICK init \in Root : init = X3dhSender(Theirs(n, 1), Theirs(n, 2), Mine(n, 1), Mine(n, 2))
    BY <1>1, AgreementFits
  <2>2. PICK r : r = SendingRatchet(init, Theirs(n, 3), Mine(n, 2))
    OBVIOUS
  <2>3. r \in Ratchet /\ r.own = Theirs(n, 3) /\ r.sending # NoChain
    <3>1. Append(init, DH(Theirs(n, 3), Mine(n, 2))) # <<>>
      BY <1>1, RootGrows
    <3>2. /\ r \in Ratchet /\ r.own = Theirs(n, 3)
          /\ r.sending = Chain(Append(init, DH(Theirs(n, 3), Mine(n, 2))))
      BY <1>1, <2>2, StartFits
    <3> QED
      BY <3>1, <3>2 DEF Chain, NoChain
  <2>4. /\ e.state \in Ratchet /\ e.packet \in PacketSet
        /\ e.packet.dh = e.state.own /\ e.state.own = r.own
    BY <1>1, <1>2, <2>1, <2>2, <2>3, EncryptFits
  <2>5. PICK m : m = Message("confirmation", TRUE, header, mode, <<"reply", n>>, e.packet)
    OBVIOUS
  <2>6. <<"reply", n>> \in What
    BY <1>0 DEF What, Pair
  <2>7. m \in MsgSet /\ m.p = e.packet /\ m.env = "confirmation" /\ m.e2e /\ m.what = <<"reply", n>>
    BY <2>4, <2>5, <2>6 DEF Message, MsgSet
  <2>8. m \in Post /\ e.state.own.of = "peer"
    <3>1. r.own.of = "peer"
      BY <1>1, <2>3
    <3>2. m.p.dh.of = "peer" /\ e.state.own.of = "peer"
      BY <2>4, <2>7, <3>1
    <3>3. m.what \in {"reply", "info"} \X Nat
      BY <1>0, <2>7
    <3> QED
      BY <2>7, <3>2, <3>3 DEF Post, FromPeer
  <2> QED
    BY <1>0, <1>1, <1>2, <2>4, <2>5, <2>8, PutsTypes
<1>3. ASSUME NEW o \in outbox, NEW d, NEW e,
             d = Decrypt(ReceivingRatchet(X3dhReceiver(Theirs(n, 1), Theirs(n, 2), Mine(n, 1), Mine(n, 2)),
                                          Theirs(n, 2)), o.p),
             e = Encrypt(d.state, Theirs(n, 3)),
             Puts(n, Message("confirmation", FALSE, "empty", "M", <<"info", n>>, e.packet), e.state, 0)
      PROVE  TInv'
  <2>1. PICK init \in Root : init = X3dhReceiver(Theirs(n, 1), Theirs(n, 2), Mine(n, 1), Mine(n, 2))
    BY <1>1, AgreementFits
  <2>2. PICK r : r = ReceivingRatchet(init, Theirs(n, 2))
    OBVIOUS
  <2>3. r \in Ratchet /\ r.own = Theirs(n, 2)
    BY <1>1, <2>2, StartFits
  <2>4. o.p \in PacketSet
    BY DEF TInv, ServerInv, OutSet
  <2>5. d.state \in Ratchet /\ d.state.own = Theirs(n, 2)
    BY <1>3, <2>1, <2>2, <2>3, <2>4, DecryptFits
  <2>6. /\ e.state \in Ratchet /\ e.packet \in PacketSet /\ e.packet.dh = e.state.own
        /\ e.state.own \in {Theirs(n, 2), Theirs(n, 3)}
    BY <1>1, <1>3, <2>5, EncryptFits
  <2>7. PICK m : m = Message("confirmation", FALSE, "empty", "M", <<"info", n>>, e.packet)
    OBVIOUS
  <2>8. <<"info", n>> \in What
    BY <1>0 DEF What, Pair
  <2>9. /\ m \in MsgSet /\ m.p = e.packet /\ m.env = "confirmation" /\ m.header = "empty"
        /\ m.what = <<"info", n>>
    BY <2>6, <2>7, <2>8 DEF Message, MsgSet
  <2>10. e.state.own.of = "peer"
    BY <1>1, <2>6
  <2>11. m.p.dh.of = "peer"
    BY <2>6, <2>9, <2>10
  <2>12. m.what \in {"reply", "info"} \X Nat /\ m.what[1] = "info"
    BY <1>0, <2>9
  <2>13. m \in Post
    BY <2>9, <2>11, <2>12 DEF Post, FromPeer
  <2> QED
    BY <1>0, <1>1, <1>3, <2>6, <2>7, <2>10, <2>13, PutsTypes
<1> QED
  BY <1>2, <1>3 DEF PeerAnswers

LEMMA PeerSendsTypes ==
  ASSUME TInv, NEW n \in Session, PeerSends(n)
  PROVE  TInv'
<1>1. /\ peer[n].up /\ peer[n] \in PeerSet /\ peer[n].r.own.of = "peer" /\ n \in Nat
      /\ UNCHANGED <<contact, stored, tasks, received, call, secured, outbox, counters, keys, sealed, read>>
  BY Numbers DEF PeerSends, TInv, ServerInv
<1>2. PICK k \in Nat : k = peer[n].sent + 1
  BY <1>1 DEF PeerSet
<1>3. PICK e : e = Encrypt(peer[n].r, Theirs(n, 3 + k))
  OBVIOUS
<1>4. /\ e.state \in Ratchet /\ e.packet \in PacketSet
      /\ e.packet.dh = e.state.own /\ e.state.own.of = "peer"
  <2>1. Theirs(n, 3 + k) \in KeySet /\ Theirs(n, 3 + k).of = "peer"
    <3>1. 3 + k \in Nat
      OBVIOUS
    <3> QED
      BY <1>1, <3>1, KeysFit DEF Theirs, Key
  <2>2. peer[n].r \in Ratchet
    BY <1>1 DEF PeerSet
  <2> QED
    BY <1>1, <1>3, <2>1, <2>2, EncryptFits
<1>5. PICK kind \in {"text", "receipt"} :
        Puts(n, Message("message", FALSE, "empty", "M", <<kind, n, k>>, e.packet), e.state, k)
  BY <1>2, <1>3 DEF PeerSends
<1>6. PICK m : m = Message("message", FALSE, "empty", "M", <<kind, n, k>>, e.packet)
  OBVIOUS
<1>7. <<kind, n, k>> \in Triple /\ <<kind, n, k>> \in What
  BY <1>1 DEF What, Triple
<1>8. m \in MsgSet /\ m.p = e.packet /\ m.env = "message" /\ m.what = <<kind, n, k>>
  BY <1>4, <1>6, <1>7 DEF Message, MsgSet
<1>9. m \in Post
  BY <1>4, <1>7, <1>8 DEF Post, FromPeer
<1> QED
  BY <1>1, <1>4, <1>5, <1>6, <1>9, PutsTypes

LEMMA PeerReadsTypes ==
  ASSUME TInv, NEW n \in Session, PeerReads(n)
  PROVE  TInv'
<1>1. /\ peer[n].up /\ peer[n] \in PeerSet /\ peer[n].r \in Ratchet /\ peer[n].r.own.of = "peer"
      /\ UNCHANGED <<contact, stored, tasks, received, call, inbox, secured, outbox, counters, keys, sealed, read>>
  BY DEF PeerReads, TInv, ServerInv, PeerSet
<1>2. PICK o, d :
        /\ o \in outbox
        /\ d = Decrypt(peer[n].r, o.p)
        /\ peer' = [peer EXCEPT ![n].r = IF d.next THEN [d.state EXCEPT !.sending = NoChain] ELSE d.state]
  BY DEF PeerReads
<1>3. d.state \in Ratchet /\ d.state.own = peer[n].r.own
  <2>1. o.p \in PacketSet
    BY <1>2 DEF TInv, ServerInv, OutSet
  <2> QED
    BY <1>1, <1>2, <2>1, DecryptFits
<1>4. [d.state EXCEPT !.sending = NoChain] \in Ratchet
      /\ [d.state EXCEPT !.sending = NoChain].own = d.state.own
  BY <1>3, NothingFits DEF Ratchet
<1>5. PICK r \in Ratchet : r.own.of = "peer" /\ peer' = [peer EXCEPT ![n].r = r]
  BY <1>1, <1>2, <1>3, <1>4
<1>6. peer' \in [Session -> PeerSet] /\ \A i \in Session : peer'[i].up => peer'[i].r.own.of = "peer"
  <2>1. PICK p : p = [peer[n] EXCEPT !.r = r]
    OBVIOUS
  <2>2. p \in PeerSet /\ p.r = r
    BY <1>1, <2>1 DEF PeerSet
  <2>3. peer' = [peer EXCEPT ![n] = p]
    BY <1>5, <2>1
  <2> QED
    BY <1>5, <2>2, <2>3 DEF TInv, ServerInv
<1>7. CallsInv'
  BY <1>1, CallsStay DEF TInv
<1> QED
  BY <1>1, <1>6, <1>7 DEF TInv, StoreInv, LogInv, ServerInv, counters

LEMMA NextTypes == TInv /\ [Next]_vars => TInv'
<1> SUFFICES ASSUME TInv, [Next]_vars PROVE TInv'
  OBVIOUS
<1>1. CASE UNCHANGED vars
  <2>1. CallsInv'
    BY <1>1, CallsStay DEF TInv, vars
  <2> QED
    BY <1>1, <2>1 DEF TInv, StoreInv, LogInv, ServerInv, vars, servers, counters
<1>2. ASSUME NEW c \in Call, CallStep(c) PROVE TInv'
  BY <1>2, BeginTypes, QueueCreatedTypes, SendTypes, AcceptTypes, InfoTypes, MessageArrivesTypes,
     AckEndsTypes DEF CallStep
<1> QED
  BY <1>1, <1>2, DrainTypes, SuspendTypes, PeerAnswersTypes, PeerSendsTypes, PeerReadsTypes DEF Next

-----------------------------------------------------------------------------
(***************************************************************************)
(* InOrder.  The messages in a reply queue have consecutive numbers, the   *)
(* last that of the peer's last message.  What left the queue was read,    *)
(* because only what is recorded as received is ever acknowledged; and     *)
(* only the head can be recorded while it is still there.                  *)
(***************************************************************************)

\* The confirmation is number 0.
Number(m) == IF m.env = "message" THEN m.what[3] ELSE 0

Read(n, k) == \E i \in 1 .. Len(read) : read[i][2] = n /\ read[i][3] = k

LineInv ==
  \A n \in Session :
    /\ peer[n].sent <= MaxPeer
    /\ ~peer[n].up => inbox[n] = <<>> /\ peer[n].sent = 0
    /\ \A i \in 1 .. Len(inbox[n]) :
         /\ Number(inbox[n][i]) + Len(inbox[n]) = peer[n].sent + i
         /\ inbox[n][i].env = "message" => inbox[n][i].what[2] = n /\ inbox[n][i].what[3] # 0

TakenInv ==
  /\ \A w \in received :
       /\ w[2] \in Session /\ w[3] # 0 /\ Read(w[2], w[3])
       /\ \/ w[3] + Len(inbox[w[2]]) <= peer[w[2]].sent
          \/ inbox[w[2]] # <<>> /\ w = Head(inbox[w[2]]).what
  /\ \A n \in Session, k \in Nat : k # 0 /\ k + Len(inbox[n]) <= peer[n].sent => Read(n, k)
  /\ \A i \in 1 .. Len(read) : read[i] \in received

\* A text or receipt that is acknowledged, or will be, was received.
AckInv ==
  /\ \A c \in Call : call[c].msg.what \in Triple => call[c].msg.what \in received
  /\ \A t \in tasks : t.type = "ack" /\ t.o.what \in Triple => t.o.what \in received

QInv == LineInv /\ TakenInv /\ AckInv /\ InOrder

LEMMA NoTriple == /\ <<"none">> \notin Triple
                  /\ \A w \in {"reply", "info"} \X Nat : w \notin Triple
<1>1. \A w \in Triple : w[1] \in {"text", "receipt"}
  BY DEF Triple
<1> QED
  BY <1>1

\* Nothing is taken.
LEMMA OrderStays ==
  ASSUME read' = read
  PROVE  /\ InOrder => InOrder'
         /\ \A n, k : Read(n, k)' <=> Read(n, k)
  BY DEF InOrder, Read

LEMMA InitQueue == Init => QInv
<1> SUFFICES ASSUME Init PROVE QInv
  OBVIOUS
<1>1. \A c \in Call : call[c].msg.what = <<"none">>
  BY DEF Init, IdleCall, Message
<1>2. read = <<>> /\ received = {} /\ tasks = {} /\ Len(read) = 0
  BY EmptySeq DEF Init
<1>3. \A n \in Session : inbox[n] = <<>> /\ Len(inbox[n]) = 0 /\ peer[n].sent = 0
  BY EmptySeq DEF Init, NoPeer
<1>4. LineInv
  BY <1>3, NativeAssumption DEF LineInv
<1>5. TakenInv
  BY <1>2, <1>3 DEF TakenInv
<1>6. AckInv
  BY <1>1, <1>2, NoTriple DEF AckInv
<1>7. InOrder
  BY <1>2 DEF InOrder
<1> QED
  BY <1>4, <1>5, <1>6, <1>7 DEF QInv

\* Nothing comes, goes or is taken.
LEMMA QueueStays ==
  ASSUME LineInv, TakenInv, InOrder, UNCHANGED <<inbox, received, read>>,
         \A n \in Session : peer'[n].up = peer[n].up /\ peer'[n].sent = peer[n].sent
  PROVE  LineInv' /\ TakenInv' /\ InOrder'
<1>1. LineInv'
  BY DEF LineInv, Number
<1>2. TakenInv'
  BY DEF TakenInv, Read
<1>3. InOrder'
  BY DEF InOrder
<1> QED
  BY <1>1, <1>2, <1>3

LEMMA EndsWith == IdleCall.msg.what = <<"none">> /\ IdleCall.step = "idle"
  BY DEF IdleCall, Message

\* An ACK of what was received, or of a confirmation.
LEMMA QueueShrinks ==
  ASSUME TInv, LineInv, TakenInv, InOrder, NEW n \in Session, NEW what, what \in Triple => what \in received,
         inbox' = [inbox EXCEPT ![n] = Acked(n, what)], UNCHANGED <<received, read, peer>>
  PROVE  LineInv' /\ TakenInv' /\ InOrder'
<1>1. CASE ~(inbox[n] # <<>> /\ Head(inbox[n]).what = what)
  <2>1. inbox' = inbox
    BY <1>1 DEF Acked, TInv, ServerInv
  <2> QED
    BY <2>1, QueueStays
<1>2. CASE inbox[n] # <<>> /\ Head(inbox[n]).what = what
  <2>1. PICK q, h : q = inbox[n] /\ h = Head(q)
    OBVIOUS
  <2>2. PICK l \in Nat, s \in Nat : l = Len(q) /\ s = peer[n].sent
    BY <2>1, LenProperties DEF TInv, ServerInv, PeerSet
  <2>3. q \in Seq(Post) /\ q # <<>> /\ h = q[1] /\ h.what = what /\ l > 0 /\ h \in Post
    BY <1>2, <2>1, <2>2, HeadTailProperties, EmptySeq, LenProperties DEF TInv, ServerInv
  <2>4. /\ Tail(q) \in Seq(Post) /\ Len(Tail(q)) = l - 1
        /\ \A i \in 1 .. Len(Tail(q)) : Tail(q)[i] = q[i + 1]
    BY <2>2, <2>3, HeadTailProperties
  <2>5. /\ inbox'[n] = Tail(q) /\ \A d \in Session : d # n => inbox'[d] = inbox[d]
    BY <1>2, <2>1 DEF Acked, TInv, ServerInv
  <2>6. \A i \in 1 .. l : /\ Number(q[i]) + l = s + i
                          /\ q[i].env = "message" => q[i].what[2] = n /\ q[i].what[3] # 0
    BY <2>1, <2>2 DEF LineInv
  <2>7. /\ Number(h) + l = s + 1
        /\ h.env = "message" => h.what \in received /\ h.what[2] = n /\ h.what[3] = Number(h) /\ Number(h) # 0
        /\ h.env # "message" => h.what \notin Triple /\ Number(h) = 0
    <3>1. 1 \in 1 .. l
      BY <2>2, <2>3
    <3> QED
      BY <2>3, <2>6, <3>1, NoTriple DEF Number, Post, FromPeer
  <2>8. LineInv'
    <3> SUFFICES ASSUME NEW d \in Session
                 PROVE  /\ peer[d].sent <= MaxPeer
                        /\ ~peer[d].up => inbox'[d] = <<>> /\ peer[d].sent = 0
                        /\ \A i \in 1 .. Len(inbox'[d]) :
                             /\ Number(inbox'[d][i]) + Len(inbox'[d]) = peer[d].sent + i
                             /\ inbox'[d][i].env = "message" => inbox'[d][i].what[2] = d /\ inbox'[d][i].what[3] # 0
      BY DEF LineInv, Number
    <3>1. CASE d # n
      BY <2>5, <3>1 DEF LineInv
    <3>2. CASE d = n
      <4>1. peer[n].up /\ s <= MaxPeer
        BY <2>1, <2>2, <2>3 DEF LineInv
      <4>2. ASSUME NEW i \in 1 .. Len(Tail(q))
            PROVE  /\ Number(Tail(q)[i]) + Len(Tail(q)) = s + i
                   /\ Tail(q)[i].env = "message" => Tail(q)[i].what[2] = n /\ Tail(q)[i].what[3] # 0
        <5>1. i + 1 \in 1 .. l /\ Tail(q)[i] = q[i + 1] /\ i \in Nat
          BY <2>2, <2>4
        <5>2. Number(q[i + 1]) \in Int
          <6>1. q[i + 1] \in Post
            BY <2>2, <2>3, <5>1, ElementOfSeq
          <6> QED
            BY <6>1 DEF Number, Post, FromPeer, Triple
        <5>3. Number(q[i + 1]) + l = s + (i + 1)
          BY <2>6, <5>1
        <5>4. Number(q[i + 1]) + (l - 1) = s + i
          <6>1. PICK x \in Int : x = Number(q[i + 1])
            BY <5>2
          <6>2. x + l = s + (i + 1)
            BY <5>3, <6>1
          <6>3. x + (l - 1) = s + i
            BY <5>1, <6>2
          <6> QED
            BY <6>1, <6>3
        <5> QED
          BY <2>4, <2>6, <5>1, <5>4
      <4>3. /\ peer[n].sent <= MaxPeer
            /\ ~peer[n].up => inbox'[n] = <<>> /\ peer[n].sent = 0
        BY <2>2, <4>1
      <4>4. \A i \in 1 .. Len(inbox'[n]) :
              /\ Number(inbox'[n][i]) + Len(inbox'[n]) = peer[n].sent + i
              /\ inbox'[n][i].env = "message" => inbox'[n][i].what[2] = n /\ inbox'[n][i].what[3] # 0
        BY <2>2, <2>5, <4>2
      <4> QED
        BY <3>2, <4>3, <4>4
    <3> QED
      BY <3>1, <3>2
  <2>9. TakenInv'
    <3>1. ASSUME NEW w \in received
          PROVE  \/ w[3] + Len(inbox'[w[2]]) <= peer[w[2]].sent
                 \/ inbox'[w[2]] # <<>> /\ w = Head(inbox'[w[2]]).what
      <4>1. CASE w[2] # n
        BY <2>5, <4>1 DEF TakenInv
      <4>2. CASE w[2] = n
        <5>1. w \in Triple /\ w[3] \in Nat
          BY DEF TInv, LogInv, Triple
        <5>2. CASE w[3] + l <= s
          BY <2>2, <2>4, <2>5, <4>2, <5>1, <5>2
        <5>3. CASE w = h.what
          <6>1. w[3] + l = s + 1
            BY <2>7, <5>1, <5>3
          <6> QED
            BY <2>2, <2>4, <2>5, <4>2, <5>1, <6>1
        <5> QED
          BY <2>1, <2>2, <4>2, <5>2, <5>3 DEF TakenInv
      <4> QED
        BY <4>1, <4>2
    <3>2. ASSUME NEW d \in Session, NEW k \in Nat, k # 0, k + Len(inbox'[d]) <= peer[d].sent
          PROVE  Read(d, k)
      <4>1. CASE d # n
        BY <2>5, <3>2, <4>1 DEF TakenInv
      <4>2. CASE d = n /\ k + l <= s
        BY <2>1, <2>2, <3>2, <4>2 DEF TakenInv
      <4>3. CASE d = n /\ ~(k + l <= s)
        <5>1. k = Number(h)
          <6>1. k + (l - 1) <= s
            BY <2>2, <2>4, <2>5, <3>2, <4>3
          <6>2. Number(h) \in Int
            BY <2>3 DEF Number, Post, FromPeer, Triple
          <6> QED
            BY <2>7, <4>3, <6>1, <6>2
        <5> QED
          BY <2>7, <3>2, <4>3, <5>1 DEF TakenInv
      <4> QED
        BY <4>1, <4>2, <4>3
    <3>3. \A d \in Session, k \in Nat : k # 0 /\ k + Len(inbox'[d]) <= peer'[d].sent => Read(d, k)'
      BY <3>2, OrderStays
    <3>4. \A w \in received' : w[2] \in Session /\ w[3] # 0 /\ Read(w[2], w[3])'
      BY OrderStays DEF TakenInv
    <3>5. \A i \in 1 .. Len(read') : read'[i] \in received'
      BY DEF TakenInv
    <3> QED
      BY <3>1, <3>3, <3>4, <3>5 DEF TakenInv
  <2>10. InOrder'
    BY OrderStays
  <2> QED
    BY <2>8, <2>9, <2>10
<1> QED
  BY <1>1, <1>2

LEMMA OneMore ==
  \A x, j \in Int, l, s, k \in Nat : x + l = s + j /\ k = s + 1 => x + (l + 1) = k + j
  OBVIOUS

\* The peer puts its next message, or the confirmation, at the end.
LEMMA QueueGrows ==
  ASSUME TInv, LineInv, TakenInv, InOrder, NEW n \in Session, NEW m \in Post, NEW r, NEW k \in Nat,
         Puts(n, m, r, k), UNCHANGED <<received, read>>, k <= MaxPeer,
         Number(m) = k, m.env = "message" => m.what[2] = n /\ m.what[3] # 0,
         k = peer[n].sent + 1 \/ (k = 0 /\ ~peer[n].up)
  PROVE  LineInv' /\ TakenInv' /\ InOrder'
<1>1. PICK q : q = inbox[n]
  OBVIOUS
<1>2. PICK l \in Nat, s \in Nat : l = Len(q) /\ s = peer[n].sent
  BY <1>1, LenProperties DEF TInv, ServerInv, PeerSet
<1>3. q \in Seq(Post) /\ (k = s + 1 \/ (k = 0 /\ s = 0 /\ l = 0 /\ q = <<>>))
  BY <1>1, <1>2, EmptySeq DEF TInv, ServerInv, LineInv
<1>4. /\ Append(q, m) \in Seq(Post) /\ Len(Append(q, m)) = l + 1 /\ Append(q, m)[l + 1] = m
      /\ \A i \in 1 .. l : Append(q, m)[i] = q[i]
  BY <1>2, <1>3, AppendProperties
<1>5. /\ inbox'[n] = Append(q, m) /\ \A d \in Session : d # n => inbox'[d] = inbox[d]
      /\ peer'[n].up /\ peer'[n].sent = k /\ \A d \in Session : d # n => peer'[d] = peer[d]
  BY <1>1 DEF Puts, TInv, ServerInv
<1>6. \A i \in 1 .. l : /\ Number(q[i]) + l = s + i
                        /\ q[i].env = "message" => q[i].what[2] = n /\ q[i].what[3] # 0
  BY <1>1, <1>2 DEF LineInv
<1>7. LineInv'
  <2> SUFFICES ASSUME NEW d \in Session
               PROVE  /\ peer'[d].sent <= MaxPeer
                      /\ ~peer'[d].up => inbox'[d] = <<>> /\ peer'[d].sent = 0
                      /\ \A i \in 1 .. Len(inbox'[d]) :
                           /\ Number(inbox'[d][i]) + Len(inbox'[d]) = peer'[d].sent + i
                           /\ inbox'[d][i].env = "message" => inbox'[d][i].what[2] = d /\ inbox'[d][i].what[3] # 0
    BY DEF LineInv, Number
  <2>1. CASE d # n
    BY <1>5, <2>1 DEF LineInv
  <2>2. CASE d = n
    <3>1. ASSUME NEW i \in 1 .. l + 1
          PROVE  /\ Number(Append(q, m)[i]) + (l + 1) = k + i
                 /\ Append(q, m)[i].env = "message"
                      => Append(q, m)[i].what[2] = n /\ Append(q, m)[i].what[3] # 0
      <4>1. CASE i = l + 1
        BY <1>2, <1>4, <4>1
      <4>2. CASE i \in 1 .. l
        <5>1. Number(q[i]) \in Int /\ k = s + 1
          <6>1. q[i] \in Post
            BY <1>2, <1>3, <4>2, ElementOfSeq
          <6>2. k = s + 1
            BY <1>2, <1>3, <4>2
          <6> QED
            BY <6>1, <6>2 DEF Number, Post, FromPeer, Triple
        <5>2. Append(q, m)[i] = q[i] /\ Number(q[i]) + l = s + i
          BY <1>4, <1>6, <4>2
        <5>3. Number(q[i]) + (l + 1) = k + i
          <6>1. PICK x \in Int, j \in Int : x = Number(q[i]) /\ j = i
            BY <4>2, <5>1
          <6>2. x + l = s + j /\ k = s + 1
            BY <5>1, <5>2, <6>1
          <6>3. x + (l + 1) = k + j
            BY <6>2, OneMore
          <6> QED
            BY <6>1, <6>3
        <5> QED
          BY <1>6, <4>2, <5>2, <5>3
      <4> QED
        BY <1>2, <4>1, <4>2
    <3>2. /\ peer'[n].sent <= MaxPeer
          /\ ~peer'[n].up => inbox'[n] = <<>> /\ peer'[n].sent = 0
      BY <1>5
    <3>3. \A i \in 1 .. Len(inbox'[n]) :
            /\ Number(inbox'[n][i]) + Len(inbox'[n]) = peer'[n].sent + i
            /\ inbox'[n][i].env = "message" => inbox'[n][i].what[2] = n /\ inbox'[n][i].what[3] # 0
      BY <1>4, <1>5, <3>1
    <3> QED
      BY <2>2, <3>2, <3>3
  <2> QED
    BY <2>1, <2>2
<1>8. TakenInv'
  <2>1. ASSUME NEW w \in received
        PROVE  \/ w[3] + Len(inbox'[w[2]]) <= peer'[w[2]].sent
               \/ inbox'[w[2]] # <<>> /\ w = Head(inbox'[w[2]]).what
    <3>1. CASE w[2] # n
      BY <1>5, <3>1 DEF TakenInv
    <3>2. CASE w[2] = n
      <4>1. w[3] \in Nat /\ w[3] # 0
        BY DEF TInv, LogInv, Triple, TakenInv
      <4>2. CASE w[3] + l <= s
        <5>1. k = s + 1
          BY <1>2, <1>3, <4>1, <4>2
        <5>2. PICK x \in Nat : x = w[3]
          BY <4>1
        <5>3. x + (l + 1) <= k
          BY <4>2, <5>1, <5>2
        <5>4. Len(inbox'[w[2]]) = l + 1 /\ peer'[w[2]].sent = k
          BY <1>4, <1>5, <3>2
        <5> QED
          BY <5>2, <5>3, <5>4
      <4>3. CASE q # <<>> /\ w = Head(q).what
        <5>1. Append(q, m) # <<>> /\ Head(Append(q, m)) = Head(q)
          BY <1>3, <4>3, AppendProperties, LenProperties, EmptySeq, HeadTailProperties
        <5> QED
          BY <1>5, <3>2, <4>3, <5>1
      <4> QED
        BY <1>1, <1>2, <3>2, <4>2, <4>3 DEF TakenInv
    <3> QED
      BY <3>1, <3>2
  <2>2. ASSUME NEW d \in Session, NEW j \in Nat, j # 0, j + Len(inbox'[d]) <= peer'[d].sent
        PROVE  Read(d, j)
    <3>1. CASE d # n
      BY <1>5, <2>2, <3>1 DEF TakenInv
    <3>2. CASE d = n
      <4>1. j + (l + 1) <= k
        BY <1>4, <1>5, <2>2, <3>2
      <4>2. j + l <= s
        BY <1>2, <1>3, <4>1
      <4> QED
        BY <1>1, <1>2, <2>2, <3>2, <4>2 DEF TakenInv
    <3> QED
      BY <3>1, <3>2
  <2>3. \A w \in received : w[2] \in Session /\ w[3] # 0 /\ Read(w[2], w[3])'
    BY DEF TakenInv, Read
  <2>4. \A i \in 1 .. Len(read') : read'[i] \in received'
    BY DEF TakenInv
  <2>5. \A d \in Session, j \in Nat : j # 0 /\ j + Len(inbox'[d]) <= peer'[d].sent => Read(d, j)'
    BY <2>2, OrderStays
  <2> QED
    BY <2>1, <2>3, <2>4, <2>5 DEF TakenInv
<1>9. InOrder'
  BY OrderStays
<1> QED
  BY <1>7, <1>8, <1>9

\* The head is taken, when it was not received before: it is the next one.
LEMMA HeadIsNext ==
  ASSUME TInv, LineInv, TakenInv, InOrder, NEW n \in Session, inbox[n] # <<>>,
         NEW w, w = Head(inbox[n]).what, Head(inbox[n]).env = "message", w \notin received,
         received' = received \cup {w}, read' = Append(read, w), UNCHANGED <<inbox, peer>>
  PROVE  LineInv' /\ TakenInv' /\ InOrder'
<1>1. PICK l \in Nat, s \in Nat : l = Len(inbox[n]) /\ s = peer[n].sent
  BY LenProperties DEF TInv, ServerInv, PeerSet
<1>2. /\ w[2] = n /\ w[3] \in Nat /\ w[3] # 0 /\ w[3] + l = s + 1 /\ w \in Triple
  <2>1. inbox[n] \in Seq(Post) /\ 1 \in 1 .. l /\ Head(inbox[n]) = inbox[n][1] /\ Head(inbox[n]) \in Post
    BY <1>1, HeadTailProperties, EmptySeq, LenProperties DEF TInv, ServerInv
  <2>2. w \in Triple
    BY <2>1 DEF Post, FromPeer
  <2>3. inbox[n][1].env = "message" /\ inbox[n][1].what = w
    BY <2>1
  <2>4. Number(inbox[n][1]) + l = s + 1 /\ w[2] = n /\ w[3] # 0
    BY <1>1, <2>1, <2>3 DEF LineInv
  <2>5. Number(inbox[n][1]) = w[3]
    BY <2>3 DEF Number
  <2> QED
    BY <2>2, <2>4, <2>5 DEF Triple
<1>3. PICK last \in Nat : last = Len(read) + 1
  BY LenProperties DEF TInv, LogInv
<1>4. /\ Len(read') = last /\ read'[last] = w /\ Len(read) \in Nat
      /\ \A i \in 1 .. Len(read) : read'[i] = read[i] /\ i \in 1 .. Len(read')
      /\ last \in 1 .. Len(read')
  BY <1>3, AppendProperties, LenProperties DEF TInv, LogInv
<1>5. \A d, k : Read(d, k) => Read(d, k)'
  BY <1>4 DEF Read
<1>6. Read(n, w[3])'
  BY <1>2, <1>4 DEF Read
<1>7. LineInv'
  BY DEF LineInv, Number
<1>8. TakenInv'
  <2>1. \A v \in received' : v[2] \in Session /\ v[3] # 0 /\ Read(v[2], v[3])'
    BY <1>2, <1>5, <1>6 DEF TakenInv
  <2>2. \A v \in received' : \/ v[3] + Len(inbox'[v[2]]) <= peer'[v[2]].sent
                             \/ inbox'[v[2]] # <<>> /\ v = Head(inbox'[v[2]]).what
    BY <1>2 DEF TakenInv
  <2>3. \A d \in Session, k \in Nat : k # 0 /\ k + Len(inbox'[d]) <= peer'[d].sent => Read(d, k)'
    BY <1>5 DEF TakenInv
  <2>4. \A i \in 1 .. Len(read') : read'[i] \in received'
    <3> SUFFICES ASSUME NEW i \in 1 .. Len(read') PROVE read'[i] \in received'
      OBVIOUS
    <3>1. CASE i = last
      BY <1>4, <3>1
    <3>2. CASE i \in 1 .. Len(read)
      BY <1>4, <3>2 DEF TakenInv
    <3> QED
      BY <1>3, <1>4, <3>1, <3>2
  <2> QED
    BY <2>1, <2>2, <2>3, <2>4 DEF TakenInv
<1>9. InOrder'
  <2>1. ASSUME NEW j \in 1 .. Len(read), read[j][2] = n PROVE read[j][3] < w[3]
    <3>1. read[j] \in received /\ read[j] # w
      BY DEF TakenInv
    <3>2. read[j][3] \in Nat
      BY <3>1 DEF TInv, LogInv, Triple
    <3>3. read[j][3] + l <= s
      <4>1. \/ read[j][3] + Len(inbox[n]) <= peer[n].sent
            \/ read[j] = Head(inbox[n]).what
        BY <2>1, <3>1 DEF TakenInv
      <4> QED
        BY <1>1, <3>1, <4>1
    <3>4. PICK a \in Nat, b \in Nat : a = read[j][3] /\ b = w[3]
      BY <1>2, <3>2
    <3>5. a + l <= s /\ b + l = s + 1
      BY <1>2, <3>3, <3>4
    <3>6. a < b
      BY <1>1, <3>5
    <3> QED
      BY <3>4, <3>6
  <2>2. ASSUME NEW k \in 1 .. w[3] - 1
        PROVE  \E j \in 1 .. Len(read) : read[j][2] = n /\ read[j][3] = k
    <3>1. PICK b \in Nat : b = w[3]
      BY <1>2
    <3>2. b + l = s + 1 /\ k \in 1 .. b - 1
      BY <1>2, <2>2, <3>1
    <3>3. k \in Nat /\ k # 0 /\ k + l <= s
      BY <3>2
    <3>4. k + Len(inbox[n]) <= peer[n].sent
      BY <1>1, <3>3
    <3>5. Read(n, k)
      BY <3>3, <3>4 DEF TakenInv
    <3> QED
      BY <3>5 DEF Read
  <2> SUFFICES ASSUME NEW i \in 1 .. Len(read')
               PROVE  /\ \A j \in 1 .. i - 1 : read'[j][2] = read'[i][2] => read'[j][3] < read'[i][3]
                      /\ \A k \in 1 .. read'[i][3] - 1 :
                           \E j \in 1 .. i - 1 : read'[j][2] = read'[i][2] /\ read'[j][3] = k
    BY DEF InOrder
  <2>3. CASE i = last
    <3>1. 1 .. i - 1 = 1 .. Len(read) /\ read'[i] = w
      BY <1>3, <1>4, <2>3
    <3>2. \A j \in 1 .. Len(read) : read'[j] = read[j]
      BY <1>4
    <3>3. \A j \in 1 .. i - 1 : read'[j][2] = read'[i][2] => read'[j][3] < read'[i][3]
      BY <1>2, <2>1, <3>1, <3>2
    <3>4. \A k \in 1 .. read'[i][3] - 1 :
            \E j \in 1 .. i - 1 : read'[j][2] = read'[i][2] /\ read'[j][3] = k
      <4>1. read'[i][2] = n /\ read'[i][3] = w[3]
        BY <1>2, <3>1
      <4>2. \A k \in 1 .. w[3] - 1 : \E j \in 1 .. i - 1 : read'[j][2] = n /\ read'[j][3] = k
        BY <2>2, <3>1, <3>2
      <4> SUFFICES ASSUME NEW k \in 1 .. read'[i][3] - 1
                   PROVE  \E j \in 1 .. i - 1 : read'[j][2] = read'[i][2] /\ read'[j][3] = k
        OBVIOUS
      <4>3. k \in 1 .. w[3] - 1
        BY <4>1
      <4>4. \E j \in 1 .. i - 1 : read'[j][2] = n /\ read'[j][3] = k
        BY <4>2, <4>3
      <4> QED
        BY <4>1, <4>4
    <3> QED
      BY <3>3, <3>4
  <2>4. CASE i \in 1 .. Len(read)
    <3>1. \A j \in 1 .. i - 1 : j \in 1 .. Len(read) /\ read'[j] = read[j]
      BY <1>4, <2>4
    <3>2. read'[i] = read[i]
      BY <1>4, <2>4
    <3> QED
      BY <2>4, <3>1, <3>2 DEF InOrder
  <2>5. i = last \/ i \in 1 .. Len(read)
    BY <1>3, <1>4
  <2> QED
    BY <2>3, <2>4, <2>5
<1> QED
  BY <1>7, <1>8, <1>9

\* What a step of a call leaves of the messages that calls hold.
LEMMA QuietCall ==
  ASSUME TInv, QInv, NEW c \in Call, \A d \in Call : d # c => call'[d] = call[d],
         call'[c].msg.what \in {call[c].msg.what, <<"none">>} \/ call'[c].msg.what \notin Triple,
         UNCHANGED <<inbox, received, read, peer>>, \A t \in tasks' : t \in tasks \/ t.type = "packet"
  PROVE  QInv'
<1>1. LineInv' /\ TakenInv' /\ InOrder'
  BY QueueStays DEF QInv
<1>2. \A d \in Call : call'[d].msg.what \in Triple => call'[d].msg.what \in received'
  BY NoTriple DEF QInv, AckInv
<1>3. AckInv'
  BY <1>2 DEF QInv, AckInv
<1> QED
  BY <1>1, <1>3 DEF QInv

LEMMA QuietSteps ==
  ASSUME TInv, QInv, NEW c \in Call,
         \/ BeginRequest(c) \/ QueueCreated(c) \/ Throws(c) \/ BeginSend(c) \/ SendEnds(c)
         \/ BeginAccept(c) \/ SenderSecured(c) \/ BeginReceive(c)
  PROVE  QInv'
<1>0. DOMAIN call = Call /\ call[c] \in CallSet /\ IdleCall \in CallSet /\ IdleCall.msg.what = <<"none">>
  BY IdleFits, EndsWith DEF TInv, CallsInv, Fits
<1>1. UNCHANGED <<inbox, received, read, peer>>
  BY DEF BeginRequest, QueueCreated, Throws, BeginSend, SendEnds, BeginAccept, SenderSecured,
         BeginReceive, servers
<1>2. \A t \in tasks' : t \in tasks \/ t.type = "packet"
  <2>1. CASE SendEnds(c)
    <3>1. tasks' \subseteq tasks \cup {[type |-> "packet", o |-> call[c].sent]}
      BY <2>1 DEF SendEnds, TaskFor
    <3>2. [type |-> "packet", o |-> call[c].sent].type = "packet"
      OBVIOUS
    <3> QED
      BY <3>1, <3>2
  <2>2. CASE ~SendEnds(c)
    BY <2>2 DEF BeginRequest, QueueCreated, Throws, BeginSend, BeginAccept, SenderSecured, BeginReceive
  <2> QED
    BY <2>1, <2>2
<1>3. \A d \in Call : d # c => call'[d] = call[d]
  BY <1>0 DEF BeginRequest, QueueCreated, Throws, BeginSend, Seal, SendEnds, BeginAccept, SenderSecured,
              BeginReceive, End
<1>4. call'[c].msg.what \in {call[c].msg.what, <<"none">>}
  <2>1. CASE BeginRequest(c) \/ BeginAccept(c) \/ BeginReceive(c)
    BY <1>0, <2>1 DEF BeginRequest, BeginAccept, BeginReceive, CallSet
  <2>2. CASE Throws(c) \/ SendEnds(c)
    BY <1>0, <2>2 DEF Throws, SendEnds, End
  <2>3. CASE BeginSend(c)
    <3>1. PICK o : call' = [call EXCEPT ![c] = [IdleCall EXCEPT !.step = "sending", !.sent = o]]
      BY <2>3 DEF BeginSend, Seal
    <3> QED
      BY <1>0, <3>1 DEF CallSet
  <2>4. CASE QueueCreated(c)
    <3>1. PICK o : call' = [call EXCEPT ![c].step = "confirming", ![c].sent = o]
      BY <2>4 DEF QueueCreated
    <3> QED
      BY <1>0, <3>1 DEF CallSet
  <2>5. CASE SenderSecured(c)
    <3>1. \/ \E o, s : call' = [call EXCEPT ![c].step = "informing", ![c].sent = o, ![c].stored = s]
          \/ End(c)
      BY <2>5 DEF SenderSecured
    <3>2. CASE End(c)
      BY <1>0, <3>2 DEF End
    <3>3. CASE ~End(c)
      <4>1. PICK o, s : call' = [call EXCEPT ![c].step = "informing", ![c].sent = o, ![c].stored = s]
        BY <3>1, <3>3
      <4> QED
        BY <1>0, <4>1 DEF CallSet
    <3> QED
      BY <3>2, <3>3
  <2> QED
    BY <2>1, <2>2, <2>3, <2>4, <2>5
<1> QED
  BY <1>1, <1>2, <1>3, <1>4, QuietCall

\* A call that has a confirmation in hand holds no text and no receipt.
LEMMA AcceptSteps ==
  ASSUME TInv, QInv, NEW c \in Call, AcceptArrives(c) \/ AcceptSecured(c) \/ InfoSent(c)
  PROVE  QInv'
<1>0. DOMAIN call = Call /\ call[c] \in CallSet /\ IdleCall \in CallSet /\ IdleCall.msg.what = <<"none">>
  BY IdleFits, EndsWith DEF TInv, CallsInv, Fits
<1>1. UNCHANGED <<inbox, received, read, peer, tasks>>
  BY DEF AcceptArrives, AcceptSecured, InfoSent, servers
<1>2. PICK m : m = IF AcceptArrives(c) THEN Head(inbox[call[c].n]) ELSE call[c].msg
  OBVIOUS
<1>3. \/ End(c)
      \/ /\ AcceptArrives(c) => Acceptable(stored, m) /\ inbox[call[c].n] # <<>> /\ At(c, "accepting")
         /\ \/ \E s : call' = [call EXCEPT ![c].step = "securing", ![c].stored = s, ![c].msg = m]
            \/ \E key, s : call' = [call EXCEPT ![c].step = "skey", ![c].key = key, ![c].msg = m,
                                                ![c].stored = s]
            \/ call' = [call EXCEPT ![c] = [IdleCall EXCEPT !.step = "acking", !.n = call[c].n, !.msg = m]]
  <2>0. ASSUME NEW record, Opened(c, m, record)
        PROVE  \/ \E key, s : call' = [call EXCEPT ![c].step = "skey", ![c].key = key, ![c].msg = m,
                                                  ![c].stored = s]
               \/ call' = [call EXCEPT ![c] = [IdleCall EXCEPT !.step = "acking", !.n = call[c].n, !.msg = m]]
    <3>1. PICK key : key = IF m.what[1] = "reply" THEN keys + 1 ELSE 0
      OBVIOUS
    <3>2. \/ call' = [call EXCEPT ![c].step = "skey", ![c].key = key, ![c].msg = m, ![c].stored = record]
          \/ SaveAccept(c, m, key, record)
      BY <2>0, <3>1 DEF Opened
    <3> QED
      BY <3>2 DEF SaveAccept
  <2>1. CASE AcceptArrives(c)
    <3>1. m = Head(inbox[call[c].n])
      BY <1>2, <2>1
    <3>2. PICK record : record = Record(FALSE, stored.session, Decrypt(Answering(stored, m), m.p).state, stored.next)
      OBVIOUS
    <3>3. /\ At(c, "accepting") /\ inbox[call[c].n] # <<>>
          /\ \/ /\ Acceptable(stored, m)
                /\ call' = [call EXCEPT ![c].step = "securing", ![c].stored = record, ![c].msg = m]
             \/ Acceptable(stored, m) /\ Opened(c, m, record)
             \/ End(c)
      BY <2>1, <3>1, <3>2 DEF AcceptArrives
    <3> QED
      BY <2>0, <3>3
  <2>2. CASE AcceptSecured(c) /\ ~AcceptArrives(c)
    <3>1. End(c) \/ Opened(c, m, call[c].stored)
      BY <1>2, <2>2 DEF AcceptSecured
    <3> QED
      BY <2>0, <2>2, <3>1
  <2>3. CASE InfoSent(c) /\ ~AcceptArrives(c)
    BY <1>2, <2>3 DEF InfoSent, SaveAccept
  <2> QED
    BY <2>1, <2>2, <2>3
<1>4. CASE End(c)
  <2>1. \A d \in Call : d # c => call'[d] = call[d]
    BY <1>0, <1>4 DEF End
  <2>2. call'[c].msg.what = <<"none">>
    BY <1>0, <1>4 DEF End
  <2> QED
    BY <1>1, <2>1, <2>2, QuietCall
<1>5. CASE ~End(c)
  <2>1. \A d \in Call : d # c => call'[d] = call[d]
    BY <1>0, <1>3, <1>5
  <2>2. call'[c].msg = m
    <3>1. CASE \E s : call' = [call EXCEPT ![c].step = "securing", ![c].stored = s, ![c].msg = m]
      BY <1>0, <3>1 DEF CallSet
    <3>2. CASE \E key, s : call' = [call EXCEPT ![c].step = "skey", ![c].key = key, ![c].msg = m,
                                                ![c].stored = s]
      BY <1>0, <3>2 DEF CallSet
    <3>3. CASE call' = [call EXCEPT ![c] = [IdleCall EXCEPT !.step = "acking", !.n = call[c].n, !.msg = m]]
      BY <1>0, <3>3 DEF CallSet
    <3> QED
      BY <1>3, <1>5, <3>1, <3>2, <3>3
  <2>3. m = call[c].msg \/ m.what \notin Triple
    <3>1. CASE AcceptArrives(c)
      <4>1. call[c].n \in Session /\ m = Head(inbox[call[c].n]) /\ Acceptable(stored, m) /\ inbox[call[c].n] # <<>>
        BY <1>2, <1>3, <1>5, <3>1 DEF TInv, CallsInv, Fits, At
      <4>2. m \in Post /\ m.env = "confirmation"
        BY <4>1, HeadFits DEF Acceptable
      <4> QED
        BY <4>2, NoTriple DEF Post, FromPeer
    <3>2. CASE ~AcceptArrives(c)
      BY <1>2, <3>2
    <3> QED
      BY <3>1, <3>2
  <2> QED
    BY <1>1, <2>1, <2>2, <2>3, QuietCall
<1> QED
  BY <1>4, <1>5

LEMMA MessageArrivesQueue ==
  ASSUME TInv, QInv, NEW c \in Call, MessageArrives(c)
  PROVE  QInv'
<1>0. DOMAIN call = Call /\ call[c] \in CallSet /\ IdleCall \in CallSet /\ IdleCall.msg.what = <<"none">>
      /\ call[c].n \in Session
  BY IdleFits, EndsWith DEF TInv, CallsInv, Fits, MessageArrives, At
<1>1. PICK n \in Session : n = call[c].n
  BY <1>0
<1>a. PICK m : m = Head(inbox[n])
  OBVIOUS
<1>2. /\ inbox[n] # <<>> /\ UNCHANGED <<inbox, peer, tasks>>
      /\ \/ /\ UNCHANGED <<received, read>>
            /\ End(c) \/ (m.what \in received /\ \E step : call' = [call EXCEPT ![c].step = step, ![c].msg = m])
         \/ /\ m.what \notin received /\ received' = received \cup {m.what} /\ read' = Append(read, m.what)
            /\ m.env = "message" /\ \E step : call' = [call EXCEPT ![c].step = step, ![c].msg = m]
  BY <1>1, <1>a DEF MessageArrives, Known, Readable, Take, servers
<1>3. LineInv' /\ TakenInv' /\ InOrder'
  <2>1. CASE UNCHANGED <<received, read>>
    BY <1>2, <2>1, QueueStays DEF QInv
  <2>2. CASE /\ m.what \notin received /\ received' = received \cup {m.what} /\ read' = Append(read, m.what)
             /\ m.env = "message"
    <3>1. PICK w : w = m.what
      OBVIOUS
    <3> QED
      BY <1>1, <1>a, <1>2, <2>2, <3>1, HeadIsNext DEF QInv
  <2> QED
    BY <1>2, <2>1, <2>2
<1>4. received \subseteq received'
  BY <1>2
<1>5. \A d \in Call : d # c => call'[d] = call[d]
  BY <1>0, <1>2 DEF End
<1>6. call'[c].msg.what \in Triple => call'[c].msg.what \in received'
  <2>1. CASE End(c)
    BY <1>0, <2>1, NoTriple DEF End
  <2>2. CASE m.what \in received' /\ \E step : call' = [call EXCEPT ![c].step = step, ![c].msg = m]
    <3>1. call'[c].msg = m
      BY <1>0, <2>2 DEF CallSet
    <3> QED
      BY <2>2, <3>1
  <2> QED
    BY <1>2, <2>1, <2>2
<1>7. AckInv'
  BY <1>2, <1>4, <1>5, <1>6 DEF QInv, AckInv
<1> QED
  BY <1>3, <1>7 DEF QInv

LEMMA AckQueue ==
  ASSUME TInv, QInv, NEW c \in Call, AckEnds(c)
  PROVE  QInv'
<1>0. DOMAIN call = Call /\ call[c] \in CallSet /\ IdleCall \in CallSet /\ IdleCall.msg.what = <<"none">>
      /\ call[c].n \in Session
  BY IdleFits, EndsWith DEF TInv, CallsInv, Fits, AckEnds
<1>1. PICK n \in Session : n = call[c].n
  BY <1>0
<1>a. PICK what : what = call[c].msg.what
  OBVIOUS
<1>2. /\ UNCHANGED <<received, read, peer>>
      /\ what \in Triple => what \in received
      /\ inbox' = inbox \/ inbox' = [inbox EXCEPT ![n] = Acked(n, what)]
      /\ tasks' \subseteq tasks \cup {[type |-> "ack", o |-> Outgoing(n, 0, what, NoPacket)]}
      /\ End(c) \/ \E o : call' = [call EXCEPT ![c] = [IdleCall EXCEPT !.step = "receipting", !.sent = o]]
  BY <1>1, <1>a DEF AckEnds, Seal, QInv, AckInv
<1>3. LineInv' /\ TakenInv' /\ InOrder'
  BY <1>2, QueueStays, QueueShrinks DEF QInv
<1>4. \A d \in Call : d # c => call'[d] = call[d]
  BY <1>0, <1>2 DEF End
<1>5. call'[c].msg.what = <<"none">>
  BY <1>0, <1>2 DEF End, CallSet
<1>6. \A t \in tasks' : t.type = "ack" /\ t.o.what \in Triple => t.o.what \in received'
  <2>1. [type |-> "ack", o |-> Outgoing(n, 0, what, NoPacket)].o.what = what
    BY DEF Outgoing
  <2> QED
    BY <1>2, <2>1 DEF QInv, AckInv
<1>7. AckInv'
  BY <1>2, <1>4, <1>5, <1>6, NoTriple DEF QInv, AckInv
<1> QED
  BY <1>3, <1>7 DEF QInv

LEMMA DrainQueue ==
  ASSUME TInv, QInv, NEW t \in tasks, Drain(t)
  PROVE  QInv'
<1>1. PICK n, what : n = t.o.n /\ what = t.o.what
  OBVIOUS
<1>2. /\ UNCHANGED <<received, read, peer, call>> /\ tasks' \subseteq tasks
      /\ inbox' = inbox \/ (t.type = "ack" /\ inbox' = [inbox EXCEPT ![n] = Acked(n, what)])
  BY <1>1 DEF Drain
<1>3. n \in Session
  BY <1>1 DEF TInv, LogInv, TaskSet
<1>4. LineInv' /\ TakenInv' /\ InOrder'
  <2>1. CASE inbox' = inbox
    BY <1>2, <2>1, QueueStays DEF QInv
  <2>2. CASE t.type = "ack" /\ inbox' = [inbox EXCEPT ![n] = Acked(n, what)]
    <3>1. what \in Triple => what \in received
      BY <1>1, <2>2 DEF QInv, AckInv
    <3> QED
      BY <1>2, <1>3, <2>2, <3>1, QueueShrinks DEF QInv
  <2> QED
    BY <1>2, <2>1, <2>2
<1>5. AckInv'
  BY <1>2 DEF QInv, AckInv
<1> QED
  BY <1>4, <1>5 DEF QInv

\* What was put at the end of a sequence is of its kind.
LEMMA LastOne ==
  ASSUME NEW S, NEW q \in Seq(S), NEW m, Append(q, m) \in Seq(S)
  PROVE  m \in S
<1>1. q \in Seq(S \cup {m}) /\ m \in S \cup {m}
  OBVIOUS
<1>2. /\ Len(Append(q, m)) = Len(q) + 1 /\ Append(q, m)[Len(q) + 1] = m
      /\ Len(q) \in Nat
  BY <1>1, AppendProperties, LenProperties
<1>3. Len(q) + 1 \in 1 .. Len(Append(q, m))
  BY <1>2
<1> QED
  BY <1>2, <1>3, ElementOfSeq

LEMMA PeerQueue ==
  ASSUME TInv, TInv', QInv, NEW n \in Session, PeerAnswers(n) \/ PeerSends(n) \/ PeerReads(n)
  PROVE  QInv'
<1>0. UNCHANGED <<received, read, call, tasks>> /\ n \in Nat
  BY Numbers DEF PeerAnswers, PeerSends, PeerReads
<1>1. AckInv'
  BY <1>0 DEF QInv, AckInv
<1>2. CASE PeerReads(n)
  <2>1. PICK r : peer' = [peer EXCEPT ![n].r = r] /\ inbox' = inbox
    BY <1>2 DEF PeerReads
  <2>2. \A d \in Session : peer'[d].up = peer[d].up /\ peer'[d].sent = peer[d].sent
    BY <2>1 DEF TInv, ServerInv, PeerSet
  <2> QED
    BY <1>0, <1>1, <2>1, <2>2, QueueStays DEF QInv
<1>3. ASSUME NEW m, NEW r, NEW k \in Nat, Puts(n, m, r, k), k <= MaxPeer, m.env \in {"confirmation", "message"},
             m.env = "message" => m.what[2] = n /\ m.what[3] = k /\ k # 0 /\ k = peer[n].sent + 1,
             m.env = "confirmation" => k = 0 /\ ~peer[n].up
      PROVE  QInv'
  <2>1. m \in Post
    <3>1. PICK q : q = inbox[n]
      OBVIOUS
    <3>2. inbox'[n] = Append(q, m) /\ q \in Seq(Post) /\ inbox'[n] \in Seq(Post)
      BY <1>3, <3>1 DEF Puts, TInv, ServerInv
    <3> QED
      BY <3>2, LastOne
  <2>2. Number(m) = k /\ (m.env = "message" => m.what[2] = n /\ m.what[3] # 0)
        /\ (k = peer[n].sent + 1 \/ (k = 0 /\ ~peer[n].up))
    BY <1>3 DEF Number
  <2> QED
    BY <1>0, <1>1, <1>3, <2>1, <2>2, QueueGrows DEF QInv
<1>4. CASE PeerAnswers(n)
  <2>1. ~peer[n].up /\ \E m, r : Puts(n, m, r, 0) /\ m.env = "confirmation"
    BY <1>4 DEF PeerAnswers, Message
  <2> QED
    BY <1>3, <2>1, NativeAssumption
<1>5. CASE PeerSends(n)
  <2>1. PICK k \in Nat : k = peer[n].sent + 1
    BY DEF TInv, ServerInv, PeerSet
  <2>2. k <= MaxPeer /\ \E m, r : Puts(n, m, r, k) /\ m.env = "message" /\ m.what[2] = n /\ m.what[3] = k
    BY <1>5, <2>1 DEF PeerSends, Message
  <2>3. k # 0
    BY <2>1 DEF TInv, ServerInv, PeerSet
  <2> QED
    BY <1>3, <2>1, <2>2, <2>3
<1> QED
  BY <1>2, <1>4, <1>5

LEMMA NextQueue == TInv /\ TInv' /\ QInv /\ [Next]_vars => QInv'
<1> SUFFICES ASSUME TInv, TInv', QInv, [Next]_vars PROVE QInv'
  OBVIOUS
<1>1. CASE SuspendContact \/ UNCHANGED vars
  <2>1. UNCHANGED <<inbox, received, read, peer, call, tasks>>
    BY <1>1 DEF SuspendContact, vars, servers
  <2>2. AckInv'
    BY <2>1 DEF QInv, AckInv
  <2> QED
    BY <2>1, <2>2, QueueStays DEF QInv
<1>2. ASSUME NEW c \in Call, CallStep(c) PROVE QInv'
  BY <1>2, QuietSteps, AcceptSteps, MessageArrivesQueue, AckQueue DEF CallStep
<1> QED
  BY <1>1, <1>2, DrainQueue, PeerQueue DEF Next

\* The store, the servers and the calls keep to their types, an active contact
\* has the ratchet of a request, and a reply queue never holds more than the
\* confirmation and what the peer has sent.
THEOREM TypeCorrect == Spec => []TypeOK
<1>1. TInv /\ QInv => TypeOK
  <2> SUFFICES ASSUME TInv, QInv PROVE TypeOK
    OBVIOUS
  <2>1. /\ contact.state \in {"none", "requested", "active", "suspended"}
        /\ contact.session \in 0 .. MaxRequests /\ stored.session \in 0 .. MaxRequests
    BY DEF TInv, StoreInv, ContactSet, RecordSet, Count
  <2>2. contact.state = "active" => stored.session # 0 /\ ~stored.pending
    BY DEF TInv, StoreInv
  <2>3. \A t \in tasks : t.type \in {"packet", "ack"} /\ t.o.n \in Session
    BY DEF TInv, LogInv, TaskSet
  <2>4. \A c \in Call : call[c].n \in 0 .. MaxRequests
    BY DEF TInv, CallsInv, Fits, CallSet, Count
  <2>5. ASSUME NEW n \in Session PROVE Len(inbox[n]) <= MaxPeer + 1
    <3>1. PICK l \in Nat, s \in Nat : l = Len(inbox[n]) /\ s = peer[n].sent
      BY LenProperties DEF TInv, ServerInv, PeerSet
    <3>2. MaxPeer \in Nat /\ s <= MaxPeer
      BY <3>1, NativeAssumption DEF QInv, LineInv
    <3>3. CASE l = 0
      BY <3>1, <3>2, <3>3
    <3>4. CASE l # 0
      <4>1. 1 \in 1 .. l /\ inbox[n] \in Seq(Post)
        BY <3>4 DEF TInv, ServerInv
      <4>2. inbox[n][1] \in Post
        BY <3>1, <4>1, ElementOfSeq
      <4>3. Number(inbox[n][1]) \in Nat
        BY <4>2 DEF Number, Post, FromPeer, Triple
      <4>4. Number(inbox[n][1]) + l = s + 1
        BY <3>1, <4>1 DEF QInv, LineInv
      <4> QED
        BY <3>1, <3>2, <4>3, <4>4
    <3> QED
      BY <3>3, <3>4
  <2> QED
    BY <2>1, <2>2, <2>3, <2>4, <2>5 DEF TypeOK
<1>2. TInv /\ QInv /\ [Next]_vars => TInv' /\ QInv'
  BY NextTypes, NextQueue
<1> QED
  BY <1>1, <1>2, InitTypes, InitQueue, PTL DEF Spec

\* The messages of the peer are taken in the order they were sent, none twice
\* and none left out, for any number of calls that receive at once, of failed
\* ACKs and of requests.
THEOREM TakenInOrder == Spec => []InOrder
<1>1. QInv => InOrder
  BY DEF QInv
<1>2. TInv /\ QInv /\ [Next]_vars => TInv' /\ QInv'
  BY NextTypes, NextQueue
<1> QED
  BY <1>1, <1>2, InitTypes, InitQueue, PTL DEF Spec

-----------------------------------------------------------------------------
(***************************************************************************)
(* KeysSealOnce.  A sending chain of ours is named by its root, and the    *)
(* last secret mixed into that root is of a key pair that was made for it  *)
(* alone: for the join of a request, or with a number of its own.  So a    *)
(* chain that is made is unlike every chain there was.  A chain is with    *)
(* the store or with one call, never with both, and whoever has it is      *)
(* ahead of every key of it that was used.                                 *)
(***************************************************************************)

\* A key pair of ours is the last to be mixed in: one with a number up to k, and
\* if it is the third then that of a request of the set S.
Made(root, k, S) ==
  /\ root # <<>>
  /\ \E s \in Nat, i \in Nat, y \in KeySet :
       /\ root[Len(root)] = DH(Mine(s, i), y) /\ y.of # "client"
       /\ 3 <= i /\ i <= k
       /\ i = 3 => s \in S

Ahead(ch, Z)      == \A o \in Z : o.p.key.root = ch.root => o.p.key.at < ch.at
Held(ch, k, S, Z) == ch = NoChain \/ (Made(ch.root, k, S) /\ Ahead(ch, Z))

\* The requests whose third key pair may have been used.
Joined == {n \in Session : n <= requests /\ \A c \in Call : At(c, "creating") => call[c].n # n}

\* The chain that a call holds, and whether a step leaves it there or drops it.
Ch(c) == call[c].stored.r.sending
KeepsKeys(c) ==
  \/ call'[c].stored.r.sending = NoChain /\ call'[c].stored.r.remote.of # "client"
  \/ call'[c].stored = call[c].stored /\ (call[c].step = "informing" => call'[c].step = "informing")

CreatingInv ==
  \A c \in Call : At(c, "creating") =>
    /\ call[c].n <= requests
    /\ \A d \in Call \ {c} : At(d, "creating") => call[d].n # call[c].n

SealedInv == \A o \in sealed : Made(o.p.key.root, keys, Joined)
StoredInv == stored.r.remote.of # "client" /\ Held(stored.r.sending, keys, Joined, sealed)
HoldersInv ==
  \A c \in Call :
    /\ call[c].stored.r.remote.of # "client"
    /\ Held(Ch(c), keys, Joined, sealed)
    /\ Ch(c) # NoChain =>
         /\ call[c].step = "informing"
         /\ Ch(c).root # stored.r.sending.root
         /\ \A d \in Call \ {c} : Ch(c).root # Ch(d).root

KInv == CreatingInv /\ SealedInv /\ StoredInv /\ HoldersInv /\ KeysSealOnce

LEMMA MadeGrows ==
  ASSUME NEW root, NEW k \in Nat, NEW l \in Nat, k <= l, NEW S, NEW U, S \subseteq U, Made(root, k, S)
  PROVE  Made(root, l, U)
<1>1. root # <<>>
  BY DEF Made
<1>2. PICK s \in Nat, i \in Nat, y \in KeySet :
        /\ root[Len(root)] = DH(Mine(s, i), y) /\ y.of # "client"
        /\ 3 <= i /\ i <= k
        /\ i = 3 => s \in S
  BY DEF Made
<1>3. i <= l /\ (i = 3 => s \in U)
  BY <1>2
<1> QED
  BY <1>1, <1>2, <1>3 DEF Made

LEMMA HeldGrows ==
  ASSUME NEW ch, NEW k \in Nat, NEW l \in Nat, k <= l, NEW S, NEW U, S \subseteq U, NEW Z, NEW Y,
         \A o \in Y : o \in Z \/ o.p.key.root # ch.root, Held(ch, k, S, Z)
  PROVE  Held(ch, l, U, Y)
<1>1. CASE ch = NoChain
  BY <1>1 DEF Held
<1>2. CASE Made(ch.root, k, S) /\ Ahead(ch, Z)
  <2>1. Made(ch.root, l, U)
    BY <1>2, MadeGrows
  <2>2. Ahead(ch, Y)
    BY <1>2 DEF Ahead
  <2> QED
    BY <2>1, <2>2 DEF Held
<1> QED
  BY <1>1, <1>2 DEF Held

\* A root with a new key pair of ours is none of those made before, and is one
\* of those made then.
LEMMA RootIsNew ==
  ASSUME NEW root \in Root, NEW s \in Nat, NEW i \in Nat, NEW y \in KeySet, y.of # "client", 3 <= i
  PROVE  LET new == Append(root, DH(Mine(s, i), y))
         IN  /\ new \in Root /\ new # <<>>
             /\ \A k \in Nat : \A S : i <= k /\ (i = 3 => s \in S) => Made(new, k, S)
             /\ \A k \in Nat : \A S : ~(i <= k /\ (i = 3 => s \in S)) => ~Made(new, k, S)
<1> DEFINE new == Append(root, DH(Mine(s, i), y))
<1>1. new \in Root /\ new # <<>> /\ new[Len(new)] = DH(Mine(s, i), y)
  BY KeysFit, RootGrows
<1> HIDE DEF new
<1>2. \A k \in Nat : \A S : i <= k /\ (i = 3 => s \in S) => Made(new, k, S)
  BY <1>1 DEF Made
<1>3. ASSUME NEW k \in Nat, NEW S, Made(new, k, S) PROVE i <= k /\ (i = 3 => s \in S)
  <2>1. PICK t \in Nat, j \in Nat, z \in KeySet :
          /\ new[Len(new)] = DH(Mine(t, j), z) /\ z.of # "client"
          /\ 3 <= j /\ j <= k
          /\ j = 3 => t \in S
    BY <1>3 DEF Made
  <2>2. PICK a, b : a = Mine(s, i) /\ b = Mine(t, j)
    OBVIOUS
  <2>3. /\ a.of = "client" /\ a.session = s /\ a.nr = i
        /\ b.of = "client" /\ b.session = t /\ b.nr = j
    BY <2>2 DEF Mine, Key
  <2>4. {a, y} = {b, z}
    BY <1>1, <2>1, <2>2 DEF DH
  <2>5. a = b
    BY <2>1, <2>3, <2>4
  <2>6. s = t /\ i = j
    BY <2>3, <2>5
  <2> QED
    BY <2>1, <2>6
<1>4. \A k \in Nat : \A S : ~(i <= k /\ (i = 3 => s \in S)) => ~Made(new, k, S)
  BY <1>3
<1>5. /\ new \in Root /\ new # <<>>
      /\ \A k \in Nat : \A S : i <= k /\ (i = 3 => s \in S) => Made(new, k, S)
      /\ \A k \in Nat : \A S : ~(i <= k /\ (i = 3 => s \in S)) => ~Made(new, k, S)
  BY <1>1, <1>2, <1>4
<1> QED
  BY <1>5 DEF new

\* ... and so is one with the next key pair.
LEMMA NextRootIsNew ==
  ASSUME NEW root \in Root, NEW s \in Nat, NEW k \in Nat, 3 <= k, NEW y \in KeySet, y.of # "client"
  PROVE  \A S : /\ ~Made(Append(root, DH(Mine(s, k + 1), y)), k, S)
                /\ Made(Append(root, DH(Mine(s, k + 1), y)), k + 1, S)
<1>1. PICK i \in Nat : i = k + 1
  OBVIOUS
<1>2. 3 <= i /\ i # 3 /\ ~(i <= k) /\ i <= i
  BY <1>1
<1>3. PICK new : new = Append(root, DH(Mine(s, i), y))
  OBVIOUS
<1>4. /\ \A l \in Nat : \A S : i <= l /\ (i = 3 => s \in S) => Made(new, l, S)
      /\ \A l \in Nat : \A S : ~(i <= l /\ (i = 3 => s \in S)) => ~Made(new, l, S)
  BY <1>2, <1>3, RootIsNew
<1>5. \A S : ~Made(new, k, S) /\ Made(new, i, S)
  BY <1>2, <1>4
<1> QED
  BY <1>1, <1>3, <1>5

LEMMA NothingHeld ==
  /\ NoRatchet.remote.of # "client" /\ NoRatchet.sending = NoChain
  /\ NoRecord.r = NoRatchet /\ IdleCall.stored = NoRecord /\ IdleCall.step = "idle"
  /\ \A k, S, Z : Held(NoChain, k, S, Z)
  /\ NoChain.root = <<>>
<1>1. NoRatchet.remote.of # "client" /\ NoRatchet.sending = NoChain
  BY DEF NoRatchet, ReceivingRatchet, NoKey, Key
<1>2. NoRecord.r = NoRatchet
  BY DEF NoRecord, Record
<1>3. IdleCall.stored = NoRecord /\ IdleCall.step = "idle"
  BY DEF IdleCall
<1> QED
  BY <1>1, <1>2, <1>3 DEF Held, NoChain, Chain

LEMMA InitKeys == Init => KInv
<1> SUFFICES ASSUME Init PROVE KInv
  OBVIOUS
<1>1. sealed = {} /\ stored = NoRecord /\ \A c \in Call : call[c] = IdleCall
  BY DEF Init
<1>2. CreatingInv
  BY <1>1, NothingHeld DEF CreatingInv, At
<1>3. SealedInv /\ KeysSealOnce
  BY <1>1 DEF SealedInv, KeysSealOnce
<1>4. StoredInv
  BY <1>1, NothingHeld DEF StoredInv
<1>5. \A c \in Call : Ch(c) = NoChain /\ call[c].stored.r.remote.of # "client"
  BY <1>1, NothingHeld DEF Ch
<1>6. HoldersInv
  BY <1>5, NothingHeld DEF HoldersInv
<1> QED
  BY <1>2, <1>3, <1>4, <1>6 DEF KInv

\* A call moves and holds no chain.
LEMMA CallKeeps ==
  ASSUME TInv, KInv, NEW c \in Call, NEW k, call' = [call EXCEPT ![c] = k], k.step # "creating",
         k.stored.r.sending = NoChain, k.stored.r.remote.of # "client", requests' = requests
  PROVE  /\ \A d \in Call : KeepsKeys(d)
         /\ CreatingInv' /\ Joined \subseteq Joined'
<1>1. call'[c] = k /\ \A d \in Call : d # c => call'[d] = call[d]
  BY DEF TInv, CallsInv
<1>2. \A d \in Call : KeepsKeys(d)
  BY <1>1 DEF KeepsKeys
<1>3. \A d \in Call : call'[d].step = "creating" => call[d].step = "creating" /\ call'[d].n = call[d].n
  BY <1>1
<1>4. CreatingInv'
  BY <1>3 DEF KInv, CreatingInv, At
<1>5. Joined \subseteq Joined'
  BY <1>3 DEF Joined, At
<1> QED
  BY <1>2, <1>4, <1>5

LEMMA CallsKeep ==
  ASSUME TInv, KInv, UNCHANGED <<call, requests>>
  PROVE  /\ \A d \in Call : KeepsKeys(d)
         /\ CreatingInv' /\ Joined \subseteq Joined'
<1>1. \A d \in Call : KeepsKeys(d)
  BY DEF KeepsKeys
<1>2. CreatingInv'
  BY DEF KInv, CreatingInv, At
<1>3. Joined \subseteq Joined'
  BY DEF Joined, At
<1> QED
  BY <1>1, <1>2, <1>3

\* Nothing is sealed, and no chain comes to the store.
LEMMA KeysKept ==
  ASSUME TInv, KInv, \A d \in Call : KeepsKeys(d), CreatingInv', Joined \subseteq Joined',
         keys' \in Nat, keys <= keys', sealed' = sealed, stored'.r.remote.of # "client",
         stored'.r.sending \in {NoChain, stored.r.sending}
  PROVE  KInv'
<1>0. keys \in Nat
  BY DEF TInv, LogInv
<1>1. SealedInv'
  BY <1>0, MadeGrows DEF KInv, SealedInv
<1>2. KeysSealOnce'
  BY DEF KInv, KeysSealOnce
<1>3. \A ch : Held(ch, keys, Joined, sealed) => Held(ch, keys', Joined', sealed')
  BY <1>0, HeldGrows
<1>4. StoredInv'
  BY <1>3, NothingHeld DEF KInv, StoredInv
<1>5. \A c \in Call : /\ call'[c].stored.r.remote.of # "client"
                      /\ Ch(c)' = NoChain \/ (Ch(c)' = Ch(c) /\ (call[c].step = "informing" => call'[c].step = "informing"))
  BY DEF KeepsKeys, Ch, KInv, HoldersInv
<1>6. \A c \in Call : Ch(c) # NoChain => Ch(c).root # <<>>
  BY DEF KInv, HoldersInv, Held, Made
<1>7. HoldersInv'
  <2> SUFFICES ASSUME NEW c \in Call
               PROVE  /\ call'[c].stored.r.remote.of # "client"
                      /\ Held(Ch(c)', keys', Joined', sealed')
                      /\ Ch(c)' # NoChain =>
                           /\ call'[c].step = "informing"
                           /\ Ch(c)'.root # stored'.r.sending.root
                           /\ \A d \in Call \ {c} : Ch(c)'.root # Ch(d)'.root
    BY DEF HoldersInv, Ch
  <2>1. Held(Ch(c)', keys', Joined', sealed')
    BY <1>3, <1>5, NothingHeld DEF KInv, HoldersInv
  <2>2. ASSUME Ch(c)' # NoChain
        PROVE  /\ call'[c].step = "informing"
               /\ Ch(c)'.root # stored'.r.sending.root
               /\ \A d \in Call \ {c} : Ch(c)'.root # Ch(d)'.root
    <3>1. Ch(c)' = Ch(c) /\ call'[c].step = "informing" /\ Ch(c).root # <<>>
      BY <1>5, <1>6, <2>2 DEF KInv, HoldersInv
    <3>2. /\ Ch(c).root # stored.r.sending.root
          /\ \A d \in Call \ {c} : Ch(c).root # Ch(d).root
      BY <2>2, <3>1 DEF KInv, HoldersInv
    <3>3. Ch(c).root # stored'.r.sending.root
      BY <3>1, <3>2, NothingHeld
    <3>4. \A d \in Call \ {c} : Ch(c).root # Ch(d)'.root
      BY <1>5, <3>1, <3>2, NothingHeld
    <3> QED
      BY <3>1, <3>3, <3>4
  <2> QED
    BY <1>5, <2>1, <2>2
<1> QED
  BY <1>1, <1>2, <1>4, <1>7 DEF KInv

\* A packet is sealed with a key that none has, of a chain no call holds, and
\* the store is left ahead of it.
LEMMA KeysStored ==
  ASSUME TInv, KInv, \A d \in Call : KeepsKeys(d), CreatingInv', Joined \subseteq Joined',
         keys' \in Nat, keys <= keys', NEW o, o.p.key \in ChainSet, sealed' = sealed \cup {o},
         Made(o.p.key.root, keys', Joined'), \A z \in sealed : z.p.key # o.p.key,
         Ahead(Advanced(o.p.key), sealed), \A c \in Call : Ch(c) # NoChain => Ch(c).root # o.p.key.root,
         stored'.r.remote.of # "client", stored'.r.sending = Advanced(o.p.key)
  PROVE  KInv'
<1>0. keys \in Nat
  BY DEF TInv, LogInv
<1>1. SealedInv'
  BY <1>0, MadeGrows DEF KInv, SealedInv
<1>2. KeysSealOnce'
  BY DEF KInv, KeysSealOnce
<1>3. PICK ch : ch = Advanced(o.p.key)
  OBVIOUS
<1>4. ch.root = o.p.key.root /\ o.p.key.at < ch.at
  BY <1>3 DEF Advanced, ChainSet
<1>5. Held(ch, keys', Joined', sealed')
  BY <1>3, <1>4 DEF Held, Ahead
<1>6. StoredInv'
  BY <1>3, <1>5 DEF StoredInv
<1>7. \A c \in Call : /\ call'[c].stored.r.remote.of # "client"
                      /\ Ch(c)' = NoChain \/ (Ch(c)' = Ch(c) /\ (call[c].step = "informing" => call'[c].step = "informing"))
  BY DEF KeepsKeys, Ch, KInv, HoldersInv
<1>8. \A c \in Call : Ch(c) # NoChain => Ch(c).root # <<>>
  BY DEF KInv, HoldersInv, Held, Made
<1>9. HoldersInv'
  <2> SUFFICES ASSUME NEW c \in Call
               PROVE  /\ call'[c].stored.r.remote.of # "client"
                      /\ Held(Ch(c)', keys', Joined', sealed')
                      /\ Ch(c)' # NoChain =>
                           /\ call'[c].step = "informing"
                           /\ Ch(c)'.root # stored'.r.sending.root
                           /\ \A d \in Call \ {c} : Ch(c)'.root # Ch(d)'.root
    BY DEF HoldersInv, Ch
  <2>1. CASE Ch(c)' = NoChain
    BY <1>7, <2>1, NothingHeld
  <2>2. CASE Ch(c)' # NoChain
    <3>1. Ch(c)' = Ch(c) /\ call'[c].step = "informing" /\ Ch(c).root # <<>>
      BY <1>7, <1>8, <2>2 DEF KInv, HoldersInv
    <3>2. /\ Ch(c).root # o.p.key.root
          /\ \A d \in Call \ {c} : Ch(c).root # Ch(d).root
      BY <2>2, <3>1 DEF KInv, HoldersInv
    <3>3. Held(Ch(c), keys', Joined', sealed')
      BY <1>0, <3>2, HeldGrows DEF KInv, HoldersInv
    <3>4. \A d \in Call \ {c} : Ch(c).root # Ch(d)'.root
      BY <1>7, <3>1, <3>2, NothingHeld
    <3> QED
      BY <1>3, <1>4, <1>7, <3>1, <3>2, <3>3, <3>4
  <2> QED
    BY <2>1, <2>2
<1> QED
  BY <1>1, <1>2, <1>6, <1>9 DEF KInv

\* A chain with a new root is ahead of every key that was used.
LEMMA NewChain ==
  ASSUME KInv, NEW root, ~Made(root, keys, Joined)
  PROVE  /\ \A z \in sealed : z.p.key.root # root
         /\ \A c \in Call : Ch(c) # NoChain => Ch(c).root # root
         /\ stored.r.sending # NoChain => stored.r.sending.root # root
         /\ \A ch : ch.root = root => Ahead(ch, sealed)
<1>1. \A z \in sealed : z.p.key.root # root
  BY DEF KInv, SealedInv
<1> QED
  BY <1>1 DEF KInv, HoldersInv, StoredInv, Held, Ahead

LEMMA SealKeys ==
  ASSUME TInv, KInv, NEW c \in Call, NEW what \in What, NEW step \in {"sending", "receipting"},
         NEW held \in ContactSet, Seal(c, what, step, held), requests' = requests
  PROVE  KInv'
<1> DEFINE new == Mine(stored.session, keys + 1)
           e == Encrypt(stored.r, new)
           o == Outgoing(held.session, held.key, what, e.packet)
           root == Append(stored.r.root, DH(new, stored.r.remote))
<1>1. /\ stored.r \in Ratchet /\ stored.session \in Nat /\ keys \in Nat /\ keys + 1 \in Nat
      /\ stored.r.root \in Root /\ stored.r.remote \in KeySet /\ 3 <= keys + 1 /\ keys <= keys + 1
      /\ ~(keys + 1 <= keys) /\ keys + 1 # 3
  <2>1. stored.r \in Ratchet /\ stored.session \in Count /\ keys \in Nat /\ keys >= 3
    BY DEF TInv, StoreInv, LogInv, RecordSet
  <2>2. stored.session \in Nat
    BY <2>1, Numbers
  <2>3. stored.r.root \in Root /\ stored.r.remote \in KeySet
    BY <2>1 DEF Ratchet
  <2>4. /\ keys + 1 \in Nat /\ 3 <= keys + 1 /\ keys <= keys + 1
        /\ ~(keys + 1 <= keys) /\ keys + 1 # 3
    BY <2>1
  <2> QED
    BY <2>1, <2>2, <2>3, <2>4
<1>2. new \in KeySet /\ stored.r.remote.of # "client"
  BY <1>1, KeysFit DEF KInv, StoredInv
<1>3. /\ e.state \in Ratchet /\ e.packet \in PacketSet
      /\ e.state.remote = stored.r.remote
      /\ e.state.sending = Advanced(e.packet.key)
      /\ stored.r.sending # NoChain => e.packet.key = stored.r.sending
      /\ stored.r.sending = NoChain => e.packet.key = Chain(root)
  <2> HIDE DEF new
  <2> QED
    BY <1>1, <1>2, EncryptFits
<1>4. /\ stored' = Saved(stored, e.state) /\ sealed' = sealed \cup {o}
      /\ keys' = IF stored.r.sending = NoChain THEN keys + 1 ELSE keys
      /\ call' = [call EXCEPT ![c] = [IdleCall EXCEPT !.step = step, !.sent = o]]
  BY DEF Seal
<1>5. /\ ~Made(root, keys, Joined)
      /\ \A S : Made(root, keys + 1, S)
  <2>1. 3 <= keys
    BY <1>1
  <2> QED
    BY <1>1, <1>2, <2>1, NextRootIsNew
<1> HIDE DEF e, new, root
<1>6. o.p = e.packet /\ o.p.key = e.packet.key
  BY DEF Outgoing
<1> HIDE DEF o
<1>7. stored'.r = e.state
  BY <1>4 DEF Saved, Record
<1>8. /\ \A d \in Call : KeepsKeys(d)
      /\ CreatingInv' /\ Joined \subseteq Joined'
  <2>1. PICK k : k = [IdleCall EXCEPT !.step = step, !.sent = o]
    OBVIOUS
  <2>2. k.step # "creating" /\ k.stored = NoRecord
    BY <2>1, IdleFits, NothingHeld DEF CallSet
  <2>3. call' = [call EXCEPT ![c] = k]
    BY <1>4, <2>1
  <2> QED
    BY <2>2, <2>3, NothingHeld, CallKeeps
<1>9. keys' \in Nat /\ keys <= keys' /\ o.p.key \in ChainSet
  BY <1>1, <1>3, <1>4, <1>6 DEF PacketSet
<1>10. stored'.r.remote.of # "client" /\ stored'.r.sending = Advanced(o.p.key)
  BY <1>2, <1>3, <1>6, <1>7
<1>11. CASE stored.r.sending # NoChain
  <2>1. PICK ch \in ChainSet : ch = stored.r.sending /\ ch = o.p.key
    BY <1>3, <1>6, <1>9, <1>11
  <2>2. Made(ch.root, keys, Joined) /\ Ahead(ch, sealed)
    BY <1>11, <2>1 DEF KInv, StoredInv, Held
  <2>3. Made(ch.root, keys', Joined')
    BY <1>1, <1>8, <1>9, <2>2, MadeGrows
  <2>4. \A z \in sealed : z.p.key.root = ch.root => z.p.key.at < ch.at
    BY <2>2 DEF Ahead
  <2>5. \A z \in sealed : z.p.key # ch
    BY <2>4 DEF ChainSet
  <2>6. Ahead(Advanced(ch), sealed)
    <3>1. Advanced(ch).root = ch.root /\ Advanced(ch).at = ch.at + 1 /\ ch.at \in Nat
      BY DEF Advanced, ChainSet
    <3>2. \A z \in sealed : z.p.key.at \in Nat
      BY DEF TInv, LogInv, OutSet, PacketSet, ChainSet
    <3> QED
      BY <2>4, <3>1, <3>2 DEF Ahead
  <2>7. \A d \in Call : Ch(d) # NoChain => Ch(d).root # ch.root
    BY <2>1 DEF KInv, HoldersInv
  <2> QED
    BY <1>4, <1>8, <1>9, <1>10, <2>1, <2>3, <2>5, <2>6, <2>7, KeysStored
<1>12. CASE stored.r.sending = NoChain
  <2>1. PICK ch \in ChainSet : ch = o.p.key /\ ch = Chain(root)
    BY <1>3, <1>6, <1>9, <1>12
  <2>2. ch.root = root /\ Advanced(ch).root = root
    BY <2>1 DEF Chain, Advanced
  <2>3. keys' = keys + 1
    BY <1>4, <1>12
  <2>4. Made(ch.root, keys', Joined')
    BY <1>5, <2>2, <2>3
  <2>5. /\ \A z \in sealed : z.p.key # ch
        /\ Ahead(Advanced(ch), sealed)
        /\ \A d \in Call : Ch(d) # NoChain => Ch(d).root # ch.root
    BY <1>5, <2>2, NewChain
  <2> QED
    BY <1>4, <1>8, <1>9, <1>10, <2>1, <2>4, <2>5, KeysStored
<1> QED
  BY <1>11, <1>12

\* The join of a request makes the third key pair of it.
LEMMA JoinKeys ==
  ASSUME TInv, KInv, NEW c \in Call, QueueCreated(c)
  PROVE  KInv'
<1>1. PICK n : n = call[c].n
  OBVIOUS
<1>2. /\ n \in Session /\ n \in Nat /\ call[c] \in CallSet /\ At(c, "creating")
      /\ keys \in Nat /\ keys >= 3 /\ 3 \in Nat /\ n <= requests
  BY <1>1, Numbers DEF TInv, CallsInv, LogInv, Fits, QueueCreated, At, KInv, CreatingInv
<1>3. keys' = keys /\ requests' = requests
  BY DEF QueueCreated, counters
<1>4. PICK o : call' = [call EXCEPT ![c].step = "confirming", ![c].sent = o]
  BY DEF QueueCreated
<1>5. PICK k : k = [call[c] EXCEPT !.step = "confirming", !.sent = o]
  OBVIOUS
<1>6. k.step = "confirming" /\ k.stored = call[c].stored /\ call' = [call EXCEPT ![c] = k]
  BY <1>2, <1>4, <1>5 DEF CallSet
<1>7. k.stored.r.sending = NoChain /\ k.stored.r.remote.of # "client"
  BY <1>2, <1>6 DEF KInv, HoldersInv, Ch, At
<1>8. /\ \A d \in Call : KeepsKeys(d)
      /\ CreatingInv' /\ Joined \subseteq Joined'
  BY <1>3, <1>6, <1>7, CallKeeps
<1>9. n \in Joined' /\ n \notin Joined
  <2>1. n \notin Joined
    BY <1>1, <1>2 DEF Joined
  <2>2. \A d \in Call : call'[d].step = "creating" => call'[d].n # n
    BY <1>1, <1>2, <1>6 DEF TInv, CallsInv, KInv, CreatingInv, At
  <2> QED
    BY <1>2, <1>3, <2>1, <2>2 DEF Joined, At
<1>10. CASE stored' = Record(TRUE, n, NoRatchet, 0) /\ sealed' = sealed
  <2>1. stored'.r = NoRatchet
    BY <1>10 DEF Record
  <2>2. keys' \in Nat /\ keys <= keys'
    BY <1>2, <1>3
  <2>3. stored'.r.remote.of # "client" /\ stored'.r.sending = NoChain
    BY <2>1, NothingHeld
  <2> QED
    BY <1>8, <1>10, <2>2, <2>3, KeysKept
<1>11. CASE /\ stored' = Record(FALSE, n, Join(n).state, 0)
            /\ sealed' = sealed \cup {Outgoing(n, 0, <<"join", n>>, Join(n).packet)}
  <2>1. /\ Join(n).state \in Ratchet /\ Join(n).packet \in PacketSet
        /\ Join(n).state.remote = Theirs(n, 2)
        /\ Join(n).state.sending = Advanced(Join(n).packet.key)
        /\ \E base \in Root : Join(n).packet.key = Chain(Append(base, DH(Mine(n, 3), Theirs(n, 2))))
    BY <1>2, JoinFits
  <2>2. PICK base \in Root : Join(n).packet.key = Chain(Append(base, DH(Mine(n, 3), Theirs(n, 2))))
    BY <2>1
  <2> DEFINE root == Append(base, DH(Mine(n, 3), Theirs(n, 2)))
  <2>3. Theirs(n, 2) \in KeySet /\ Theirs(n, 2).of # "client"
    BY <1>2, KeysFit DEF Theirs, Key
  <2>4. Made(root, keys', Joined') /\ ~Made(root, keys, Joined)
    <3>1. /\ \A l \in Nat : \A S : 3 <= l /\ (3 = 3 => n \in S) => Made(root, l, S)
          /\ \A l \in Nat : \A S : ~(3 <= l /\ (3 = 3 => n \in S)) => ~Made(root, l, S)
      BY <1>2, <2>2, <2>3, RootIsNew
    <3> QED
      BY <1>2, <1>3, <1>9, <3>1
  <2> HIDE DEF root
  <2>5. PICK z : z = Outgoing(n, 0, <<"join", n>>, Join(n).packet)
    OBVIOUS
  <2>6. PICK ch \in ChainSet : ch = z.p.key /\ ch = Chain(root)
    BY <2>1, <2>2, <2>5 DEF Outgoing, PacketSet, root
  <2>7. ch.root = root /\ Advanced(ch).root = root
    BY <2>6 DEF Chain, Advanced
  <2>8. /\ \A y \in sealed : y.p.key # ch
        /\ Ahead(Advanced(ch), sealed)
        /\ \A d \in Call : Ch(d) # NoChain => Ch(d).root # ch.root
    BY <2>4, <2>7, NewChain
  <2>9. stored'.r = Join(n).state /\ stored'.r.remote.of # "client" /\ stored'.r.sending = Advanced(ch)
    <3>1. stored'.r = Join(n).state
      BY <1>11 DEF Record
    <3>2. Join(n).packet.key = ch
      BY <2>2, <2>6 DEF root
    <3> QED
      BY <2>1, <2>3, <3>1, <3>2
  <2>10. Made(z.p.key.root, keys', Joined')
    BY <2>4, <2>6, <2>7
  <2>11. sealed' = sealed \cup {z} /\ z.p.key \in ChainSet
    BY <1>11, <2>5, <2>6
  <2>12. keys' \in Nat /\ keys <= keys'
    BY <1>2, <1>3
  <2> QED
    BY <1>8, <2>6, <2>8, <2>9, <2>10, <2>11, <2>12, KeysStored
<1> QED
  BY <1>1, <1>10, <1>11 DEF QueueCreated

\* Our connection info is sealed with a new chain, which the call holds.
LEMMA InformKeys ==
  ASSUME TInv, KInv, NEW c \in Call, SenderSecured(c)
  PROVE  KInv'
<1>1. PICK n, key, s : n = call[c].contact.session /\ key = call[c].key /\ s = call[c].stored
  OBVIOUS
<1>2. /\ call[c] \in CallSet /\ n \in Session /\ key \in Nat /\ s \in RecordSet /\ At(c, "skey")
      /\ call[c].contact.session \in Session
  BY <1>1 DEF SenderSecured, At, TInv, CallsInv, Fits, CallSet
<1>3. /\ s.r \in Ratchet /\ s.session \in Nat /\ s.session \in Count /\ s.r.sending = NoChain
      /\ s.r.remote.of # "client" /\ s.r.remote \in KeySet /\ s.r.root \in Root
  <2>1. s.r \in Ratchet /\ s.session \in Count
    BY <1>2 DEF RecordSet
  <2>2. s.r.sending = NoChain /\ s.r.remote.of # "client"
    BY <1>1, <1>2 DEF KInv, HoldersInv, Ch, At
  <2> QED
    BY <2>1, <2>2, Numbers DEF Ratchet
<1>4. /\ keys \in Nat /\ keys + 1 \in Nat /\ 3 <= keys + 1 /\ keys <= keys + 1
      /\ ~(keys + 1 <= keys) /\ keys + 1 # 3
  <2>1. keys \in Nat /\ keys >= 3
    BY DEF TInv, LogInv
  <2> QED
    BY <2>1
<1>5. UNCHANGED <<contact, stored, requests>>
  BY DEF SenderSecured
<1>6. CASE End(c) /\ UNCHANGED <<keys, sealed>>
  <2>1. call' = [call EXCEPT ![c] = IdleCall]
    BY <1>6 DEF End
  <2>2. /\ \A d \in Call : KeepsKeys(d)
        /\ CreatingInv' /\ Joined \subseteq Joined'
    BY <1>5, <2>1, NothingHeld, CallKeeps
  <2>3. stored'.r.remote.of # "client" /\ keys' \in Nat /\ keys <= keys'
    BY <1>4, <1>5, <1>6 DEF KInv, StoredInv
  <2> QED
    BY <1>5, <1>6, <2>2, <2>3, KeysKept
<1>7. CASE ~(End(c) /\ UNCHANGED <<keys, sealed>>)
  <2> DEFINE new  == Mine(s.session, keys + 1)
             e    == Encrypt(s.r, new)
             root == Append(s.r.root, DH(new, s.r.remote))
             o    == Outgoing(n, key, <<"info", n>>, e.packet)
             k    == [call[c] EXCEPT !.step = "informing", !.sent = o,
                                     !.stored = Record(FALSE, s.session, e.state, 2)]
  <2>1. keys' = keys + 1 /\ sealed' = sealed \cup {o} /\ call' = [call EXCEPT ![c] = k]
    BY <1>1, <1>7 DEF SenderSecured
  <2>2. new \in KeySet
    BY <1>3, <1>4, KeysFit
  <2>3. /\ e.state \in Ratchet /\ e.packet \in PacketSet /\ e.state.remote = s.r.remote
        /\ e.state.sending = Advanced(e.packet.key) /\ e.packet.key = Chain(root)
    <3> HIDE DEF new
    <3> QED
      BY <1>3, <2>2, EncryptFits
  <2>4. ~Made(root, keys, Joined) /\ Made(root, keys', Joined')
    <3>1. 3 <= keys
      BY <1>4
    <3>2. ~Made(root, keys, Joined) /\ Made(root, keys + 1, Joined')
      BY <1>3, <1>4, <3>1, NextRootIsNew
    <3> HIDE DEF root
    <3> QED
      BY <2>1, <3>2
  <2> HIDE DEF new, e, root
  <2>5. o.p.key = Chain(root)
    BY <2>3 DEF Outgoing
  <2>6. PICK ch : ch = Advanced(Chain(root))
    OBVIOUS
  <2>7. ch.root = root /\ ch # NoChain /\ o.p.key.root = root /\ o.p.key.at = 0 /\ ch.at = 1
    <3>1. ch.root = root /\ ch.at = 1 /\ Chain(root).root = root /\ Chain(root).at = 0
      BY <2>6 DEF Advanced, Chain
    <3> QED
      BY <2>5, <3>1 DEF NoChain, Chain
  <2>8. /\ k.step = "informing" /\ k.stored.r = e.state
    BY <1>2 DEF CallSet, Record
  <2> HIDE DEF o, k
  <2>9. call'[c] = k /\ \A d \in Call : d # c => call'[d] = call[d]
    BY <2>1 DEF TInv, CallsInv
  <2>10. Ch(c)' = ch /\ call'[c].stored.r.remote.of # "client" /\ call'[c].step = "informing"
         /\ \A d \in Call : d # c => Ch(d)' = Ch(d)
    BY <1>3, <2>3, <2>6, <2>8, <2>9 DEF Ch
  <2>11. CreatingInv' /\ Joined \subseteq Joined'
    <3>1. \A d \in Call : call'[d].step = "creating" => call[d].step = "creating" /\ call'[d].n = call[d].n
      BY <2>8, <2>9
    <3>2. CreatingInv'
      BY <1>5, <3>1 DEF KInv, CreatingInv, At
    <3>3. Joined \subseteq Joined'
      BY <1>5, <3>1 DEF Joined, At
    <3> QED
      BY <3>2, <3>3
  <2>12. /\ \A z \in sealed : z.p.key.root # root
         /\ \A d \in Call : Ch(d) # NoChain => Ch(d).root # root
         /\ stored.r.sending # NoChain => stored.r.sending.root # root
         /\ \A x : x.root = root => Ahead(x, sealed)
    BY <2>4, NewChain
  <2>13. root # <<>> /\ keys' \in Nat /\ keys <= keys'
    BY <1>4, <2>1, <2>4 DEF Made
  <2>14. \A x : Held(x, keys, Joined, sealed) /\ x.root # root => Held(x, keys', Joined', sealed')
    BY <1>4, <2>1, <2>7, <2>11, <2>13, HeldGrows
  <2>15. SealedInv'
    BY <1>4, <2>1, <2>4, <2>7, <2>11, <2>13, MadeGrows DEF KInv, SealedInv
  <2>16. KeysSealOnce'
    BY <2>1, <2>7, <2>12 DEF KInv, KeysSealOnce
  <2>17. StoredInv'
    <3>1. stored.r.sending.root # root
      BY <2>12, <2>13, NothingHeld
    <3> QED
      BY <1>5, <2>14, <3>1 DEF KInv, StoredInv
  <2>18. Held(ch, keys', Joined', sealed')
    <3>1. Ahead(ch, sealed)
      BY <2>7, <2>12
    <3> QED
      BY <2>1, <2>4, <2>7, <3>1 DEF Held, Ahead
  <2>19. \A d \in Call : d # c => Ch(d).root # root
    BY <2>12, <2>13, NothingHeld
  <2>20. HoldersInv'
    <3> SUFFICES ASSUME NEW d \in Call
                 PROVE  /\ call'[d].stored.r.remote.of # "client"
                        /\ Held(Ch(d)', keys', Joined', sealed')
                        /\ Ch(d)' # NoChain =>
                             /\ call'[d].step = "informing"
                             /\ Ch(d)'.root # stored'.r.sending.root
                             /\ \A f \in Call \ {d} : Ch(d)'.root # Ch(f)'.root
      BY DEF HoldersInv, Ch
    <3>1. CASE d = c
      <4>1. ch.root # stored'.r.sending.root
        BY <1>5, <2>7, <2>12, <2>13, NothingHeld
      <4>2. \A f \in Call \ {c} : ch.root # Ch(f)'.root
        BY <2>7, <2>10, <2>19
      <4> QED
        BY <2>10, <2>18, <3>1, <4>1, <4>2
    <3>2. CASE d # c
      <4>1. Ch(d)' = Ch(d) /\ call'[d] = call[d] /\ Ch(d).root # root
        BY <2>9, <2>10, <2>19, <3>2
      <4>2. Held(Ch(d), keys', Joined', sealed') /\ call[d].stored.r.remote.of # "client"
        BY <2>14, <4>1 DEF KInv, HoldersInv
      <4>3. ASSUME Ch(d) # NoChain
            PROVE  /\ call[d].step = "informing"
                   /\ Ch(d).root # stored'.r.sending.root
                   /\ \A f \in Call \ {d} : Ch(d).root # Ch(f)'.root
        <5>1. /\ call[d].step = "informing"
              /\ Ch(d).root # stored.r.sending.root
              /\ \A f \in Call \ {d} : Ch(d).root # Ch(f).root
          BY <4>3 DEF KInv, HoldersInv
        <5> QED
          BY <1>5, <2>7, <2>10, <4>1, <5>1
      <4> QED
        BY <4>1, <4>2, <4>3
    <3> QED
      BY <3>1, <3>2
  <2> QED
    BY <2>11, <2>15, <2>16, <2>17, <2>20 DEF KInv
<1> QED
  BY <1>6, <1>7

\* The chain goes from the call to the store.
LEMMA SaveKeys ==
  ASSUME TInv, KInv, NEW c \in Call, InfoSent(c)
  PROVE  KInv'
<1>1. UNCHANGED <<requests, keys, sealed>> /\ At(c, "informing") /\ keys \in Nat
  BY DEF InfoSent, TInv, LogInv
<1>2. PICK k : /\ call' = [call EXCEPT ![c] = k] /\ k.step # "creating" /\ k.stored = NoRecord
               /\ UNCHANGED stored \/ stored' = call[c].stored
  <2>1. CASE End(c) /\ UNCHANGED stored
    BY <2>1, NothingHeld DEF End
  <2>2. CASE SaveAccept(c, call[c].msg, call[c].key, call[c].stored)
    <3>1. PICK a : a = [IdleCall EXCEPT !.step = "acking", !.n = call[c].n, !.msg = call[c].msg]
      OBVIOUS
    <3>2. a.step = "acking" /\ a.stored = NoRecord
      BY <3>1, IdleFits, NothingHeld DEF CallSet
    <3>3. call' = [call EXCEPT ![c] = a] /\ stored' = call[c].stored
      BY <2>2, <3>1 DEF SaveAccept
    <3> QED
      BY <3>2, <3>3
  <2> QED
    BY <2>1, <2>2 DEF InfoSent
<1>3. k.stored.r.sending = NoChain /\ k.stored.r.remote.of # "client"
  BY <1>2, NothingHeld
<1>4. /\ \A d \in Call : KeepsKeys(d)
      /\ CreatingInv' /\ Joined \subseteq Joined'
  BY <1>1, <1>2, <1>3, CallKeeps
<1>5. CASE UNCHANGED stored
  <2>1. keys' \in Nat /\ keys <= keys' /\ stored'.r.remote.of # "client"
    BY <1>1, <1>5 DEF KInv, StoredInv
  <2> QED
    BY <1>1, <1>4, <1>5, <2>1, KeysKept
<1>6. CASE stored' = call[c].stored
  <2>1. PICK ch : ch = Ch(c)
    OBVIOUS
  <2>2. /\ stored'.r.sending = ch /\ stored'.r.remote.of # "client"
        /\ Held(ch, keys, Joined, sealed)
        /\ \A d \in Call \ {c} : Ch(d) # NoChain => Ch(d).root # ch.root
    BY <1>6, <2>1 DEF Ch, KInv, HoldersInv
  <2>3. \A x : Held(x, keys, Joined, sealed) => Held(x, keys', Joined', sealed')
    BY <1>1, <1>4, HeldGrows
  <2>4. SealedInv'
    BY <1>1, <1>4, MadeGrows DEF KInv, SealedInv
  <2>5. KeysSealOnce'
    BY <1>1 DEF KInv, KeysSealOnce
  <2>6. StoredInv'
    BY <2>2, <2>3 DEF StoredInv
  <2>7. call'[c] = k /\ \A d \in Call : d # c => call'[d] = call[d]
    BY <1>2 DEF TInv, CallsInv
  <2>8. Ch(c)' = NoChain /\ \A d \in Call : d # c => Ch(d)' = Ch(d)
    BY <1>3, <2>7 DEF Ch
  <2>9. HoldersInv'
    <3> SUFFICES ASSUME NEW d \in Call
                 PROVE  /\ call'[d].stored.r.remote.of # "client"
                        /\ Held(Ch(d)', keys', Joined', sealed')
                        /\ Ch(d)' # NoChain =>
                             /\ call'[d].step = "informing"
                             /\ Ch(d)'.root # stored'.r.sending.root
                             /\ \A f \in Call \ {d} : Ch(d)'.root # Ch(f)'.root
      BY DEF HoldersInv, Ch
    <3>1. CASE d = c
      BY <1>3, <2>7, <2>8, <3>1, NothingHeld
    <3>2. CASE d # c
      <4>1. Ch(d)' = Ch(d) /\ call'[d] = call[d]
        BY <2>7, <2>8, <3>2
      <4>2. Held(Ch(d), keys', Joined', sealed') /\ call[d].stored.r.remote.of # "client"
        BY <2>3 DEF KInv, HoldersInv
      <4>3. ASSUME Ch(d) # NoChain
            PROVE  /\ call[d].step = "informing"
                   /\ Ch(d).root # stored'.r.sending.root
                   /\ \A f \in Call \ {d} : Ch(d).root # Ch(f)'.root
        <5>1. /\ call[d].step = "informing" /\ Ch(d).root # <<>>
              /\ Ch(d).root # ch.root
              /\ \A f \in Call \ {d} : Ch(d).root # Ch(f).root
          BY <2>2, <3>2, <4>3 DEF KInv, HoldersInv, Held, Made
        <5> QED
          BY <2>2, <2>8, <5>1, NothingHeld
      <4> QED
        BY <4>1, <4>2, <4>3
    <3> QED
      BY <3>1, <3>2
  <2> QED
    BY <1>4, <2>4, <2>5, <2>6, <2>9 DEF KInv
<1> QED
  BY <1>2, <1>5, <1>6

LEMMA RequestKeys ==
  ASSUME TInv, KInv, NEW c \in Call, BeginRequest(c)
  PROVE  KInv'
<1>1. UNCHANGED <<stored, keys, sealed>> /\ requests' = requests + 1 /\ requests \in Nat /\ keys \in Nat
  BY Numbers DEF BeginRequest, TInv, LogInv
<1>2. PICK k : k = [IdleCall EXCEPT !.step = "creating", !.n = requests + 1]
  OBVIOUS
<1>3. k.stored = NoRecord /\ k.n = requests + 1 /\ call' = [call EXCEPT ![c] = k]
  BY <1>2, IdleFits, NothingHeld DEF CallSet, BeginRequest
<1>4. call'[c] = k /\ \A d \in Call : d # c => call'[d] = call[d]
  BY <1>3 DEF TInv, CallsInv
<1>5. \A d \in Call : KeepsKeys(d)
  BY <1>3, <1>4, NothingHeld DEF KeepsKeys
<1>6. \A d \in Call : d # c /\ call[d].step = "creating" => call[d].n \in Nat /\ call[d].n <= requests
  BY Numbers DEF KInv, CreatingInv, At, TInv, CallsInv, Fits
<1>7. CreatingInv'
  <2> SUFFICES ASSUME NEW d \in Call, call'[d].step = "creating"
               PROVE  /\ call'[d].n <= requests'
                      /\ \A f \in Call \ {d} : call'[f].step = "creating" => call'[f].n # call'[d].n
    BY DEF CreatingInv, At
  <2>1. CASE d = c
    BY <1>1, <1>3, <1>4, <1>6, <2>1
  <2>2. CASE d # c
    <3>1. call[d].step = "creating" /\ call'[d] = call[d] /\ call[d].n \in Nat /\ call[d].n <= requests
      BY <1>4, <1>6, <2>2
    <3>2. call[d].n <= requests' /\ call[d].n # requests + 1
      BY <1>1, <3>1
    <3>3. \A f \in Call \ {d} : f # c /\ call[f].step = "creating" => call[f].n # call[d].n
      BY <3>1 DEF KInv, CreatingInv, At
    <3> QED
      BY <1>3, <1>4, <3>1, <3>2, <3>3
  <2> QED
    BY <2>1, <2>2
<1>8. Joined \subseteq Joined'
  <2> SUFFICES ASSUME NEW n \in Joined PROVE n \in Joined'
    OBVIOUS
  <2>1. n \in Session /\ n \in Nat /\ n <= requests /\ \A d \in Call : call[d].step = "creating" => call[d].n # n
    BY Numbers DEF Joined, At
  <2>2. n <= requests' /\ n # requests + 1
    BY <1>1, <2>1
  <2>3. \A d \in Call : call'[d].step = "creating" => call'[d].n # n
    BY <1>3, <1>4, <2>1, <2>2
  <2> QED
    BY <2>1, <2>2, <2>3 DEF Joined, At
<1>9. keys' \in Nat /\ keys <= keys' /\ stored'.r.remote.of # "client"
  BY <1>1 DEF KInv, StoredInv
<1> QED
  BY <1>1, <1>5, <1>7, <1>8, <1>9, KeysKept

LEMMA QuietKeys ==
  ASSUME TInv, KInv, NEW c \in Call, Throws(c) \/ SendEnds(c) \/ BeginAccept(c) \/ BeginReceive(c)
  PROVE  KInv'
<1>1. UNCHANGED <<stored, keys, sealed, requests>> /\ keys \in Nat
  BY DEF Throws, SendEnds, BeginAccept, BeginReceive, counters, TInv, LogInv
<1>2. PICK k : call' = [call EXCEPT ![c] = k] /\ k.step # "creating" /\ k.stored = NoRecord
  <2>1. CASE Throws(c) \/ SendEnds(c)
    BY <2>1, NothingHeld DEF Throws, SendEnds, End
  <2>2. ASSUME NEW step \in {"accepting", "receiving"},
               call' = [call EXCEPT ![c] = [IdleCall EXCEPT !.step = step, !.n = contact.session,
                                                            !.contact = contact]]
        PROVE  \E k : call' = [call EXCEPT ![c] = k] /\ k.step # "creating" /\ k.stored = NoRecord
    <3>1. PICK a : a = [IdleCall EXCEPT !.step = step, !.n = contact.session, !.contact = contact]
      OBVIOUS
    <3>2. a.step = step /\ a.stored = NoRecord
      BY <3>1, IdleFits, NothingHeld DEF CallSet
    <3> QED
      BY <2>2, <3>1, <3>2
  <2> QED
    BY <2>1, <2>2 DEF BeginAccept, BeginReceive
<1>3. k.stored.r.sending = NoChain /\ k.stored.r.remote.of # "client"
  BY <1>2, NothingHeld
<1>4. /\ \A d \in Call : KeepsKeys(d)
      /\ CreatingInv' /\ Joined \subseteq Joined'
  BY <1>1, <1>2, <1>3, CallKeeps
<1>5. keys' \in Nat /\ keys <= keys' /\ stored'.r.remote.of # "client"
  BY <1>1 DEF KInv, StoredInv
<1> QED
  BY <1>1, <1>4, <1>5, KeysKept

\* The record of an accept: of the stored ratchet, or of one that has no chain;
\* what names a queue of the peer comes with keys of the peer.
LEMMA OpenedKeys ==
  ASSUME TInv, KInv, NEW c \in Call, NEW m, NEW record, record.r.remote.of # "client",
         record.r.sending \in {NoChain, stored.r.sending},
         m.what[1] = "reply" => record.r.sending = NoChain,
         call[c].step \in {"accepting", "securing"}, Opened(c, m, record), UNCHANGED <<sealed, requests>>
  PROVE  KInv'
<1>1. PICK key : key = IF m.what[1] = "reply" THEN keys + 1 ELSE 0
  OBVIOUS
<1>2. \/ SaveAccept(c, m, key, record)
      \/ /\ m.what[1] = "reply" /\ UNCHANGED stored
         /\ call' = [call EXCEPT ![c].step = "skey", ![c].key = key, ![c].msg = m, ![c].stored = record]
  BY <1>1 DEF Opened
<1>3. keys' \in Nat /\ keys <= keys'
  BY DEF TInv, LogInv, Opened
<1>4. PICK k : /\ call' = [call EXCEPT ![c] = k] /\ k.step # "creating"
               /\ k.stored.r.sending = NoChain /\ k.stored.r.remote.of # "client"
  <2>1. CASE SaveAccept(c, m, key, record)
    <3>1. PICK a : a = [IdleCall EXCEPT !.step = "acking", !.n = call[c].n, !.msg = m]
      OBVIOUS
    <3>2. a.step = "acking" /\ a.stored = NoRecord
      BY <3>1, IdleFits, NothingHeld DEF CallSet
    <3>3. call' = [call EXCEPT ![c] = a]
      BY <2>1, <3>1 DEF SaveAccept
    <3> QED
      BY <3>2, <3>3, NothingHeld
  <2>2. CASE /\ m.what[1] = "reply"
             /\ call' = [call EXCEPT ![c].step = "skey", ![c].key = key, ![c].msg = m, ![c].stored = record]
    <3>1. PICK a : a = [call[c] EXCEPT !.step = "skey", !.key = key, !.msg = m, !.stored = record]
      OBVIOUS
    <3>2. a.step = "skey" /\ a.stored = record
      BY <3>1 DEF TInv, CallsInv, Fits, CallSet
    <3>3. call' = [call EXCEPT ![c] = a]
      BY <2>2, <3>1
    <3>4. record.r.sending = NoChain
      BY <2>2
    <3> QED
      BY <3>2, <3>3, <3>4
  <2> QED
    BY <1>2, <2>1, <2>2
<1>5. /\ \A d \in Call : KeepsKeys(d)
      /\ CreatingInv' /\ Joined \subseteq Joined'
  BY <1>4, CallKeeps
<1>6. stored'.r.remote.of # "client" /\ stored'.r.sending \in {NoChain, stored.r.sending}
  BY <1>2 DEF SaveAccept, KInv, StoredInv
<1> QED
  BY <1>3, <1>5, <1>6, KeysKept

LEMMA AcceptKeys ==
  ASSUME TInv, KInv, NEW c \in Call, AcceptArrives(c) \/ AcceptSecured(c)
  PROVE  KInv'
<1>1. UNCHANGED <<sealed, requests>> /\ keys \in Nat /\ call[c].step \in {"accepting", "securing"}
  BY DEF AcceptArrives, AcceptSecured, At, counters, TInv, LogInv
<1>2. CASE End(c) /\ UNCHANGED <<contact, stored, keys>>
  <2>1. call' = [call EXCEPT ![c] = IdleCall]
    BY <1>2 DEF End
  <2>2. /\ \A d \in Call : KeepsKeys(d)
        /\ CreatingInv' /\ Joined \subseteq Joined'
    BY <1>1, <2>1, NothingHeld, CallKeeps
  <2>3. keys' \in Nat /\ keys <= keys' /\ stored'.r.remote.of # "client"
    BY <1>1, <1>2 DEF KInv, StoredInv
  <2> QED
    BY <1>1, <1>2, <2>2, <2>3, KeysKept
<1>3. CASE AcceptArrives(c) /\ ~(End(c) /\ UNCHANGED <<contact, stored, keys>>)
  <2>1. PICK m : m = Head(inbox[call[c].n])
    OBVIOUS
  <2>2. PICK d : d = Decrypt(Answering(stored, m), m.p).state
    OBVIOUS
  <2>3. PICK record : record = Record(FALSE, stored.session, d, stored.next)
    OBVIOUS
  <2>4. /\ inbox[call[c].n] # <<>> /\ Acceptable(stored, m) /\ At(c, "accepting")
        /\ \/ /\ call' = [call EXCEPT ![c].step = "securing", ![c].stored = record, ![c].msg = m]
              /\ m.header = "confirmation" /\ UNCHANGED <<contact, stored, keys>>
           \/ Opened(c, m, record)
    BY <1>3, <2>1, <2>2, <2>3 DEF AcceptArrives
  <2>5. call[c].n \in Session /\ call[c] \in CallSet
    BY <2>4 DEF TInv, CallsInv, Fits, At
  <2>6. m \in Post /\ m.p \in PacketSet /\ stored \in RecordSet
    BY <2>1, <2>4, <2>5, HeadFits DEF TInv, StoreInv
  <2>7. /\ Answering(stored, m) \in Ratchet
        /\ m.e2e => Answering(stored, m).sending = NoChain
        /\ ~m.e2e => Answering(stored, m) = stored.r
    BY <2>4, <2>6, AnsweringFits
  <2>8. d.remote = m.p.dh /\ d.sending = Answering(stored, m).sending
    BY <2>2, <2>6, <2>7, DecryptFits
  <2>9. m.p.dh.of = "peer" /\ (~m.e2e => m.header = "empty" /\ m.what[1] = "info")
    BY <2>4, <2>6 DEF Post, FromPeer, Acceptable
  <2>10. record.r = d
    BY <2>3 DEF Record
  <2>11. /\ record.r.remote.of # "client" /\ record.r.sending \in {NoChain, stored.r.sending}
         /\ m.e2e => record.r.sending = NoChain
    BY <2>7, <2>8, <2>9, <2>10
  <2>12. CASE Opened(c, m, record)
    BY <1>1, <2>9, <2>11, <2>12, OpenedKeys
  <2>13. CASE /\ call' = [call EXCEPT ![c].step = "securing", ![c].stored = record, ![c].msg = m]
              /\ m.header = "confirmation" /\ UNCHANGED <<contact, stored, keys>>
    <3>1. PICK a : a = [call[c] EXCEPT !.step = "securing", !.stored = record, !.msg = m]
      OBVIOUS
    <3>2. a.step = "securing" /\ a.stored = record /\ call' = [call EXCEPT ![c] = a]
      BY <2>5, <2>13, <3>1 DEF CallSet
    <3>3. a.stored.r.sending = NoChain
      BY <2>9, <2>11, <2>13, <3>2
    <3>4. /\ \A f \in Call : KeepsKeys(f)
          /\ CreatingInv' /\ Joined \subseteq Joined'
      BY <1>1, <2>11, <3>2, <3>3, CallKeeps
    <3>5. keys' \in Nat /\ keys <= keys' /\ stored'.r.remote.of # "client"
      BY <1>1, <2>13 DEF KInv, StoredInv
    <3> QED
      BY <1>1, <2>13, <3>4, <3>5, KeysKept
  <2> QED
    BY <2>4, <2>12, <2>13
<1>4. CASE AcceptSecured(c) /\ ~(End(c) /\ UNCHANGED <<contact, stored, keys>>)
  <2>1. PICK m, record : m = call[c].msg /\ record = call[c].stored
    OBVIOUS
  <2>2. Opened(c, m, record) /\ call[c].step = "securing"
    BY <1>4, <2>1 DEF AcceptSecured, At
  <2>3. record.r.sending = NoChain /\ record.r.remote.of # "client"
    BY <2>1, <2>2 DEF KInv, HoldersInv, Ch
  <2> QED
    BY <1>1, <2>2, <2>3, OpenedKeys
<1> QED
  BY <1>2, <1>3, <1>4

LEMMA TakeKeys ==
  ASSUME TInv, KInv, NEW c \in Call, MessageArrives(c)
  PROVE  KInv'
<1>1. UNCHANGED <<sealed, requests, keys>> /\ keys \in Nat /\ At(c, "receiving")
  BY DEF MessageArrives, counters, TInv, LogInv
<1>2. call[c] \in CallSet /\ call[c].n \in Session
  BY <1>1 DEF TInv, CallsInv, Fits, At
<1>3. PICK m : m = Head(inbox[call[c].n])
  OBVIOUS
<1>4. /\ inbox[call[c].n] # <<>>
      /\ End(c) \/ \E step \in {"acking", "acking text"} : call' = [call EXCEPT ![c].step = step, ![c].msg = m]
      /\ UNCHANGED stored \/ stored' = [stored EXCEPT !.r = Decrypt(stored.r, m.p).state]
  BY <1>3 DEF MessageArrives, Take
<1>5. PICK k : call' = [call EXCEPT ![c] = k] /\ k.step # "creating" /\ k.stored \in {NoRecord, call[c].stored}
  <2>1. CASE End(c)
    BY <2>1, NothingHeld DEF End
  <2>2. ASSUME NEW step \in {"acking", "acking text"}, call' = [call EXCEPT ![c].step = step, ![c].msg = m]
        PROVE  \E k : call' = [call EXCEPT ![c] = k] /\ k.step # "creating" /\ k.stored \in {NoRecord, call[c].stored}
    <3>1. PICK a : a = [call[c] EXCEPT !.step = step, !.msg = m]
      OBVIOUS
    <3>2. a.step = step /\ a.stored = call[c].stored
      BY <1>2, <3>1 DEF CallSet
    <3>3. call' = [call EXCEPT ![c] = a]
      BY <2>2, <3>1
    <3> QED
      BY <3>2, <3>3
  <2> QED
    BY <1>4, <2>1, <2>2
<1>6. call[c].stored.r.sending = NoChain /\ call[c].stored.r.remote.of # "client"
  BY <1>1 DEF At, KInv, HoldersInv, Ch
<1>7. k.stored.r.sending = NoChain /\ k.stored.r.remote.of # "client"
  BY <1>5, <1>6, NothingHeld
<1>8. /\ \A d \in Call : KeepsKeys(d)
      /\ CreatingInv' /\ Joined \subseteq Joined'
  BY <1>1, <1>5, <1>7, CallKeeps
<1>9. stored'.r.remote.of # "client" /\ stored'.r.sending = stored.r.sending
  <2>1. CASE UNCHANGED stored
    BY <2>1 DEF KInv, StoredInv
  <2>2. CASE stored' = [stored EXCEPT !.r = Decrypt(stored.r, m.p).state]
    <3>1. m \in Post /\ m.p \in PacketSet /\ stored \in RecordSet /\ stored.r \in Ratchet
      BY <1>2, <1>3, <1>4, HeadFits DEF TInv, StoreInv, RecordSet
    <3>2. m.p.dh.of = "peer"
      BY <3>1 DEF Post, FromPeer
    <3>3. stored'.r = Decrypt(stored.r, m.p).state
      BY <2>2, <3>1 DEF RecordSet
    <3>4. Decrypt(stored.r, m.p).state.remote = m.p.dh /\ Decrypt(stored.r, m.p).state.sending = stored.r.sending
      BY <3>1, DecryptFits
    <3> QED
      BY <3>2, <3>3, <3>4
  <2> QED
    BY <1>4, <2>1, <2>2
<1>10. keys' \in Nat /\ keys <= keys'
  BY <1>1
<1> QED
  BY <1>1, <1>8, <1>9, <1>10, KeysKept

\* The two steps of a call that load the ratchet, seal and save.
LEMMA SendKeys ==
  ASSUME TInv, KInv, NEW c \in Call, BeginSend(c) \/ AckEnds(c)
  PROVE  KInv'
<1>1. UNCHANGED requests
  BY DEF BeginSend, AckEnds
<1>2. CASE BeginSend(c)
  <2>1. <<"chat", sends + 1>> \in What /\ contact \in ContactSet
    BY DEF TInv, LogInv, StoreInv, What, Pair
  <2>2. Seal(c, <<"chat", sends + 1>>, "sending", contact)
    BY <1>2 DEF BeginSend
  <2> QED
    BY <1>1, <2>1, <2>2, SealKeys
<1>3. CASE AckEnds(c) /\ At(c, "acking text") /\ Seal(c, <<"receipt", call[c].msg.what>>, "receipting", call[c].contact)
  <2>1. call[c].msg.what \in Triple /\ call[c].contact \in ContactSet
    BY <1>3 DEF At, TInv, CallsInv, Fits, CallSet
  <2>2. <<"receipt", call[c].msg.what>> \in What
    BY <2>1 DEF What
  <2> QED
    BY <1>1, <1>3, <2>1, <2>2, SealKeys
<1>4. CASE End(c) /\ UNCHANGED <<stored, keys, sealed>>
  <2>1. call' = [call EXCEPT ![c] = IdleCall]
    BY <1>4 DEF End
  <2>2. /\ \A d \in Call : KeepsKeys(d)
        /\ CreatingInv' /\ Joined \subseteq Joined'
    BY <1>1, <2>1, NothingHeld, CallKeeps
  <2>3. keys' \in Nat /\ keys <= keys' /\ stored'.r.remote.of # "client"
    BY <1>4 DEF KInv, StoredInv, TInv, LogInv
  <2> QED
    BY <1>4, <2>2, <2>3, KeysKept
<1> QED
  BY <1>2, <1>3, <1>4 DEF AckEnds

LEMMA NextKeys == TInv /\ KInv /\ [Next]_vars => KInv'
<1> SUFFICES ASSUME TInv, KInv, [Next]_vars PROVE KInv'
  OBVIOUS
<1>1. ASSUME UNCHANGED <<call, requests, stored, keys, sealed>> PROVE KInv'
  <2>1. /\ \A d \in Call : KeepsKeys(d)
        /\ CreatingInv' /\ Joined \subseteq Joined'
    BY <1>1, CallsKeep
  <2>2. keys' \in Nat /\ keys <= keys' /\ stored'.r.remote.of # "client"
    BY <1>1 DEF KInv, StoredInv, TInv, LogInv
  <2> QED
    BY <1>1, <2>1, <2>2, KeysKept
<1>2. ASSUME NEW c \in Call, CallStep(c) PROVE KInv'
  BY <1>2, RequestKeys, JoinKeys, QuietKeys, SendKeys, AcceptKeys, InformKeys, SaveKeys, TakeKeys DEF CallStep
<1>3. CASE SuspendContact \/ UNCHANGED vars
  BY <1>1, <1>3 DEF SuspendContact, vars, counters
<1>4. ASSUME NEW t \in tasks, Drain(t) PROVE KInv'
  BY <1>1, <1>4 DEF Drain, counters
<1>5. ASSUME NEW n \in Session, PeerAnswers(n) \/ PeerSends(n) \/ PeerReads(n) PROVE KInv'
  BY <1>1, <1>5 DEF PeerAnswers, PeerSends, PeerReads, counters
<1> QED
  BY <1>2, <1>3, <1>4, <1>5 DEF Next

\* No message key of the ratchet seals two bodies, however many sends, receipts
\* and accepts of receiveNativeContactAccept overlap, fail and are begun again,
\* and however often a contact is asked for anew.
THEOREM OneKeyOneBody == Spec => []KeysSealOnce
<1>1. KInv => KeysSealOnce
  BY DEF KInv
<1>2. TInv /\ KInv /\ [Next]_vars => TInv' /\ KInv'
  BY NextTypes, NextKeys
<1> QED
  BY <1>1, <1>2, InitTypes, InitKeys, PTL DEF Spec

-----------------------------------------------------------------------------
(***************************************************************************)
(* ReceiptsOwed.  The receipt of a text that was taken is with the call    *)
(* that took it, until it waits in a task or has reached the peer's queue. *)
(* The call can seal it unless the contact was asked for anew meanwhile:   *)
(* then its ratchet is gone, and so the theorem is about a contact that    *)
(* was asked for once.                                                     *)
(***************************************************************************)

Owed(w) ==
  LET Is(o) == o.what = <<"receipt", w>>
  IN  \/ \E o \in outbox : Is(o)
      \/ \E t \in tasks : t.type = "packet" /\ Is(t.o)
      \/ \E c \in Call : At(c, "acking text") /\ call[c].msg.what = w
      \/ \E c \in Call : At(c, "receipting") /\ Is(call[c].sent)

\* Before there is a ratchet nothing was read, and the only request ends that.
OInv ==
  requests <= 1 =>
    /\ requests = 0 => stored.session = 0
    /\ \A c \in Call : At(c, "creating") => stored.session = 0
    /\ stored.session = 0 \/ stored.pending => read = <<>>
    /\ \A i \in 1 .. Len(read) : read[i][1] = "text" => Owed(read[i])

\* What a step may do with a receipt that is owed.
HandsOn(c) ==
  /\ call[c].step = "acking text" =>
       \/ call'[c].step = "acking text" /\ call'[c].msg = call[c].msg
       \/ call'[c].step = "receipting" /\ call'[c].sent.what = <<"receipt", call[c].msg.what>>
  /\ call[c].step = "receipting" =>
       \/ call'[c] = call[c]
       \/ call[c].sent \in outbox'
       \/ [type |-> "packet", o |-> call[c].sent] \in tasks'
  /\ call'[c].step = "creating" => call[c].step = "creating"

LEMMA OwedStays ==
  ASSUME \A c \in Call : HandsOn(c), outbox \subseteq outbox',
         \A t \in tasks : t.type = "packet" => t \in tasks' \/ t.o \in outbox',
         NEW w, Owed(w)
  PROVE  Owed(w)'
<1> USE DEF Owed, At
<1>1. CASE \E o \in outbox : o.what = <<"receipt", w>>
  BY <1>1
<1>2. CASE \E t \in tasks : t.type = "packet" /\ t.o.what = <<"receipt", w>>
  BY <1>2
<1>3. ASSUME NEW c \in Call, call[c].step = "acking text", call[c].msg.what = w
      PROVE  Owed(w)'
  BY <1>3 DEF HandsOn
<1>4. ASSUME NEW c \in Call, call[c].step = "receipting", call[c].sent.what = <<"receipt", w>>
      PROVE  Owed(w)'
  <2>1. CASE call'[c] = call[c] \/ call[c].sent \in outbox'
    BY <1>4, <2>1
  <2>2. CASE [type |-> "packet", o |-> call[c].sent] \in tasks'
    <3>1. PICK t : t = [type |-> "packet", o |-> call[c].sent]
      OBVIOUS
    <3>2. t \in tasks' /\ t.type = "packet" /\ t.o.what = <<"receipt", w>>
      BY <1>4, <2>2, <3>1
    <3> QED
      BY <3>2
  <2> QED
    BY <1>4, <2>1, <2>2 DEF HandsOn
<1> QED
  BY <1>1, <1>2, <1>3, <1>4

\* The store keeps its record, or has one that can seal.
LEMMA OwedKept ==
  ASSUME OInv, \A c \in Call : HandsOn(c), outbox \subseteq outbox',
         \A t \in tasks : t.type = "packet" => t \in tasks' \/ t.o \in outbox',
         UNCHANGED <<read, requests>>,
         \/ UNCHANGED stored
         \/ stored.session # 0 /\ stored'.session # 0 /\ stored'.pending = FALSE
  PROVE  OInv'
<1> SUFFICES ASSUME requests <= 1
             PROVE  /\ requests = 0 => stored'.session = 0
                    /\ \A c \in Call : call'[c].step = "creating" => stored'.session = 0
                    /\ stored'.session = 0 \/ stored'.pending => read = <<>>
                    /\ \A i \in 1 .. Len(read) : read[i][1] = "text" => Owed(read[i])'
  BY DEF OInv, At, Owed
<1>1. /\ requests = 0 => stored.session = 0
      /\ \A c \in Call : call[c].step = "creating" => stored.session = 0
      /\ stored.session = 0 \/ stored.pending => read = <<>>
      /\ \A i \in 1 .. Len(read) : read[i][1] = "text" => Owed(read[i])
  BY DEF OInv, At
<1>2. \A i \in 1 .. Len(read) : read[i][1] = "text" => Owed(read[i])'
  <2> SUFFICES ASSUME NEW i \in 1 .. Len(read), read[i][1] = "text" PROVE Owed(read[i])'
    OBVIOUS
  <2>1. PICK w : w = read[i]
    OBVIOUS
  <2>2. Owed(w)
    BY <1>1, <2>1
  <2>3. Owed(w)'
    BY <2>2, OwedStays
  <2> QED
    BY <2>1, <2>3 DEF Owed
<1>3. \A c \in Call : call'[c].step = "creating" => call[c].step = "creating"
  BY DEF HandsOn
<1> QED
  BY <1>1, <1>2, <1>3

LEMMA InitOwed == Init => OInv
<1> SUFFICES ASSUME Init PROVE OInv
  OBVIOUS
<1>1. stored.session = 0 /\ read = <<>> /\ Len(read) = 0
  BY EmptySeq DEF Init, NoRecord, Record
<1> QED
  BY <1>1 DEF OInv

LEMMA RequestOwed ==
  ASSUME TInv, KInv, OInv, NEW c \in Call, BeginRequest(c) \/ QueueCreated(c)
  PROVE  OInv'
<1> SUFFICES ASSUME requests' <= 1
             PROVE  /\ requests' = 0 => stored'.session = 0
                    /\ \A d \in Call : call'[d].step = "creating" => stored'.session = 0
                    /\ stored'.session = 0 \/ stored'.pending => read' = <<>>
                    /\ \A i \in 1 .. Len(read') : read'[i][1] = "text" => Owed(read[i])'
  BY DEF OInv, At, Owed
<1>1. requests \in Nat /\ UNCHANGED read /\ Len(<<>>) = 0
  BY Numbers, EmptySeq DEF TInv, LogInv, BeginRequest, QueueCreated
<1>2. CASE BeginRequest(c)
  <2>1. requests' = requests + 1 /\ UNCHANGED stored
    BY <1>2 DEF BeginRequest
  <2>2. requests = 0 /\ requests' = 1
    BY <1>1, <2>1
  <2>3. stored.session = 0 /\ read = <<>>
    BY <2>2 DEF OInv
  <2> QED
    BY <1>1, <2>1, <2>2, <2>3
<1>3. CASE QueueCreated(c)
  <2>1. requests' = requests /\ call[c].step = "creating" /\ call[c].n \in Session /\ call[c].n <= requests
    BY <1>3 DEF QueueCreated, counters, At, TInv, CallsInv, Fits, KInv, CreatingInv
  <2>2. call[c].n = 1 /\ requests = 1 /\ call[c].n \in Nat
    <3>1. call[c].n \in Nat /\ call[c].n # 0
      BY <2>1, Numbers
    <3> QED
      BY <1>1, <2>1, <3>1
  <2>3. stored.session = 0 /\ read = <<>>
    BY <2>1, <2>2 DEF OInv, At
  <2>4. \A d \in Call : call'[d].step # "creating"
    <3>1. \A d \in Call : call[d].step = "creating" => call[d].n = 1
      <4> SUFFICES ASSUME NEW d \in Call, call[d].step = "creating" PROVE call[d].n = 1
        OBVIOUS
      <4>1. call[d].n \in Session /\ call[d].n <= 1
        BY <2>2 DEF TInv, CallsInv, Fits, KInv, CreatingInv, At
      <4>2. call[d].n \in Nat /\ call[d].n # 0
        BY <4>1, Numbers
      <4> QED
        BY <4>1, <4>2
    <3>2. \A d \in Call : d # c => call[d].step # "creating"
      BY <2>1, <2>2, <3>1 DEF KInv, CreatingInv, At
    <3>3. PICK o : call' = [call EXCEPT ![c].step = "confirming", ![c].sent = o]
      BY <1>3 DEF QueueCreated
    <3>4. call'[c].step = "confirming" /\ \A d \in Call : d # c => call'[d] = call[d]
      BY <3>3 DEF TInv, CallsInv, Fits, CallSet
    <3> QED
      BY <3>2, <3>4
  <2> QED
    BY <1>1, <2>1, <2>2, <2>3, <2>4
<1> QED
  BY <1>2, <1>3

\* A step of a call that neither acknowledges a text nor sends a receipt.
LEMMA HandsNothing ==
  ASSUME TInv, NEW c \in Call, call[c].step \notin {"acking text", "receipting"},
         \A d \in Call : d # c => call'[d] = call[d], call'[c].step # "creating"
  PROVE  \A d \in Call : HandsOn(d)
  BY DEF HandsOn

\* An active contact has a ratchet that can seal.
LEMMA ActiveSeals == TInv' /\ contact'.state = "active" => stored'.session # 0 /\ stored'.pending = FALSE
  BY DEF TInv, StoreInv

LEMMA QuietOwed ==
  ASSUME TInv, TInv', OInv, NEW c \in Call,
         \/ Throws(c) \/ BeginSend(c) \/ BeginAccept(c) \/ AcceptArrives(c) \/ AcceptSecured(c)
         \/ SenderSecured(c) \/ InfoSent(c) \/ BeginReceive(c)
  PROVE  OInv'
<1>0. DOMAIN call = Call /\ call[c] \in CallSet /\ IdleCall \in CallSet /\ IdleCall.step = "idle"
  BY IdleFits DEF TInv, CallsInv, Fits
<1>1. UNCHANGED <<read, requests, tasks>> /\ outbox \subseteq outbox'
  BY DEF Throws, BeginSend, BeginAccept, AcceptArrives, AcceptSecured, SenderSecured, InfoSent, BeginReceive,
         Delivered, servers, counters
<1>2. call[c].step \in {"idle", "creating", "accepting", "receiving", "securing", "skey", "informing"}
  BY DEF Throws, BeginSend, BeginAccept, AcceptArrives, AcceptSecured, SenderSecured, InfoSent, BeginReceive, At
<1>3. \/ End(c)
      \/ \E step \in {"sending", "accepting", "receiving", "acking"}, k \in CallSet :
           call' = [call EXCEPT ![c] = k] /\ k.step = step
      \/ \E step \in {"securing", "skey", "informing"}, k \in CallSet :
           call' = [call EXCEPT ![c] = k] /\ k.step = step
  <2>1. call'[c] \in CallSet
    BY DEF TInv, CallsInv, Fits
  <2> DEFINE Goes(step) == \E k \in CallSet : call' = [call EXCEPT ![c] = k] /\ k.step = step
  <2>2. ASSUME NEW k, NEW step, call' = [call EXCEPT ![c] = k], k.step = step PROVE Goes(step)
    BY <1>0, <2>1, <2>2
  <2>3. CASE BeginSend(c)
    <3>1. PICK o : call' = [call EXCEPT ![c] = [IdleCall EXCEPT !.step = "sending", !.sent = o]]
      BY <2>3 DEF BeginSend, Seal
    <3>2. Goes("sending")
      <4>1. PICK k : k = [IdleCall EXCEPT !.step = "sending", !.sent = o]
        OBVIOUS
      <4> QED
        BY <1>0, <2>2, <3>1, <4>1 DEF CallSet
    <3> QED
      BY <3>2
  <2>4. ASSUME NEW step \in {"accepting", "receiving"},
               call' = [call EXCEPT ![c] = [IdleCall EXCEPT !.step = step, !.n = contact.session, !.contact = contact]]
        PROVE  Goes(step)
    <3>1. PICK k : k = [IdleCall EXCEPT !.step = step, !.n = contact.session, !.contact = contact]
      OBVIOUS
    <3> QED
      BY <1>0, <2>2, <2>4, <3>1 DEF CallSet
  <2>5. ASSUME NEW m, NEW key, NEW record, SaveAccept(c, m, key, record) PROVE Goes("acking")
    <3>1. PICK k : k = [IdleCall EXCEPT !.step = "acking", !.n = call[c].n, !.msg = m]
      OBVIOUS
    <3> QED
      BY <1>0, <2>2, <2>5, <3>1 DEF CallSet, SaveAccept
  <2>6. ASSUME NEW m, NEW record, Opened(c, m, record) PROVE Goes("acking") \/ Goes("skey")
    <3>1. PICK key : key = IF m.what[1] = "reply" THEN keys + 1 ELSE 0
      OBVIOUS
    <3>2. \/ call' = [call EXCEPT ![c].step = "skey", ![c].key = key, ![c].msg = m, ![c].stored = record]
          \/ SaveAccept(c, m, key, record)
      BY <2>6, <3>1 DEF Opened
    <3>3. CASE call' = [call EXCEPT ![c].step = "skey", ![c].key = key, ![c].msg = m, ![c].stored = record]
      <4>1. PICK k : k = [call[c] EXCEPT !.step = "skey", !.key = key, !.msg = m, !.stored = record]
        OBVIOUS
      <4>2. call' = [call EXCEPT ![c] = k] /\ k.step = "skey"
        BY <1>0, <3>3, <4>1 DEF CallSet
      <4> QED
        BY <2>2, <4>2
    <3> QED
      BY <2>5, <3>2, <3>3
  <2>7. CASE AcceptArrives(c)
    <3>1. PICK m : m = Head(inbox[call[c].n])
      OBVIOUS
    <3>2. PICK record : record = Record(FALSE, stored.session, Decrypt(Answering(stored, m), m.p).state, stored.next)
      OBVIOUS
    <3>3. \/ call' = [call EXCEPT ![c].step = "securing", ![c].stored = record, ![c].msg = m]
          \/ Opened(c, m, record)
          \/ End(c)
      BY <2>7, <3>1, <3>2 DEF AcceptArrives
    <3>4. CASE call' = [call EXCEPT ![c].step = "securing", ![c].stored = record, ![c].msg = m]
      <4>1. PICK k : k = [call[c] EXCEPT !.step = "securing", !.stored = record, !.msg = m]
        OBVIOUS
      <4>2. call' = [call EXCEPT ![c] = k] /\ k.step = "securing"
        BY <1>0, <3>4, <4>1 DEF CallSet
      <4>3. Goes("securing")
        BY <2>2, <4>2
      <4> QED
        BY <4>3
    <3> QED
      BY <2>6, <3>3, <3>4
  <2>8. CASE AcceptSecured(c)
    BY <2>6, <2>8 DEF AcceptSecured
  <2>9. CASE SenderSecured(c)
    <3>1. \/ End(c)
          \/ \E o, s : call' = [call EXCEPT ![c].step = "informing", ![c].sent = o, ![c].stored = s]
      BY <2>9 DEF SenderSecured
    <3>2. ASSUME NEW o, NEW s, call' = [call EXCEPT ![c].step = "informing", ![c].sent = o, ![c].stored = s]
          PROVE  Goes("informing")
      <4>1. PICK k : k = [call[c] EXCEPT !.step = "informing", !.sent = o, !.stored = s]
        OBVIOUS
      <4>2. call' = [call EXCEPT ![c] = k] /\ k.step = "informing"
        BY <1>0, <3>2, <4>1 DEF CallSet
      <4> QED
        BY <2>2, <4>2
    <3> QED
      BY <3>1, <3>2
  <2>10. CASE InfoSent(c)
    BY <2>5, <2>10 DEF InfoSent
  <2>11. CASE Throws(c)
    BY <2>11 DEF Throws
  <2>12. CASE BeginAccept(c) \/ BeginReceive(c)
    BY <2>4, <2>12 DEF BeginAccept, BeginReceive
  <2> QED
    BY <2>3, <2>7, <2>8, <2>9, <2>10, <2>11, <2>12
<1>4. call'[c].step # "creating" /\ \A d \in Call : d # c => call'[d] = call[d]
  BY <1>0, <1>3 DEF End
<1>5. \A d \in Call : HandsOn(d)
  BY <1>2, <1>4, HandsNothing
<1>6. \/ UNCHANGED stored
      \/ stored.session # 0 /\ stored'.session # 0 /\ stored'.pending = FALSE
  <2>1. CASE BeginSend(c)
    <3>1. contact.state = "active" /\ contact' = contact
      BY <2>1 DEF BeginSend, Seal
    <3> QED
      BY <3>1, ActiveSeals DEF TInv, StoreInv
  <2>2. CASE AcceptArrives(c) \/ AcceptSecured(c) \/ InfoSent(c)
    <3>1. \/ UNCHANGED stored
          \/ \E key : contact' = [call[c].contact EXCEPT !.state = "active", !.key = key]
      <4>1. ASSUME NEW m, NEW record, Opened(c, m, record)
            PROVE  \/ UNCHANGED stored
                   \/ \E key : contact' = [call[c].contact EXCEPT !.state = "active", !.key = key]
        BY <4>1 DEF Opened, SaveAccept
      <4>2. CASE AcceptArrives(c)
        BY <4>1, <4>2 DEF AcceptArrives
      <4>3. CASE AcceptSecured(c)
        BY <4>1, <4>3 DEF AcceptSecured
      <4>4. CASE InfoSent(c)
        BY <4>4 DEF InfoSent, SaveAccept
      <4> QED
        BY <2>2, <4>2, <4>3, <4>4
    <3>2. stored.session # 0
      BY <2>2 DEF AcceptArrives, AcceptSecured, InfoSent, At, TInv, CallsInv, Fits
    <3>3. (\E key : contact' = [call[c].contact EXCEPT !.state = "active", !.key = key]) => contact'.state = "active"
      BY <1>0 DEF CallSet, ContactSet
    <3> QED
      BY <3>1, <3>2, <3>3, ActiveSeals
  <2>3. CASE Throws(c) \/ BeginAccept(c) \/ SenderSecured(c) \/ BeginReceive(c)
    BY <2>3 DEF Throws, BeginAccept, SenderSecured, BeginReceive
  <2> QED
    BY <2>1, <2>2, <2>3
<1> QED
  BY <1>1, <1>5, <1>6, OwedKept

LEMMA SendEndsOwed ==
  ASSUME TInv, OInv, NEW c \in Call, SendEnds(c)
  PROVE  OInv'
<1>1. /\ UNCHANGED <<read, requests, stored>> /\ call' = [call EXCEPT ![c] = IdleCall]
      /\ call[c].step \in {"confirming", "sending", "receipting"}
      /\ outbox \subseteq outbox' /\ tasks \subseteq tasks'
      /\ call[c].sent \in outbox' \/ [type |-> "packet", o |-> call[c].sent] \in tasks'
  BY DEF SendEnds, End, TaskFor, Delivered, Done
<1>2. call'[c] = IdleCall /\ \A d \in Call : d # c => call'[d] = call[d]
  BY <1>1 DEF TInv, CallsInv
<1>3. \A d \in Call : HandsOn(d)
  BY <1>1, <1>2, IdleFits DEF HandsOn
<1> QED
  BY <1>1, <1>3, OwedKept

LEMMA AckOwed ==
  ASSUME TInv, TInv', QInv, OInv, NEW c \in Call, AckEnds(c)
  PROVE  OInv'
<1>0. DOMAIN call = Call /\ call[c] \in CallSet /\ stored.session # 0
  BY DEF AckEnds, TInv, CallsInv, Fits
<1>1. /\ UNCHANGED <<read, requests, outbox>> /\ tasks \subseteq tasks'
      /\ call[c].step \in {"acking", "acking text"}
  BY DEF AckEnds
<1>2. CASE At(c, "acking text") /\ Seal(c, <<"receipt", call[c].msg.what>>, "receipting", call[c].contact)
  <2>1. PICK o : o.what = <<"receipt", call[c].msg.what>>
                 /\ call' = [call EXCEPT ![c] = [IdleCall EXCEPT !.step = "receipting", !.sent = o]]
    <3>1. PICK p : call' = [call EXCEPT ![c] = [IdleCall EXCEPT !.step = "receipting",
                      !.sent = Outgoing(call[c].contact.session, call[c].contact.key, <<"receipt", call[c].msg.what>>, p)]]
      BY <1>2 DEF Seal
    <3>2. Outgoing(call[c].contact.session, call[c].contact.key, <<"receipt", call[c].msg.what>>, p).what
            = <<"receipt", call[c].msg.what>>
      BY DEF Outgoing
    <3> QED
      BY <3>1, <3>2
  <2>2. /\ call'[c].step = "receipting" /\ call'[c].sent = o
        /\ \A d \in Call : d # c => call'[d] = call[d]
    BY <1>0, <2>1, IdleFits DEF CallSet
  <2>3. \A d \in Call : HandsOn(d)
    BY <1>1, <1>2, <2>1, <2>2 DEF HandsOn, At
  <2>4. contact'.state = "active"
    BY <1>2 DEF Seal, At, TInv, CallsInv, Fits
  <2> QED
    BY <1>0, <1>1, <2>3, <2>4, ActiveSeals, OwedKept
<1>3. CASE (At(c, "acking") \/ stored.pending) /\ End(c) /\ UNCHANGED stored
  <2>1. CASE At(c, "acking")
    <3>1. call'[c].step = "idle" /\ \A d \in Call : d # c => call'[d] = call[d]
      BY <1>0, <1>3, IdleFits DEF End
    <3>2. \A d \in Call : HandsOn(d)
      BY <2>1, <3>1, HandsNothing DEF At
    <3> QED
      BY <1>1, <1>3, <3>2, OwedKept
  <2>2. CASE ~At(c, "acking")
    <3>1. call[c].msg.what \in Triple
      BY <1>1, <2>2 DEF At, TInv, CallsInv, Fits
    <3>2. call[c].msg.what \in received
      BY <3>1 DEF QInv, AckInv
    <3>3. PICK w \in received : w = call[c].msg.what
      BY <3>2
    <3>4. Read(w[2], w[3])
      BY DEF QInv, TakenInv
    <3>5. read # <<>>
      BY <3>4, EmptySeq DEF Read
    <3>6. ~(requests <= 1)
      BY <1>3, <2>2, <3>5 DEF OInv
    <3> QED
      BY <1>1, <3>6 DEF OInv
  <2> QED
    BY <2>1, <2>2
<1> QED
  BY <1>2, <1>3 DEF AckEnds

LEMMA TakeOwed ==
  ASSUME TInv, OInv, NEW c \in Call, MessageArrives(c)
  PROVE  OInv'
<1>0. DOMAIN call = Call /\ call[c] \in CallSet /\ call[c].step = "receiving" /\ stored.session # 0
      /\ stored \in RecordSet /\ read \in Seq(Triple)
  BY DEF MessageArrives, At, TInv, CallsInv, Fits, StoreInv, LogInv
<1>1. PICK m : m = Head(inbox[call[c].n])
  OBVIOUS
<1>2. /\ UNCHANGED <<requests, outbox, tasks>>
      /\ \/ /\ UNCHANGED <<stored, read>>
            /\ End(c) \/ call' = [call EXCEPT ![c].step = "acking", ![c].msg = m]
         \/ /\ stored.pending = FALSE /\ stored' = [stored EXCEPT !.r = Decrypt(stored.r, m.p).state]
            /\ read' = Append(read, m.what)
            /\ call' = [call EXCEPT ![c].step = IF m.what[1] = "text" THEN "acking text" ELSE "acking",
                                    ![c].msg = m]
  BY <1>0, <1>1 DEF MessageArrives, servers, counters, Readable, Take, RecordSet
<1>3. /\ call'[c].step \in {"idle", "acking", "acking text"}
      /\ \A d \in Call : d # c => call'[d] = call[d]
  <2>1. CASE End(c)
    BY <1>0, <2>1, IdleFits DEF End
  <2>2. ASSUME NEW step \in {"acking", "acking text"}, call' = [call EXCEPT ![c].step = step, ![c].msg = m]
        PROVE  /\ call'[c].step \in {"idle", "acking", "acking text"}
               /\ \A d \in Call : d # c => call'[d] = call[d]
    BY <1>0, <2>2 DEF CallSet
  <2> QED
    BY <1>2, <2>1, <2>2
<1>4. \A d \in Call : HandsOn(d)
  BY <1>0, <1>3, HandsNothing
<1>5. CASE UNCHANGED <<stored, read>>
  BY <1>2, <1>4, <1>5, OwedKept
<1>6. CASE /\ stored.pending = FALSE /\ stored' = [stored EXCEPT !.r = Decrypt(stored.r, m.p).state]
           /\ read' = Append(read, m.what)
           /\ call' = [call EXCEPT ![c].step = IF m.what[1] = "text" THEN "acking text" ELSE "acking",
                                   ![c].msg = m]
  <2>1. stored'.session = stored.session /\ stored'.pending = FALSE
    BY <1>0, <1>6 DEF RecordSet
  <2>2. call'[c].msg = m /\ (m.what[1] = "text" => call'[c].step = "acking text")
    BY <1>0, <1>6 DEF CallSet
  <2>3. PICK v : v = m.what
    OBVIOUS
  <2>4. v[1] = "text" => Owed(v)'
    BY <2>2, <2>3 DEF Owed, At
  <2>5. \A w : Owed(w) => Owed(w)'
    BY <1>2, <1>4, OwedStays
  <2> SUFFICES ASSUME requests' <= 1
               PROVE  /\ requests' = 0 => stored'.session = 0
                      /\ \A d \in Call : call'[d].step = "creating" => stored'.session = 0
                      /\ stored'.session = 0 \/ stored'.pending => read' = <<>>
                      /\ \A i \in 1 .. Len(read') : read'[i][1] = "text" => Owed(read[i])'
    BY DEF OInv, At, Owed
  <2>6. requests <= 1 /\ requests' = requests
    BY <1>2
  <2>7. /\ requests' = 0 => stored'.session = 0
        /\ \A d \in Call : call'[d].step = "creating" => stored'.session = 0
    BY <1>3, <2>1, <2>6 DEF OInv, At
  <2>8. ~(stored'.session = 0 \/ stored'.pending)
    BY <1>0, <2>1
  <2>9. /\ Len(read') = Len(read) + 1 /\ read'[Len(read) + 1] = v /\ Len(read) \in Nat
        /\ \A i \in 1 .. Len(read) : read'[i] = read[i]
    <3>0. Triple \subseteq Triple \cup {v} /\ v \in Triple \cup {v}
      OBVIOUS
    <3>1. read \in Seq(Triple \cup {v}) /\ v \in Triple \cup {v} /\ read' = Append(read, v)
      BY <1>0, <1>6, <2>3, <3>0, SeqMonotonic
    <3> QED
      BY <3>1, AppendProperties, LenProperties
  <2>10. ASSUME NEW i \in 1 .. Len(read'), read'[i][1] = "text" PROVE Owed(read[i])'
    <3>1. PICK w : w = read'[i]
      OBVIOUS
    <3>2. Owed(w)'
      <4>1. CASE i = Len(read) + 1
        BY <2>4, <2>9, <2>10, <3>1, <4>1
      <4>2. CASE i \in 1 .. Len(read)
        BY <2>5, <2>6, <2>9, <2>10, <3>1, <4>2 DEF OInv
      <4> QED
        BY <2>9, <4>1, <4>2
    <3> QED
      BY <3>1, <3>2 DEF Owed
  <2> QED
    BY <2>7, <2>8, <2>10
<1> QED
  BY <1>2, <1>5, <1>6

LEMMA NextOwed == TInv /\ TInv' /\ QInv /\ KInv /\ OInv /\ [Next]_vars => OInv'
<1> SUFFICES ASSUME TInv, TInv', QInv, KInv, OInv, [Next]_vars PROVE OInv'
  OBVIOUS
<1>1. ASSUME UNCHANGED <<call, requests, stored, read>>, outbox \subseteq outbox',
             \A t \in tasks : t.type = "packet" => t \in tasks' \/ t.o \in outbox'
      PROVE  OInv'
  <2>1. \A c \in Call : HandsOn(c)
    BY <1>1 DEF HandsOn
  <2> QED
    BY <1>1, <2>1, OwedKept
<1>2. ASSUME NEW c \in Call, CallStep(c) PROVE OInv'
  BY <1>2, RequestOwed, QuietOwed, SendEndsOwed, AckOwed, TakeOwed DEF CallStep
<1>3. CASE SuspendContact \/ UNCHANGED vars
  BY <1>1, <1>3 DEF SuspendContact, vars, servers, counters
<1>4. ASSUME NEW t \in tasks, Drain(t) PROVE OInv'
  BY <1>1, <1>4 DEF Drain, counters
<1>5. ASSUME NEW n \in Session, PeerAnswers(n) \/ PeerSends(n) \/ PeerReads(n) PROVE OInv'
  BY <1>1, <1>5 DEF PeerAnswers, PeerSends, PeerReads, counters
<1> QED
  BY <1>2, <1>3, <1>4, <1>5 DEF Next

\* Of a contact that was asked for once every text that was taken is answered by
\* a receipt that is with a call, in a task or at the peer, whatever fails.
THEOREM NoReceiptForgotten == Spec => [](requests <= 1 => ReceiptsOwed)
<1>1. OInv => (requests <= 1 => ReceiptsOwed)
  BY DEF OInv, ReceiptsOwed, Owed
<1>2. TInv /\ QInv /\ KInv /\ OInv /\ [Next]_vars => TInv' /\ QInv' /\ KInv' /\ OInv'
  BY NextTypes, NextQueue, NextKeys, NextOwed
<1> QED
  BY <1>1, <1>2, InitTypes, InitQueue, InitKeys, InitOwed, PTL DEF Spec

-----------------------------------------------------------------------------
(***************************************************************************)
(* HeadReadable.  The two ratchets, as far as they go: the peer leaves its *)
(* first sending chain when it has read a packet of ours, if it was the    *)
(* peer that joined; we send on one chain for ever.  So there are three    *)
(* chains, and which they are is known of all that was sent.  This is      *)
(* about a contact that was asked for once, whose messages are given to    *)
(* one call at a time; otherwise it is false.                              *)
(***************************************************************************)

\* The contact is asked for once, and a message is given to one call at a time.
Once == MaxRequests = 1 /\ ~Redelivers

Ours  == stored.r
Peer  == peer[1]
Queue == inbox[1]

\* What X3DH agrees on when the peer joins, and when we do.
PeerJoins == X3dhSender(Theirs(1, 1), Theirs(1, 2), Mine(1, 1), Mine(1, 2))
WeJoin    == X3dhSender(Mine(1, 1), Mine(1, 2), Theirs(1, 1), Theirs(1, 2))

\* The peer's first sending chain, and the header keys both sides begin with;
\* JoinRoot is that of our chain when it is we who join.
ByAddress == contact.kind = "address"
JoinRoot  == Append(WeJoin, DH(Mine(1, 3), Theirs(1, 2)))
FirstRoot == IF ByAddress THEN Append(PeerJoins, DH(Theirs(1, 3), Mine(1, 2)))
             ELSE Append(JoinRoot, DH(Theirs(1, 3), Mine(1, 3)))
FirstHK   == IF ByAddress THEN HeaderKey(PeerJoins, "send") ELSE HeaderKey(WeJoin, "receiveNext")
SecondHK  == HeaderKey(FirstRoot, "next")
OurHK     == IF ByAddress THEN HeaderKey(PeerJoins, "receiveNext") ELSE HeaderKey(WeJoin, "send")

Link(root, k) == [root |-> root, at |-> k]

\* The last message of the peer's first chain, its second chain, and its
\* messages on the two.
Turn       == IF Peer.r.own = Theirs(1, 3) THEN Peer.sent ELSE Peer.r.own.nr - 4
SecondRoot == Append(Ours.sending.root, DH(Peer.r.own, Ours.own))
First(k)   == [hk |-> FirstHK, dh |-> Theirs(1, 3), key |-> Link(FirstRoot, k)]
Second(k)  == [hk |-> SecondHK, dh |-> Peer.r.own, key |-> Link(SecondRoot, k)]
Posted(k)  == IF k <= Turn THEN First(k) ELSE Second(k - Turn - 1)

\* The peer sends on its first chain, has left it, or sends on the second.
OnFirst ==
  /\ Peer.r.own = Theirs(1, 3) /\ Peer.r.sending = Link(FirstRoot, Peer.sent + 1)
  /\ Peer.r.sendHK = FirstHK /\ Peer.r.nextSendHK = SecondHK
LeftFirst ==
  /\ Peer.r.own = Theirs(1, 3) /\ Peer.r.sending = NoChain
  /\ Peer.r.nextSendHK = SecondHK /\ Peer.r.root = Ours.sending.root
OnSecond ==
  /\ \E a \in 0 .. Peer.sent - 1 : Peer.r.own = Theirs(1, a + 4)
  /\ Peer.r.sendHK = SecondHK /\ Peer.r.sending = Link(SecondRoot, Peer.sent - Turn)

\* It has read nothing of us, or reads the one chain we ever send on.
Unread ==
  /\ Peer.r.receiving = NoChain /\ Peer.r.recvHK = NoHeaderKey
  /\ Peer.r.nextRecvHK = OurHK /\ Peer.r.root = FirstRoot
Reads ==
  /\ Peer.r.recvHK = OurHK /\ Peer.r.receiving.root = Ours.sending.root
  /\ Ours.sending # NoChain /\ Peer.r.remote = Ours.own

PeerInv ==
  \/ OnFirst /\ IF ByAddress THEN Unread ELSE Reads
  \/ ByAddress /\ (LeftFirst \/ OnSecond) /\ Reads

\* Our chain, once there is one.
SendsOn ==
  /\ Ours.sending # NoChain /\ Ours.sendHK = OurHK
  /\ Ours.sending.root = IF ByAddress THEN Append(FirstRoot, DH(Ours.own, Theirs(1, 3))) ELSE JoinRoot
  /\ ByAddress => Ours.own.of = "client"
  /\ ~ByAddress => Ours.own = Mine(1, 3)
SendsNew ==
  /\ ByAddress /\ Ours.sending = NoChain /\ Ours.own = Mine(1, 2) /\ Ours.nextSendHK = OurHK

\* How many messages of the peer were taken.
Passed == Queue # <<>> /\ (Head(Queue).env = "confirmation" \/ Known(Head(Queue)))
Got    == Peer.sent + (IF Passed THEN 1 ELSE 0) - Len(Queue)

ReadsFirst ==
  /\ Ours.receiving = Link(FirstRoot, Got + 1) /\ Got <= Turn
  /\ Ours.recvHK = FirstHK /\ Ours.nextRecvHK = SecondHK /\ Ours.remote = Theirs(1, 3)
  /\ ByAddress => Ours.root = IF Ours.sending = NoChain THEN FirstRoot ELSE Ours.sending.root
ReadsSecond ==
  /\ Peer.r.own # Theirs(1, 3) /\ SendsOn
  /\ Ours.receiving = Link(SecondRoot, Got - Turn) /\ Got > Turn
  /\ Ours.recvHK = SecondHK

\* The confirmation is the first message, and can be opened.
Confirms(m) ==
  /\ m.p = First(0) /\ m.e2e = ByAddress
  /\ m.what = IF ByAddress THEN <<"reply", 1>> ELSE <<"info", 1>>
ConfirmInv == \A i \in 1 .. Len(Queue) : Queue[i].env = "confirmation" => Confirms(Queue[i])

\* A call that has the confirmation in hand, and what it made of it.
HoldSteps == {"securing", "skey", "informing"}
Opening  == Record(FALSE, 1, Decrypt(Answering(stored, Head(Queue)), Head(Queue).p).state, 0)
Holding(c) ==
  /\ contact.state = "requested" /\ ByAddress /\ Peer.up /\ call[c].msg = Head(Queue)
  /\ At(c, "securing") => call[c].stored = Opening
  /\ At(c, "skey") => /\ call[c].stored = Opening /\ Head(Queue).mode = "M"
                      /\ call[c].key \in 1 .. keys /\ call[c].key # secured[1]
  /\ At(c, "informing") =>
       /\ call[c].key = secured[1] /\ call[c].key # 0
       /\ \E k \in 0 .. keys : LET e == Encrypt(Opening.r, Mine(1, k))
                              IN  /\ call[c].stored.r = e.state /\ call[c].sent.p = e.packet
                                  /\ call[c].sent.what = <<"info", 1>>
Free(c) == call[c].step \notin HoldSteps
HoldInv ==
  \A c \in Call : ~Free(c) => Holding(c) /\ \A d \in Call \ {c} : Free(d)

\* The peer's queue is secured by a key that nobody has any more.
Stuck == /\ contact.state = "requested" /\ ByAddress /\ secured[1] # 0
         /\ \A c \in Call : ~At(c, "informing")

\* A packet of our chain, or the request itself.
OfOurs(o) ==
  IF o.what[1] = "address" THEN ByAddress
  ELSE /\ SendsOn /\ o.p.hk = OurHK /\ o.p.dh = Ours.own /\ o.p.key.root = Ours.sending.root
       /\ o.what[1] = "join" => ~ByAddress /\ o.p = Join(1).packet
OutboxInv ==
  /\ \A o \in outbox : OfOurs(o)
  /\ \A t \in tasks : t.type = "packet" => OfOurs(t.o)
Sends(c) == call[c].step \in {"confirming", "sending", "receipting"} => OfOurs(call[c].sent)
OutInv   == OutboxInv /\ \A c \in Call : Sends(c)

WaitInv ==
  contact.state = "requested" =>
    /\ stored.session = 1 /\ stored.next = 0
    /\ IF ByAddress THEN stored = Record(TRUE, 1, NoRatchet, 0) ELSE stored = Record(FALSE, 1, Join(1).state, 0)
    /\ Peer.up => Queue # <<>> /\ Head(Queue).env = "confirmation"
    /\ \A t \in tasks : t.type # "ack"
    /\ secured[1] # 0 => Peer.up /\ Head(Queue).mode = "M"

\* Which calls there are in each state of the contact.
Busy(c) ==
  /\ call[c].step \in {"sending", "receipting", "receiving", "acking", "acking text"}
       => contact.state \in {"active", "suspended"}
  /\ call[c].step \in {"accepting", "securing", "skey", "informing", "receiving", "acking text"}
       => call[c].contact.kind = contact.kind
  /\ call[c].step \notin {"idle", "creating"} => contact.state # "none"
BusyInv == \A c \in Call : Busy(c)

AcceptedInv ==
  contact.state \in {"active", "suspended"} =>
    /\ stored.pending = FALSE /\ stored.session = 1 /\ Peer.up
    /\ SendsOn \/ SendsNew
    /\ ReadsFirst \/ ReadsSecond

Line    == \A i \in 1 .. Len(Queue) : Queue[i].p = Posted(Number(Queue[i]))
SyncInv == Peer.up => PeerInv /\ Line

TogetherInv == contact.state # "none" /\ ~Stuck => OutInv /\ SyncInv

BlankInv == contact.state = "none" => outbox = {} /\ tasks = {} /\ ~Peer.up /\ secured[1] = 0

HInv == /\ BlankInv /\ WaitInv /\ BusyInv /\ HoldInv /\ AcceptedInv /\ TogetherInv
        /\ contact.state # "none" => ConfirmInv
        /\ secured[1] <= keys

-----------------------------------------------------------------------------
(* One step of a ratchet, field by field.                                  *)

SameSending(r, t) ==
  /\ t.own = r.own /\ t.sending = r.sending /\ t.sendHK = r.sendHK /\ t.nextSendHK = r.nextSendHK
SameReceiving(r, t) ==
  /\ t.remote = r.remote /\ t.receiving = r.receiving /\ t.recvHK = r.recvHK
  /\ t.nextRecvHK = r.nextRecvHK

\* On the chain there is.
LEMMA ReadsOn ==
  ASSUME NEW r \in Ratchet, NEW p \in PacketSet, r.recvHK = p.hk, r.receiving # NoChain
  PROVE  LET d == Decrypt(r, p)
         IN  /\ d.next = FALSE /\ (d.ok <=> r.receiving = p.key)
             /\ SameSending(r, d.state) /\ d.state.root = r.root /\ d.state.remote = p.dh
             /\ d.state.receiving = Advanced(r.receiving)
             /\ d.state.recvHK = r.recvHK /\ d.state.nextRecvHK = r.nextRecvHK
<1>1. ReceiveStep(r, p, FALSE) = r
  BY DEF ReceiveStep
<1>2. PICK s : s = [r EXCEPT !.receiving = Advanced(@), !.remote = p.dh]
  OBVIOUS
<1>3. /\ SameSending(r, s) /\ s.root = r.root /\ s.remote = p.dh /\ s.receiving = Advanced(r.receiving)
      /\ s.recvHK = r.recvHK /\ s.nextRecvHK = r.nextRecvHK
  BY <1>2 DEF Ratchet, SameSending
<1>4. Decrypt(r, p).state = s /\ Decrypt(r, p).next = FALSE
  BY <1>1, <1>2 DEF Decrypt
<1>5. Decrypt(r, p).ok <=> r.receiving = p.key
  BY <1>1 DEF Decrypt
<1> QED
  BY <1>3, <1>4, <1>5

\* On a new chain.
LEMMA ReadsNew ==
  ASSUME NEW r \in Ratchet, NEW p \in PacketSet, r.recvHK # p.hk
  PROVE  LET d    == Decrypt(r, p)
             root == Append(r.root, DH(p.dh, r.own))
         IN  /\ d.next = TRUE /\ (d.ok <=> p.hk = r.nextRecvHK /\ p.key = Chain(root))
             /\ SameSending(r, d.state) /\ d.state.root = root /\ d.state.remote = p.dh
             /\ d.state.receiving = Advanced(Chain(root))
             /\ d.state.recvHK = p.hk /\ d.state.nextRecvHK = HeaderKey(root, "next")
<1>1. PICK root : root = Append(r.root, DH(p.dh, r.own))
  OBVIOUS
<1>2. ReceiveStep(r, p, TRUE) = [r EXCEPT !.root = root, !.receiving = Chain(root), !.recvHK = p.hk,
                                          !.nextRecvHK = HeaderKey(root, "next")]
  BY <1>1 DEF ReceiveStep
<1>3. PICK t : t = ReceiveStep(r, p, TRUE)
  OBVIOUS
<1>4. /\ SameSending(r, t) /\ t.root = root /\ t.receiving = Chain(root) /\ t.recvHK = p.hk
      /\ t.nextRecvHK = HeaderKey(root, "next") /\ DOMAIN t = DOMAIN r
  BY <1>2, <1>3 DEF Ratchet, SameSending
<1>6. PICK s : s = [t EXCEPT !.receiving = Advanced(@), !.remote = p.dh]
  OBVIOUS
<1>7. /\ SameSending(r, s) /\ s.root = root /\ s.receiving = Advanced(Chain(root)) /\ s.recvHK = p.hk
      /\ s.nextRecvHK = HeaderKey(root, "next") /\ s.remote = p.dh
  BY <1>4, <1>6 DEF Ratchet, SameSending
<1>8. Decrypt(r, p).state = s /\ Decrypt(r, p).next = TRUE
  BY <1>3, <1>6 DEF Decrypt
<1>9. Decrypt(r, p).ok <=> p.hk \in {r.recvHK, r.nextRecvHK} /\ t.receiving = p.key
  BY <1>3 DEF Decrypt
<1> QED
  BY <1>1, <1>4, <1>7, <1>8, <1>9

LEMMA SealsOn ==
  ASSUME NEW r \in Ratchet, NEW new, r.sending # NoChain
  PROVE  LET e == Encrypt(r, new)
         IN  /\ e.packet = [hk |-> r.sendHK, dh |-> r.own, key |-> r.sending]
             /\ SameReceiving(r, e.state) /\ e.state.root = r.root /\ e.state.own = r.own
             /\ e.state.sending = Advanced(r.sending)
             /\ e.state.sendHK = r.sendHK /\ e.state.nextSendHK = r.nextSendHK
<1>1. SendStep(r, new) = r
  BY DEF SendStep
<1>2. Encrypt(r, new) = [state |-> [r EXCEPT !.sending = Advanced(@)],
                         packet |-> [hk |-> r.sendHK, dh |-> r.own, key |-> r.sending]]
  BY <1>1 DEF Encrypt
<1> QED
  BY <1>2 DEF Ratchet, SameReceiving

LEMMA SealsNew ==
  ASSUME NEW r \in Ratchet, NEW new, r.sending = NoChain
  PROVE  LET e    == Encrypt(r, new)
             root == Append(r.root, DH(new, r.remote))
         IN  /\ e.packet = [hk |-> r.nextSendHK, dh |-> new, key |-> Chain(root)]
             /\ SameReceiving(r, e.state) /\ e.state.root = root /\ e.state.own = new
             /\ e.state.sending = Advanced(Chain(root))
             /\ e.state.sendHK = r.nextSendHK /\ e.state.nextSendHK = HeaderKey(root, "next")
<1>1. PICK root : root = Append(r.root, DH(new, r.remote))
  OBVIOUS
<1>2. PICK t : t = SendStep(r, new)
  OBVIOUS
<1>3. t = [r EXCEPT !.own = new, !.root = root, !.sending = Chain(root),
                    !.sendHK = r.nextSendHK, !.nextSendHK = HeaderKey(root, "next")]
  BY <1>1, <1>2 DEF SendStep
<1>4. /\ SameReceiving(r, t) /\ t.root = root /\ t.own = new /\ t.sending = Chain(root)
      /\ t.sendHK = r.nextSendHK /\ t.nextSendHK = HeaderKey(root, "next") /\ DOMAIN t = DOMAIN r
  BY <1>3 DEF Ratchet, SameReceiving
<1>5. Encrypt(r, new) = [state |-> [t EXCEPT !.sending = Advanced(@)],
                         packet |-> [hk |-> t.sendHK, dh |-> t.own, key |-> t.sending]]
  BY <1>2 DEF Encrypt
<1>6. PICK s : s = [t EXCEPT !.sending = Advanced(@)]
  OBVIOUS
<1>7. /\ SameReceiving(r, s) /\ s.root = root /\ s.own = new /\ s.sending = Advanced(Chain(root))
      /\ s.sendHK = r.nextSendHK /\ s.nextSendHK = HeaderKey(root, "next")
  BY <1>4, <1>6 DEF Ratchet, SameReceiving
<1>8. Encrypt(r, new).state = s /\ Encrypt(r, new).packet = [hk |-> r.nextSendHK, dh |-> new, key |-> Chain(root)]
  BY <1>4, <1>5, <1>6
<1> QED
  BY <1>1, <1>7, <1>8

LEMMA JoinsWith ==
  ASSUME NEW init, NEW own, NEW remote
  PROVE  LET s    == SendingRatchet(init, own, remote)
             root == Append(init, DH(own, remote))
         IN  /\ s.own = own /\ s.remote = remote /\ s.root = root /\ s.sending = Chain(root)
             /\ s.sendHK = HeaderKey(init, "send") /\ s.nextSendHK = HeaderKey(root, "next")
             /\ s.receiving = NoChain /\ s.recvHK = NoHeaderKey
             /\ s.nextRecvHK = HeaderKey(init, "receiveNext")
<1>1. PICK root : root = Append(init, DH(own, remote))
  OBVIOUS
<1> QED
  BY <1>1 DEF SendingRatchet

LEMMA IsJoinedWith ==
  ASSUME NEW init, NEW own
  PROVE  LET s == ReceivingRatchet(init, own)
         IN  /\ s.own = own /\ s.remote = NoKey /\ s.root = init /\ s.sending = NoChain
             /\ s.sendHK = NoHeaderKey /\ s.nextSendHK = HeaderKey(init, "receiveNext")
             /\ s.receiving = NoChain /\ s.recvHK = NoHeaderKey
             /\ s.nextRecvHK = HeaderKey(init, "send")
  BY DEF ReceivingRatchet

\* What is not the same.
LEMMA Unlike ==
  /\ \A root, k : root # <<>> => Link(root, k) # NoChain
  /\ \A root, k : Chain(root) = Link(root, 0) /\ Advanced(Link(root, k)) = Link(root, k + 1)
  /\ \A root, rest, use, other : use # other => HeaderKey(root, use) # HeaderKey(rest, other)
  /\ \A root, use : use # "none" => HeaderKey(root, use) # NoHeaderKey
  /\ \A a, b : a # b => Theirs(1, a) # Theirs(1, b)
  /\ \A a : Theirs(1, a).of = "peer" /\ Theirs(1, a).nr = a /\ Mine(1, a).of = "client"
<1>1. \A root, k : Link(root, k).root = root /\ Link(root, k).at = k
  BY DEF Link
<1>2. NoChain = Link(<<>>, 0)
  BY DEF NoChain, Chain, Link
<1>3. \A root, k : root # <<>> => Link(root, k) # NoChain
  BY <1>1, <1>2
<1>4. \A root, k : Chain(root) = Link(root, 0) /\ Advanced(Link(root, k)) = Link(root, k + 1)
  BY DEF Chain, Link, Advanced
<1>5. \A root, use : HeaderKey(root, use).use = use
  BY DEF HeaderKey
<1>6. NoHeaderKey.use = "none"
  BY DEF NoHeaderKey, HeaderKey
<1>7. \A root, use : use # "none" => HeaderKey(root, use) # NoHeaderKey
  BY <1>5, <1>6
<1>8. \A a : Theirs(1, a).of = "peer" /\ Theirs(1, a).nr = a /\ Mine(1, a).of = "client"
  BY DEF Theirs, Mine, Key
<1> QED
  BY <1>3, <1>4, <1>5, <1>7, <1>8

\* X3DH agrees, whoever joins.
LEMMA Agreement ==
  /\ X3dhReceiver(Mine(1, 1), Mine(1, 2), Theirs(1, 1), Theirs(1, 2)) = PeerJoins
  /\ X3dhReceiver(Theirs(1, 1), Theirs(1, 2), Mine(1, 1), Mine(1, 2)) = WeJoin
<1>1. \A x, y : DH(x, y) = DH(y, x)
  BY DEF DH
<1> QED
  BY <1>1 DEF X3dhSender, X3dhReceiver, PeerJoins, WeJoin

LEMMA Roots ==
  /\ PeerJoins \in Root /\ WeJoin \in Root /\ JoinRoot \in Root /\ FirstRoot \in Root
  /\ JoinRoot # <<>> /\ FirstRoot # <<>>
<1>1. \A k \in Nat : Mine(1, k) \in KeySet /\ Theirs(1, k) \in KeySet
  BY KeysFit
<1>2. PeerJoins \in Root /\ WeJoin \in Root
  BY <1>1, AgreementFits DEF PeerJoins, WeJoin
<1>3. JoinRoot \in Root /\ JoinRoot # <<>>
  BY <1>1, <1>2, RootGrows DEF JoinRoot
<1>4. FirstRoot \in Root /\ FirstRoot # <<>>
  BY <1>1, <1>2, <1>3, RootGrows DEF FirstRoot
<1> QED
  BY <1>2, <1>3, <1>4

\* What we send and keep when it is we who join.
LEMMA WeAsk ==
  /\ Join(1).state \in Ratchet /\ Join(1).packet \in PacketSet
  /\ Join(1).packet = [hk |-> HeaderKey(WeJoin, "send"), dh |-> Mine(1, 3), key |-> Link(JoinRoot, 0)]
  /\ LET s == Join(1).state
     IN  /\ s.own = Mine(1, 3) /\ s.root = JoinRoot /\ s.sending = Link(JoinRoot, 1)
         /\ s.sendHK = HeaderKey(WeJoin, "send")
         /\ s.receiving = NoChain /\ s.recvHK = NoHeaderKey
         /\ s.nextRecvHK = HeaderKey(WeJoin, "receiveNext")
<1>1. PICK r : r = SendingRatchet(WeJoin, Mine(1, 3), Theirs(1, 2))
  OBVIOUS
<1>2. r \in Ratchet
  BY <1>1, Roots, KeysFit, StartFits
<1>3. /\ r.own = Mine(1, 3) /\ r.root = JoinRoot /\ r.sending = Chain(JoinRoot)
      /\ r.sendHK = HeaderKey(WeJoin, "send") /\ r.receiving = NoChain /\ r.recvHK = NoHeaderKey
      /\ r.nextRecvHK = HeaderKey(WeJoin, "receiveNext")
  BY <1>1, JoinsWith DEF JoinRoot
<1>4. Join(1) = Encrypt(r, NoKey)
  BY <1>1 DEF Join, WeJoin
<1>5. NoKey \in KeySet
  BY KeysFit
<1>6. r.sending = Link(JoinRoot, 0) /\ r.sending # NoChain /\ Advanced(r.sending) = Link(JoinRoot, 0 + 1)
  BY <1>3, Unlike, Roots
<1>7. Join(1).state \in Ratchet /\ Join(1).packet \in PacketSet
  BY <1>2, <1>4, <1>5, EncryptFits
<1> QED
  BY <1>2, <1>3, <1>4, <1>6, <1>7, SealsOn DEF SameReceiving

\* A ratchet that has read the confirmation.
Accepted(r) ==
  /\ r.receiving = Link(FirstRoot, 1) /\ r.recvHK = FirstHK /\ r.nextRecvHK = SecondHK
  /\ r.remote = Theirs(1, 3)
  /\ IF ByAddress
     THEN r.sending = NoChain /\ r.own = Mine(1, 2) /\ r.nextSendHK = OurHK /\ r.root = FirstRoot
     ELSE SameSending(Join(1).state, r)

LEMMA FirstFits == \A k \in Nat : First(k) \in PacketSet
<1>1. FirstHK \in HeaderSet
  BY Roots DEF FirstHK, HeaderKey, HeaderSet
<1>2. \A k \in Nat : Link(FirstRoot, k) \in ChainSet
  BY Roots DEF Link, ChainSet
<1> QED
  BY <1>1, <1>2, KeysFit DEF First, PacketSet

LEMMA FirstIs ==
  \A k : First(k).hk = FirstHK /\ First(k).dh = Theirs(1, 3) /\ First(k).key = Link(FirstRoot, k)
  BY DEF First

\* The confirmation opens with what waits for it.
LEMMA Opens ==
  ASSUME NEW s, NEW m, Confirms(m),
         IF ByAddress THEN s.pending /\ s.session = 1 ELSE s.r = Join(1).state
  PROVE  LET r == Answering(s, m)
         IN  /\ m.p = First(0) /\ m.p \in PacketSet /\ r \in Ratchet /\ (m.e2e => s.pending)
             /\ Decrypt(r, m.p).ok /\ Decrypt(r, m.p).state \in Ratchet /\ Accepted(Decrypt(r, m.p).state)
<1>0. PICK r : r = Answering(s, m)
  OBVIOUS
<1>1. m.p = First(0) /\ m.p \in PacketSet /\ m.e2e = ByAddress
  BY FirstFits DEF Confirms
<1>2. m.p.hk = FirstHK /\ m.p.dh = Theirs(1, 3) /\ m.p.key = Chain(FirstRoot)
  BY <1>1, FirstIs, Unlike
<1>3. FirstHK # NoHeaderKey /\ Advanced(Chain(FirstRoot)) = Link(FirstRoot, 1)
  <2>1. Chain(FirstRoot) = Link(FirstRoot, 0) /\ Advanced(Link(FirstRoot, 0)) = Link(FirstRoot, 0 + 1)
    BY Unlike
  <2> QED
    BY <2>1, Unlike DEF FirstHK
<1>4. CASE ByAddress
  <2>1. m.what[2] = 1 /\ m.e2e
    BY <1>1, <1>4 DEF Confirms
  <2>2. r = ReceivingRatchet(PeerJoins, Mine(1, 2))
    BY <1>0, <1>4, <2>1, Agreement DEF Answering
  <2>3. /\ r \in Ratchet /\ r.own = Mine(1, 2) /\ r.root = PeerJoins /\ r.sending = NoChain
        /\ r.nextSendHK = OurHK /\ r.recvHK = NoHeaderKey /\ r.nextRecvHK = FirstHK
    <3>1. r \in Ratchet
      BY <2>2, StartFits, Roots, KeysFit
    <3>2. /\ r.own = Mine(1, 2) /\ r.root = PeerJoins /\ r.sending = NoChain
          /\ r.nextSendHK = HeaderKey(PeerJoins, "receiveNext") /\ r.recvHK = NoHeaderKey
          /\ r.nextRecvHK = HeaderKey(PeerJoins, "send")
      BY <2>2, IsJoinedWith
    <3> QED
      BY <1>4, <3>1, <3>2 DEF OurHK, FirstHK
  <2>4. Append(r.root, DH(m.p.dh, r.own)) = FirstRoot
    BY <1>2, <1>4, <2>3 DEF FirstRoot
  <2>5. Decrypt(r, m.p).ok /\ Accepted(Decrypt(r, m.p).state)
    <3>1. r.recvHK # m.p.hk
      BY <1>2, <1>3, <2>3
    <3>2. PICK d : d = Decrypt(r, m.p)
      OBVIOUS
    <3>3. PICK p, root : p = m.p /\ root = FirstRoot
      OBVIOUS
    <3>4. /\ r \in Ratchet /\ p \in PacketSet /\ r.recvHK # p.hk /\ p.hk = r.nextRecvHK /\ p.dh = Theirs(1, 3)
          /\ p.key = Chain(root) /\ Append(r.root, DH(p.dh, r.own)) = root /\ d = Decrypt(r, p)
      BY <1>1, <1>2, <2>3, <2>4, <3>1, <3>2, <3>3
    <3>5. /\ d.ok /\ SameSending(r, d.state) /\ d.state.root = root /\ d.state.remote = p.dh
          /\ d.state.receiving = Advanced(Chain(root)) /\ d.state.recvHK = p.hk
          /\ d.state.nextRecvHK = HeaderKey(root, "next")
      BY <3>4, ReadsNew
    <3>6. /\ d.state.receiving = Link(FirstRoot, 1) /\ d.state.recvHK = FirstHK
          /\ d.state.nextRecvHK = SecondHK
      BY <1>2, <1>3, <3>3, <3>5 DEF SecondHK
    <3> QED
      BY <1>4, <2>3, <3>2, <3>3, <3>4, <3>5, <3>6 DEF Accepted, SameSending
  <2>6. Decrypt(r, m.p).state \in Ratchet
    BY <1>1, <2>3, DecryptFits
  <2> QED
    BY <1>0, <1>1, <1>4, <2>3, <2>5, <2>6
<1>5. CASE ~ByAddress
  <2>1. r = Join(1).state
    BY <1>0, <1>1, <1>5 DEF Answering
  <2>2. /\ r \in Ratchet /\ r.own = Mine(1, 3) /\ r.root = JoinRoot
        /\ r.recvHK = NoHeaderKey /\ r.nextRecvHK = FirstHK
    BY <1>5, <2>1, WeAsk DEF FirstHK
  <2>3. Append(r.root, DH(m.p.dh, r.own)) = FirstRoot
    BY <1>2, <1>5, <2>2 DEF FirstRoot
  <2>4. Decrypt(r, m.p).ok /\ Accepted(Decrypt(r, m.p).state)
    <3>1. r.recvHK # m.p.hk
      BY <1>2, <1>3, <2>2
    <3>2. PICK d : d = Decrypt(r, m.p)
      OBVIOUS
    <3>3. PICK p, root : p = m.p /\ root = FirstRoot
      OBVIOUS
    <3>4. /\ r \in Ratchet /\ p \in PacketSet /\ r.recvHK # p.hk /\ p.hk = r.nextRecvHK /\ p.dh = Theirs(1, 3)
          /\ p.key = Chain(root) /\ Append(r.root, DH(p.dh, r.own)) = root /\ d = Decrypt(r, p)
      BY <1>1, <1>2, <2>2, <2>3, <3>1, <3>2, <3>3
    <3>5. /\ d.ok /\ SameSending(r, d.state) /\ d.state.remote = p.dh
          /\ d.state.receiving = Advanced(Chain(root)) /\ d.state.recvHK = p.hk
          /\ d.state.nextRecvHK = HeaderKey(root, "next")
      BY <3>4, ReadsNew
    <3>6. /\ d.state.receiving = Link(FirstRoot, 1) /\ d.state.recvHK = FirstHK
          /\ d.state.nextRecvHK = SecondHK
      BY <1>2, <1>3, <3>3, <3>5 DEF SecondHK
    <3> QED
      BY <1>5, <2>1, <3>2, <3>3, <3>4, <3>5, <3>6 DEF Accepted
  <2>5. Decrypt(r, m.p).state \in Ratchet
    BY <1>1, <2>2, DecryptFits
  <2> QED
    BY <1>0, <1>1, <1>5, <2>2, <2>4, <2>5
<1> QED
  BY <1>4, <1>5

-----------------------------------------------------------------------------
(* What a step leaves as it is.                                            *)

LEMMA OneSession ==
  ASSUME Once
  PROVE  Session = {1} /\ 1 \in Session /\ 1 \in Nat /\ \A n \in Count : n # 0 => n = 1
  BY DEF Once, Session, Count

LEMMA KindStays ==
  ASSUME contact'.kind = contact.kind
  PROVE  /\ ByAddress' = ByAddress /\ FirstRoot' = FirstRoot /\ FirstHK' = FirstHK
         /\ SecondHK' = SecondHK /\ OurHK' = OurHK
         /\ \A k : First(k)' = First(k)
         /\ \A m : Confirms(m)' <=> Confirms(m)
<1>1. ByAddress' = ByAddress
  BY DEF ByAddress
<1>2. FirstRoot' = FirstRoot /\ FirstHK' = FirstHK /\ OurHK' = OurHK
  BY <1>1 DEF FirstRoot, FirstHK, OurHK
<1>3. SecondHK' = SecondHK
  BY <1>2 DEF SecondHK
<1>4. \A k : First(k)' = First(k)
  BY <1>2 DEF First
<1>5. \A m : Confirms(m)' <=> Confirms(m)
  BY <1>1, <1>4 DEF Confirms
<1> QED
  BY <1>1, <1>2, <1>3, <1>4, <1>5

\* Our chain stays, wherever on it we are.
Keeps(r, t) ==
  /\ t.own = r.own /\ t.sendHK = r.sendHK /\ t.sending.root = r.sending.root
  /\ r.sending # NoChain => t.sending # NoChain

LEMMA ChainKept ==
  ASSUME contact'.kind = contact.kind, Keeps(Ours, Ours')
  PROVE  /\ SendsOn => SendsOn'
         /\ \A o : OfOurs(o) => OfOurs(o)'
<1>1. SendsOn => SendsOn'
  BY KindStays DEF SendsOn, Keeps
<1>2. \A o : OfOurs(o) => OfOurs(o)'
  BY <1>1, KindStays DEF OfOurs, Keeps
<1> QED
  BY <1>1, <1>2

LEMMA PeerKept ==
  ASSUME contact'.kind = contact.kind, Keeps(Ours, Ours'), Peer' = Peer
  PROVE  /\ PeerInv => PeerInv'
         /\ Turn' = Turn /\ SecondRoot' = SecondRoot /\ \A k : Posted(k)' = Posted(k)
<1>1. Turn' = Turn
  BY DEF Turn
<1>2. SecondRoot' = SecondRoot
  BY DEF SecondRoot, Keeps
<1>3. \A k : Posted(k)' = Posted(k)
  BY <1>1, <1>2, KindStays DEF Posted, Second
<1>4. (Unread' <=> Unread) /\ (OnFirst' <=> OnFirst)
  BY KindStays DEF Unread, OnFirst
<1>5. (LeftFirst => LeftFirst') /\ (Reads => Reads')
  BY KindStays DEF LeftFirst, Reads, Keeps
<1>6. OnSecond => OnSecond'
  BY <1>1, <1>2, KindStays DEF OnSecond
<1>7. PeerInv => PeerInv'
  BY <1>4, <1>5, <1>6, KindStays DEF PeerInv
<1> QED
  BY <1>1, <1>2, <1>3, <1>7

\* A step that leaves both ratchets and the queue: what it may do to a call, and
\* to what is on its way to the peer.
MovesOn(c) ==
  \/ call'[c] = call[c]
  \/ /\ ~At(c, "informing") /\ ~At(c, "informing")' /\ Busy(c)' /\ (OutInv => Sends(c)')
     /\ Free(c)' \/ (Holding(c)' /\ \A d \in Call \ {c} : Free(d) /\ call'[d] = call[d])
Leaves        == UNCHANGED <<contact, stored, received, inbox, peer, secured>> /\ keys' \in Nat /\ keys' >= keys
OutGrows ==
  /\ contact.state = "none" => outbox' = {} /\ tasks' = {}
  /\ contact.state = "requested" => \A t \in tasks' : t.type # "ack"
  /\ OutInv => OutboxInv'

LEMMA LeavesIs ==
  ASSUME Once, TInv, Leaves
  PROVE  /\ Ours' = Ours /\ Peer' = Peer /\ Queue' = Queue /\ Keeps(Ours, Ours') /\ contact'.kind = contact.kind
         /\ Got' = Got /\ Opening' = Opening
         /\ keys \in Nat /\ 0 .. keys \subseteq 0 .. keys' /\ 1 .. keys \subseteq 1 .. keys'
         /\ (secured[1] <= keys => secured'[1] <= keys')
<1>1. Ours' = Ours /\ Peer' = Peer /\ Queue' = Queue /\ Keeps(Ours, Ours') /\ contact'.kind = contact.kind
  BY DEF Ours, Peer, Queue, Keeps, Leaves
<1>2. Got' = Got /\ Opening' = Opening
  BY <1>1 DEF Got, Passed, Known, Opening, Answering, Leaves
<1>3. keys \in Nat /\ 0 .. keys \subseteq 0 .. keys' /\ 1 .. keys \subseteq 1 .. keys'
  BY DEF TInv, LogInv, Leaves
<1>4. secured[1] <= keys => secured'[1] <= keys'
  BY <1>3, OneSession DEF TInv, ServerInv, Leaves
<1> QED
  BY <1>1, <1>2, <1>3, <1>4

LEMMA StepMovesOn ==
  ASSUME Once, TInv, HInv, Leaves, OutGrows, \A c \in Call : MovesOn(c)
  PROVE  HInv'
<1>1. /\ Ours' = Ours /\ Peer' = Peer /\ Queue' = Queue /\ Keeps(Ours, Ours') /\ contact'.kind = contact.kind
      /\ Got' = Got /\ contact' = contact
  BY LeavesIs DEF Leaves
<1>2. BlankInv'
  BY <1>1 DEF HInv, BlankInv, OutGrows, Leaves
<1>3. WaitInv'
  BY <1>1 DEF HInv, WaitInv, OutGrows, Leaves, ByAddress
<1>4. BusyInv'
  BY <1>1 DEF HInv, BusyInv, Busy, MovesOn
<1>5. \A d \in Call : ~Free(d)' => /\ call'[d] = call[d] => ~Free(d)
                                   /\ call'[d] # call[d] => /\ Holding(d)'
                                                            /\ \A a \in Call \ {d} : Free(a) /\ call'[a] = call[a]
  BY DEF MovesOn, Free
<1>6. HoldInv'
  <2> SUFFICES ASSUME NEW d \in Call, ~Free(d)' PROVE Holding(d)' /\ \A a \in Call \ {d} : Free(a)'
    BY DEF HoldInv
  <2>1. CASE call'[d] = call[d]
    <3>1. ~Free(d) /\ Holding(d) /\ \A a \in Call \ {d} : Free(a)
      BY <1>5, <2>1 DEF HInv, HoldInv
    <3>2. Holding(d)'
      BY <1>1, <2>1, <3>1, LeavesIs DEF Holding, At, Leaves, ByAddress
    <3>3. \A a \in Call \ {d} : Free(a)'
      BY <1>5, <3>1
    <3> QED
      BY <3>2, <3>3
  <2>2. CASE call'[d] # call[d]
    BY <1>5, <2>2 DEF Free
  <2> QED
    BY <2>1, <2>2
<1>7. Stuck' <=> Stuck
  <2>1. \A d \in Call : At(d, "informing")' <=> At(d, "informing")
    BY DEF At, MovesOn
  <2> QED
    BY <1>1, <2>1 DEF Stuck, ByAddress, Leaves
<1>8. AcceptedInv'
  <2>1. (ReadsFirst' <=> ReadsFirst) /\ (SendsNew' <=> SendsNew) /\ (SendsOn' <=> SendsOn)
    BY <1>1, KindStays, PeerKept DEF ReadsFirst, SendsNew, SendsOn
  <2>2. ReadsSecond' <=> ReadsSecond
    BY <1>1, <2>1, KindStays, PeerKept DEF ReadsSecond
  <2> QED
    BY <1>1, <2>1, <2>2 DEF HInv, AcceptedInv, Leaves
<1>9. TogetherInv'
  <2>1. OutInv => OutInv'
    <3>1. \A d \in Call : OutInv => Sends(d)'
      BY <1>1, ChainKept DEF Sends, MovesOn, OutInv
    <3> QED
      BY <3>1 DEF OutInv, OutGrows
  <2>2. SyncInv => SyncInv'
    BY <1>1, PeerKept DEF SyncInv, Line, Number
  <2> QED
    BY <1>1, <1>7, <2>1, <2>2 DEF HInv, TogetherInv
<1>10. (contact'.state # "none" => ConfirmInv') /\ secured'[1] <= keys'
  BY <1>1, KindStays, LeavesIs DEF HInv, ConfirmInv
<1> QED
  BY <1>2, <1>3, <1>4, <1>6, <1>8, <1>9, <1>10 DEF HInv

LEMMA Turns ==
  ASSUME TInv, NEW c \in Call, NEW k, call' = [call EXCEPT ![c] = k]
  PROVE  call'[c] = k /\ \A d \in Call \ {c} : call'[d] = call[d]
  BY DEF TInv, CallsInv

\* A call is begun, ends, or gives up what it had in hand.
LEMMA QuietHead ==
  ASSUME Once, TInv, HInv, NEW c \in Call,
         UNCHANGED <<contact, stored, received, servers, keys, tasks>>,
         ~At(c, "informing"),
         \/ End(c)
         \/ \E k : /\ call' = [call EXCEPT ![c] = k]
                   /\ \/ k.step = "creating"
                      \/ k.step \in {"accepting", "receiving"} /\ k.contact = contact
                         /\ contact.state # "none" /\ (k.step = "receiving" => contact.state = "active")
                      \/ k.step = "acking" /\ contact.state \in {"active", "suspended"}
  PROVE  HInv'
<1>1. Leaves
  BY DEF Leaves, servers, TInv, LogInv
<1>2. OutGrows
  <2>1. OutboxInv => OutboxInv'
    BY DEF OutboxInv, OfOurs, servers, ByAddress, SendsOn, FirstRoot, OurHK, Ours
  <2> QED
    BY <2>1 DEF OutGrows, HInv, BlankInv, WaitInv, OutInv, servers
<1>3. PICK k : /\ call' = [call EXCEPT ![c] = k]
               /\ \/ k.step \in {"idle", "creating"}
                  \/ k.step \in {"accepting", "receiving"} /\ k.contact = contact
                     /\ contact.state # "none" /\ (k.step = "receiving" => contact.state = "active")
                  \/ k.step = "acking" /\ contact.state \in {"active", "suspended"}
  BY EndsWith DEF End
<1>4. call'[c] = k /\ \A d \in Call \ {c} : call'[d] = call[d]
  BY <1>3, Turns
<1>5. Free(c)' /\ Busy(c)' /\ Sends(c)' /\ ~At(c, "informing")'
  BY <1>3, <1>4 DEF Free, HoldSteps, Busy, Sends, At
<1>6. \A d \in Call : MovesOn(d)
  BY <1>4, <1>5 DEF MovesOn
<1> QED
  BY <1>1, <1>2, <1>6, StepMovesOn

LEMMA BeginHead ==
  ASSUME Once, TInv, HInv, NEW c \in Call, BeginRequest(c) \/ Throws(c) \/ BeginAccept(c) \/ BeginReceive(c)
  PROVE  HInv'
<1>1. UNCHANGED <<contact, stored, received, servers, keys, tasks>>
  BY DEF BeginRequest, Throws, BeginAccept, BeginReceive, counters
<1>2. call[c].step # "informing"
  BY DEF BeginRequest, Throws, BeginAccept, BeginReceive, At
<1> DEFINE k1 == [IdleCall EXCEPT !.step = "creating", !.n = requests + 1]
           k2 == [IdleCall EXCEPT !.step = "accepting", !.n = contact.session, !.contact = contact]
           k3 == [IdleCall EXCEPT !.step = "receiving", !.n = contact.session, !.contact = contact]
<1>3. k1.step = "creating" /\ k2.step = "accepting" /\ k3.step = "receiving" /\ k2.contact = contact /\ k3.contact = contact
  BY DEF IdleCall
<1>4. \/ End(c)
      \/ call' = [call EXCEPT ![c] = k1]
      \/ call' = [call EXCEPT ![c] = k2] /\ contact.state \in {"requested", "active"}
      \/ call' = [call EXCEPT ![c] = k3] /\ contact.state = "active"
  BY DEF BeginRequest, Throws, BeginAccept, BeginReceive
<1> HIDE DEF k1, k2, k3
<1>5. \/ End(c)
      \/ \E k : /\ call' = [call EXCEPT ![c] = k]
                /\ \/ k.step = "creating"
                   \/ k.step \in {"accepting", "receiving"} /\ k.contact = contact
                      /\ contact.state # "none" /\ (k.step = "receiving" => contact.state = "active")
                   \/ k.step = "acking" /\ contact.state \in {"active", "suspended"}
  BY <1>3, <1>4
<1> QED
  BY <1>1, <1>2, <1>5, QuietHead DEF At

\* A packet of ours is one step further: delivered, or in a task.
LEMMA SendEndsHead ==
  ASSUME Once, TInv, HInv, NEW c \in Call, SendEnds(c)
  PROVE  HInv'
<1>1. Leaves
  BY DEF SendEnds, Leaves, TInv, LogInv
<1> DEFINE o == call[c].sent
<1>2. /\ call[c].step \in {"confirming", "sending", "receipting"} /\ End(c)
      /\ outbox' \subseteq outbox \cup {o} /\ tasks' \subseteq tasks \cup {[type |-> "packet", o |-> o]}
  BY DEF SendEnds, Delivered, TaskFor
<1>3. contact.state # "none" /\ (OutInv => OfOurs(o))
  BY <1>2 DEF HInv, BusyInv, Busy, OutInv, Sends
<1>4. \A x : OfOurs(x) => OfOurs(x)'
  BY <1>1, LeavesIs, ChainKept
<1> HIDE DEF o
<1>5. OutInv => OutboxInv'
  <2>1. SUFFICES ASSUME OutInv PROVE OutboxInv'
    OBVIOUS
  <2>2. \A x \in outbox' : x \in outbox \/ x = o
    BY <1>2
  <2>3. \A t \in tasks' : t \in tasks \/ t.o = o
    BY <1>2
  <2> QED
    BY <1>3, <1>4, <2>1, <2>2, <2>3 DEF OutboxInv, OutInv
<1>6. OutGrows
  <2>1. \A t \in tasks' : t \in tasks \/ t.type = "packet"
    BY <1>2
  <2> QED
    BY <1>3, <1>5, <2>1 DEF OutGrows, HInv, WaitInv
<1>7. \A d \in Call : MovesOn(d)
  <2>1. call'[c] = IdleCall /\ \A d \in Call \ {c} : call'[d] = call[d]
    BY <1>2, Turns DEF End
  <2>2. Free(c)' /\ Busy(c)' /\ Sends(c)' /\ ~At(c, "informing")'
    BY <2>1, EndsWith DEF Free, HoldSteps, Busy, Sends, At
  <2> QED
    BY <1>2, <2>1, <2>2 DEF MovesOn, At
<1> QED
  BY <1>1, <1>6, <1>7, StepMovesOn

\* A task that is carried out, when it is a packet of ours.
LEMMA PacketHead ==
  ASSUME Once, TInv, HInv, NEW t \in tasks, Drain(t), t.type = "packet"
  PROVE  HInv'
<1>1. Leaves
  BY DEF Drain, Leaves, TInv, LogInv
<1>2. outbox' = outbox \cup {t.o} /\ tasks' = tasks \ {t} /\ call' = call
  BY DEF Drain
<1>3. \A x : OfOurs(x) => OfOurs(x)'
  BY <1>1, LeavesIs, ChainKept
<1>4. OutInv => OutboxInv'
  BY <1>2, <1>3 DEF OutInv, OutboxInv
<1>5. OutGrows
  BY <1>2, <1>4 DEF OutGrows, HInv, BlankInv, WaitInv
<1>6. \A d \in Call : MovesOn(d)
  BY <1>2 DEF MovesOn
<1> QED
  BY <1>1, <1>5, <1>6, StepMovesOn

\* Once the contact has one, every copy of a session is that of the one request.
LEMMA OnlyOne ==
  ASSUME Once, TInv
  PROVE  /\ contact.state # "none" => contact.session = 1 /\ stored.session = 1
         /\ requests <= 1
         /\ \A c \in Call : call[c].n \in Session => call[c].n = 1
         /\ \A c \in Call : call[c].contact.session \in Session => call[c].contact.session = 1
         /\ \A n \in Session : n = 1
<1>1. stored.session \in Count
  BY DEF TInv, StoreInv, RecordSet
<1>2. requests <= 1
  BY DEF TInv, LogInv, Count, Once
<1> QED
  BY <1>1, <1>2, OneSession DEF TInv, StoreInv

LEMMA QueueIs ==
  ASSUME Once, TInv, LineInv
  PROVE  /\ Queue \in Seq(Post) /\ Len(Queue) \in Nat /\ Peer.sent \in Nat /\ Peer.r \in Ratchet /\ Peer.up \in BOOLEAN
         /\ \A i \in 1 .. Len(Queue) : /\ Queue[i] \in Post
                                       /\ Number(Queue[i]) + Len(Queue) = Peer.sent + i
                                       /\ Number(Queue[i]) \in 0 .. Peer.sent
         /\ ~Peer.up => Queue = <<>> /\ Peer.sent = 0
         /\ Queue # <<>> => Len(Queue) > 0 /\ Head(Queue) = Queue[1] /\ Peer.up
<1>1. Queue \in Seq(Post) /\ Len(Queue) \in Nat /\ Peer \in PeerSet
  BY OneSession, LenProperties DEF TInv, ServerInv, Queue, Peer
<1>2. Peer.sent \in Nat /\ Peer.r \in Ratchet /\ Peer.up \in BOOLEAN
  BY <1>1 DEF PeerSet
<1>3. /\ ~Peer.up => Queue = <<>> /\ Peer.sent = 0
      /\ \A i \in 1 .. Len(Queue) : Number(Queue[i]) + Len(Queue) = Peer.sent + i
  BY OneSession DEF LineInv, Queue, Peer
<1>4. ASSUME NEW i \in 1 .. Len(Queue) PROVE Queue[i] \in Post /\ Number(Queue[i]) \in 0 .. Peer.sent
  <2>1. Queue[i] \in Post
    BY <1>1, <1>4, ElementOfSeq
  <2>2. Number(Queue[i]) \in Nat
    BY <2>1 DEF Post, FromPeer, Number, Triple
  <2> QED
    BY <1>1, <1>2, <1>3, <2>1, <2>2
<1>5. Queue # <<>> => Len(Queue) > 0 /\ Head(Queue) = Queue[1]
  BY <1>1, EmptySeq, HeadTailProperties
<1> QED
  BY <1>1, <1>2, <1>3, <1>4, <1>5

\* The one request.
LEMMA QueueCreatedHead ==
  ASSUME Once, TInv, TInv', QInv, OInv, HInv, NEW c \in Call, QueueCreated(c)
  PROVE  HInv'
<1>1. UNCHANGED <<tasks, servers, keys>> /\ At(c, "creating")
  BY DEF QueueCreated
<1>2. contact.state = "none" /\ tasks = {} /\ outbox = {} /\ ~Peer.up /\ secured[1] = 0
  <2>1. stored.session = 0
    BY <1>1, OnlyOne DEF OInv
  <2> QED
    BY <2>1 DEF TInv, StoreInv, HInv, BlankInv
<1>3. PICK kind, p :
        /\ contact' = [state |-> "requested", kind |-> kind, session |-> call[c].n, key |-> 0]
        /\ call' = [call EXCEPT ![c].step = "confirming", ![c].sent = Outgoing(call[c].n, 0, <<kind, call[c].n>>, p)]
        /\ \/ kind = "address" /\ stored' = Record(TRUE, call[c].n, NoRatchet, 0)
           \/ kind = "join" /\ p = Join(call[c].n).packet /\ stored' = Record(FALSE, call[c].n, Join(call[c].n).state, 0)
  BY DEF QueueCreated
<1>4. call[c].n = 1
  BY <1>1, OneSession DEF TInv, CallsInv, Fits, At
<1>5. /\ contact'.state = "requested" /\ contact'.kind = kind
      /\ call'[c].step = "confirming" /\ call'[c].sent.what[1] = kind /\ call'[c].sent.p = p
      /\ \A d \in Call \ {c} : call'[d] = call[d] /\ call[d].step \in {"idle", "creating"}
  <2>1. call[c] \in CallSet /\ DOMAIN call = Call
    BY DEF TInv, CallsInv, Fits
  <2>2. PICK o : o = Outgoing(call[c].n, 0, <<kind, call[c].n>>, p)
    OBVIOUS
  <2>3. o.what[1] = kind /\ o.p = p
    BY <2>2 DEF Outgoing
  <2>4. call' = [call EXCEPT ![c] = [call[c] EXCEPT !.step = "confirming", !.sent = o]]
    BY <1>3, <2>2
  <2>5. call'[c] = [call[c] EXCEPT !.step = "confirming", !.sent = o] /\ \A d \in Call \ {c} : call'[d] = call[d]
    BY <2>1, <2>4
  <2>6. call'[c].step = "confirming" /\ call'[c].sent = o
    BY <2>1, <2>5 DEF CallSet
  <2>7. \A d \in Call : call[d].step \in {"idle", "creating"}
    BY <1>2 DEF HInv, BusyInv, Busy
  <2> QED
    BY <1>3, <2>3, <2>5, <2>6, <2>7
<1>6. Peer' = Peer /\ Queue' = Queue /\ Queue = <<>> /\ Len(Queue) = 0 /\ ~Peer.up
  <2>1. Queue = <<>>
    BY <1>2, QueueIs DEF QInv
  <2> QED
    BY <1>1, <1>2, <2>1, EmptySeq DEF Peer, Queue, servers
<1>7. BlankInv' /\ AcceptedInv' /\ ConfirmInv' /\ secured'[1] <= keys'
  BY <1>1, <1>2, <1>5, <1>6 DEF BlankInv, AcceptedInv, ConfirmInv, HInv, servers
<1>8. WaitInv'
  <2>1. /\ stored'.session = 1 /\ stored'.next = 0
        /\ IF kind = "address" THEN stored' = Record(TRUE, 1, NoRatchet, 0) ELSE stored' = Record(FALSE, 1, Join(1).state, 0)
    BY <1>3, <1>4 DEF Record
  <2> QED
    BY <1>1, <1>2, <1>5, <1>6, <2>1 DEF WaitInv, ByAddress, servers, Join
<1>9. BusyInv' /\ HoldInv'
  <2>1. \A d \in Call : Busy(d)' /\ Free(d)'
    BY <1>5 DEF Busy, Free, HoldSteps
  <2> QED
    BY <2>1 DEF BusyInv, HoldInv
<1>10. TogetherInv'
  <2>1. OfOurs(call[c].sent)'
    <3>1. CASE kind = "address"
      BY <1>5, <3>1 DEF OfOurs, ByAddress
    <3>2. CASE kind = "join"
      <4>1. p = Join(1).packet /\ Ours' = Join(1).state
        BY <1>3, <1>4, <3>2 DEF Ours, Record
      <4>2. ByAddress' = FALSE
        BY <1>5, <3>2 DEF ByAddress
      <4>3. Ours'.sending # NoChain /\ Ours'.sending.root = JoinRoot
        BY <4>1, WeAsk, Roots, Unlike DEF Link
      <4>4. SendsOn'
        BY <4>1, <4>2, <4>3, WeAsk DEF SendsOn, OurHK, JoinRoot, WeJoin
      <4>5. p.hk = OurHK' /\ p.dh = Ours'.own /\ p.key.root = Ours'.sending.root
        BY <4>1, <4>2, <4>3, WeAsk DEF OurHK, Link, WeJoin
      <4> QED
        BY <1>5, <3>2, <4>1, <4>2, <4>4, <4>5 DEF OfOurs, Join
    <3> QED
      BY <1>3, <3>1, <3>2
  <2>2. \A d \in Call : Sends(d)'
    BY <1>5, <2>1 DEF Sends
  <2>3. OutInv' /\ SyncInv'
    BY <1>1, <1>2, <1>6, <2>2 DEF OutInv, OutboxInv, SyncInv, servers
  <2> QED
    BY <2>3 DEF TogetherInv
<1> QED
  BY <1>7, <1>8, <1>9, <1>10 DEF HInv

-----------------------------------------------------------------------------
(* The peer answers, sends and reads.                                      *)

\* It has joined, to our address.
LEMMA PeerJoined ==
  LET e == Encrypt(SendingRatchet(PeerJoins, Theirs(1, 3), Mine(1, 2)), NoKey)
      root == Append(PeerJoins, DH(Theirs(1, 3), Mine(1, 2)))
  IN  /\ e.packet = [hk |-> HeaderKey(PeerJoins, "send"), dh |-> Theirs(1, 3), key |-> Link(root, 0)]
      /\ e.state.own = Theirs(1, 3) /\ e.state.root = root
      /\ e.state.sending = Link(root, 1) /\ e.state.sendHK = HeaderKey(PeerJoins, "send")
      /\ e.state.nextSendHK = HeaderKey(root, "next")
      /\ e.state.receiving = NoChain /\ e.state.recvHK = NoHeaderKey
      /\ e.state.nextRecvHK = HeaderKey(PeerJoins, "receiveNext")
<1> DEFINE root == Append(PeerJoins, DH(Theirs(1, 3), Mine(1, 2)))
<1>1. PICK r : r = SendingRatchet(PeerJoins, Theirs(1, 3), Mine(1, 2))
  OBVIOUS
<1>2. r \in Ratchet /\ root # <<>>
  <2>1. Theirs(1, 3) \in KeySet /\ Mine(1, 2) \in KeySet
    BY KeysFit
  <2>2. r \in Ratchet
    BY <1>1, <2>1, Roots, StartFits
  <2> QED
    BY <2>1, <2>2, Roots, RootGrows
<1>3. /\ r.own = Theirs(1, 3) /\ r.root = root /\ r.sending = Chain(root)
      /\ r.sendHK = HeaderKey(PeerJoins, "send") /\ r.nextSendHK = HeaderKey(root, "next")
      /\ r.receiving = NoChain /\ r.recvHK = NoHeaderKey
      /\ r.nextRecvHK = HeaderKey(PeerJoins, "receiveNext")
  BY <1>1, JoinsWith
<1> HIDE DEF root
<1>4. r.sending = Link(root, 0) /\ r.sending # NoChain /\ Advanced(r.sending) = Link(root, 0 + 1)
  BY <1>2, <1>3, Unlike
<1>5. LET e == Encrypt(r, NoKey)
      IN  /\ e.packet = [hk |-> HeaderKey(PeerJoins, "send"), dh |-> Theirs(1, 3), key |-> Link(root, 0)]
          /\ e.state.own = Theirs(1, 3) /\ e.state.root = root
          /\ e.state.sending = Link(root, 1) /\ e.state.sendHK = HeaderKey(PeerJoins, "send")
          /\ e.state.nextSendHK = HeaderKey(root, "next")
          /\ e.state.receiving = NoChain /\ e.state.recvHK = NoHeaderKey
          /\ e.state.nextRecvHK = HeaderKey(PeerJoins, "receiveNext")
  BY <1>2, <1>3, <1>4, SealsOn DEF SameReceiving
<1> QED
  BY <1>1, <1>5 DEF root

\* It has read our request to join, and answered.
LEMMA PeerIsJoined ==
  LET d == Decrypt(ReceivingRatchet(WeJoin, Theirs(1, 2)), Join(1).packet)
      e == Encrypt(d.state, Theirs(1, 3))
      root == Append(JoinRoot, DH(Theirs(1, 3), Mine(1, 3)))
  IN  /\ e.packet = [hk |-> HeaderKey(WeJoin, "receiveNext"), dh |-> Theirs(1, 3), key |-> Link(root, 0)]
      /\ e.state.own = Theirs(1, 3)
      /\ e.state.sending = Link(root, 1) /\ e.state.sendHK = HeaderKey(WeJoin, "receiveNext")
      /\ e.state.nextSendHK = HeaderKey(root, "next")
      /\ e.state.recvHK = HeaderKey(WeJoin, "send") /\ e.state.receiving.root = JoinRoot
      /\ e.state.remote = Mine(1, 3)
<1> DEFINE root == Append(JoinRoot, DH(Theirs(1, 3), Mine(1, 3)))
<1>1. PICK r : r = ReceivingRatchet(WeJoin, Theirs(1, 2))
  OBVIOUS
<1>2. PICK p : p = Join(1).packet
  OBVIOUS
<1>3. PICK d : d = Decrypt(r, p)
  OBVIOUS
<1>4. r \in Ratchet /\ p \in PacketSet /\ d.state \in Ratchet
  <2>1. Theirs(1, 2) \in KeySet
    BY KeysFit
  <2>2. r \in Ratchet /\ p \in PacketSet
    BY <1>1, <1>2, <2>1, Roots, StartFits, WeAsk
  <2> QED
    BY <1>3, <2>2, DecryptFits
<1>5. /\ r.own = Theirs(1, 2) /\ r.root = WeJoin /\ r.sending = NoChain
      /\ r.nextSendHK = HeaderKey(WeJoin, "receiveNext") /\ r.recvHK = NoHeaderKey
  BY <1>1, IsJoinedWith
<1>6. p.hk = HeaderKey(WeJoin, "send") /\ p.dh = Mine(1, 3) /\ p.hk # NoHeaderKey
  <2>1. p.hk = HeaderKey(WeJoin, "send") /\ p.dh = Mine(1, 3)
    BY <1>2, WeAsk
  <2> QED
    BY <2>1, Unlike
<1>7. Append(r.root, DH(p.dh, r.own)) = JoinRoot
  BY <1>5, <1>6 DEF JoinRoot
<1>8. /\ d.state.own = Theirs(1, 2) /\ d.state.root = JoinRoot /\ d.state.sending = NoChain
      /\ d.state.nextSendHK = HeaderKey(WeJoin, "receiveNext")
      /\ d.state.recvHK = HeaderKey(WeJoin, "send") /\ d.state.receiving = Advanced(Chain(JoinRoot))
      /\ d.state.remote = Mine(1, 3)
  <2>1. r.recvHK # p.hk
    BY <1>5, <1>6
  <2> QED
    BY <1>3, <1>4, <1>5, <1>6, <1>7, <2>1, ReadsNew DEF SameSending
<1>9. Append(d.state.root, DH(Theirs(1, 3), d.state.remote)) = root
  BY <1>8
<1>10. Advanced(Chain(JoinRoot)).root = JoinRoot
  BY DEF Advanced, Chain
<1>11. Chain(root) = Link(root, 0) /\ Advanced(Link(root, 0)) = Link(root, 0 + 1)
  BY Unlike
<1> HIDE DEF root
<1>12. PICK s, e : s = d.state /\ e = Encrypt(s, Theirs(1, 3))
  OBVIOUS
<1>13. /\ e.packet = [hk |-> HeaderKey(WeJoin, "receiveNext"), dh |-> Theirs(1, 3), key |-> Chain(root)]
       /\ SameReceiving(s, e.state) /\ e.state.own = Theirs(1, 3)
       /\ e.state.sending = Advanced(Chain(root)) /\ e.state.sendHK = HeaderKey(WeJoin, "receiveNext")
       /\ e.state.nextSendHK = HeaderKey(root, "next")
  <2>1. s \in Ratchet /\ s.sending = NoChain /\ s.nextSendHK = HeaderKey(WeJoin, "receiveNext")
    BY <1>4, <1>8, <1>12
  <2>2. Append(s.root, DH(Theirs(1, 3), s.remote)) = root
    BY <1>9, <1>12
  <2>3. PICK k : k = Theirs(1, 3)
    OBVIOUS
  <2>4. e = Encrypt(s, k) /\ Append(s.root, DH(k, s.remote)) = root
    BY <1>12, <2>2, <2>3
  <2>5. s \in Ratchet /\ s.sending = NoChain
    BY <2>1
  <2>6. /\ e.packet = [hk |-> s.nextSendHK, dh |-> k, key |-> Chain(root)]
        /\ SameReceiving(s, e.state) /\ e.state.own = k
        /\ e.state.sending = Advanced(Chain(root)) /\ e.state.sendHK = s.nextSendHK
        /\ e.state.nextSendHK = HeaderKey(root, "next")
    BY <2>4, <2>5, SealsNew
  <2> QED
    BY <2>1, <2>3, <2>6
<1>14. e.state.recvHK = HeaderKey(WeJoin, "send") /\ e.state.receiving.root = JoinRoot /\ e.state.remote = Mine(1, 3)
  BY <1>8, <1>10, <1>12, <1>13 DEF SameReceiving
<1>15. /\ e.packet = [hk |-> HeaderKey(WeJoin, "receiveNext"), dh |-> Theirs(1, 3), key |-> Link(root, 0)]
       /\ e.state.own = Theirs(1, 3)
       /\ e.state.sending = Link(root, 1) /\ e.state.sendHK = HeaderKey(WeJoin, "receiveNext")
       /\ e.state.nextSendHK = HeaderKey(root, "next")
       /\ e.state.recvHK = HeaderKey(WeJoin, "send") /\ e.state.receiving.root = JoinRoot
       /\ e.state.remote = Mine(1, 3)
  BY <1>11, <1>13, <1>14
<1> QED
  BY <1>1, <1>2, <1>3, <1>12, <1>15 DEF root

\* What is and what does not change for the calls, when only the peer moves.
LEMMA PeerMovesOn ==
  ASSUME Once, TInv, QInv, HInv, UNCHANGED <<contact, stored, tasks, received, call, secured, outbox, keys>>,
         Queue # <<>> => Queue' # <<>> /\ Head(Queue') = Head(Queue),
         Peer'.up, contact.state # "none", ConfirmInv',
         Queue = <<>> /\ ~Peer.up => Queue' # <<>> /\ Head(Queue').env = "confirmation",
         contact.state \in {"active", "suspended"} => ReadsFirst' \/ ReadsSecond',
         ~Stuck => SyncInv'
  PROVE  HInv'
<1>1. Ours' = Ours /\ contact'.kind = contact.kind /\ Keeps(Ours, Ours') /\ ByAddress' = ByAddress
  BY DEF Ours, Keeps, ByAddress
<1>2. Queue # <<>> => Peer.up
  BY QueueIs DEF QInv
<1>3. BlankInv'
  BY DEF BlankInv
<1>4. WaitInv'
  BY <1>1, <1>2 DEF HInv, WaitInv, ByAddress
<1>5. BusyInv'
  BY DEF HInv, BusyInv, Busy
<1>6. HoldInv'
  <2> SUFFICES ASSUME NEW c \in Call, ~Free(c)' PROVE Holding(c)' /\ \A d \in Call \ {c} : Free(d)'
    BY DEF HoldInv
  <2>1. Holding(c) /\ \A d \in Call \ {c} : Free(d)
    BY DEF HInv, HoldInv, Free
  <2>2. Queue # <<>> /\ Head(Queue') = Head(Queue)
    BY <2>1 DEF HInv, WaitInv, Holding
  <2>3. Opening' = Opening
    BY <2>2 DEF Opening, Answering
  <2>4. Holding(c)'
    BY <1>1, <2>1, <2>2, <2>3 DEF Holding, At
  <2> QED
    BY <2>1, <2>4 DEF Free
<1>7. AcceptedInv'
  <2>1. (SendsNew' <=> SendsNew) /\ (SendsOn' <=> SendsOn)
    BY <1>1, KindStays DEF SendsNew, SendsOn
  <2> QED
    BY <2>1 DEF HInv, AcceptedInv
<1>8. TogetherInv'
  <2>1. Stuck' <=> Stuck
    BY <1>1 DEF Stuck, At
  <2>2. OutInv => OutInv'
    BY <1>1, ChainKept DEF OutInv, OutboxInv, Sends
  <2> QED
    BY <2>1, <2>2 DEF HInv, TogetherInv
<1> QED
  BY <1>3, <1>4, <1>5, <1>6, <1>7, <1>8 DEF HInv

LEMMA PutsIn ==
  ASSUME Once, TInv, NEW m, NEW r, NEW k, Puts(1, m, r, k)
  PROVE  /\ Queue' = Append(Queue, m) /\ Peer' = [up |-> TRUE, r |-> r, sent |-> k]
         /\ Peer'.up /\ Peer'.r = r /\ Peer'.sent = k
  BY OneSession DEF Puts, Queue, Peer, TInv, ServerInv

LEMMA PeerAnswersHead ==
  ASSUME Once, TInv, QInv, HInv, PeerAnswers(1)
  PROVE  HInv'
<1>1. ~Peer.up /\ UNCHANGED <<contact, stored, tasks, received, call, secured, outbox, keys>>
  BY DEF PeerAnswers, counters, Peer
<1>2. PICK o \in outbox :
        \/ /\ o.what[1] = "address"
           /\ \E mode, header, what :
                LET e == Encrypt(SendingRatchet(PeerJoins, Theirs(1, 3), Mine(1, 2)), NoKey)
                IN  what[1] = "reply" /\ what[2] = 1 /\ what = <<"reply", 1>>
                    /\ Puts(1, Message("confirmation", TRUE, header, mode, what, e.packet), e.state, 0)
        \/ /\ o.what[1] = "join"
           /\ LET d == Decrypt(ReceivingRatchet(WeJoin, Theirs(1, 2)), o.p)
                  e == Encrypt(d.state, Theirs(1, 3))
              IN  Puts(1, Message("confirmation", FALSE, "empty", "M", <<"info", 1>>, e.packet), e.state, 0)
  BY Agreement DEF PeerAnswers, PeerJoins
<1>3. Queue = <<>> /\ Len(Queue) = 0 /\ contact.state = "requested" /\ secured[1] = 0 /\ ~Stuck
  <2>1. contact.state # "none"
    BY <1>2 DEF HInv, BlankInv
  <2>2. contact.state = "requested"
    BY <1>1, <2>1 DEF HInv, AcceptedInv, TInv, StoreInv, ContactSet
  <2> QED
    BY <1>1, <2>2, QueueIs, EmptySeq DEF QInv, HInv, WaitInv, Stuck
<1>4. OfOurs(o)
  BY <1>2, <1>3 DEF HInv, TogetherInv, OutInv, OutboxInv
<1>5. contact'.kind = contact.kind /\ ByAddress' = ByAddress /\ Ours' = Ours
  BY <1>1 DEF ByAddress, Ours
<1>6. PICK m, r : /\ Puts(1, m, r, 0) /\ m.env = "confirmation" /\ Confirms(m)
                  /\ r.own = Theirs(1, 3) /\ r.sending = Link(FirstRoot, 1)
                  /\ r.sendHK = FirstHK /\ r.nextSendHK = SecondHK
                  /\ IF ByAddress
                     THEN /\ r.receiving = NoChain /\ r.recvHK = NoHeaderKey
                          /\ r.nextRecvHK = OurHK /\ r.root = FirstRoot
                     ELSE /\ r.recvHK = OurHK /\ r.receiving.root = Ours.sending.root
                          /\ Ours.sending # NoChain /\ r.remote = Ours.own
  <2>1. CASE o.what[1] = "address"
    <3>1. ByAddress
      BY <1>4, <2>1 DEF OfOurs
    <3>2. PICK e : e = Encrypt(SendingRatchet(PeerJoins, Theirs(1, 3), Mine(1, 2)), NoKey)
      OBVIOUS
    <3>3. PICK mode, header, what : what = <<"reply", 1>> /\ Puts(1, Message("confirmation", TRUE, header, mode, what, e.packet), e.state, 0)
      BY <1>2, <2>1, <3>2
    <3>4. PICK m : m = Message("confirmation", TRUE, header, mode, what, e.packet)
      OBVIOUS
    <3>5. m.env = "confirmation" /\ m.e2e = TRUE /\ m.what = <<"reply", 1>> /\ m.p = e.packet
      BY <3>3, <3>4 DEF Message
    <3>6. /\ e.packet = First(0)
          /\ e.state.own = Theirs(1, 3) /\ e.state.sending = Link(FirstRoot, 1)
          /\ e.state.sendHK = FirstHK /\ e.state.nextSendHK = SecondHK
          /\ e.state.receiving = NoChain /\ e.state.recvHK = NoHeaderKey
          /\ e.state.nextRecvHK = OurHK /\ e.state.root = FirstRoot
      BY <3>1, <3>2, PeerJoined DEF First, FirstRoot, FirstHK, SecondHK, OurHK
    <3>7. Confirms(m)
      BY <3>1, <3>5, <3>6 DEF Confirms
    <3> QED
      BY <3>1, <3>3, <3>4, <3>5, <3>6, <3>7
  <2>2. CASE o.what[1] = "join"
    <3>1. ~ByAddress /\ o.p = Join(1).packet
      BY <1>4, <2>2 DEF OfOurs
    <3>2. PICK e : e = Encrypt(Decrypt(ReceivingRatchet(WeJoin, Theirs(1, 2)), o.p).state, Theirs(1, 3))
      OBVIOUS
    <3>3. Puts(1, Message("confirmation", FALSE, "empty", "M", <<"info", 1>>, e.packet), e.state, 0)
      BY <1>2, <2>2, <3>2
    <3>4. PICK m : m = Message("confirmation", FALSE, "empty", "M", <<"info", 1>>, e.packet)
      OBVIOUS
    <3>5. m.env = "confirmation" /\ m.e2e = FALSE /\ m.what = <<"info", 1>> /\ m.p = e.packet
      BY <3>4 DEF Message
    <3>6. Ours.sending.root = JoinRoot /\ Ours.sending # NoChain /\ Ours.own = Mine(1, 3)
      <4>1. Ours = Join(1).state
        BY <1>3, <3>1 DEF HInv, WaitInv, Ours, Record
      <4> QED
        BY <4>1, WeAsk, Roots, Unlike DEF Link
    <3>7. /\ e.packet = First(0)
          /\ e.state.own = Theirs(1, 3) /\ e.state.sending = Link(FirstRoot, 1)
          /\ e.state.sendHK = FirstHK /\ e.state.nextSendHK = SecondHK
          /\ e.state.recvHK = OurHK /\ e.state.receiving.root = Ours.sending.root
          /\ e.state.remote = Ours.own
      BY <3>1, <3>2, <3>6, PeerIsJoined DEF First, FirstRoot, FirstHK, SecondHK, OurHK
    <3>8. Confirms(m)
      <4>1. m.e2e = ByAddress
        BY <3>1, <3>5 DEF ByAddress
      <4> QED
        BY <3>1, <3>5, <3>7, <4>1 DEF Confirms
    <3> QED
      BY <3>1, <3>3, <3>4, <3>5, <3>6, <3>7, <3>8
  <2> QED
    BY <1>2, <2>1, <2>2
<1>7. /\ Queue' = Append(Queue, m) /\ Peer'.up /\ Peer'.r = r /\ Peer'.sent = 0
  BY <1>6, PutsIn
<1>8. Len(Queue') = 1 /\ Queue'[1] = m /\ Queue' # <<>> /\ Head(Queue') = m
  <2>1. Queue' = <<m>>
    BY <1>3, <1>7
  <2> QED
    BY <2>1
<1>9. ConfirmInv'
  BY <1>5, <1>6, <1>8, KindStays DEF ConfirmInv
<1>10. PeerInv'
  <2>1. OnFirst' /\ IF ByAddress THEN Unread' ELSE Reads'
    BY <1>5, <1>6, <1>7, KindStays DEF OnFirst, Unread, Reads
  <2> QED
    BY <1>5, <2>1 DEF PeerInv
<1>11. Line'
  <2>1. Number(m) = 0 /\ m.p = First(0)
    BY <1>6 DEF Number, Confirms
  <2>2. Turn' = 0
    BY <1>6, <1>7 DEF Turn
  <2>3. Posted(0)' = First(0)
    BY <1>5, <2>2, KindStays DEF Posted
  <2> QED
    BY <1>8, <2>1, <2>3 DEF Line, Number
<1> QED
  BY <1>1, <1>3, <1>6, <1>7, <1>8, <1>9, <1>10, <1>11, PeerMovesOn DEF SyncInv

\* The line, while the peer sends on its first chain.
LEMMA FirstLine ==
  ASSUME Once, TInv, QInv, OnFirst
  PROVE  /\ Turn = Peer.sent
         /\ Line <=> \A i \in 1 .. Len(Queue) : Queue[i].p = First(Number(Queue[i]))
<1>1. Turn = Peer.sent
  BY DEF OnFirst, Turn
<1>2. \A i \in 1 .. Len(Queue) : Number(Queue[i]) <= Peer.sent
  BY QueueIs DEF QInv
<1>3. \A i \in 1 .. Len(Queue) : Posted(Number(Queue[i])) = First(Number(Queue[i]))
  BY <1>1, <1>2 DEF Posted
<1> QED
  BY <1>1, <1>3 DEF Line

\* Of a message that the peer puts into its queue: only a longer line follows.
LEMMA LineGrows ==
  ASSUME Once, TInv, QInv, NEW m, NEW k, k = Peer.sent + 1, m.env = "message", m.what[3] = k, m.p = Posted(k)',
         Queue' = Append(Queue, m), Peer.up,
         Line, \A j \in 0 .. Peer.sent : Posted(j)' = Posted(j)
  PROVE  Line'
<1>1. PICK l \in Nat : l = Len(Queue) /\ Queue \in Seq(Post)
  BY QueueIs DEF QInv
<1>2. Len(Queue') = l + 1 /\ Queue'[l + 1] = m /\ \A i \in 1 .. l : Queue'[i] = Queue[i]
  <2>1. \A q \in Seq(Post \cup {m}) : LET s == Append(q, m)
                       IN Len(s) = Len(q) + 1 /\ s[Len(q) + 1] = m /\ \A i \in 1 .. Len(q) : s[i] = q[i]
    BY AppendProperties
  <2> QED
    BY <1>1, <2>1
<1>3. \A i \in 1 .. l : Queue[i].p = Posted(Number(Queue[i])) /\ Number(Queue[i]) \in 0 .. Peer.sent
  BY <1>1, QueueIs DEF QInv, Line
<1>4. Number(m) = k
  BY DEF Number
<1>5. ASSUME NEW i \in 1 .. l + 1, NEW j, j = Number(Queue'[i]) PROVE Queue'[i].p = Posted(j)'
  <2>1. CASE i = l + 1
    BY <1>2, <1>4, <1>5, <2>1
  <2>2. CASE i \in 1 .. l
    BY <1>2, <1>3, <1>5, <2>2
  <2> QED
    BY <1>1, <2>1, <2>2
<1> QED
  BY <1>2, <1>5 DEF Line, Number

LEMMA SecondRootFits ==
  ASSUME Once, TInv
  PROVE  SecondRoot \in Root /\ SecondRoot # <<>> /\ \A k : Link(SecondRoot, k) # NoChain
<1>1. Ours \in Ratchet /\ Peer.r \in Ratchet
  BY OneSession DEF TInv, StoreInv, RecordSet, Ours, ServerInv, PeerSet, Peer
<1>2. Ours.sending.root \in Root /\ Ours.own \in KeySet /\ Peer.r.own \in KeySet
  BY <1>1 DEF Ratchet, ChainSet
<1>3. SecondRoot \in Root /\ SecondRoot # <<>>
  BY <1>2, RootGrows DEF SecondRoot
<1> QED
  BY <1>3, Unlike

\* The peer's next message, in each of its three phases.
LEMMA PeerSendsSync ==
  ASSUME Once, TInv, QInv, PeerInv, NEW e, NEW k, NEW new, k = Peer.sent + 1, new = Theirs(1, 3 + k),
         e = Encrypt(Peer.r, new), Peer'.r = e.state, Peer'.sent = k,
         UNCHANGED <<contact, stored>>
  PROVE  /\ PeerInv' /\ e.packet = Posted(k)' /\ \A j \in 0 .. Peer.sent : Posted(j)' = Posted(j)
         /\ Turn' \in Nat /\ Turn \in Nat /\ Turn' >= Turn
         /\ Peer.r.own # Theirs(1, 3) => Peer'.r.own = Peer.r.own /\ Turn' = Turn
<1>1. contact'.kind = contact.kind /\ Ours' = Ours /\ ByAddress' = ByAddress
  BY DEF Ours, ByAddress
<1>2. Peer.r \in Ratchet /\ Peer.sent \in Nat /\ k \in Nat
  BY QueueIs DEF QInv
<1>3. CASE OnFirst
  <2>1. Peer.r.sending = Link(FirstRoot, k) /\ Peer.r.sending # NoChain /\ Advanced(Peer.r.sending) = Link(FirstRoot, k + 1)
    BY <1>3, Roots, Unlike DEF OnFirst
  <2>2. /\ e.packet = [hk |-> FirstHK, dh |-> Theirs(1, 3), key |-> Link(FirstRoot, k)]
        /\ SameReceiving(Peer.r, e.state) /\ e.state.root = Peer.r.root /\ e.state.own = Theirs(1, 3)
        /\ e.state.sending = Link(FirstRoot, k + 1) /\ e.state.sendHK = FirstHK /\ e.state.nextSendHK = SecondHK
    BY <1>2, <1>3, <2>1, SealsOn DEF OnFirst
  <2>3. OnFirst'
    BY <1>1, <2>2, KindStays DEF OnFirst
  <2>4. PeerInv'
    <3>1. IF ByAddress THEN Unread ELSE Reads
      <4>1. Peer.r.sending # NoChain /\ ~LeftFirst
        BY <2>1 DEF LeftFirst
      <4>2. ~OnSecond
        <5>1. \A a \in Nat : Theirs(1, a + 4) # Theirs(1, 3)
          BY Unlike
        <5> QED
          BY <1>2, <1>3, <5>1 DEF OnSecond, OnFirst
      <4> QED
        BY <4>1, <4>2 DEF PeerInv
    <3>2. IF ByAddress' THEN Unread' ELSE Reads'
      BY <1>1, <2>2, <3>1, KindStays DEF Unread, Reads, SameReceiving
    <3> QED
      BY <2>3, <3>2 DEF PeerInv
  <2>5. Turn = Peer.sent /\ Turn' = k
    BY <1>3, <2>3 DEF Turn, OnFirst
  <2>6. Posted(k)' = First(k) /\ \A j \in 0 .. Peer.sent : Posted(j)' = First(j) /\ Posted(j) = First(j)
    BY <1>1, <1>2, <2>5, KindStays DEF Posted
  <2> QED
    BY <1>2, <1>3, <2>2, <2>4, <2>5, <2>6 DEF First, OnFirst
<1>4. CASE ByAddress /\ LeftFirst /\ Reads
  <2>1. Append(Peer.r.root, DH(new, Peer.r.remote)) = SecondRoot' /\ e.state.own = new
    <3>1. Peer.r.root = Ours.sending.root /\ Peer.r.remote = Ours.own /\ Peer.r.sending = NoChain
      BY <1>4 DEF LeftFirst, Reads
    <3>2. e.state.own = new
      BY <1>2, <3>1, SealsNew
    <3> QED
      BY <1>1, <3>1, <3>2 DEF SecondRoot
  <2>2. PICK root : root = SecondRoot'
    OBVIOUS
  <2>3. /\ e.packet = [hk |-> SecondHK, dh |-> new, key |-> Chain(root)]
        /\ SameReceiving(Peer.r, e.state)
        /\ e.state.sending = Advanced(Chain(root)) /\ e.state.sendHK = SecondHK
    <3>1. PICK r, x, f : r = Peer.r /\ x = new /\ f = e
      OBVIOUS
    <3>2. /\ r \in Ratchet /\ r.sending = NoChain /\ f = Encrypt(r, x)
          /\ Append(r.root, DH(x, r.remote)) = root
      BY <1>2, <1>4, <2>1, <2>2, <3>1 DEF LeftFirst
    <3>3. /\ f.packet = [hk |-> r.nextSendHK, dh |-> x, key |-> Chain(root)]
          /\ SameReceiving(r, f.state) /\ f.state.sending = Advanced(Chain(root)) /\ f.state.sendHK = r.nextSendHK
      BY <3>2, SealsNew
    <3> QED
      BY <1>4, <3>1, <3>3 DEF LeftFirst
  <2>4. Chain(root) = Link(root, 0) /\ Advanced(Chain(root)) = Link(root, 1)
    <3>1. Chain(root) = Link(root, 0) /\ Advanced(Link(root, 0)) = Link(root, 0 + 1)
      BY Unlike
    <3> QED
      BY <3>1
  <2>5. Turn = Peer.sent /\ Turn' = Peer.sent /\ new # Theirs(1, 3)
    <3>1. new # Theirs(1, 3) /\ new.nr = 3 + k
      BY <1>2, Unlike
    <3>2. Peer.r.own = Theirs(1, 3) /\ Peer'.r.own = new
      BY <1>4, <2>1 DEF LeftFirst
    <3> QED
      BY <1>2, <3>1, <3>2 DEF Turn
  <2>6. OnSecond'
    <3>1. k - 1 \in 0 .. k - 1 /\ new = Theirs(1, (k - 1) + 4)
      BY <1>2
    <3>2. \E a \in 0 .. k - 1 : Peer'.r.own = Theirs(1, a + 4)
      BY <2>1, <3>1
    <3>3. Peer'.r.sendHK = SecondHK' /\ Peer'.r.sending = Link(root, k - Peer.sent)
      BY <1>1, <1>2, <2>3, <2>4, KindStays
    <3> QED
      BY <2>2, <2>5, <3>2, <3>3 DEF OnSecond
  <2>7. Reads'
    BY <1>1, <1>4, <2>3, KindStays DEF Reads, SameReceiving
  <2>8. e.packet = Posted(k)'
    <3>1. Second(0)' = [hk |-> SecondHK, dh |-> new, key |-> Link(root, 0)]
      BY <1>1, <2>1, <2>2, KindStays DEF Second
    <3>2. Posted(k)' = Second(0)'
      <4>1. ~(k <= Turn') /\ k - Turn' - 1 = 0
        BY <1>2, <2>5
      <4> QED
        BY <4>1 DEF Posted
    <3> QED
      BY <2>3, <2>4, <3>1, <3>2
  <2>9. \A j \in 0 .. Peer.sent : Posted(j)' = First(j) /\ Posted(j) = First(j)
    BY <1>1, <2>5, KindStays DEF Posted
  <2>10. PeerInv'
    BY <1>1, <1>4, <2>6, <2>7 DEF PeerInv
  <2> QED
    BY <1>2, <1>4, <2>5, <2>8, <2>9, <2>10 DEF LeftFirst
<1>5. CASE ByAddress /\ OnSecond /\ Reads
  <2>1. PICK a \in 0 .. Peer.sent - 1 : Peer.r.own = Theirs(1, a + 4)
    BY <1>5 DEF OnSecond
  <2>2. Turn = a /\ Peer.r.own # Theirs(1, 3) /\ Peer.r.own.nr = a + 4
    <3>1. Peer.r.own.nr = a + 4 /\ Peer.r.own # Theirs(1, 3)
      BY <2>1, Unlike
    <3> QED
      BY <2>1, <3>1 DEF Turn
  <2>3. /\ Peer.r.sendHK = SecondHK /\ Peer.r.sending = Link(SecondRoot, Peer.sent - a) /\ Peer.r.sending # NoChain
        /\ Advanced(Peer.r.sending) = Link(SecondRoot, (Peer.sent - a) + 1)
    BY <1>5, <2>2, SecondRootFits, Unlike DEF OnSecond
  <2>4. /\ e.packet = [hk |-> SecondHK, dh |-> Peer.r.own, key |-> Link(SecondRoot, Peer.sent - a)]
        /\ SameReceiving(Peer.r, e.state) /\ e.state.own = Peer.r.own
        /\ e.state.sending = Link(SecondRoot, (Peer.sent - a) + 1) /\ e.state.sendHK = SecondHK
    BY <1>2, <2>3, SealsOn
  <2>5. Turn' = a /\ SecondRoot' = SecondRoot /\ Peer'.r.own = Peer.r.own
    BY <1>1, <2>2, <2>4 DEF Turn, SecondRoot
  <2>6. OnSecond'
    <3>1. a \in 0 .. k - 1 /\ (Peer.sent - a) + 1 = k - a
      BY <1>2, <2>1
    <3> QED
      BY <1>1, <2>1, <2>4, <2>5, <3>1, KindStays DEF OnSecond
  <2>7. Reads'
    BY <1>1, <1>5, <2>4, KindStays DEF Reads, SameReceiving
  <2>8. \A j : Second(j)' = Second(j) /\ Second(j) = [hk |-> SecondHK, dh |-> Peer.r.own, key |-> Link(SecondRoot, j)]
    BY <1>1, <2>5, KindStays DEF Second
  <2>9. \A j : Posted(j)' = Posted(j)
    BY <1>1, <2>2, <2>5, <2>8, KindStays DEF Posted
  <2>10. Posted(k) = Second(Peer.sent - a)
    <3>1. ~(k <= a) /\ k - a - 1 = Peer.sent - a
      BY <1>2, <2>1
    <3> QED
      BY <2>2, <3>1 DEF Posted
  <2>11. PeerInv'
    BY <1>1, <1>5, <2>6, <2>7 DEF PeerInv
  <2> QED
    BY <2>1, <2>2, <2>4, <2>5, <2>8, <2>9, <2>10, <2>11
<1> QED
  BY <1>3, <1>4, <1>5 DEF PeerInv

LEMMA PeerSendsHead ==
  ASSUME Once, TInv, QInv, HInv, PeerSends(1)
  PROVE  HInv'
<1>1. /\ UNCHANGED <<contact, stored, tasks, received, call, secured, outbox, keys>> /\ Peer.up
      /\ UNCHANGED <<contact, stored>>
  BY DEF PeerSends, counters, Peer
<1>2. PICK k, new, e : k = Peer.sent + 1 /\ new = Theirs(1, 3 + k) /\ e = Encrypt(Peer.r, new)
  OBVIOUS
<1>3. PICK m : /\ Puts(1, m, e.state, k)
               /\ m.env = "message" /\ m.p = e.packet /\ m.what[3] = k
  <2>1. PICK kind : Puts(1, Message("message", FALSE, "empty", "M", <<kind, 1, k>>, e.packet), e.state, k)
    BY <1>2 DEF PeerSends, Peer
  <2>2. PICK m : m = Message("message", FALSE, "empty", "M", <<kind, 1, k>>, e.packet)
    OBVIOUS
  <2> QED
    BY <2>1, <2>2 DEF Message
<1>4. /\ Queue' = Append(Queue, m) /\ Peer'.up /\ Peer'.r = e.state /\ Peer'.sent = k
  BY <1>3, PutsIn
<1>5. PICK l \in Nat : l = Len(Queue) /\ Queue \in Seq(Post) /\ Peer.sent \in Nat
  BY QueueIs DEF QInv
<1>6. /\ Len(Queue') = l + 1 /\ Queue'[l + 1] = m /\ \A i \in 1 .. l : Queue'[i] = Queue[i]
      /\ Queue' # <<>> /\ Head(Queue') = Queue'[1]
      /\ Queue # <<>> <=> l > 0
      /\ Queue # <<>> => Head(Queue) = Queue[1]
  <2>1. \A q \in Seq(Post \cup {m}) :
          LET s == Append(q, m)
          IN  /\ Len(s) = Len(q) + 1 /\ s[Len(q) + 1] = m /\ \A i \in 1 .. Len(q) : s[i] = q[i]
              /\ s # <<>> /\ s \in Seq(Post \cup {m})
    BY AppendProperties
  <2>2. \A s \in Seq(Post \cup {m}) : s # <<>> => Head(s) = s[1]
    BY HeadTailProperties
  <2>3. Queue \in Seq(Post \cup {m})
    BY <1>5
  <2> QED
    BY <1>4, <1>5, <2>1, <2>2, <2>3, EmptySeq
<1>7. Queue # <<>> => Head(Queue') = Head(Queue)
  BY <1>5, <1>6
<1>8. ConfirmInv'
  <2>1. contact.state # "none" => ConfirmInv
    BY DEF HInv
  <2>2. contact.state # "none"
    BY <1>1 DEF HInv, BlankInv
  <2>3. \A x : Confirms(x)' <=> Confirms(x)
    BY <1>1, KindStays
  <2> QED
    BY <1>3, <1>5, <1>6, <2>1, <2>2, <2>3 DEF ConfirmInv
<1>9. Got' = Got
  <2>1. Peer'.sent = Peer.sent + 1 /\ Len(Queue') = Len(Queue) + 1
    BY <1>2, <1>4, <1>5, <1>6
  <2>2. Passed' <=> Passed
    <3>1. CASE Queue # <<>>
      BY <1>1, <1>6, <1>7, <3>1 DEF Passed, Known
    <3>2. CASE Queue = <<>>
      <4>1. Queue' # <<>> /\ Head(Queue') = m
        BY <1>5, <1>6, <3>2
      <4>2. m.what \notin received
        <5>1. \A w \in received : w[3] <= Peer.sent
          <6> SUFFICES ASSUME NEW w \in received PROVE w[3] <= Peer.sent
            OBVIOUS
          <6>1. w[2] = 1 /\ w[3] \in Nat
            BY OnlyOne DEF QInv, TakenInv, TInv, LogInv, Triple
          <6>2. w[3] + l <= Peer.sent
            BY <1>5, <3>2, <6>1 DEF QInv, TakenInv, Queue, Peer
          <6> QED
            BY <1>5, <6>1, <6>2
        <5> QED
          BY <1>2, <1>3, <1>5, <5>1
      <4> QED
        BY <1>1, <1>3, <3>2, <4>1, <4>2 DEF Passed, Known
    <3> QED
      BY <3>1, <3>2
  <2> QED
    BY <1>5, <2>1, <2>2 DEF Got
<1>10. ~Stuck => SyncInv /\ OutInv
  BY <1>1 DEF HInv, TogetherInv, BlankInv
<1>11. SyncInv => /\ PeerInv' /\ e.packet = Posted(k)' /\ \A j \in 0 .. Peer.sent : Posted(j)' = Posted(j)
                  /\ Turn' \in Nat /\ Turn \in Nat /\ Turn' >= Turn
                  /\ Peer.r.own # Theirs(1, 3) => Peer'.r.own = Peer.r.own /\ Turn' = Turn
  BY <1>1, <1>2, <1>4, PeerSendsSync DEF SyncInv
<1>12. SyncInv => SyncInv'
  BY <1>1, <1>2, <1>3, <1>4, <1>11, LineGrows DEF SyncInv
<1>13. contact.state \in {"active", "suspended"} => ReadsFirst' \/ ReadsSecond'
  <2> SUFFICES ASSUME contact.state \in {"active", "suspended"} PROVE ReadsFirst' \/ ReadsSecond'
    OBVIOUS
  <2>1. SyncInv /\ (ReadsFirst \/ ReadsSecond)
    BY <1>10 DEF HInv, AcceptedInv, Stuck
  <2>2. Ours' = Ours /\ Got \in Int /\ (SendsOn' <=> SendsOn)
    <3>1. Got \in Int
      BY <1>5 DEF Got
    <3> QED
      BY <1>1, <3>1, KindStays DEF Ours, SendsOn
  <2>3. ReadsFirst => ReadsFirst'
    BY <1>1, <1>9, <1>11, <2>1, <2>2, KindStays DEF ReadsFirst
  <2>4. ReadsSecond => ReadsSecond'
    BY <1>1, <1>9, <1>11, <2>1, <2>2, KindStays DEF ReadsSecond, SecondRoot
  <2> QED
    BY <2>1, <2>3, <2>4
<1> QED
  BY <1>1, <1>4, <1>6, <1>7, <1>8, <1>10, <1>12, <1>13, PeerMovesOn DEF HInv, BlankInv

\* The peer reads what it can: nothing but the turn of its own chain follows.
LEMMA PeerReadsSync ==
  ASSUME Once, TInv, QInv, PeerInv, NEW o \in outbox, OfOurs(o), o.what[1] # "address", NEW d, d = Decrypt(Peer.r, o.p), d.ok,
         Peer'.r = IF d.next THEN [d.state EXCEPT !.sending = NoChain] ELSE d.state, Peer'.sent = Peer.sent,
         UNCHANGED <<contact, stored>>
  PROVE  PeerInv' /\ Peer'.r.own = Peer.r.own
<1>1. contact'.kind = contact.kind /\ Ours' = Ours /\ ByAddress' = ByAddress
  BY DEF Ours, ByAddress
<1>2. Peer.r \in Ratchet /\ o.p \in PacketSet /\ d.state \in Ratchet
  <2>1. Peer.r \in Ratchet /\ o.p \in PacketSet
    BY QueueIs DEF QInv, TInv, ServerInv, OutSet
  <2> QED
    BY <2>1, DecryptFits
<1>3. /\ SendsOn /\ o.p.hk = OurHK /\ o.p.dh = Ours.own /\ o.p.key.root = Ours.sending.root
      /\ Ours.sending # NoChain
  BY DEF OfOurs, SendsOn
<1>4. CASE OnFirst /\ ByAddress /\ Unread
  <2>1. Peer.r.recvHK # o.p.hk /\ Peer.r.nextRecvHK = o.p.hk
    <3>1. OurHK # NoHeaderKey
      BY <1>4, Unlike DEF OurHK
    <3> QED
      BY <1>3, <1>4, <3>1 DEF Unread
  <2>2. Append(Peer.r.root, DH(o.p.dh, Peer.r.own)) = Ours.sending.root
    BY <1>3, <1>4 DEF Unread, OnFirst, SendsOn
  <2>3. /\ d.next = TRUE /\ SameSending(Peer.r, d.state) /\ d.state.root = Ours.sending.root
        /\ d.state.remote = Ours.own /\ d.state.receiving = Advanced(Chain(Ours.sending.root)) /\ d.state.recvHK = OurHK
    <3>1. PICK r, p, root : r = Peer.r /\ p = o.p /\ root = Ours.sending.root
      OBVIOUS
    <3>2. /\ r \in Ratchet /\ p \in PacketSet /\ r.recvHK # p.hk /\ d = Decrypt(r, p)
          /\ Append(r.root, DH(p.dh, r.own)) = root
      BY <1>2, <2>1, <2>2, <3>1
    <3>3. /\ d.next = TRUE /\ SameSending(r, d.state) /\ d.state.root = root
          /\ d.state.remote = p.dh /\ d.state.receiving = Advanced(Chain(root)) /\ d.state.recvHK = p.hk
      BY <3>2, ReadsNew
    <3> QED
      BY <1>3, <3>1, <3>3
  <2>4. PICK r : r = [d.state EXCEPT !.sending = NoChain]
    OBVIOUS
  <2>5. /\ r.sending = NoChain /\ r.own = Theirs(1, 3) /\ r.nextSendHK = SecondHK /\ r.root = Ours.sending.root
        /\ r.remote = Ours.own /\ r.receiving.root = Ours.sending.root /\ r.recvHK = OurHK
    <3>1. Advanced(Chain(Ours.sending.root)).root = Ours.sending.root
      BY DEF Advanced, Chain
    <3> QED
      BY <1>2, <1>4, <2>3, <2>4, <3>1 DEF Ratchet, SameSending, OnFirst
  <2>6. Peer'.r = r
    BY <2>3, <2>4
  <2>7. LeftFirst' /\ Reads'
    BY <1>1, <1>3, <2>5, <2>6, KindStays DEF LeftFirst, Reads
  <2> QED
    BY <1>1, <1>4, <2>5, <2>6, <2>7 DEF PeerInv, OnFirst
<1>5. CASE Reads
  <2>1. Peer.r.recvHK = o.p.hk /\ Peer.r.receiving # NoChain
    <3>1. Ours.sending.root # <<>>
      <4>1. Ours.own \in KeySet
        BY DEF TInv, StoreInv, RecordSet, Ratchet, Ours
      <4>2. Append(FirstRoot, DH(Ours.own, Theirs(1, 3))) # <<>>
        <5>1. Theirs(1, 3) \in KeySet
          BY KeysFit
        <5> QED
          BY <4>1, <5>1, Roots, RootGrows
      <4> QED
        BY <1>3, <4>2, Roots DEF SendsOn
    <3>2. NoChain.root = <<>>
      BY DEF NoChain, Chain
    <3> QED
      BY <1>3, <1>5, <3>1, <3>2 DEF Reads
  <2>2. /\ d.next = FALSE /\ SameSending(Peer.r, d.state) /\ d.state.root = Peer.r.root /\ d.state.remote = Ours.own
        /\ d.state.receiving = Advanced(Peer.r.receiving) /\ d.state.recvHK = OurHK
    BY <1>2, <1>3, <2>1, ReadsOn
  <2>3. Peer'.r = d.state
    BY <2>2
  <2>4. Reads'
    <3>1. Advanced(Peer.r.receiving).root = Peer.r.receiving.root
      BY <1>2 DEF Ratchet, ChainSet, Advanced
    <3> QED
      BY <1>1, <1>3, <1>5, <2>2, <2>3, <3>1, KindStays DEF Reads
  <2>5. Turn' = Turn /\ SecondRoot' = SecondRoot
    BY <1>1, <2>2, <2>3 DEF Turn, SecondRoot, SameSending
  <2>6. (OnFirst => OnFirst') /\ (LeftFirst => LeftFirst') /\ (OnSecond => OnSecond')
    BY <1>1, <2>2, <2>3, <2>5, KindStays DEF OnFirst, LeftFirst, OnSecond, SameSending
  <2>7. ByAddress /\ OnFirst => ~Unread
    <3>1. ByAddress => OurHK # NoHeaderKey
      BY Unlike DEF OurHK
    <3> QED
      BY <1>5, <3>1 DEF Unread, Reads
  <2>8. PeerInv'
    BY <1>1, <1>5, <2>4, <2>6, <2>7 DEF PeerInv
  <2> QED
    BY <2>2, <2>3, <2>8 DEF SameSending
<1> QED
  BY <1>4, <1>5 DEF PeerInv

LEMMA PeerReadsHead ==
  ASSUME Once, TInv, QInv, HInv, PeerReads(1)
  PROVE  HInv'
<1>0. PICK o \in outbox :
        LET d == Decrypt(Peer.r, o.p)
        IN  /\ o.what[1] # "address" /\ d.ok
            /\ peer' = [peer EXCEPT ![1].r = IF d.next THEN [d.state EXCEPT !.sending = NoChain] ELSE d.state]
  BY DEF PeerReads, Peer
<1>1. /\ UNCHANGED <<contact, stored, tasks, received, call, inbox, secured, outbox, keys>> /\ Peer.up
      /\ UNCHANGED <<contact, stored>> /\ contact'.kind = contact.kind /\ Ours' = Ours /\ Queue' = Queue
  BY DEF PeerReads, counters, Peer, Ours, Queue
<1>2. PICK d :
        /\ o.what[1] # "address" /\ d = Decrypt(Peer.r, o.p) /\ d.ok
        /\ peer' = [peer EXCEPT ![1].r = IF d.next THEN [d.state EXCEPT !.sending = NoChain] ELSE d.state]
  BY <1>0
<1>3. /\ Peer'.up /\ Peer'.sent = Peer.sent
      /\ Peer'.r = IF d.next THEN [d.state EXCEPT !.sending = NoChain] ELSE d.state
  <2>1. Peer \in PeerSet /\ DOMAIN peer = Session /\ 1 \in Session
    BY OneSession DEF TInv, ServerInv, Peer
  <2>2. PICK r : r = IF d.next THEN [d.state EXCEPT !.sending = NoChain] ELSE d.state
    OBVIOUS
  <2>3. Peer' = [Peer EXCEPT !.r = r]
    BY <1>2, <2>1, <2>2 DEF Peer
  <2> QED
    BY <1>1, <2>1, <2>2, <2>3 DEF PeerSet
<1>4. contact.state # "none" /\ ConfirmInv'
  BY <1>1, KindStays DEF HInv, BlankInv, ConfirmInv
<1>5. ~Stuck => SyncInv /\ OfOurs(o)
  BY <1>1, <1>4 DEF HInv, TogetherInv, OutInv, OutboxInv
<1>6. ~Stuck => PeerInv' /\ Peer'.r.own = Peer.r.own
  BY <1>1, <1>2, <1>3, <1>5, PeerReadsSync DEF SyncInv
<1>7. ~Stuck => Turn' = Turn /\ SecondRoot' = SecondRoot
  BY <1>1, <1>3, <1>6 DEF Turn, SecondRoot
<1>8. ~Stuck => \A k : Posted(k)' = Posted(k)
  BY <1>1, <1>6, <1>7, KindStays DEF Posted, Second
<1>9. ~Stuck => SyncInv'
  BY <1>1, <1>3, <1>5, <1>6, <1>8 DEF SyncInv, Line, Number
<1>10. contact.state \in {"active", "suspended"} => ReadsFirst' \/ ReadsSecond'
  <2> SUFFICES ASSUME contact.state \in {"active", "suspended"} PROVE ReadsFirst' \/ ReadsSecond'
    OBVIOUS
  <2>1. ~Stuck /\ (ReadsFirst \/ ReadsSecond)
    BY DEF HInv, AcceptedInv, Stuck
  <2>2. Got' = Got /\ (SendsOn' <=> SendsOn)
    BY <1>1, <1>3, KindStays DEF Got, Passed, Known, SendsOn
  <2> QED
    BY <1>1, <1>6, <1>7, <2>1, <2>2, KindStays DEF ReadsFirst, ReadsSecond
<1>11. (Queue = <<>> /\ ~Peer.up => Queue' # <<>> /\ Head(Queue').env = "confirmation")
       /\ (Queue # <<>> => Queue' # <<>> /\ Head(Queue') = Head(Queue))
  BY <1>1
<1> QED
  BY <1>1, <1>3, <1>4, <1>9, <1>10, <1>11, PeerMovesOn

-----------------------------------------------------------------------------
(* The accept.                                                             *)

\* What has to hold of a contact that was accepted.
LEMMA Settled ==
  ASSUME contact'.state \in {"active", "suspended"}, \A c \in Call : Free(c)' /\ Busy(c)' /\ Sends(c)',
         stored'.pending = FALSE, stored'.session = 1, Peer'.up, SendsOn' \/ SendsNew',
         ReadsFirst' \/ ReadsSecond', OutboxInv', PeerInv', Line', ConfirmInv', secured'[1] <= keys'
  PROVE  HInv'
<1>1. BlankInv' /\ WaitInv' /\ AcceptedInv'
  BY DEF BlankInv, WaitInv, AcceptedInv
<1>2. BusyInv' /\ HoldInv' /\ OutInv' /\ SyncInv'
  BY DEF BusyInv, HoldInv, OutInv, SyncInv
<1> QED
  BY <1>1, <1>2 DEF HInv, TogetherInv

\* Before: what the stored ratchet is.
LEMMA WaitingRatchet ==
  ASSUME HInv, contact.state = "requested"
  PROVE  /\ stored.session = 1 /\ stored.next = 0
         /\ ByAddress => /\ Ours = NoRatchet /\ Ours.sending = NoChain /\ stored.pending = TRUE
                         /\ ~SendsOn /\ \A o : OfOurs(o) <=> o.what[1] = "address"
         /\ ~ByAddress => Ours = Join(1).state /\ SendsOn /\ stored.pending = FALSE
<1>1. CASE ByAddress
  <2>1. Ours = NoRatchet /\ stored.pending = TRUE
    BY <1>1 DEF HInv, WaitInv, Ours, Record
  <2>2. NoRatchet.sending = NoChain
    BY DEF NoRatchet, ReceivingRatchet
  <2> QED
    BY <1>1, <2>1, <2>2 DEF HInv, WaitInv, SendsOn, OfOurs
<1>2. CASE ~ByAddress
  <2>1. Ours = Join(1).state /\ stored.pending = FALSE
    BY <1>2 DEF HInv, WaitInv, Ours, Record
  <2>2. Ours.sending.root = JoinRoot /\ Ours.sending # NoChain
    BY <2>1, WeAsk, Roots, Unlike DEF Link
  <2> QED
    BY <1>2, <2>1, <2>2, WeAsk DEF HInv, WaitInv, SendsOn, OurHK
<1> QED
  BY <1>1, <1>2

LEMMA ConfirmedHead ==
  ASSUME Once, TInv, QInv, HInv, contact.state # "none", Queue # <<>>, NEW m, m = Head(Queue), m.env = "confirmation"
  PROVE  Confirms(m) /\ m \in Post /\ Peer.up /\ Len(Queue) = Peer.sent + 1 /\ Got = 0
<1>1. Peer.up /\ m = Queue[1] /\ 1 \in 1 .. Len(Queue) /\ m \in Post
  BY QueueIs DEF QInv
<1>2. Confirms(m)
  BY <1>1 DEF HInv, ConfirmInv
<1>3. Number(m) + Len(Queue) = Peer.sent + 1 /\ Number(m) = 0 /\ Len(Queue) \in Nat /\ Peer.sent \in Nat
  BY <1>1, QueueIs DEF QInv, Number
<1>4. Passed
  BY DEF Passed
<1> QED
  BY <1>1, <1>2, <1>3, <1>4 DEF Got

\* The confirmation is at the head and can be opened.
LEMMA OpeningIs ==
  ASSUME Once, TInv, QInv, HInv, contact.state = "requested", Queue # <<>>, NEW m, m = Head(Queue)
  PROVE  /\ m.env = "confirmation" /\ Confirms(m) /\ m \in Post /\ Acceptable(stored, m) /\ Peer.up
         /\ Len(Queue) = Peer.sent + 1 /\ Got = 0
         /\ Opening = Record(FALSE, stored.session, Decrypt(Answering(stored, m), m.p).state, stored.next)
         /\ Opening.session = 1 /\ Opening.pending = FALSE /\ Opening.next = 0
         /\ Opening.r \in Ratchet /\ Accepted(Opening.r)
<1>1. m.env = "confirmation"
  BY QueueIs DEF QInv, HInv, WaitInv
<1>2. Confirms(m) /\ m \in Post /\ Peer.up /\ Len(Queue) = Peer.sent + 1 /\ Got = 0
  BY <1>1, ConfirmedHead
<1>4. stored.session = 1 /\ stored.next = 0 /\ IF ByAddress THEN stored.pending /\ stored.session = 1 ELSE stored.r = Join(1).state
  BY WaitingRatchet DEF Ours
<1>5. PICK r : r = Decrypt(Answering(stored, m), m.p).state
  OBVIOUS
<1>6. (m.e2e => stored.pending) /\ Decrypt(Answering(stored, m), m.p).ok /\ r \in Ratchet /\ Accepted(r)
  BY <1>2, <1>4, <1>5, Opens
<1>7. Opening = Record(FALSE, 1, r, 0)
  BY <1>5 DEF Opening
<1> QED
  BY <1>1, <1>2, <1>4, <1>5, <1>6, <1>7 DEF Acceptable, Record

\* Our chain begins, when it was the peer that joined.
LEMMA SendsFirst ==
  ASSUME ByAddress, contact'.kind = contact.kind, NEW k \in Nat, NEW r \in Ratchet,
         r.sending = NoChain, r.root = FirstRoot, r.remote = Theirs(1, 3), r.nextSendHK = OurHK,
         Ours' = Encrypt(r, Mine(1, k)).state
  PROVE  /\ SendsOn' /\ SameReceiving(r, Ours')
         /\ Ours'.sending # NoChain /\ Ours'.root = Ours'.sending.root
         /\ \A o : o.p = Encrypt(r, Mine(1, k)).packet /\ o.what[1] \notin {"address", "join"} => OfOurs(o)'
<1>1. PICK new, root, e : new = Mine(1, k) /\ root = Append(FirstRoot, DH(new, Theirs(1, 3))) /\ e = Encrypt(r, new)
  OBVIOUS
<1>2. e = Encrypt(r, new) /\ Append(r.root, DH(new, r.remote)) = root
  BY <1>1
<1>3. /\ e.packet = [hk |-> OurHK, dh |-> new, key |-> Chain(root)]
      /\ SameReceiving(r, e.state) /\ e.state.root = root /\ e.state.own = new
      /\ e.state.sending = Advanced(Chain(root)) /\ e.state.sendHK = OurHK
  BY <1>2, SealsNew
<1>4. Advanced(Chain(root)).root = root /\ Chain(root).root = root /\ Advanced(Chain(root)) # NoChain /\ new.of = "client"
  <2>1. root # <<>>
    <3>1. new \in KeySet /\ Theirs(1, 3) \in KeySet
      BY <1>1, KeysFit
    <3> QED
      BY <1>1, <3>1, Roots, RootGrows
  <2>2. Chain(root) = Link(root, 0) /\ Advanced(Link(root, 0)) = Link(root, 0 + 1) /\ new.of = "client"
    BY <1>1, Unlike
  <2>3. Link(root, 0 + 1) # NoChain
    BY <2>1, Unlike
  <2>4. Link(root, 0 + 1).root = root /\ Chain(root).root = root
    BY DEF Link, Chain
  <2> QED
    BY <2>2, <2>3, <2>4
<1>5. ByAddress' /\ SendsOn'
  BY <1>1, <1>3, <1>4, KindStays DEF SendsOn
<1>6. ASSUME NEW o, o.p = e.packet, o.what[1] \notin {"address", "join"} PROVE OfOurs(o)'
  <2>1. o.p.hk = OurHK /\ o.p.dh = new /\ o.p.key.root = root
    BY <1>3, <1>4, <1>6
  <2>2. Ours'.own = new /\ Ours'.sending.root = root
    BY <1>1, <1>3, <1>4
  <2> QED
    BY <1>5, <1>6, <2>1, <2>2, KindStays DEF OfOurs
<1> QED
  BY <1>1, <1>3, <1>4, <1>5, <1>6

\* After: the ratchet that is saved, as it opened the confirmation or with our
\* connection info sealed.
LEMMA TakesOver ==
  ASSUME Once, TInv, QInv, HInv, contact.state = "requested", contact'.kind = contact.kind, Peer' = Peer,
         NEW r \in Ratchet, Accepted(r),
         \/ Ours' = r
         \/ ByAddress /\ \E k \in Nat : Ours' = Encrypt(r, Mine(1, k)).state
  PROVE  /\ SendsOn' \/ SendsNew'
         /\ Ours'.receiving = Link(FirstRoot, 1) /\ Ours'.recvHK = FirstHK
         /\ Ours'.nextRecvHK = SecondHK /\ Ours'.remote = Theirs(1, 3)
         /\ ByAddress => Ours'.root = IF Ours'.sending = NoChain THEN FirstRoot ELSE Ours'.sending.root
         /\ \A o : OfOurs(o) => OfOurs(o)'
         /\ PeerInv => OnFirst /\ PeerInv'
         /\ \A k \in Nat : ByAddress /\ Ours' = Encrypt(r, Mine(1, k)).state
              => \A o : o.p = Encrypt(r, Mine(1, k)).packet /\ o.what[1] = "info" => OfOurs(o)'
<1>0. ByAddress' = ByAddress
  BY KindStays
<1>1. CASE ~ByAddress
  <2>1. Ours' = r /\ SameSending(Ours, Ours')
    BY <1>1, WaitingRatchet DEF Accepted
  <2>2. Keeps(Ours, Ours') /\ SendsOn
    BY <1>1, <2>1, WaitingRatchet DEF Keeps, SameSending
  <2>3. ~ByAddress => (PeerInv => OnFirst /\ PeerInv')
    BY <2>2, PeerKept DEF PeerInv
  <2> QED
    BY <1>1, <2>1, <2>2, <2>3, ChainKept DEF Accepted
<1>2. ASSUME ByAddress PROVE PeerInv => OnFirst /\ PeerInv'
  <2>1. ~Reads
    BY <1>2, WaitingRatchet DEF Reads
  <2>2. PeerInv => OnFirst /\ Unread
    BY <1>2, <2>1 DEF PeerInv
  <2>3. OnFirst /\ Unread => OnFirst' /\ Unread'
    BY KindStays DEF OnFirst, Unread
  <2> QED
    BY <1>0, <1>2, <2>2, <2>3 DEF PeerInv
<1>3. ASSUME ByAddress PROVE \A o : OfOurs(o) => OfOurs(o)'
  BY <1>0, <1>3, WaitingRatchet DEF OfOurs
<1>4. ASSUME ByAddress, NEW k \in Nat, Ours' = Encrypt(r, Mine(1, k)).state
      PROVE  /\ SendsOn'
             /\ Ours'.receiving = Link(FirstRoot, 1) /\ Ours'.recvHK = FirstHK
             /\ Ours'.nextRecvHK = SecondHK /\ Ours'.remote = Theirs(1, 3)
             /\ Ours'.sending # NoChain /\ Ours'.root = Ours'.sending.root
             /\ \A o : o.p = Encrypt(r, Mine(1, k)).packet /\ o.what[1] = "info" => OfOurs(o)'
  <2>1. r.sending = NoChain /\ r.root = FirstRoot /\ r.remote = Theirs(1, 3) /\ r.nextSendHK = OurHK
    BY <1>4 DEF Accepted
  <2> QED
    BY <1>4, <2>1, SendsFirst DEF SameReceiving, Accepted
<1>5. CASE ByAddress /\ Ours' = r
  <2>1. SendsNew'
    BY <1>0, <1>5, KindStays DEF SendsNew, Accepted
  <2> QED
    BY <1>2, <1>3, <1>4, <1>5, <2>1 DEF Accepted
<1>6. CASE ByAddress /\ Ours' # r
  BY <1>2, <1>3, <1>4, <1>6
<1> QED
  BY <1>1, <1>5, <1>6

LEMMA SaveHead ==
  ASSUME Once, TInv, QInv, HInv, NEW c \in Call, NEW m, NEW key, NEW record, NEW r \in Ratchet,
         contact.state = "requested", ~Stuck, Queue # <<>>, Accepted(r),
         SaveAccept(c, m, key, record), call[c].contact.kind = contact.kind,
         record.pending = FALSE, record.session = 1,
         record.r = r \/ (ByAddress /\ \E k \in Nat : record.r = Encrypt(r, Mine(1, k)).state),
         UNCHANGED <<tasks, received, inbox, peer, secured>>, keys' \in Nat, keys' >= keys,
         \A x \in outbox' : x \in outbox \/ OfOurs(x)', \A d \in Call \ {c} : Free(d)
  PROVE  HInv'
<1>1. contact'.state = "active" /\ contact'.kind = contact.kind /\ stored' = record /\ Ours' = record.r
      /\ Peer' = Peer /\ Queue' = Queue
  BY DEF SaveAccept, Ours, Peer, Queue, TInv, CallsInv, Fits, CallSet, ContactSet
<1>2. call'[c].step = "acking" /\ \A d \in Call \ {c} : call'[d] = call[d]
  <2>1. PICK k : k = [IdleCall EXCEPT !.step = "acking", !.n = call[c].n, !.msg = m]
    OBVIOUS
  <2>2. k.step = "acking"
    BY <2>1 DEF IdleCall
  <2>3. call' = [call EXCEPT ![c] = k]
    BY <2>1 DEF SaveAccept
  <2> QED
    BY <2>2, <2>3, Turns
<1>3. Peer.up /\ Got = 0 /\ Peer.sent \in Nat
  BY OpeningIs, QueueIs DEF QInv
<1>4. OutInv /\ PeerInv /\ Line /\ ConfirmInv
  BY <1>3 DEF HInv, TogetherInv, SyncInv
<1>5. /\ SendsOn' \/ SendsNew'
      /\ Ours'.receiving = Link(FirstRoot, 1) /\ Ours'.recvHK = FirstHK
      /\ Ours'.nextRecvHK = SecondHK /\ Ours'.remote = Theirs(1, 3)
      /\ ByAddress => Ours'.root = IF Ours'.sending = NoChain THEN FirstRoot ELSE Ours'.sending.root
      /\ \A o : OfOurs(o) => OfOurs(o)'
      /\ OnFirst /\ PeerInv'
  BY <1>1, <1>4, TakesOver
<1>6. \A d \in Call : Free(d)' /\ Busy(d)' /\ Sends(d)'
  <2>1. Free(c)' /\ Busy(c)' /\ Sends(c)'
    BY <1>1, <1>2 DEF Free, HoldSteps, Busy, Sends
  <2>2. ASSUME NEW d \in Call \ {c} PROVE Free(d)' /\ Busy(d)' /\ Sends(d)'
    BY <1>1, <1>2, <1>4, <1>5 DEF HInv, BusyInv, Busy, Free, Sends, OutInv
  <2> QED
    BY <2>1, <2>2
<1>7. OutboxInv'
  BY <1>4, <1>5 DEF OutInv, OutboxInv
<1>8. Turn' = Peer.sent /\ Got' = 0 /\ OnFirst'
  <2>1. OnFirst'
    BY <1>1, <1>5, KindStays DEF OnFirst
  <2>2. Got' = Got
    BY <1>1 DEF Got, Passed, Known
  <2> QED
    BY <1>1, <1>3, <2>1, <2>2 DEF Turn, OnFirst
<1>9. ReadsFirst'
  BY <1>1, <1>3, <1>5, <1>8, KindStays DEF ReadsFirst, ByAddress
<1>10. Line'
  <2>1. \A i \in 1 .. Len(Queue) : Queue[i].p = First(Number(Queue[i])) /\ Number(Queue[i]) <= Peer.sent
    BY <1>4, <1>5, FirstLine, QueueIs DEF QInv
  <2>2. \A k : k <= Peer.sent => Posted(k)' = First(k)
    BY <1>1, <1>8, KindStays DEF Posted
  <2> QED
    BY <1>1, <2>1, <2>2 DEF Line, Number
<1>11. ConfirmInv' /\ secured'[1] <= keys' /\ Peer'.up
  <2>1. secured[1] \in Nat /\ keys \in Nat
    BY OneSession DEF TInv, ServerInv, LogInv
  <2> QED
    BY <1>1, <1>3, <1>4, <2>1, KindStays DEF ConfirmInv, HInv
<1>12. stored'.pending = FALSE /\ stored'.session = 1 /\ contact'.state \in {"active", "suspended"}
  BY <1>1
<1> QED
  BY <1>1, <1>5, <1>6, <1>7, <1>9, <1>10, <1>11, <1>12, Settled

\* A confirmation is taken in hand, or held on to.
LEMMA HandHead ==
  ASSUME Once, TInv, HInv, NEW c \in Call, UNCHANGED <<contact, stored, tasks, received, servers>>,
         keys' \in Nat, keys' >= keys, contact.state = "requested",
         call[c].step \in {"accepting", "securing"}, call'[c].step \in {"securing", "skey"},
         call'[c].contact.kind = contact.kind,
         \A d \in Call \ {c} : Free(d) /\ call'[d] = call[d],
         Leaves => Holding(c)'
  PROVE  HInv'
<1>1. Leaves
  BY DEF Leaves, servers
<1>2. OutGrows
  <2>1. OutboxInv => OutboxInv'
    BY <1>1, LeavesIs, ChainKept DEF OutboxInv, servers
  <2> QED
    BY <2>1 DEF OutGrows, HInv, WaitInv, OutInv, BlankInv, servers
<1>3. Busy(c)' /\ Sends(c)' /\ ~At(c, "informing")' /\ ~At(c, "informing")
  BY DEF Busy, Sends, At, Leaves
<1>4. \A d \in Call : MovesOn(d)
  BY <1>1, <1>2, <1>3 DEF MovesOn
<1> QED
  BY <1>1, <1>2, <1>4, StepMovesOn

\* The confirmation was opened: our side of the queue is secured first, when it
\* is for us to do.
LEMMA OpenedHead ==
  ASSUME Once, TInv, QInv, HInv, NEW c \in Call, NEW m, NEW record,
         contact.state = "requested", Queue # <<>>, m = Head(Queue), record = Opening,
         Opened(c, m, record), call[c].contact.kind = contact.kind, call[c].step \in {"accepting", "securing"},
         UNCHANGED <<tasks, received, servers>>, \A d \in Call \ {c} : Free(d)
  PROVE  HInv'
<1>1. /\ Confirms(m) /\ Peer.up /\ Opening.r \in Ratchet /\ Accepted(Opening.r)
      /\ record.session = 1 /\ record.pending = FALSE
  BY OpeningIs
<1>2. m.what[1] = "reply" <=> ByAddress
  BY <1>1 DEF Confirms
<1>3. keys \in Nat /\ keys' \in Nat /\ keys' >= keys
  BY DEF TInv, LogInv, Opened
<1>4. CASE SaveAccept(c, m, IF m.what[1] = "reply" THEN keys + 1 ELSE 0, record) /\ ~(m.what[1] = "reply" /\ m.mode = "M")
  <2>1. ~Stuck
    BY <1>2, <1>4 DEF HInv, WaitInv, Stuck
  <2>2. UNCHANGED <<tasks, received, inbox, peer, secured>> /\ outbox' = outbox
    BY DEF servers
  <2> QED
    BY <1>1, <1>3, <1>4, <2>1, <2>2, SaveHead
<1>5. CASE /\ m.what[1] = "reply" /\ m.mode = "M" /\ UNCHANGED <<contact, stored>> /\ keys' = keys + 1
           /\ call' = [call EXCEPT ![c].step = "skey", ![c].key = keys + 1, ![c].msg = m, ![c].stored = record]
  <2>3. /\ call'[c].step = "skey" /\ call'[c].key = keys + 1 /\ call'[c].msg = m /\ call'[c].stored = record
        /\ call'[c].contact = call[c].contact /\ \A d \in Call \ {c} : call'[d] = call[d]
    <3>1. PICK k : k = [call[c] EXCEPT !.step = "skey", !.key = keys + 1, !.msg = m, !.stored = record]
      OBVIOUS
    <3>2. call[c] \in CallSet
      BY DEF TInv, CallsInv, Fits
    <3>3. k.step = "skey" /\ k.key = keys + 1 /\ k.msg = m /\ k.stored = record /\ k.contact = call[c].contact
      BY <3>1, <3>2 DEF CallSet
    <3>4. call' = [call EXCEPT ![c] = k]
      BY <1>5, <3>1
    <3> QED
      BY <3>3, <3>4, Turns
  <2>4. ASSUME Leaves PROVE Holding(c)'
    <3>1. Queue' = Queue /\ Opening' = Opening /\ Peer' = Peer /\ secured' = secured /\ ByAddress' = ByAddress /\ contact' = contact
      BY <2>4, LeavesIs DEF Leaves, ByAddress
    <3>2. secured[1] <= keys /\ secured[1] \in Nat
      BY OneSession DEF HInv, TInv, ServerInv
    <3>3. keys + 1 \in 1 .. keys' /\ keys + 1 # secured[1]
      BY <1>3, <1>5, <3>2
    <3> QED
      BY <1>1, <1>2, <1>5, <2>3, <3>1, <3>3 DEF Holding, At
  <2> QED
    BY <1>3, <1>5, <2>3, <2>4, HandHead
<1> QED
  BY <1>4, <1>5 DEF Opened

\* A contact that was accepted takes no confirmation again.
LEMMA AcceptedOnce ==
  ASSUME Once, TInv, QInv, HInv, contact.state \in {"active", "suspended"}, Queue # <<>>, NEW m, m = Head(Queue)
  PROVE  ~Acceptable(stored, m)
<1> SUFFICES ASSUME Acceptable(stored, m) PROVE FALSE
  OBVIOUS
<1>1. stored.pending = FALSE /\ m.env = "confirmation" /\ m.e2e # TRUE
  BY DEF Acceptable, HInv, AcceptedInv
<1>2. m.p = First(0) /\ m.e2e = ByAddress /\ Got = 0 /\ Peer.up
  BY <1>1, ConfirmedHead DEF Confirms
<1>3. ~ByAddress
  BY <1>1, <1>2 DEF ByAddress
<1>4. PeerInv /\ OnFirst
  BY <1>2, <1>3 DEF HInv, TogetherInv, Stuck, SyncInv, PeerInv
<1>5. ReadsFirst
  BY <1>4 DEF HInv, AcceptedInv, ReadsSecond, OnFirst
<1>6. stored.r \in Ratchet /\ m.p \in PacketSet
  BY <1>2, FirstFits DEF TInv, StoreInv, RecordSet
<1>7. PICK r, p : r = stored.r /\ p = m.p
  OBVIOUS
<1>8. Decrypt(r, p).ok
  BY <1>1, <1>3, <1>2, <1>7 DEF Acceptable, Answering
<1>9. r.recvHK = p.hk /\ r.receiving = Link(FirstRoot, 1) /\ p.key = Link(FirstRoot, 0) /\ r.receiving # NoChain
  BY <1>2, <1>5, <1>7, FirstIs, Roots, Unlike DEF ReadsFirst, Ours
<1>10. r.receiving = p.key
  BY <1>6, <1>7, <1>8, <1>9, ReadsOn
<1> QED
  BY <1>9, <1>10 DEF Link

LEMMA AcceptArrivesHead ==
  ASSUME Once, TInv, QInv, HInv, NEW c \in Call, AcceptArrives(c)
  PROVE  HInv'
<1>1. /\ call[c].step = "accepting" /\ call[c].n = 1 /\ call[c].contact.kind = contact.kind /\ contact.state # "none"
      /\ UNCHANGED <<tasks, received, servers>>
  <2>1. call[c].step = "accepting" /\ UNCHANGED <<tasks, received, servers>>
    BY DEF AcceptArrives, At
  <2>2. call[c].n \in Session
    BY <2>1 DEF TInv, CallsInv, Fits
  <2> QED
    BY <2>1, <2>2, OnlyOne DEF HInv, BusyInv, Busy
<1>2. PICK m, record : m = Head(Queue) /\ record = Record(FALSE, stored.session, Decrypt(Answering(stored, m), m.p).state, stored.next)
  OBVIOUS
<1>3. /\ Queue # <<>> /\ Pushed(c, m)
      /\ \/ /\ Acceptable(stored, m) /\ m.header = "confirmation"
            /\ call' = [call EXCEPT ![c].step = "securing", ![c].stored = record, ![c].msg = m]
            /\ UNCHANGED <<contact, stored, keys>>
         \/ Acceptable(stored, m) /\ m.header = "empty" /\ Opened(c, m, record)
         \/ ~Acceptable(stored, m) /\ End(c) /\ UNCHANGED <<contact, stored, keys>>
  BY <1>1, <1>2 DEF AcceptArrives, Queue
<1>4. CASE End(c) /\ UNCHANGED <<contact, stored, keys>>
  BY <1>1, <1>4, QuietHead DEF At
<1>5. CASE ~(End(c) /\ UNCHANGED <<contact, stored, keys>>)
  <2>1. contact.state = "requested"
    BY <1>1, <1>2, <1>3, <1>5, AcceptedOnce DEF TInv, StoreInv, ContactSet
  <2>2. \A d \in Call \ {c} : Free(d)
    BY <1>2, <1>3 DEF HInv, HoldInv, Holding, Pushed, Once
  <2>3. Confirms(m) /\ m \in Post /\ record = Opening /\ Peer.up /\ m.env = "confirmation"
    BY <1>2, <1>3, <2>1, OpeningIs
  <2>4. CASE Opened(c, m, record)
    BY <1>1, <1>2, <1>3, <2>1, <2>2, <2>3, <2>4, OpenedHead
  <2>5. CASE /\ m.header = "confirmation" /\ UNCHANGED <<contact, stored, keys>>
             /\ call' = [call EXCEPT ![c].step = "securing", ![c].stored = record, ![c].msg = m]
    <3>1. ByAddress
      <4>1. m.e2e
        BY <2>3, <2>5 DEF Post, FromPeer, MsgSet
      <4> QED
        BY <2>3, <4>1 DEF Confirms
    <3>2. /\ call'[c].step = "securing" /\ call'[c].msg = m /\ call'[c].stored = record
          /\ call'[c].contact = call[c].contact /\ \A d \in Call \ {c} : call'[d] = call[d]
      <4>1. PICK k : k = [call[c] EXCEPT !.step = "securing", !.stored = record, !.msg = m]
        OBVIOUS
      <4>2. call[c] \in CallSet
        BY DEF TInv, CallsInv, Fits
      <4>3. k.step = "securing" /\ k.msg = m /\ k.stored = record /\ k.contact = call[c].contact
        BY <4>1, <4>2 DEF CallSet
      <4>4. call' = [call EXCEPT ![c] = k]
        BY <2>5, <4>1
      <4> QED
        BY <4>3, <4>4, Turns
    <3>3. ASSUME Leaves PROVE Holding(c)'
      <4>1. Queue' = Queue /\ Opening' = Opening /\ Peer' = Peer /\ ByAddress' = ByAddress /\ contact' = contact
        BY <3>3, LeavesIs DEF Leaves, ByAddress
      <4> QED
        BY <1>2, <2>1, <2>3, <3>1, <3>2, <4>1 DEF Holding, At
    <3>4. keys \in Nat /\ keys' \in Nat /\ keys' >= keys
      BY <2>5 DEF TInv, LogInv
    <3> QED
      BY <1>1, <2>1, <2>2, <2>5, <3>2, <3>3, <3>4, HandHead
  <2> QED
    BY <1>3, <1>5, <2>4, <2>5
<1> QED
  BY <1>4, <1>5

\* What a call that has a confirmation in hand knows.
LEMMA HolderIs ==
  ASSUME Once, TInv, QInv, HInv, NEW c \in Call, ~Free(c)
  PROVE  /\ contact.state = "requested" /\ ByAddress /\ Peer.up /\ call[c].msg = Head(Queue) /\ Queue # <<>>
         /\ call[c].contact.kind = contact.kind /\ call[c].contact.session = 1
         /\ \A d \in Call \ {c} : Free(d)
         /\ Opening.r \in Ratchet /\ Accepted(Opening.r) /\ Opening.session = 1 /\ Opening.pending = FALSE
<1>1. Holding(c) /\ \A d \in Call \ {c} : Free(d)
  BY DEF HInv, HoldInv
<1>2. contact.state = "requested" /\ Queue # <<>>
  BY <1>1 DEF Holding, HInv, WaitInv
<1>3. call[c].contact.session \in Session /\ call[c].contact.kind = contact.kind
  BY DEF TInv, CallsInv, Fits, Free, HoldSteps, HInv, BusyInv, Busy
<1> QED
  BY <1>1, <1>2, <1>3, OnlyOne, OpeningIs DEF Holding

LEMMA AcceptSecuredHead ==
  ASSUME Once, TInv, QInv, HInv, NEW c \in Call, AcceptSecured(c)
  PROVE  HInv'
<1>1. /\ call[c].step = "securing" /\ UNCHANGED <<tasks, received, servers>>
      /\ \/ Opened(c, call[c].msg, call[c].stored)
         \/ End(c) /\ UNCHANGED <<contact, stored, keys>>
  BY DEF AcceptSecured, At
<1>2. /\ contact.state = "requested" /\ call[c].msg = Head(Queue) /\ Queue # <<>>
      /\ call[c].contact.kind = contact.kind /\ \A d \in Call \ {c} : Free(d)
  BY <1>1, HolderIs DEF Free, HoldSteps
<1>3. call[c].stored = Opening
  BY <1>1 DEF HInv, HoldInv, Free, HoldSteps, Holding, At
<1>4. CASE End(c) /\ UNCHANGED <<contact, stored, keys>>
  BY <1>1, <1>4, QuietHead DEF At
<1>5. CASE Opened(c, call[c].msg, call[c].stored)
  BY <1>1, <1>2, <1>3, <1>5, OpenedHead
<1> QED
  BY <1>1, <1>4, <1>5

\* The call that could have answered the confirmation is over.
LEMMA StuckHead ==
  ASSUME Once, TInv, QInv, HInv, NEW c \in Call, ~Free(c), End(c),
         UNCHANGED <<contact, stored, tasks, received, inbox, peer, keys>>,
         secured'[1] # 0, secured'[1] <= keys, Head(Queue).mode = "M"
  PROVE  HInv'
<1>1. /\ contact.state = "requested" /\ ByAddress /\ Peer.up /\ Queue # <<>>
      /\ \A d \in Call \ {c} : Free(d)
  BY HolderIs
<1>2. Peer' = Peer /\ Queue' = Queue /\ ByAddress' = ByAddress /\ contact'.kind = contact.kind
  BY DEF Peer, Queue, ByAddress
<1>3. call'[c] = IdleCall /\ \A d \in Call \ {c} : call'[d] = call[d]
  BY Turns DEF End
<1>4. \A d \in Call : Free(d)' /\ Busy(d)'
  <2>1. Free(c)' /\ Busy(c)'
    BY <1>3, EndsWith DEF Free, HoldSteps, Busy
  <2>2. ASSUME NEW d \in Call \ {c} PROVE Free(d)' /\ Busy(d)'
    BY <1>1, <1>3 DEF HInv, BusyInv, Busy, Free
  <2> QED
    BY <2>1, <2>2
<1>5. BlankInv' /\ AcceptedInv' /\ BusyInv' /\ HoldInv'
  BY <1>1, <1>4 DEF BlankInv, AcceptedInv, BusyInv, HoldInv
<1>6. WaitInv'
  BY <1>1, <1>2 DEF HInv, WaitInv
<1>7. Stuck'
  BY <1>1, <1>2, <1>4 DEF Stuck, Free, HoldSteps, At
<1>8. ConfirmInv'
  BY <1>1, <1>2, KindStays DEF HInv, ConfirmInv
<1> QED
  BY <1>5, <1>6, <1>7, <1>8 DEF HInv, TogetherInv

LEMMA SenderSecuredHead ==
  ASSUME Once, TInv, QInv, HInv, NEW c \in Call, SenderSecured(c)
  PROVE  HInv'
<1>1. call[c].step = "skey" /\ ~Free(c) /\ UNCHANGED <<contact, stored, tasks, received, inbox, outbox, peer>>
  BY DEF SenderSecured, At, Free, HoldSteps
<1>2. /\ contact.state = "requested" /\ ByAddress /\ Peer.up /\ call[c].msg = Head(Queue) /\ Queue # <<>>
      /\ call[c].contact.session = 1 /\ \A d \in Call \ {c} : Free(d)
      /\ Opening.session = 1
  BY <1>1, HolderIs
<1>3. /\ call[c].stored = Opening /\ Head(Queue).mode = "M" /\ call[c].key \in 1 .. keys /\ call[c].key # secured[1]
  BY <1>1 DEF HInv, HoldInv, Holding, At
<1>4. secured \in [Session -> Nat] /\ secured[1] \in Nat /\ 1 \in Session /\ keys \in Nat
  BY OneSession DEF TInv, ServerInv, LogInv
<1>5. PICK e, o : e = Encrypt(Opening.r, Mine(1, keys + 1)) /\ o = Outgoing(1, call[c].key, <<"info", 1>>, e.packet)
  OBVIOUS
<1>6. \/ End(c) /\ UNCHANGED <<secured, keys>>
      \/ End(c) /\ keys' = keys /\ secured' = [secured EXCEPT ![1] = call[c].key]
      \/ /\ secured[1] = 0 /\ secured' = [secured EXCEPT ![1] = call[c].key] /\ keys' = keys + 1
         /\ call' = [call EXCEPT ![c].step = "informing", ![c].sent = o, ![c].stored = Record(FALSE, 1, e.state, 2)]
  <2>1. PICK n, key, s : n = call[c].contact.session /\ key = call[c].key /\ s = call[c].stored
    OBVIOUS
  <2>2. PICK how :
          /\ secured' = IF Done(how) /\ Allowed(n, key) THEN [secured EXCEPT ![n] = key] ELSE secured
          /\ \/ /\ Allowed(n, key) /\ keys' = keys + 1 /\ Done(how)
                /\ call' = [call EXCEPT ![c].step = "informing",
                                        ![c].sent = Outgoing(n, key, <<"info", n>>, Encrypt(s.r, Mine(s.session, keys + 1)).packet),
                                        ![c].stored = Record(FALSE, s.session, Encrypt(s.r, Mine(s.session, keys + 1)).state, 2)]
             \/ End(c) /\ UNCHANGED keys
    BY <2>1 DEF SenderSecured, Done
  <2>3. n = 1 /\ s = Opening /\ s.session = 1 /\ key = call[c].key /\ (Allowed(n, key) <=> secured[1] = 0)
    BY <1>2, <1>3, <2>1 DEF Allowed
  <2> QED
    BY <1>5, <2>2, <2>3
<1>7. CASE End(c) /\ UNCHANGED <<secured, keys>>
  BY <1>1, <1>7, QuietHead DEF At, servers
<1>8. CASE End(c) /\ keys' = keys /\ secured' = [secured EXCEPT ![1] = call[c].key]
  <2>1. secured'[1] = call[c].key /\ secured'[1] # 0 /\ secured'[1] <= keys
    BY <1>3, <1>4, <1>8
  <2> QED
    BY <1>1, <1>3, <1>8, <2>1, StuckHead
<1>9. CASE /\ secured[1] = 0 /\ secured' = [secured EXCEPT ![1] = call[c].key] /\ keys' = keys + 1
           /\ call' = [call EXCEPT ![c].step = "informing", ![c].sent = o, ![c].stored = Record(FALSE, 1, e.state, 2)]
  <2>1. /\ call'[c].step = "informing" /\ call'[c].sent = o /\ call'[c].stored = Record(FALSE, 1, e.state, 2)
        /\ call'[c].msg = call[c].msg /\ call'[c].key = call[c].key /\ call'[c].contact = call[c].contact
        /\ \A d \in Call \ {c} : call'[d] = call[d]
    <3>1. PICK k : k = [call[c] EXCEPT !.step = "informing", !.sent = o, !.stored = Record(FALSE, 1, e.state, 2)]
      OBVIOUS
    <3>2. call[c] \in CallSet
      BY DEF TInv, CallsInv, Fits
    <3>3. /\ k.step = "informing" /\ k.sent = o /\ k.stored = Record(FALSE, 1, e.state, 2)
          /\ k.msg = call[c].msg /\ k.key = call[c].key /\ k.contact = call[c].contact
      BY <3>1, <3>2 DEF CallSet
    <3>4. call' = [call EXCEPT ![c] = k]
      BY <1>9, <3>1
    <3> QED
      BY <3>3, <3>4, Turns
  <2>2. secured'[1] = call[c].key /\ call[c].key # 0 /\ call[c].key <= keys' /\ keys' \in Nat /\ keys + 1 \in 0 .. keys'
    BY <1>3, <1>4, <1>9
  <2>3. /\ Ours' = Ours /\ Peer' = Peer /\ Queue' = Queue /\ ByAddress' = ByAddress /\ contact'.kind = contact.kind
        /\ Keeps(Ours, Ours')
    BY <1>1 DEF Ours, Peer, Queue, ByAddress, Keeps
  <2>4. Opening' = Opening
    BY <1>1, <2>3 DEF Opening, Answering
  <2>5. Holding(c)'
    <3>1. o.p = e.packet /\ o.what = <<"info", 1>> /\ Record(FALSE, 1, e.state, 2).r = e.state
      BY <1>5 DEF Outgoing, Record
    <3>2. \E k \in 0 .. keys' : LET f == Encrypt(Opening.r, Mine(1, k))
                                IN  /\ call'[c].stored.r = f.state /\ call'[c].sent.p = f.packet
                                    /\ call'[c].sent.what = <<"info", 1>>
      BY <1>5, <2>1, <2>2, <3>1
    <3> QED
      BY <1>1, <1>2, <2>1, <2>2, <2>3, <2>4, <3>2 DEF Holding, At
  <2>6. HoldInv'
    BY <1>2, <2>1, <2>5 DEF HoldInv, Free
  <2>7. BusyInv'
    <3>1. Busy(c)'
      BY <1>1, <1>2, <2>1 DEF HInv, BusyInv, Busy
    <3>2. \A d \in Call \ {c} : Busy(d)'
      BY <1>1, <2>1 DEF HInv, BusyInv, Busy
    <3> QED
      BY <3>1, <3>2 DEF BusyInv
  <2>8. WaitInv' /\ BlankInv' /\ AcceptedInv'
    BY <1>1, <1>2, <1>3, <2>3 DEF HInv, WaitInv, BlankInv, AcceptedInv
  <2>9. ConfirmInv'
    BY <1>2, <2>3, KindStays DEF HInv, ConfirmInv
  <2>10. OutInv' /\ SyncInv'
    <3>1. OutInv /\ SyncInv
      BY <1>2, <1>9 DEF HInv, TogetherInv, Stuck
    <3>2. OutboxInv'
      BY <1>1, <2>3, <3>1, ChainKept DEF OutInv, OutboxInv
    <3>3. \A d \in Call : Sends(d)'
      BY <2>1, <2>3, <3>1, ChainKept DEF OutInv, Sends
    <3>4. SyncInv'
      BY <1>1, <2>3, <3>1, PeerKept DEF SyncInv, Line, Number
    <3> QED
      BY <3>2, <3>3, <3>4 DEF OutInv
  <2> QED
    BY <2>2, <2>6, <2>7, <2>8, <2>9, <2>10 DEF HInv, TogetherInv
<1> QED
  BY <1>6, <1>7, <1>8, <1>9

LEMMA InfoSentHead ==
  ASSUME Once, TInv, QInv, HInv, NEW c \in Call, InfoSent(c)
  PROVE  HInv'
<1>1. /\ call[c].step = "informing" /\ ~Free(c) /\ UNCHANGED <<tasks, received, inbox, peer, secured, keys>>
      /\ outbox' \in {outbox, Delivered(call[c].sent)}
  BY DEF InfoSent, At, Free, HoldSteps
<1>2. /\ contact.state = "requested" /\ ByAddress /\ call[c].msg = Head(Queue) /\ Queue # <<>>
      /\ call[c].contact.kind = contact.kind /\ \A d \in Call \ {c} : Free(d)
      /\ Opening.r \in Ratchet /\ Accepted(Opening.r)
  BY <1>1, HolderIs
<1>3. call[c].key = secured[1] /\ secured[1] # 0 /\ ~Stuck
  BY <1>1 DEF HInv, HoldInv, Holding, At, Stuck
<1>4. PICK k \in Nat : LET e == Encrypt(Opening.r, Mine(1, k))
                       IN  /\ call[c].stored.r = e.state /\ call[c].sent.p = e.packet
                           /\ call[c].sent.what = <<"info", 1>>
  <2>1. keys \in Nat /\ 0 .. keys \subseteq Nat
    BY DEF TInv, LogInv
  <2> QED
    BY <1>1, <2>1 DEF HInv, HoldInv, Holding, At
<1>5. CASE End(c) /\ UNCHANGED <<contact, stored>>
  BY <1>1, <1>2, <1>3, <1>5, OneSession, StuckHead DEF HInv, WaitInv, TInv, ServerInv
<1>6. CASE SaveAccept(c, call[c].msg, call[c].key, call[c].stored)
  <2>1. call[c].stored.session = 1 /\ call[c].stored.pending = FALSE
    <3>1. /\ call[c].stored.session # 0 /\ call[c].stored.pending = FALSE /\ call[c].stored.session \in Count
      BY <1>1 DEF TInv, CallsInv, Fits, CallSet, RecordSet
    <3> QED
      BY <3>1, OneSession
  <2>2. stored' = call[c].stored /\ contact'.kind = contact.kind
    BY <1>2, <1>6 DEF SaveAccept, TInv, CallsInv, Fits, CallSet, ContactSet
  <2>3. \A o : o = call[c].sent => OfOurs(o)'
    <3>1. Ours' = Encrypt(Opening.r, Mine(1, k)).state /\ Peer' = Peer
      BY <1>1, <1>4, <2>2 DEF Ours, Peer
    <3>2. \A o : o.p = Encrypt(Opening.r, Mine(1, k)).packet /\ o.what[1] = "info" => OfOurs(o)'
      BY <1>2, <2>2, <3>1, TakesOver
    <3> QED
      BY <1>4, <3>2
  <2>4. \A x \in outbox' : x \in outbox \/ OfOurs(x)'
    BY <1>1, <2>3 DEF Delivered
  <2>5. keys \in Nat /\ keys' \in Nat /\ keys' >= keys
    BY <1>1 DEF TInv, LogInv
  <2> QED
    BY <1>1, <1>2, <1>3, <1>4, <1>6, <2>1, <2>4, <2>5, SaveHead
<1> QED
  BY <1>5, <1>6 DEF InfoSent

-----------------------------------------------------------------------------
(* After the accept: what we seal, take and acknowledge.                   *)

\* Another packet of ours is sealed.
LEMMA SealRatchet ==
  ASSUME Once, TInv, QInv, contact'.kind = contact.kind, Peer' = Peer,
         SendsOn \/ SendsNew, ReadsFirst \/ ReadsSecond, PeerInv,
         NEW k \in Nat, NEW e, e = Encrypt(Ours, Mine(1, k)), Ours' = e.state
  PROVE  /\ SendsOn' /\ PeerInv'
         /\ \A o : OfOurs(o) => OfOurs(o)'
         /\ \A o : o.p = e.packet /\ o.what[1] \notin {"address", "join"} => OfOurs(o)'
         /\ \A j \in 0 .. Peer.sent : Posted(j)' = Posted(j)
         /\ Got' = Got => ReadsFirst' \/ ReadsSecond'
<1>1. Ours \in Ratchet /\ Ours.sending \in ChainSet
  BY DEF TInv, StoreInv, RecordSet, Ratchet, Ours
<1>2. Turn' = Turn /\ ByAddress' = ByAddress
  BY KindStays DEF Turn
<1>3. CASE SendsOn
  <2>1. /\ e.packet = [hk |-> OurHK, dh |-> Ours.own, key |-> Ours.sending]
        /\ SameReceiving(Ours, Ours') /\ Ours'.root = Ours.root /\ Ours'.own = Ours.own
        /\ Ours'.sending = Advanced(Ours.sending) /\ Ours'.sendHK = Ours.sendHK
    BY <1>1, <1>3, SealsOn DEF SendsOn
  <2>2. Ours'.sending.root = Ours.sending.root /\ Ours'.sending # NoChain
    BY <1>1, <2>1 DEF ChainSet, Advanced, NoChain, Chain
  <2>3. Keeps(Ours, Ours')
    BY <2>1, <2>2 DEF Keeps
  <2>4. SendsOn' /\ (\A o : OfOurs(o) => OfOurs(o)') /\ PeerInv' /\ SecondRoot' = SecondRoot
        /\ \A j : Posted(j)' = Posted(j)
    BY <1>3, <2>3, ChainKept, PeerKept
  <2>5. ASSUME NEW o, o.p = e.packet, o.what[1] \notin {"address", "join"} PROVE OfOurs(o)'
    BY <2>1, <2>2, <2>4, <2>5, KindStays DEF OfOurs
  <2>6. ASSUME Got' = Got PROVE (ReadsFirst => ReadsFirst') /\ (ReadsSecond => ReadsSecond')
    BY <1>2, <1>3, <2>1, <2>2, <2>4, <2>6, KindStays DEF ReadsFirst, ReadsSecond, SameReceiving, SendsOn
  <2> QED
    BY <2>4, <2>5, <2>6
<1>4. CASE SendsNew /\ ~SendsOn
  <2>1. /\ ByAddress /\ Ours.sending = NoChain /\ Ours.root = FirstRoot /\ Ours.remote = Theirs(1, 3)
        /\ Ours.nextSendHK = OurHK /\ ReadsFirst
    BY <1>4 DEF SendsNew, ReadsFirst, ReadsSecond
  <2>2. /\ SendsOn' /\ SameReceiving(Ours, Ours') /\ Ours'.sending # NoChain /\ Ours'.root = Ours'.sending.root
        /\ \A o : o.p = e.packet /\ o.what[1] \notin {"address", "join"} => OfOurs(o)'
    BY <1>1, <2>1, SendsFirst
  <2>3. \A o : OfOurs(o) => OfOurs(o)'
    BY <1>2, <1>4 DEF OfOurs
  <2>4. OnFirst /\ Unread
    BY <2>1 DEF PeerInv, Reads
  <2>5. PeerInv'
    BY <1>2, <2>1, <2>4, KindStays DEF PeerInv, OnFirst, Unread
  <2>6. \A j \in 0 .. Peer.sent : Posted(j) = First(j) /\ Posted(j)' = First(j)
    BY <1>2, <2>4, KindStays DEF Posted, Turn, OnFirst
  <2>7. ASSUME Got' = Got PROVE ReadsFirst'
    BY <1>2, <2>1, <2>2, <2>7, KindStays DEF ReadsFirst, SameReceiving
  <2> QED
    BY <2>2, <2>3, <2>5, <2>6, <2>7
<1> QED
  BY <1>3, <1>4

LEMMA SecondTurn ==
  ASSUME PeerInv, Peer.sent \in Nat
  PROVE  Turn \in Nat
<1>1. CASE Peer.r.own = Theirs(1, 3)
  BY <1>1 DEF Turn
<1>2. CASE Peer.r.own # Theirs(1, 3)
  <2>1. PICK a \in 0 .. Peer.sent - 1 : Peer.r.own = Theirs(1, a + 4)
    BY <1>2 DEF PeerInv, OnFirst, LeftFirst, OnSecond
  <2>2. Peer.r.own.nr = a + 4
    BY <2>1, Unlike
  <2> QED
    BY <1>2, <2>1, <2>2 DEF Turn
<1> QED
  BY <1>1, <1>2

\* What comes next of the peer opens, and is taken.
LEMMA NextOpens ==
  ASSUME Once, TInv, QInv, HInv, contact.state \in {"active", "suspended"},
         Queue # <<>>, NEW m, m = Head(Queue), m.env = "message", ~Known(m)
  PROVE  /\ Readable(stored, m)
         /\ Ours' = Decrypt(Ours, m.p).state /\ Got' = Got + 1 /\ Peer' = Peer /\ contact'.kind = contact.kind
              => Keeps(Ours, Ours') /\ (SendsNew => SendsNew') /\ (ReadsFirst' \/ ReadsSecond')
<1>0. PICK r, p, d : r = Ours /\ p = m.p /\ d = Decrypt(r, p)
  OBVIOUS
<1>1. stored.pending = FALSE /\ (SendsOn \/ SendsNew) /\ (ReadsFirst \/ ReadsSecond)
  BY DEF HInv, AcceptedInv
<1>2. PeerInv /\ Line
  BY DEF HInv, AcceptedInv, TogetherInv, Stuck, SyncInv
<1>3. Number(m) = Got + 1 /\ Got + 1 <= Peer.sent /\ Got \in Int /\ p = Posted(Got + 1) /\ m \in Post /\ Peer.sent \in Nat
  <2>1. m = Queue[1] /\ 1 \in 1 .. Len(Queue) /\ Len(Queue) \in Nat /\ Peer.sent \in Nat
    BY QueueIs DEF QInv
  <2>2. Number(m) + Len(Queue) = Peer.sent + 1 /\ Number(m) \in 0 .. Peer.sent /\ m \in Post
    BY <2>1, QueueIs DEF QInv
  <2>3. Got = Peer.sent - Len(Queue)
    BY <2>1 DEF Got, Passed
  <2>4. m.p = Posted(Number(m))
    BY <1>2, <2>1 DEF Line
  <2> QED
    BY <1>0, <2>1, <2>2, <2>3, <2>4
<1>4. r \in Ratchet /\ p \in PacketSet
  BY <1>0, <1>3 DEF TInv, StoreInv, RecordSet, Ours, Post, MsgSet
<1>5. CASE ReadsFirst /\ Got + 1 <= Turn
  <2>1. p.hk = FirstHK /\ p.dh = Theirs(1, 3) /\ p.key = Link(FirstRoot, Got + 1)
    BY <1>3, <1>5, FirstIs DEF Posted
  <2>2. r.recvHK = p.hk /\ r.receiving = p.key /\ r.receiving # NoChain
    BY <1>0, <1>5, <2>1, Roots, Unlike DEF ReadsFirst
  <2>3. /\ d.ok /\ SameSending(r, d.state) /\ d.state.root = r.root /\ d.state.remote = p.dh
        /\ d.state.receiving = Advanced(r.receiving) /\ d.state.recvHK = r.recvHK /\ d.state.nextRecvHK = r.nextRecvHK
    BY <1>0, <1>4, <2>2, ReadsOn
  <2>4. Advanced(r.receiving) = Link(FirstRoot, (Got + 1) + 1)
    BY <2>1, <2>2, Unlike
  <2>5. ASSUME Ours' = d.state, Got' = Got + 1, Peer' = Peer, contact'.kind = contact.kind
        PROVE  Keeps(Ours, Ours') /\ (SendsNew => SendsNew') /\ ReadsFirst'
    <3>1. Turn' = Turn /\ ByAddress' = ByAddress
      BY <2>5, KindStays DEF Turn
    <3>2. Keeps(Ours, Ours') /\ (SendsNew => SendsNew')
      BY <1>0, <2>3, <2>5, <3>1, KindStays DEF Keeps, SendsNew, SameSending
    <3>3. ReadsFirst'
      BY <1>0, <1>3, <1>5, <2>1, <2>3, <2>4, <2>5, <3>1, KindStays DEF ReadsFirst, SameSending
    <3> QED
      BY <3>2, <3>3
  <2> QED
    BY <1>0, <1>1, <2>3, <2>5 DEF Readable, Ours
<1>6. CASE ~(Got + 1 <= Turn)
  <2>1. ByAddress /\ OnSecond /\ Reads /\ Peer.r.own # Theirs(1, 3) /\ SendsOn /\ Turn \in Nat
    <3>1. Peer.r.own # Theirs(1, 3)
      BY <1>3, <1>6 DEF Turn
    <3>2. ByAddress /\ OnSecond /\ Reads
      BY <1>2, <3>1 DEF PeerInv, OnFirst, LeftFirst
    <3>3. SendsOn
      BY <1>1, <3>2 DEF Reads, SendsNew
    <3>4. Turn \in Nat
      BY <1>2, <1>3, SecondTurn
    <3> QED
      BY <3>1, <3>2, <3>3, <3>4
  <2>2. p.hk = SecondHK /\ p.dh = Peer.r.own /\ p.key = Link(SecondRoot, Got - Turn)
    <3>1. Posted(Got + 1) = Second(Got - Turn)
      <4>1. (Got + 1) - Turn - 1 = Got - Turn
        BY <1>3, <2>1
      <4> QED
        BY <1>6, <4>1 DEF Posted
    <3> QED
      BY <1>3, <3>1 DEF Second
  <2>3. ASSUME SameSending(r, d.state), Ours' = d.state, Peer' = Peer, contact'.kind = contact.kind, Got' = Got + 1,
               d.state.receiving = Link(SecondRoot, (Got - Turn) + 1), d.state.recvHK = SecondHK
        PROVE  Keeps(Ours, Ours') /\ ReadsSecond'
    <3>1. Keeps(Ours, Ours')
      BY <1>0, <2>3 DEF Keeps, SameSending
    <3>2. Turn' = Turn /\ SecondRoot' = SecondRoot /\ SendsOn'
      BY <2>1, <2>3, <3>1, ChainKept, PeerKept
    <3>3. (Got - Turn) + 1 = Got' - Turn' /\ Got' > Turn'
      BY <1>3, <1>6, <2>1, <2>3, <3>2
    <3>4. ReadsSecond'
      BY <2>1, <2>3, <3>2, <3>3, KindStays DEF ReadsSecond
    <3> QED
      BY <3>1, <3>4
  <2>4. CASE ReadsFirst
    <3>1. Got - Turn = 0
      BY <1>3, <1>6, <2>1, <2>4 DEF ReadsFirst
    <3>2. r.recvHK # p.hk /\ p.hk = r.nextRecvHK
      <4>1. FirstHK # SecondHK
        BY Unlike DEF FirstHK, SecondHK
      <4> QED
        BY <1>0, <2>2, <2>4, <4>1 DEF ReadsFirst
    <3>3. Append(r.root, DH(p.dh, r.own)) = SecondRoot
      BY <1>0, <2>1, <2>2, <2>4 DEF ReadsFirst, SecondRoot, SendsOn
    <3>4. PICK root : root = SecondRoot
      OBVIOUS
    <3>5. p.key = Chain(root) /\ Advanced(Chain(root)) = Link(root, (Got - Turn) + 1)
      <4>1. Chain(root) = Link(root, 0) /\ Advanced(Link(root, 0)) = Link(root, 0 + 1)
        BY Unlike
      <4> QED
        BY <2>2, <3>1, <3>4, <4>1
    <3>6. d.ok /\ SameSending(r, d.state) /\ d.state.receiving = Advanced(Chain(root)) /\ d.state.recvHK = p.hk
      BY <1>0, <1>4, <3>2, <3>3, <3>4, <3>5, ReadsNew
    <3> QED
      BY <1>0, <1>1, <2>1, <2>2, <2>3, <3>4, <3>5, <3>6 DEF Readable, Ours, SendsNew, SendsOn
  <2>5. CASE ReadsSecond
    <3>1. r.recvHK = p.hk /\ r.receiving = p.key /\ r.receiving # NoChain
      BY <1>0, <2>2, <2>5, SecondRootFits DEF ReadsSecond
    <3>2. d.ok /\ SameSending(r, d.state) /\ d.state.receiving = Advanced(r.receiving) /\ d.state.recvHK = r.recvHK
      BY <1>0, <1>4, <3>1, ReadsOn
    <3>3. Advanced(r.receiving) = Link(SecondRoot, (Got - Turn) + 1)
      BY <2>2, <3>1, Unlike
    <3> QED
      BY <1>0, <1>1, <2>1, <2>2, <2>3, <3>1, <3>2, <3>3 DEF Readable, Ours, SendsNew, SendsOn
  <2> QED
    BY <1>1, <2>4, <2>5
<1>7. CASE Got + 1 <= Turn /\ ~ReadsFirst
  <2>1. Turn \in Int
    BY <1>2, <1>3, SecondTurn
  <2> QED
    BY <1>1, <1>3, <1>7, <2>1 DEF ReadsSecond
<1> QED
  BY <1>5, <1>6, <1>7

\* A step after the accept, by what becomes of the chains, the line and the calls.
Follows == \A i \in 1 .. Len(Queue') : \E j \in 1 .. Len(Queue) : Queue'[i] = Queue[j]

LEMMA AcceptedMoves ==
  ASSUME Once, TInv, QInv, HInv, contact.state \in {"active", "suspended"},
         contact'.state \in {"active", "suspended"}, contact'.kind = contact.kind,
         stored'.pending = FALSE, stored'.session = 1, Peer' = Peer, Follows,
         UNCHANGED <<secured, outbox>>, keys' \in Nat, keys' >= keys, \A t \in tasks' : t \in tasks \/ t.type = "ack",
         SendsOn' \/ SendsNew', ReadsFirst' \/ ReadsSecond', PeerInv',
         \A o : OfOurs(o) => OfOurs(o)', \A j \in 0 .. Peer.sent : Posted(j)' = Posted(j),
         \A c \in Call : call'[c] = call[c] \/ (Free(c)' /\ Busy(c)' /\ Sends(c)')
  PROVE  HInv'
<1>1. OutInv /\ Line /\ ConfirmInv /\ Peer.up
  BY DEF HInv, AcceptedInv, TogetherInv, SyncInv, Stuck
<1>2. \A c \in Call : Free(c)' /\ Busy(c)' /\ Sends(c)'
  <2>1. \A c \in Call : Free(c) /\ Busy(c) /\ Sends(c)
    BY <1>1 DEF HInv, HoldInv, Holding, BusyInv, OutInv
  <2> SUFFICES ASSUME NEW c \in Call, call'[c] = call[c] PROVE Free(c)' /\ Busy(c)' /\ Sends(c)'
    OBVIOUS
  <2> QED
    BY <2>1 DEF Free, Busy, Sends
<1>3. OutboxInv'
  BY <1>1 DEF OutInv, OutboxInv
<1>4. Line'
  <2> SUFFICES ASSUME NEW i \in 1 .. Len(Queue'), NEW k, k = Number(Queue'[i]) PROVE Queue'[i].p = Posted(k)'
    BY DEF Line, Number
  <2>1. PICK j \in 1 .. Len(Queue) : Queue'[i] = Queue[j]
    BY DEF Follows
  <2>2. Queue[j].p = Posted(k) /\ k \in 0 .. Peer.sent
    BY <1>1, <2>1, QueueIs DEF Line, QInv
  <2> QED
    BY <2>1, <2>2
<1>5. ConfirmInv'
  <2> SUFFICES ASSUME NEW i \in 1 .. Len(Queue'), Queue'[i].env = "confirmation" PROVE \A m : m = Queue'[i] => Confirms(m)'
    BY DEF ConfirmInv
  <2>1. PICK j \in 1 .. Len(Queue) : Queue'[i] = Queue[j]
    BY DEF Follows
  <2> QED
    BY <1>1, <2>1, KindStays DEF ConfirmInv
<1>6. secured'[1] <= keys' /\ Peer'.up
  <2>1. secured[1] \in Nat /\ keys \in Nat
    BY OneSession DEF TInv, ServerInv, LogInv
  <2> QED
    BY <1>1, <2>1 DEF HInv
<1> QED
  BY <1>2, <1>3, <1>4, <1>5, <1>6, Settled

LEMMA SameQueue ==
  ASSUME Queue' = Queue
  PROVE  Follows /\ (Peer' = Peer /\ received' = received => Got' = Got)
<1>1. Follows
  BY DEF Follows
<1> QED
  BY <1>1 DEF Got, Passed, Known

\* An ACK takes the head of the queue when it was taken, or nothing.
LEMMA AckedQueue ==
  ASSUME Once, TInv, QInv, NEW what, what \in Triple => what \in received, UNCHANGED received, Peer' = Peer,
         Queue' \in {Queue, Acked(1, what)}
  PROVE  Follows /\ Got' = Got
<1>1. CASE Queue' = Queue
  BY <1>1, SameQueue
<1>2. CASE Queue' # Queue
  <2>1. PICK q, l, h : q = Queue /\ l = Len(q) /\ h = Head(q)
    OBVIOUS
  <2>2. q # <<>> /\ h.what = what /\ Queue' = Tail(q)
    BY <1>2, <2>1 DEF Acked, Queue
  <2>3. q \in Seq(Post) /\ l \in Nat /\ l > 0 /\ h = q[1] /\ h \in Post /\ Peer.sent \in Nat
        /\ Number(h) + l = Peer.sent + 1 /\ Number(h) \in Nat
    <3>1. q \in Seq(Post) /\ l \in Nat /\ l > 0 /\ h = q[1] /\ Peer.sent \in Nat
      BY <2>1, <2>2, QueueIs DEF QInv
    <3>2. 1 \in 1 .. l
      BY <3>1
    <3> QED
      BY <2>1, <3>1, <3>2, QueueIs DEF QInv
  <2>4. Tail(q) \in Seq(Post) /\ Len(Tail(q)) = l - 1 /\ \A i \in 1 .. Len(Tail(q)) : Tail(q)[i] = q[i + 1]
    BY <2>1, <2>2, <2>3, HeadTailProperties
  <2>5. Passed
    <3>1. h.env = "message" => h.what \in received
      BY <2>2, <2>3 DEF Post, FromPeer
    <3>2. h.env # "message" => h.env = "confirmation"
      BY <2>3 DEF Post, FromPeer
    <3> QED
      BY <2>1, <2>2, <3>1, <3>2 DEF Passed, Known
  <2>6. ~Passed'
    <3> SUFFICES ASSUME Queue' # <<>>, Head(Queue').env = "confirmation" \/ Head(Queue').what \in received PROVE FALSE
      BY DEF Passed, Known
    <3>1. PICK g : g = Head(Queue')
      OBVIOUS
    <3>2. g = q[2] /\ 2 \in 1 .. l
      BY <2>2, <2>3, <2>4, <3>1, EmptySeq, HeadTailProperties
    <3>3. g \in Post /\ Number(g) + l = Peer.sent + 2
      BY <2>1, <3>2, QueueIs DEF QInv
    <3>4. g.env = "message" /\ g.what \in Triple /\ g.what[3] = Number(g) /\ Number(g) = Number(h) + 1
      <4>1. Number(g) # 0 /\ Number(g) = Number(h) + 1
        <5>1. Number(g) \in Nat
          BY <3>3 DEF Number, Post, FromPeer, Triple
        <5> QED
          BY <2>3, <3>3, <5>1
      <4> QED
        BY <3>3, <4>1 DEF Number, Post, FromPeer
    <3>5. g.what \in received
      BY <3>1, <3>4
    <3>6. g.what[2] = 1
      BY <3>5, OnlyOne DEF QInv, TakenInv
    <3>7. g.what[3] + l <= Peer.sent \/ g.what = h.what
      BY <2>1, <2>2, <3>5, <3>6 DEF QInv, TakenInv, Queue, Peer
    <3>8. g.what = h.what
      BY <2>3, <3>3, <3>4, <3>7
    <3>9. h.env = "message"
      BY <2>3, <3>4, <3>8, NoTriple DEF Post, FromPeer
    <3>10. Number(h) = Number(g)
      BY <3>4, <3>8, <3>9 DEF Number
    <3> QED
      BY <2>3, <3>4, <3>10
  <2>7. Got' = Got
    BY <2>1, <2>2, <2>3, <2>4, <2>5, <2>6 DEF Got
  <2>8. Follows
    <3> SUFFICES ASSUME NEW i \in 1 .. Len(Queue') PROVE \E j \in 1 .. Len(Queue) : Queue'[i] = Queue[j]
      BY DEF Follows
    <3>1. i + 1 \in 1 .. l /\ Queue'[i] = q[i + 1]
      BY <2>2, <2>3, <2>4
    <3> QED
      BY <2>1, <3>1
  <2> QED
    BY <2>7, <2>8
<1> QED
  BY <1>1, <1>2

\* The chains of an accepted contact, when nothing is sealed or taken.
LEMMA ChainsStay ==
  ASSUME HInv, contact.state \in {"active", "suspended"}, contact'.kind = contact.kind,
         stored' = stored, Peer' = Peer, Got' = Got
  PROVE  /\ SendsOn' \/ SendsNew'
         /\ ReadsFirst' \/ ReadsSecond'
         /\ PeerInv' /\ (\A o : OfOurs(o) => OfOurs(o)') /\ \A j \in 0 .. Peer.sent : Posted(j)' = Posted(j)
<1>1. Ours' = Ours /\ Keeps(Ours, Ours')
  BY DEF Ours, Keeps
<1>2. (SendsOn \/ SendsNew) /\ (ReadsFirst \/ ReadsSecond) /\ PeerInv
  BY DEF HInv, AcceptedInv, TogetherInv, SyncInv, Stuck
<1>3. PeerInv' /\ Turn' = Turn /\ SecondRoot' = SecondRoot /\ \A k : Posted(k)' = Posted(k)
  BY <1>1, <1>2, PeerKept
<1>4. (SendsOn => SendsOn') /\ \A o : OfOurs(o) => OfOurs(o)'
  BY <1>1, ChainKept
<1>5. SendsNew => SendsNew'
  BY <1>1, KindStays DEF SendsNew
<1>6. ReadsFirst => ReadsFirst'
  BY <1>1, <1>3, KindStays DEF ReadsFirst
<1>7. ReadsSecond => ReadsSecond'
  BY <1>1, <1>3, <1>4, KindStays DEF ReadsSecond
<1> QED
  BY <1>2, <1>3, <1>4, <1>5, <1>6, <1>7

LEMMA ChainsStayHead ==
  ASSUME Once, TInv, QInv, HInv, contact.state \in {"active", "suspended"},
         contact'.state \in {"active", "suspended"}, contact'.kind = contact.kind,
         UNCHANGED <<stored, peer, secured, outbox, keys>>, Follows, Got' = Got,
         \A t \in tasks' : t \in tasks \/ t.type = "ack",
         \A c \in Call : call'[c] = call[c] \/ call'[c] = IdleCall
  PROVE  HInv'
<1>1. Peer' = Peer /\ stored'.pending = FALSE /\ stored'.session = 1 /\ keys' \in Nat /\ keys' >= keys
  BY DEF Peer, HInv, AcceptedInv, TInv, LogInv
<1>2. \A c \in Call : call'[c] = IdleCall => Free(c)' /\ Busy(c)' /\ Sends(c)'
  BY EndsWith DEF Free, HoldSteps, Busy, Sends
<1>3. /\ SendsOn' \/ SendsNew'
      /\ ReadsFirst' \/ ReadsSecond'
      /\ PeerInv' /\ (\A o : OfOurs(o) => OfOurs(o)') /\ \A j \in 0 .. Peer.sent : Posted(j)' = Posted(j)
  BY <1>1, ChainsStay
<1> QED
  BY <1>1, <1>2, <1>3, AcceptedMoves

LEMMA SuspendHead ==
  ASSUME Once, TInv, QInv, HInv, SuspendContact
  PROVE  HInv'
<1>1. /\ contact.state = "active" /\ contact' = [contact EXCEPT !.state = "suspended"]
      /\ UNCHANGED <<stored, tasks, received, call, inbox, secured, outbox, peer, keys>>
  BY DEF SuspendContact, servers
<1>2. contact'.state = "suspended" /\ contact'.kind = contact.kind
  BY <1>1 DEF TInv, StoreInv, ContactSet
<1>3. Follows /\ Got' = Got
  BY <1>1, SameQueue DEF Queue, Peer
<1> QED
  BY <1>1, <1>2, <1>3, ChainsStayHead

LEMMA DrainHead ==
  ASSUME Once, TInv, QInv, HInv, NEW t \in tasks, Drain(t)
  PROVE  HInv'
<1>1. CASE t.type = "packet"
  BY <1>1, PacketHead
<1>2. CASE t.type # "packet"
  <2>1. /\ t.type = "ack" /\ tasks' = tasks \ {t} /\ inbox' = [inbox EXCEPT ![t.o.n] = Acked(t.o.n, t.o.what)]
        /\ UNCHANGED <<contact, stored, received, call, secured, outbox, peer, keys>>
    BY <1>2 DEF Drain
  <2>2. contact.state \in {"active", "suspended"}
    BY <2>1 DEF HInv, BlankInv, WaitInv, TInv, StoreInv, ContactSet
  <2>3. t.o.n = 1
    BY OneSession DEF TInv, LogInv, TaskSet
  <2>4. PICK what : what = t.o.what
    OBVIOUS
  <2>5. Queue' = Acked(1, what)
    BY <2>1, <2>3, <2>4, OneSession DEF Queue, TInv, ServerInv
  <2>6. what \in Triple => what \in received
    BY <2>1, <2>4 DEF QInv, AckInv
  <2>7. Follows /\ Got' = Got
    BY <2>1, <2>5, <2>6, AckedQueue DEF Peer
  <2> QED
    BY <2>1, <2>2, <2>7, ChainsStayHead
<1> QED
  BY <1>1, <1>2

LEMMA SealHead ==
  ASSUME Once, TInv, QInv, HInv, NEW c \in Call, NEW what, what[1] \notin {"address", "join"},
         NEW step \in {"sending", "receipting"}, NEW held,
         contact.state \in {"active", "suspended"}, held.state = "active", held.kind = contact.kind,
         Seal(c, what, step, held), UNCHANGED <<peer, secured, outbox>>, Follows, Got' = Got,
         \A t \in tasks' : t \in tasks \/ t.type = "ack"
  PROVE  HInv'
<1>1. keys \in Nat /\ keys + 1 \in Nat /\ stored.session = 1
  BY DEF TInv, LogInv, HInv, AcceptedInv
<1>2. PICK k, e, o : k = keys + 1 /\ e = Encrypt(Ours, Mine(1, k)) /\ o = Outgoing(held.session, held.key, what, e.packet)
  OBVIOUS
<1>3. /\ stored' = Saved(stored, e.state) /\ contact' = held /\ keys' \in {keys, keys + 1}
      /\ call' = [call EXCEPT ![c] = [IdleCall EXCEPT !.step = step, !.sent = o]]
  BY <1>1, <1>2 DEF Seal, Ours
<1>4. Ours' = e.state /\ stored'.pending = FALSE /\ stored'.session = 1
  BY <1>1, <1>3 DEF Saved, Record, Ours
<1>5. Peer' = Peer /\ contact'.kind = contact.kind /\ contact'.state = "active"
  BY <1>3 DEF Peer
<1>6. /\ SendsOn' /\ PeerInv'
      /\ \A x : OfOurs(x) => OfOurs(x)'
      /\ \A x : x.p = e.packet /\ x.what[1] \notin {"address", "join"} => OfOurs(x)'
      /\ \A j \in 0 .. Peer.sent : Posted(j)' = Posted(j)
      /\ ReadsFirst' \/ ReadsSecond'
  <2>1. (SendsOn \/ SendsNew) /\ (ReadsFirst \/ ReadsSecond) /\ PeerInv
    BY DEF HInv, AcceptedInv, TogetherInv, SyncInv, Stuck
  <2>2. k \in Nat
    BY <1>1, <1>2
  <2> QED
    BY <1>2, <1>4, <1>5, <2>1, <2>2, SealRatchet
<1>7. \A d \in Call : call'[d] = call[d] \/ (Free(d)' /\ Busy(d)' /\ Sends(d)')
  <2>1. PICK x : x = [IdleCall EXCEPT !.step = step, !.sent = o]
    OBVIOUS
  <2>2. x.step = step /\ x.sent = o
    BY <2>1 DEF IdleCall
  <2>3. call'[c] = x /\ \A d \in Call \ {c} : call'[d] = call[d]
    BY <1>3, <2>1, Turns
  <2>4. o.p = e.packet /\ o.what = what
    BY <1>2 DEF Outgoing
  <2>5. \A y : y = o => OfOurs(y)'
    BY <1>6, <2>4
  <2>6. Sends(c)'
    BY <2>2, <2>3, <2>5 DEF Sends
  <2>7. Free(c)' /\ Busy(c)'
    BY <1>5, <2>2, <2>3 DEF Free, HoldSteps, Busy
  <2> QED
    BY <2>3, <2>6, <2>7
<1>8. keys' \in Nat /\ keys' >= keys
  BY <1>1, <1>3
<1> QED
  BY <1>4, <1>5, <1>6, <1>7, <1>8, AcceptedMoves

LEMMA BeginSendHead ==
  ASSUME Once, TInv, QInv, HInv, NEW c \in Call, BeginSend(c)
  PROVE  HInv'
<1>1. PICK what, step, held : what = <<"chat", sends + 1>> /\ step = "sending" /\ held = contact
  OBVIOUS
<1>2. contact.state = "active" /\ Seal(c, what, step, held) /\ UNCHANGED <<tasks, received, inbox, secured, outbox, peer>>
  BY <1>1 DEF BeginSend, servers
<1>3. Follows /\ Got' = Got
  BY <1>2, SameQueue DEF Queue, Peer
<1>4. what[1] \notin {"address", "join"} /\ step \in {"sending", "receipting"}
  BY <1>1
<1> QED
  BY <1>1, <1>2, <1>3, <1>4, SealHead

LEMMA AckEndsHead ==
  ASSUME Once, TInv, QInv, HInv, NEW c \in Call, AckEnds(c)
  PROVE  HInv'
<1>1. PICK what, receipt, step, held :
        what = call[c].msg.what /\ receipt = <<"receipt", what>> /\ step = "receipting" /\ held = call[c].contact
  OBVIOUS
<1>2. call[c].step \in {"acking", "acking text"} /\ call[c].n = 1
  <2>1. call[c].step \in {"acking", "acking text"}
    BY DEF AckEnds
  <2>2. call[c].n \in Session
    BY <2>1 DEF TInv, CallsInv, Fits
  <2> QED
    BY <2>1, <2>2, OneSession
<1>3. Queue' \in {Queue, Acked(1, what)}
  <2>1. \E how \in Outcome : inbox' = IF Done(how) THEN [inbox EXCEPT ![1] = Acked(1, what)] ELSE inbox
    BY <1>1, <1>2 DEF AckEnds
  <2> QED
    BY <2>1, OneSession DEF Queue, TInv, ServerInv
<1>4. \A t \in tasks' : t \in tasks \/ t.type = "ack"
  <2>1. \E o : tasks' \subseteq tasks \cup {[type |-> "ack", o |-> o]}
    BY DEF AckEnds
  <2> QED
    BY <2>1
<1>5. UNCHANGED <<received, secured, outbox, peer>>
  BY DEF AckEnds
<1>6. contact.state \in {"active", "suspended"}
  BY <1>2 DEF HInv, BusyInv, Busy
<1>7. Follows /\ Got' = Got
  <2>1. what \in Triple => what \in received
    BY <1>1 DEF QInv, AckInv
  <2> QED
    BY <1>3, <1>5, <2>1, AckedQueue DEF Peer
<1>8. CASE End(c) /\ UNCHANGED <<contact, stored, keys>>
  <2>1. \A d \in Call : call'[d] = call[d] \/ call'[d] = IdleCall
    BY <1>8, Turns DEF End
  <2>2. UNCHANGED <<stored, peer, secured, outbox, keys>> /\ contact' = contact
    BY <1>5, <1>8
  <2> QED
    BY <1>4, <1>6, <1>7, <2>1, <2>2, ChainsStayHead
<1>9. CASE At(c, "acking text") /\ Seal(c, receipt, step, held)
  <2>1. held.state = "active" /\ held.kind = contact.kind
    BY <1>1, <1>9 DEF At, TInv, CallsInv, Fits, HInv, BusyInv, Busy
  <2>2. receipt[1] \notin {"address", "join"} /\ step \in {"sending", "receipting"}
    BY <1>1
  <2>3. UNCHANGED <<peer, secured, outbox>> /\ Seal(c, receipt, step, held)
    BY <1>5, <1>9
  <2> QED
    BY <1>4, <1>6, <1>7, <2>1, <2>2, <2>3, SealHead
<1> QED
  BY <1>1, <1>8, <1>9 DEF AckEnds

\* The next message of the peer is taken.
LEMMA TakenHead ==
  ASSUME Once, TInv, QInv, HInv, NEW c \in Call, contact.state \in {"active", "suspended"},
         Queue # <<>>, NEW m, m = Head(Queue), m.env = "message", ~Known(m), Take(m),
         UNCHANGED <<contact, tasks, servers, keys>>,
         \A d \in Call : call'[d] = call[d] \/ (Free(d)' /\ Busy(d)' /\ Sends(d)')
  PROVE  HInv'
<1>1. Peer' = Peer /\ Queue' = Queue /\ contact'.kind = contact.kind /\ Follows
  BY SameQueue DEF servers, Peer, Queue
<1>2. Ours' = Decrypt(Ours, m.p).state /\ stored'.pending = stored.pending /\ stored'.session = stored.session
  BY DEF Take, Ours, TInv, StoreInv, RecordSet
<1>3. Got' = Got + 1
  <2>1. ~Passed
    BY DEF Passed
  <2>2. Passed'
    BY <1>1 DEF Passed, Known, Take
  <2>3. Peer.sent \in Nat /\ Len(Queue) \in Nat
    BY QueueIs DEF QInv
  <2> QED
    BY <1>1, <2>1, <2>2, <2>3 DEF Got
<1>4. Keeps(Ours, Ours') /\ (SendsNew => SendsNew') /\ (ReadsFirst' \/ ReadsSecond')
  BY <1>1, <1>2, <1>3, NextOpens
<1>5. (SendsOn \/ SendsNew) /\ PeerInv /\ stored.pending = FALSE /\ stored.session = 1
  BY DEF HInv, AcceptedInv, TogetherInv, SyncInv, Stuck
<1>6. PeerInv' /\ \A k : Posted(k)' = Posted(k)
  BY <1>1, <1>4, <1>5, PeerKept
<1>7. (SendsOn => SendsOn') /\ \A o : OfOurs(o) => OfOurs(o)'
  BY <1>1, <1>4, ChainKept
<1>8. keys' \in Nat /\ keys' >= keys /\ contact'.state \in {"active", "suspended"} /\ UNCHANGED <<secured, outbox, tasks>>
  BY DEF TInv, LogInv, servers
<1> QED
  BY <1>1, <1>2, <1>4, <1>5, <1>6, <1>7, <1>8, AcceptedMoves

LEMMA MessageArrivesHead ==
  ASSUME Once, TInv, QInv, HInv, NEW c \in Call, MessageArrives(c)
  PROVE  HInv'
<1>1. /\ call[c].step = "receiving" /\ call[c].n = 1 /\ call[c].contact.kind = contact.kind
      /\ contact.state \in {"active", "suspended"} /\ call[c] \in CallSet
  <2>1. call[c].step = "receiving"
    BY DEF MessageArrives, At
  <2>2. call[c].n \in Session /\ call[c] \in CallSet
    BY <2>1 DEF TInv, CallsInv, Fits
  <2> QED
    BY <2>1, <2>2, OneSession DEF HInv, BusyInv, Busy
<1>2. PICK m : m = Head(Queue)
  OBVIOUS
<1>3. UNCHANGED <<contact, tasks, servers, keys>> /\ Queue # <<>>
  BY <1>1 DEF MessageArrives, counters, Queue
<1>4. \/ End(c) /\ UNCHANGED <<stored, received>>
      \/ /\ call' = [call EXCEPT ![c].step = "acking", ![c].msg = m]
         /\ UNCHANGED <<stored, received>>
      \/ /\ \E step \in {"acking", "acking text"} : call' = [call EXCEPT ![c].step = step, ![c].msg = m]
         /\ m.env = "message" /\ ~Known(m) /\ Take(m)
  BY <1>1, <1>2 DEF MessageArrives, Queue, Readable
<1>5. CASE End(c) /\ UNCHANGED <<stored, received>>
  BY <1>1, <1>3, <1>5, QuietHead DEF At
<1>6. ASSUME NEW step \in {"acking", "acking text"}, call' = [call EXCEPT ![c].step = step, ![c].msg = m]
      PROVE  \E k : call' = [call EXCEPT ![c] = k] /\ k.step = step /\ k.contact = call[c].contact
  <2>1. PICK k : k = [call[c] EXCEPT !.step = step, !.msg = m]
    OBVIOUS
  <2>2. k.step = step /\ k.contact = call[c].contact
    BY <1>1, <2>1 DEF CallSet
  <2> QED
    BY <1>6, <2>1, <2>2
<1>7. CASE call' = [call EXCEPT ![c].step = "acking", ![c].msg = m] /\ UNCHANGED <<stored, received>>
  <2>1. \E k : call' = [call EXCEPT ![c] = k] /\ k.step = "acking" /\ k.contact = call[c].contact
    BY <1>6, <1>7
  <2> QED
    BY <1>1, <1>3, <1>7, <2>1, QuietHead DEF At
<1>8. CASE /\ \E step \in {"acking", "acking text"} : call' = [call EXCEPT ![c].step = step, ![c].msg = m]
           /\ m.env = "message" /\ ~Known(m) /\ Take(m)
  <2>0. PICK step \in {"acking", "acking text"} : call' = [call EXCEPT ![c].step = step, ![c].msg = m]
    BY <1>8
  <2>1. PICK k : call' = [call EXCEPT ![c] = k] /\ k.step = step /\ k.contact = call[c].contact
    BY <1>6, <2>0
  <2>2. call'[c] = k /\ \A d \in Call \ {c} : call'[d] = call[d]
    BY <2>1, Turns
  <2>3. Free(c)' /\ Busy(c)' /\ Sends(c)'
    BY <1>1, <1>3, <2>1, <2>2 DEF Free, HoldSteps, Busy, Sends
  <2>4. m.env = "message" /\ ~Known(m) /\ Take(m)
    BY <1>8
  <2>5. \A d \in Call : call'[d] = call[d] \/ (Free(d)' /\ Busy(d)' /\ Sends(d)')
    BY <2>2, <2>3
  <2> QED
    BY <1>1, <1>2, <1>3, <2>4, <2>5, TakenHead
<1> QED
  BY <1>4, <1>5, <1>7, <1>8

-----------------------------------------------------------------------------
(* Every step, and what the invariant says of the head.                    *)

LEMMA InitHead == ASSUME Once, Init PROVE HInv
<1>1. contact.state = "none" /\ outbox = {} /\ tasks = {} /\ secured[1] = 0 /\ keys = 3 /\ ~Peer.up
  BY OneSession DEF Init, NoContact, Peer, NoPeer
<1>2. \A c \in Call : call[c] = IdleCall
  BY DEF Init
<1>3. BlankInv /\ WaitInv /\ AcceptedInv /\ TogetherInv
  BY <1>1 DEF BlankInv, WaitInv, AcceptedInv, TogetherInv
<1>4. BusyInv /\ HoldInv
  BY <1>2, EndsWith DEF BusyInv, Busy, HoldInv, Free, HoldSteps
<1> QED
  BY <1>1, <1>3, <1>4 DEF HInv

LEMMA NextHead ==
  ASSUME Once, TInv, TInv', QInv, OInv, HInv, [Next]_vars
  PROVE  HInv'
<1>1. CASE UNCHANGED vars
  <2>1. UNCHANGED <<contact, stored, tasks, received, call, inbox, secured, outbox, peer, keys>>
    BY <1>1 DEF vars, servers
  <2>2. Leaves /\ \A c \in Call : MovesOn(c)
    BY <2>1 DEF Leaves, MovesOn, TInv, LogInv
  <2>3. \A o : OfOurs(o) => OfOurs(o)'
    BY <2>2, LeavesIs, ChainKept
  <2>4. OutInv => OutboxInv'
    BY <2>1, <2>3 DEF OutInv, OutboxInv
  <2>5. OutGrows
    BY <2>1, <2>4 DEF OutGrows, HInv, BlankInv, WaitInv
  <2> QED
    BY <2>2, <2>5, StepMovesOn
<1>2. ASSUME NEW c \in Call, CallStep(c) PROVE HInv'
  <2>1. CASE BeginRequest(c) \/ Throws(c) \/ BeginAccept(c) \/ BeginReceive(c)
    BY <2>1, BeginHead
  <2>2. CASE QueueCreated(c)
    BY <2>2, QueueCreatedHead
  <2>3. CASE BeginSend(c) \/ SendEnds(c) \/ AckEnds(c)
    BY <2>3, BeginSendHead, SendEndsHead, AckEndsHead
  <2>4. CASE AcceptArrives(c) \/ AcceptSecured(c)
    BY <2>4, AcceptArrivesHead, AcceptSecuredHead
  <2>5. CASE SenderSecured(c) \/ InfoSent(c)
    BY <2>5, SenderSecuredHead, InfoSentHead
  <2>6. CASE MessageArrives(c)
    BY <2>6, MessageArrivesHead
  <2> QED
    BY <1>2, <2>1, <2>2, <2>3, <2>4, <2>5, <2>6 DEF CallStep
<1>3. ASSUME NEW n \in Session, PeerAnswers(n) \/ PeerSends(n) \/ PeerReads(n) PROVE HInv'
  <2>1. n = 1
    BY OneSession
  <2> QED
    BY <1>3, <2>1, PeerAnswersHead, PeerSendsHead, PeerReadsHead
<1> QED
  BY <1>1, <1>2, <1>3, DrainHead, SuspendHead DEF Next

LEMMA HeadOpens == ASSUME Once, TInv, QInv, HInv PROVE HeadReadable
<1> SUFFICES ASSUME NEW n, n = contact.session, n # 0, inbox[n] # <<>>, NEW m, m = Head(inbox[n])
             PROVE  /\ contact.state = "requested" => Acceptable(stored, m)
                    /\ contact.state = "active" /\ m.env = "message" /\ ~Known(m) => Readable(stored, m)
  BY DEF HeadReadable
<1>1. n = 1
  BY OneSession DEF TInv, StoreInv, ContactSet
<1>2. Queue # <<>> /\ m = Head(Queue)
  BY <1>1 DEF Queue
<1>3. contact.state = "requested" => Acceptable(stored, m)
  BY <1>2, OpeningIs
<1>4. contact.state = "active" /\ m.env = "message" /\ ~Known(m) => Readable(stored, m)
  BY <1>2, NextOpens
<1> QED
  BY <1>3, <1>4

\* Of a contact that was asked for once, when a message is given to one call at
\* a time, what is at the head of the reply queue can be opened with the ratchet
\* that is in the store, whatever is sent, received, lost and queued meanwhile.
THEOREM NextIsReadable == ASSUME Once PROVE Spec => []HeadReadable
<1>1. TInv /\ QInv /\ HInv => HeadReadable
  BY HeadOpens
<1>2. Init => TInv /\ QInv /\ KInv /\ OInv /\ HInv
  BY InitTypes, InitQueue, InitKeys, InitOwed, InitHead
<1>3. TInv /\ QInv /\ KInv /\ OInv /\ HInv /\ [Next]_vars => TInv' /\ QInv' /\ KInv' /\ OInv' /\ HInv'
  BY NextTypes, NextQueue, NextKeys, NextOwed, NextHead
<1> QED
  BY <1>1, <1>2, <1>3, PTL DEF Spec
=============================================================================
