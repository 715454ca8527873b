---------------------------- MODULE NativeContact ----------------------------
(***************************************************************************)
(* A contact with a native SimpleX agent, as the contact client keeps it:  *)
(* requestNativeContact, receiveNativeContactAccept, sendNativeChatBody,   *)
(* the native half of receiveNext and sendNativeAgentReceipt, with the     *)
(* retry tasks they leave.  Every await is a step of its own: calls        *)
(* interleave there, and a command may fail before or after the server     *)
(* has carried it out.                                                     *)
(*                                                                         *)
(* The peer and the SMP servers are outside the repository and modelled    *)
(* from how the code uses them: a queue keeps its head until it is         *)
(* acknowledged, a queue is secured by one key, the peer sends in order    *)
(* and makes a new sending chain when it reads a new DH key.               *)
(***************************************************************************)
EXTENDS NativeRatchet, FiniteSets

CONSTANTS
  Call,         \* concurrent calls of the contact client
  MaxRequests,  \* bound: calls of requestContact
  MaxSend,      \* bound: messages the host sends
  MaxPeer,      \* bound: messages the peer sends
  MaxFaults,    \* bound: commands that fail
  MaxKeys,      \* bound: key pairs made when an accept is begun
  FaultSteps,   \* bound: the awaits at which a command may fail
  Redelivers    \* whether a message is pushed again while an accept has it

ASSUME NativeAssumption ==
  MaxRequests \in Nat /\ MaxSend \in Nat /\ MaxPeer \in Nat /\ MaxFaults \in Nat /\ MaxKeys \in Nat /\ Redelivers \in BOOLEAN

VARIABLES
  contact,   \* store: the contact
  stored,    \* store: its ratchet record
  tasks,     \* store: retry tasks
  received,  \* store: the messages recorded as received
  call,      \* where each call is
  inbox,     \* server: the reply queue of each request
  secured,   \* server: the key that secures the peer's queue
  outbox,    \* server: what was put into the peer's queues
  peer,      \* the peer's end of each request
  requests, sends, faults,  \* counters of the bounds
  keys,      \* the number of key pairs made
  sealed,    \* history: every packet the client encrypted
  read       \* history: the peer's messages, as the client took them

servers  == <<inbox, secured, outbox, peer>>
counters == <<requests, sends, faults>>
vars     == <<contact, stored, tasks, received, call, servers, counters, keys, sealed, read>>

Session == 1 .. MaxRequests

Mine(n, k)   == Key("client", n, k)
Theirs(n, k) == Key("peer", n, k)
NoRatchet    == ReceivingRatchet(<<>>, NoKey)
NoPeer       == [up |-> FALSE, r |-> NoRatchet, sent |-> 0]

\* A message of the reply queue: its envelope, its private header, the mode of
\* the queue it names, what it says and the packet.
Message(env, e2e, header, mode, what, p) ==
  [env |-> env, e2e |-> e2e, header |-> header, mode |-> mode, what |-> what, p |-> p]

\* What is put into the peer's queue of request n, signed with a key.
Outgoing(n, key, what, p) == [n |-> n, key |-> key, what |-> what, p |-> p]

\* The stored ratchet: the X3DH keys of request n, or a ratchet with the id of
\* the next message; zero when the record has none yet.
Record(pending, n, r, next) == [pending |-> pending, session |-> n, r |-> r, next |-> next]

NoPacket  == [hk |-> NoHeaderKey, dh |-> NoKey, key |-> NoChain]
NoContact == [state |-> "none", kind |-> "address", session |-> 0, key |-> 0]
NoRecord  == Record(FALSE, 0, NoRatchet, 0)
IdleCall  == [step |-> "idle", n |-> 0, key |-> 0, contact |-> NoContact, stored |-> NoRecord,
              msg |-> Message("none", FALSE, "empty", "C", <<"none">>, NoPacket),
              sent |-> Outgoing(0, 0, <<"none">>, NoPacket)]
At(c, step) == call[c].step = step
End(c) == call' = [call EXCEPT ![c] = IdleCall]

Init ==
  /\ contact = NoContact /\ stored = NoRecord
  /\ tasks = {} /\ received = {} /\ outbox = {} /\ sealed = {} /\ read = <<>>
  /\ call = [c \in Call |-> IdleCall]
  /\ inbox = [n \in Session |-> <<>>]
  /\ secured = [n \in Session |-> 0]
  /\ peer = [n \in Session |-> NoPeer]
  /\ requests = 0 /\ sends = 0 /\ faults = 0 /\ keys = 3

-----------------------------------------------------------------------------
(* A command at its await ends in one of three ways: with its effect,      *)
(* without it, or with the effect and no answer.                           *)

Outcome == {"ok", "lost", "unanswered"}
Done(how) == how # "lost"
Ended(c, how) ==
  \/ how = "ok" /\ UNCHANGED faults
  \/ how # "ok" /\ call[c].step \in FaultSteps /\ faults < MaxFaults /\ faults' = faults + 1

\* The peer's queue takes a SEND, or a SKEY, with the key that secures it; the
\* first message goes to the queue of the link, which is open.
Allowed(n, key) == secured[n] \in {0, key}
Taken(o)        == o.what[1] \in {"address", "join"} \/ Allowed(o.n, o.key)
Delivered(o)    == IF Taken(o) THEN outbox \cup {o} ELSE outbox

\* ACK of a message: it goes, when it is the head.
Acked(n, what) ==
  IF inbox[n] # <<>> /\ Head(inbox[n]).what = what THEN Tail(inbox[n]) ELSE inbox[n]

-----------------------------------------------------------------------------
(* requestNativeContact.                                                   *)

\* It asks for a reply queue, whatever the contact's state.
BeginRequest(c) ==
  /\ At(c, "idle") /\ requests < MaxRequests
  /\ requests' = requests + 1
  /\ call' = [call EXCEPT ![c] = [IdleCall EXCEPT !.step = "creating", !.n = requests + 1]]
  /\ UNCHANGED <<contact, stored, tasks, received, servers, sends, faults, keys, sealed, read>>

\* prepareNativeInvitationJoin: the ratchet, after the connection info.
Join(n) == Encrypt(SendingRatchet(X3dhSender(Mine(n, 1), Mine(n, 2), Theirs(n, 1), Theirs(n, 2)),
                                  Mine(n, 3), Theirs(n, 2)), NoKey)

\* With the queue, contact and ratchet are written over, and the request goes
\* out: to an address with the X3DH keys, to an invitation with a packet.
QueueCreated(c) ==
  LET n == call[c].n
      Asks(kind, p) ==
        /\ contact' = [state |-> "requested", kind |-> kind, session |-> n, key |-> 0]
        /\ call' = [call EXCEPT ![c].step = "confirming",
                                ![c].sent = Outgoing(n, 0, <<kind, n>>, p)]
  IN  /\ At(c, "creating")
      /\ \/ /\ Asks("address", NoPacket)
            /\ stored' = Record(TRUE, n, NoRatchet, 0)
            /\ UNCHANGED sealed
         \/ /\ Asks("join", Join(n).packet)
            /\ stored' = Record(FALSE, n, Join(n).state, 0)
            /\ sealed' = sealed \cup {Outgoing(n, 0, <<"join", n>>, Join(n).packet)}
      /\ UNCHANGED <<tasks, received, servers, counters, keys, read>>

\* createQueue, or a receive, ends with an error or a timeout: nothing is left.
Throws(c) ==
  /\ \/ At(c, "creating") /\ Ended(c, "lost")
     \/ call[c].step \in {"accepting", "receiving"} /\ inbox[call[c].n] = <<>> /\ UNCHANGED faults
  /\ End(c)
  /\ UNCHANGED <<contact, stored, tasks, received, servers, requests, sends, keys, sealed, read>>

-----------------------------------------------------------------------------
(* Sends: the confirmation of a request, a chat message, a receipt.        *)

\* Mutant: the ratchet is saved as it was before the encryption.
SavedOld(old, r) == old

\* The record saved after an encryption: the new id is written first, and the
\* ratchet's state, which holds the old id when there is one, is spread over it.
Saved(old, r) ==
  Record(FALSE, old.session, r,
         IF old.next # 0 THEN old.next ELSE 2)

\* Load, encrypt and save, all before the await; the contact is the one held.
Seal(c, what, step, held) ==
  LET e == Encrypt(stored.r, Mine(stored.session, keys + 1))
      o == Outgoing(held.session, held.key, what, e.packet)
  IN  /\ stored' = Saved(stored, e.state)
      /\ contact' = held
      /\ sealed' = sealed \cup {o}
      /\ keys' = IF stored.r.sending = NoChain THEN keys + 1 ELSE keys
      /\ call' = [call EXCEPT ![c] = [IdleCall EXCEPT !.step = step, !.sent = o]]

\* sendNativeChatBody: only in the active state.
BeginSend(c) ==
  /\ At(c, "idle") /\ contact.state = "active" /\ ~stored.pending /\ sends < MaxSend
  /\ sends' = sends + 1
  /\ Seal(c, <<"chat", sends + 1>>, "sending", contact)
  /\ UNCHANGED <<tasks, received, servers, requests, faults, read>>

\* Mutant: a receipt that fails is not queued.
TaskForChat(o) == IF o.what[1] = "receipt" THEN tasks ELSE tasks \cup {[type |-> "packet", o |-> o]}

\* A failed send becomes a retry task with the packet.
TaskFor(o) == tasks \cup {[type |-> "packet", o |-> o]}

SendEnds(c) ==
  /\ call[c].step \in {"confirming", "sending", "receipting"}
  /\ \E how \in Outcome :
       LET o == call[c].sent
       IN  /\ Ended(c, how)
           /\ outbox' = IF Done(how) THEN Delivered(o) ELSE outbox
           /\ tasks' = IF how = "ok" /\ Taken(o) THEN tasks ELSE TaskFor(o)
  /\ End(c)
  /\ UNCHANGED <<contact, stored, received, inbox, secured, peer, requests, sends, keys, sealed, read>>

-----------------------------------------------------------------------------
(* receiveNativeContactAccept.                                             *)

BeginAccept(c) ==
  /\ At(c, "idle") /\ contact.state \in {"requested", "active"} /\ keys <= MaxKeys
  /\ call' = [call EXCEPT ![c] = [IdleCall EXCEPT !.step = "accepting", !.n = contact.session,
                                                  !.contact = contact]]
  /\ UNCHANGED <<contact, stored, tasks, received, servers, counters, keys, sealed, read>>

\* The ratchet that opens an accept: of the X3DH keys that are stored and those
\* of the peer that come with it, or the stored ratchet.
Answering(s, m) ==
  LET n == s.session  k == m.what[2]
  IN  IF m.e2e
      THEN ReceivingRatchet(X3dhReceiver(Mine(n, 1), Mine(n, 2), Theirs(k, 1), Theirs(k, 2)), Mine(n, 2))
      ELSE s.r

Acceptable(s, m) ==
  m.env = "confirmation" /\ (m.e2e => s.pending) /\ Decrypt(Answering(s, m), m.p).ok

\* Mutant: the ratchet is not written with the contact.
SaveAcceptContact(c, m, key, record) ==
  /\ contact' = [call[c].contact EXCEPT !.state = "active", !.key = key]
  /\ call' = [call EXCEPT ![c] = [IdleCall EXCEPT !.step = "acking", !.n = call[c].n, !.msg = m]]
  /\ UNCHANGED stored

\* The writes at the end, then the ACK.
SaveAccept(c, m, key, record) ==
  /\ contact' = [call[c].contact EXCEPT !.state = "active", !.key = key]
  /\ stored' = record
  /\ call' = [call EXCEPT ![c] = [IdleCall EXCEPT !.step = "acking", !.n = call[c].n, !.msg = m]]

\* A reply names the peer's queue, for which a key pair is made; a queue in
\* messaging mode is to be secured by us.
Opened(c, m, record) ==
  LET reply == m.what[1] = "reply"
      key   == IF reply THEN keys + 1 ELSE 0
      ours  == reply /\ m.mode = "M"
  IN  /\ keys' = IF reply THEN keys + 1 ELSE keys
      /\ \/ /\ ours
            /\ call' = [call EXCEPT ![c].step = "skey", ![c].key = key, ![c].msg = m,
                                    ![c].stored = record]
            /\ UNCHANGED <<contact, stored>>
         \/ ~ours /\ SaveAccept(c, m, key, record)

\* A message that is pushed is given to one call; another is given it after
\* the queue is subscribed to again.
Pushed(c, m) == Redelivers \/ \A d \in Call \ {c} : call[d].msg # m

\* The accept comes in and is opened with the ratchet that is stored now.
AcceptArrives(c) ==
  LET m == Head(inbox[call[c].n])
      record == Record(FALSE, stored.session, Decrypt(Answering(stored, m), m.p).state, stored.next)
  IN  /\ At(c, "accepting") /\ inbox[call[c].n] # <<>> /\ Pushed(c, m)
      /\ \/ /\ Acceptable(stored, m) /\ m.header = "confirmation"
            /\ call' = [call EXCEPT ![c].step = "securing", ![c].stored = record, ![c].msg = m]
            /\ UNCHANGED <<contact, stored, keys>>
         \/ Acceptable(stored, m) /\ m.header = "empty" /\ Opened(c, m, record)
         \/ ~Acceptable(stored, m) /\ End(c) /\ UNCHANGED <<contact, stored, keys>>
      /\ UNCHANGED <<tasks, received, servers, counters, sealed, read>>

\* secureQueue: KEY on the reply queue with the key the peer named.
AcceptSecured(c) ==
  /\ At(c, "securing")
  /\ \E how \in Outcome :
       /\ Ended(c, how)
       /\ \/ how = "ok" /\ Opened(c, call[c].msg, call[c].stored)
          \/ how # "ok" /\ End(c) /\ UNCHANGED <<contact, stored, keys>>
  /\ UNCHANGED <<tasks, received, servers, requests, sends, sealed, read>>

\* secureSenderQueue, then our connection info is sealed; nothing is saved yet.
SenderSecured(c) ==
  LET n   == call[c].contact.session
      key == call[c].key
      s   == call[c].stored
      e   == Encrypt(s.r, Mine(s.session, keys + 1))
      o   == Outgoing(n, key, <<"info", n>>, e.packet)
  IN  /\ At(c, "skey")
      /\ \E how \in Outcome :
           /\ Ended(c, how)
           /\ secured' = IF Done(how) /\ Allowed(n, key) THEN [secured EXCEPT ![n] = key] ELSE secured
           /\ \/ /\ how = "ok" /\ Allowed(n, key)
                 /\ keys' = keys + 1
                 /\ sealed' = sealed \cup {o}
                 /\ call' = [call EXCEPT ![c].step = "informing", ![c].sent = o,
                                         ![c].stored = Record(FALSE, s.session, e.state, 2)]
              \/ ~(how = "ok" /\ Allowed(n, key)) /\ End(c) /\ UNCHANGED <<keys, sealed>>
      /\ UNCHANGED <<contact, stored, tasks, received, inbox, outbox, peer, requests, sends, read>>

InfoSent(c) ==
  /\ At(c, "informing")
  /\ \E how \in Outcome :
       /\ Ended(c, how)
       /\ outbox' = IF Done(how) THEN Delivered(call[c].sent) ELSE outbox
       /\ \/ how = "ok" /\ SaveAccept(c, call[c].msg, call[c].key, call[c].stored)
          \/ how # "ok" /\ End(c) /\ UNCHANGED <<contact, stored>>
  /\ UNCHANGED <<tasks, received, inbox, secured, peer, requests, sends, keys, sealed, read>>

-----------------------------------------------------------------------------
(* receiveNext, and acknowledgeOrQueue.                                    *)

BeginReceive(c) ==
  /\ At(c, "idle") /\ contact.state = "active"
  /\ call' = [call EXCEPT ![c] = [IdleCall EXCEPT !.step = "receiving", !.n = contact.session,
                                                  !.contact = contact]]
  /\ UNCHANGED <<contact, stored, tasks, received, servers, counters, keys, sealed, read>>

Known(m) == m.what \in received

Readable(s, m) == m.env = "message" /\ ~s.pending /\ Decrypt(s.r, m.p).ok

\* Mutant: nothing is saved before the ACK.
TakeLater(m) == UNCHANGED <<stored, received>>

\* The ratchet and the record of the message are saved before the ACK.
Take(m) ==
  /\ stored' = [stored EXCEPT !.r = Decrypt(stored.r, m.p).state]
  /\ received' = received \cup {m.what}

MessageArrives(c) ==
  LET m == Head(inbox[call[c].n])
      Acks(step) == call' = [call EXCEPT ![c].step = step, ![c].msg = m]
  IN  /\ At(c, "receiving") /\ inbox[call[c].n] # <<>>
      /\ \/ Known(m) /\ Acks("acking") /\ UNCHANGED <<stored, received, read>>
         \/ /\ ~Known(m) /\ Readable(stored, m)
            /\ Take(m)
            /\ read' = Append(read, m.what)
            /\ Acks(IF m.what[1] = "text" THEN "acking text" ELSE "acking")
         \/ ~Known(m) /\ ~Readable(stored, m) /\ End(c) /\ UNCHANGED <<stored, received, read>>
      /\ UNCHANGED <<contact, tasks, servers, counters, keys, sealed>>

\* A failed ACK is queued.  After the ACK of a text the receipt is sealed: the
\* ratchet is loaded again, the contact is the one the call began with.
AckEnds(c) ==
  LET n == call[c].n
      what == call[c].msg.what
  IN  /\ call[c].step \in {"acking", "acking text"}
      /\ \E how \in Outcome :
           /\ Ended(c, how)
           /\ inbox' = IF Done(how) THEN [inbox EXCEPT ![n] = Acked(n, what)] ELSE inbox
           /\ tasks' = IF how = "ok" THEN tasks
                       ELSE tasks \cup {[type |-> "ack", o |-> Outgoing(n, 0, what, NoPacket)]}
      /\ \/ /\ At(c, "acking text") /\ ~stored.pending
            /\ Seal(c, <<"receipt", what>>, "receipting", call[c].contact)
         \/ /\ At(c, "acking") \/ stored.pending
            /\ End(c) /\ UNCHANGED <<contact, stored, keys, sealed>>
      /\ UNCHANGED <<received, secured, outbox, peer, requests, sends, read>>

\* drainDueRetries, one task that is due: it is carried out and completed.
Drain(t) ==
  /\ t \in tasks
  /\ tasks' = tasks \ {t}
  /\ \/ /\ t.type = "ack"
        /\ inbox' = [inbox EXCEPT ![t.o.n] = Acked(t.o.n, t.o.what)]
        /\ UNCHANGED outbox
     \/ /\ t.type = "packet" /\ Taken(t.o)
        /\ outbox' = outbox \cup {t.o}
        /\ UNCHANGED inbox
  /\ UNCHANGED <<contact, stored, received, call, secured, peer, counters, keys, sealed, read>>

SuspendContact ==
  /\ contact.state = "active"
  /\ contact' = [contact EXCEPT !.state = "suspended"]
  /\ UNCHANGED <<stored, tasks, received, call, servers, counters, keys, sealed, read>>

-----------------------------------------------------------------------------
(* The peer.                                                               *)

Puts(n, m, r, k) ==
  /\ inbox' = [inbox EXCEPT ![n] = Append(@, m)]
  /\ peer' = [peer EXCEPT ![n] = [up |-> TRUE, r |-> r, sent |-> k]]

\* It answers a request once: to an address by joining, with its own queue, to
\* a join with its connection info.
PeerAnswers(n) ==
  /\ ~peer[n].up
  /\ \E o \in outbox :
       /\ o.n = n
       /\ \/ \E mode \in {"M", "C"}, header \in {"empty", "confirmation"} :
               LET e == Encrypt(SendingRatchet(X3dhSender(Theirs(n, 1), Theirs(n, 2), Mine(n, 1), Mine(n, 2)),
                                               Theirs(n, 3), Mine(n, 2)), NoKey)
               IN  /\ o.what[1] = "address"
                   /\ Puts(n, Message("confirmation", TRUE, header, mode, <<"reply", n>>, e.packet), e.state, 0)
          \/ LET d == Decrypt(ReceivingRatchet(X3dhReceiver(Theirs(n, 1), Theirs(n, 2), Mine(n, 1), Mine(n, 2)),
                                               Theirs(n, 2)), o.p)
                 e == Encrypt(d.state, Theirs(n, 3))
             IN  /\ o.what[1] = "join"
                 /\ Puts(n, Message("confirmation", FALSE, "empty", "M", <<"info", n>>, e.packet), e.state, 0)
  /\ UNCHANGED <<contact, stored, tasks, received, call, secured, outbox, counters, keys, sealed, read>>

PeerSends(n) ==
  LET k == peer[n].sent + 1
      e == Encrypt(peer[n].r, Theirs(n, 3 + k))
  IN  /\ peer[n].up /\ k <= MaxPeer
      /\ \E kind \in {"text", "receipt"} :
           Puts(n, Message("message", FALSE, "empty", "M", <<kind, n, k>>, e.packet), e.state, k)
      /\ UNCHANGED <<contact, stored, tasks, received, call, secured, outbox, counters, keys, sealed, read>>

\* What it can read it reads; a new DH key of ours makes it leave its chain.
PeerReads(n) ==
  /\ peer[n].up
  /\ \E o \in outbox :
       LET d == Decrypt(peer[n].r, o.p)
       IN  /\ o.n = n /\ o.what[1] # "address" /\ d.ok
           /\ peer' = [peer EXCEPT ![n].r = IF d.next THEN [d.state EXCEPT !.sending = NoChain] ELSE d.state]
  /\ UNCHANGED <<contact, stored, tasks, received, call, inbox, secured, outbox, counters, keys, sealed, read>>

-----------------------------------------------------------------------------
CallStep(c) ==
  \/ BeginRequest(c) \/ QueueCreated(c) \/ Throws(c)
  \/ BeginSend(c) \/ SendEnds(c)
  \/ BeginAccept(c) \/ AcceptArrives(c) \/ AcceptSecured(c) \/ SenderSecured(c) \/ InfoSent(c)
  \/ BeginReceive(c) \/ MessageArrives(c) \/ AckEnds(c)

Next ==
  \/ \E c \in Call : CallStep(c)
  \/ \E t \in tasks : Drain(t)
  \/ SuspendContact
  \/ \E n \in Session : PeerAnswers(n) \/ PeerSends(n) \/ PeerReads(n)

Spec == Init /\ [][Next]_vars

-----------------------------------------------------------------------------
(* Properties.                                                             *)

\* The store and the calls hold what the code can put there.
TypeOK ==
  /\ contact.state \in {"none", "requested", "active", "suspended"}
  /\ contact.session \in 0 .. MaxRequests /\ stored.session \in 0 .. MaxRequests
  /\ \A t \in tasks : t.type \in {"packet", "ack"} /\ t.o.n \in Session
  /\ \A c \in Call : call[c].n \in 0 .. MaxRequests
  /\ \A n \in Session : Len(inbox[n]) <= MaxPeer + 1
  /\ contact.state = "active" => stored.session # 0 /\ ~stored.pending

\* No message key seals two bodies, whatever calls overlap, fail and are begun
\* again: an accept that is taken twice makes its sending chain anew, and every
\* other send has saved its ratchet before it waits.
KeysSealOnce ==
  \A o1, o2 \in sealed : o1.p.key = o2.p.key => o1.what = o2.what

\* The ratchet in the store and that of the peer stay together through the
\* handshake and after: what is at the head of the reply queue can be read,
\* when it is new and its time has come.
HeadReadable ==
  LET n == contact.session
      m == Head(inbox[n])
  IN  n # 0 /\ inbox[n] # <<>> =>
        /\ contact.state = "requested" => Acceptable(stored, m)
        /\ contact.state = "active" /\ m.env = "message" /\ ~Known(m) => Readable(stored, m)

\* The messages of each reply queue are taken in the order they were sent, none
\* twice and none left out, whatever is redelivered and asked for anew:
\* receiveNext with its record of received messages is a channel between the two.
InOrder ==
  \A i \in 1 .. Len(read) :
    /\ \A j \in 1 .. i - 1 : read[j][2] = read[i][2] => read[j][3] < read[i][3]
    /\ \A k \in 1 .. read[i][3] - 1 :
         \E j \in 1 .. i - 1 : read[j][2] = read[i][2] /\ read[j][3] = k

\* Every text that was taken is answered by one receipt that reached the
\* peer's queue or waits in a task, unless the call is still under way.
ReceiptsOwed ==
  \A i \in 1 .. Len(read) :
    LET Is(o) == o.what = <<"receipt", read[i]>>
    IN  read[i][1] = "text" =>
          \/ \E o \in outbox : Is(o)
          \/ \E t \in tasks : t.type = "packet" /\ Is(t.o)
          \/ \E c \in Call : At(c, "acking text") /\ call[c].msg.what = read[i]
          \/ \E c \in Call : At(c, "receipting") /\ Is(call[c].sent)

-----------------------------------------------------------------------------
(* Claims that do not hold.                                                *)

\* Every message has an id of its own: the id in the record grows with each.
IdsGrow ==
  [][sealed' # sealed /\ stored.next # 0 /\ stored'.session = stored.session
       => stored'.next > stored.next]_vars

\* A suspended contact stays suspended until it is activated or asked for anew.
SuspendSticks ==
  [][contact.state = "suspended" => contact'.state \in {"suspended", "requested"}]_vars

\* A key that secures the peer's queue is kept, or about to be.
SecuringKeyKept ==
  \A n \in Session : secured[n] # 0 =>
    \/ contact.session = n /\ contact.key = secured[n]
    \/ \E c \in Call : call[c].contact.session = n /\ call[c].key = secured[n]

\* A call that waits for the accept of a request can open it when it comes.
WaitingCanAccept ==
  \A c \in Call : At(c, "accepting") /\ contact.state = "requested" /\ inbox[call[c].n] # <<>>
                    => Acceptable(stored, Head(inbox[call[c].n]))

\* A new DH key of the peer is answered with a new one of ours.
NewKeyAnswered ==
  [][contact.state = "active" /\ contact' = contact /\ stored'.r.recvHK # stored.r.recvHK
       => stored'.r.sending = NoChain]_vars
=============================================================================
