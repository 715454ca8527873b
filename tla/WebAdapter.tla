------------------------------ MODULE WebAdapter ------------------------------
(***************************************************************************)
(* window.SimplexWebTransport: the facade of transport.js and the adapter  *)
(* browser-simplex-web-transport-adapter.mjs that is registered with it.   *)
(* The host's calls run concurrently and interleave at their awaits, the   *)
(* sockets they open and the receipts they record are shared.              *)
(*                                                                         *)
(* The contact client is taken for what MessageDelivery shows of it: what  *)
(* it sends reaches the peer's queue, at once or from a retry task; what   *)
(* it receives is the head of our queue, which the server keeps there      *)
(* until its ACK, and a message it has seen before is a duplicate.  The    *)
(* peer is another page of the same kind: it reads what was sent, may      *)
(* answer with a read receipt, and its texts enter our queue in any order, *)
(* because it retries the sends that failed.  (A second copy of a text,    *)
(* sent again after a lost OK, is in MessageDelivery.)                     *)
(***************************************************************************)
EXTENDS Naturals, Sequences, SequencesExt

CONSTANTS
  Call,        \* concurrent calls of the host
  Ref,         \* the message refs the host uses
  MaxCalls,    \* bound: calls of the host
  MaxFaults,   \* bound: connections and commands that fail
  Text,        \* the messages of the peer
  Limit,       \* limit of getMessages
  Native       \* whether the host passes the link of a native contact

ASSUME AdapterAssumption ==
  MaxCalls \in Nat /\ MaxFaults \in Nat /\ Limit \in Nat \ {0} /\ Native \in BOOLEAN

VARIABLES
  registered,  \* facade: whether an adapter is registered
  transport,   \* adapter: the number of its socket, 0 for none
  xftp,        \* adapter: whether the XFTP client is there
  client,      \* adapter: 0, or the socket its contact client was made with
  connected,   \* adapter: the flag of getStatus
  receipts,    \* adapter: the status kept for each ref
  history,     \* adapter: incoming texts (an outgoing entry repeats its receipt)
  contact,     \* the contact client's state of the contact
  call,        \* where each call is
  open,        \* the sockets that are open
  outbox,      \* refs that reached the peer's queue
  tasks,       \* what waits for a retry: packets by their refs, and ACKs
  inbox,       \* all that has entered the server's queue to us, in order
  acked,       \* the queue: how many of them it has given up
  seen,        \* the contact client's record of received messages
  peerRead,    \* refs that the peer has read
  opened, calls, faults,   \* counters of the bounds
  overlapped   \* history: two getMessages have been under way at once

adapter  == <<transport, xftp, client, connected>>
channel  == <<outbox, tasks, inbox, acked, seen, peerRead>>
host     == <<calls, overlapped>>
vars     == <<registered, adapter, receipts, history, contact, call, open, channel,
              opened, host, faults>>

NoMessage == <<"none">>

\* A call has read got times and has a list of texts; it waits for the ACK of
\* msg, which is fresh if it was not seen before.
Idle == [step |-> "idle", op |-> "none", refs |-> <<>>, got |-> 0, list |-> <<>>,
         msg |-> NoMessage, fresh |-> FALSE]
At(c, step) == call[c].step = step
GoTo(c, step) == call' = [call EXCEPT ![c].step = step]
End(c) == call' = [call EXCEPT ![c] = Idle]

Init ==
  /\ registered = FALSE
  /\ transport = 0 /\ xftp = FALSE /\ client = 0 /\ connected = FALSE
  /\ receipts = [r \in Ref |-> "unknown"] /\ history = <<>>
  /\ contact = IF Native THEN "none" ELSE "active"
  /\ call = [c \in Call |-> Idle]
  /\ open = {} /\ outbox = {} /\ tasks = {} /\ inbox = <<>> /\ acked = 0 /\ seen = {} /\ peerRead = {}
  /\ opened = 0 /\ calls = 0 /\ faults = 0 /\ overlapped = FALSE

Fault == faults < MaxFaults /\ faults' = faults + 1

-----------------------------------------------------------------------------
(* The facade: every method rejects until an adapter is registered.        *)

RegisterBrowserTransport ==
  /\ ~registered /\ registered' = TRUE
  /\ UNCHANGED <<adapter, receipts, history, contact, call, open, channel, opened, host, faults>>

\* The first step of an operation, once the contact client is there.  Without
\* an active contact there is nothing to send or read with.
First(op) ==
  CASE op = "delete" -> "deleting"
    [] op = "get" /\ contact = "active" -> "reading"
    [] op \in {"text", "files"} /\ contact = "active" -> "sending"
    [] op \in {"text", "files"} /\ contact # "active" /\ Native -> "requesting"
    [] OTHER -> "refused"

\* ensureReady: without a contact client the call connects first.
HostCalls(c, op, refs) ==
  /\ registered /\ At(c, "idle") /\ calls < MaxCalls
  /\ calls' = calls + 1
  /\ overlapped' = (overlapped \/ (op = "get" /\ \E d \in Call : call[d].op = "get"))
  /\ call' = [call EXCEPT ![c] = [Idle EXCEPT !.op = op, !.refs = refs,
                !.step = IF client = 0 \/ op = "connect" THEN "connect" ELSE First(op)]]
  /\ UNCHANGED <<registered, adapter, receipts, history, contact, open, channel, opened, faults>>

HostBegins(c) ==
  \/ HostCalls(c, "connect", <<>>)
  \/ HostCalls(c, "get", <<>>)
  \/ HostCalls(c, "delete", <<>>)
  \/ \E r \in Ref : HostCalls(c, "text", <<r>>)
  \/ \E r1, r2 \in Ref : r1 # r2 /\ HostCalls(c, "files", <<r1, r2>>)

Refuses(c) ==
  /\ At(c, "refused") /\ End(c)
  /\ UNCHANGED <<registered, adapter, receipts, history, contact, open, channel, opened, host, faults>>

-----------------------------------------------------------------------------
(* connect.                                                                *)

\* The transport is made when neither it nor the client is there; then the XFTP
\* client; then what is missing of the rest, from the transport of that moment.
StartConnect(c) ==
  /\ At(c, "connect")
  /\ GoTo(c, IF transport = 0 /\ client = 0 THEN "opening" ELSE IF ~xftp THEN "xftp" ELSE "ready")
  /\ UNCHANGED <<registered, adapter, receipts, history, contact, open, channel, opened, host, faults>>

Opens(c) ==
  /\ At(c, "opening")
  /\ \/ /\ opened' = opened + 1
        /\ transport' = opened + 1 /\ open' = open \cup {opened + 1}
        /\ GoTo(c, IF ~xftp THEN "xftp" ELSE "ready")
        /\ UNCHANGED faults
     \/ Fault /\ End(c) /\ UNCHANGED <<transport, open, opened>>
  /\ UNCHANGED <<registered, xftp, client, connected, receipts, history, contact, channel, host>>

XftpConnects(c) ==
  /\ At(c, "xftp")
  /\ \/ xftp' = TRUE /\ GoTo(c, "ready") /\ UNCHANGED faults
     \/ Fault /\ End(c) /\ UNCHANGED xftp
  /\ UNCHANGED <<registered, transport, client, connected, receipts, history, contact, open,
                 channel, opened, host>>

\* Mutant: the client is left out when another call waits to make it.
ClientKept == client

\* The first to come this far makes the client, with the transport there is.
ClientOf == IF client = 0 THEN transport ELSE client

Ready(c) ==
  /\ At(c, "ready")
  /\ client' = ClientOf /\ connected' = TRUE
  /\ IF call[c].op = "connect" THEN End(c) ELSE GoTo(c, First(call[c].op))
  /\ UNCHANGED <<registered, transport, xftp, receipts, history, contact, open, channel,
                 opened, host, faults>>

\* disconnect closes the adapter's transport and keeps everything else.
Disconnect ==
  /\ registered /\ calls < MaxCalls /\ calls' = calls + 1
  /\ open' = open \ {transport} /\ connected' = FALSE
  /\ UNCHANGED <<registered, transport, xftp, client, receipts, history, contact, call, channel,
                 opened, faults, overlapped>>

-----------------------------------------------------------------------------
(* sendText and sendFiles.                                                 *)

\* A command of the contact client is answered over an open socket; else, or by
\* a fault, it fails and may have been carried out.
Answered == client \in open /\ UNCHANGED faults
Failed   == IF client \in open THEN Fault ELSE UNCHANGED faults

\* requestContact, for a native link while the contact is not active; its own
\* retry of the request is left to the contact client.
RequestEnds(c) ==
  /\ At(c, "requesting")
  /\ \/ Answered /\ contact' = "requested" /\ GoTo(c, "awaiting")
     \/ Failed /\ contact' \in {contact, "requested"} /\ End(c)
  /\ UNCHANGED <<registered, adapter, receipts, history, open, channel, opened, host>>

\* Mutant: the status is left to makeReceipt's default.
StatusDefault(r, status) == [receipts EXCEPT ![r] = "sent"]

\* makeReceipt, set for a ref: the last one stands.
Status(r, status) == [receipts EXCEPT ![r] = status]

\* waitForContactAccept: accepted within the time, or not, or an error.
AcceptEnds(c) ==
  LET r == Head(call[c].refs)
  IN  /\ At(c, "awaiting")
      /\ \/ /\ contact = "requested" /\ client \in open
            /\ contact' = "active" /\ GoTo(c, "sending")
            /\ UNCHANGED <<faults, receipts>>
         \/ /\ receipts' = Status(r, "contact-requested")
            /\ End(c) /\ UNCHANGED <<contact, faults>>
         \/ contact = "requested" /\ Failed /\ End(c) /\ UNCHANGED <<contact, receipts>>
         \/ contact # "requested" /\ End(c) /\ UNCHANGED <<contact, faults, receipts>>
      /\ UNCHANGED <<registered, adapter, history, open, channel, opened, host>>

\* contacts.sendText, or sendFile of one file: with its answer the receipt is
\* recorded and the next file is next; a failure leaves a retry task and ends
\* the call.
SendEnds(c) ==
  LET r    == Head(call[c].refs)
      rest == Tail(call[c].refs)
  IN  /\ At(c, "sending")
      /\ \/ /\ Answered
            /\ outbox' = outbox \cup {r}
            /\ receipts' = Status(r, "sent")
            /\ IF rest = <<>>
               THEN End(c)
               ELSE call' = [call EXCEPT ![c].refs = rest,
                                         ![c].step = IF contact = "active" THEN "sending" ELSE "refused"]
            /\ UNCHANGED tasks
         \/ /\ Failed
            /\ outbox' \in {outbox, outbox \cup {r}}
            /\ tasks' = tasks \cup {<<"send", r>>}
            /\ End(c) /\ UNCHANGED receipts
      /\ UNCHANGED <<registered, adapter, history, contact, open, inbox, acked, seen, peerRead,
                     opened, host>>

\* The answer can also come late: the message is with the peer before that.
SendReaches(c) ==
  /\ At(c, "sending") /\ client \in open
  /\ Head(call[c].refs) \notin outbox
  /\ outbox' = outbox \cup {Head(call[c].refs)}
  /\ UNCHANGED <<registered, adapter, receipts, history, contact, call, open, tasks, inbox, acked,
                 seen, peerRead, opened, host, faults>>

\* drainDueRetries resends a packet; no receipt is recorded for it.
DrainDueRetries(r) ==
  /\ <<"send", r>> \in tasks /\ client \in open
  /\ tasks' = tasks \ {<<"send", r>>} /\ outbox' = outbox \cup {r}
  /\ UNCHANGED <<registered, adapter, receipts, history, contact, call, open, inbox, acked, seen,
                 peerRead, opened, host, faults>>

-----------------------------------------------------------------------------
(* getMessages.                                                            *)

\* The loop goes on until the limit, and then the call returns what it has.
Again(c, list) ==
  LET n == call[c].got + 1
  IN  IF n >= Limit
      THEN End(c)
      ELSE call' = [call EXCEPT ![c] = [@ EXCEPT !.step = "reading", !.got = n, !.list = list,
                                                !.msg = NoMessage, !.fresh = FALSE]]

\* Mutant: a duplicate is not told from a new message.
IsNewAlways(m) == TRUE

IsNew(m) == m \notin seen

\* The server has given up the message.
Gone(m) == \E i \in 1 .. acked : inbox[i] = m

\* receiveNext has a message: the head of the queue, or one that was given
\* before and lay in the client's buffer.  It is recorded, and its ACK is sent.
MessageArrives(c) ==
  /\ At(c, "reading") /\ client \in open /\ contact = "active"
  /\ \E i \in 1 .. Len(inbox) :
       /\ i <= acked + 1
       /\ call' = [call EXCEPT ![c].step = "acking", ![c].msg = inbox[i], ![c].fresh = IsNew(inbox[i])]
       /\ seen' = seen \cup {inbox[i]}
  /\ UNCHANGED <<registered, adapter, receipts, history, contact, open, outbox, tasks, inbox, acked,
                 peerRead, opened, host, faults>>

\* The ACK reaches the server, which goes on to the next message.
ServerAcks(c) ==
  /\ At(c, "acking") /\ acked < Len(inbox) /\ call[c].msg = inbox[acked + 1]
  /\ acked' = acked + 1
  /\ UNCHANGED <<registered, adapter, receipts, history, contact, call, open, outbox, tasks, inbox,
                 seen, peerRead, opened, host, faults>>

\* acknowledgeOrQueue ends: with the answer, or with a retry task when the ACK or
\* its answer was lost.  (A task for a message that is gone is refused each time
\* it is tried; it is left out, here and below.)  Only now receiveNext returns,
\* and the adapter shows a text, or takes a receipt, that was not seen before.
AckEnds(c) ==
  LET m    == call[c].msg
      list == call[c].list
  IN  /\ At(c, "acking")
      /\ \/ Gone(m) /\ UNCHANGED <<tasks, faults>>
         \/ ~Gone(m) /\ Failed /\ tasks' = tasks \cup {<<"ack", m>>}
      /\ \/ ~call[c].fresh /\ Again(c, list) /\ UNCHANGED <<receipts, history>>
         \/ /\ call[c].fresh /\ m[1] = "receipt"
            /\ receipts' = Status(m[2], "read")
            /\ Again(c, list) /\ UNCHANGED history
         \/ /\ call[c].fresh /\ m[1] = "text"
            /\ history' = Append(history, m[2])
            /\ call' = [call EXCEPT ![c] = [@ EXCEPT !.step = "answering", !.list = Append(list, m[2]),
                                                    !.msg = NoMessage, !.fresh = FALSE]]
            /\ UNCHANGED receipts
      /\ UNCHANGED <<registered, adapter, contact, open, outbox, inbox, acked, seen, peerRead,
                     opened, host>>

\* drainDueRetries repeats the ACK of the message that is the head.
DrainAck ==
  /\ acked < Len(inbox) /\ acked' = acked + 1
  /\ <<"ack", inbox[acked + 1]>> \in tasks /\ client \in open /\ contact # "deleted"
  /\ tasks' = tasks \ {<<"ack", inbox[acked + 1]>>}
  /\ UNCHANGED <<registered, adapter, receipts, history, contact, call, open, outbox, inbox, seen,
                 peerRead, opened, host, faults>>

\* A timeout ends the loop, and the call returns its list.
ReceiveTimesOut(c) ==
  /\ At(c, "reading") /\ client \in open /\ End(c)
  /\ UNCHANGED <<registered, adapter, receipts, history, contact, open, channel, opened, host, faults>>

\* Any other error ends the call, with what it has read.
ReceiveFails(c) ==
  /\ At(c, "reading") /\ End(c)
  /\ Failed \/ (contact # "active" /\ UNCHANGED faults)
  /\ UNCHANGED <<registered, adapter, receipts, history, contact, open, channel, opened, host>>

\* sendReadReceipt for a message of the peer: its failure is kept in the message.
ReceiptEnds(c) ==
  /\ At(c, "answering")
  /\ Answered \/ Failed
  /\ Again(c, call[c].list)
  /\ UNCHANGED <<registered, adapter, receipts, history, contact, open, channel, opened, host>>

\* deleteContact: remotely first, then the contact and its tasks.
DeleteEnds(c) ==
  /\ At(c, "deleting")
  /\ \/ Answered /\ contact' = "deleted" /\ tasks' = {}
     \/ Failed /\ UNCHANGED <<contact, tasks>>
  /\ End(c)
  /\ UNCHANGED <<registered, adapter, receipts, history, open, outbox, inbox, acked, seen, peerRead,
                 opened, host>>

-----------------------------------------------------------------------------
(* The peer, and the network.                                              *)

PeerReads(r) ==
  /\ r \in outbox \ peerRead
  /\ peerRead' = peerRead \cup {r}
  /\ inbox' = Append(inbox, <<"receipt", r>>)
  /\ UNCHANGED <<registered, adapter, receipts, history, contact, call, open, outbox, tasks, acked,
                 seen, opened, host, faults>>

PeerSends(t) ==
  /\ <<"text", t>> \notin ToSet(inbox)
  /\ inbox' = Append(inbox, <<"text", t>>)
  /\ UNCHANGED <<registered, adapter, receipts, history, contact, call, open, outbox, tasks, acked,
                 seen, peerRead, opened, host, faults>>

SocketDrops(s) ==
  /\ s \in open /\ Fault /\ open' = open \ {s}
  /\ UNCHANGED <<registered, adapter, receipts, history, contact, call, channel, opened, host>>

Next ==
  \/ RegisterBrowserTransport \/ Disconnect
  \/ \E c \in Call :
       \/ HostBegins(c) \/ Refuses(c) \/ StartConnect(c) \/ Opens(c) \/ XftpConnects(c) \/ Ready(c)
       \/ RequestEnds(c) \/ AcceptEnds(c) \/ SendEnds(c) \/ SendReaches(c)
       \/ MessageArrives(c) \/ ServerAcks(c) \/ AckEnds(c) \/ ReceiveTimesOut(c) \/ ReceiveFails(c)
       \/ ReceiptEnds(c) \/ DeleteEnds(c)
  \/ \E r \in Ref : DrainDueRetries(r) \/ PeerReads(r)
  \/ DrainAck \/ \E t \in Text : PeerSends(t)
  \/ \E s \in open : SocketDrops(s)

Spec == Init /\ [][Next]_vars

-----------------------------------------------------------------------------
(* Properties.                                                             *)

Calling(c) == call[c].step # "idle"

\* The fields keep to their values, and an adapter that says it is connected
\* has the contact client.
TypeOK ==
  /\ transport \in 0 .. opened /\ client \in 0 .. opened /\ open \subseteq 1 .. opened
  /\ connected => client # 0
  /\ receipts \in [Ref -> {"unknown", "sent", "read", "contact-requested"}]
  /\ contact \in {"none", "requested", "active", "deleted"}
  /\ \A c \in Call : call[c].got < Limit /\ Len(call[c].list) <= Limit

\* What getMessageStatus says has happened: a message said to be sent is in the
\* peer's queue, one said to be read was read by the peer.
ReceiptsTruthful ==
  \A r \in Ref : /\ receipts[r] = "sent" => r \in outbox
                 /\ receipts[r] = "read" => r \in peerRead

\* A text is in the history; a call has it in hand, behind its ACK.
Shown(t)     == \E i \in 1 .. Len(history) : history[i] = t
InHand(c, t) == At(c, "acking") /\ call[c].fresh /\ call[c].msg = <<"text", t>>

\* One text entered the queue before another.
Before(t, u) == \E i, j \in 1 .. Len(inbox) : i < j /\ inbox[i] = <<"text", t>> /\ inbox[j] = <<"text", u>>

\* The texts stand in the history in the order of the queue.
HistoryInOrder == \A i, j \in 1 .. Len(history) : i < j => Before(history[i], history[j])

\* Whatever calls overlap and whatever is delivered or acknowledged again, the
\* history has no text twice and none that was not received, and a text that the
\* queue gave up, or that is on record as seen, is there or with the call that
\* will put it there.  While one getMessages at a time is under way the texts are
\* in the order of the queue.
HistoryFaithful ==
  /\ \A i \in 1 .. Len(history) : <<"text", history[i]>> \in seen
  /\ \A i, j \in 1 .. Len(history) : history[i] = history[j] => i = j
  /\ \A i \in 1 .. Len(inbox) :
       inbox[i][1] = "text" /\ (i <= acked \/ inbox[i] \in seen)
         => Shown(inbox[i][2]) \/ \E c \in Call : InHand(c, inbox[i][2])
  /\ ~overlapped => HistoryInOrder

-----------------------------------------------------------------------------
(* Claims that do not hold.                                                *)

\* HistoryInOrder, with overlapping calls: the second may take the next message,
\* and show it, before the first has the answer to its ACK.

\* Once the peer's receipt has arrived the status stays read.
ReadStays == [][\A r \in Ref : receipts[r] = "read" => receipts'[r] = "read"]_vars

\* What a call has taken it returns.
TakenIsReturned == [][\A c \in Call : ReceiveFails(c) => call[c].list = <<>>]_vars

\* The contact client and disconnect speak of one socket.
OneSocket == client # 0 => client = transport

\* An adapter that says it is connected has an open socket, the network willing.
ConnectedIsOpen == connected /\ faults = 0 => client \in open
=============================================================================
