--------------------------- MODULE MessageDelivery ---------------------------
(***************************************************************************)
(* One direction of an active contact, end to end.                         *)
(*                                                                         *)
(* The sender runs sendPlaintext and drainDueRetries, the receiver runs    *)
(* receiveNext, acknowledgeOrQueue and the ACK part of drainDueRetries     *)
(* (browser-simplex-contact-client.mjs); between them is one SMP queue.    *)
(* A handler is cut at its awaits: what it does between two awaits is one  *)
(* action, because the program is a single JavaScript thread.              *)
(*                                                                         *)
(* Packet p is the ciphertext of message number p of the sending chain.    *)
(* The receiving chain is its next number and the skipped keys it still    *)
(* holds; DH steps are in module RatchetSession.  The broker gives every   *)
(* accepted SEND a fresh message id, so a broker message is named by the   *)
(* call that sent it.  It holds the queue at its head: the oldest message  *)
(* is pushed, and pushed again, until it is acknowledged.                  *)
(***************************************************************************)
EXTENDS Naturals, FiniteSets

CONSTANTS
  MaxSend,     \* bound: messages the application sends
  MaxCalls,    \* bound: SEND commands issued, first attempts and retries
  MaxFaults,   \* bound: commands whose answer is an error or does not come
  MaxSkip,     \* SIMPLEX_RATCHET_MAX_SKIP
  StoreList,   \* SIMPLEX_STORE_MAX_LIST_ITEMS, as it applies to the skipped keys
  Drain,       \* concurrent invocations of drainDueRetries at the sender
  Reader,      \* concurrent invocations of receiveNext at the receiver
  Direct,      \* the marker of a call made by sendPlaintext itself
  TaskId, TaskOf,   \* retry task ids, and the one sendPlaintext computes
  MayCrash     \* whether pages may be closed and storage writes may fail

Packet == 0 .. MaxSend - 1
Call == 1 .. MaxCalls

ASSUME BoundAssumption ==
  /\ MaxSend \in Nat /\ MaxCalls \in Nat /\ MaxFaults \in Nat
  /\ MaxSkip \in Nat /\ StoreList \in Nat
ASSUME TaskAssumption == TaskOf \in [Packet -> TaskId] /\ Direct \notin Drain
ASSUME CrashAssumption == MayCrash \in BOOLEAN

VARIABLES
  sendCount, tasks,                       \* sender, durable
  nextId, call, snap,                     \* sender, lost with the page
  wire, answers, accepted, acked,         \* connections and broker
  place,                                  \* the place of each accepted message
  recvCount, skipped, seen, ackTasks,     \* receiver, durable
  reader,                                 \* receiver, lost with the page
  delivered, rejected, faults             \* history, and the fault budget

senderVars   == <<sendCount, tasks, nextId, call, snap>>
queueVars    == <<wire, answers, accepted, acked, place>>
receiverVars == <<recvCount, skipped, seen, ackTasks, reader>>
vars == <<senderVars, queueVars, receiverVars, delivered, rejected, faults>>

Unused == [st |-> "unused", pkt |-> 0, via |-> Direct]
NoTask == [st |-> "none", pkt |-> 0]
Idle   == [st |-> "idle", msg |-> 0]

TypeOK ==
  /\ sendCount \in 0 .. MaxSend
  /\ tasks \in [TaskId -> [st : {"none", "queued", "done"}, pkt : Nat]]
  /\ nextId \in 1 .. MaxCalls + 1
  /\ call \in [Call -> [st : {"unused", "open", "ended"}, pkt : Nat,
                        via : Drain \cup {Direct}]]
  /\ snap \in [Drain -> SUBSET Packet]
  /\ wire \subseteq Call /\ answers \subseteq Call
  /\ accepted \subseteq Call /\ acked \subseteq Call
  /\ place \in [Call -> Nat]
  /\ seen \subseteq Call /\ ackTasks \subseteq Call /\ rejected \subseteq Call
  /\ recvCount \in 0 .. MaxSend
  /\ skipped \subseteq Packet
  /\ reader \in [Reader -> [st : {"idle", "fresh", "dup"}, msg : Nat]]
  /\ delivered \in [Packet -> Nat]
  /\ faults \in 0 .. MaxFaults

Init ==
  /\ sendCount = 0
  /\ tasks = [t \in TaskId |-> NoTask]
  /\ nextId = 1
  /\ call = [i \in Call |-> Unused]
  /\ snap = [d \in Drain |-> {}]
  /\ wire = {} /\ answers = {} /\ accepted = {} /\ acked = {}
  /\ place = [i \in Call |-> 0]
  /\ recvCount = 0 /\ skipped = {} /\ seen = {} /\ ackTasks = {}
  /\ reader = [r \in Reader |-> Idle]
  /\ delivered = [p \in Packet |-> 0]
  /\ rejected = {}
  /\ faults = 0

-----------------------------------------------------------------------------
(* The sender.                                                             *)

\* sendQueueMessage: a new correlation id, and the SEND leaves.
Issue(p, v) ==
  /\ nextId \in Call
  /\ call' = [call EXCEPT ![nextId] = [st |-> "open", pkt |-> p, via |-> v]]
  /\ wire' = wire \cup {nextId}
  /\ nextId' = nextId + 1
  /\ UNCHANGED <<answers, accepted, acked, place>>

\* sendPlaintext up to its await: encrypt, save the ratchet, send.
SendPlaintext ==
  /\ sendCount < MaxSend
  /\ sendCount' = sendCount + 1
  /\ Issue(sendCount, Direct)
  /\ UNCHANGED <<tasks, snap, receiverVars, delivered, rejected, faults>>

EndCall(i) == call' = [call EXCEPT ![i].st = "ended"]

\* scheduler.complete(taskId): no task of that id is no error.
CompleteTask(t) ==
  tasks' = [tasks EXCEPT ![t].st = IF @ = "none" THEN "none" ELSE "done"]

\* The OK of call i resolves the await of sendPlaintext or of the drain.
SendOk(i) ==
  /\ call[i].st = "open"
  /\ i \in answers
  /\ EndCall(i)
  /\ CompleteTask(TaskOf[call[i].pkt])
  /\ UNCHANGED <<sendCount, nextId, snap, queueVars, receiverVars, delivered,
                 rejected, faults>>

\* Mutant: the packet of a failed first attempt is not enqueued.
SendFailsForgetting(i) ==
  /\ call[i].st = "open"
  /\ faults < MaxFaults /\ faults' = faults + 1
  /\ EndCall(i)
  /\ wire' \in {wire, wire \ {i}}
  /\ UNCHANGED <<sendCount, tasks, nextId, snap, answers, accepted, acked, place,
                 receiverVars, delivered, rejected>>

\* Mutant: drainDueRetries completes the task whatever its attempt gave.
SendFailsCompleting(i) ==
  /\ call[i].st = "open"
  /\ faults < MaxFaults /\ faults' = faults + 1
  /\ EndCall(i)
  /\ IF call[i].via = Direct
     THEN tasks' = [tasks EXCEPT ![TaskOf[call[i].pkt]] =
                      [st |-> "queued", pkt |-> call[i].pkt]]
     ELSE CompleteTask(TaskOf[call[i].pkt])
  /\ wire' \in {wire, wire \ {i}}
  /\ UNCHANGED <<sendCount, nextId, snap, answers, accepted, acked, place,
                 receiverVars, delivered, rejected>>

\* The await rejects: an ERR, a closed socket, or a timeout, which may race an
\* OK on its way and may leave the SEND travelling.  sendPlaintext enqueues the
\* packet, replacing a task of the same id; a drain only counts the failure.
SendFails(i) ==
  /\ call[i].st = "open"
  /\ faults < MaxFaults /\ faults' = faults + 1
  /\ EndCall(i)
  /\ tasks' = IF call[i].via = Direct
              THEN [tasks EXCEPT ![TaskOf[call[i].pkt]] =
                                   [st |-> "queued", pkt |-> call[i].pkt]]
              ELSE tasks
  /\ wire' \in {wire, wire \ {i}}
  /\ UNCHANGED <<sendCount, nextId, snap, answers, accepted, acked, place,
                 receiverVars, delivered, rejected>>

Running(d) == \E i \in Call : call[i].st = "open" /\ call[i].via = d

\* drainDueRetries takes its snapshot of the due tasks.
DrainStart(d) ==
  /\ ~Running(d) /\ snap[d] = {}
  /\ \E t \in TaskId : tasks[t].st = "queued"
  /\ snap' = [snap EXCEPT ![d] =
                {tasks[t].pkt : t \in {u \in TaskId : tasks[u].st = "queued"}}]
  /\ UNCHANGED <<sendCount, tasks, nextId, call, queueVars, receiverVars,
                 delivered, rejected, faults>>

\* ... and sends the packets of the snapshot one after the other.
DrainSend(d) ==
  /\ ~Running(d)
  /\ \E p \in snap[d] :
       /\ Issue(p, d)
       /\ snap' = [snap EXCEPT ![d] = @ \ {p}]
  /\ UNCHANGED <<sendCount, tasks, receiverVars, delivered, rejected, faults>>

\* The sender's page is closed: open calls and drains are gone, no catch runs.
SenderCrash ==
  /\ MayCrash
  /\ call' = [i \in Call |-> IF call[i].st = "open"
                             THEN [call[i] EXCEPT !.st = "ended"]
                             ELSE call[i]]
  /\ snap' = [d \in Drain |-> {}]
  /\ UNCHANGED <<sendCount, tasks, nextId, queueVars, receiverVars, delivered,
                 rejected, faults>>

-----------------------------------------------------------------------------
(* The broker's queue.                                                     *)

\* The message the queue is held at: the oldest without an ACK.
AtHead(m) ==
  /\ m \in accepted \ acked
  /\ \A k \in accepted \ acked : place[m] <= place[k]

BrokerAccepts(i) ==
  /\ i \in wire
  /\ wire' = wire \ {i}
  /\ accepted' = accepted \cup {i}
  /\ place' = [place EXCEPT ![i] = Cardinality(accepted)]
  /\ answers' = answers \cup {i}
  /\ UNCHANGED <<acked, senderVars, receiverVars, delivered, rejected, faults>>

-----------------------------------------------------------------------------
(* The receiver.                                                           *)

\* A number whose key the receiving chain can no longer produce.
Consumed(p) == p < recvCount /\ p \notin skipped

Decryptable(p) ==
  p \in skipped \/ (p >= recvCount /\ p - recvCount <= MaxSkip)

SmallerIn(S, x) == Cardinality({y \in S : y < x})
LargerIn(S, x)  == Cardinality({y \in S : y > x})

\* saveSkipped keeps the newest MaxSkip keys; the store then writes the first
\* StoreList items of the array.
Kept(S) ==
  LET newest == {x \in S : LargerIn(S, x) < MaxSkip}
  IN  {x \in newest : SmallerIn(newest, x) < StoreList}

\* Mutant: a skipped key stays in the ratchet after its use.
AdvanceKeepingKey(p) ==
  IF p \in skipped
  THEN UNCHANGED <<skipped, recvCount>>
  ELSE /\ skipped' = Kept(skipped \cup (recvCount .. p - 1))
       /\ recvCount' = p + 1

\* Mutant: the receiving chain is advanced once too often.
AdvanceTooFar(p) ==
  IF p \in skipped
  THEN skipped' = Kept(skipped \ {p}) /\ UNCHANGED recvCount
  ELSE /\ skipped' = Kept(skipped \cup (recvCount .. p - 1))
       /\ recvCount' = p + 2

\* decryptRatchetMessage and saveRatchet.
AdvanceTo(p) ==
  IF p \in skipped
  THEN skipped' = Kept(skipped \ {p}) /\ UNCHANGED recvCount
  ELSE /\ skipped' = Kept(skipped \cup (recvCount .. p - 1))
       /\ recvCount' = p + 1

\* receiveQueueMessage: an idle call takes the push of the head.
Pushed(r, m) == reader[r].st = "idle" /\ m \in accepted /\ AtHead(m)

\* Mutant: the ACK is sent and no fingerprint is saved.
DecodeUnrecorded(r, m) ==
  /\ Pushed(r, m)
  /\ m \notin seen
  /\ Decryptable(call[m].pkt)
  /\ AdvanceTo(call[m].pkt)
  /\ reader' = [reader EXCEPT ![r] = [st |-> "fresh", msg |-> m]]
  /\ UNCHANGED <<seen, ackTasks, senderVars, queueVars, delivered, rejected, faults>>

\* receiveNext up to its await: the body decrypts, the ratchet and then the
\* fingerprint are saved, and the ACK is sent.
Decode(r, m) ==
  /\ Pushed(r, m)
  /\ m \notin seen
  /\ Decryptable(call[m].pkt)
  /\ AdvanceTo(call[m].pkt)
  /\ seen' = seen \cup {m}
  /\ reader' = [reader EXCEPT ![r] = [st |-> "fresh", msg |-> m]]
  /\ UNCHANGED <<ackTasks, senderVars, queueVars, delivered, rejected, faults>>

\* The same, cut between the two writes: the page closes, or the second write
\* throws (a full storage), after the ratchet was saved.
DecodeTorn(r, m) ==
  /\ MayCrash
  /\ Pushed(r, m)
  /\ m \notin seen
  /\ Decryptable(call[m].pkt)
  /\ AdvanceTo(call[m].pkt)
  /\ UNCHANGED <<seen, ackTasks, reader, senderVars, queueVars, delivered,
                 rejected, faults>>

\* A redelivery of a recorded message: straight to the ACK.
Duplicate(r, m) ==
  /\ Pushed(r, m)
  /\ m \in seen
  /\ reader' = [reader EXCEPT ![r] = [st |-> "dup", msg |-> m]]
  /\ UNCHANGED <<recvCount, skipped, seen, ackTasks, senderVars, queueVars,
                 delivered, rejected, faults>>

\* No fingerprint and no key: receiveNext throws before any save or ACK.
Reject(r, m) ==
  /\ Pushed(r, m)
  /\ m \notin seen
  /\ ~Decryptable(call[m].pkt)
  /\ rejected' = rejected \cup {m}
  /\ UNCHANGED <<senderVars, queueVars, receiverVars, delivered, faults>>

\* receiveNext returns: the plaintext of a fresh message, nothing otherwise.
Return(r) ==
  /\ reader' = [reader EXCEPT ![r] = Idle]
  /\ delivered' = IF reader[r].st = "fresh"
                  THEN [delivered EXCEPT ![call[reader[r].msg].pkt] = @ + 1]
                  ELSE delivered

\* The ACK reaches the broker, which deletes the message and pushes the next:
\* another call may take that one before the OK of this ACK comes.
BrokerAcks(r) ==
  /\ reader[r].st # "idle"
  /\ acked' = acked \cup {reader[r].msg}
  /\ UNCHANGED <<wire, answers, accepted, place, receiverVars, senderVars,
                 delivered, rejected, faults>>

\* The OK of the ACK ends the await of acknowledgeOrQueue.
AckOk(r) ==
  /\ reader[r].st # "idle"
  /\ reader[r].msg \in acked
  /\ Return(r)
  /\ UNCHANGED <<queueVars, recvCount, skipped, seen, ackTasks, senderVars,
                 rejected, faults>>

\* acknowledgeOrQueue catches the failure and leaves a durable ACK task; the
\* broker may have seen the ACK all the same.
AckFails(r) ==
  /\ reader[r].st # "idle"
  /\ faults < MaxFaults /\ faults' = faults + 1
  /\ acked' \in {acked, acked \cup {reader[r].msg}}
  /\ ackTasks' = ackTasks \cup {reader[r].msg}
  /\ Return(r)
  /\ UNCHANGED <<wire, answers, accepted, place, recvCount, skipped,
                 seen, senderVars, rejected>>

\* The caller asked for no ACK (acknowledge: false).
AckSkipped(r) ==
  /\ reader[r].st # "idle"
  /\ Return(r)
  /\ UNCHANGED <<queueVars, recvCount, skipped, seen, ackTasks, senderVars,
                 rejected, faults>>

\* drainDueRetries repeats an ACK and completes the task; a failed repeat
\* leaves everything as it was.
DrainAck(m) ==
  /\ m \in ackTasks
  /\ ackTasks' = ackTasks \ {m}
  /\ acked' = acked \cup {m}
  /\ UNCHANGED <<wire, answers, accepted, place, recvCount, skipped,
                 seen, reader, senderVars, delivered, rejected, faults>>

ReceiverCrash ==
  /\ MayCrash
  /\ reader' = [r \in Reader |-> Idle]
  /\ UNCHANGED <<recvCount, skipped, seen, ackTasks, senderVars, queueVars,
                 delivered, rejected, faults>>

-----------------------------------------------------------------------------
Receive(r, m) ==
  Decode(r, m) \/ DecodeTorn(r, m) \/ Duplicate(r, m) \/ Reject(r, m)

Next ==
  \/ SendPlaintext
  \/ SenderCrash
  \/ ReceiverCrash
  \/ \E i \in Call : SendOk(i) \/ SendFails(i) \/ BrokerAccepts(i) \/ DrainAck(i)
  \/ \E d \in Drain : DrainStart(d) \/ DrainSend(d)
  \/ \E r \in Reader : \/ BrokerAcks(r) \/ AckOk(r) \/ AckFails(r) \/ AckSkipped(r)
                      \/ \E m \in Call : Receive(r, m)

Spec == Init /\ [][Next]_vars

\* Connections make progress, the host page keeps calling receiveNext and
\* drainDueRetries, and a call of receiveNext that is waiting takes what the
\* broker pushes; the number of failures is bounded by MaxFaults.  Strong
\* fairness of BrokerAcks says that the host does not ask for no ACK
\* (acknowledge: false) at every redelivery of a message: the adapter asks for
\* one unless its query says otherwise.
Fairness ==
  /\ \A i \in Call : /\ WF_vars(BrokerAccepts(i))
                     /\ WF_vars(SendOk(i))
                     /\ WF_vars(DrainAck(i))
                     /\ WF_vars(\E r \in Reader : Decode(r, i))
                     /\ WF_vars(\E r \in Reader : Duplicate(r, i))
  /\ \A d \in Drain : WF_vars(DrainStart(d)) /\ WF_vars(DrainSend(d))
  /\ \A r \in Reader : SF_vars(BrokerAcks(r)) /\ WF_vars(AckOk(r))

FairSpec == Spec /\ Fairness

-----------------------------------------------------------------------------
(* Properties.                                                             *)

\* No plaintext reaches the application twice, whatever is retried, pushed
\* again or cut short: the comment in receiveNext, "the caller will not receive
\* the plaintext twice and the ratchet will not be replayed".
AtMostOnce == \A p \in Packet : delivered[p] <= 1

\* A message leaves the broker only after its fingerprint was recorded, so a
\* message the receiver could not process is never acknowledged.
AckedWasSeen == acked \cup ackTasks \subseteq seen

\* Without crashes an encrypted packet is never nowhere: it was handed over,
\* or a call to receiveNext holds it, or its key is still there and some copy
\* is being sent, travels, waits at the broker or is a retry task.
Custody ==
  \A p \in 0 .. sendCount - 1 :
    \/ delivered[p] > 0
    \/ \E r \in Reader : reader[r].st = "fresh" /\ call[reader[r].msg].pkt = p
    \/ /\ ~Consumed(p)
       /\ \/ \E i \in Call : /\ call[i].pkt = p
                             /\ \/ call[i].st = "open"
                                \/ i \in wire \cup (accepted \ acked)
          \/ \E t \in TaskId : tasks[t].st = "queued" /\ tasks[t].pkt = p

\* A retry task is closed only once the broker has the packet.
CompletedWasAccepted ==
  \A t \in TaskId : tasks[t].st = "done" =>
    \E i \in accepted : call[i].pkt = tasks[t].pkt

\* Without crashes the sender answers for every packet: one that was not handed
\* over is still on its way, and a task is closed only when the broker has it.
PacketsKept == Custody /\ CompletedWasAccepted

\* The queue is held by a second copy of a packet that was handed over: its
\* fingerprint is not recorded and its key is gone, so receiveNext throws at
\* every push of it and never acknowledges it.
Blocked ==
  \E m \in Call : /\ AtHead(m) /\ m \notin seen
                  /\ delivered[call[m].pkt] > 0


\* "Retry": with a bounded number of failures every sent message is handed over.
EventuallyDelivered ==
  \A p \in Packet : (sendCount > p) ~> (delivered[p] > 0)

\* "Failed sends become durable encrypted-packet retry tasks instead of
\* disappearing": a first attempt that ended without an OK has left a task that
\* holds its packet, completed by now or not.
FailedSendsKept ==
  \A i \in Call \ answers :
    (call[i].st = "ended" /\ call[i].via = Direct) =>
      tasks[TaskOf[call[i].pkt]].pkt = call[i].pkt

\* "Skipped-message keys": a number the receiving chain has passed was read, or
\* its key is still in the stored ratchet.
SkippedKeysKept ==
  \A p \in Packet : Consumed(p) =>
    \/ delivered[p] > 0
    \/ \E r \in Reader : reader[r].st = "fresh" /\ call[reader[r].msg].pkt = p

\* A second copy of a delivered packet is acknowledged as a duplicate, never
\* refused (README: "duplicate-redelivery suppression").
DuplicatesSuppressed ==
  \A m \in rejected : delivered[call[m].pkt] = 0

\* The channel the two handlers promise.
Channel == INSTANCE AtMostOnceChannel WITH
  Message <- Packet,
  sent    <- 0 .. sendCount - 1,
  handed  <- delivered

ChannelSpec == Channel!ChanSpec
=============================================================================
