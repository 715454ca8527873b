------------------------ MODULE MessageDeliveryProofs ------------------------
(***************************************************************************)
(* Theorems about MessageDelivery, for every number of messages, calls,    *)
(* faults, drains and readers, with or without crashes.                    *)
(*                                                                         *)
(* The argument for at-most-once delivery does not go through the          *)
(* fingerprints: two broker messages may carry one packet.  It goes        *)
(* through the ratchet.  A packet is decoded only while its number is not  *)
(* Consumed, decoding it makes it Consumed, and nothing makes a consumed   *)
(* number available again.                                                 *)
(*                                                                         *)
(* That no packet is lost (PacketsKept) is about copies: whoever lets one  *)
(* go does so when another has one.                                        *)
(***************************************************************************)
EXTENDS MessageDelivery, Integers, FiniteSetTheorems, TLAPS

\* The commands that were issued are those below nextId: their packet is fixed.
Issued == 1 .. nextId - 1

CallInv ==
  /\ wire \cup answers \cup accepted \subseteq Issued
  /\ acked \cup seen \cup ackTasks \subseteq accepted
  /\ \A i \in Issued : call[i].pkt \in 0 .. sendCount - 1
  /\ \A i \in Call \ Issued : call[i] = Unused
  /\ \A t \in TaskId : tasks[t].st # "none" => tasks[t].pkt \in 0 .. sendCount - 1
  /\ \A d \in Drain : snap[d] \subseteq 0 .. sendCount - 1

\* Messages the receiver took in have consumed their number.
SeenInv ==
  /\ recvCount <= sendCount
  /\ skipped \subseteq 0 .. recvCount - 1
  /\ acked \cup ackTasks \subseteq seen
  /\ \A m \in seen : Consumed(call[m].pkt)
  /\ \A r \in Reader : reader[r].st # "idle" => reader[r].msg \in seen

\* A packet that was delivered, or that a reader is about to deliver, is
\* consumed, and no other reader is about to deliver it.
OnceInv ==
  /\ \A p \in Packet : delivered[p] \in {0, 1}
  /\ \A p \in Packet : delivered[p] = 1 => Consumed(p)
  /\ \A r \in Reader : reader[r].st = "fresh" => delivered[call[reader[r].msg].pkt] = 0
  /\ \A r, s \in Reader :
       (reader[r].st = "fresh" /\ reader[s].st = "fresh" /\ r # s)
         => call[reader[r].msg].pkt # call[reader[s].msg].pkt

IInv == TypeOK /\ CallInv /\ SeenInv /\ OnceInv

-----------------------------------------------------------------------------
(* The receiving chain.                                                    *)

\* The keys that are kept are among those there were.
LEMMA KeptSubset == \A S : Kept(S) \subseteq S
  BY DEF Kept

\* Decoding consumes exactly what was not consumed before, and consumption is
\* for ever: the fact at-most-once delivery rests on.
LEMMA AdvanceConsumes ==
  ASSUME recvCount \in Nat, skipped \subseteq 0 .. recvCount - 1,
         NEW p \in Nat, Decryptable(p), AdvanceTo(p)
  PROVE  /\ recvCount' \in {recvCount, p + 1}
         /\ skipped' \subseteq 0 .. recvCount' - 1
         /\ ~Consumed(p)
         /\ Consumed(p)'
         /\ \A q \in Nat : Consumed(q) => Consumed(q)'
<1>1. CASE p \in skipped
  <2>1. skipped' \subseteq skipped \ {p} /\ recvCount' = recvCount
    BY <1>1, KeptSubset DEF AdvanceTo
  <2> QED
    BY <1>1, <2>1 DEF Consumed
<1>2. CASE p \notin skipped
  <2>1. /\ skipped' \subseteq skipped \cup (recvCount .. p - 1)
        /\ recvCount' = p + 1
    BY <1>2, KeptSubset DEF AdvanceTo
  <2>2. p >= recvCount
    BY <1>2 DEF Decryptable
  <2> QED
    BY <1>2, <2>1, <2>2 DEF Consumed
<1> QED
  BY <1>1, <1>2

-----------------------------------------------------------------------------
(* What the steps of each side leave alone.                                *)

\* A step that does not touch the receiver keeps its invariants, as long as
\* the packets of issued commands stay what they are.
LEMMA SenderStep ==
  ASSUME IInv, sendCount' \in Nat, sendCount <= sendCount',
         \A i \in Issued : call'[i].pkt = call[i].pkt,
         UNCHANGED <<recvCount, skipped, seen, ackTasks, acked, reader, delivered>>
  PROVE  SeenInv' /\ OnceInv'
<1> USE BoundAssumption DEF IInv, BoundAssumption, TypeOK, CallInv
<1>1. seen \subseteq Issued
  OBVIOUS
<1>2. SeenInv'
  BY <1>1 DEF SeenInv, Consumed
<1>3. ASSUME NEW r \in Reader, reader[r].st # "idle"
      PROVE  call'[reader[r].msg].pkt = call[reader[r].msg].pkt
  BY <1>1, <1>3 DEF SeenInv
<1>4. OnceInv'
  BY <1>3 DEF OnceInv, Consumed
<1> QED
  BY <1>2, <1>4

\* Returning from receiveNext delivers a fresh packet for the first time.
LEMMA ReturnStep ==
  ASSUME IInv, NEW r \in Reader, reader[r].st # "idle", Return(r),
         UNCHANGED <<sendCount, call, recvCount, skipped, seen>>
  PROVE  /\ reader' \in [Reader -> [st : {"idle", "fresh", "dup"}, msg : Nat]]
         /\ \A s \in Reader : reader'[s].st # "idle" => reader'[s] = reader[s] /\ s # r
         /\ delivered' \in [Packet -> Nat]
         /\ OnceInv'
<1> USE BoundAssumption DEF IInv, BoundAssumption
<1> DEFINE pkt(s) == call[reader[s].msg].pkt
<1>1. /\ reader' \in [Reader -> [st : {"idle", "fresh", "dup"}, msg : Nat]]
      /\ \A s \in Reader : reader'[s].st # "idle" => reader'[s] = reader[s] /\ s # r
  BY DEF Return, Idle, TypeOK
<1>2. pkt(r) \in Packet /\ Consumed(pkt(r))
  <2>1. reader[r].msg \in seen
    BY DEF SeenInv
  <2> QED
    BY <2>1 DEF SeenInv, CallInv, TypeOK, Packet
<1>3. CASE reader[r].st = "fresh"
  <2>1. delivered' = [delivered EXCEPT ![pkt(r)] = @ + 1] /\ delivered[pkt(r)] = 0
    BY <1>3 DEF Return, OnceInv
  <2>2. delivered' \in [Packet -> Nat]
    BY <2>1, <1>2 DEF TypeOK
  <2>3. \A p \in Packet : delivered'[p] = IF p = pkt(r) THEN 1 ELSE delivered[p]
    BY <2>1, <1>2 DEF TypeOK
  <2>4. ASSUME NEW s \in Reader, reader'[s].st = "fresh"
        PROVE  delivered'[call'[reader'[s].msg].pkt] = 0
    <3>1. reader[s].st = "fresh" /\ s # r /\ reader'[s] = reader[s]
      BY <2>4, <1>1
    <3>2. pkt(s) # pkt(r) /\ delivered[pkt(s)] = 0
      BY <3>1, <1>3 DEF OnceInv
    <3>3. pkt(s) \in Packet
      <4>1. reader[s].msg \in seen
        BY <3>1 DEF SeenInv
      <4> QED
        BY <4>1 DEF CallInv, TypeOK, Packet
    <3> QED
      BY <3>1, <3>2, <3>3, <2>3
  <2>5. \A p \in Packet : delivered'[p] \in {0, 1} /\ (delivered'[p] = 1 => Consumed(p)')
    BY <2>3, <1>2 DEF OnceInv, Consumed
  <2>6. OnceInv'
    BY <1>1, <2>4, <2>5 DEF OnceInv
  <2> QED
    BY <1>1, <2>2, <2>6
<1>4. CASE reader[r].st # "fresh"
  <2>1. delivered' = delivered
    BY <1>4 DEF Return
  <2>2. OnceInv'
    BY <1>1, <2>1 DEF OnceInv, Consumed
  <2> QED
    BY <1>1, <2>1, <2>2 DEF TypeOK
<1> QED
  BY <1>3, <1>4

\* A shorter range of packets is part of a longer one.
LEMMA RangeSubset == \A a, b \in Int : a <= b => 0 .. a - 1 \subseteq 0 .. b - 1
  OBVIOUS

\* Decoding, with the fingerprint written or not.
LEMMA DecodeStep ==
  ASSUME IInv, NEW r \in Reader, NEW m \in Call, Pushed(r, m), m \notin seen,
         Decryptable(call[m].pkt), AdvanceTo(call[m].pkt),
         UNCHANGED <<sendCount, call, delivered, acked, ackTasks>>,
         \/ seen' = seen /\ reader' = reader
         \/ /\ seen' = seen \cup {m}
            /\ reader' = [reader EXCEPT ![r] = [st |-> "fresh", msg |-> m]]
  PROVE  /\ recvCount' \in 0 .. MaxSend /\ skipped' \subseteq Packet
         /\ SeenInv' /\ OnceInv'
<1> USE BoundAssumption DEF IInv, BoundAssumption
<1> DEFINE p == call[m].pkt
<1>1. m \in accepted /\ p \in 0 .. sendCount - 1 /\ p \in Packet
  BY DEF Pushed, CallInv, TypeOK, Packet
<1>2. /\ recvCount' \in {recvCount, p + 1}
      /\ skipped' \subseteq 0 .. recvCount' - 1
      /\ ~Consumed(p) /\ Consumed(p)'
      /\ \A q \in Nat : Consumed(q) => Consumed(q)'
  <2>1. recvCount \in Nat /\ skipped \subseteq 0 .. recvCount - 1 /\ p \in Nat
    BY <1>1 DEF SeenInv, TypeOK, Packet
  <2> QED
    BY <2>1, AdvanceConsumes
<1>3. recvCount' \in Nat /\ recvCount' <= sendCount' /\ sendCount <= MaxSend
  BY <1>1, <1>2 DEF SeenInv, TypeOK
<1>4. recvCount' \in 0 .. MaxSend /\ skipped' \subseteq Packet
  <2>1. recvCount' \in Nat /\ recvCount' <= MaxSend
    BY <1>3 DEF TypeOK
  <2>2. 0 .. recvCount' - 1 \subseteq 0 .. MaxSend - 1
    <3>1. recvCount' \in Int /\ MaxSend \in Int
      BY <2>1
    <3> HIDE DEF IInv
    <3> QED
      BY <2>1, <3>1, RangeSubset, Zenon
  <2>3. skipped' \subseteq 0 .. MaxSend - 1
    BY <1>2, <2>2
  <2> QED
    BY <2>1, <2>3 DEF Packet
<1>5. \A i \in seen : call[i].pkt \in Nat
  <2>1. seen \subseteq Issued
    BY DEF CallInv
  <2> QED
    BY <2>1 DEF CallInv
<1>6. \A i \in seen' : Consumed(call[i].pkt)'
  BY <1>2, <1>5 DEF SeenInv
<1>7. \A s \in Reader : reader'[s].st # "idle" => reader'[s].msg \in seen'
  BY DEF SeenInv, TypeOK
<1>8. SeenInv'
  BY <1>2, <1>3, <1>6, <1>7 DEF SeenInv
<1>9. \A s \in Reader : reader[s].st # "idle" =>
        /\ call[reader[s].msg].pkt # p
        /\ call[reader[s].msg].pkt \in Packet
  <2> SUFFICES ASSUME NEW s \in Reader, reader[s].st # "idle"
               PROVE  /\ call[reader[s].msg].pkt # p
                      /\ call[reader[s].msg].pkt \in Packet
    OBVIOUS
  <2>1. reader[s].msg \in seen
    BY DEF SeenInv
  <2> QED
    BY <2>1, <1>2 DEF SeenInv, CallInv, TypeOK, Packet
<1>10. delivered[p] = 0
  BY <1>1, <1>2 DEF OnceInv
<1>11. \A q \in Packet : delivered[q] = 1 => Consumed(q)'
  BY <1>2 DEF OnceInv, Packet
<1>12. OnceInv'
  <2>1. CASE reader' = reader
    BY <2>1, <1>11 DEF OnceInv
  <2>2. CASE reader' = [reader EXCEPT ![r] = [st |-> "fresh", msg |-> m]]
    <3>1. \A s \in Reader : reader'[s] = IF s = r THEN [st |-> "fresh", msg |-> m]
                                         ELSE reader[s]
      BY <2>2 DEF TypeOK
    <3>2. \A s \in Reader : reader'[s].st = "fresh" =>
            delivered'[call'[reader'[s].msg].pkt] = 0
      BY <3>1, <1>10 DEF OnceInv
    <3>3. \A s, t \in Reader :
            (reader'[s].st = "fresh" /\ reader'[t].st = "fresh" /\ s # t)
              => call'[reader'[s].msg].pkt # call'[reader'[t].msg].pkt
      BY <3>1, <1>9 DEF OnceInv
    <3> QED
      BY <3>2, <3>3, <1>11 DEF OnceInv
  <2> QED
    BY <2>1, <2>2
<1> QED
  BY <1>4, <1>8, <1>12

-----------------------------------------------------------------------------
(* The types of the variables that hold functions.                         *)

CallType == [st : {"unused", "open", "ended"}, pkt : Nat, via : Drain \cup {Direct}]
TaskType == [st : {"none", "queued", "done"}, pkt : Nat]

\* Issuing a command keeps the types of the calls and of the wire.
LEMMA IssueType ==
  ASSUME TypeOK, NEW p \in Nat, NEW v \in Drain \cup {Direct}, Issue(p, v)
  PROVE  /\ call' \in [Call -> CallType]
         /\ nextId' \in 1 .. MaxCalls + 1
         /\ wire' \subseteq Call
  BY BoundAssumption DEF BoundAssumption, TypeOK, Issue, CallType, Call

\* Ending a command keeps the type of the calls.
LEMMA EndCallType ==
  ASSUME TypeOK, NEW i \in Call, EndCall(i)
  PROVE  call' \in [Call -> CallType]
  BY DEF TypeOK, EndCall, CallType

-----------------------------------------------------------------------------
(* The invariant.                                                          *)

\* The invariant holds at the start, when nothing was sent.
LEMMA InitInv == Init => IInv
<1> SUFFICES ASSUME Init PROVE IInv
  OBVIOUS
<1> USE BoundAssumption DEF BoundAssumption
<1>1. TypeOK
  BY DEF Init, TypeOK, Unused, NoTask, Idle, Packet, Call
<1>2. CallInv
  BY DEF Init, CallInv, Issued, NoTask, Call
<1>3. SeenInv
  BY DEF Init, SeenInv, Idle
<1>4. OnceInv
  BY DEF Init, OnceInv, Idle
<1> QED
  BY <1>1, <1>2, <1>3, <1>4 DEF IInv

\* A first attempt.
LEMMA SendPlaintextInv ==
  ASSUME IInv, SendPlaintext
  PROVE  IInv'
<1> USE BoundAssumption, TaskAssumption DEF IInv, BoundAssumption, TaskAssumption
<1>1. TypeOK'
  <2>1. sendCount \in Nat /\ sendCount' \in 0 .. MaxSend
    BY DEF TypeOK, SendPlaintext
  <2>2. /\ call' \in [Call -> CallType]
        /\ nextId' \in 1 .. MaxCalls + 1
        /\ wire' \subseteq Call
    BY <2>1, IssueType DEF SendPlaintext
  <2> QED
    BY <2>1, <2>2 DEF TypeOK, CallType, SendPlaintext, Issue, receiverVars
<1>2. CallInv'
  BY DEF TypeOK, CallInv, Issued, Call, Unused, SendPlaintext, Issue, senderVars, queueVars, receiverVars
<1>3. \A j \in Issued : call'[j].pkt = call[j].pkt
  BY DEF TypeOK, CallInv, Issued, Call, SendPlaintext, Issue, senderVars, queueVars, receiverVars
<1>4. SeenInv' /\ OnceInv'
  BY <1>3, SenderStep DEF TypeOK, SendPlaintext, Issue, senderVars, queueVars, receiverVars
<1> QED
  BY <1>1, <1>2, <1>4

\* The sender's page goes away.
LEMMA SenderCrashInv ==
  ASSUME IInv, SenderCrash
  PROVE  IInv'
<1> USE BoundAssumption, TaskAssumption DEF IInv, BoundAssumption, TaskAssumption
<1>1. TypeOK'
  <2>1. call' \in [Call -> CallType]
    BY DEF TypeOK, CallType, SenderCrash
  <2>2. snap' \in [Drain -> SUBSET Packet]
    BY DEF SenderCrash
  <2> QED
    BY <2>1, <2>2 DEF TypeOK, CallType, SenderCrash, queueVars, receiverVars
<1>2. CallInv'
  BY DEF TypeOK, CallInv, Issued, Call, Unused, SenderCrash, senderVars, queueVars, receiverVars
<1>3. \A j \in Issued : call'[j].pkt = call[j].pkt
  BY DEF TypeOK, CallInv, Issued, Call, SenderCrash, senderVars, queueVars, receiverVars
<1>4. SeenInv' /\ OnceInv'
  BY <1>3, SenderStep DEF TypeOK, SenderCrash, senderVars, queueVars, receiverVars
<1> QED
  BY <1>1, <1>2, <1>4

\* The OK of a call.
LEMMA SendOkInv ==
  ASSUME IInv, NEW i \in Call, SendOk(i)
  PROVE  IInv'
<1> USE BoundAssumption, TaskAssumption DEF IInv, BoundAssumption, TaskAssumption
<1>1. TypeOK'
  <2>1. call' \in [Call -> CallType]
    BY EndCallType DEF SendOk
  <2>2. tasks' \in [TaskId -> TaskType]
    <3> DEFINE u == TaskOf[call[i].pkt]
    <3>1. tasks \in [TaskId -> TaskType]
      BY DEF TypeOK, TaskType
    <3>2. tasks' = [tasks EXCEPT ![u].st = IF @ = "none" THEN "none" ELSE "done"]
      BY DEF SendOk, CompleteTask
    <3> HIDE DEF u
    <3> QED
      BY <3>1, <3>2 DEF TaskType
  <2> QED
    BY <2>1, <2>2 DEF TypeOK, CallType, TaskType, SendOk, queueVars, receiverVars
<1>2. CallInv'
  <2>1. /\ i \in Issued
        /\ \A j \in Call : call'[j].pkt = call[j].pkt /\ (j # i => call'[j] = call[j])
    BY DEF TypeOK, CallInv, Unused, SendOk, EndCall
  <2>2. \A t \in TaskId : /\ tasks'[t].pkt = tasks[t].pkt
                          /\ tasks'[t].st # "none" => tasks[t].st # "none"
    BY DEF TypeOK, SendOk, CompleteTask
  <2>3. Issued \subseteq Call /\ Issued' = Issued /\ sendCount' = sendCount
    BY DEF TypeOK, Issued, Call, SendOk
  <2> QED
    BY <2>1, <2>2, <2>3 DEF CallInv, SendOk, queueVars, receiverVars
<1>3. \A j \in Issued : call'[j].pkt = call[j].pkt
  BY DEF TypeOK, CallInv, Issued, Call, SendOk, EndCall, CompleteTask, senderVars, queueVars, receiverVars
<1>4. SeenInv' /\ OnceInv'
  BY <1>3, SenderStep DEF TypeOK, SendOk, EndCall, CompleteTask, senderVars, queueVars, receiverVars
<1> QED
  BY <1>1, <1>2, <1>4

\* A call that fails.
LEMMA SendFailsInv ==
  ASSUME IInv, NEW i \in Call, SendFails(i)
  PROVE  IInv'
<1> USE BoundAssumption, TaskAssumption DEF IInv, BoundAssumption, TaskAssumption
<1>1. TypeOK'
  <2>1. call' \in [Call -> CallType]
    BY EndCallType DEF SendFails
  <2>2. tasks' \in [TaskId -> TaskType]
    BY DEF TypeOK, SendFails, TaskType
  <2>3. wire' \subseteq Call /\ faults' \in 0 .. MaxFaults
    BY DEF TypeOK, SendFails
  <2> QED
    BY <2>1, <2>2, <2>3 DEF TypeOK, CallType, TaskType, SendFails, receiverVars
<1>2. CallInv'
  <2>1. /\ i \in Issued
        /\ \A j \in Call : call'[j].pkt = call[j].pkt /\ (j # i => call'[j] = call[j])
    BY DEF TypeOK, CallInv, Unused, SendFails, EndCall
  <2>2. \A t \in TaskId : tasks'[t].st # "none" => tasks'[t].pkt \in 0 .. sendCount - 1
    <3>1. call[i].pkt \in 0 .. sendCount - 1
      BY <2>1 DEF CallInv
    <3> QED
      BY <3>1 DEF TypeOK, CallInv, SendFails
  <2>3. Issued \subseteq Call /\ Issued' = Issued /\ sendCount' = sendCount
    BY DEF TypeOK, Issued, Call, SendFails
  <2> QED
    BY <2>1, <2>2, <2>3 DEF CallInv, SendFails, receiverVars
<1>3. \A j \in Issued : call'[j].pkt = call[j].pkt
  BY DEF TypeOK, CallInv, Issued, Call, SendFails, EndCall, senderVars, queueVars, receiverVars
<1>4. SeenInv' /\ OnceInv'
  BY <1>3, SenderStep DEF TypeOK, SendFails, EndCall, senderVars, queueVars, receiverVars
<1> QED
  BY <1>1, <1>2, <1>4

\* The broker takes a SEND.
LEMMA BrokerAcceptsInv ==
  ASSUME IInv, NEW i \in Call, BrokerAccepts(i)
  PROVE  IInv'
<1> USE BoundAssumption, TaskAssumption DEF IInv, BoundAssumption, TaskAssumption
<1>1. TypeOK'
  <2>1. Cardinality(accepted) \in Nat
    <3>1. IsFiniteSet(Call)
      BY FS_Interval DEF Call
    <3>2. accepted \subseteq Call
      BY DEF TypeOK
    <3> QED
      BY <3>1, <3>2, FS_Subset, FS_CardinalityType
  <2>2. place' \in [Call -> Nat]
    BY <2>1 DEF TypeOK, BrokerAccepts
  <2> QED
    BY <2>2 DEF TypeOK, Packet, Call, CallInv, BrokerAccepts, senderVars, queueVars, receiverVars
<1>2. CallInv'
  BY DEF TypeOK, CallInv, Issued, Call, Unused, BrokerAccepts, senderVars, queueVars, receiverVars
<1>3. \A j \in Issued : call'[j].pkt = call[j].pkt
  BY DEF TypeOK, CallInv, Issued, Call, BrokerAccepts, senderVars, queueVars, receiverVars
<1>4. SeenInv' /\ OnceInv'
  BY <1>3, SenderStep DEF TypeOK, BrokerAccepts, senderVars, queueVars, receiverVars
<1> QED
  BY <1>1, <1>2, <1>4

\* A drain takes its snapshot.
LEMMA DrainStartInv ==
  ASSUME IInv, NEW d \in Drain, DrainStart(d)
  PROVE  IInv'
<1> USE BoundAssumption, TaskAssumption DEF IInv, BoundAssumption, TaskAssumption
<1>1. TypeOK'
  <2>1. {tasks[t].pkt : t \in {u \in TaskId : tasks[u].st = "queued"}} \subseteq Packet
    <3>1. \A t \in TaskId : tasks[t].st = "queued" => tasks[t].pkt \in Packet
      <4>1. \A t \in TaskId : tasks[t].st = "queued" => tasks[t].pkt \in 0 .. sendCount - 1
        BY DEF CallInv
      <4>2. 0 .. sendCount - 1 \subseteq Packet
        BY DEF TypeOK, Packet
      <4> QED
        BY <4>1, <4>2
    <3> QED
      BY <3>1
  <2>2. snap' \in [Drain -> SUBSET Packet]
    BY <2>1 DEF TypeOK, DrainStart
  <2> QED
    BY <2>2 DEF TypeOK, DrainStart, queueVars, receiverVars
<1>2. CallInv'
  <2>1. {tasks[t].pkt : t \in {u \in TaskId : tasks[u].st = "queued"}} \subseteq 0 .. sendCount - 1
    BY DEF CallInv
  <2>2. \A e \in Drain : snap'[e] \subseteq 0 .. sendCount - 1
    BY <2>1 DEF TypeOK, CallInv, DrainStart
  <2> QED
    BY <2>2 DEF CallInv, Issued, DrainStart, queueVars, receiverVars
<1>3. \A j \in Issued : call'[j].pkt = call[j].pkt
  BY DEF TypeOK, CallInv, Issued, Call, DrainStart, senderVars, queueVars, receiverVars
<1>4. SeenInv' /\ OnceInv'
  BY <1>3, SenderStep DEF TypeOK, DrainStart, senderVars, queueVars, receiverVars
<1> QED
  BY <1>1, <1>2, <1>4

\* A drain sends a packet again.
LEMMA DrainSendInv ==
  ASSUME IInv, NEW d \in Drain, DrainSend(d)
  PROVE  IInv'
<1> USE BoundAssumption, TaskAssumption DEF IInv, BoundAssumption, TaskAssumption
<1>1. TypeOK'
  <2>1. PICK p \in snap[d] : Issue(p, d) /\ snap' = [snap EXCEPT ![d] = @ \ {p}]
    BY DEF DrainSend
  <2>2. p \in Nat
    BY DEF TypeOK, Packet
  <2>3. /\ call' \in [Call -> CallType]
        /\ nextId' \in 1 .. MaxCalls + 1
        /\ wire' \subseteq Call
    BY <2>1, <2>2, IssueType
  <2>4. snap' \in [Drain -> SUBSET Packet]
    BY <2>1 DEF TypeOK
  <2> QED
    BY <2>1, <2>3, <2>4 DEF TypeOK, CallType, DrainSend, Issue, receiverVars
<1>2. CallInv'
  BY DEF TypeOK, CallInv, Issued, Call, Unused, DrainSend, Issue, senderVars, queueVars, receiverVars
<1>3. \A j \in Issued : call'[j].pkt = call[j].pkt
  BY DEF TypeOK, CallInv, Issued, Call, DrainSend, Issue, senderVars, queueVars, receiverVars
<1>4. SeenInv' /\ OnceInv'
  BY <1>3, SenderStep DEF TypeOK, DrainSend, Issue, senderVars, queueVars, receiverVars
<1> QED
  BY <1>1, <1>2, <1>4

\* A message that does not decrypt.
LEMMA RejectInv ==
  ASSUME IInv, NEW r \in Reader, NEW m \in Call, Reject(r, m)
  PROVE  IInv'
<1> USE BoundAssumption, TaskAssumption DEF IInv, BoundAssumption, TaskAssumption
<1>1. TypeOK'
  BY DEF TypeOK, Packet, Call, CallInv, Reject, Pushed, senderVars, queueVars, receiverVars
<1>2. CallInv'
  BY DEF TypeOK, CallInv, Issued, Call, Unused, Reject, Pushed, senderVars, queueVars, receiverVars
<1>3. \A j \in Issued : call'[j].pkt = call[j].pkt
  BY DEF TypeOK, CallInv, Issued, Call, Reject, Pushed, senderVars, queueVars, receiverVars
<1>4. SeenInv' /\ OnceInv'
  BY <1>3, SenderStep DEF TypeOK, Reject, Pushed, senderVars, queueVars, receiverVars
<1> QED
  BY <1>1, <1>2, <1>4

\* The broker takes the ACK of a reader's message.
LEMMA BrokerAcksInv ==
  ASSUME IInv, NEW r \in Reader, BrokerAcks(r)
  PROVE  IInv'
<1> USE BoundAssumption, TaskAssumption DEF IInv, BoundAssumption, TaskAssumption
<1>1. reader[r].msg \in seen
  BY DEF BrokerAcks, SeenInv
<1>2. TypeOK'
  BY <1>1 DEF TypeOK, BrokerAcks, senderVars, receiverVars
<1>3. CallInv'
  BY <1>1 DEF CallInv, Issued, BrokerAcks, senderVars, receiverVars
<1>4. SeenInv'
  BY <1>1 DEF SeenInv, Consumed, BrokerAcks, senderVars, receiverVars
<1>5. OnceInv'
  BY DEF OnceInv, Consumed, BrokerAcks, senderVars, receiverVars
<1> QED
  BY <1>2, <1>3, <1>4, <1>5

\* receiveNext returns after an ACK.
LEMMA AckOkInv ==
  ASSUME IInv, NEW r \in Reader, AckOk(r)
  PROVE  IInv'
<1> USE BoundAssumption, TaskAssumption DEF IInv, BoundAssumption, TaskAssumption
<1>1. reader[r].msg \in seen
  BY DEF AckOk, senderVars, queueVars, SeenInv
<1>2. /\ reader' \in [Reader -> [st : {"idle", "fresh", "dup"}, msg : Nat]]
      /\ \A s \in Reader : reader'[s].st # "idle" => reader'[s] = reader[s] /\ s # r
      /\ delivered' \in [Packet -> Nat]
      /\ OnceInv'
  BY ReturnStep DEF AckOk, senderVars, queueVars
<1>3. TypeOK'
  BY <1>1, <1>2 DEF TypeOK, AckOk, senderVars, queueVars
<1>4. CallInv'
  BY <1>1 DEF CallInv, Issued, AckOk, senderVars, queueVars
<1>5. SeenInv'
  BY <1>1, <1>2 DEF SeenInv, Consumed, AckOk, senderVars, queueVars
<1> QED
  BY <1>2, <1>3, <1>4, <1>5

\* receiveNext returns and leaves an ACK task.
LEMMA AckFailsInv ==
  ASSUME IInv, NEW r \in Reader, AckFails(r)
  PROVE  IInv'
<1> USE BoundAssumption, TaskAssumption DEF IInv, BoundAssumption, TaskAssumption
<1>1. reader[r].msg \in seen
  BY DEF AckFails, senderVars, queueVars, SeenInv
<1>2. /\ reader' \in [Reader -> [st : {"idle", "fresh", "dup"}, msg : Nat]]
      /\ \A s \in Reader : reader'[s].st # "idle" => reader'[s] = reader[s] /\ s # r
      /\ delivered' \in [Packet -> Nat]
      /\ OnceInv'
  BY ReturnStep DEF AckFails, senderVars, queueVars
<1>3. TypeOK'
  BY <1>1, <1>2 DEF TypeOK, AckFails, senderVars, queueVars
<1>4. CallInv'
  BY <1>1 DEF CallInv, Issued, AckFails, senderVars, queueVars
<1>5. SeenInv'
  BY <1>1, <1>2 DEF SeenInv, Consumed, AckFails, senderVars, queueVars
<1> QED
  BY <1>2, <1>3, <1>4, <1>5

\* receiveNext returns without an ACK.
LEMMA AckSkippedInv ==
  ASSUME IInv, NEW r \in Reader, AckSkipped(r)
  PROVE  IInv'
<1> USE BoundAssumption, TaskAssumption DEF IInv, BoundAssumption, TaskAssumption
<1>1. reader[r].msg \in seen
  BY DEF AckSkipped, senderVars, queueVars, SeenInv
<1>2. /\ reader' \in [Reader -> [st : {"idle", "fresh", "dup"}, msg : Nat]]
      /\ \A s \in Reader : reader'[s].st # "idle" => reader'[s] = reader[s] /\ s # r
      /\ delivered' \in [Packet -> Nat]
      /\ OnceInv'
  BY ReturnStep DEF AckSkipped, senderVars, queueVars
<1>3. TypeOK'
  BY <1>1, <1>2 DEF TypeOK, AckSkipped, senderVars, queueVars
<1>4. CallInv'
  BY <1>1 DEF CallInv, Issued, AckSkipped, senderVars, queueVars
<1>5. SeenInv'
  BY <1>1, <1>2 DEF SeenInv, Consumed, AckSkipped, senderVars, queueVars
<1> QED
  BY <1>2, <1>3, <1>4, <1>5

\* An ACK task is carried out.
LEMMA DrainAckInv ==
  ASSUME IInv, NEW m \in Call, DrainAck(m)
  PROVE  IInv'
<1> USE BoundAssumption, TaskAssumption DEF IInv, BoundAssumption, TaskAssumption
<1>1. TypeOK'
  BY DEF TypeOK, DrainAck, senderVars
<1>2. CallInv'
  BY DEF CallInv, Issued, DrainAck, senderVars
<1>3. SeenInv'
  BY DEF SeenInv, Consumed, DrainAck, senderVars
<1>4. OnceInv'
  BY DEF OnceInv, Consumed, DrainAck, senderVars
<1> QED
  BY <1>1, <1>2, <1>3, <1>4

\* A message is decoded and recorded.
LEMMA DecodeInv ==
  ASSUME IInv, NEW r \in Reader, NEW m \in Call, Decode(r, m)
  PROVE  IInv'
<1> USE BoundAssumption, TaskAssumption DEF IInv, BoundAssumption, TaskAssumption
<1>1. /\ recvCount' \in 0 .. MaxSend /\ skipped' \subseteq Packet
      /\ SeenInv' /\ OnceInv'
  BY DecodeStep DEF Decode, senderVars, queueVars
<1>2. TypeOK'
  <2>1. reader' \in [Reader -> [st : {"idle", "fresh", "dup"}, msg : Nat]]
    BY DEF TypeOK, Call, Decode
  <2>2. seen' \subseteq Call
    BY DEF TypeOK, Decode
  <2> QED
    BY <1>1, <2>1, <2>2 DEF TypeOK, Decode, senderVars, queueVars
<1>3. CallInv'
  BY DEF CallInv, Issued, Pushed, Decode, senderVars, queueVars
<1> QED
  BY <1>1, <1>2, <1>3

\* A message is decoded and the fingerprint is not written.
LEMMA DecodeTornInv ==
  ASSUME IInv, NEW r \in Reader, NEW m \in Call, DecodeTorn(r, m)
  PROVE  IInv'
<1> USE BoundAssumption, TaskAssumption DEF IInv, BoundAssumption, TaskAssumption
<1>1. /\ recvCount' \in 0 .. MaxSend /\ skipped' \subseteq Packet
      /\ SeenInv' /\ OnceInv'
  BY DecodeStep DEF DecodeTorn, senderVars, queueVars
<1>2. TypeOK'
  BY <1>1 DEF TypeOK, Call, DecodeTorn, senderVars, queueVars
<1>3. CallInv'
  BY DEF CallInv, Issued, Pushed, DecodeTorn, senderVars, queueVars
<1> QED
  BY <1>1, <1>2, <1>3

\* A redelivery of a recorded message.
LEMMA DuplicateInv ==
  ASSUME IInv, NEW r \in Reader, NEW m \in Call, Duplicate(r, m)
  PROVE  IInv'
<1> USE BoundAssumption, TaskAssumption DEF IInv, BoundAssumption, TaskAssumption
<1>1. \A s \in Reader : reader'[s] = IF s = r THEN [st |-> "dup", msg |-> m]
                                      ELSE reader[s]
  BY DEF TypeOK, Duplicate
<1>2. TypeOK'
  <2>1. reader' \in [Reader -> [st : {"idle", "fresh", "dup"}, msg : Nat]]
    BY <1>1 DEF TypeOK, Call, Duplicate
  <2> QED
    BY <2>1 DEF TypeOK, Duplicate, senderVars, queueVars
<1>3. CallInv'
  BY DEF CallInv, Issued, Duplicate, senderVars, queueVars
<1>4. SeenInv'
  BY <1>1 DEF SeenInv, Consumed, Duplicate, senderVars, queueVars
<1>5. OnceInv'
  BY <1>1 DEF OnceInv, Consumed, Duplicate, senderVars, queueVars
<1> QED
  BY <1>2, <1>3, <1>4, <1>5

\* The receiver's page goes away.
LEMMA ReceiverCrashInv ==
  ASSUME IInv, ReceiverCrash
  PROVE  IInv'
<1> USE BoundAssumption, TaskAssumption DEF IInv, BoundAssumption, TaskAssumption
<1>1. \A s \in Reader : reader'[s] = Idle
  BY DEF ReceiverCrash
<1>2. TypeOK'
  BY DEF TypeOK, Idle, ReceiverCrash, senderVars, queueVars
<1>3. CallInv'
  BY DEF CallInv, Issued, ReceiverCrash, senderVars, queueVars
<1>4. SeenInv'
  BY <1>1 DEF SeenInv, Consumed, Idle, ReceiverCrash, senderVars, queueVars
<1>5. OnceInv'
  BY <1>1 DEF OnceInv, Consumed, Idle, ReceiverCrash, senderVars, queueVars
<1> QED
  BY <1>2, <1>3, <1>4, <1>5

\* No step of the sender, the broker or the receiver breaks the invariant.
LEMMA NextInv == IInv /\ [Next]_vars => IInv'
<1> SUFFICES ASSUME IInv, [Next]_vars PROVE IInv'
  OBVIOUS
<1>1. CASE SendPlaintext \/ SenderCrash \/ ReceiverCrash
  BY <1>1, SendPlaintextInv, SenderCrashInv, ReceiverCrashInv
<1>2. CASE \E i \in Call : SendOk(i) \/ SendFails(i) \/ BrokerAccepts(i) \/ DrainAck(i)
  BY <1>2, SendOkInv, SendFailsInv, BrokerAcceptsInv, DrainAckInv
<1>3. CASE \E d \in Drain : DrainStart(d) \/ DrainSend(d)
  BY <1>3, DrainStartInv, DrainSendInv
<1>4. CASE \E r \in Reader : BrokerAcks(r) \/ AckOk(r) \/ AckFails(r) \/ AckSkipped(r)
  BY <1>4, BrokerAcksInv, AckOkInv, AckFailsInv, AckSkippedInv
<1>5. CASE \E r \in Reader, m \in Call : Receive(r, m)
  BY <1>5, DecodeInv, DecodeTornInv, DuplicateInv, RejectInv DEF Receive
<1>6. CASE UNCHANGED vars
  <2> USE <1>6 DEF IInv, vars, senderVars, queueVars, receiverVars
  <2>1. TypeOK'
    BY DEF TypeOK
  <2>2. CallInv'
    BY DEF CallInv, Issued
  <2>3. SeenInv' /\ OnceInv'
    BY DEF SeenInv, OnceInv, Consumed
  <2> QED
    BY <2>1, <2>2, <2>3
<1> QED
  BY <1>1, <1>2, <1>3, <1>4, <1>5, <1>6 DEF Next

\* The invariant holds in every reachable state.
THEOREM Invariance == Spec => []IInv
  BY InitInv, NextInv, PTL DEF Spec

-----------------------------------------------------------------------------
(* What it gives.                                                          *)

\* Types, for every instance.
THEOREM TypeCorrect == Spec => []TypeOK
<1>1. IInv => TypeOK
  BY DEF IInv
<1> QED
  BY <1>1, Invariance, PTL

\* receiveNext never returns the plaintext of one packet twice: not when a
\* SEND is repeated by retries, not when the broker pushes a message again, not
\* when pages are closed between any two writes, and for any number of
\* concurrent drains and readers.
THEOREM DeliveredOnce == Spec => []AtMostOnce
<1>1. IInv => AtMostOnce
  BY DEF IInv, OnceInv, AtMostOnce
<1> QED
  BY <1>1, Invariance, PTL

\* receiveNext acknowledges, now or by a task, only what it has recorded.
THEOREM AckedAfterSeen == Spec => []AckedWasSeen
<1>1. IInv => AckedWasSeen
  BY DEF IInv, SeenInv, AckedWasSeen
<1> QED
  BY <1>1, Invariance, PTL

-----------------------------------------------------------------------------
(* The handlers implement the abstract channel.                            *)

\* One more message extends the range of those sent by its number.
LEMMA RangeGrows == \A n \in Nat : /\ 0 .. (n + 1) - 1 = (0 .. n - 1) \cup {n}
                                   /\ n \notin 0 .. n - 1
  OBVIOUS

\* Encrypting a message is the channel's Send.
LEMMA SendPlaintextSends ==
  ASSUME TypeOK, SendPlaintext
  PROVE  Channel!ChanNext
<1>1. sendCount \in Nat /\ sendCount \in Packet /\ sendCount' = sendCount + 1
  BY BoundAssumption DEF TypeOK, SendPlaintext, Packet, BoundAssumption
<1>2. /\ sendCount \notin 0 .. sendCount - 1
      /\ 0 .. sendCount' - 1 = (0 .. sendCount - 1) \cup {sendCount}
  BY <1>1, RangeGrows
<1>3. delivered' = delivered
  BY DEF SendPlaintext
<1>4. Channel!Send(sendCount)
  BY <1>2, <1>3 DEF Channel!Send
<1> QED
  BY <1>1, <1>4 DEF Channel!ChanNext

\* Returning from receiveNext is the channel's Hand, or nothing.
LEMMA ReturnHands ==
  ASSUME IInv, NEW r \in Reader, reader[r].st # "idle", Return(r),
         UNCHANGED sendCount
  PROVE  Channel!ChanNext \/ UNCHANGED <<sendCount, delivered>>
<1> DEFINE p == call[reader[r].msg].pkt
<1>1. CASE reader[r].st = "fresh"
  <2>1. p \in 0 .. sendCount - 1 /\ p \in Packet
    <3>1. reader[r].msg \in Issued
      BY DEF IInv, SeenInv, CallInv
    <3>2. p \in 0 .. sendCount - 1
      BY <3>1 DEF IInv, CallInv
    <3> QED
      BY <3>2, BoundAssumption DEF IInv, TypeOK, Packet, BoundAssumption
  <2>2. delivered[p] = 0
    BY <1>1 DEF IInv, OnceInv
  <2>3. delivered' = [delivered EXCEPT ![p] = 1]
    BY <1>1, <2>1, <2>2 DEF Return, IInv, TypeOK
  <2>4. 0 .. sendCount' - 1 = 0 .. sendCount - 1
    OBVIOUS
  <2>5. Channel!Hand(p)
    BY <2>1, <2>2, <2>3, <2>4 DEF Channel!Hand
  <2> QED
    BY <2>1, <2>5 DEF Channel!ChanNext
<1>2. CASE reader[r].st # "fresh"
  BY <1>2 DEF Return
<1> QED
  BY <1>1, <1>2

\* What sendText and receiveNext promise an application is the at-most-once
\* channel, and nothing the two handlers, the retries and the broker do in
\* between is visible to it.
THEOREM Refinement == Spec => ChannelSpec
<1>1. Init => Channel!ChanInit
  BY DEF Init, Channel!ChanInit
<1>2. IInv /\ [Next]_vars => [Channel!ChanNext]_(Channel!chanVars)
  <2> SUFFICES ASSUME IInv, [Next]_vars
               PROVE  Channel!ChanNext \/ UNCHANGED <<sendCount, delivered>>
    BY DEF Channel!chanVars
  <2>1. CASE SendPlaintext
    BY <2>1, SendPlaintextSends DEF IInv
  <2>2. CASE SenderCrash \/ ReceiverCrash
    BY <2>2 DEF SenderCrash, ReceiverCrash, senderVars
  <2>3. CASE \E i \in Call : SendOk(i) \/ SendFails(i) \/ BrokerAccepts(i) \/ DrainAck(i)
    BY <2>3 DEF SendOk, SendFails, BrokerAccepts, DrainAck, senderVars
  <2>4. CASE \E d \in Drain : DrainStart(d) \/ DrainSend(d)
    BY <2>4 DEF DrainStart, DrainSend
  <2>5. CASE \E r \in Reader : AckOk(r) \/ AckFails(r) \/ AckSkipped(r)
    BY <2>5, ReturnHands DEF AckOk, AckFails, AckSkipped, senderVars
  <2>6. CASE \E r \in Reader, m \in Call : Receive(r, m)
    BY <2>6 DEF Receive, Decode, DecodeTorn, Duplicate, Reject, senderVars
  <2>7. CASE \E r \in Reader : BrokerAcks(r)
    BY <2>7 DEF BrokerAcks, senderVars
  <2>8. CASE UNCHANGED vars
    BY <2>8 DEF vars, senderVars
  <2> QED
    BY <2>1, <2>2, <2>3, <2>4, <2>5, <2>6, <2>7, <2>8 DEF Next
<1> QED
  BY <1>1, <1>2, Invariance, PTL DEF Spec, ChannelSpec, Channel!ChanSpec

-----------------------------------------------------------------------------
(***************************************************************************)
(* PacketsKept of MessageDelivery, for every number of messages, calls,    *)
(* faults, drains and readers: while no page is closed, the ids of the     *)
(* retry tasks are distinct and the skipped keys fit the two limits, every *)
(* packet is handed over or still on its way.                              *)
(*                                                                         *)
(* Every packet that was sealed either is still being sent for the first   *)
(* time or is backed: by a queued task that holds it, or by a copy that    *)
(* the broker took.  Backing never ends, and it is all a drain relies on,  *)
(* however old its snapshot is.  At the receiver the key of a number is    *)
(* gone only when its plaintext is with the caller or about to be.         *)
(***************************************************************************)

\* No crashes, no two packets with one task id, and no key is ever cut.
Unhindered ==
  /\ ~MayCrash
  /\ \A p, q \in Packet : TaskOf[p] = TaskOf[q] => p = q
  /\ MaxSend <= MaxSkip /\ MaxSend <= StoreList

\* Packets that a queued task holds, and packets the broker took a copy of.
Queued == {tasks[t].pkt : t \in {u \in TaskId : tasks[u].st = "queued"}}
Copied == {call[i].pkt : i \in accepted}
Backed == Queued \cup Copied

\* Packets whose first attempt still waits for its answer.
FirstTry == {call[i].pkt : i \in {j \in Call : call[j].st = "open" /\ call[j].via = Direct}}

SenderKeeps ==
  /\ answers \subseteq accepted
  /\ \A t \in TaskId : tasks[t].st # "none" => TaskOf[tasks[t].pkt] = t
  /\ \A i \in Call : call[i].st = "open" /\ call[i].via # Direct => call[i].pkt \in Backed
  /\ \A d \in Drain : snap[d] \subseteq Backed
  /\ 0 .. sendCount - 1 \subseteq FirstTry \cup Backed
  /\ \A t \in TaskId : tasks[t].st = "done" => tasks[t].pkt \in Copied

\* The plaintext is with the caller of receiveNext, or about to be.
InHand == {p \in Packet : delivered[p] > 0}
            \cup {call[reader[r].msg].pkt : r \in {s \in Reader : reader[s].st = "fresh"}}

ReceiverKeeps == \A p \in Packet : Consumed(p) => p \in InHand

KInv == IInv /\ SenderKeeps /\ ReceiverKeeps

-----------------------------------------------------------------------------
(* The skipped keys.                                                       *)

\* Keys of the packets there can be are never cut: fewer than MaxSend of them
\* are on either side of any.
LEMMA KeptAll ==
  ASSUME Unhindered, NEW S \in SUBSET Packet
  PROVE  Kept(S) = S
<1> USE BoundAssumption DEF BoundAssumption
<1>1. IsFiniteSet(Packet) /\ Cardinality(Packet) = MaxSend
  <2>1. 0 \in Int /\ MaxSend - 1 \in Int /\ 0 .. MaxSend - 1 = Packet
    BY DEF Packet
  <2>2. IsFiniteSet(Packet)
        /\ Cardinality(Packet) = IF 0 > MaxSend - 1 THEN 0 ELSE (MaxSend - 1) - 0 + 1
    BY <2>1, FS_Interval
  <2> QED
    BY <2>2
<1>2. ASSUME NEW x \in Packet, NEW T \in SUBSET Packet, x \notin T
      PROVE  Cardinality(T) \in Nat /\ Cardinality(T) < MaxSend
  <2>1. T # Packet
    BY <1>2
  <2>2. /\ IsFiniteSet(T) /\ Cardinality(T) <= Cardinality(Packet)
        /\ Cardinality(Packet) = Cardinality(T) => Packet = T
    BY <1>1, FS_Subset, Zenon
  <2>3. Cardinality(T) \in Nat
    BY <2>2, FS_CardinalityType
  <2> QED
    BY <1>1, <2>1, <2>2, <2>3
<1>3. \A x \in S : LargerIn(S, x) < MaxSkip
  <2> SUFFICES ASSUME NEW x \in S PROVE LargerIn(S, x) < MaxSkip
    OBVIOUS
  <2>1. x \in Packet /\ x \in Nat /\ ~(x > x)
    BY DEF Packet
  <2>2. {y \in S : y > x} \in SUBSET Packet /\ x \notin {y \in S : y > x}
    BY <2>1, Zenon
  <2>3. LargerIn(S, x) \in Nat /\ LargerIn(S, x) < MaxSend
    BY <1>2, <2>1, <2>2 DEF LargerIn
  <2> QED
    BY <2>3 DEF Unhindered
<1>4. {x \in S : LargerIn(S, x) < MaxSkip} = S
  BY <1>3
<1>5. \A x \in S : SmallerIn(S, x) < StoreList
  <2> SUFFICES ASSUME NEW x \in S PROVE SmallerIn(S, x) < StoreList
    OBVIOUS
  <2>1. x \in Packet /\ x \in Nat /\ ~(x < x)
    BY DEF Packet
  <2>2. {y \in S : y < x} \in SUBSET Packet /\ x \notin {y \in S : y < x}
    BY <2>1, Zenon
  <2>3. SmallerIn(S, x) \in Nat /\ SmallerIn(S, x) < MaxSend
    BY <1>2, <2>1, <2>2 DEF SmallerIn
  <2> QED
    BY <2>3 DEF Unhindered
<1> QED
  BY <1>4, <1>5 DEF Kept

\* Decoding a packet consumes its number and no other.
LEMMA AdvanceConsumesOne ==
  ASSUME Unhindered, IInv, NEW p \in Packet, Decryptable(p), AdvanceTo(p), NEW q \in Packet, Consumed(q)'
  PROVE  Consumed(q) \/ q = p
<1> USE BoundAssumption DEF BoundAssumption
<1>1. recvCount \in Nat /\ skipped \subseteq Packet /\ q \in Nat /\ p \in Nat
  BY DEF IInv, TypeOK, Packet
<1>2. CASE p \in skipped
  <2>1. skipped \ {p} \in SUBSET Packet
    BY <1>1
  <2>2. skipped' = skipped \ {p} /\ recvCount' = recvCount
    BY <1>2, <2>1, KeptAll DEF AdvanceTo
  <2> QED
    BY <1>1, <2>2 DEF Consumed
<1>3. CASE p \notin skipped
  <2>1. skipped \cup (recvCount .. p - 1) \in SUBSET Packet
    BY <1>1 DEF Packet
  <2>2. skipped' = skipped \cup (recvCount .. p - 1) /\ recvCount' = p + 1
    BY <1>3, <2>1, KeptAll DEF AdvanceTo
  <2> QED
    BY <1>1, <2>2 DEF Consumed
<1> QED
  BY <1>2, <1>3

-----------------------------------------------------------------------------
(* The sender.                                                             *)

\* Packets are numbers.
LEMMA PacketNat ==
  ASSUME IInv
  PROVE  /\ \A i \in Issued : i \in Call
         /\ \A i \in Call : call[i].st = "open" => i \in Issued /\ call[i].pkt \in Packet
         /\ accepted \subseteq Issued
         /\ \A t \in TaskId : tasks[t].st # "none" => tasks[t].pkt \in Packet
<1> USE BoundAssumption DEF BoundAssumption
<1>1. Packet \subseteq Nat /\ 0 .. sendCount - 1 \subseteq Packet
  BY DEF IInv, TypeOK, Packet
<1>2. \A i \in Issued : i \in Call
  BY DEF IInv, TypeOK, Issued, Call
<1>3. \A i \in Issued : call[i].pkt \in Packet
  BY <1>1 DEF IInv, CallInv
<1>4. \A i \in Call : call[i].st = "open" => i \in Issued
  BY DEF IInv, CallInv, Unused
<1>5. \A t \in TaskId : tasks[t].st # "none" => tasks[t].pkt \in Packet
  BY <1>1 DEF IInv, CallInv
<1> QED
  BY <1>2, <1>3, <1>4, <1>5 DEF IInv, CallInv

\* Packets keep their backing while commands keep their packets and tasks are
\* queued or closed as SendOk and SendFails do it.
LEMMA BackedStays ==
  ASSUME accepted \subseteq accepted', \A i \in accepted : call'[i].pkt = call[i].pkt,
         \A t \in TaskId : \/ tasks'[t] = tasks[t]
                           \/ tasks'[t].st = "queued" /\ tasks'[t].pkt = tasks[t].pkt
                           \/ tasks[t].st # "queued"
                           \/ tasks[t].pkt \in Copied
  PROVE  Copied \subseteq Copied' /\ Backed \subseteq Backed'
<1>1. Copied \subseteq Copied'
  BY DEF Copied
<1>2. ASSUME NEW t \in TaskId, tasks[t].st = "queued"
      PROVE  tasks[t].pkt \in Backed'
  <2>1. CASE tasks'[t].st = "queued" /\ tasks'[t].pkt = tasks[t].pkt
    BY <2>1 DEF Backed, Queued
  <2>2. CASE tasks[t].pkt \in Copied
    BY <1>1, <2>2 DEF Backed
  <2> QED
    BY <1>2, <2>1, <2>2
<1>3. Queued \subseteq Backed'
  BY <1>2 DEF Queued
<1> QED
  BY <1>1, <1>3 DEF Backed

\* A step that leaves commands and tasks as they are.
LEMMA QuietStep ==
  ASSUME SenderKeeps, UNCHANGED <<sendCount, tasks, call, snap, accepted, answers>>
  PROVE  SenderKeeps'
  BY DEF SenderKeeps, Backed, Queued, Copied, FirstTry

\* A new command changes no other, and takes no backing away.
LEMMA IssueStep ==
  ASSUME IInv, NEW p, NEW v, Issue(p, v), tasks' = tasks
  PROVE  /\ nextId \in Call
         /\ call'[nextId] = [st |-> "open", pkt |-> p, via |-> v]
         /\ \A i \in Call : i # nextId => call'[i] = call[i]
         /\ accepted' = accepted /\ answers' = answers
         /\ Copied \subseteq Copied' /\ Backed \subseteq Backed' /\ FirstTry \subseteq FirstTry'
<1>1. nextId \in Call /\ nextId \notin Issued
  BY BoundAssumption DEF IInv, TypeOK, Issue, Issued, Call, BoundAssumption
<1>2. call' = [call EXCEPT ![nextId] = [st |-> "open", pkt |-> p, via |-> v]]
  BY DEF Issue
<1>3. call'[nextId] = [st |-> "open", pkt |-> p, via |-> v]
      /\ \A i \in Call : i # nextId => call'[i] = call[i]
  BY <1>1, <1>2 DEF IInv, TypeOK
<1>4. accepted' = accepted /\ answers' = answers
  BY DEF Issue
<1>5. \A i \in accepted : call'[i].pkt = call[i].pkt
  BY <1>1, <1>3, PacketNat
<1>6. Copied \subseteq Copied' /\ Backed \subseteq Backed'
  BY <1>4, <1>5, BackedStays
<1>7. \A i \in Call : call[i].st = "open" => call'[i] = call[i]
  BY <1>1, <1>3, PacketNat
<1>8. FirstTry \subseteq FirstTry'
  BY <1>7 DEF FirstTry
<1> QED
  BY <1>1, <1>3, <1>4, <1>6, <1>8

\* A first attempt is a FirstTry of its packet.
LEMMA SendPlaintextKeeps ==
  ASSUME IInv, SenderKeeps, SendPlaintext
  PROVE  SenderKeeps'
<1>1. Issue(sendCount, Direct) /\ tasks' = tasks /\ snap' = snap /\ sendCount' = sendCount + 1
  BY DEF SendPlaintext
<1>2. sendCount \in Nat
  BY DEF IInv, TypeOK
<1>3. /\ nextId \in Call
      /\ call'[nextId] = [st |-> "open", pkt |-> sendCount, via |-> Direct]
      /\ \A i \in Call : i # nextId => call'[i] = call[i]
      /\ accepted' = accepted /\ answers' = answers
      /\ Copied \subseteq Copied' /\ Backed \subseteq Backed' /\ FirstTry \subseteq FirstTry'
  BY <1>1, IssueStep
<1>4. sendCount \in FirstTry'
  BY <1>3 DEF FirstTry
<1>5. 0 .. sendCount' - 1 = (0 .. sendCount - 1) \cup {sendCount}
  BY <1>1, <1>2, RangeGrows
<1>6. 0 .. sendCount' - 1 \subseteq FirstTry' \cup Backed'
  BY <1>3, <1>4, <1>5 DEF SenderKeeps
<1>7. \A i \in Call : call'[i].st = "open" /\ call'[i].via # Direct => call'[i].pkt \in Backed'
  BY <1>3 DEF SenderKeeps
<1>8. \A d \in Drain : snap'[d] \subseteq Backed'
  BY <1>1, <1>3 DEF SenderKeeps
<1>9. \A t \in TaskId : tasks'[t].st = "done" => tasks'[t].pkt \in Copied'
  BY <1>1, <1>3 DEF SenderKeeps
<1> QED
  BY <1>1, <1>3, <1>6, <1>7, <1>8, <1>9 DEF SenderKeeps

\* A drain's command is for a packet that its snapshot had, so it is backed.
LEMMA DrainSendKeeps ==
  ASSUME IInv, SenderKeeps, NEW d \in Drain, DrainSend(d)
  PROVE  SenderKeeps'
<1>1. PICK q \in snap[d] : Issue(q, d) /\ snap' = [snap EXCEPT ![d] = @ \ {q}]
  BY DEF DrainSend
<1>2. tasks' = tasks /\ sendCount' = sendCount
  BY DEF DrainSend
<1>3. /\ nextId \in Call
      /\ call'[nextId] = [st |-> "open", pkt |-> q, via |-> d]
      /\ \A i \in Call : i # nextId => call'[i] = call[i]
      /\ accepted' = accepted /\ answers' = answers
      /\ Copied \subseteq Copied' /\ Backed \subseteq Backed' /\ FirstTry \subseteq FirstTry'
  BY <1>1, <1>2, IssueStep
<1>4. q \in Backed'
  BY <1>3 DEF SenderKeeps
<1>5. \A i \in Call : call'[i].st = "open" /\ call'[i].via # Direct => call'[i].pkt \in Backed'
  BY <1>3, <1>4 DEF SenderKeeps
<1>6. \A e \in Drain : snap'[e] \subseteq snap[e]
  BY <1>1 DEF IInv, TypeOK
<1>7. \A e \in Drain : snap'[e] \subseteq Backed'
  BY <1>3, <1>6 DEF SenderKeeps
<1>8. 0 .. sendCount' - 1 \subseteq FirstTry' \cup Backed'
  BY <1>2, <1>3 DEF SenderKeeps
<1>9. \A t \in TaskId : tasks'[t].st = "done" => tasks'[t].pkt \in Copied'
  BY <1>2, <1>3 DEF SenderKeeps
<1> QED
  BY <1>2, <1>3, <1>5, <1>7, <1>8, <1>9 DEF SenderKeeps

\* A drain's snapshot holds queued packets.
LEMMA DrainStartKeeps ==
  ASSUME IInv, SenderKeeps, NEW d \in Drain, DrainStart(d)
  PROVE  SenderKeeps'
<1>1. UNCHANGED <<sendCount, tasks, call, accepted, answers>>
  BY DEF DrainStart, queueVars
<1>2. Copied' = Copied /\ Backed' = Backed /\ FirstTry' = FirstTry
  BY <1>1 DEF Copied, Backed, Queued, FirstTry
<1>3. snap' = [snap EXCEPT ![d] = Queued]
  BY DEF DrainStart, Queued
<1>4. \A e \in Drain : snap'[e] \subseteq Backed
  BY <1>3 DEF SenderKeeps, Backed, IInv, TypeOK
<1> QED
  BY <1>1, <1>2, <1>4 DEF SenderKeeps

\* The broker's copy backs its packet.
LEMMA BrokerAcceptsKeeps ==
  ASSUME IInv, SenderKeeps, NEW i \in Call, BrokerAccepts(i)
  PROVE  SenderKeeps'
<1>1. UNCHANGED <<sendCount, tasks, call, snap>>
  BY DEF BrokerAccepts, senderVars
<1>2. accepted \subseteq accepted' /\ answers' \subseteq accepted'
  BY DEF BrokerAccepts, SenderKeeps
<1>3. Copied \subseteq Copied' /\ Backed \subseteq Backed'
  BY <1>1, <1>2, BackedStays
<1>4. FirstTry' = FirstTry
  BY <1>1 DEF FirstTry
<1> QED
  BY <1>1, <1>2, <1>3, <1>4 DEF SenderKeeps

\* A command that ends: the others stay, and so do the packets.
LEMMA EndCallStep ==
  ASSUME IInv, NEW i \in Call, EndCall(i)
  PROVE  /\ \A j \in Call : /\ call'[j].pkt = call[j].pkt /\ call'[j].via = call[j].via
                            /\ call'[j].st = "open" => call[j].st = "open"
                            /\ j # i => call'[j] = call[j]
         /\ \A j \in accepted : call'[j].pkt = call[j].pkt
<1>1. \A j \in Call : /\ call'[j].pkt = call[j].pkt /\ call'[j].via = call[j].via
                      /\ call'[j].st = "open" => call[j].st = "open"
                      /\ j # i => call'[j] = call[j]
  BY DEF IInv, TypeOK, EndCall
<1>2. accepted \subseteq Call
  BY DEF IInv, TypeOK
<1> QED
  BY <1>1, <1>2

\* The rest follows once a command that ends leaves its packet backed.
LEMMA EndKeeps ==
  ASSUME IInv, SenderKeeps, NEW i \in Call, EndCall(i),
         UNCHANGED <<sendCount, snap, accepted, answers>>,
         Backed \subseteq Backed', call[i].pkt \in Backed',
         \A t \in TaskId : tasks'[t].st # "none" => TaskOf[tasks'[t].pkt] = t,
         \A t \in TaskId : tasks'[t].st = "done" => tasks'[t].pkt \in Copied'
  PROVE  SenderKeeps'
<1>1. \A j \in Call : /\ call'[j].pkt = call[j].pkt /\ call'[j].via = call[j].via
                      /\ call'[j].st = "open" => call[j].st = "open"
                      /\ j # i => call'[j] = call[j]
  BY EndCallStep
<1>2. \A j \in Call : call'[j].st = "open" /\ call'[j].via # Direct => call'[j].pkt \in Backed'
  BY <1>1 DEF SenderKeeps
<1>3. \A d \in Drain : snap'[d] \subseteq Backed'
  BY DEF SenderKeeps
<1>4. FirstTry \subseteq FirstTry' \cup {call[i].pkt}
  BY <1>1 DEF FirstTry
<1>5. 0 .. sendCount' - 1 \subseteq FirstTry' \cup Backed'
  BY <1>4 DEF SenderKeeps
<1> QED
  BY <1>2, <1>3, <1>5 DEF SenderKeeps

\* The task of an open command's packet, if there is one, holds that packet.
LEMMA TaskOfCall ==
  ASSUME Unhindered, IInv, SenderKeeps, NEW i \in Call, call[i].st = "open"
  PROVE  /\ TaskOf[call[i].pkt] \in TaskId
         /\ tasks[TaskOf[call[i].pkt]].st # "none" => tasks[TaskOf[call[i].pkt]].pkt = call[i].pkt
<1>1. call[i].pkt \in Packet
  BY PacketNat
<1>2. TaskOf[call[i].pkt] \in TaskId
  BY <1>1, TaskAssumption DEF TaskAssumption
<1>3. ASSUME NEW t \in TaskId, t = TaskOf[call[i].pkt], tasks[t].st # "none"
      PROVE  tasks[t].pkt = call[i].pkt
  <2>1. TaskOf[tasks[t].pkt] = t
    BY <1>3 DEF SenderKeeps
  <2>2. tasks[t].pkt \in Packet
    BY <1>3, PacketNat
  <2> QED
    BY <1>1, <1>3, <2>1, <2>2 DEF Unhindered
<1> QED
  BY <1>2, <1>3

\* The OK comes from a broker that has the packet, so the task may be closed.
LEMMA SendOkKeeps ==
  ASSUME Unhindered, IInv, SenderKeeps, NEW i \in Call, SendOk(i)
  PROVE  SenderKeeps'
<1>1. /\ call[i].st = "open" /\ i \in accepted /\ EndCall(i)
      /\ UNCHANGED <<sendCount, snap, accepted, answers>>
  BY DEF SendOk, SenderKeeps, queueVars
<1>2. PICK u \in TaskId : u = TaskOf[call[i].pkt] /\ (tasks[u].st # "none" => tasks[u].pkt = call[i].pkt)
  BY <1>1, TaskOfCall
<1>3. call[i].pkt \in Copied
  BY <1>1 DEF Copied
<1>4. \A t \in TaskId : /\ t # u => tasks'[t] = tasks[t]
                        /\ tasks'[t].pkt = tasks[t].pkt
                        /\ tasks'[t].st # "none" => tasks[t].st # "none"
  <2>1. tasks' = [tasks EXCEPT ![u].st = IF @ = "none" THEN "none" ELSE "done"]
    BY <1>2 DEF SendOk, CompleteTask
  <2>2. tasks \in [TaskId -> [st : {"none", "queued", "done"}, pkt : Nat]]
    BY DEF IInv, TypeOK
  <2> QED
    BY <2>1, <2>2
<1>5. \A j \in accepted : call'[j].pkt = call[j].pkt
  BY <1>1, EndCallStep
<1>6. \A t \in TaskId : tasks'[t] = tasks[t] \/ tasks[t].st # "queued" \/ tasks[t].pkt \in Copied
  BY <1>2, <1>3, <1>4
<1>7. Copied \subseteq Copied' /\ Backed \subseteq Backed'
  BY <1>1, <1>5, <1>6, BackedStays
<1>8. call[i].pkt \in Backed'
  BY <1>3, <1>7 DEF Backed
<1>9. \A t \in TaskId : tasks'[t].st # "none" => TaskOf[tasks'[t].pkt] = t
  BY <1>4 DEF SenderKeeps
<1>10. \A t \in TaskId : tasks'[t].st = "done" => tasks'[t].pkt \in Copied'
  <2> SUFFICES ASSUME NEW t \in TaskId, tasks'[t].st = "done" PROVE tasks'[t].pkt \in Copied'
    OBVIOUS
  <2>1. tasks'[t].pkt = tasks[t].pkt /\ tasks[t].st # "none"
    BY <1>4
  <2>2. CASE t = u
    BY <1>2, <1>3, <1>7, <2>1, <2>2
  <2>3. CASE t # u
    BY <1>4, <1>7, <2>3 DEF SenderKeeps
  <2> QED
    BY <2>2, <2>3
<1> QED
  BY <1>1, <1>7, <1>8, <1>9, <1>10, EndKeeps

\* A first attempt that fails is queued; a retry that fails was backed.
LEMMA SendFailsKeeps ==
  ASSUME Unhindered, IInv, SenderKeeps, NEW i \in Call, SendFails(i)
  PROVE  SenderKeeps'
<1>1. call[i].st = "open" /\ EndCall(i) /\ UNCHANGED <<sendCount, snap, accepted, answers>>
  BY DEF SendFails
<1>2. PICK u \in TaskId : u = TaskOf[call[i].pkt] /\ (tasks[u].st # "none" => tasks[u].pkt = call[i].pkt)
  BY <1>1, TaskOfCall
<1>3. \/ call[i].via # Direct /\ tasks' = tasks
      \/ /\ \A t \in TaskId : t # u => tasks'[t] = tasks[t]
         /\ tasks'[u].st = "queued" /\ tasks'[u].pkt = call[i].pkt
  <2>1. tasks \in [TaskId -> [st : {"none", "queued", "done"}, pkt : Nat]]
    BY DEF IInv, TypeOK
  <2>2. tasks' = IF call[i].via = Direct
                 THEN [tasks EXCEPT ![u] = [st |-> "queued", pkt |-> call[i].pkt]]
                 ELSE tasks
    BY <1>2 DEF SendFails
  <2> QED
    BY <2>1, <2>2
<1>4. \A j \in accepted : call'[j].pkt = call[j].pkt
  BY <1>1, EndCallStep
<1>5. \A t \in TaskId : \/ tasks'[t] = tasks[t]
                        \/ tasks[t].st # "queued"
                        \/ tasks'[t].st = "queued" /\ tasks'[t].pkt = tasks[t].pkt
  BY <1>2, <1>3
<1>6. Copied \subseteq Copied' /\ Backed \subseteq Backed'
  BY <1>1, <1>4, <1>5, BackedStays
<1>7. call[i].pkt \in Backed'
  <2>1. CASE call[i].via # Direct
    BY <1>1, <1>6, <2>1 DEF SenderKeeps
  <2>2. CASE tasks'[u].st = "queued" /\ tasks'[u].pkt = call[i].pkt
    BY <2>2 DEF Backed, Queued
  <2> QED
    BY <1>3, <2>1, <2>2
<1>8. \A t \in TaskId : tasks'[t].st # "none" => TaskOf[tasks'[t].pkt] = t
  BY <1>2, <1>3 DEF SenderKeeps
<1>9. \A t \in TaskId : tasks'[t].st = "done" => tasks'[t].pkt \in Copied'
  <2> SUFFICES ASSUME NEW t \in TaskId, tasks'[t].st = "done" PROVE tasks'[t].pkt \in Copied'
    OBVIOUS
  <2>1. tasks'[t] = tasks[t]
    BY <1>3
  <2> QED
    BY <1>6, <2>1 DEF SenderKeeps
<1> QED
  BY <1>1, <1>6, <1>7, <1>8, <1>9, EndKeeps

-----------------------------------------------------------------------------
(* The receiver.                                                           *)

\* A new command leaves the packets of the earlier ones.
LEMMA IssuedKept ==
  ASSUME IInv, NEW p, NEW v, Issue(p, v)
  PROVE  \A i \in Issued : call'[i].pkt = call[i].pkt
<1>1. nextId \in Call /\ nextId \notin Issued
  BY BoundAssumption DEF IInv, TypeOK, Issue, Issued, Call, BoundAssumption
<1>2. \A i \in Call : i # nextId => call'[i] = call[i]
  BY <1>1 DEF Issue, IInv, TypeOK
<1> QED
  BY <1>1, <1>2, PacketNat

\* A step of the sender or of the broker: readers hold the packets they held.
LEMMA SenderSideKeeps ==
  ASSUME IInv, ReceiverKeeps, \A i \in Issued : call'[i].pkt = call[i].pkt,
         UNCHANGED <<recvCount, skipped, reader, delivered>>
  PROVE  ReceiverKeeps'
<1>1. \A r \in Reader : reader[r].st = "fresh" => call'[reader[r].msg].pkt = call[reader[r].msg].pkt
  BY DEF IInv, SeenInv, CallInv
<1>2. InHand \subseteq InHand'
  BY <1>1 DEF InHand
<1> QED
  BY <1>2 DEF ReceiverKeeps, Consumed

\* Decoding a packet puts it in the hands of its reader, which held none.
LEMMA DecodeKeeps ==
  ASSUME Unhindered, IInv, ReceiverKeeps, NEW r \in Reader, NEW m \in Call, Decode(r, m)
  PROVE  ReceiverKeeps'
<1> DEFINE p == call[m].pkt
<1>1. /\ reader[r].st = "idle" /\ m \in accepted /\ Decryptable(p) /\ AdvanceTo(p)
      /\ reader' = [reader EXCEPT ![r] = [st |-> "fresh", msg |-> m]]
      /\ call' = call /\ delivered' = delivered
  BY DEF Decode, Pushed, senderVars
<1>2. p \in Packet
  <2>1. Packet = 0 .. MaxSend - 1 /\ sendCount \in 0 .. MaxSend /\ MaxSend \in Nat
    BY BoundAssumption DEF BoundAssumption, Packet, IInv, TypeOK
  <2>2. p \in 0 .. sendCount - 1
    BY <1>1 DEF IInv, CallInv
  <2> QED
    BY <2>1, <2>2
<1>3. /\ reader'[r].st = "fresh" /\ reader'[r].msg = m
      /\ \A s \in Reader : s # r => reader'[s] = reader[s]
  BY <1>1 DEF IInv, TypeOK
<1>4. \A s \in Reader : reader[s].st = "fresh" => reader'[s] = reader[s]
  BY <1>1, <1>3
<1>5. InHand \subseteq InHand'
  BY <1>1, <1>4 DEF InHand
<1>6. p \in InHand'
  BY <1>1, <1>3 DEF InHand
<1>7. ASSUME NEW q \in Packet, Consumed(q)'
      PROVE  Consumed(q) \/ q = p
  <2> HIDE DEF p
  <2> QED
    BY <1>1, <1>2, <1>7, AdvanceConsumesOne
<1> QED
  BY <1>5, <1>6, <1>7 DEF ReceiverKeeps

\* receiveNext returns the plaintext it held.
LEMMA ReturnKeeps ==
  ASSUME IInv, ReceiverKeeps, NEW r \in Reader, Return(r), UNCHANGED <<call, recvCount, skipped>>
  PROVE  ReceiverKeeps'
<1>1. \A s \in Reader : s # r => reader'[s] = reader[s]
  BY DEF Return
<1>2. delivered \in [Packet -> Nat]
  BY DEF IInv, TypeOK
<1>3. \A p \in Packet : delivered[p] > 0 => delivered'[p] > 0
  BY <1>2 DEF Return
<1>4. ASSUME NEW p \in Packet, reader[r].st = "fresh", p = call[reader[r].msg].pkt
      PROVE  delivered'[p] > 0
  <2>1. delivered' = [delivered EXCEPT ![p] = @ + 1]
    BY <1>4 DEF Return
  <2> QED
    BY <1>2, <2>1
<1>5. ASSUME NEW p \in Packet, p \in InHand
      PROVE  p \in InHand'
  <2>1. CASE delivered[p] > 0
    BY <1>3, <2>1 DEF InHand
  <2>2. CASE \E s \in Reader : reader[s].st = "fresh" /\ call[reader[s].msg].pkt = p
    <3>1. PICK s \in Reader : reader[s].st = "fresh" /\ call[reader[s].msg].pkt = p
      BY <2>2
    <3>2. CASE s = r
      BY <1>4, <3>1, <3>2 DEF InHand
    <3>3. CASE s # r
      BY <1>1, <3>1, <3>3 DEF InHand
    <3> QED
      BY <3>2, <3>3
  <2> QED
    BY <1>5, <2>1, <2>2 DEF InHand
<1> QED
  BY <1>5 DEF ReceiverKeeps, Consumed

\* A redelivery that is acknowledged as a duplicate takes no reader's plaintext.
LEMMA DuplicateKeeps ==
  ASSUME IInv, ReceiverKeeps, NEW r \in Reader, NEW m \in Call, Duplicate(r, m)
  PROVE  ReceiverKeeps'
<1>1. /\ reader[r].st = "idle" /\ UNCHANGED <<call, delivered, recvCount, skipped>>
      /\ \A s \in Reader : s # r => reader'[s] = reader[s]
  BY DEF Duplicate, Pushed, senderVars
<1>2. \A s \in Reader : reader[s].st = "fresh" => reader'[s] = reader[s]
  BY <1>1
<1>3. InHand \subseteq InHand'
  BY <1>1, <1>2 DEF InHand
<1> QED
  BY <1>1, <1>3 DEF ReceiverKeeps, Consumed

-----------------------------------------------------------------------------
(* The invariant.                                                          *)

\* At first nothing is sent and nothing consumed.
LEMMA InitKeeps == Init => KInv
<1> SUFFICES ASSUME Init PROVE KInv
  OBVIOUS
<1>1. IInv
  BY InitInv
<1>2. SenderKeeps
  BY DEF Init, SenderKeeps, NoTask, Unused
<1>3. ReceiverKeeps
  BY BoundAssumption DEF Init, ReceiverKeeps, Consumed, BoundAssumption, Packet
<1> QED
  BY <1>1, <1>2, <1>3 DEF KInv

\* One case per action.
LEMMA NextKeeps ==
  ASSUME Unhindered, KInv, [Next]_vars
  PROVE  KInv'
<1> USE DEF KInv
<1>1. IInv'
  BY NextInv
<1>2. CASE SendPlaintext
  <2>1. SenderKeeps'
    BY <1>2, SendPlaintextKeeps
  <2>2. UNCHANGED <<recvCount, skipped, reader, delivered>>
    BY <1>2 DEF SendPlaintext, receiverVars
  <2>3. \A i \in Issued : call'[i].pkt = call[i].pkt
    BY <1>2, IssuedKept DEF SendPlaintext
  <2> QED
    BY <1>1, <2>1, <2>2, <2>3, SenderSideKeeps
<1>3. ASSUME NEW i \in Call, SendOk(i) \/ SendFails(i)
      PROVE  KInv'
  <2>1. SenderKeeps'
    BY <1>3, SendOkKeeps, SendFailsKeeps
  <2>2. UNCHANGED <<recvCount, skipped, reader, delivered>> /\ EndCall(i)
    BY <1>3 DEF SendOk, SendFails, receiverVars
  <2>3. \A j \in Issued : call'[j].pkt = call[j].pkt
    BY <2>2, EndCallStep, PacketNat
  <2> QED
    BY <1>1, <2>1, <2>2, <2>3, SenderSideKeeps
<1>4. ASSUME NEW i \in Call, BrokerAccepts(i)
      PROVE  KInv'
  <2>1. SenderKeeps'
    BY <1>4, BrokerAcceptsKeeps
  <2>2. UNCHANGED <<call, recvCount, skipped, reader, delivered>>
    BY <1>4 DEF BrokerAccepts, receiverVars, senderVars
  <2> QED
    BY <1>1, <2>1, <2>2, SenderSideKeeps
<1>5. ASSUME NEW m \in Call, DrainAck(m)
      PROVE  KInv'
  <2>1. UNCHANGED <<sendCount, tasks, call, snap, accepted, answers, recvCount, skipped, reader, delivered>>
    BY <1>5 DEF DrainAck, senderVars
  <2> QED
    BY <1>1, <2>1, QuietStep, SenderSideKeeps
<1>6. ASSUME NEW d \in Drain, DrainStart(d)
      PROVE  KInv'
  <2>1. SenderKeeps'
    BY <1>6, DrainStartKeeps
  <2>2. UNCHANGED <<call, recvCount, skipped, reader, delivered>>
    BY <1>6 DEF DrainStart, receiverVars
  <2> QED
    BY <1>1, <2>1, <2>2, SenderSideKeeps
<1>7. ASSUME NEW d \in Drain, DrainSend(d)
      PROVE  KInv'
  <2>1. SenderKeeps'
    BY <1>7, DrainSendKeeps
  <2>2. UNCHANGED <<recvCount, skipped, reader, delivered>>
    BY <1>7 DEF DrainSend, receiverVars
  <2>3. \A i \in Issued : call'[i].pkt = call[i].pkt
    BY <1>7, IssuedKept DEF DrainSend
  <2> QED
    BY <1>1, <2>1, <2>2, <2>3, SenderSideKeeps
<1>8. ASSUME NEW r \in Reader, AckOk(r) \/ AckFails(r) \/ AckSkipped(r)
      PROVE  KInv'
  <2>1. /\ Return(r)
        /\ UNCHANGED <<sendCount, tasks, call, snap, accepted, answers, recvCount, skipped>>
    BY <1>8 DEF AckOk, AckFails, AckSkipped, senderVars, queueVars
  <2> QED
    BY <1>1, <2>1, QuietStep, ReturnKeeps
<1>9. ASSUME NEW r \in Reader, NEW m \in Call, Decode(r, m)
      PROVE  KInv'
  <2>1. UNCHANGED <<sendCount, tasks, call, snap, accepted, answers>>
    BY <1>9 DEF Decode, senderVars, queueVars
  <2> QED
    BY <1>1, <1>9, <2>1, QuietStep, DecodeKeeps
<1>10. ASSUME NEW r \in Reader, NEW m \in Call, Duplicate(r, m)
       PROVE  KInv'
  <2>1. UNCHANGED <<sendCount, tasks, call, snap, accepted, answers>>
    BY <1>10 DEF Duplicate, senderVars, queueVars
  <2> QED
    BY <1>1, <1>10, <2>1, QuietStep, DuplicateKeeps
<1>11. ASSUME NEW r \in Reader, NEW m \in Call, Reject(r, m)
       PROVE  KInv'
  <2>1. UNCHANGED <<sendCount, tasks, call, snap, accepted, answers, recvCount, skipped, reader, delivered>>
    BY <1>11 DEF Reject, senderVars, queueVars, receiverVars
  <2> QED
    BY <1>1, <2>1, QuietStep, SenderSideKeeps
<1>12. ASSUME NEW r \in Reader, BrokerAcks(r)
       PROVE  KInv'
  <2>1. UNCHANGED <<sendCount, tasks, call, snap, accepted, answers, recvCount, skipped, reader, delivered>>
    BY <1>12 DEF BrokerAcks, senderVars, receiverVars
  <2> QED
    BY <1>1, <2>1, QuietStep, SenderSideKeeps
<1>13. CASE UNCHANGED vars
  <2>1. UNCHANGED <<sendCount, tasks, call, snap, accepted, answers, recvCount, skipped, reader, delivered>>
    BY <1>13 DEF vars, senderVars, queueVars, receiverVars
  <2> QED
    BY <1>1, <2>1, QuietStep, SenderSideKeeps
<1>14. ~SenderCrash /\ ~ReceiverCrash /\ \A r \in Reader : \A m \in Call : ~DecodeTorn(r, m)
  BY DEF Unhindered, SenderCrash, ReceiverCrash, DecodeTorn
<1> QED
  BY <1>2, <1>3, <1>4, <1>5, <1>6, <1>7, <1>8, <1>9, <1>10, <1>11, <1>12, <1>13, <1>14
  DEF Next, Receive

\* What the invariant gives: a backed packet that is consumed is in hand; one
\* that is not waits in a task, at the broker, or for its first answer.
LEMMA KeepsPackets == KInv => PacketsKept
<1> SUFFICES ASSUME KInv PROVE PacketsKept
  OBVIOUS
<1> USE DEF KInv
<1>1. CompletedWasAccepted
  BY DEF SenderKeeps, CompletedWasAccepted, Copied
<1>2. ASSUME NEW p \in 0 .. sendCount - 1
      PROVE  \/ delivered[p] > 0
             \/ \E r \in Reader : reader[r].st = "fresh" /\ call[reader[r].msg].pkt = p
             \/ /\ ~Consumed(p)
                /\ \/ \E i \in Call : /\ call[i].pkt = p
                                      /\ \/ call[i].st = "open"
                                         \/ i \in wire \cup (accepted \ acked)
                   \/ \E t \in TaskId : tasks[t].st = "queued" /\ tasks[t].pkt = p
  <2>1. p \in Packet
    BY BoundAssumption DEF BoundAssumption, Packet, IInv, TypeOK
  <2>2. CASE Consumed(p)
    BY <2>1, <2>2 DEF ReceiverKeeps, InHand
  <2>3. CASE ~Consumed(p)
    <3>1. p \in FirstTry \/ p \in Queued \/ p \in Copied
      BY DEF SenderKeeps, Backed
    <3>2. \A i \in accepted : call[i].pkt = p => i \in Call /\ i \notin acked
      BY <2>3 DEF IInv, TypeOK, SeenInv
    <3> QED
      BY <2>3, <3>1, <3>2 DEF FirstTry, Queued, Copied
  <2> QED
    BY <2>2, <2>3
<1> QED
  BY <1>1, <1>2 DEF PacketsKept, Custody

\* Without crashes a packet that was sealed is never nowhere, and a task is
\* closed only when the broker has its packet.  It needs the three hypotheses:
\* a page closed in sendPlaintext (browser-simplex-contact-client.mjs:1107)
\* loses its packet, two packets of one millisecond share a task id and the
\* second replaces the first (:1105), and a skipped key beyond the limits of
\* the ratchet or of the store is gone before its packet arrives.
THEOREM PacketsAreKept ==
  ASSUME Unhindered
  PROVE  Spec => []PacketsKept
<1>1. Init => KInv
  BY InitKeeps
<1>2. KInv /\ [Next]_vars => KInv'
  BY NextKeeps
<1>3. KInv => PacketsKept
  BY KeepsPackets
<1> QED
  BY <1>1, <1>2, <1>3, PTL DEF Spec
=============================================================================
