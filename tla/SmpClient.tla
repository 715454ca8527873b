------------------------------ MODULE SmpClient ------------------------------
(***************************************************************************)
(* BrowserSimplexClient (browser-simplex-client.mjs) on one connection:    *)
(* commands that wait for the answer with their correlation id, and        *)
(* receiveQueueMessage, which waits for a pushed MSG of a queue.           *)
(*                                                                         *)
(* All operations share the frame queue of WsTransport and the buffer      *)
(* pendingTransmissions.  An operation is a caller of the transport; its   *)
(* name is also its correlation id.  A transmission is an answer to a      *)
(* command or a message the broker pushes; a block of the transport holds  *)
(* one or several.  Between two events of the socket an operation runs     *)
(* until it waits: no event is handled while one is "running".             *)
(***************************************************************************)
EXTENDS WsTransport

CONSTANTS
  Cmd, Rcv,     \* operations: commands, and calls of receiveQueueMessage
  Queue, QueueOf,   \* queues, and the one each call of Rcv is about
  Push, PushOf,     \* messages the broker pushes, and the queue of each
  MaxBatches,   \* maxBatches
  MaxPending,   \* maxPendingTransmissions
  MaxBlock,     \* bound: transmissions in a block
  MaxActive,    \* operations the application keeps running at once
  Impatient     \* whether receives may time out

ASSUME ClientAssumption ==
  /\ Caller = Cmd \cup Rcv /\ Cmd \cap Rcv = {}
  /\ QueueOf \in [Rcv -> Queue] /\ PushOf \in [Push -> Queue]
  /\ MaxBatches \in Nat \ {0} /\ MaxPending \in Nat /\ MaxBlock \in Nat \ {0}
  /\ MaxActive \in Nat /\ Impatient \in BOOLEAN

VARIABLES
  op,          \* the operations
  batches,     \* how many blocks each operation has asked for
  pending,     \* pendingTransmissions
  outbox,      \* what the broker has not sent yet
  block,       \* history: the transmissions of each frame
  got          \* history: the transmission each operation ended with

clientVars == <<op, batches, pending, outbox, block, got>>
allVars == <<wsVars, clientVars>>

Answer(c, t) == [type |-> t, of |-> c]
Message(m)   == [type |-> "MSG", of |-> m]
Nothing      == [type |-> "none", of |-> Connect]
Transmission == {Answer(c, t) : c \in Cmd, t \in {"OK", "ERR"}} \cup {Message(m) : m \in Push}

TypeOK ==
  /\ WsTypeOK
  /\ op \in [Caller -> {"unused", "running", "waiting", "ok", "err",
                        "timeout", "failed"}]
  /\ batches \in [Caller -> 0 .. MaxBatches]
  /\ pending \in Seq(Transmission) /\ Len(pending) <= MaxPending
  /\ outbox \subseteq Transmission
  /\ block \in Seq(Seq(Transmission)) /\ Len(block) = received
  /\ got \in [Caller -> Transmission \cup {Nothing}]

ClientInit ==
  /\ WsInit
  /\ op = [c \in Caller |-> "unused"]
  /\ batches = [c \in Caller |-> 0]
  /\ pending = <<>> /\ block = <<>>
  /\ outbox = {Message(m) : m \in Push}
  /\ got = [c \in Caller |-> Nothing]

-----------------------------------------------------------------------------
(* What an operation takes.                                                *)

\* equalBytes(tx.corrId, expected); the correlation id of a push is empty.
IsAnswer(c, tx) == tx.type # "MSG" /\ tx.of = c

\* type MSG and queueMatches.
IsMessage(r, tx) == tx.type = "MSG" /\ PushOf[tx.of] = QueueOf[r]

\* What ends the operation when it comes out of a block; receiveQueueMessage
\* fails on an ERR, whomever it answers.
Ends(c, tx) ==
  IF c \in Cmd THEN IsAnswer(c, tx) ELSE tx.type = "ERR" \/ IsMessage(c, tx)

\* takePending has no eye for an ERR when it looks for a message.
TakesPending(c, tx) == IF c \in Cmd THEN IsAnswer(c, tx) ELSE IsMessage(c, tx)

EndWith(c, tx) ==
  /\ op' = [op EXCEPT ![c] = IF tx.type = "ERR" THEN "err" ELSE "ok"]
  /\ got' = [got EXCEPT ![c] = tx]

\* Mutant: the buffer has no limit.
RememberedAll(txs) == pending \o txs

\* rememberPending: the oldest transmissions make room.
Remembered(txs) ==
  LET all == pending \o txs
  IN  IF Len(all) > MaxPending
      THEN SubSeq(all, Len(all) - MaxPending + 1, Len(all))
      ELSE all

\* Mutant: what does not match is dropped.
ProcessBlockDropping(c, txs) ==
  LET ending == {i \in 1 .. Len(txs) : Ends(c, txs[i])}
      first  == CHOOSE i \in ending : \A j \in ending : i <= j
  IN  IF ending = {}
      THEN op' = [op EXCEPT ![c] = "running"] /\ UNCHANGED <<pending, got>>
      ELSE EndWith(c, txs[first]) /\ UNCHANGED pending

\* Mutant: only the first transmission of a block is compared.
ProcessBlockHead(c, txs) ==
  IF Ends(c, txs[1])
  THEN EndWith(c, txs[1]) /\ UNCHANGED pending
  ELSE /\ pending' = Remembered(txs)
       /\ op' = [op EXCEPT ![c] = "running"]
       /\ UNCHANGED got

\* The body of the loop for one block: transmissions are remembered up to the
\* one that ends the operation; the rest of that block is not looked at.
ProcessBlock(c, txs) ==
  LET ending == {i \in 1 .. Len(txs) : Ends(c, txs[i])}
      first  == CHOOSE i \in ending : \A j \in ending : i <= j
  IN  IF ending = {}
      THEN /\ pending' = Remembered(txs)
           /\ op' = [op EXCEPT ![c] = "running"]
           /\ UNCHANGED got
      ELSE /\ pending' = Remembered(SubSeq(txs, 1, first - 1))
           /\ EndWith(c, txs[first])

-----------------------------------------------------------------------------
(* The operations.                                                         *)

Settled == \A c \in Caller : op[c] # "running"

Active == {c \in Caller : op[c] \in {"running", "waiting"}}

\* Mutant: the transmission is read and left in the buffer.
RemovedNone(s, i) == s

RemovedAt(s, i) == SubSeq(s, 1, i - 1) \o SubSeq(s, i + 1, Len(s))

\* The transport is being connected; the hello carries no transmission.
Connecting ==
  /\ \/ (SocketOpens \/ OpenTimesOut \/ ReceiveTimesOut(Connect)) /\ UNCHANGED block
     \/ HelloArrives /\ block' = Append(block, <<>>)
  /\ UNCHANGED <<op, batches, pending, outbox, got>>

\* A command is sent, or receiveQueueMessage is called, over a transport that
\* was connected; takePending first.
Start(c) ==
  /\ phase = "connected" /\ op[c] = "unused" /\ Settled
  /\ Cardinality(Active) < MaxActive
  /\ IF c \in Cmd /\ socket # "open"
     THEN /\ op' = [op EXCEPT ![c] = "failed"]
          /\ UNCHANGED <<pending, outbox, got>>
     ELSE /\ LET found == {i \in 1 .. Len(pending) : TakesPending(c, pending[i])}
             IN  IF found = {}
                 THEN op' = [op EXCEPT ![c] = "running"] /\ UNCHANGED <<pending, got>>
                 ELSE LET i == CHOOSE i \in found : \A j \in found : i <= j
                      IN  EndWith(c, pending[i]) /\ pending' = RemovedAt(pending, i)
          /\ \/ c \in Rcv /\ UNCHANGED outbox
             \/ c \in Cmd /\ \E t \in {"OK", "ERR"} : outbox' = outbox \cup {Answer(c, t)}
  /\ UNCHANGED <<wsVars, batches, block>>

\* Mutant: the operation gives up after its first block.
LoopOnce(c) ==
  /\ op[c] = "running"
  /\ IF batches[c] = 1
     THEN op' = [op EXCEPT ![c] = "timeout"] /\ UNCHANGED <<wsVars, batches, pending, got>>
     ELSE /\ batches' = [batches EXCEPT ![c] = @ + 1]
          /\ Receive(c)
          /\ IF frames # <<>> THEN ProcessBlock(c, block[Head(frames)])
             ELSE /\ op' = [op EXCEPT ![c] = IF closeError THEN "failed" ELSE "waiting"]
                  /\ UNCHANGED <<pending, got>>
  /\ UNCHANGED <<outbox, block>>

\* The head of the loop: give up, or ask the transport for a block.
Loop(c) ==
  /\ op[c] = "running"
  /\ IF batches[c] = MaxBatches
     THEN op' = [op EXCEPT ![c] = "timeout"] /\ UNCHANGED <<wsVars, batches, pending, got>>
     ELSE /\ batches' = [batches EXCEPT ![c] = @ + 1]
          /\ Receive(c)
          /\ IF frames # <<>> THEN ProcessBlock(c, block[Head(frames)])
             ELSE /\ op' = [op EXCEPT ![c] = IF closeError THEN "failed" ELSE "waiting"]
                  /\ UNCHANGED <<pending, got>>
  /\ UNCHANGED <<outbox, block>>

\* A block arrives: some of what the broker has to send, in some order.
BlockArrives ==
  /\ phase = "connected" /\ Settled
  /\ FrameArrives
  /\ \E txs \in UNION {[1 .. n -> outbox] : n \in 1 .. MaxBlock} :
       /\ \A i, j \in DOMAIN txs : i # j => txs[i] # txs[j]
       /\ block' = Append(block, txs)
       /\ outbox' = outbox \ {txs[i] : i \in DOMAIN txs}
       /\ IF waiters # <<>> /\ call[Head(waiters)] = "waiting"
          THEN ProcessBlock(Head(waiters), txs)
          ELSE UNCHANGED <<op, pending, got>>
  /\ UNCHANGED batches

\* Mutant: nobody is told that the connection is gone.
FailNobody == UNCHANGED <<op, batches, pending, outbox, block, got>>

\* The transport rejects the promises of all who wait; after close(), it does
\* not learn that the socket has closed, and rejects nobody.
FailWaiting ==
  /\ op' = [c \in Caller |-> IF op[c] = "waiting" /\ call'[c] # "waiting"
                             THEN "failed" ELSE op[c]]
  /\ UNCHANGED <<batches, pending, outbox, block, got>>

Disconnect == Settled /\ (BadFrameArrives \/ SocketCloses \/ Close) /\ FailWaiting

Expire(c) ==
  /\ Settled /\ Impatient
  /\ ReceiveTimesOut(c)
  /\ op' = [op EXCEPT ![c] = "timeout"]
  /\ UNCHANGED <<batches, pending, outbox, block, got>>

ClientNext ==
  \/ Connecting
  \/ BlockArrives
  \/ Disconnect
  \/ \E c \in Caller : Start(c) \/ Loop(c) \/ Expire(c)

ClientSpec == ClientInit /\ [][ClientNext]_allVars

\* The broker sends what it has to send, and a running operation runs on.
ClientFairness == WF_allVars(BlockArrives) /\ \A c \in Caller : WF_allVars(Loop(c))

\* A connection that stays up, for liveness.
CalmNext ==
  \/ Connecting
  \/ BlockArrives
  \/ \E c \in Caller : Start(c) \/ Loop(c)

CalmSpec == ClientInit /\ [][CalmNext]_allVars /\ ClientFairness

-----------------------------------------------------------------------------
(* Properties.                                                             *)

Items(txs) == {txs[i] : i \in 1 .. Len(txs)}

InFrames == UNION {Items(block[frames[k]]) : k \in 1 .. Len(frames)}
Taken    == {got[c] : c \in Caller} \ {Nothing}

\* Nothing the broker sent is had twice: a transmission is in the buffered
\* frames, among the pending ones, or was the outcome of one operation.
OnePlace ==
  /\ \A i, j \in 1 .. Len(pending) : i # j => pending[i] # pending[j]
  /\ \A c, d \in Caller : (c # d /\ got[c] # Nothing) => got[c] # got[d]
  /\ Items(pending) \cap Taken = {}
  /\ InFrames \cap (Items(pending) \cup Taken) = {}

\* "Buffers unmatched broker messages while waiting for a correlation id": what
\* has arrived on an open connection is still somewhere.
NothingLost ==
  listening => \A i \in 1 .. Len(block) : Items(block[i]) \subseteq InFrames \cup Items(pending) \cup Taken

\* Used one operation at a time, only what comes behind the transmission that
\* ended an operation, in the same block, is ever dropped.
KeptUpToAnswer ==
  listening => \A i \in 1 .. Len(block) : \A j \in 1 .. Len(block[i]) :
    \/ block[i][j] \in InFrames \cup Items(pending) \cup Taken
    \/ \E k \in 1 .. j - 1 : block[i][k] \in Taken

\* An operation that waits is known to the frame queue, once, which tells it when
\* the connection fails.  (One that begins to wait after close() is told by its
\* timer only.)
WaitingIsReachable ==
  \A c \in Caller : op[c] = "waiting" =>
    /\ ~closeError
    /\ Cardinality({i \in 1 .. Len(waiters) : waiters[i] = c}) = 1

\* In the transport and in the client above it, whoever waits has its place in
\* the queue and is told of the next frame or of the error.
NobodyLeftWaiting == NobodyForgotten /\ WaitingIsReachable

\* The frames reach the operations in order of arrival, and those that reach
\* none are accounted for by receives that timed out.
FramesAccounted == FramesInOrder /\ LossesAreTimeouts

\* Used one operation at a time, the client never fails an operation with an
\* error that answers another one.
NoCrossTalk ==
  \A c \in Caller : op[c] = "err" => got[c].of = c

\* One operation at a time: each has its own answer, and what came before that
\* answer is kept for those that it is for.
OwnAnswers == NoCrossTalk /\ KeptUpToAnswer

\* "no SMP response matched the correlation id": a command that gives up after
\* maxBatches has no answer in the buffer.
HonestTimeout ==
  \A c \in Cmd : op[c] = "timeout" => \A tx \in Items(pending) : ~IsAnswer(c, tx)

\* Used one operation at a time over a connection that works, every command
\* gets its answer, as long as maxBatches exceeds the traffic in between.
CommandsAnswered ==
  \A c \in Cmd : op[c] = "waiting" ~> op[c] \in {"ok", "err"}

\* A call that waits for a message and for which one is pushed gets it.
MessageDelivered ==
  \A r \in Rcv : (op[r] = "waiting" /\ \E tx \in outbox : IsMessage(r, tx))
                   ~> op[r] = "ok"

\* Every operation that waits over a working connection is served.
AllServed == CommandsAnswered /\ MessageDelivered
=============================================================================
