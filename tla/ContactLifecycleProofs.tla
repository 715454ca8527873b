----------------------- MODULE ContactLifecycleProofs -----------------------
(***************************************************************************)
(* RecordsFitState, LegalLife and KeysOutliveQueue of ContactLifecycle, for *)
(* any number of overlapping invocations and messages, under a host that   *)
(* suspends, activates and deletes only while no handler is in progress.   *)
(*                                                                         *)
(* Every handler saves the copy it loaded before its awaits.  What makes   *)
(* that right is that, under such a host, the records a handler has loaded *)
(* are still there when it saves: a handler in progress excludes the       *)
(* tombstone, and what it has found in the store stays until it ends.      *)
(***************************************************************************)
EXTENDS ContactLifecycle, TLAPS

\* Where a contact is gone, the only handlers in progress are those that wait
\* for a new queue.
GoneIsQuiet ==
  state \in {"deleted", "none"} =>
    \A r \in Run : run[r] = Idle \/ (run[r].op \in {"invite", "request"} /\ run[r].at = "NEW")

\* A handler that will make the contact active has found it on its way there,
\* and, unless it brings a ratchet, has found one.
AnswersWait ==
  /\ state = "requested" => ratchet
  /\ \A r \in Run :
       /\ run[r].op = "receiveAccept" => ratchet
       /\ run[r].op \in {"receiveRequest", "receiveAccept"} /\ run[r].at \in {"MSG", "KEY"}
            => state \in {"invited", "requested", "active"}

\* The fingerprint a handler saves again after its ACK is still there.
SeenStays ==
  \A r \in Run :
    /\ run[r].op # "orphan"
    /\ run[r].op = "receive" /\ run[r].at = "ACK" => run[r].msg \in received
    /\ run[r].op = "duplicate" => run[r].msg \in Msg

\* Under unused ids, a new queue is waited for by one handler alone.
NewIsAlone ==
  FreshIds => \A r \in Run : run[r].at = "NEW" =>
    /\ state = "none"
    /\ \A s \in Run \ {r} : run[s].at # "NEW"

LInv == TypeOK /\ RecordsFitState /\ GoneIsQuiet /\ AnswersWait /\ SeenStays /\ NewIsAlone

-----------------------------------------------------------------------------
(* What an invocation is after its step.                                   *)

Op == {"none", "invite", "request", "receiveRequest", "receiveAccept", "send",
       "receive", "duplicate", "orphan", "deleteEverywhere", "drain"}
Await == {"none", "NEW", "MSG", "KEY", "ACK", "SEND", "INIT", "DEL", "next"} \cup Kind
Invocation == [op : Op, at : Await, msg : Msg \cup {NoMsg}, snap : SUBSET Kind]

Moves(r, op, at, m) ==
  /\ run' \in [Run -> Invocation]
  /\ run'[r].op = op /\ run'[r].at = at /\ run'[r].msg = m
  /\ \A s \in Run \ {r} : run'[s] = run[s]

\* Begin, GoTo and End set the invocation that they name, and no other.
LEMMA BeginMoves ==
  ASSUME TypeOK, NEW r \in Run, NEW op \in Op, NEW at \in Await, Begin(r, op, at)
  PROVE  run[r] = Idle /\ Moves(r, op, at, NoMsg)
  BY DEF TypeOK, Begin, Idle, Moves, Invocation, Op, Await

LEMMA GoToMoves ==
  ASSUME TypeOK, NEW r \in Run, NEW at \in Await, GoTo(r, at)
  PROVE  Moves(r, run[r].op, at, run[r].msg)
  BY DEF TypeOK, GoTo, Moves, Invocation, Op, Await

LEMMA EndMoves ==
  ASSUME TypeOK, NEW r \in Run, End(r)
  PROVE  run'[r] = Idle /\ Moves(r, "none", "none", NoMsg)
  BY DEF TypeOK, End, Idle, Moves, Invocation, Op, Await

\* The idle invocation waits for nothing.
LEMMA IdleIs == Idle.op = "none" /\ Idle.at = "none"
  BY DEF Idle

\* TypeOK, with an invocation as one type.
Typed ==
  /\ state \in State
  /\ inbox \in BOOLEAN /\ outbox \in BOOLEAN /\ ratchet \in BOOLEAN
  /\ received \subseteq Msg /\ orphans \subseteq Msg
  /\ tasks \in [Kind -> {"none", "open", "done"}]
  /\ run \in [Run -> Invocation]
  /\ sentIn \subseteq State /\ inboxAlive \in BOOLEAN /\ overwritten \in BOOLEAN

\* TypeOK says Typed, and Typed' is enough for TypeOK'.
LEMMA Types == ASSUME TypeOK PROVE Typed
  BY DEF TypeOK, Typed, Invocation, Op, Await

LEMMA TypesKept == ASSUME Typed' PROVE TypeOK'
  BY DEF TypeOK, Typed, Invocation, Op, Await

-----------------------------------------------------------------------------
(* The invariant.                                                          *)

\* There is no contact yet, and no invocation.
LEMMA InitInv == Init => LInv
<1> SUFFICES ASSUME Init PROVE LInv
  OBVIOUS
<1>1. TypeOK
  BY LifecycleAssumption DEF Init, TypeOK, Idle, State, Kind
<1>2. /\ RecordsFitState /\ AnswersWait /\ SeenStays /\ NewIsAlone
  BY IdleIs DEF Init, RecordsFitState, DeletedIsScrubbed, Secrets, ActiveHasRatchet, NoOrphans,
                AnswersWait, SeenStays, NewIsAlone
<1>3. GoneIsQuiet
  BY DEF Init, GoneIsQuiet
<1> QED
  BY <1>1, <1>2, <1>3 DEF LInv

\* A handler that makes the contact active was begun in a state that allows it
\* (AnswersWait); the others save the records they found.
LEMMA MakingInv == ASSUME LInv, NEW r \in Run, Making(r) PROVE LInv'
<1>0. TypeOK /\ Typed
  BY Types DEF LInv
<1>1. CASE BeginInvite(r)
  <2>1. run[r] = Idle /\ Moves(r, "invite", "NEW", NoMsg)
    BY <1>1, <1>0, BeginMoves DEF BeginInvite, Op, Await, Typed
  <2>2. TypeOK'
    BY <1>1, <2>1, <1>0, TypesKept
    DEF BeginInvite, Moves, records, broker, State, Kind, Unused, Typed
  <2> QED
    BY <1>1, <2>1, <2>2, <1>0, IdleIs
    DEF BeginInvite, LInv, Moves, records, broker, RecordsFitState, DeletedIsScrubbed,
        ActiveHasRatchet, NoOrphans, Secrets, GoneIsQuiet, AnswersWait, SeenStays,
        NewIsAlone, Kind, Unused, Typed
<1>2. CASE InviteCreated(r)
  <2>1. run'[r] = Idle /\ Moves(r, "none", "none", NoMsg)
    BY <1>2, <1>0, EndMoves DEF InviteCreated, Typed
  <2>2. TypeOK'
    BY <1>2, <2>1, <1>0, TypesKept
    DEF InviteCreated, SaveInbox, Moves, records, broker, State, Kind, At, Typed
  <2> QED
    BY <1>2, <2>1, <2>2, <1>0, IdleIs
    DEF InviteCreated, SaveInbox, LInv, Moves, records, broker, RecordsFitState, DeletedIsScrubbed,
        ActiveHasRatchet, NoOrphans, Secrets, GoneIsQuiet, AnswersWait, SeenStays,
        NewIsAlone, Kind, At, Typed
<1>3. CASE BeginRequest(r)
  <2>1. run[r] = Idle /\ Moves(r, "request", "NEW", NoMsg)
    BY <1>3, <1>0, BeginMoves DEF BeginRequest, Op, Await, Typed
  <2>2. TypeOK'
    BY <1>3, <2>1, <1>0, TypesKept
    DEF BeginRequest, Moves, records, broker, State, Kind, Unused, Typed
  <2> QED
    BY <1>3, <2>1, <2>2, <1>0, IdleIs
    DEF BeginRequest, LInv, Moves, records, broker, RecordsFitState, DeletedIsScrubbed,
        ActiveHasRatchet, NoOrphans, Secrets, GoneIsQuiet, AnswersWait, SeenStays,
        NewIsAlone, Kind, Unused, Typed
<1>4. CASE RequestCreated(r)
  <2>1. Moves(r, run[r].op, "INIT", run[r].msg)
    BY <1>4, <1>0, GoToMoves DEF RequestCreated, Op, Await, Typed
  <2>2. TypeOK'
    BY <1>4, <2>1, <1>0, TypesKept
    DEF RequestCreated, SaveInbox, Moves, records, broker, State, Kind, At, Typed
  <2> QED
    BY <1>4, <2>1, <2>2, <1>0, IdleIs
    DEF RequestCreated, SaveInbox, LInv, Moves, records, broker, RecordsFitState, DeletedIsScrubbed,
        ActiveHasRatchet, NoOrphans, Secrets, GoneIsQuiet, AnswersWait, SeenStays,
        NewIsAlone, Kind, At, Typed
<1>5. CASE InitEnds(r)
  <2>1. run'[r] = Idle /\ Moves(r, "none", "none", NoMsg)
    BY <1>5, <1>0, EndMoves DEF InitEnds, Typed
  <2>2. TypeOK'
    BY <1>5, <2>1, <1>0, TypesKept
    DEF InitEnds, Moves, records, broker, State, Kind, At, Complete, Enqueue, Typed
  <2> QED
    BY <1>5, <2>1, <2>2, <1>0, IdleIs
    DEF InitEnds, LInv, Moves, records, broker, RecordsFitState, DeletedIsScrubbed,
        ActiveHasRatchet, NoOrphans, Secrets, GoneIsQuiet, AnswersWait, SeenStays,
        NewIsAlone, Kind, At, Complete, Enqueue, Typed
<1>6. CASE BeginReceiveRequest(r)
  <2>1. run[r] = Idle /\ Moves(r, "receiveRequest", "MSG", NoMsg)
    BY <1>6, <1>0, BeginMoves DEF BeginReceiveRequest, Op, Await, Typed
  <2>2. TypeOK'
    BY <1>6, <2>1, <1>0, TypesKept
    DEF BeginReceiveRequest, Moves, records, broker, State, Kind, Typed
  <2> QED
    BY <1>6, <2>1, <2>2, <1>0, IdleIs
    DEF BeginReceiveRequest, LInv, Moves, records, broker, RecordsFitState,
        DeletedIsScrubbed, ActiveHasRatchet, NoOrphans, Secrets, GoneIsQuiet,
        AnswersWait, SeenStays, NewIsAlone, Kind, Typed
<1>7. CASE BeginReceiveAccept(r)
  <2>1. run[r] = Idle /\ Moves(r, "receiveAccept", "MSG", NoMsg)
    BY <1>7, <1>0, BeginMoves DEF BeginReceiveAccept, Op, Await, Typed
  <2>2. TypeOK'
    BY <1>7, <2>1, <1>0, TypesKept
    DEF BeginReceiveAccept, Moves, records, broker, State, Kind, Typed
  <2> QED
    BY <1>7, <2>1, <2>2, <1>0, IdleIs
    DEF BeginReceiveAccept, LInv, Moves, records, broker, RecordsFitState,
        DeletedIsScrubbed, ActiveHasRatchet, NoOrphans, Secrets, GoneIsQuiet,
        AnswersWait, SeenStays, NewIsAlone, Kind, Typed
<1>8. CASE ConfirmationArrives(r)
  <2>1. Moves(r, run[r].op, "KEY", run[r].msg)
    BY <1>8, <1>0, GoToMoves DEF ConfirmationArrives, Op, Await, Typed
  <2>2. TypeOK'
    BY <1>8, <2>1, <1>0, TypesKept
    DEF ConfirmationArrives, Moves, records, broker, State, Kind, At, Typed
  <2> QED
    BY <1>8, <2>1, <2>2, <1>0, IdleIs
    DEF ConfirmationArrives, LInv, Moves, records, broker, RecordsFitState,
        DeletedIsScrubbed, ActiveHasRatchet, NoOrphans, Secrets, GoneIsQuiet,
        AnswersWait, SeenStays, NewIsAlone, Kind, At, Typed
<1>9. CASE RequestSecured(r)
  <2>1. Moves(r, run[r].op, "ACK", run[r].msg)
    BY <1>9, <1>0, GoToMoves DEF RequestSecured, Op, Await, Typed
  <2>2. TypeOK'
    BY <1>9, <2>1, <1>0, TypesKept
    DEF RequestSecured, Moves, records, broker, State, Kind, At, Typed
  <2> QED
    BY <1>9, <2>1, <2>2, <1>0, IdleIs
    DEF RequestSecured, LInv, Moves, records, broker, RecordsFitState, DeletedIsScrubbed,
        ActiveHasRatchet, NoOrphans, Secrets, GoneIsQuiet, AnswersWait, SeenStays,
        NewIsAlone, Kind, At, Typed
<1>10. CASE AcceptSecured(r)
  <2>1. Moves(r, run[r].op, "ACK", run[r].msg)
    BY <1>10, <1>0, GoToMoves DEF AcceptSecured, Op, Await, Typed
  <2>2. TypeOK'
    BY <1>10, <2>1, <1>0, TypesKept
    DEF AcceptSecured, Moves, records, broker, State, Kind, At, Typed
  <2> QED
    BY <1>10, <2>1, <2>2, <1>0, IdleIs
    DEF AcceptSecured, LInv, Moves, records, broker, RecordsFitState, DeletedIsScrubbed,
        ActiveHasRatchet, NoOrphans, Secrets, GoneIsQuiet, AnswersWait, SeenStays,
        NewIsAlone, Kind, At, Typed
<1>11. CASE ConfirmationAcked(r)
  <2>1. \/ Moves(r, run[r].op, "INIT", run[r].msg) /\ run[r].op = "receiveRequest"
        \/ run'[r] = Idle /\ Moves(r, "none", "none", NoMsg)
    BY <1>11, <1>0, GoToMoves, EndMoves DEF ConfirmationAcked, Await, Typed
  <2>2. TypeOK'
    BY <1>11, <2>1, <1>0, TypesKept
    DEF ConfirmationAcked, Moves, records, broker, State, Kind, At, Enqueue, Typed
  <2> QED
    BY <1>11, <2>1, <2>2, <1>0, IdleIs
    DEF ConfirmationAcked, LInv, Moves, records, broker, RecordsFitState, DeletedIsScrubbed,
        ActiveHasRatchet, NoOrphans, Secrets, GoneIsQuiet, AnswersWait, SeenStays,
        NewIsAlone, Kind, At, Enqueue, Typed
<1> QED
  BY <1>1, <1>2, <1>3, <1>4, <1>5, <1>6, <1>7, <1>8, <1>9, <1>10, <1>11 DEF Making

\* A message is recorded before its ACK, so that it is recorded again after it
\* under the contact's name (SeenStays).
LEMMA UsingInv == ASSUME LInv, NEW r \in Run, Using(r) PROVE LInv'
<1>0. TypeOK /\ Typed
  BY Types DEF LInv
<1>1. CASE BeginSend(r)
  <2>1. run[r] = Idle /\ Moves(r, "send", "SEND", NoMsg)
    BY <1>1, <1>0, BeginMoves DEF BeginSend, Op, Await, Typed
  <2>2. TypeOK'
    BY <1>1, <2>1, <1>0, TypesKept DEF BeginSend, Moves, records, broker, State, Kind, Typed
  <2> QED
    BY <1>1, <2>1, <2>2, <1>0, IdleIs
    DEF BeginSend, LInv, Moves, records, broker, RecordsFitState, DeletedIsScrubbed,
        ActiveHasRatchet, NoOrphans, Secrets, GoneIsQuiet, AnswersWait, SeenStays,
        NewIsAlone, Kind, Typed
<1>2. CASE SendEnds(r)
  <2>1. run'[r] = Idle /\ Moves(r, "none", "none", NoMsg)
    BY <1>2, <1>0, EndMoves DEF SendEnds, Typed
  <2>2. TypeOK'
    BY <1>2, <2>1, <1>0, TypesKept
    DEF SendEnds, Moves, records, broker, State, Kind, At, Complete, Enqueue, Typed
  <2> QED
    BY <1>2, <2>1, <2>2, <1>0, IdleIs
    DEF SendEnds, LInv, Moves, records, broker, RecordsFitState, DeletedIsScrubbed,
        ActiveHasRatchet, NoOrphans, Secrets, GoneIsQuiet, AnswersWait, SeenStays,
        NewIsAlone, Kind, At, Complete, Enqueue, Typed
<1>3. CASE BeginReceive(r)
  <2>1. run[r] = Idle /\ Moves(r, "receive", "MSG", NoMsg)
    BY <1>3, <1>0, BeginMoves DEF BeginReceive, Op, Await, Typed
  <2>2. TypeOK'
    BY <1>3, <2>1, <1>0, TypesKept DEF BeginReceive, Moves, records, broker, State, Kind, Typed
  <2> QED
    BY <1>3, <2>1, <2>2, <1>0, IdleIs
    DEF BeginReceive, LInv, Moves, records, broker, RecordsFitState, DeletedIsScrubbed,
        ActiveHasRatchet, NoOrphans, Secrets, GoneIsQuiet, AnswersWait, SeenStays,
        NewIsAlone, Kind, Typed
<1>4. CASE MessageAcked(r)
  <2>0. run[r].op \in {"receive", "duplicate"} /\ run[r].msg \in Msg /\ received' = received \cup {run[r].msg}
        /\ orphans' = {}
    BY <1>4, <1>0 DEF MessageAcked, LInv, SeenStays, RecordsFitState, NoOrphans, Typed
  <2>1. run'[r] = Idle /\ Moves(r, "none", "none", NoMsg)
    BY <1>4, EndMoves DEF MessageAcked, LInv
  <2>2. TypeOK'
    BY <1>4, <2>0, <2>1, <1>0, TypesKept
    DEF MessageAcked, Moves, records, broker, State, Kind, Enqueue, Typed
  <2> QED
    BY <1>4, <2>1, <2>2, <1>0, IdleIs
    DEF MessageAcked, LInv, Moves, records, broker, RecordsFitState, DeletedIsScrubbed,
        ActiveHasRatchet, NoOrphans, Secrets, GoneIsQuiet, AnswersWait, SeenStays,
        NewIsAlone, Kind, Enqueue, Typed
<1>5. ASSUME NEW m \in Msg, MessageArrives(r, m) PROVE LInv'
  <2>1. /\ run' \in [Run -> Invocation]
        /\ run'[r].op \in {"receive", "duplicate"} /\ run'[r].at = "ACK" /\ run'[r].msg = m
        /\ \A s \in Run \ {r} : run'[s] = run[s]
        /\ received' = received \cup {m}
    BY <1>5, <1>0
    DEF MessageArrives, At, LInv, RecordsFitState, NoOrphans, Invocation, Op, Await,
        Typed
  <2>2. TypeOK'
    BY <1>5, <2>1, <1>0, TypesKept
    DEF MessageArrives, Moves, records, broker, State, Kind, At, Typed
  <2> QED
    BY <1>5, <2>1, <2>2, <1>0, IdleIs
    DEF MessageArrives, LInv, Moves, records, broker, RecordsFitState, DeletedIsScrubbed,
        ActiveHasRatchet, NoOrphans, Secrets, GoneIsQuiet, AnswersWait, SeenStays,
        NewIsAlone, Kind, At, Typed
<1> QED
  BY <1>1, <1>2, <1>3, <1>4, <1>5 DEF Using

\* A drain touches tasks only, and does not run where the contact is gone.
LEMMA DrainingInv == ASSUME LInv, NEW r \in Run, Draining(r) PROVE LInv'
<1>0. TypeOK /\ Typed
  BY Types DEF LInv
<1>1. CASE BeginDrain(r)
  <2>1. run[r] = Idle /\ Moves(r, "drain", "next", NoMsg)
    BY <1>1, <1>0 DEF BeginDrain, Moves, Invocation, Op, Await, Idle, Typed
  <2>2. TypeOK'
    BY <1>1, <2>1, <1>0, TypesKept DEF BeginDrain, Moves, records, broker, State, Kind, Typed
  <2> QED
    BY <1>1, <2>1, <2>2, <1>0, IdleIs
    DEF BeginDrain, LInv, Moves, records, broker, RecordsFitState, DeletedIsScrubbed,
        ActiveHasRatchet, NoOrphans, Secrets, GoneIsQuiet, AnswersWait, SeenStays,
        NewIsAlone, Kind, Typed
<1>2. CASE DrainAttemptEnds(r)
  <2>1. Moves(r, run[r].op, "next", run[r].msg)
    BY <1>2, <1>0, GoToMoves DEF DrainAttemptEnds, Op, Await, Typed
  <2>2. TypeOK'
    BY <1>2, <2>1, <1>0, TypesKept
    DEF DrainAttemptEnds, Moves, records, broker, State, Kind, At, Complete, Typed
  <2> QED
    BY <1>2, <2>1, <2>2, <1>0, IdleIs
    DEF DrainAttemptEnds, LInv, Moves, records, broker, RecordsFitState, DeletedIsScrubbed,
        ActiveHasRatchet, NoOrphans, Secrets, GoneIsQuiet, AnswersWait, SeenStays,
        NewIsAlone, Kind, At, Complete, Typed
<1>3. CASE DrainDone(r)
  <2>1. run'[r] = Idle /\ Moves(r, "none", "none", NoMsg)
    BY <1>3, <1>0, EndMoves DEF DrainDone, Typed
  <2>2. TypeOK'
    BY <1>3, <2>1, <1>0, TypesKept DEF DrainDone, Moves, records, broker, State, Kind, At, Typed
  <2> QED
    BY <1>3, <2>1, <2>2, <1>0, IdleIs
    DEF DrainDone, LInv, Moves, records, broker, RecordsFitState, DeletedIsScrubbed,
        ActiveHasRatchet, NoOrphans, Secrets, GoneIsQuiet, AnswersWait, SeenStays,
        NewIsAlone, Kind, At, Typed
<1>4. ASSUME NEW k \in Kind, DrainNext(r, k) PROVE LInv'
  <2>0. PICK at \in {"next", k} :
          run' = [run EXCEPT ![r].snap = @ \ {k}, ![r].at = at]
    <3>1. (IF Ready(k) THEN k ELSE run[r].at) \in {"next", k}
      BY <1>4 DEF DrainNext, At
    <3> QED
      BY <1>4, <3>1 DEF DrainNext
  <2>1. /\ run' \in [Run -> Invocation]
        /\ run'[r].op = "drain" /\ run'[r].at \in {"next", k} /\ run'[r].msg = run[r].msg
        /\ \A s \in Run \ {r} : run'[s] = run[s]
    <3>1. run \in [Run -> Invocation] /\ run[r].op = "drain" /\ at \in Await
      BY <1>4, <1>0 DEF DrainNext, At, Typed, Await
    <3> QED
      BY <2>0, <3>1 DEF Invocation
  <2>2. TypeOK'
    BY <1>4, <2>1, <1>0, TypesKept DEF DrainNext, Moves, records, broker, State, Kind, At, Typed
  <2> QED
    BY <1>4, <2>1, <2>2, <1>0, IdleIs
    DEF DrainNext, LInv, Moves, records, broker, RecordsFitState, DeletedIsScrubbed,
        ActiveHasRatchet, NoOrphans, Secrets, GoneIsQuiet, AnswersWait, SeenStays,
        NewIsAlone, Kind, At, Typed
<1> QED
  BY <1>1, <1>2, <1>3, <1>4 DEF Draining

\* A handler that throws saves nothing.
LEMMA ThrowsInv == ASSUME LInv, NEW r \in Run, Throws(r) PROVE LInv'
<1>0. TypeOK /\ Typed
  BY Types DEF LInv
<1>1. Throws(r)
  OBVIOUS
<1>2. run'[r] = Idle /\ Moves(r, "none", "none", NoMsg)
  BY <1>1, <1>0, EndMoves DEF Throws, Typed
<1>3. TypeOK'
  BY <1>1, <1>2, <1>0, TypesKept DEF Throws, Moves, records, broker, State, Kind, At, Typed
<1> QED
  BY <1>1, <1>2, <1>3, <1>0, IdleIs
  DEF Throws, LInv, Moves, records, broker, RecordsFitState, DeletedIsScrubbed,
      ActiveHasRatchet, NoOrphans, Secrets, GoneIsQuiet, AnswersWait, SeenStays,
      NewIsAlone, Kind, At, Typed

\* The host deletes everywhere when no other handler is in progress.
LEMMA DeletingInv == ASSUME LInv, NEW r \in Run, Deleting(r), Busy \subseteq {r} PROVE LInv'
<1>0. TypeOK /\ Typed
  BY Types DEF LInv
<1>1. \A s \in Run \ {r} : run[s] = Idle
  BY DEF Busy
<1>2. CASE BeginDeleteEverywhere(r)
  <2>1. run[r] = Idle /\ Moves(r, "deleteEverywhere", "DEL", NoMsg)
    BY <1>2, <1>0, BeginMoves DEF BeginDeleteEverywhere, Op, Await, Typed
  <2>2. TypeOK'
    BY <1>2, <2>1, <1>0, TypesKept
    DEF BeginDeleteEverywhere, Moves, records, broker, State, Kind, Typed
  <2> QED
    BY <1>2, <2>1, <2>2, <1>0, IdleIs
    DEF BeginDeleteEverywhere, LInv, Moves, records, broker, RecordsFitState,
        DeletedIsScrubbed, ActiveHasRatchet, NoOrphans, Secrets, GoneIsQuiet,
        AnswersWait, SeenStays, NewIsAlone, Kind, Typed
<1>3. CASE DeletedEverywhere(r)
  <2>1. run'[r] = Idle /\ Moves(r, "none", "none", NoMsg)
    BY <1>3, <1>0, EndMoves DEF DeletedEverywhere, Typed
  <2>2. TypeOK'
    BY <1>3, <1>1, <2>1, <1>0, TypesKept
    DEF DeletedEverywhere, Moves, records, broker, State, Kind, At, Scrub, Typed
  <2> QED
    BY <1>3, <1>1, <2>1, <2>2, <1>0, IdleIs
    DEF DeletedEverywhere, LInv, Moves, records, broker, RecordsFitState, DeletedIsScrubbed,
        ActiveHasRatchet, NoOrphans, Secrets, GoneIsQuiet, AnswersWait, SeenStays,
        NewIsAlone, Kind, At, Scrub, Typed
<1> QED
  BY <1>2, <1>3 DEF Deleting

\* The host acts when no handler is in progress.
LEMMA HostInv == ASSUME LInv, Host, Busy = {} PROVE LInv'
<1>0. TypeOK /\ Typed
  BY Types DEF LInv
<1>1. \A s \in Run : run[s] = Idle
  BY DEF Busy
<1>2. run' = run
  BY DEF Host, ActivateContact, SuspendContact, DeleteContact
<1>3. CASE ActivateContact
  <2>2. TypeOK'
    BY <1>3, <1>1, <1>2, <1>0, TypesKept
    DEF ActivateContact, records, broker, State, Kind, Known, Typed
  <2> QED
    BY <1>3, <1>1, <1>2, <2>2, <1>0, IdleIs
    DEF ActivateContact, LInv, records, broker, RecordsFitState, DeletedIsScrubbed,
        ActiveHasRatchet, NoOrphans, Secrets, GoneIsQuiet, AnswersWait, SeenStays,
        NewIsAlone, Kind, Known, Typed
<1>4. CASE SuspendContact
  <2>2. TypeOK'
    BY <1>4, <1>1, <1>2, <1>0, TypesKept
    DEF SuspendContact, records, broker, State, Kind, Known, Typed
  <2> QED
    BY <1>4, <1>1, <1>2, <2>2, <1>0, IdleIs
    DEF SuspendContact, LInv, records, broker, RecordsFitState, DeletedIsScrubbed,
        ActiveHasRatchet, NoOrphans, Secrets, GoneIsQuiet, AnswersWait, SeenStays,
        NewIsAlone, Kind, Known, Typed
<1>5. CASE DeleteContact
  <2>2. TypeOK'
    BY <1>5, <1>1, <1>2, <1>0, TypesKept
    DEF DeleteContact, records, broker, State, Kind, Scrub, Known, Typed
  <2> QED
    BY <1>5, <1>1, <1>2, <2>2, <1>0, IdleIs
    DEF DeleteContact, LInv, records, broker, RecordsFitState, DeletedIsScrubbed,
        ActiveHasRatchet, NoOrphans, Secrets, GoneIsQuiet, AnswersWait, SeenStays,
        NewIsAlone, Kind, Scrub, Known, Typed
<1> QED
  BY <1>3, <1>4, <1>5 DEF Host

\* Nothing stored is touched.
LEMMA CrashInv == ASSUME LInv, Crash PROVE LInv'
<1>0. TypeOK /\ Typed
  BY Types DEF LInv
<1>1. \A s \in Run : run'[s] = Idle /\ run' \in [Run -> Invocation]
  BY DEF Crash, Idle, Invocation, Op, Await
<1>2. TypeOK'
  BY <1>0, <1>1, TypesKept DEF Crash, records, broker, Typed
<1> QED
  BY <1>0, <1>1, <1>2, IdleIs
  DEF Crash, LInv, records, broker, RecordsFitState, DeletedIsScrubbed, ActiveHasRatchet,
      NoOrphans, Secrets, GoneIsQuiet, AnswersWait, SeenStays, NewIsAlone, Kind,
      Typed

-----------------------------------------------------------------------------
(* What the runs check.                                                    *)

\* LInv, of every reachable state under a quiet host.
THEOREM InvariantHolds == QuietSpec => []LInv
<1>1. LInv /\ [QuietNext]_vars => LInv'
  <2> SUFFICES ASSUME LInv, [QuietNext]_vars PROVE LInv'
    OBVIOUS
  <2>1. CASE UNCHANGED vars
    BY <2>1
    DEF vars, records, broker, LInv, TypeOK, RecordsFitState, DeletedIsScrubbed,
        ActiveHasRatchet, NoOrphans, Secrets, GoneIsQuiet, AnswersWait, SeenStays,
        NewIsAlone
  <2>2. CASE Host /\ Busy = {}
    BY <2>2, HostInv
  <2>3. CASE Crash
    BY <2>3, CrashInv
  <2>4. ASSUME NEW r \in Run,
               \/ Making(r) \/ Using(r) \/ Draining(r) \/ Throws(r)
               \/ Deleting(r) /\ Busy \subseteq {r}
        PROVE  LInv'
    BY <2>4, MakingInv, UsingInv, DrainingInv, ThrowsInv, DeletingInv
  <2> QED
    BY <2>1, <2>2, <2>3, <2>4 DEF QuietNext
<1> QED
  BY InitInv, <1>1, PTL DEF QuietSpec

\* Every variable keeps its type.
THEOREM TypeCorrect == QuietSpec => []TypeOK
<1>1. LInv => TypeOK
  BY DEF LInv
<1> QED
  BY InvariantHolds, <1>1, PTL

\* Whatever the handlers of a contact do while they overlap, and wherever the
\* page closes: a deleted contact has no keys, no ratchet, no fingerprint and no
\* retry task, an active one has its ratchet, and every fingerprint names its
\* contact.
THEOREM RecordsFit == QuietSpec => []RecordsFitState
<1>1. LInv => RecordsFitState
  BY DEF LInv
<1> QED
  BY InvariantHolds, <1>1, PTL

\* Where ids are not used twice, a contact goes from invited or requested to
\* active, and from there only where the host sends it.
THEOREM LegalLives == ASSUME FreshIds PROVE QuietSpec => LegalLife
<1> DEFINE Legal ==
      \/ state = "none" /\ state' \in {"invited", "requested"}
      \/ state = "invited" /\ state' = "active"
      \/ state = "requested" /\ state' = "active"
      \/ state' \in {"suspended", "deleted", "none"}
      \/ ActivateContact
<1>1. ASSUME LInv, NEW r \in Run, Making(r), state' # state PROVE Legal
  <2>1. CASE InviteCreated(r) \/ RequestCreated(r)
    BY <1>1, <2>1 DEF InviteCreated, RequestCreated, At, LInv, NewIsAlone
  <2>2. CASE RequestSecured(r) \/ AcceptSecured(r)
    BY <1>1, <2>2 DEF RequestSecured, AcceptSecured, At, LInv, AnswersWait
  <2> QED
    BY <1>1, <2>1, <2>2
    DEF Making, BeginInvite, BeginRequest, InitEnds, BeginReceiveRequest,
        BeginReceiveAccept, ConfirmationArrives, ConfirmationAcked, records, broker
<1>2. ASSUME NEW r \in Run, Using(r) \/ Draining(r) \/ Throws(r) PROVE state' = state
  BY <1>2
  DEF Using, BeginSend, SendEnds, BeginReceive, MessageAcked, MessageArrives,
      Throws, Draining, BeginDrain, DrainAttemptEnds, DrainDone, DrainNext, records, broker
<1>3. ASSUME LInv, NEW r \in Run, Deleting(r), state' # state PROVE Legal
  BY <1>3 DEF Deleting, BeginDeleteEverywhere, DeletedEverywhere, Scrub, records, broker
<1>4. ASSUME LInv, Host, state' # state PROVE Legal
  BY <1>4 DEF Host, SuspendContact, DeleteContact, Scrub
<1>5. LInv /\ [QuietNext]_vars => [state' # state => Legal]_vars
  BY <1>1, <1>2, <1>3, <1>4 DEF QuietNext, Crash, vars, records, broker
<1> QED
  BY InvariantHolds, <1>5, PTL DEF QuietSpec, LegalLife

\* Where ids are not used twice, the keys of the inbox queue are dropped only once
\* the broker has deleted the queue, or where the host asked for the local scrub:
\* an invitation or a request that saves a new queue has found no contact, and so
\* (RecordsFitState) no keys in its way.
THEOREM KeysOutlive == ASSUME FreshIds PROVE QuietSpec => KeysOutliveQueue
<1> DEFINE Kept == ((inbox /\ ~inbox') => (~inboxAlive' \/ DeleteContact)) /\ (overwritten' => overwritten)
<1>1. LInv => inbox \in BOOLEAN /\ overwritten \in BOOLEAN /\ inboxAlive \in BOOLEAN
  BY DEF LInv, TypeOK
<1>2. ASSUME LInv, UNCHANGED <<inbox, overwritten>> PROVE Kept
  BY <1>1, <1>2
<1>3. ASSUME LInv, NEW r \in Run, Making(r) PROVE Kept
  <2>1. CASE InviteCreated(r) \/ RequestCreated(r)
    <3>1. state = "none"
      BY <1>3, <2>1 DEF InviteCreated, RequestCreated, At, LInv, NewIsAlone
    <3>2. inbox = FALSE
      BY <1>1, <1>3, <3>1 DEF LInv, RecordsFitState, DeletedIsScrubbed, Secrets
    <3>3. SaveInbox \/ UNCHANGED <<inbox, overwritten>>
      BY <2>1 DEF InviteCreated, RequestCreated, broker
    <3>4. CASE SaveInbox
      <4>1. inbox' = TRUE /\ overwritten' = overwritten
        BY <1>1, <1>3, <3>2, <3>4 DEF SaveInbox
      <4> QED
        BY <1>1, <1>3, <4>1
    <3> QED
      BY <1>2, <1>3, <3>3, <3>4
  <2>2. CASE ~InviteCreated(r) /\ ~RequestCreated(r)
    <3>1. UNCHANGED <<inbox, overwritten>>
      BY <1>3, <2>2
      DEF Making, BeginInvite, BeginRequest, InitEnds, BeginReceiveRequest, BeginReceiveAccept,
          ConfirmationArrives, RequestSecured, AcceptSecured, ConfirmationAcked, records, broker
    <3> QED
      BY <1>2, <1>3, <3>1
  <2> QED
    BY <2>1, <2>2
<1>4. ASSUME LInv, NEW r \in Run, Using(r) \/ Draining(r) \/ Throws(r) PROVE Kept
  <2>1. UNCHANGED <<inbox, overwritten>>
    BY <1>4
    DEF Using, BeginSend, SendEnds, BeginReceive, MessageAcked, MessageArrives, Draining, BeginDrain,
        DrainAttemptEnds, DrainDone, DrainNext, Throws, records, broker
  <2> QED
    BY <1>2, <1>4, <2>1
<1>5. ASSUME LInv, NEW r \in Run, Deleting(r) PROVE Kept
  <2>1. CASE BeginDeleteEverywhere(r)
    <3>1. UNCHANGED <<inbox, overwritten>>
      BY <2>1 DEF BeginDeleteEverywhere, records, broker
    <3> QED
      BY <1>2, <1>5, <3>1
  <2>2. CASE DeletedEverywhere(r)
    <3>1. inboxAlive' = FALSE /\ overwritten' = overwritten
      BY <2>2 DEF DeletedEverywhere
    <3> QED
      BY <1>1, <1>5, <3>1
  <2> QED
    BY <1>5, <2>1, <2>2 DEF Deleting
<1>6. ASSUME LInv, Host PROVE Kept
  <2>1. DeleteContact \/ inbox' = inbox
    BY <1>6 DEF Host, ActivateContact, SuspendContact
  <2>2. overwritten' = overwritten
    BY <1>6 DEF Host, ActivateContact, SuspendContact, DeleteContact, broker
  <2>3. (inbox /\ ~inbox') => DeleteContact
    BY <1>1, <1>6, <2>1
  <2>4. overwritten' => overwritten
    BY <1>1, <1>6, <2>2
  <2> QED
    BY <2>3, <2>4
<1>7. LInv /\ [QuietNext]_vars => [Kept]_vars
  <2> SUFFICES ASSUME LInv, QuietNext PROVE Kept
    OBVIOUS
  <2>1. Crash => UNCHANGED <<inbox, overwritten>>
    BY DEF Crash, records, broker
  <2> QED
    BY <1>2, <1>3, <1>4, <1>5, <1>6, <2>1 DEF QuietNext
<1> QED
  BY InvariantHolds, <1>7, PTL DEF QuietSpec, KeysOutliveQueue
=============================================================================
