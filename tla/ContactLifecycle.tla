--------------------------- MODULE ContactLifecycle --------------------------
(***************************************************************************)
(* One contact of one client, from the invitation to its deletion, and the *)
(* durable records it owns (browser-simplex-contact-client.mjs).           *)
(*                                                                         *)
(* A handler works on the copy of the contact it loaded when it began, and *)
(* saves that copy after awaits during which other handlers ran.  A run is *)
(* one invocation of a handler, cut at its awaits: "op" is the handler and *)
(* "at" the command it waits for.  What the commands do at the broker is   *)
(* in SmpClient and MessageDelivery, the order of retries in RetryQueue.   *)
(***************************************************************************)
EXTENDS Naturals, FiniteSets

CONSTANTS
  Run,          \* invocations that may be in progress at once
  Msg,          \* messages of the contact's peer
  NoMsg,
  MaxBusy,      \* how many invocations the host lets overlap
  FreshIds,     \* the host invites and requests under unused ids, and does not
                \* suspend, activate or delete what it has deleted
  MayDelete     \* the host deletes contacts

ASSUME LifecycleAssumption ==
  /\ NoMsg \notin Msg /\ MaxBusy \in Nat
  /\ FreshIds \in BOOLEAN /\ MayDelete \in BOOLEAN

State == {"none", "invited", "requested", "active", "suspended", "deleted"}
Kind  == {"send", "init", "ack"}

VARIABLES
  state,      \* of the contact record; "none": there is none
  inbox, outbox, ratchet,   \* whether the record is stored
  received,   \* fingerprints stored, each with its contact id
  orphans,    \* fingerprints stored without contact id
  tasks,      \* retry tasks of the contact
  run,        \* the invocations
  sentIn,     \* history: states of the contact when a ratchet packet left
  inboxAlive, \* whether the broker still has the queue of the inbox record
  overwritten \* history: that record was overwritten while the broker had its queue

records == <<state, inbox, outbox, ratchet, received, orphans, tasks>>
broker  == <<inboxAlive, overwritten>>
vars    == <<records, run, sentIn, broker>>

Idle == [op |-> "none", at |-> "none", msg |-> NoMsg, snap |-> {}]

TypeOK ==
  /\ state \in State
  /\ inbox \in BOOLEAN /\ outbox \in BOOLEAN /\ ratchet \in BOOLEAN
  /\ received \subseteq Msg /\ orphans \subseteq Msg
  /\ tasks \in [Kind -> {"none", "open", "done"}]
  /\ run \in [Run -> [op : {"none", "invite", "request", "receiveRequest",
                            "receiveAccept", "send", "receive", "duplicate",
                            "orphan", "deleteEverywhere", "drain"},
                      at : {"none", "NEW", "MSG", "KEY", "ACK", "SEND", "INIT",
                            "DEL", "next"} \cup Kind,
                      msg : Msg \cup {NoMsg}, snap : SUBSET Kind]]
  /\ sentIn \subseteq State /\ inboxAlive \in BOOLEAN /\ overwritten \in BOOLEAN

Init ==
  /\ state = "none" /\ inbox = FALSE /\ outbox = FALSE /\ ratchet = FALSE
  /\ received = {} /\ orphans = {} /\ tasks = [k \in Kind |-> "none"]
  /\ run = [r \in Run |-> Idle]
  /\ sentIn = {} /\ inboxAlive = FALSE /\ overwritten = FALSE

-----------------------------------------------------------------------------
Busy == {r \in Run : run[r] # Idle}

\* Steps of an invocation: begin, wait for the next command, end.
Begin(r, op, at) ==
  /\ run[r] = Idle /\ Cardinality(Busy) < MaxBusy
  /\ run' = [run EXCEPT ![r] = [Idle EXCEPT !.op = op, !.at = at]]
At(r, op, at)  == run[r].op = op /\ run[r].at = at
GoTo(r, at)    == run' = [run EXCEPT ![r].at = at]
End(r)         == run' = [run EXCEPT ![r] = Idle]

Enqueue(k)  == tasks' = [tasks EXCEPT ![k] = "open"]
Complete(k) == tasks' = [tasks EXCEPT ![k] = IF @ = "none" THEN "none" ELSE "done"]

Unused == FreshIds => state = "none" /\ \A r \in Run : run[r].at # "NEW"
Known  == state # "none" /\ (FreshIds => state # "deleted")

-----------------------------------------------------------------------------
(* Making a contact.                                                       *)

\* createInvitation and requestContact create a queue, then save; neither looks
\* at what is stored under the id, so that the keys of a queue that the broker
\* still has can be overwritten.  A request need not have a reply queue.
BeginInvite(r) ==
  /\ Unused
  /\ Begin(r, "invite", "NEW")
  /\ UNCHANGED <<records, sentIn, broker>>

\* The keys of a new queue become the inbox record.
SaveInbox ==
  /\ inbox' = TRUE /\ inboxAlive' = TRUE
  /\ overwritten' = (overwritten \/ (inbox /\ inboxAlive))

InviteCreated(r) ==
  /\ At(r, "invite", "NEW")
  /\ SaveInbox /\ state' = "invited"
  /\ End(r)
  /\ UNCHANGED <<outbox, ratchet, received, orphans, tasks, sentIn>>

BeginRequest(r) ==
  /\ Unused
  /\ Begin(r, "request", "NEW")
  /\ UNCHANGED <<records, sentIn, broker>>

RequestCreated(r) ==
  /\ At(r, "request", "NEW")
  /\ SaveInbox \/ UNCHANGED <<inbox, broker>>
  /\ outbox' = TRUE /\ ratchet' = TRUE /\ state' = "requested"
  /\ GoTo(r, "INIT")
  /\ UNCHANGED <<received, orphans, tasks, sentIn>>

\* The answer to the request or to the accept; a failure leaves a task.
InitEnds(r) ==
  /\ run[r].op \in {"request", "receiveRequest"} /\ run[r].at = "INIT"
  /\ Complete("init") \/ Enqueue("init")
  /\ End(r)
  /\ UNCHANGED <<state, inbox, outbox, ratchet, received, orphans, sentIn, broker>>

\* receiveContactRequest and receiveContactAccept wait for the message ...
BeginReceiveRequest(r) ==
  /\ state = "invited" /\ inbox
  /\ Begin(r, "receiveRequest", "MSG")
  /\ UNCHANGED <<records, sentIn, broker>>

\* Mutant: an accept is read in any state.
BeginReceiveAcceptAnyState(r) ==
  /\ state # "none" /\ inbox
  /\ Begin(r, "receiveAccept", "MSG")
  /\ UNCHANGED <<records, sentIn, broker>>

BeginReceiveAccept(r) ==
  /\ state \in {"requested", "active"} /\ inbox
  /\ Begin(r, "receiveAccept", "MSG")
  /\ UNCHANGED <<records, sentIn, broker>>

\* ... secure the queue with the key that it carries ...
ConfirmationArrives(r) ==
  /\ run[r].op \in {"receiveRequest", "receiveAccept"} /\ run[r].at = "MSG"
  /\ GoTo(r, "KEY")
  /\ UNCHANGED <<records, sentIn, broker>>

\* Mutant: the contact is active before there is a ratchet.
RequestSecuredBare(r) ==
  /\ At(r, "receiveRequest", "KEY")
  /\ state' = "active" /\ outbox' \in {outbox, TRUE}
  /\ GoTo(r, "ACK")
  /\ UNCHANGED <<inbox, ratchet, received, orphans, tasks, sentIn, broker>>

\* ... and save the contact they loaded, now active.  A request also brings the
\* ratchet, and the reply queue if it names one.
RequestSecured(r) ==
  /\ At(r, "receiveRequest", "KEY")
  /\ state' = "active" /\ ratchet' = TRUE /\ outbox' \in {outbox, TRUE}
  /\ GoTo(r, "ACK")
  /\ UNCHANGED <<inbox, received, orphans, tasks, sentIn, broker>>

\* The loaded contact holds the outbound queue of the request.
AcceptSecured(r) ==
  /\ At(r, "receiveAccept", "KEY")
  /\ state' = "active" /\ outbox' = TRUE
  /\ GoTo(r, "ACK")
  /\ UNCHANGED <<inbox, ratchet, received, orphans, tasks, sentIn, broker>>

\* acknowledgeOrQueue; after a request with a reply queue the accept is sent.
ConfirmationAcked(r) ==
  /\ run[r].op \in {"receiveRequest", "receiveAccept"} /\ run[r].at = "ACK"
  /\ Enqueue("ack") \/ UNCHANGED tasks
  /\ \/ run[r].op = "receiveRequest" /\ GoTo(r, "INIT")
     \/ End(r)
  /\ UNCHANGED <<state, inbox, outbox, ratchet, received, orphans, sentIn, broker>>

-----------------------------------------------------------------------------
(* Using it.                                                               *)

BeginSend(r) ==
  /\ state = "active" /\ outbox /\ ratchet
  /\ Begin(r, "send", "SEND")
  /\ sentIn' = sentIn \cup {state}
  /\ UNCHANGED <<records, broker>>

SendEnds(r) ==
  /\ At(r, "send", "SEND")
  /\ Complete("send") \/ Enqueue("send")
  /\ End(r)
  /\ UNCHANGED <<state, inbox, outbox, ratchet, received, orphans, sentIn, broker>>

BeginReceive(r) ==
  /\ state = "active" /\ inbox
  /\ Begin(r, "receive", "MSG")
  /\ UNCHANGED <<records, sentIn, broker>>

\* Mutant: the invocation that found a duplicate does not know which message.
MessageArrivesUnnamed(r, m) ==
  /\ At(r, "receive", "MSG")
  /\ IF m \in received \cup orphans
     THEN run' = [run EXCEPT ![r].op = "duplicate", ![r].at = "ACK"] /\ UNCHANGED received
     ELSE /\ ratchet
          /\ run' = [run EXCEPT ![r].at = "ACK", ![r].msg = m]
          /\ received' = received \cup {m}
  /\ UNCHANGED <<state, inbox, outbox, ratchet, orphans, tasks, sentIn, broker>>

\* Mutant: the fingerprint is saved after the ACK only.
MessageArrivesUnrecorded(r, m) ==
  /\ At(r, "receive", "MSG")
  /\ ratchet
  /\ run' = [run EXCEPT ![r].at = "ACK", ![r].msg = m]
  /\ UNCHANGED <<records, sentIn, broker>>

\* A recorded message goes to its ACK; another one needs the ratchet, which is
\* saved again, and is recorded.
MessageArrives(r, m) ==
  /\ At(r, "receive", "MSG")
  /\ IF m \in received \cup orphans
     THEN /\ run' = [run EXCEPT ![r].op = IF m \in received THEN "duplicate" ELSE "orphan",
                                ![r].at = "ACK", ![r].msg = m]
          /\ UNCHANGED received
     ELSE /\ ratchet
          /\ run' = [run EXCEPT ![r].at = "ACK", ![r].msg = m]
          /\ received' = received \cup {m}
  /\ UNCHANGED <<state, inbox, outbox, ratchet, orphans, tasks, sentIn, broker>>

\* After the ACK the fingerprint is saved again: for a duplicate the one loaded
\* at the start, else the one stored by then; if that is gone, a new one that
\* does not name the contact.
MessageAcked(r) ==
  /\ run[r].op \in {"receive", "duplicate", "orphan"} /\ run[r].at = "ACK"
  /\ Enqueue("ack") \/ UNCHANGED tasks
  /\ IF run[r].op = "duplicate" \/ (run[r].op = "receive" /\ run[r].msg \in received)
     THEN received' = received \cup {run[r].msg} /\ orphans' = orphans \ {run[r].msg}
     ELSE received' = received \ {run[r].msg} /\ orphans' = orphans \cup {run[r].msg}
  /\ End(r)
  /\ UNCHANGED <<state, inbox, outbox, ratchet, sentIn, broker>>

\* A handler throws where it waits for a message or an answer it cannot use;
\* nothing is saved.
Throws(r) ==
  /\ run[r].at \in {"NEW", "MSG", "KEY", "DEL"}
  /\ End(r)
  /\ UNCHANGED <<records, sentIn, broker>>

-----------------------------------------------------------------------------
(* drainDueRetries.                                                        *)

BeginDrain(r) ==
  /\ \E k \in Kind : tasks[k] = "open"
  /\ run[r] = Idle /\ Cardinality(Busy) < MaxBusy
  /\ run' = [run EXCEPT ![r] = [Idle EXCEPT !.op = "drain", !.at = "next",
                                            !.snap = {k \in Kind : tasks[k] = "open"}]]
  /\ UNCHANGED <<records, sentIn, broker>>

\* A packet needs a contact, in any state, and its outbound queue; an ACK needs
\* a contact and its inbox queue; a request or accept needs nothing.
Ready(k) ==
  CASE k = "send" -> state # "none" /\ outbox
    [] k = "ack"  -> state # "none" /\ inbox
    [] k = "init" -> TRUE

DrainNext(r, k) ==
  /\ At(r, "drain", "next") /\ k \in run[r].snap
  /\ run' = [run EXCEPT ![r].snap = @ \ {k}, ![r].at = IF Ready(k) THEN k ELSE @]
  /\ sentIn' = IF Ready(k) /\ k = "send" THEN sentIn \cup {state} ELSE sentIn
  /\ UNCHANGED <<records, broker>>

DrainAttemptEnds(r) ==
  /\ run[r].op = "drain" /\ run[r].at \in Kind
  /\ Complete(run[r].at) \/ UNCHANGED tasks
  /\ GoTo(r, "next")
  /\ UNCHANGED <<state, inbox, outbox, ratchet, received, orphans, sentIn, broker>>

DrainDone(r) ==
  /\ At(r, "drain", "next") /\ run[r].snap = {}
  /\ End(r)
  /\ UNCHANGED <<records, sentIn, broker>>

-----------------------------------------------------------------------------
(* Ending it.                                                              *)

ActivateContact ==
  /\ Known
  /\ state' = "active" /\ ratchet' = TRUE /\ outbox' \in {outbox, TRUE}
  /\ UNCHANGED <<inbox, received, orphans, tasks, run, sentIn, broker>>

SuspendContact ==
  /\ Known
  /\ state' = "suspended"
  /\ UNCHANGED <<inbox, outbox, ratchet, received, orphans, tasks, run, sentIn, broker>>

\* Mutant: the retry tasks of the contact stay.
ScrubKeepingTasks ==
  /\ state' \in IF state = "none" THEN {"none"} ELSE {"deleted", "none"}
  /\ inbox' = FALSE /\ outbox' = FALSE /\ ratchet' = FALSE
  /\ received' = {}
  /\ UNCHANGED <<orphans, tasks>>

\* deleteContact: a tombstone, or nothing with hardDelete, remains.
Scrub ==
  /\ state' \in IF state = "none" THEN {"none"} ELSE {"deleted", "none"}
  /\ inbox' = FALSE /\ outbox' = FALSE /\ ratchet' = FALSE
  /\ received' = {} /\ tasks' = [k \in Kind |-> "none"]
  /\ UNCHANGED orphans

DeleteContact ==
  /\ MayDelete /\ Known
  /\ Scrub
  /\ UNCHANGED <<run, sentIn, broker>>

BeginDeleteEverywhere(r) ==
  /\ MayDelete /\ state # "none" /\ inbox
  /\ Begin(r, "deleteEverywhere", "DEL")
  /\ UNCHANGED <<records, sentIn, broker>>

\* Mutant: the local records are scrubbed without waiting for the DEL.
DeletedHereFirst(r) ==
  /\ At(r, "deleteEverywhere", "DEL")
  /\ Scrub
  /\ End(r)
  /\ UNCHANGED <<sentIn, broker>>

DeletedEverywhere(r) ==
  /\ At(r, "deleteEverywhere", "DEL")
  /\ inboxAlive' = FALSE
  /\ Scrub
  /\ End(r)
  /\ UNCHANGED <<sentIn, overwritten>>

\* The page is closed.
Crash ==
  /\ run' = [r \in Run |-> Idle]
  /\ UNCHANGED <<records, sentIn, broker>>

-----------------------------------------------------------------------------
Making(r) ==
  \/ BeginInvite(r) \/ InviteCreated(r)
  \/ BeginRequest(r) \/ RequestCreated(r) \/ InitEnds(r)
  \/ BeginReceiveRequest(r) \/ BeginReceiveAccept(r) \/ ConfirmationArrives(r)
  \/ RequestSecured(r) \/ AcceptSecured(r) \/ ConfirmationAcked(r)

Using(r) ==
  \/ BeginSend(r) \/ SendEnds(r)
  \/ BeginReceive(r) \/ MessageAcked(r)
  \/ \E m \in Msg : MessageArrives(r, m)

Draining(r) ==
  \/ BeginDrain(r) \/ DrainAttemptEnds(r) \/ DrainDone(r)
  \/ \E k \in Kind : DrainNext(r, k)

Deleting(r) == BeginDeleteEverywhere(r) \/ DeletedEverywhere(r)

Host == ActivateContact \/ SuspendContact \/ DeleteContact

Next ==
  \/ Host \/ Crash
  \/ \E r \in Run : Making(r) \/ Using(r) \/ Draining(r) \/ Deleting(r) \/ Throws(r)

Spec == Init /\ [][Next]_vars

\* A host that changes or deletes a contact, here or everywhere, only while no
\* handler of the contact is in progress, and starts none during a deletion.
QuietNext ==
  \/ (Host /\ Busy = {}) \/ Crash
  \/ \E r \in Run :
       /\ \A s \in Run \ {r} : run[s].op # "deleteEverywhere"
       /\ \/ Making(r) \/ Using(r) \/ Draining(r) \/ Throws(r)
          \/ Deleting(r) /\ Busy \subseteq {r}

QuietSpec == Init /\ [][QuietNext]_vars

-----------------------------------------------------------------------------
(* Properties.                                                             *)

Secrets == inbox \/ outbox \/ ratchet

\* deleteContact "scrubs contact queue/ratchet/received-fingerprint/retry
\* records": as long as the contact is deleted there are none.
DeletedIsScrubbed ==
  state \in {"deleted", "none"} =>
    /\ ~Secrets
    /\ received = {} /\ orphans = {}
    /\ \A k \in Kind : tasks[k] = "none"

\* An active contact can encrypt and decrypt.
ActiveHasRatchet == state = "active" => ratchet

\* Every message record can be found again by the contact it belongs to.
NoOrphans == orphans = {}

\* The records of a contact are those of its state, and all of them are its own.
RecordsFitState == DeletedIsScrubbed /\ ActiveHasRatchet /\ NoOrphans

\* The life of a contact: only the host takes it back to active once it is
\* suspended, nothing makes it invited or requested again, and nobody but the
\* host revives it from its tombstone.
LegalLife ==
  [][state' # state =>
       \/ state = "none" /\ state' \in {"invited", "requested"}
       \/ state = "invited" /\ state' = "active"
       \/ state = "requested" /\ state' = "active"
       \/ state' \in {"suspended", "deleted", "none"}
       \/ ActivateContact]_vars

\* deleteContactEverywhere: the keys of the inbox queue are given up only when
\* the broker no longer has the queue, unless the host asked for the local scrub
\* alone; and those of a new queue do not take their place before (which needs
\* FreshIds).
KeysOutliveQueue ==
  [][/\ (inbox /\ ~inbox') => (~inboxAlive' \/ DeleteContact)
     /\ overwritten' => overwritten]_vars

\* "Contact sends require active contact state ... otherwise they fail closed":
\* no ratchet packet, new or retried, leaves in another state.
SendsNeedActive == sentIn \subseteq {"active"}
=============================================================================
