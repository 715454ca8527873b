----------------------------- MODULE RetryQueue ------------------------------
(***************************************************************************)
(* The durable retry tasks: BrowserSimplexRetryScheduler over the pending  *)
(* record of the store, and the passes of drainDueRetries over it.         *)
(*                                                                         *)
(* Every scheduler method loads the record, changes it and saves it with   *)
(* no await in between, so each is atomic; a pass of drainDueRetries works *)
(* on the list it read at its start and waits for each attempt.  A task is *)
(* its id, its attempts, whether it is completed, and how long until       *)
(* nextAttemptAt.  What a task carries, and what its attempt does at the   *)
(* broker, is in module MessageDelivery.                                   *)
(*                                                                         *)
(* Time is counted in units of baseMs.  The jitter is that of the default  *)
(* options, where random() is replaced by 1/2: none.                       *)
(***************************************************************************)
EXTENDS Naturals, Sequences, FiniteSets

CONSTANTS
  Id,            \* task ids
  Contact, ContactOf,   \* the contact a task belongs to
  Drain,         \* passes of drainDueRetries that may overlap
  Limit,         \* how many tasks one pass takes
  MaxDelay,      \* maxMs, in units of baseMs
  MaxAttempts,   \* SIMPLEX_RETRY_MAX_ATTEMPTS
  AttemptCap,    \* bound: attempts are counted up to here
  MaxList,       \* SIMPLEX_STORE_MAX_LIST_ITEMS
  RecordItems,   \* tasks that fit in SIMPLEX_STORE_MAX_RECORD_BYTES
  MaxSends,      \* bound: sends that fail
  Resend,        \* whether the host sends one clientMessageId again
  MaxCrashes,    \* bound: how often the page is closed
  HostPrunes     \* whether the host calls prune(); nothing in src does

ASSUME RetryAssumption ==
  /\ ContactOf \in [Id -> Contact]
  /\ Limit \in Nat \ {0} /\ MaxDelay \in Nat \ {0} /\ MaxAttempts \in Nat \ {0}
  /\ AttemptCap \in Nat /\ AttemptCap > MaxAttempts
  /\ MaxList \in Nat /\ RecordItems \in Nat
  /\ MaxSends \in Nat /\ MaxCrashes \in Nat
  /\ Resend \in BOOLEAN /\ HostPrunes \in BOOLEAN

VARIABLES
  stored,   \* the pending record
  todo,     \* of each pass, the ids still to do; the first one is under way
  sends, crashes,   \* counters of the bounds
  used,     \* history: ids of failed sends
  lost,     \* history: those of which no task was kept
  early     \* history: some attempt began before its time

vars == <<stored, todo, sends, crashes, used, lost, early>>

Task == [id : Id, attempts : 0 .. AttemptCap, wait : 0 .. MaxDelay, done : BOOLEAN]

TypeOK ==
  /\ stored \in Seq(Task) /\ Len(stored) <= MaxList
  /\ todo \in [Drain -> Seq(Id)]
  /\ lost \subseteq used /\ used \subseteq Id /\ early \in BOOLEAN

Init ==
  /\ stored = <<>>
  /\ todo = [d \in Drain |-> <<>>]
  /\ sends = 0 /\ crashes = 0 /\ used = {} /\ lost = {} /\ early = FALSE

-----------------------------------------------------------------------------
(* The scheduler.                                                          *)

Least(a, b)    == IF a <= b THEN a ELSE b
Greatest(a, b) == IF a <= b THEN b ELSE a

\* The filter of a list: what stands at the positions P, in its order.  (In
\* closed form, since nothing can be proved about SelectSeq.)
Filter(q, P) ==
  [k \in 1 .. Cardinality(P) |-> q[CHOOSE i \in P : Cardinality({j \in P : j <= i}) = k]]

NextRetryDelay(attempts) == Greatest(1, Least(MaxDelay, 2 ^ attempts))

\* Mutant: the task that is enqueued again is not taken out first.
WithoutNone(q, id) == q

Without(q, id) == Filter(q, {i \in 1 .. Len(q) : q[i].id # id})

CreateRetryTask(id) == [id |-> id, attempts |-> 0, wait |-> 0, done |-> FALSE]

\* Mutant: a failure opens the task again.
MarkTaskFailureReopening(t) ==
  LET attempts == Least(AttemptCap, t.attempts + 1)
  IN  [t EXCEPT !.attempts = attempts, !.wait = NextRetryDelay(attempts), !.done = FALSE]

MarkTaskFailure(t) ==
  LET attempts == Least(AttemptCap, t.attempts + 1)
  IN  [t EXCEPT !.attempts = attempts, !.wait = NextRetryDelay(attempts)]

MarkTaskSuccess(t) == [t EXCEPT !.done = TRUE]

\* Mutant: a task that is marked moves to the end of the record.
MarkedAtEnd(q, id, ok) ==
  LET same == Filter(q, {i \in 1 .. Len(q) : q[i].id = id})
  IN  Without(q, id) \o [i \in 1 .. Len(same) |->
                           IF ok THEN MarkTaskSuccess(same[i]) ELSE MarkTaskFailure(same[i])]

\* The map of fail and complete over the list: the task of that id is marked.
Marked(q, id, ok) ==
  [i \in 1 .. Len(q) |->
     IF q[i].id # id THEN q[i]
     ELSE IF ok THEN MarkTaskSuccess(q[i]) ELSE MarkTaskFailure(q[i])]

\* Mutant: the list is written uncut.
SavedUncut(q) == IF Len(q) > RecordItems THEN stored ELSE q

\* replacePending keeps the first MaxList tasks; serialize then throws when the
\* text is too long, and the record stays what it was.
Saved(q) ==
  LET cut == SubSeq(q, 1, Least(MaxList, Len(q)))
  IN  IF Len(cut) > RecordItems THEN stored ELSE cut

HasId(q, id) == \E i \in 1 .. Len(q) : q[i].id = id

\* Mutant: the record is cut to a pass before it is filtered.
DueIdsCutFirst ==
  LET due == Filter(stored, {i \in 1 .. Least(Limit, Len(stored)) : ~stored[i].done /\ stored[i].wait = 0})
  IN  [i \in 1 .. Len(due) |-> due[i].id]

DueIds ==
  LET due == Filter(stored, {i \in 1 .. Len(stored) : ~stored[i].done /\ stored[i].wait = 0})
  IN  [i \in 1 .. Least(Limit, Len(due)) |-> due[i].id]

-----------------------------------------------------------------------------
(* Sends.                                                                  *)

\* The catch of sendPlaintext and of acknowledgeOrQueue: enqueue, then fail.
SendFailed(id) ==
  LET enqueued == Saved(Append(Without(stored, id), CreateRetryTask(id))) IN
  /\ Resend \/ id \notin used
  /\ sends < MaxSends /\ sends' = sends + 1
  /\ used' = used \cup {id}
  /\ stored' = IF enqueued = stored THEN stored
               ELSE Marked(enqueued, id, FALSE)
  /\ lost' = IF HasId(enqueued, id) THEN lost \ {id} ELSE lost \cup {id}
  /\ UNCHANGED <<todo, crashes, early>>

\* The OK of sendPlaintext's own attempt, of a message sent again: complete.
SendSucceeded(id) ==
  /\ Resend
  /\ HasId(stored, id)
  /\ stored' = Saved(Marked(stored, id, TRUE))
  /\ UNCHANGED <<todo, sends, crashes, used, lost, early>>

-----------------------------------------------------------------------------
(* drainDueRetries.                                                        *)

\* An attempt at the first id of q begins before the task's time.
BeginsEarly(q) ==
  q # <<>> /\ \E i \in 1 .. Len(stored) :
                stored[i].id = q[1] /\ ~stored[i].done /\ stored[i].wait > 0

DrainStart(d) ==
  /\ todo[d] = <<>> /\ DueIds # <<>>
  /\ todo' = [todo EXCEPT ![d] = DueIds]
  /\ early' = (early \/ BeginsEarly(DueIds))
  /\ UNCHANGED <<stored, sends, crashes, used, lost>>

\* An attempt has ended, and the next one of the pass begins.
AttemptEnds(d, ok) ==
  /\ todo[d] # <<>>
  /\ stored' = Saved(Marked(stored, Head(todo[d]), ok))
  /\ todo' = [todo EXCEPT ![d] = Tail(@)]
  /\ early' = (early \/ BeginsEarly(Tail(todo[d])))
  /\ UNCHANGED <<sends, crashes, used, lost>>

DrainOk(d)    == AttemptEnds(d, TRUE)
DrainFails(d) == AttemptEnds(d, FALSE)

-----------------------------------------------------------------------------
(* The rest.                                                               *)

\* removeWhere, when a contact is deleted.
RemoveContact(c) ==
  /\ \E i \in 1 .. Len(stored) : ContactOf[stored[i].id] = c
  /\ stored' = Saved(Filter(stored, {i \in 1 .. Len(stored) : ContactOf[stored[i].id] # c}))
  /\ UNCHANGED <<todo, sends, crashes, used, lost, early>>

Prune ==
  /\ HostPrunes
  /\ stored' = Saved(Filter(stored, {i \in 1 .. Len(stored) :
                                        ~stored[i].done /\ stored[i].attempts < MaxAttempts}))
  /\ UNCHANGED <<todo, sends, crashes, used, lost, early>>

\* The page is closed.
Crash ==
  /\ crashes < MaxCrashes /\ crashes' = crashes + 1
  /\ todo' = [d \in Drain |-> <<>>]
  /\ UNCHANGED <<stored, sends, used, lost, early>>

Tick ==
  /\ \E i \in 1 .. Len(stored) : stored[i].wait > 0
  /\ stored' = [i \in 1 .. Len(stored) |->
                  [stored[i] EXCEPT !.wait = IF @ > 0 THEN @ - 1 ELSE 0]]
  /\ UNCHANGED <<todo, sends, crashes, used, lost, early>>

Next ==
  \/ \E id \in Id : SendFailed(id) \/ SendSucceeded(id)
  \/ \E d \in Drain : DrainStart(d) \/ DrainOk(d) \/ DrainFails(d)
  \/ \E c \in Contact : RemoveContact(c)
  \/ Prune \/ Crash \/ Tick

Spec == Init /\ [][Next]_vars

\* Time passes and attempts end one way or the other (commands time out).  That
\* the host drains again when something is due, however late, is an assumption
\* on the host: nothing in src calls drainDueRetries by itself.
FairSpec ==
  /\ Spec
  /\ WF_vars(Tick)
  /\ \A d \in Drain : WF_vars(DrainStart(d)) /\ WF_vars(DrainOk(d) \/ DrainFails(d))

-----------------------------------------------------------------------------
(* Properties.                                                             *)

TaskOf(id) == LET i == CHOOSE i \in 1 .. Len(stored) : stored[i].id = id IN stored[i]

\* A task id names one task, whatever is enqueued again, cut or removed.
UniqueIds ==
  \A i, j \in 1 .. Len(stored) : stored[i].id = stored[j].id => i = j

\* A completed task is not opened again by a pass that still has it on its list
\* and whose attempt fails, nor by anything but a new failed send.
CompletedStays ==
  [][\A id \in Id :
       (HasId(stored, id) /\ TaskOf(id).done /\ HasId(stored', id) /\ ~TaskOf(id)'.done)
         => SendFailed(id)]_vars

\* Waiting tasks overtake nobody: the record keeps its order, so a pass takes
\* the tasks in the order in which their sends failed.
OldestFirst ==
  [][\A i, j \in 1 .. Len(stored), k, l \in 1 .. Len(stored') :
       (i < j /\ stored'[k].id = stored[i].id /\ stored'[l].id = stored[j].id /\ k > l)
         => SendFailed(stored[i].id)]_vars

\* Overlapping passes and sends leave the record consistent: what is completed
\* stays so, and what waits keeps its place.
RecordKept == CompletedStays /\ OldestFirst

\* "Computes the next eligible attempt": no attempt of a pass begins before the
\* task is due.
BackoffRespected == ~early

\* What a task waits behind.
Open(id)   == HasId(stored, id) /\ ~TaskOf(id).done
Tried(id)  == \E d \in Drain : todo[d] # <<>> /\ todo[d][1] = id
Before(id) == {i \in 1 .. Len(stored) :
                 ~stored[i].done /\ \E j \in i + 1 .. Len(stored) : stored[j].id = id}
InReach(id) == Open(id) /\ Cardinality(Before(id)) < Limit

\* A task among the first open ones, as many as a pass takes, gets its turn:
\* what is completed or waits in front of it does not use up the pass.  It leaves
\* them only when it is done with, or its message is sent again.
FirstTried == \A id \in Id : InReach(id) ~> (Tried(id) \/ ~InReach(id))

\* "Failed sends can be drained": every task gets its turn.  False of the code:
\* tasks that fail again, and are due again when the next pass comes, fill it.
EveryTaskTried == \A id \in Id : Open(id) ~> (Tried(id) \/ ~Open(id))

\* Attempts fail a number of times only.
FailuresStop == <>[][\A d \in Drain : ~DrainFails(d)]_vars

\* Nobody starves whom the passes can reach, however late they come and whatever
\* fails; and nobody at all once the attempts cease to fail.
TasksTried == FirstTried /\ (FailuresStop => EveryTaskTried)

\* "Failed sends become durable encrypted-packet retry tasks instead of
\* disappearing."
FailedSendsKept == lost = {}

\* "... and a maximum retry count."
RetriesBounded == \A i \in 1 .. Len(stored) : stored[i].attempts <= MaxAttempts
=============================================================================
