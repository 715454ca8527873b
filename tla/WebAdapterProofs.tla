--------------------------- MODULE WebAdapterProofs ---------------------------
(***************************************************************************)
(* TypeOK, ReceiptsTruthful and HistoryFaithful of WebAdapter, for every   *)
(* number of calls, messages, faults and sockets.                          *)
(*                                                                         *)
(* What the peer has got and what it has read only grow; a status "sent"   *)
(* is written in the step that puts the message into the peer's queue, and *)
(* a receipt in our queue speaks of a message the peer has read.  What was *)
(* seen are the messages the queue gave up and perhaps its head; each text *)
(* of them is in the history, or one call has it in hand.                  *)
(***************************************************************************)
EXTENDS WebAdapter, SequenceTheorems, TLAPS

\* What the peer puts into our queue.
Note    == ({"receipt"} \X Ref) \cup ({"text"} \X Text)
Told(t) == <<"text", t>>

\* The queue: no text enters it twice; what was seen are the messages that are
\* gone and perhaps the head; calls and retry tasks acknowledge what was seen.
QInv ==
  /\ inbox \in Seq(Note) /\ acked \in Nat /\ acked <= Len(inbox)
  /\ \A t \in Text, i, j \in 1 .. Len(inbox) : inbox[i] = Told(t) /\ inbox[j] = Told(t) => i = j
  /\ \A t \in Text : Told(t) \in seen => \E i \in 1 .. Len(inbox) : i <= acked + 1 /\ inbox[i] = Told(t)
  /\ \A i \in 1 .. acked : inbox[i] \in seen
  /\ \A c \in Call : call[c].step = "acking" =>
       call[c].msg \in seen /\ \E i \in 1 .. Len(inbox) : inbox[i] = call[c].msg
  /\ \A m : <<"ack", m>> \in tasks => m \in seen

-----------------------------------------------------------------------------
(***************************************************************************)
(* TypeOK of WebAdapter.  A call asks whether there is a contact client    *)
(* and goes on later, when another call may have made it: what it may rely *)
(* on is that a socket, or a client, that was there once stays there.      *)
(***************************************************************************)

Step == {"idle", "connect", "opening", "xftp", "ready", "refused", "requesting", "awaiting",
         "sending", "reading", "acking", "answering", "deleting"}
Op   == {"none", "connect", "get", "delete", "text", "files"}

CallRec == [step : Step, op : Op, refs : Seq(Ref), got : Nat, list : Seq(Text),
            msg : Note \cup {NoMessage}, fresh : BOOLEAN]

\* A call that sends has something to send; one that reads is a getMessages and
\* has taken no more than it counted; one that is past its socket has one, or the
\* client.
Fits(k, tr, cl) ==
  /\ k \in CallRec /\ k.got < Limit
  /\ Len(k.list) <= IF k.step = "answering" THEN k.got + 1 ELSE k.got
  /\ k.step \in {"requesting", "awaiting", "sending"} => k.op \in {"text", "files"}
  /\ k.op \in {"text", "files"} => k.refs # <<>>
  /\ k.step \in {"xftp", "ready"} => tr # 0 \/ cl # 0
  /\ k.step \in {"reading", "acking", "answering"} => k.op = "get"
  /\ k.step = "acking" => k.msg \in Note

Sockets ==
  /\ opened \in Nat /\ transport \in 0 .. opened /\ client \in 0 .. opened /\ open \subseteq 1 .. opened
  /\ connected => client # 0

WInv ==
  /\ Sockets
  /\ receipts \in [Ref -> {"unknown", "sent", "read", "contact-requested"}]
  /\ contact \in {"none", "requested", "active", "deleted"}
  /\ DOMAIN call = Call /\ \A c \in Call : Fits(call[c], transport, client)

\* A call moves, and what was there stays.
LEMMA CallMoves ==
  ASSUME WInv, NEW c \in Call, NEW k, Fits(k, transport', client'), call' = [call EXCEPT ![c] = k],
         transport # 0 => transport' # 0, client # 0 => client' # 0
  PROVE  DOMAIN call' = Call /\ \A d \in Call : Fits(call'[d], transport', client')
<1>1. DOMAIN call' = Call /\ call'[c] = k /\ \A d \in Call : d # c => call'[d] = call[d]
  BY DEF WInv
<1>2. \A d \in Call : d # c => Fits(call'[d], transport', client')
  BY <1>1 DEF WInv, Fits
<1> QED
  BY <1>1, <1>2

LEMMA CallsStay ==
  ASSUME WInv, call' = call, transport # 0 => transport' # 0, client # 0 => client' # 0
  PROVE  DOMAIN call' = Call /\ \A d \in Call : Fits(call'[d], transport', client')
  BY DEF WInv, Fits

LEMMA IdleFits == Fits(Idle, transport', client')
<1>1. <<>> \in Seq(Ref) /\ <<>> \in Seq(Text) /\ Len(<<>>) = 0
  BY EmptySeq
<1>2. 0 < Limit
  BY AdapterAssumption
<1>3. Idle \in CallRec
  BY <1>1 DEF Idle, CallRec, Step, Op
<1> QED
  BY <1>1, <1>2, <1>3 DEF Fits, Idle

\* A call that ends is idle.
LEMMA EndFits ==
  ASSUME WInv, NEW c \in Call, End(c), transport # 0 => transport' # 0, client # 0 => client' # 0
  PROVE  DOMAIN call' = Call /\ \A d \in Call : Fits(call'[d], transport', client')
  BY IdleFits, CallMoves DEF End

\* A call goes to its next step.
LEMMA GoToFits ==
  ASSUME WInv, NEW c \in Call, NEW step \in Step, GoTo(c, step),
         call[c].step # "answering", step # "answering",
         step \in {"requesting", "awaiting", "sending"} => call[c].op \in {"text", "files"},
         step \in {"xftp", "ready"} => transport' # 0 \/ client' # 0,
         step # "acking", step = "reading" => call[c].op = "get",
         transport # 0 => transport' # 0, client # 0 => client' # 0
  PROVE  DOMAIN call' = Call /\ \A d \in Call : Fits(call'[d], transport', client')
<1>1. PICK k : k = [call[c] EXCEPT !.step = step]
  OBVIOUS
<1>2. call[c] \in CallRec /\ Fits(call[c], transport, client)
  BY DEF WInv, Fits
<1>3. /\ k \in CallRec /\ k.step = step /\ k.op = call[c].op /\ k.refs = call[c].refs
      /\ k.got = call[c].got /\ k.list = call[c].list
  BY <1>1, <1>2 DEF CallRec
<1>4. Fits(k, transport', client')
  BY <1>2, <1>3 DEF Fits
<1>5. call' = [call EXCEPT ![c] = k]
  BY <1>1 DEF GoTo
<1> QED
  BY <1>4, <1>5, CallMoves

LEMMA FirstIs ==
  ASSUME NEW op
  PROVE  /\ First(op) \in {"deleting", "reading", "sending", "requesting", "refused"}
         /\ First(op) \in {"requesting", "sending"} => op \in {"text", "files"}
         /\ First(op) = "reading" => op = "get"
  BY DEF First

LEMMA InitTypes == Init => WInv
<1> SUFFICES ASSUME Init PROVE WInv
  OBVIOUS
<1>1. ASSUME NEW c \in Call PROVE Fits(call[c], transport, client)
  <2>1. <<>> \in Seq(Ref) /\ <<>> \in Seq(Text) /\ Len(<<>>) = 0
    BY EmptySeq
  <2>2. 0 < Limit
    BY AdapterAssumption
  <2>3. Idle \in CallRec
    BY <2>1 DEF Idle, CallRec, Step, Op
  <2>4. call[c] = Idle
    BY DEF Init
  <2> QED
    BY <2>1, <2>2, <2>3, <2>4 DEF Fits, Idle
<1>2. Sockets
  BY DEF Init, Sockets
<1>3. receipts \in [Ref -> {"unknown", "sent", "read", "contact-requested"}]
  BY DEF Init
<1> QED
  BY <1>1, <1>2, <1>3 DEF Init, WInv

\* A step that leaves the sockets, the receipts and the contact alone.
LEMMA OnlyCall ==
  ASSUME WInv, UNCHANGED <<adapter, open, opened>>,
         receipts' \in [Ref -> {"unknown", "sent", "read", "contact-requested"}],
         contact' \in {"none", "requested", "active", "deleted"},
         DOMAIN call' = Call, \A d \in Call : Fits(call'[d], transport', client')
  PROVE  WInv'
  BY DEF WInv, Sockets, adapter

LEMMA HostTypes ==
  ASSUME WInv, NEW c \in Call, HostBegins(c) \/ Refuses(c) \/ StartConnect(c)
  PROVE  WInv'
<1>0. /\ receipts \in [Ref -> {"unknown", "sent", "read", "contact-requested"}]
      /\ contact \in {"none", "requested", "active", "deleted"}
  BY DEF WInv
<1>1. ASSUME NEW op \in Op, NEW refs \in Seq(Ref), HostCalls(c, op, refs),
             op \in {"text", "files"} => refs # <<>>
      PROVE  WInv'
  <2>1. PICK k : k = [Idle EXCEPT !.op = op, !.refs = refs,
                        !.step = IF client = 0 \/ op = "connect" THEN "connect" ELSE First(op)]
    OBVIOUS
  <2>2. call' = [call EXCEPT ![c] = k] /\ UNCHANGED <<adapter, open, opened, receipts, contact>>
    BY <1>1, <2>1 DEF HostCalls, adapter
  <2>3. Idle \in CallRec /\ Len(Idle.list) = 0 /\ Idle.got = 0 /\ 0 < Limit
    <3>1. Idle \in CallRec
      BY IdleFits DEF Fits
    <3> QED
      BY <3>1, EmptySeq, AdapterAssumption DEF Idle
  <2>4. (IF client = 0 \/ op = "connect" THEN "connect" ELSE First(op))
          \in {"connect", "deleting", "reading", "sending", "requesting", "refused"}
    BY FirstIs
  <2>5. /\ k \in CallRec /\ k.op = op /\ k.refs = refs /\ k.got = 0 /\ k.list = Idle.list
        /\ k.step = IF client = 0 \/ op = "connect" THEN "connect" ELSE First(op)
    BY <1>1, <2>1, <2>3, <2>4 DEF CallRec, Step
  <2>6. Fits(k, transport', client')
    BY <1>1, <2>3, <2>4, <2>5, FirstIs DEF Fits
  <2>7. transport' = transport /\ client' = client
    BY <2>2 DEF adapter
  <2> QED
    BY <1>0, <2>2, <2>6, <2>7, CallMoves, OnlyCall
<1>2. CASE HostBegins(c)
  <2>1. <<>> \in Seq(Ref) /\ \A r1, r2 \in Ref : <<r1>> \in Seq(Ref) /\ <<r1, r2>> \in Seq(Ref)
                                                /\ <<r1>> # <<>> /\ <<r1, r2>> # <<>>
    BY EmptySeq
  <2> QED
    BY <1>1, <1>2, <2>1 DEF HostBegins, Op
<1>3. CASE Refuses(c)
  <2>1. End(c) /\ UNCHANGED <<adapter, open, opened, receipts, contact>> /\ transport' = transport /\ client' = client
    BY <1>3 DEF Refuses, adapter
  <2> QED
    BY <1>0, <2>1, EndFits, OnlyCall
<1>4. CASE StartConnect(c)
  <2>1. /\ UNCHANGED <<adapter, open, opened, receipts, contact>> /\ transport' = transport /\ client' = client
        /\ call[c].step = "connect"
    BY <1>4 DEF StartConnect, adapter, At
  <2>2. PICK step : step = IF transport = 0 /\ client = 0 THEN "opening" ELSE IF ~xftp THEN "xftp" ELSE "ready"
    OBVIOUS
  <2>3. GoTo(c, step) /\ step \in {"opening", "xftp", "ready"}
    BY <1>4, <2>2 DEF StartConnect
  <2>4. step \in {"xftp", "ready"} => transport' # 0 \/ client' # 0
    BY <2>1, <2>2
  <2>5. step \in Step /\ call[c].step # "answering" /\ step # "answering"
        /\ step \notin {"requesting", "awaiting", "sending", "acking", "reading"}
    BY <2>1, <2>3 DEF Step
  <2>6. DOMAIN call' = Call /\ \A d \in Call : Fits(call'[d], transport', client')
    BY <2>1, <2>3, <2>4, <2>5, GoToFits
  <2> QED
    BY <1>0, <2>1, <2>6, OnlyCall
<1> QED
  BY <1>2, <1>3, <1>4

\* Sockets come and go; what connect made stays.
LEMMA ConnectTypes ==
  ASSUME WInv, NEW c \in Call, Opens(c) \/ XftpConnects(c) \/ Ready(c)
  PROVE  WInv'
<1>0. /\ receipts \in [Ref -> {"unknown", "sent", "read", "contact-requested"}]
      /\ contact \in {"none", "requested", "active", "deleted"}
      /\ receipts' = receipts /\ contact' = contact
      /\ opened \in Nat /\ transport \in 0 .. opened /\ client \in 0 .. opened /\ open \subseteq 1 .. opened
      /\ connected => client # 0
      /\ call[c].step \in {"opening", "xftp", "ready"}
  BY DEF WInv, Sockets, Opens, XftpConnects, Ready, At
<1>1. CASE Opens(c)
  <2>1. client' = client /\ connected' = connected
    BY <1>1 DEF Opens
  <2>2. CASE opened' = opened + 1
    <3>1. transport' = opened + 1 /\ open' = open \cup {opened + 1}
      BY <1>0, <1>1, <2>2 DEF Opens
    <3>2. Sockets'
      BY <1>0, <2>1, <2>2, <3>1 DEF Sockets
    <3>3. PICK step : step = IF ~xftp THEN "xftp" ELSE "ready"
      OBVIOUS
    <3>4. GoTo(c, step)
      BY <1>0, <1>1, <2>2, <3>3 DEF Opens
    <3>5. step \in {"xftp", "ready"} /\ step \in Step /\ transport' # 0
      BY <1>0, <3>1, <3>3 DEF Step
    <3>6. DOMAIN call' = Call /\ \A d \in Call : Fits(call'[d], transport', client')
      BY <1>0, <2>1, <3>4, <3>5, GoToFits
    <3> QED
      BY <1>0, <3>2, <3>6 DEF WInv
  <2>3. CASE opened' # opened + 1
    <3>1. End(c) /\ UNCHANGED <<transport, open, opened>>
      BY <1>1, <2>3 DEF Opens
    <3>2. DOMAIN call' = Call /\ \A d \in Call : Fits(call'[d], transport', client')
      BY <2>1, <3>1, EndFits
    <3> QED
      BY <1>0, <2>1, <3>1, <3>2 DEF WInv, Sockets
  <2> QED
    BY <2>2, <2>3
<1>2. CASE XftpConnects(c)
  <2>1. UNCHANGED <<transport, client, connected, open, opened>> /\ call[c].step = "xftp"
    BY <1>2 DEF XftpConnects, At
  <2>2. transport # 0 \/ client # 0
    BY <2>1 DEF WInv, Fits
  <2>3. DOMAIN call' = Call /\ \A d \in Call : Fits(call'[d], transport', client')
    <3>1. CASE GoTo(c, "ready")
      BY <2>1, <2>2, <3>1, GoToFits DEF Step
    <3>2. CASE End(c)
      BY <2>1, <3>2, EndFits
    <3> QED
      BY <1>2, <3>1, <3>2 DEF XftpConnects
  <2> QED
    BY <1>0, <2>1, <2>3 DEF WInv, Sockets
<1>3. CASE Ready(c)
  <2>1. /\ UNCHANGED <<transport, open, opened>> /\ call[c].step = "ready"
        /\ client' = IF client = 0 THEN transport ELSE client
        /\ connected' = TRUE
        /\ IF call[c].op = "connect" THEN End(c) ELSE GoTo(c, First(call[c].op))
    BY <1>3 DEF Ready, At, ClientOf
  <2>2. transport # 0 \/ client # 0
    BY <2>1 DEF WInv, Fits
  <2>3. Sockets'
    BY <1>0, <2>1, <2>2 DEF Sockets
  <2>4. DOMAIN call' = Call /\ \A d \in Call : Fits(call'[d], transport', client')
    <3>1. CASE call[c].op = "connect"
      BY <2>1, <3>1, EndFits
    <3>2. CASE call[c].op # "connect"
      <4>1. PICK step : step = First(call[c].op)
        OBVIOUS
      <4>2. /\ step \in {"deleting", "reading", "sending", "requesting", "refused"}
            /\ step \in {"requesting", "sending"} => call[c].op \in {"text", "files"}
            /\ step = "reading" => call[c].op = "get"
        BY <4>1, FirstIs
      <4>3. step \in Step /\ step # "acking" /\ step # "answering" /\ step \notin {"xftp", "ready", "awaiting"}
        BY <4>2 DEF Step
      <4>4. GoTo(c, step) /\ call[c].step # "answering"
        BY <2>1, <3>2, <4>1
      <4>5. (transport # 0 => transport' # 0) /\ (client # 0 => client' # 0)
        BY <2>1
      <4> QED
        BY <4>2, <4>3, <4>4, <4>5, GoToFits
    <3> QED
      BY <3>1, <3>2
  <2> QED
    BY <1>0, <2>3, <2>4 DEF WInv
<1> QED
  BY <1>1, <1>2, <1>3

\* A receipt of a status that there is.
LEMMA StatusTypes ==
  ASSUME WInv, NEW r, NEW s \in {"sent", "read", "contact-requested"}
  PROVE  Status(r, s) \in [Ref -> {"unknown", "sent", "read", "contact-requested"}]
<1>1. receipts \in [Ref -> {"unknown", "sent", "read", "contact-requested"}]
  BY DEF WInv
<1> QED
  BY <1>1 DEF Status

LEMMA SendTypes ==
  ASSUME WInv, NEW c \in Call, RequestEnds(c) \/ AcceptEnds(c) \/ SendEnds(c) \/ DeleteEnds(c)
  PROVE  WInv'
<1>0. /\ UNCHANGED <<adapter, open, opened>> /\ transport' = transport /\ client' = client
      /\ call[c].step \in {"requesting", "awaiting", "sending", "deleting"}
      /\ call[c].step \in {"requesting", "awaiting", "sending"} => call[c].op \in {"text", "files"}
      /\ receipts \in [Ref -> {"unknown", "sent", "read", "contact-requested"}]
      /\ contact \in {"none", "requested", "active", "deleted"}
      /\ Fits(call[c], transport, client)
  <2>1. call[c].step \in {"requesting", "awaiting", "sending"} => call[c].op \in {"text", "files"}
    BY DEF WInv, Fits
  <2> QED
    BY <2>1 DEF WInv, RequestEnds, AcceptEnds, SendEnds, DeleteEnds, adapter, At
<1>1. receipts' \in [Ref -> {"unknown", "sent", "read", "contact-requested"}]
  <2>1. \/ receipts' = receipts
        \/ \E r : receipts' = Status(r, "sent") \/ receipts' = Status(r, "contact-requested")
    BY DEF RequestEnds, AcceptEnds, SendEnds, DeleteEnds
  <2> QED
    BY <1>0, <2>1, StatusTypes
<1>2. contact' \in {"none", "requested", "active", "deleted"}
  BY <1>0 DEF RequestEnds, AcceptEnds, SendEnds, DeleteEnds
<1>3. DOMAIN call' = Call /\ \A d \in Call : Fits(call'[d], transport', client')
  <2>1. CASE End(c)
    BY <1>0, <2>1, EndFits
  <2>2. CASE call[c].step \in {"requesting", "awaiting"} /\ \E step \in {"awaiting", "sending"} : GoTo(c, step)
    <3>1. PICK step \in {"awaiting", "sending"} : GoTo(c, step)
      BY <2>2
    <3> QED
      BY <1>0, <2>2, <3>1, GoToFits DEF Step
  <2>3. CASE /\ call[c].step = "sending" /\ Tail(call[c].refs) # <<>>
             /\ call' = [call EXCEPT ![c].refs = Tail(call[c].refs),
                                     ![c].step = IF contact = "active" THEN "sending" ELSE "refused"]
    <3>1. PICK k : k = [call[c] EXCEPT !.refs = Tail(call[c].refs),
                                       !.step = IF contact = "active" THEN "sending" ELSE "refused"]
      OBVIOUS
    <3>2. /\ call[c] \in CallRec /\ call[c].refs \in Seq(Ref) /\ call[c].refs # <<>>
      BY <1>0, <2>3 DEF Fits, CallRec
    <3>3. Tail(call[c].refs) \in Seq(Ref)
      BY <3>2, HeadTailProperties
    <3>4. (IF contact = "active" THEN "sending" ELSE "refused") \in {"sending", "refused"}
      OBVIOUS
    <3>5. /\ k \in CallRec /\ k.step \in {"sending", "refused"} /\ k.op = call[c].op
          /\ k.refs # <<>> /\ k.got = call[c].got /\ k.list = call[c].list
      BY <2>3, <3>1, <3>2, <3>3, <3>4 DEF CallRec, Step
    <3>6. Fits(k, transport', client')
      BY <1>0, <2>3, <3>5 DEF Fits
    <3>7. call' = [call EXCEPT ![c] = k]
      BY <2>3, <3>1
    <3> QED
      BY <1>0, <3>6, <3>7, CallMoves
  <2> QED
    BY <2>1, <2>2, <2>3 DEF RequestEnds, AcceptEnds, SendEnds, DeleteEnds, At
<1> QED
  BY <1>0, <1>1, <1>2, <1>3, OnlyCall

\* The loop of getMessages goes on with a list that is no longer than its count.
LEMMA AgainFits ==
  ASSUME WInv, NEW c \in Call, NEW list \in Seq(Text), Again(c, list), Len(list) <= call[c].got + 1,
         call[c].step \in {"acking", "answering"}, transport' = transport, client' = client
  PROVE  DOMAIN call' = Call /\ \A d \in Call : Fits(call'[d], transport', client')
<1>1. /\ Fits(call[c], transport, client) /\ call[c] \in CallRec /\ call[c].got \in Nat /\ Limit \in Nat
      /\ call[c].op = "get"
  BY AdapterAssumption DEF WInv, Fits, CallRec
<1>2. CASE call[c].got + 1 >= Limit
  <2>1. End(c)
    BY <1>2 DEF Again
  <2> QED
    BY <2>1, EndFits
<1>3. CASE ~(call[c].got + 1 >= Limit)
  <2>0. PICK n \in Nat : n = call[c].got + 1
    <3>1. call[c].got + 1 \in Nat
      BY <1>1
    <3> QED
      BY <3>1
  <2>1. PICK k : k = [call[c] EXCEPT !.step = "reading", !.got = n, !.list = list,
                                     !.msg = NoMessage, !.fresh = FALSE]
    OBVIOUS
  <2>2. call' = [call EXCEPT ![c] = k]
    BY <1>3, <2>0, <2>1 DEF Again
  <2>3. /\ k \in CallRec /\ k.step = "reading" /\ k.got = n /\ k.list = list
        /\ k.op = "get" /\ k.refs = call[c].refs
    BY <1>1, <2>1 DEF CallRec, Step
  <2>4. Fits(k, transport', client')
    BY <1>1, <1>3, <2>0, <2>3 DEF Fits
  <2> QED
    BY <2>2, <2>4, CallMoves
<1> QED
  BY <1>2, <1>3

\* A call takes a message of the queue.
LEMMA ArrivalTypes ==
  ASSUME WInv, QInv, NEW c \in Call, MessageArrives(c)
  PROVE  WInv'
<1>1. PICK i \in 1 .. Len(inbox) :
        call' = [call EXCEPT ![c].step = "acking", ![c].msg = inbox[i], ![c].fresh = IsNew(inbox[i])]
  BY DEF MessageArrives
<1>2. inbox[i] \in Note /\ IsNew(inbox[i]) \in BOOLEAN
  <2>1. inbox \in Seq(Note)
    BY DEF QInv
  <2> QED
    BY <2>1, ElementOfSeq DEF IsNew
<1>3. PICK k : k = [call[c] EXCEPT !.step = "acking", !.msg = inbox[i], !.fresh = IsNew(inbox[i])]
  OBVIOUS
<1>4. call[c] \in CallRec /\ Fits(call[c], transport, client) /\ call[c].step = "reading"
  BY DEF WInv, Fits, MessageArrives, At
<1>5. /\ k \in CallRec /\ k.step = "acking" /\ k.op = call[c].op /\ k.refs = call[c].refs
      /\ k.got = call[c].got /\ k.list = call[c].list /\ k.msg = inbox[i]
  BY <1>2, <1>3, <1>4 DEF CallRec, Step
<1>6. UNCHANGED <<adapter, open, opened, receipts, contact>> /\ transport' = transport /\ client' = client
  BY DEF MessageArrives, adapter
<1>7. Fits(k, transport', client')
  BY <1>2, <1>4, <1>5 DEF Fits
<1>8. call' = [call EXCEPT ![c] = k]
  BY <1>1, <1>3
<1>9. DOMAIN call' = Call /\ \A d \in Call : Fits(call'[d], transport', client')
  BY <1>6, <1>7, <1>8, CallMoves
<1> QED
  BY <1>6, <1>9, OnlyCall DEF WInv

LEMMA ReadTypes ==
  ASSUME WInv, NEW c \in Call,
         AckEnds(c) \/ ReceiveTimesOut(c) \/ ReceiveFails(c) \/ ReceiptEnds(c)
  PROVE  WInv'
<1>0. /\ UNCHANGED <<adapter, open, opened, contact>> /\ transport' = transport /\ client' = client
      /\ call[c].step \in {"reading", "acking", "answering"}
      /\ receipts \in [Ref -> {"unknown", "sent", "read", "contact-requested"}]
      /\ contact \in {"none", "requested", "active", "deleted"}
      /\ Fits(call[c], transport, client) /\ call[c] \in CallRec
      /\ call[c].list \in Seq(Text) /\ call[c].got \in Nat /\ Len(call[c].list) \in Nat
  <2>1. Fits(call[c], transport, client) /\ call[c] \in CallRec /\ call[c].list \in Seq(Text) /\ call[c].got \in Nat
    BY DEF WInv, Fits, CallRec
  <2> QED
    BY <2>1, LenProperties DEF WInv, AckEnds, ReceiveTimesOut, ReceiveFails, ReceiptEnds, adapter, At
<1>1. receipts' \in [Ref -> {"unknown", "sent", "read", "contact-requested"}]
  <2>1. receipts' = receipts \/ \E r : receipts' = Status(r, "read")
    BY DEF AckEnds, ReceiveTimesOut, ReceiveFails, ReceiptEnds
  <2> QED
    BY <1>0, <2>1, StatusTypes
<1>2. DOMAIN call' = Call /\ \A d \in Call : Fits(call'[d], transport', client')
  <2>1. CASE End(c)
    BY <1>0, <2>1, EndFits
  <2>2. CASE call[c].step \in {"acking", "answering"} /\ Again(c, call[c].list)
    <3>1. Len(call[c].list) <= call[c].got + 1
      BY <1>0 DEF Fits
    <3> QED
      BY <1>0, <2>2, <3>1, AgainFits
  <2>3. CASE /\ call[c].step = "acking" /\ call[c].msg[1] = "text"
             /\ call' = [call EXCEPT ![c] = [@ EXCEPT !.step = "answering",
                           !.list = Append(call[c].list, call[c].msg[2]), !.msg = NoMessage, !.fresh = FALSE]]
    <3>1. PICK list : list = Append(call[c].list, call[c].msg[2])
      OBVIOUS
    <3>2. call[c].msg[2] \in Text
      BY <1>0, <2>3 DEF Fits, Note
    <3>3. list \in Seq(Text) /\ Len(list) = Len(call[c].list) + 1
      BY <1>0, <3>1, <3>2, AppendProperties
    <3>4. PICK k : k = [call[c] EXCEPT !.step = "answering", !.list = list,
                                       !.msg = NoMessage, !.fresh = FALSE]
      OBVIOUS
    <3>5. /\ k \in CallRec /\ k.step = "answering" /\ k.got = call[c].got /\ k.list = list
          /\ k.op = call[c].op /\ k.refs = call[c].refs
      BY <1>0, <3>3, <3>4 DEF CallRec, Step
    <3>6. Fits(k, transport', client')
      BY <1>0, <2>3, <3>3, <3>5 DEF Fits
    <3>7. call' = [call EXCEPT ![c] = k]
      BY <2>3, <3>1, <3>4
    <3> QED
      BY <1>0, <3>6, <3>7, CallMoves
  <2> QED
    BY <2>1, <2>2, <2>3 DEF AckEnds, ReceiveTimesOut, ReceiveFails, ReceiptEnds, At
<1> QED
  BY <1>0, <1>1, <1>2, OnlyCall

LEMMA NextTypes == WInv /\ QInv /\ [Next]_vars => WInv'
<1> SUFFICES ASSUME WInv, QInv, [Next]_vars PROVE WInv'
  OBVIOUS
<1>1. CASE Disconnect
  <2>1. UNCHANGED <<transport, client, opened, receipts, contact, call>> /\ open' = open \ {transport}
        /\ connected' = FALSE
    BY <1>1 DEF Disconnect
  <2>2. DOMAIN call' = Call /\ \A d \in Call : Fits(call'[d], transport', client')
    BY <2>1, CallsStay
  <2> QED
    BY <2>1, <2>2 DEF WInv, Sockets
<1>2. ASSUME NEW s \in open, SocketDrops(s) PROVE WInv'
  <2>1. UNCHANGED <<adapter, opened, receipts, contact, call>> /\ open' = open \ {s}
    BY <1>2 DEF SocketDrops
  <2>2. DOMAIN call' = Call /\ \A d \in Call : Fits(call'[d], transport', client')
    BY <2>1, CallsStay DEF adapter
  <2> QED
    BY <2>1, <2>2 DEF WInv, Sockets, adapter
<1>3. CASE UNCHANGED <<adapter, open, opened, receipts, contact, call>>
  <2>1. DOMAIN call' = Call /\ \A d \in Call : Fits(call'[d], transport', client')
    BY <1>3, CallsStay DEF adapter
  <2> QED
    BY <1>3, <2>1 DEF WInv, Sockets, adapter
<1>4. CASE RegisterBrowserTransport \/ DrainAck \/ UNCHANGED vars
  BY <1>3, <1>4 DEF RegisterBrowserTransport, DrainAck, vars
<1>5. ASSUME NEW r \in Ref, DrainDueRetries(r) \/ PeerReads(r) PROVE WInv'
  BY <1>3, <1>5 DEF DrainDueRetries, PeerReads
<1>6. ASSUME NEW c \in Call, SendReaches(c) \/ ServerAcks(c) PROVE WInv'
  BY <1>3, <1>6 DEF SendReaches, ServerAcks
<1>7. ASSUME NEW t \in Text, PeerSends(t) PROVE WInv'
  BY <1>3, <1>7 DEF PeerSends
<1> QED
  BY <1>1, <1>2, <1>4, <1>5, <1>6, <1>7, HostTypes, ConnectTypes, SendTypes, ArrivalTypes, ReadTypes
  DEF Next

-----------------------------------------------------------------------------
(***************************************************************************)
(* Most steps neither take a message nor let one go: what calls have in    *)
(* hand, and who is a getMessages, stays as it is or ends.                 *)
(***************************************************************************)

HandsKept ==
  \A d \in Call : /\ call'[d].step = "acking" <=> call[d].step = "acking"
                  /\ call[d].step = "acking" => /\ call'[d].msg = call[d].msg
                                                /\ call'[d].fresh = call[d].fresh
                  /\ call'[d].op = "get" => call[d].op = "get"

AcksKept == \A m : <<"ack", m>> \in tasks' => <<"ack", m>> \in tasks

Quiet == HandsKept /\ AcksKept /\ UNCHANGED <<inbox, acked, seen, history, peerRead, overlapped>>

LEMMA MoveKeepsHands ==
  ASSUME WInv, NEW c \in Call, NEW k, call' = [call EXCEPT ![c] = k],
         call[c].step # "acking", k.step # "acking", k.op = "get" => call[c].op = "get"
  PROVE  HandsKept
<1>1. call'[c] = k /\ \A d \in Call : d # c => call'[d] = call[d]
  BY DEF WInv
<1> QED
  BY <1>1 DEF HandsKept

LEMMA EndKeepsHands ==
  ASSUME WInv, NEW c \in Call, End(c), call[c].step # "acking"
  PROVE  HandsKept
<1>1. Idle.step # "acking" /\ Idle.op # "get"
  BY DEF Idle
<1> QED
  BY <1>1, MoveKeepsHands DEF End

LEMMA GoToKeepsHands ==
  ASSUME WInv, NEW c \in Call, NEW step, GoTo(c, step), call[c].step # "acking", step # "acking"
  PROVE  HandsKept
<1>1. PICK k : k = [call[c] EXCEPT !.step = step]
  OBVIOUS
<1>2. call[c] \in CallRec
  BY DEF WInv, Fits
<1>3. k.step = step /\ k.op = call[c].op
  BY <1>1, <1>2 DEF CallRec
<1>4. call' = [call EXCEPT ![c] = k]
  BY <1>1 DEF GoTo
<1> QED
  BY <1>3, <1>4, MoveKeepsHands

LEMMA StayKeepsHands == call' = call => HandsKept
  BY DEF HandsKept

LEMMA ConnectQuiet ==
  ASSUME WInv, NEW c \in Call, \/ Refuses(c) \/ StartConnect(c) \/ Opens(c) \/ XftpConnects(c) \/ Ready(c)
  PROVE  Quiet
<1>1. /\ UNCHANGED <<inbox, acked, seen, history, peerRead, overlapped, tasks>>
      /\ call[c].step # "acking"
  BY DEF Refuses, StartConnect, Opens, XftpConnects, Ready, channel, host, At
<1>2. End(c) \/ \E step : step # "acking" /\ GoTo(c, step)
  <2>1. CASE Refuses(c)
    BY <2>1 DEF Refuses
  <2>2. CASE StartConnect(c)
    BY <2>2 DEF StartConnect
  <2>3. CASE Opens(c)
    BY <2>3 DEF Opens
  <2>4. CASE XftpConnects(c)
    BY <2>4 DEF XftpConnects
  <2>5. CASE Ready(c)
    <3>1. First(call[c].op) # "acking"
      BY FirstIs
    <3> QED
      BY <2>5, <3>1 DEF Ready
  <2> QED
    BY <2>1, <2>2, <2>3, <2>4, <2>5
<1>3. HandsKept
  BY <1>1, <1>2, EndKeepsHands, GoToKeepsHands
<1> QED
  BY <1>1, <1>3 DEF Quiet, AcksKept

LEMMA SendQuiet ==
  ASSUME WInv, NEW c \in Call, RequestEnds(c) \/ AcceptEnds(c) \/ SendEnds(c) \/ DeleteEnds(c)
  PROVE  Quiet
<1>1. /\ UNCHANGED <<inbox, acked, seen, history, peerRead, overlapped>>
      /\ call[c].step # "acking"
  BY DEF RequestEnds, AcceptEnds, SendEnds, DeleteEnds, channel, host, At
<1>2. tasks' \in {tasks, {}} \/ \E r : tasks' = tasks \cup {<<"send", r>>}
  BY DEF RequestEnds, AcceptEnds, SendEnds, DeleteEnds, channel
<1>3. AcksKept
  BY <1>2 DEF AcksKept
<1>4. CASE End(c) \/ \E step : step # "acking" /\ GoTo(c, step)
  BY <1>1, <1>3, <1>4, EndKeepsHands, GoToKeepsHands DEF Quiet
<1>5. CASE call' = [call EXCEPT ![c].refs = Tail(call[c].refs),
                                ![c].step = IF contact = "active" THEN "sending" ELSE "refused"]
  <2>1. PICK k : k = [call[c] EXCEPT !.refs = Tail(call[c].refs),
                                     !.step = IF contact = "active" THEN "sending" ELSE "refused"]
    OBVIOUS
  <2>2. call[c] \in CallRec
    BY DEF WInv, Fits
  <2>3. (IF contact = "active" THEN "sending" ELSE "refused") # "acking"
    OBVIOUS
  <2>4. k.step # "acking" /\ k.op = call[c].op
    BY <2>1, <2>2, <2>3 DEF CallRec
  <2>5. call' = [call EXCEPT ![c] = k]
    BY <1>5, <2>1
  <2> QED
    BY <1>1, <1>3, <2>4, <2>5, MoveKeepsHands DEF Quiet
<1> QED
  BY <1>4, <1>5 DEF RequestEnds, AcceptEnds, SendEnds, DeleteEnds

\* The loop goes on, or the call ends: either way it takes nothing.
LEMMA AgainIs ==
  ASSUME WInv, NEW c \in Call, NEW list, Again(c, list)
  PROVE  \E k : /\ call' = [call EXCEPT ![c] = k]
                /\ k.step # "acking" /\ (k.op = "get" => call[c].op = "get")
<1>1. Idle.step # "acking" /\ Idle.op # "get"
  BY DEF Idle
<1>2. PICK n : n = call[c].got + 1
  OBVIOUS
<1>3. PICK k : k = [call[c] EXCEPT !.step = "reading", !.got = n, !.list = list,
                                   !.msg = NoMessage, !.fresh = FALSE]
  OBVIOUS
<1>4. call[c] \in CallRec
  BY DEF WInv, Fits
<1>5. k.step = "reading" /\ k.op = call[c].op
  BY <1>3, <1>4 DEF CallRec
<1>6. call' = [call EXCEPT ![c] = Idle] \/ call' = [call EXCEPT ![c] = k]
  BY <1>2, <1>3 DEF Again, End
<1> QED
  BY <1>1, <1>5, <1>6

LEMMA ReadQuiet ==
  ASSUME WInv, NEW c \in Call, ReceiveTimesOut(c) \/ ReceiveFails(c) \/ ReceiptEnds(c)
  PROVE  Quiet
<1>1. /\ UNCHANGED <<inbox, acked, seen, history, peerRead, overlapped, tasks>>
      /\ call[c].step # "acking"
  BY DEF ReceiveTimesOut, ReceiveFails, ReceiptEnds, channel, host, At
<1>2. HandsKept
  <2>1. CASE End(c)
    BY <1>1, <2>1, EndKeepsHands
  <2>2. CASE Again(c, call[c].list)
    <3>1. PICK k : /\ call' = [call EXCEPT ![c] = k]
                   /\ k.step # "acking" /\ (k.op = "get" => call[c].op = "get")
      BY <2>2, AgainIs
    <3> QED
      BY <1>1, <3>1, MoveKeepsHands
  <2> QED
    BY <2>1, <2>2 DEF ReceiveTimesOut, ReceiveFails, ReceiptEnds
<1> QED
  BY <1>1, <1>2 DEF Quiet, AcksKept

LEMMA StillQuiet ==
  ASSUME \/ RegisterBrowserTransport \/ Disconnect \/ UNCHANGED vars
         \/ \E c \in Call : SendReaches(c)
         \/ \E r \in Ref : DrainDueRetries(r)
         \/ \E s \in open : SocketDrops(s)
  PROVE  Quiet
<1>1. CASE RegisterBrowserTransport \/ Disconnect \/ UNCHANGED vars
  <2>1. call' = call /\ UNCHANGED <<inbox, acked, seen, history, peerRead, overlapped, tasks>>
    BY <1>1 DEF RegisterBrowserTransport, Disconnect, vars, channel, host
  <2> QED
    BY <2>1, StayKeepsHands DEF Quiet, AcksKept
<1>2. ASSUME NEW c \in Call, SendReaches(c) PROVE Quiet
  <2>1. call' = call /\ UNCHANGED <<inbox, acked, seen, history, peerRead, overlapped, tasks>>
    BY <1>2 DEF SendReaches, host
  <2> QED
    BY <2>1, StayKeepsHands DEF Quiet, AcksKept
<1>3. ASSUME NEW r \in Ref, DrainDueRetries(r) PROVE Quiet
  <2>1. call' = call /\ UNCHANGED <<inbox, acked, seen, history, peerRead, overlapped>>
        /\ tasks' \subseteq tasks
    BY <1>3 DEF DrainDueRetries, host
  <2> QED
    BY <2>1, StayKeepsHands DEF Quiet, AcksKept
<1>4. ASSUME NEW s \in open, SocketDrops(s) PROVE Quiet
  <2>1. call' = call /\ UNCHANGED <<inbox, acked, seen, history, peerRead, overlapped, tasks>>
    BY <1>4 DEF SocketDrops, channel, host
  <2> QED
    BY <2>1, StayKeepsHands DEF Quiet, AcksKept
<1> QED
  BY <1>1, <1>2, <1>3, <1>4

\* The steps that are not quiet.
LEMMA NextIs ==
  ASSUME WInv, [Next]_vars
  PROVE  \/ Quiet
         \/ \E c \in Call : HostBegins(c) \/ MessageArrives(c) \/ ServerAcks(c) \/ AckEnds(c)
         \/ \E r \in Ref : PeerReads(r)
         \/ \E t \in Text : PeerSends(t)
         \/ DrainAck
  BY ConnectQuiet, SendQuiet, ReadQuiet, StillQuiet DEF Next

-----------------------------------------------------------------------------
(* The queue.                                                              *)

LEMMA InitQueue == Init => QInv
<1> SUFFICES ASSUME Init PROVE QInv
  OBVIOUS
<1>1. inbox \in Seq(Note) /\ Len(inbox) = 0 /\ acked = 0 /\ seen = {} /\ tasks = {}
  BY EmptySeq DEF Init
<1>2. \A c \in Call : call[c].step = "idle"
  BY DEF Init, Idle
<1> QED
  BY <1>1, <1>2 DEF QInv

LEMMA QuietQueue == QInv /\ Quiet => QInv'
  BY DEF QInv, Quiet, HandsKept, AcksKept

LEMMA HostBeginsQueue ==
  ASSUME WInv, QInv, NEW c \in Call, HostBegins(c)
  PROVE  QInv'
<1>1. /\ UNCHANGED <<inbox, acked, seen, tasks>>
      /\ \E op, refs : HostCalls(c, op, refs)
  BY DEF HostBegins, HostCalls, channel
<1>2. ASSUME NEW op, NEW refs, HostCalls(c, op, refs)
      PROVE  /\ call'[c].step # "acking" /\ call'[c].op = op
             /\ \A d \in Call : d # c => call'[d] = call[d]
  <2>1. PICK k : k = [Idle EXCEPT !.op = op, !.refs = refs,
                        !.step = IF client = 0 \/ op = "connect" THEN "connect" ELSE First(op)]
    OBVIOUS
  <2>2. k.step # "acking" /\ k.op = op
    BY <2>1, FirstIs DEF Idle
  <2>3. call' = [call EXCEPT ![c] = k]
    BY <1>2, <2>1 DEF HostCalls
  <2> QED
    BY <2>2, <2>3 DEF WInv
<1>3. \A d \in Call : call'[d].step = "acking" => call'[d] = call[d]
  BY <1>1, <1>2
<1> QED
  BY <1>1, <1>3 DEF QInv

\* The queue grows at its end, by a text that is not in it or by a receipt.
LEMMA InboxGrows ==
  ASSUME QInv, NEW n \in Note, inbox' = Append(inbox, n), n[1] = "text" => n \notin ToSet(inbox),
         UNCHANGED <<acked, seen, call, tasks>>
  PROVE  /\ QInv' /\ Len(inbox) \in Nat /\ Len(inbox') = Len(inbox) + 1
         /\ \A i \in 1 .. Len(inbox) : inbox'[i] = inbox[i]
         /\ inbox'[Len(inbox) + 1] = n
<1>1. inbox \in Seq(Note) /\ Len(inbox) \in Nat /\ acked \in Nat /\ acked <= Len(inbox)
  BY LenProperties DEF QInv
<1>2. PICK last \in Nat : last = Len(inbox) + 1
  BY <1>1
<1>3. /\ inbox' \in Seq(Note) /\ Len(inbox') = last
      /\ \A i \in 1 .. Len(inbox) : inbox'[i] = inbox[i]
      /\ inbox'[last] = n
  BY <1>1, <1>2, AppendProperties
<1>4. \A i \in 1 .. last : i \in 1 .. Len(inbox) \/ i = last
  BY <1>1, <1>2
<1>5. n[1] = "text" => \A i \in 1 .. Len(inbox) : inbox[i] # n
  BY <1>1 DEF ToSet
<1>6. \A t \in Text, i, j \in 1 .. last : inbox'[i] = Told(t) /\ inbox'[j] = Told(t) => i = j
  <2> SUFFICES ASSUME NEW t \in Text, NEW i \in 1 .. last, NEW j \in 1 .. last,
                      inbox'[i] = Told(t), inbox'[j] = Told(t)
               PROVE  i = j
    OBVIOUS
  <2>1. Told(t)[1] = "text"
    BY DEF Told
  <2>2. CASE i \in 1 .. Len(inbox) /\ j \in 1 .. Len(inbox)
    BY <1>3, <2>2 DEF QInv
  <2>3. i = last => j = last
    BY <1>3, <1>4, <1>5, <2>1
  <2>4. j = last => i = last
    BY <1>3, <1>4, <1>5, <2>1
  <2> QED
    BY <1>4, <2>2, <2>3, <2>4
<1>7. \A i \in 1 .. Len(inbox) : i \in 1 .. last /\ inbox'[i] = inbox[i]
  BY <1>1, <1>2, <1>3
<1>8. \A t \in Text : Told(t) \in seen => \E i \in 1 .. last : i <= acked + 1 /\ inbox'[i] = Told(t)
  BY <1>7 DEF QInv
<1>9. \A i \in 1 .. acked : inbox'[i] \in seen
  <2>1. \A i \in 1 .. acked : i \in 1 .. Len(inbox)
    BY <1>1
  <2> QED
    BY <1>7, <2>1 DEF QInv
<1>10. \A c \in Call : call[c].step = "acking" =>
         call[c].msg \in seen /\ \E i \in 1 .. last : inbox'[i] = call[c].msg
  BY <1>7 DEF QInv
<1>11. acked <= last
  BY <1>1, <1>2
<1>12. QInv'
  BY <1>1, <1>3, <1>6, <1>8, <1>9, <1>10, <1>11 DEF QInv
<1> QED
  BY <1>1, <1>2, <1>3, <1>12

LEMMA PeerReadsQueue ==
  ASSUME QInv, NEW r \in Ref, PeerReads(r)
  PROVE  /\ QInv' /\ Len(inbox) \in Nat /\ Len(inbox') = Len(inbox) + 1
         /\ \A i \in 1 .. Len(inbox) : inbox'[i] = inbox[i]
         /\ inbox'[Len(inbox) + 1] = <<"receipt", r>>
<1>1. <<"receipt", r>> \in Note /\ <<"receipt", r>>[1] # "text"
  BY DEF Note
<1>2. inbox' = Append(inbox, <<"receipt", r>>) /\ UNCHANGED <<acked, seen, call, tasks>>
  BY DEF PeerReads
<1> QED
  BY <1>1, <1>2, InboxGrows

LEMMA PeerSendsQueue ==
  ASSUME QInv, NEW t \in Text, PeerSends(t)
  PROVE  /\ QInv' /\ Len(inbox) \in Nat /\ Len(inbox') = Len(inbox) + 1
         /\ \A i \in 1 .. Len(inbox) : inbox'[i] = inbox[i]
         /\ inbox'[Len(inbox) + 1] = Told(t)
<1>1. Told(t) \in Note
  BY DEF Note, Told
<1>2. inbox' = Append(inbox, Told(t)) /\ UNCHANGED <<acked, seen, call, tasks>> /\ Told(t) \notin ToSet(inbox)
  BY DEF PeerSends, Told
<1> QED
  BY <1>1, <1>2, InboxGrows

\* The queue goes on when a message that is on record is acknowledged.
LEMMA AckedGrows ==
  ASSUME QInv, acked < Len(inbox), acked' = acked + 1, inbox[acked + 1] \in seen,
         UNCHANGED <<inbox, seen, call>>, AcksKept
  PROVE  QInv'
<1>1. inbox \in Seq(Note) /\ Len(inbox) \in Nat /\ acked \in Nat
  BY LenProperties DEF QInv
<1>2. acked' \in Nat /\ acked' <= Len(inbox) /\ \A i \in Nat : i <= acked + 1 => i <= acked' + 1
  BY <1>1
<1>3. \A i \in 1 .. acked' : i \in 1 .. acked \/ i = acked + 1
  BY <1>1
<1>4. \A i \in 1 .. acked' : inbox[i] \in seen
  BY <1>3 DEF QInv
<1>5. \A t \in Text : Told(t) \in seen => \E i \in 1 .. Len(inbox) : i <= acked' + 1 /\ inbox[i] = Told(t)
  BY <1>2 DEF QInv
<1> QED
  BY <1>1, <1>2, <1>4, <1>5 DEF QInv, AcksKept

LEMMA ServerAcksQueue ==
  ASSUME QInv, NEW c \in Call, ServerAcks(c)
  PROVE  QInv'
<1>1. /\ acked < Len(inbox) /\ acked' = acked + 1 /\ call[c].msg = inbox[acked + 1]
      /\ call[c].step = "acking" /\ UNCHANGED <<inbox, seen, call, tasks>>
  BY DEF ServerAcks, At
<1>2. inbox[acked + 1] \in seen
  BY <1>1 DEF QInv
<1> QED
  BY <1>1, <1>2, AckedGrows DEF AcksKept

LEMMA DrainAckQueue ==
  ASSUME QInv, DrainAck
  PROVE  QInv'
<1>1. /\ acked < Len(inbox) /\ acked' = acked + 1 /\ <<"ack", inbox[acked + 1]>> \in tasks
      /\ UNCHANGED <<inbox, seen, call>> /\ tasks' \subseteq tasks
  BY DEF DrainAck
<1>2. inbox[acked + 1] \in seen
  BY <1>1 DEF QInv
<1> QED
  BY <1>1, <1>2, AckedGrows DEF AcksKept

\* The message that a call takes: the head of the queue if it was not seen.
LEMMA ArrivalIs ==
  ASSUME WInv, QInv, NEW c \in Call, MessageArrives(c)
  PROVE  \E i \in 1 .. Len(inbox) :
           /\ i <= acked + 1 /\ inbox[i] \in Note /\ seen' = seen \cup {inbox[i]}
           /\ call[c].step = "reading" /\ call[c].op = "get"
           /\ call'[c].step = "acking" /\ call'[c].msg = inbox[i] /\ call'[c].op = "get"
           /\ call'[c].fresh <=> inbox[i] \notin seen
           /\ \A d \in Call : d # c => call'[d] = call[d]
           /\ UNCHANGED <<inbox, acked, history, peerRead, overlapped, tasks>>
<1>1. PICK i \in 1 .. Len(inbox) :
        /\ i <= acked + 1 /\ seen' = seen \cup {inbox[i]}
        /\ call' = [call EXCEPT ![c].step = "acking", ![c].msg = inbox[i], ![c].fresh = IsNew(inbox[i])]
  BY DEF MessageArrives
<1>2. inbox[i] \in Note
  <2>1. inbox \in Seq(Note)
    BY DEF QInv
  <2> QED
    BY <2>1, ElementOfSeq
<1>3. call[c] \in CallRec /\ call[c].step = "reading" /\ call[c].op = "get"
  BY DEF WInv, Fits, MessageArrives, At
<1>4. PICK k : k = [call[c] EXCEPT !.step = "acking", !.msg = inbox[i], !.fresh = IsNew(inbox[i])]
  OBVIOUS
<1>5. call' = [call EXCEPT ![c] = k]
  BY <1>1, <1>4
<1>6. call'[c] = k /\ \A d \in Call : d # c => call'[d] = call[d]
  BY <1>5 DEF WInv
<1>7. k.step = "acking" /\ k.msg = inbox[i] /\ k.op = "get" /\ k.fresh = (inbox[i] \notin seen)
  BY <1>3, <1>4 DEF CallRec, IsNew
<1>8. UNCHANGED <<inbox, acked, history, peerRead, overlapped, tasks>>
  BY DEF MessageArrives, host
<1> QED
  BY <1>1, <1>2, <1>3, <1>6, <1>7, <1>8

LEMMA MessageArrivesQueue ==
  ASSUME WInv, QInv, NEW c \in Call, MessageArrives(c)
  PROVE  QInv'
<1>1. PICK i \in 1 .. Len(inbox) :
        /\ i <= acked + 1 /\ inbox[i] \in Note /\ seen' = seen \cup {inbox[i]}
        /\ call'[c].msg = inbox[i]
        /\ \A d \in Call : d # c => call'[d] = call[d]
        /\ UNCHANGED <<inbox, acked, tasks>>
  BY ArrivalIs
<1>2. \A t \in Text : Told(t) \in seen' => \E j \in 1 .. Len(inbox) : j <= acked + 1 /\ inbox[j] = Told(t)
  BY <1>1 DEF QInv
<1>3. \A d \in Call : call'[d].step = "acking" =>
        call'[d].msg \in seen' /\ \E j \in 1 .. Len(inbox) : inbox[j] = call'[d].msg
  BY <1>1 DEF QInv
<1>4. (\A j \in 1 .. acked : inbox[j] \in seen') /\ \A m : <<"ack", m>> \in tasks => m \in seen'
  BY <1>1 DEF QInv
<1> QED
  BY <1>1, <1>2, <1>3, <1>4 DEF QInv

\* A call whose ACK ends, one way or the other.
LEMMA AckEndsIs ==
  ASSUME WInv, QInv, NEW c \in Call, AckEnds(c)
  PROVE  /\ call[c].step = "acking" /\ call[c].op = "get" /\ call[c].msg \in Note
         /\ call'[c].step # "acking" /\ (call'[c].op = "get" => call[c].op = "get")
         /\ \A d \in Call : d # c => call'[d] = call[d]
         /\ UNCHANGED <<inbox, acked, seen, peerRead, outbox, overlapped>>
         /\ tasks' \in {tasks, tasks \cup {<<"ack", call[c].msg>>}}
<1>1. call[c] \in CallRec /\ call[c].step = "acking" /\ call[c].op = "get" /\ call[c].msg \in Note
  BY DEF WInv, Fits, AckEnds, At
<1>2. /\ UNCHANGED <<inbox, acked, seen, peerRead, outbox, overlapped>>
      /\ tasks' \in {tasks, tasks \cup {<<"ack", call[c].msg>>}}
  BY DEF AckEnds, host
<1>3. \E k : call' = [call EXCEPT ![c] = k] /\ k.step # "acking" /\ (k.op = "get" => call[c].op = "get")
  <2>1. CASE Again(c, call[c].list)
    BY <2>1, AgainIs
  <2>2. CASE call' = [call EXCEPT ![c] = [@ EXCEPT !.step = "answering",
               !.list = Append(call[c].list, call[c].msg[2]), !.msg = NoMessage, !.fresh = FALSE]]
    <3>1. PICK k : k = [call[c] EXCEPT !.step = "answering",
               !.list = Append(call[c].list, call[c].msg[2]), !.msg = NoMessage, !.fresh = FALSE]
      OBVIOUS
    <3>2. k.step = "answering" /\ k.op = call[c].op
      BY <1>1, <3>1 DEF CallRec
    <3> QED
      BY <2>2, <3>1, <3>2
  <2> QED
    BY <2>1, <2>2 DEF AckEnds
<1>4. PICK k : call' = [call EXCEPT ![c] = k] /\ k.step # "acking" /\ (k.op = "get" => call[c].op = "get")
  BY <1>3
<1>5. call'[c] = k /\ \A d \in Call : d # c => call'[d] = call[d]
  BY <1>4 DEF WInv
<1> QED
  BY <1>1, <1>2, <1>4, <1>5

LEMMA AckEndsQueue ==
  ASSUME WInv, QInv, NEW c \in Call, AckEnds(c)
  PROVE  QInv'
<1>1. /\ call[c].step = "acking" /\ call'[c].step # "acking"
      /\ \A d \in Call : d # c => call'[d] = call[d]
      /\ UNCHANGED <<inbox, acked, seen>>
      /\ tasks' \in {tasks, tasks \cup {<<"ack", call[c].msg>>}}
  BY AckEndsIs
<1>2. \A m : <<"ack", m>> \in tasks' => m \in seen
  BY <1>1 DEF QInv
<1>3. \A d \in Call : call'[d].step = "acking" => call'[d] = call[d]
  BY <1>1
<1> QED
  BY <1>1, <1>2, <1>3 DEF QInv

LEMMA NextQueue == WInv /\ QInv /\ [Next]_vars => QInv'
  BY NextIs, QuietQueue, HostBeginsQueue, MessageArrivesQueue, ServerAcksQueue, AckEndsQueue,
     PeerReadsQueue, PeerSendsQueue, DrainAckQueue

\* The adapter keeps to its values, and one that says it is connected has the
\* contact client, for any number of calls that connect at once.
THEOREM TypeCorrect == Spec => []TypeOK
<1>1. WInv => TypeOK
  <2> SUFFICES ASSUME WInv PROVE TypeOK
    OBVIOUS
  <2>1. ASSUME NEW c \in Call PROVE call[c].got < Limit /\ Len(call[c].list) <= Limit
    <3>1. /\ call[c].got \in Nat /\ call[c].got < Limit /\ Len(call[c].list) \in Nat /\ Limit \in Nat
          /\ Len(call[c].list) <= IF call[c].step = "answering" THEN call[c].got + 1 ELSE call[c].got
      <4>1. call[c].list \in Seq(Text)
        BY DEF WInv, Fits, CallRec
      <4> QED
        BY <4>1, LenProperties, AdapterAssumption DEF WInv, Fits, CallRec
    <3> QED
      BY <3>1
  <2> QED
    BY <2>1 DEF TypeOK, WInv, Sockets
<1> QED
  BY <1>1, InitQueue, NextQueue, InitTypes, NextTypes, PTL DEF Spec

-----------------------------------------------------------------------------
(* The receipts.                                                           *)

Honest(m) == m[1] = "receipt" => m[2] \in peerRead

AInv ==
  /\ DOMAIN receipts = Ref
  /\ \A i \in 1 .. Len(inbox) : Honest(inbox[i])
  /\ ReceiptsTruthful

LEMMA InitInv == Init => AInv
<1> SUFFICES ASSUME Init PROVE AInv
  OBVIOUS
<1>1. Len(inbox) = 0
  BY EmptySeq DEF Init
<1> QED
  BY <1>1 DEF Init, AInv, ReceiptsTruthful

\* A status that is written for a ref is all that changes.
LEMMA StatusKeeps ==
  ASSUME DOMAIN receipts = Ref, NEW r, NEW s
  PROVE  /\ DOMAIN Status(r, s) = Ref
         /\ \A q \in Ref : Status(r, s)[q] = IF q = r THEN s ELSE receipts[q]
  BY DEF Status

\* The queue of the peer grows, nothing else.
LEMMA OutboxGrows ==
  ASSUME AInv, outbox \subseteq outbox', UNCHANGED <<receipts, inbox, peerRead>>
  PROVE  AInv'
  BY DEF AInv, ReceiptsTruthful, Honest

LEMMA SendEndsKeeps ==
  ASSUME AInv, NEW c \in Call, SendEnds(c)
  PROVE  AInv'
<1> DEFINE r == Head(call[c].refs)
<1> HIDE DEF r
<1>0. inbox' = inbox /\ peerRead' = peerRead
  BY DEF SendEnds
<1>1. CASE outbox' = outbox \cup {r} /\ receipts' = Status(r, "sent")
  <2>1. DOMAIN receipts' = Ref /\ \A q \in Ref : receipts'[q] = IF q = r THEN "sent" ELSE receipts[q]
    BY <1>1, StatusKeeps DEF AInv
  <2> QED
    BY <1>0, <1>1, <2>1 DEF AInv, ReceiptsTruthful, Honest
<1>2. CASE outbox' \in {outbox, outbox \cup {r}} /\ receipts' = receipts
  BY <1>0, <1>2, OutboxGrows
<1> QED
  BY <1>1, <1>2 DEF SendEnds, r

LEMMA AcceptEndsKeeps ==
  ASSUME AInv, NEW c \in Call, AcceptEnds(c)
  PROVE  AInv'
<1> DEFINE r == Head(call[c].refs)
<1> HIDE DEF r
<1>0. inbox' = inbox /\ peerRead' = peerRead /\ outbox' = outbox
  BY DEF AcceptEnds, channel
<1>1. CASE receipts' = receipts
  BY <1>0, <1>1, OutboxGrows
<1>2. CASE receipts' = Status(r, "contact-requested")
  <2>1. DOMAIN receipts' = Ref
        /\ \A q \in Ref : receipts'[q] = IF q = r THEN "contact-requested" ELSE receipts[q]
    BY <1>2, StatusKeeps DEF AInv
  <2> QED
    BY <1>0, <2>1 DEF AInv, ReceiptsTruthful, Honest
<1> QED
  BY <1>1, <1>2 DEF AcceptEnds, r

\* The receipt that is taken is one of the queue.
LEMMA AckEndsKeeps ==
  ASSUME WInv, QInv, AInv, NEW c \in Call, AckEnds(c)
  PROVE  AInv'
<1>1. PICK m : m = call[c].msg
  OBVIOUS
<1>2. /\ call[c].step = "acking" /\ UNCHANGED <<inbox, peerRead, outbox>>
      /\ receipts' = receipts \/ (m[1] = "receipt" /\ receipts' = Status(m[2], "read"))
  BY <1>1 DEF AckEnds, At
<1>3. Honest(m)
  BY <1>1, <1>2 DEF QInv, AInv
<1>4. CASE receipts' = receipts
  BY <1>2, <1>4, OutboxGrows
<1>5. CASE m[1] = "receipt" /\ receipts' = Status(m[2], "read")
  <2>1. DOMAIN receipts' = Ref
        /\ \A q \in Ref : receipts'[q] = IF q = m[2] THEN "read" ELSE receipts[q]
    BY <1>5, StatusKeeps DEF AInv
  <2>2. m[2] \in peerRead
    BY <1>3, <1>5 DEF Honest
  <2> QED
    BY <1>2, <2>1, <2>2 DEF AInv, ReceiptsTruthful, Honest
<1> QED
  BY <1>2, <1>4, <1>5

\* What the peer adds to our queue is true when it is added.
LEMMA NoteKeeps ==
  ASSUME AInv, NEW n, Len(inbox) \in Nat, Len(inbox') = Len(inbox) + 1,
         \A i \in 1 .. Len(inbox) : inbox'[i] = inbox[i], inbox'[Len(inbox) + 1] = n,
         peerRead \subseteq peerRead', n[1] = "receipt" => n[2] \in peerRead',
         receipts' = receipts, outbox' = outbox
  PROVE  AInv'
<1>1. \A i \in 1 .. Len(inbox') : inbox'[i][1] = "receipt" => inbox'[i][2] \in peerRead'
  <2> SUFFICES ASSUME NEW i \in 1 .. Len(inbox'), inbox'[i][1] = "receipt"
               PROVE  inbox'[i][2] \in peerRead'
    OBVIOUS
  <2>1. CASE i \in 1 .. Len(inbox)
    BY <2>1 DEF AInv, Honest
  <2>2. CASE i = Len(inbox) + 1
    BY <2>2
  <2> QED
    BY <2>1, <2>2
<1> QED
  BY <1>1 DEF AInv, Honest, ReceiptsTruthful

LEMMA NextInv == WInv /\ QInv /\ AInv /\ [Next]_vars => AInv'
<1> SUFFICES ASSUME WInv, QInv, AInv, [Next]_vars PROVE AInv'
  OBVIOUS
<1>1. CASE UNCHANGED <<receipts, outbox, inbox, peerRead>>
  BY <1>1, OutboxGrows
<1>2. CASE RegisterBrowserTransport \/ Disconnect \/ DrainAck \/ UNCHANGED vars
  BY <1>1, <1>2 DEF RegisterBrowserTransport, Disconnect, DrainAck, vars, channel
<1>3. ASSUME NEW c \in Call, HostBegins(c) \/ Refuses(c) \/ StartConnect(c) \/ Opens(c)
      PROVE  AInv'
  BY <1>1, <1>3 DEF HostBegins, HostCalls, Refuses, StartConnect, Opens, channel
<1>4. ASSUME NEW c \in Call, \/ XftpConnects(c) \/ Ready(c) \/ RequestEnds(c) \/ ReceiveTimesOut(c)
                             \/ ReceiveFails(c) \/ ReceiptEnds(c) \/ DeleteEnds(c)
      PROVE  AInv'
  BY <1>1, <1>4 DEF XftpConnects, Ready, RequestEnds, ReceiveTimesOut, ReceiveFails, ReceiptEnds,
                    DeleteEnds, channel
<1>5. ASSUME NEW s \in open, SocketDrops(s) PROVE AInv'
  BY <1>1, <1>5 DEF SocketDrops, channel
<1>6. ASSUME NEW c \in Call, SendReaches(c) \/ MessageArrives(c) \/ ServerAcks(c) PROVE AInv'
  <2>1. outbox \subseteq outbox' /\ UNCHANGED <<receipts, inbox, peerRead>>
    BY <1>6 DEF SendReaches, MessageArrives, ServerAcks
  <2> QED
    BY <2>1, OutboxGrows
<1>7. ASSUME NEW r \in Ref, DrainDueRetries(r) PROVE AInv'
  <2>1. outbox \subseteq outbox' /\ UNCHANGED <<receipts, inbox, peerRead>>
    BY <1>7 DEF DrainDueRetries
  <2> QED
    BY <2>1, OutboxGrows
<1>8. ASSUME NEW r \in Ref, PeerReads(r) PROVE AInv'
  <2>1. peerRead' = peerRead \cup {r} /\ receipts' = receipts /\ outbox' = outbox
    BY <1>8 DEF PeerReads
  <2>2. PICK n : n = <<"receipt", r>>
    OBVIOUS
  <2>3. /\ Len(inbox) \in Nat /\ Len(inbox') = Len(inbox) + 1
        /\ \A i \in 1 .. Len(inbox) : inbox'[i] = inbox[i]
        /\ inbox'[Len(inbox) + 1] = n
    BY <1>8, <2>2, PeerReadsQueue
  <2>4. n[1] = "receipt" => n[2] \in peerRead'
    BY <2>1, <2>2
  <2> QED
    BY <2>1, <2>3, <2>4, NoteKeeps
<1>9. ASSUME NEW t \in Text, PeerSends(t) PROVE AInv'
  <2>1. UNCHANGED <<peerRead, receipts, outbox>>
    BY <1>9 DEF PeerSends
  <2>2. PICK n : n = Told(t)
    OBVIOUS
  <2>3. /\ Len(inbox) \in Nat /\ Len(inbox') = Len(inbox) + 1
        /\ \A i \in 1 .. Len(inbox) : inbox'[i] = inbox[i]
        /\ inbox'[Len(inbox) + 1] = n
    BY <1>9, <2>2, PeerSendsQueue
  <2>4. n[1] # "receipt"
    BY <2>2 DEF Told
  <2> QED
    BY <2>1, <2>3, <2>4, NoteKeeps
<1> QED
  BY <1>2, <1>3, <1>4, <1>5, <1>6, <1>7, <1>8, <1>9, SendEndsKeeps, AcceptEndsKeeps, AckEndsKeeps
  DEF Next

\* A message said to be sent is in the peer's queue, and one said to be read
\* was read, whatever calls overlap, whatever fails and is delivered again.
THEOREM Truthful == Spec => []ReceiptsTruthful
<1>1. AInv => ReceiptsTruthful
  BY DEF AInv
<1> QED
  BY <1>1, InitInv, NextInv, InitQueue, NextQueue, InitTypes, NextTypes, PTL DEF Spec

-----------------------------------------------------------------------------
(***************************************************************************)
(* The history.  A text is seen, then in the hand of one call, then shown. *)
(* With one getMessages at a time there is one hand, and what it holds     *)
(* came after all that is shown.                                           *)
(***************************************************************************)

\* Of the texts in hand it is enough to say that they are not shown yet.
HInv ==
  /\ history \in Seq(Text)
  /\ \A i \in 1 .. Len(history) : Told(history[i]) \in seen
  /\ \A i, j \in 1 .. Len(history) : history[i] = history[j] => i = j
  /\ \A t \in Text : Told(t) \in seen => Shown(t) \/ \E c \in Call : InHand(c, t)
  /\ \A c \in Call, t \in Text : InHand(c, t) => ~Shown(t) /\ Told(t) \in seen
  /\ \A c, d \in Call, t \in Text : InHand(c, t) /\ InHand(d, t) => c = d

OInv ==
  ~overlapped =>
    /\ \A c, d \in Call : call[c].op = "get" /\ call[d].op = "get" => c = d
    /\ HistoryInOrder
    /\ \A c \in Call, t \in Text : InHand(c, t) => \A i \in 1 .. Len(history) : Before(history[i], t)

LEMMA InitHistory == Init => HInv /\ OInv
<1> SUFFICES ASSUME Init PROVE HInv /\ OInv
  OBVIOUS
<1>1. history \in Seq(Text) /\ Len(history) = 0 /\ seen = {}
  BY EmptySeq DEF Init
<1>2. \A c \in Call : call[c].step = "idle" /\ call[c].op = "none"
  BY DEF Init, Idle
<1>3. \A c \in Call, t \in Text : ~InHand(c, t)
  BY <1>2 DEF InHand, At
<1> QED
  BY <1>1, <1>2, <1>3 DEF HInv, OInv, HistoryInOrder

\* The hands stay as they are, and the queue at most grows.
LEMMA HandsStay ==
  ASSUME HInv, OInv, UNCHANGED <<history, seen>>,
         \A d \in Call, t \in Text : InHand(d, t)' <=> InHand(d, t),
         \A t, u : Before(t, u) => Before(t, u)',
         ~overlapped' => /\ ~overlapped
                         /\ \A c, d \in Call : call'[c].op = "get" /\ call'[d].op = "get" => c = d
  PROVE  HInv' /\ OInv'
<1>1. \A t \in Text : Shown(t)' <=> Shown(t)
  BY DEF Shown
<1>2. HInv'
  BY <1>1 DEF HInv
<1>3. OInv'
  BY DEF OInv, HistoryInOrder
<1> QED
  BY <1>2, <1>3

LEMMA BeforeGrows ==
  ASSUME Len(inbox) \in Nat, Len(inbox') \in Nat, Len(inbox) <= Len(inbox'),
         \A i \in 1 .. Len(inbox) : inbox'[i] = inbox[i]
  PROVE  \A t, u : Before(t, u) => Before(t, u)'
<1>1. \A i \in 1 .. Len(inbox) : i \in 1 .. Len(inbox')
  OBVIOUS
<1> QED
  BY <1>1 DEF Before

LEMMA QuietHistory == HInv /\ OInv /\ Quiet => HInv' /\ OInv'
<1> SUFFICES ASSUME HInv, OInv, Quiet PROVE HInv' /\ OInv'
  OBVIOUS
<1>1. UNCHANGED <<history, seen, inbox, overlapped>> /\ HandsKept
  BY DEF Quiet
<1>2. \A d \in Call, t \in Text : InHand(d, t)' <=> InHand(d, t)
  BY <1>1 DEF HandsKept, InHand, At
<1>3. \A t, u : Before(t, u) => Before(t, u)'
  BY <1>1 DEF Before
<1>4. ~overlapped' => /\ ~overlapped
                      /\ \A c, d \in Call : call'[c].op = "get" /\ call'[d].op = "get" => c = d
  BY <1>1 DEF HandsKept, OInv
<1> QED
  BY <1>1, <1>2, <1>3, <1>4, HandsStay

LEMMA PeerHistory ==
  ASSUME QInv, HInv, OInv, (\E r \in Ref : PeerReads(r)) \/ (\E t \in Text : PeerSends(t))
  PROVE  HInv' /\ OInv'
<1>1. UNCHANGED <<history, seen, call, overlapped>>
  BY DEF PeerReads, PeerSends, host
<1>2. /\ Len(inbox) \in Nat /\ Len(inbox') = Len(inbox) + 1
      /\ \A i \in 1 .. Len(inbox) : inbox'[i] = inbox[i]
  BY PeerReadsQueue, PeerSendsQueue
<1>3. Len(inbox') \in Nat /\ Len(inbox) <= Len(inbox')
  BY <1>2
<1>4. \A t, u : Before(t, u) => Before(t, u)'
  BY <1>2, <1>3, BeforeGrows
<1>5. \A d \in Call, t \in Text : InHand(d, t)' <=> InHand(d, t)
  BY <1>1 DEF InHand, At
<1> QED
  BY <1>1, <1>4, <1>5, HandsStay DEF OInv

LEMMA AckedHistory ==
  ASSUME HInv, OInv, DrainAck \/ \E c \in Call : ServerAcks(c)
  PROVE  HInv' /\ OInv'
<1>1. UNCHANGED <<history, seen, call, overlapped, inbox>>
  BY DEF DrainAck, ServerAcks, host
<1>2. \A d \in Call, t \in Text : InHand(d, t)' <=> InHand(d, t)
  BY <1>1 DEF InHand, At
<1>3. \A t, u : Before(t, u) => Before(t, u)'
  BY <1>1 DEF Before
<1> QED
  BY <1>1, <1>2, <1>3, HandsStay DEF OInv

\* A second getMessages is noticed.
LEMMA HostBeginsHistory ==
  ASSUME WInv, HInv, OInv, NEW c \in Call, HostBegins(c)
  PROVE  HInv' /\ OInv'
<1>1. PICK op, refs : HostCalls(c, op, refs)
  BY DEF HostBegins
<1>2. PICK k : k = [Idle EXCEPT !.op = op, !.refs = refs,
                      !.step = IF client = 0 \/ op = "connect" THEN "connect" ELSE First(op)]
  OBVIOUS
<1>3. k.step # "acking" /\ k.op = op
  BY <1>2, FirstIs DEF Idle
<1>4. /\ call' = [call EXCEPT ![c] = k] /\ call[c].step = "idle"
      /\ overlapped' = (overlapped \/ (op = "get" /\ \E d \in Call : call[d].op = "get"))
      /\ UNCHANGED <<history, seen, inbox>>
  BY <1>1, <1>2 DEF HostCalls, channel, At
<1>5. call'[c] = k /\ \A d \in Call : d # c => call'[d] = call[d]
  BY <1>4 DEF WInv
<1>6. \A d \in Call, t \in Text : InHand(d, t)' <=> InHand(d, t)
  BY <1>3, <1>4, <1>5 DEF InHand, At
<1>7. \A t, u : Before(t, u) => Before(t, u)'
  BY <1>4 DEF Before
<1>8. ~overlapped' => /\ ~overlapped
                      /\ \A a, b \in Call : call'[a].op = "get" /\ call'[b].op = "get" => a = b
  <2> SUFFICES ASSUME ~overlapped', NEW a \in Call, NEW b \in Call, call'[a].op = "get", call'[b].op = "get"
               PROVE  a = b
    BY <1>4
  <2>1. ~overlapped /\ (op = "get" => \A d \in Call : call[d].op # "get")
    BY <1>4
  <2> QED
    BY <1>3, <1>5, <2>1 DEF OInv
<1> QED
  BY <1>4, <1>6, <1>7, <1>8, HandsStay

LEMMA MessageArrivesHistory ==
  ASSUME WInv, QInv, HInv, OInv, NEW c \in Call, MessageArrives(c)
  PROVE  HInv' /\ OInv'
<1>1. PICK i \in 1 .. Len(inbox) :
        /\ i <= acked + 1 /\ inbox[i] \in Note /\ seen' = seen \cup {inbox[i]}
        /\ call[c].step = "reading" /\ call[c].op = "get"
        /\ call'[c].step = "acking" /\ call'[c].msg = inbox[i] /\ call'[c].op = "get"
        /\ call'[c].fresh <=> inbox[i] \notin seen
        /\ \A d \in Call : d # c => call'[d] = call[d]
        /\ UNCHANGED <<inbox, acked, history, peerRead, overlapped, tasks>>
  BY ArrivalIs
<1>2. \A t \in Text : ~InHand(c, t) /\ (InHand(c, t)' <=> inbox[i] \notin seen /\ inbox[i] = Told(t))
  BY <1>1 DEF InHand, At, Told
<1>3. \A d \in Call, t \in Text : d # c => (InHand(d, t)' <=> InHand(d, t))
  BY <1>1 DEF InHand, At
<1>4. \A t \in Text : Shown(t)' <=> Shown(t)
  BY <1>1 DEF Shown
<1>5. \A t \in Text : Shown(t) => Told(t) \in seen
  BY DEF Shown, HInv
<1>6. HInv'
  <2>1. \A t \in Text : Told(t) \in seen' => Shown(t) \/ \E d \in Call : InHand(d, t)'
    <3> SUFFICES ASSUME NEW t \in Text, Told(t) \in seen', ~Shown(t)
                 PROVE  \E d \in Call : InHand(d, t)'
      OBVIOUS
    <3>1. CASE Told(t) \in seen
      BY <1>2, <1>3, <3>1 DEF HInv
    <3>2. CASE Told(t) \notin seen
      BY <1>1, <1>2, <3>2
    <3> QED
      BY <3>1, <3>2
  <2>2. \A d \in Call, t \in Text : InHand(d, t)' => ~Shown(t) /\ Told(t) \in seen'
    <3> SUFFICES ASSUME NEW d \in Call, NEW t \in Text, InHand(d, t)'
                 PROVE  ~Shown(t) /\ Told(t) \in seen'
      OBVIOUS
    <3>1. CASE d = c
      BY <1>1, <1>2, <1>5, <3>1
    <3>2. CASE d # c
      BY <1>1, <1>3, <3>2 DEF HInv
    <3> QED
      BY <3>1, <3>2
  <2>3. \A d, e \in Call, t \in Text : InHand(d, t)' /\ InHand(e, t)' => d = e
    <3>1. \A d \in Call, t \in Text : d # c /\ InHand(d, t)' => ~InHand(c, t)'
      BY <1>2, <1>3 DEF HInv
    <3>2. \A d, e \in Call, t \in Text : d # c /\ e # c /\ InHand(d, t)' /\ InHand(e, t)' => d = e
      BY <1>3 DEF HInv
    <3> QED
      BY <3>1, <3>2
  <2>4. \A j \in 1 .. Len(history) : Told(history[j]) \in seen'
    BY <1>1 DEF HInv
  <2> QED
    BY <1>1, <1>4, <2>1, <2>2, <2>3, <2>4 DEF HInv
<1>7. OInv'
  <2> SUFFICES ASSUME ~overlapped PROVE OInv'
    BY <1>1 DEF OInv
  <2>1. /\ \A a, b \in Call : call[a].op = "get" /\ call[b].op = "get" => a = b
        /\ HistoryInOrder
        /\ \A d \in Call, t \in Text : InHand(d, t) => \A j \in 1 .. Len(history) : Before(history[j], t)
    BY DEF OInv
  <2>2. \A a, b \in Call : call'[a].op = "get" /\ call'[b].op = "get" => a = b
    BY <1>1, <2>1
  <2>3. \A t, u : Before(t, u)' <=> Before(t, u)
    BY <1>1 DEF Before
  <2>4. HistoryInOrder'
    BY <1>1, <2>1, <2>3 DEF HistoryInOrder
  <2>5. ASSUME NEW t \in Text, inbox[i] \notin seen, inbox[i] = Told(t), NEW j \in 1 .. Len(history)
        PROVE  Before(history[j], t)
    <3>1. /\ history[j] \in Text /\ Told(history[j]) \in seen
      <4>1. history \in Seq(Text)
        BY DEF HInv
      <4> QED
        BY <4>1, ElementOfSeq DEF HInv
    <3>2. PICK n \in 1 .. Len(inbox) : n <= acked + 1 /\ inbox[n] = Told(history[j])
      BY <3>1 DEF QInv
    <3>3. Len(inbox) \in Nat /\ acked \in Nat
      <4>1. inbox \in Seq(Note)
        BY DEF QInv
      <4> QED
        BY <4>1, LenProperties DEF QInv
    <3>4. i \notin 1 .. acked
      BY <2>5 DEF QInv
    <3>5. n # i
      BY <2>5, <3>1, <3>2
    <3>6. n < i
      BY <1>1, <3>2, <3>3, <3>4, <3>5
    <3> QED
      BY <2>5, <3>2, <3>6 DEF Before, Told
  <2>6. \A d \in Call, t \in Text : InHand(d, t)' => \A j \in 1 .. Len(history) : Before(history[j], t)
    <3> SUFFICES ASSUME NEW d \in Call, NEW t \in Text, InHand(d, t)', NEW j \in 1 .. Len(history)
                 PROVE  Before(history[j], t)
      OBVIOUS
    <3>1. CASE d = c
      BY <1>2, <2>5, <3>1
    <3>2. CASE d # c
      BY <1>3, <2>1, <3>2
    <3> QED
      BY <3>1, <3>2
  <2> QED
    BY <1>1, <2>2, <2>3, <2>4, <2>6 DEF OInv
<1> QED
  BY <1>6, <1>7

\* A call that has no new text in hand lets go of what it has.
LEMMA NothingShown ==
  ASSUME WInv, QInv, HInv, OInv, NEW c \in Call, AckEnds(c), history' = history,
         ~call[c].fresh \/ call[c].msg[1] # "text"
  PROVE  HInv' /\ OInv'
<1>1. /\ call[c].step = "acking" /\ call[c].op = "get"
      /\ call'[c].step # "acking" /\ (call'[c].op = "get" => call[c].op = "get")
      /\ \A d \in Call : d # c => call'[d] = call[d]
      /\ UNCHANGED <<inbox, seen, overlapped>>
  BY AckEndsIs
<1>2. \A t \in Text : ~InHand(c, t) /\ ~InHand(c, t)'
  BY <1>1 DEF InHand, At
<1>3. \A d \in Call, t \in Text : InHand(d, t)' <=> InHand(d, t)
  <2>1. \A d \in Call, t \in Text : d # c => (InHand(d, t)' <=> InHand(d, t))
    BY <1>1 DEF InHand, At
  <2> QED
    BY <1>2, <2>1
<1>4. \A t, u : Before(t, u) => Before(t, u)'
  BY <1>1 DEF Before
<1>5. \A d \in Call : call'[d].op = "get" => call[d].op = "get"
  BY <1>1
<1>6. ~overlapped' => /\ ~overlapped
                      /\ \A a, b \in Call : call'[a].op = "get" /\ call'[b].op = "get" => a = b
  BY <1>1, <1>5 DEF OInv
<1> QED
  BY <1>1, <1>3, <1>4, <1>6, HandsStay

\* A new text goes from the hand of its call to the end of the history.
LEMMA TextShown ==
  ASSUME WInv, QInv, HInv, OInv, NEW c \in Call, AckEnds(c), NEW t \in Text, InHand(c, t),
         history' = Append(history, t)
  PROVE  HInv' /\ OInv'
<1>1. /\ call[c].step = "acking" /\ call[c].op = "get" /\ call[c].msg = Told(t)
      /\ call'[c].step # "acking" /\ (call'[c].op = "get" => call[c].op = "get")
      /\ \A d \in Call : d # c => call'[d] = call[d]
      /\ UNCHANGED <<inbox, seen, overlapped>>
  BY AckEndsIs DEF InHand, Told
<1>2. history \in Seq(Text) /\ Len(history) \in Nat
  BY LenProperties DEF HInv
<1>3. PICK last \in Nat : last = Len(history) + 1
  BY <1>2
<1>4. /\ history' \in Seq(Text) /\ Len(history') = last
      /\ \A i \in 1 .. Len(history) : history'[i] = history[i]
      /\ history'[last] = t
  BY <1>2, <1>3, AppendProperties
<1>5. /\ last \in 1 .. last /\ last \notin 1 .. Len(history)
      /\ \A i \in 1 .. Len(history) : i \in 1 .. last /\ i < last
      /\ \A i \in 1 .. last : i \in 1 .. Len(history) \/ i = last
  BY <1>2, <1>3
<1>6. \A u \in Text : Shown(u)' <=> Shown(u) \/ u = t
  BY <1>4, <1>5 DEF Shown
<1>7. ~Shown(t) /\ Told(t) \in seen
  BY DEF HInv
<1>8. \A d \in Call, u \in Text : InHand(d, u)' <=> d # c /\ InHand(d, u)
  BY <1>1 DEF InHand, At
<1>9. \A u \in Text : InHand(c, u) => u = t
  BY <1>1 DEF InHand, Told
<1>10. HInv'
  <2>1. \A i \in 1 .. last : Told(history'[i]) \in seen
    BY <1>4, <1>5, <1>7 DEF HInv
  <2>2. \A i, j \in 1 .. last : history'[i] = history'[j] => i = j
    <3>1. \A i \in 1 .. Len(history) : history'[i] # history'[last]
      BY <1>4, <1>7 DEF Shown
    <3>2. \A i, j \in 1 .. Len(history) : history'[i] = history'[j] => i = j
      BY <1>4 DEF HInv
    <3> QED
      BY <1>5, <3>1, <3>2
  <2>3. \A u \in Text : Told(u) \in seen => Shown(u)' \/ \E d \in Call : InHand(d, u)'
    BY <1>6, <1>8, <1>9 DEF HInv
  <2>4. \A d \in Call, u \in Text : InHand(d, u)' => ~(Shown(u)') /\ Told(u) \in seen
    <3>1. \A d \in Call : d # c => ~InHand(d, t)
      BY DEF HInv
    <3> QED
      BY <1>6, <1>8, <3>1 DEF HInv
  <2>5. \A d, e \in Call, u \in Text : InHand(d, u)' /\ InHand(e, u)' => d = e
    BY <1>8 DEF HInv
  <2> QED
    BY <1>1, <1>4, <2>1, <2>2, <2>3, <2>4, <2>5 DEF HInv
<1>11. OInv'
  <2> SUFFICES ASSUME ~overlapped PROVE OInv'
    BY <1>1 DEF OInv
  <2>1. /\ \A a, b \in Call : call[a].op = "get" /\ call[b].op = "get" => a = b
        /\ HistoryInOrder
        /\ \A j \in 1 .. Len(history) : Before(history[j], t)
    BY DEF OInv
  <2>2. \A a, b \in Call : call'[a].op = "get" /\ call'[b].op = "get" => a = b
    BY <1>1, <2>1
  <2>3. \A u, v : Before(u, v)' <=> Before(u, v)
    BY <1>1 DEF Before
  <2>4. \A i, j \in 1 .. last : i < j => Before(history'[i], history'[j])
    <3> SUFFICES ASSUME NEW i \in 1 .. last, NEW j \in 1 .. last, i < j
                 PROVE  Before(history'[i], history'[j])
      OBVIOUS
    <3>1. i \in 1 .. Len(history)
      BY <1>2, <1>3
    <3>2. CASE j \in 1 .. Len(history)
      BY <1>4, <2>1, <3>1, <3>2 DEF HistoryInOrder
    <3>3. CASE j = last
      BY <1>4, <2>1, <3>1, <3>3
    <3> QED
      BY <1>5, <3>2, <3>3
  <2>5. HistoryInOrder'
    BY <1>4, <2>3, <2>4 DEF HistoryInOrder
  <2>6. \A d \in Call, u \in Text : ~(InHand(d, u)')
    <3> SUFFICES ASSUME NEW d \in Call, NEW u \in Text, d # c, InHand(d, u) PROVE FALSE
      BY <1>8
    <3>1. call[d].op = "get"
      BY DEF InHand, At, WInv, Fits
    <3> QED
      BY <1>1, <2>1, <3>1
  <2> QED
    BY <2>2, <2>5, <2>6 DEF OInv
<1> QED
  BY <1>10, <1>11

LEMMA AckEndsHistory ==
  ASSUME WInv, QInv, HInv, OInv, NEW c \in Call, AckEnds(c)
  PROVE  HInv' /\ OInv'
<1>1. \/ history' = history /\ (~call[c].fresh \/ call[c].msg[1] # "text")
      \/ call[c].fresh /\ call[c].msg[1] = "text" /\ history' = Append(history, call[c].msg[2])
  BY DEF AckEnds
<1>2. ASSUME call[c].fresh, call[c].msg[1] = "text", history' = Append(history, call[c].msg[2])
      PROVE  HInv' /\ OInv'
  <2>1. call[c].msg \in Note /\ call[c].step = "acking"
    BY AckEndsIs
  <2>2. PICK t \in Text : call[c].msg = <<"text", t>>
    BY <1>2, <2>1 DEF Note
  <2>3. InHand(c, t) /\ history' = Append(history, t)
    BY <1>2, <2>1, <2>2 DEF InHand, At
  <2> QED
    BY <2>3, TextShown
<1> QED
  BY <1>1, <1>2, NothingShown

LEMMA NextHistory == WInv /\ QInv /\ HInv /\ OInv /\ [Next]_vars => HInv' /\ OInv'
  BY NextIs, QuietHistory, HostBeginsHistory, MessageArrivesHistory, AckEndsHistory, AckedHistory,
     PeerHistory

\* The peer's texts are in the history once each, none that the contact client
\* has recorded or the queue gave up is lost, and they are in the order of the
\* queue as long as one getMessages at a time is under way.
THEOREM Faithful == Spec => []HistoryFaithful
<1>1. WInv /\ QInv /\ HInv /\ OInv => HistoryFaithful
  <2> SUFFICES ASSUME QInv, HInv, OInv PROVE HistoryFaithful
    OBVIOUS
  <2>1. ASSUME NEW i \in 1 .. Len(inbox), inbox[i][1] = "text", i <= acked \/ inbox[i] \in seen
        PROVE  Shown(inbox[i][2]) \/ \E c \in Call : InHand(c, inbox[i][2])
    <3>1. inbox \in Seq(Note) /\ acked \in Nat
      BY DEF QInv
    <3>2. inbox[i] \in Note
      BY <3>1, ElementOfSeq
    <3>3. PICK t \in Text : inbox[i] = Told(t) /\ inbox[i][2] = t
      BY <2>1, <3>2 DEF Note, Told
    <3>4. i <= acked => i \in 1 .. acked
      BY <3>1
    <3>5. Told(t) \in seen
      BY <2>1, <3>3, <3>4 DEF QInv
    <3> QED
      BY <3>3, <3>5 DEF HInv
  <2>2. \A i \in 1 .. Len(history) : <<"text", history[i]>> \in seen
    BY DEF HInv, Told
  <2> QED
    BY <2>1, <2>2 DEF HistoryFaithful, HInv, OInv
<1> QED
  BY <1>1, InitQueue, NextQueue, InitTypes, NextTypes, InitHistory, NextHistory, PTL DEF Spec
=============================================================================
