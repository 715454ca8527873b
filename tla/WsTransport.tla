----------------------------- MODULE WsTransport -----------------------------
(***************************************************************************)
(* One SMP connection over a WebSocket (browser-smp-websocket-transport):  *)
(* connecting and the handshake, the frame queue, and closing.             *)
(*                                                                         *)
(* A frame is named by its arrival number.  Several callers may wait in    *)
(* receiveSignedTransmissions at once.  withTimeout rejects the promise of *)
(* a caller but leaves its entry in waiters: such a caller is "gone", and  *)
(* the frame its entry is resolved with reaches nobody.                    *)
(***************************************************************************)
EXTENDS Naturals, Sequences, FiniteSets

CONSTANTS
  Caller,      \* callers of receive, each with one call at a time
  Connect,     \* connectBrowserSmpWebSocketTransport itself, waiting for hello
  MaxFrames    \* bound: frames the server sends

ASSUME CallerAssumption ==
  Connect \notin Caller /\ IsFiniteSet(Caller) /\ MaxFrames \in Nat

Waiter == Caller \cup {Connect}
Frame  == 1 .. MaxFrames

VARIABLES
  phase,       \* of connect: waiting for open, then for hello, then settled
  socket,      \* readyState
  listening,   \* the frame queue has its listeners
  frames, waiters, closeError,   \* createFrameQueue
  call,        \* what each caller does
  received,    \* history: frames that arrived at the queue
  resolved,    \* history: frames given out, in order
  lost         \* history: the ones of them that were given to a caller gone

wsVars == <<phase, socket, listening, frames, waiters, closeError, call,
            received, resolved, lost>>

WsTypeOK ==
  /\ phase \in {"opening", "hello", "connected", "failed"}
  /\ socket \in {"connecting", "open", "closing", "closed"}
  /\ listening \in BOOLEAN /\ closeError \in BOOLEAN
  /\ frames \in Seq(Frame) /\ waiters \in Seq(Waiter) /\ resolved \in Seq(Frame)
  /\ call \in [Waiter -> {"idle", "waiting", "gone"}]
  /\ received \in 0 .. MaxFrames
  /\ lost \subseteq Frame

WsInit ==
  /\ phase = "opening" /\ socket = "connecting" /\ listening = FALSE
  /\ frames = <<>> /\ waiters = <<>> /\ closeError = FALSE
  /\ call = [w \in Waiter |-> "idle"]
  /\ received = 0 /\ resolved = <<>> /\ lost = {}

-----------------------------------------------------------------------------
(* The frame queue.                                                        *)

\* Every waiter that is still alive is rejected.
RejectWaiters ==
  /\ waiters' = <<>>
  /\ call' = [w \in Waiter |-> IF call[w] = "waiting" THEN "idle" ELSE call[w]]

\* Mutant: the error is stored and those who wait are not told.
FlushErrorQuietly ==
  IF listening THEN closeError' = TRUE /\ UNCHANGED <<waiters, call>>
               ELSE UNCHANGED <<closeError, waiters, call>>

\* flushError, if the queue still listens.
FlushError ==
  IF listening THEN closeError' = TRUE /\ RejectWaiters
               ELSE UNCHANGED <<closeError, waiters, call>>

\* Mutant: frames.unshift for frames.push.
DeliverInFront(f) ==
  IF waiters = <<>>
  THEN frames' = <<f>> \o frames /\ UNCHANGED <<waiters, call, resolved, lost>>
  ELSE LET w == Head(waiters) IN
       /\ waiters' = Tail(waiters)
       /\ resolved' = Append(resolved, f)
       /\ call' = [call EXCEPT ![w] = IF @ = "waiting" THEN "idle" ELSE @]
       /\ lost' = IF call[w] = "gone" THEN lost \cup {f} ELSE lost
       /\ UNCHANGED frames

\* waiters.shift().resolve(bytes), or frames.push(bytes).
Deliver(f) ==
  IF waiters = <<>>
  THEN frames' = Append(frames, f) /\ UNCHANGED <<waiters, call, resolved, lost>>
  ELSE LET w == Head(waiters) IN
       /\ waiters' = Tail(waiters)
       /\ resolved' = Append(resolved, f)
       /\ call' = [call EXCEPT ![w] = IF @ = "waiting" THEN "idle" ELSE @]
       /\ lost' = IF call[w] = "gone" THEN lost \cup {f} ELSE lost
       /\ UNCHANGED frames

\* Mutant: the caller enters its resolver twice, once for each of its promises.
ReceiveTwice(w) ==
  /\ call[w] = "idle"
  /\ \/ /\ frames # <<>>
        /\ frames' = Tail(frames)
        /\ resolved' = Append(resolved, Head(frames))
        /\ UNCHANGED <<waiters, call>>
     \/ /\ frames = <<>> /\ closeError
        /\ UNCHANGED <<frames, resolved, waiters, call>>
     \/ /\ frames = <<>> /\ ~closeError
        /\ waiters' = waiters \o <<w, w>>
        /\ call' = [call EXCEPT ![w] = "waiting"]
        /\ UNCHANGED <<frames, resolved>>

\* receive(): a buffered frame, the stored error, or an entry among the waiters.
\* (The test of closed never decides: whatever sets closed sets closeError.)
ReceiveFrame(w) ==
  /\ call[w] = "idle"
  /\ \/ /\ frames # <<>>
        /\ frames' = Tail(frames)
        /\ resolved' = Append(resolved, Head(frames))
        /\ UNCHANGED <<waiters, call>>
     \/ /\ frames = <<>> /\ closeError
        /\ UNCHANGED <<frames, resolved, waiters, call>>
     \/ /\ frames = <<>> /\ ~closeError
        /\ waiters' = Append(waiters, w)
        /\ call' = [call EXCEPT ![w] = "waiting"]
        /\ UNCHANGED <<frames, resolved>>

-----------------------------------------------------------------------------
(* Connecting.                                                             *)

\* The socket opens.  If connect still waits for it, the queue is created and
\* its first entry is connect's own; after waitForOpen timed out nobody cares.
SocketOpens ==
  /\ socket = "connecting"
  /\ socket' = "open"
  /\ IF phase = "opening"
     THEN /\ phase' = "hello" /\ listening' = TRUE
          /\ waiters' = <<Connect>>
          /\ call' = [call EXCEPT ![Connect] = "waiting"]
     ELSE UNCHANGED <<phase, listening, waiters, call>>
  /\ UNCHANGED <<frames, closeError, received, resolved, lost>>

OpenTimesOut ==
  /\ phase = "opening"
  /\ phase' = "failed"
  /\ UNCHANGED <<socket, listening, frames, waiters, closeError, call,
                 received, resolved, lost>>

\* The hello of the server: accepted and answered; of another session, which
\* closes the socket; or malformed or of no common version, which does not.
HelloArrives ==
  /\ phase = "hello" /\ socket = "open" /\ received < MaxFrames
  /\ received' = received + 1
  /\ Deliver(received')
  /\ \/ phase' = "connected" /\ UNCHANGED socket
     \/ phase' = "failed" /\ socket' = "closing"
     \/ phase' = "failed" /\ UNCHANGED socket
  /\ UNCHANGED <<listening, closeError>>

-----------------------------------------------------------------------------
(* The connection.                                                         *)

\* Mutant: a frame that arrives is counted and handed on as the one after it.
FrameArrivesMiscounted ==
  /\ phase \in {"connected", "failed"} /\ listening
  /\ socket = "open" /\ received < MaxFrames
  /\ received' = received + 1
  /\ Deliver(received' + 1)
  /\ UNCHANGED <<phase, socket, listening, closeError>>

FrameArrives ==
  /\ phase \in {"connected", "failed"} /\ listening
  /\ socket = "open" /\ received < MaxFrames
  /\ received' = received + 1
  /\ Deliver(received')
  /\ UNCHANGED <<phase, socket, listening, closeError>>

\* A text frame or one of another size: everybody is rejected, and the socket
\* is closed.
BadFrameArrives ==
  /\ listening /\ socket = "open"
  /\ FlushError
  /\ socket' = "closing"
  /\ phase' = IF phase = "hello" THEN "failed" ELSE phase
  /\ UNCHANGED <<listening, frames, received, resolved, lost>>

\* The error and close events, after the network or the server closed the
\* socket or as the end of socket.close().
SocketCloses ==
  /\ socket # "closed"
  /\ socket' = "closed"
  /\ FlushError
  /\ phase' = IF phase \in {"opening", "hello"} THEN "failed" ELSE phase
  /\ UNCHANGED <<listening, frames, received, resolved, lost>>

Receive(c) ==
  /\ phase = "connected"
  /\ ReceiveFrame(c)
  /\ UNCHANGED <<phase, socket, listening, closeError, received, lost>>

\* The timer of withTimeout wins: the caller is told, the entry stays.
ReceiveTimesOut(w) ==
  /\ call[w] = "waiting"
  /\ call' = [call EXCEPT ![w] = "gone"]
  /\ phase' = IF w = Connect THEN "failed" ELSE phase
  /\ UNCHANGED <<socket, listening, frames, waiters, closeError, received,
                 resolved, lost>>

\* close(): dispose of the queue, then close the socket.
Close ==
  /\ phase = "connected"
  /\ listening' = FALSE
  /\ frames' = <<>>
  /\ RejectWaiters
  /\ socket' = IF socket = "open" THEN "closing" ELSE socket
  /\ UNCHANGED <<phase, closeError, received, resolved, lost>>

WsNext ==
  \/ SocketOpens \/ OpenTimesOut \/ HelloArrives
  \/ FrameArrives \/ BadFrameArrives \/ SocketCloses \/ Close
  \/ \E c \in Caller : Receive(c)
  \/ \E w \in Waiter : ReceiveTimesOut(w)

WsSpec == WsInit /\ [][WsNext]_wsVars

-----------------------------------------------------------------------------
(* Properties.                                                             *)

\* Frames are never buffered while somebody waits, and after an error nobody
\* waits: a caller that is alive has one entry, for the next frame or error.
NobodyForgotten ==
  /\ frames = <<>> \/ waiters = <<>>
  /\ \A w \in Waiter : call[w] = "waiting" =>
       /\ ~closeError
       /\ \E i \in 1 .. Len(waiters) : waiters[i] = w /\ \A j \in 1 .. Len(waiters) :
                                          waiters[j] = w => j = i

\* Until close(), the frames given out followed by those buffered are all that
\* arrived, in order of arrival: none is skipped, repeated or overtaken.
FramesInOrder ==
  listening => resolved \o frames = [i \in 1 .. received |-> i]

\* A frame is lost only to the entry of a caller that timed out, so there are
\* never more lost frames than such callers.
LossesAreTimeouts ==
  Cardinality(lost) + Cardinality({i \in 1 .. Len(waiters) : call[waiters[i]] = "gone"})
    <= Cardinality({w \in Waiter : call[w] = "gone"})

\* "bad sessions, and timeouts fail closed": when connecting is reported to
\* have failed, the page does not keep an open connection.
FailsClosed == phase = "failed" => socket # "open"
=============================================================================
