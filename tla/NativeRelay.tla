----------------------------- MODULE NativeRelay -----------------------------
(***************************************************************************)
(* One connection of the native TLS relay (browser-smp-native-tls-relay):  *)
(* the upgrade, startNativeConnection, and the two byte streams it cuts    *)
(* into blocks.                                                            *)
(*                                                                         *)
(* A block or frame travels as BlockSize units, each knowing what it is a  *)
(* part of; the sockets hand over any non-empty prefix of what is in       *)
(* flight.  Block 1 of the server is its handshake.  What a malformed      *)
(* block throws out of a listener or of a .then nobody catches ends the    *)
(* process, and with it both sockets.  A pong is not modelled.             *)
(***************************************************************************)
EXTENDS Naturals, SequencesExt, FiniteSets

CONSTANTS
  Request,      \* how upgrade requests look: "ok", or the first thing amiss
  FrameKind, BlockKind,   \* what the browser and the server send
  BlockSize,    \* units in a block or frame
  MaxFrames, MaxBlocks    \* bounds: frames and blocks that are sent

ASSUME RelayAssumption ==
  /\ Request \subseteq {"ok", "path", "head", "origin", "protocol", "target", "key"}
  /\ FrameKind \subseteq {"block", "ping", "close", "text", "unmasked", "unpadded"}
  /\ BlockKind \subseteq {"block", "short"}
  /\ BlockSize \in Nat \ {0, 1} /\ MaxFrames \in Nat /\ MaxBlocks \in Nat

VARIABLES
  phase,        \* how far handleUpgrade and startNativeConnection have come
  ws, native,   \* the two sockets
  fromBrowser, fromServer,   \* units in flight to the relay
  wsBuffer, nativeBuffer,    \* the buffers (nativeBuffer: chunks of readExact too)
  queue,        \* browser blocks that wait for started
  up, down,     \* history: blocks written to the server (0: one that threw
                \* instead), and to the browser
  frames, blocks    \* history: what the browser and the server sent, as kinds

vars == <<phase, ws, native, fromBrowser, fromServer, wsBuffer, nativeBuffer,
          queue, up, down, frames, blocks>>
buffers == <<fromBrowser, fromServer, wsBuffer, nativeBuffer, queue, up, down, frames, blocks>>

Units(kind, k) == [i \in 1 .. BlockSize |-> [kind |-> kind, nr |-> k, part |-> i]]
Cut(s, i)      == SubSeq(s, (i - 1) * BlockSize + 1, i * BlockSize)
Whole(s)       == Len(s) \div BlockSize
From(s, k)     == SubSeq(s, k + 1, Len(s))

\* The block a run of units is; 0 when they are not of one block.
Block(b) == [kind |-> b[1].kind, nr |-> IF b = Units(b[1].kind, b[1].nr) THEN b[1].nr ELSE 0]

\* What a binary frame carries, well padded or not, is a block for the server.
Payload == {"block", "unpadded"}

\* The k-th of a set of positions, and the blocks of the first n frames of s.
Rank(P, i)   == Cardinality({j \in P : j <= i})
Place(P, k)  == CHOOSE i \in P : Rank(P, i) = k
Binary(s, n) ==
  LET P == {i \in 1 .. n : Cut(s, i)[1].kind \in Payload}
  IN  [k \in 1 .. Cardinality(P) |-> Block(Cut(s, Place(P, k)))]

Init ==
  /\ phase = "request" /\ ws = "open" /\ native = "none"
  /\ fromBrowser = <<>> /\ fromServer = <<>> /\ wsBuffer = <<>> /\ nativeBuffer = <<>>
  /\ queue = <<>> /\ up = <<>> /\ down = <<>> /\ frames = <<>> /\ blocks = <<>>

-----------------------------------------------------------------------------
(* Opening and closing.                                                    *)

\* handleSmpNativeTlsRelayUpgrade: everything that is refused destroys the
\* browser's socket; without a key the native stream is already there.
Upgrade(r) ==
  /\ phase = "request"
  /\ phase' = IF r = "ok" THEN "delay" ELSE "refused"
  /\ ws' = IF r = "ok" THEN "open" ELSE "destroyed"
  /\ native' = IF r \in {"ok", "key"} THEN "open" ELSE "none"
  /\ UNCHANGED buffers

\* Mutant: the native stream is left to the server.
ClosePairHalf == ws' = "destroyed" /\ UNCHANGED native

\* closePair, and the end of the process.
ClosePair == ws' = "destroyed" /\ native' = "destroyed"

\* readExact hears of the 'close' of the native stream, unless it is over.
StartAborted == phase' = IF phase = "reading" THEN "failed" ELSE phase

\* Either socket fails or emits 'close'.  An orderly end of the browser's half
\* is neither: nobody listens for it, and the browser just sends no more.
PairLost ==
  /\ ws = "open" /\ native = "open"
  /\ ClosePair /\ StartAborted
  /\ UNCHANGED buffers

-----------------------------------------------------------------------------
(* startNativeConnection.                                                  *)

\* The 50 ms are over, and readExact listens.
Delay ==
  /\ phase = "delay"
  /\ phase' = "reading"
  /\ UNCHANGED <<ws, native, buffers>>

\* Mutant: the timer is set when the first chunk has come.
ReadTimeoutOnceHeard ==
  phase = "reading" /\ nativeBuffer # <<>> /\ phase' = "failed" /\ ClosePair /\ UNCHANGED buffers

\* The timer of readExact; started ends in its catch.
ReadTimeout ==
  /\ phase = "reading"
  /\ phase' = "failed"
  /\ ClosePair
  /\ UNCHANGED buffers

\* A chunk while readExact listens.  What follows the handshake is put back.
ReadHandshake(n) ==
  LET got == nativeBuffer \o SubSeq(fromServer, 1, n) IN
  /\ phase = "reading" /\ native = "open" /\ n \in 1 .. Len(fromServer)
  /\ IF Len(got) < BlockSize
     THEN /\ nativeBuffer' = got /\ fromServer' = From(fromServer, n)
          /\ UNCHANGED <<phase, ws, native>>
     ELSE /\ nativeBuffer' = <<>>
          /\ fromServer' = From(got, BlockSize) \o From(fromServer, n)
          /\ IF got[1].kind = "block"
             THEN phase' = "handing" /\ UNCHANGED <<ws, native>>
             ELSE phase' = "failed" /\ ClosePair
  /\ UNCHANGED <<fromBrowser, wsBuffer, queue, up, down, frames, blocks>>

\* A chunk between readExact and the next listener: the stream flows, and
\* nobody is told.
DroppedChunk(n) ==
  /\ phase = "handing" /\ native = "open" /\ n \in 1 .. Len(fromServer)
  /\ fromServer' = From(fromServer, n)
  /\ UNCHANGED <<phase, ws, native, fromBrowser, wsBuffer, nativeBuffer, queue, up, down, frames, blocks>>

\* Mutant: the promise started is not waited for.
ForwardUngated(q, now) == now = "open"

\* The callbacks of started run when it has resolved, and look at destroyed.
Forwards(q, now) == phase' \in {"started", "failed"} /\ now = "open"

\* nativeBlockFromBrowser: nothing comes of a block that is badly padded.
NativeBlock(kind, nr) == IF kind = "block" THEN nr ELSE 0

\* One callback for each block of q.  One that throws rejects only its own
\* promise: the others of the same drain write, and then the process ends.
Forward(q, now) ==
  IF Forwards(q, now)
  THEN /\ up' = up \o [i \in 1 .. Len(q) |-> NativeBlock(q[i].kind, q[i].nr)]
       /\ queue' = <<>>
       /\ IF \A i \in 1 .. Len(q) : q[i].kind = "block" THEN ws' = ws /\ native' = now ELSE ClosePair
  ELSE queue' = q /\ UNCHANGED up /\ native' = now /\ ws' = IF now = "open" THEN ws ELSE now

\* setImmediate: the handshake goes to the browser, the listener is there,
\* and started resolves.
Start ==
  /\ phase = "handing"
  /\ phase' = "started"
  /\ down' = IF ws = "open" THEN Append(down, 1) ELSE down
  /\ Forward(queue, native)
  /\ UNCHANGED <<fromBrowser, fromServer, wsBuffer, nativeBuffer, frames, blocks>>

-----------------------------------------------------------------------------
(* The two streams.                                                        *)

\* Mutants: the rest of a buffer is forgotten; the blocks cut off it are not.
RestForgotten(buffer) == <<>>
RestUncut(buffer) == buffer

Rest(buffer) == From(buffer, Whole(buffer) * BlockSize)

\* The listener of startNativeConnection's then; a short block throws.
NativeData(n) ==
  LET buffer == nativeBuffer \o SubSeq(fromServer, 1, n)
      bad    == {i \in 1 .. Whole(buffer) : Cut(buffer, i)[1].kind # "block"}
      good   == IF bad = {} THEN Whole(buffer) ELSE Min(bad) - 1
  IN  /\ phase = "started" /\ native = "open" /\ n \in 1 .. Len(fromServer)
      /\ fromServer' = From(fromServer, n)
      /\ nativeBuffer' = Rest(buffer)
      /\ down' = down \o [i \in 1 .. good |-> Block(Cut(buffer, i)).nr]
      /\ IF bad = {} THEN UNCHANGED <<ws, native>> ELSE ClosePair
      /\ UNCHANGED <<phase, fromBrowser, wsBuffer, queue, up, frames, blocks>>

\* The frames of a buffer before the one that closes the pair, if there is
\* one: decodeClientFrame sees that a frame is not masked from its head.
Stops(buffer) ==
  {i \in 1 .. Whole(buffer) : Cut(buffer, i)[1].kind \in {"close", "text"}}
    \cup {i \in 1 .. Whole(buffer \o Units("head", 0)) :
            (i - 1) * BlockSize < Len(buffer) /\ buffer[(i - 1) * BlockSize + 1].kind = "unmasked"}

\* The listener of the browser's socket.
WsData(n) ==
  LET buffer == wsBuffer \o SubSeq(fromBrowser, 1, n)
      stops  == Stops(buffer)
      taken  == IF stops = {} THEN Whole(buffer) ELSE Min(stops) - 1
  IN  /\ phase \in {"delay", "reading", "handing", "started"}
      /\ ws = "open" /\ n \in 1 .. Len(fromBrowser)
      /\ fromBrowser' = From(fromBrowser, n)
      /\ wsBuffer' = From(buffer, taken * BlockSize)
      /\ IF stops = {} THEN UNCHANGED phase ELSE StartAborted
      /\ Forward(queue \o Binary(buffer, taken), IF stops = {} THEN native ELSE "destroyed")
      /\ UNCHANGED <<fromServer, nativeBuffer, down, frames, blocks>>

-----------------------------------------------------------------------------
(* The two ends.                                                           *)

Connected == ws = "open" /\ native = "open"

\* The frames that carry a block are numbered among themselves.
Carrying(kinds) == {i \in 1 .. Len(kinds) : kinds[i] \in Payload}

\* The browser need not wait for the handshake.
BrowserSends(kind) ==
  /\ Connected /\ Len(frames) < MaxFrames
  /\ frames' = Append(frames, kind)
  /\ fromBrowser' = fromBrowser \o Units(kind, Cardinality(Carrying(frames')))
  /\ UNCHANGED <<phase, ws, native, fromServer, wsBuffer, nativeBuffer, queue, up, down, blocks>>

\* An SMP server sends its handshake, and nothing else before it has one.
ServerSends(kind) ==
  /\ Connected /\ Len(blocks) < MaxBlocks
  /\ blocks # <<>> => up # <<>>
  /\ blocks' = Append(blocks, kind)
  /\ fromServer' = fromServer \o Units(kind, Len(blocks'))
  /\ UNCHANGED <<phase, ws, native, fromBrowser, wsBuffer, nativeBuffer, queue, up, down, frames>>

Arrives ==
  \/ \E n \in 1 .. Len(fromServer) : ReadHandshake(n) \/ DroppedChunk(n) \/ NativeData(n)
  \/ \E n \in 1 .. Len(fromBrowser) : WsData(n)

Next ==
  \/ \E r \in Request : Upgrade(r)
  \/ PairLost \/ Delay \/ ReadTimeout \/ Start
  \/ Arrives
  \/ \E kind \in FrameKind : BrowserSends(kind)
  \/ \E kind \in BlockKind : ServerSends(kind)

Spec == Init /\ [][Next]_vars

\* The event loop runs timers, immediates and the chunks the network has.
FairSpec == Spec /\ WF_vars(Delay) /\ WF_vars(Start) /\ WF_vars(ReadTimeout) /\ WF_vars(Arrives)
-----------------------------------------------------------------------------
(* Properties.                                                             *)

Numbers(n) == [i \in 1 .. n |-> i]

TypeOK ==
  /\ phase \in {"request", "refused", "delay", "reading", "handing", "started", "failed"}
  /\ ws \in {"open", "destroyed"} /\ native \in {"none", "open", "destroyed"}
  /\ Len(nativeBuffer) < BlockSize
  /\ up \in Seq(0 .. MaxFrames) /\ down \in Seq(1 .. MaxBlocks)
  /\ frames \in Seq(FrameKind) /\ blocks \in Seq(BlockKind)

\* While the pair is up nothing is dropped: what was written, what waits and
\* what is in flight is, in order, what each end sent.  The stream has no
\* listener between readExact and startNativeConnection's then, and only the
\* wait for started keeps the server silent until it has one.
NothingDropped ==
  native = "open" /\ ws = "open" =>
    /\ LET rest == wsBuffer \o fromBrowser
           kept == queue \o Binary(rest, Whole(rest))
       IN  up \o [i \in 1 .. Len(kept) |-> kept[i].nr]
             = Numbers(Cardinality(Carrying(frames)))
    /\ LET rest == nativeBuffer \o fromServer
       IN  down \o (IF phase = "handing" THEN <<1>> ELSE <<>>)
                \o [i \in 1 .. Whole(rest) |-> Block(Cut(rest, i)).nr]
             = Numbers(Len(blocks))

\* Neither socket outlives the other (closePair, on every path that ends).
NoHalfPair == ws = "destroyed" => native # "open"

\* The browser's blocks as the server should see them.
SentUp == LET P == Carrying(frames)
          IN  [i \in 1 .. Cardinality(P) |-> NativeBlock(frames[Place(P, i)], i)]

\* The relay is the pipe of BlockPipe: whole blocks in order, none that is
\* badly padded, no gap where one was but in the step that closes the pair,
\* and nothing once it is closed.
Pipe == INSTANCE BlockPipe WITH
  in   <- [d \in {"up", "down"} |-> IF d = "up" THEN SentUp ELSE Numbers(Len(blocks))],
  out  <- [d \in {"up", "down"} |-> IF d = "up" THEN up ELSE down],
  open <- ws = "open" /\ native # "destroyed"

PipeSpec == Pipe!PipeSpec

\* startNativeConnection ends, and then nothing that arrived waits in the
\* relay while the pair is up.
Settles ==
  /\ phase = "delay" ~> phase \in {"started", "failed"}
  /\ Len(fromBrowser) + Len(fromServer) + Len(queue) > 0
       ~> fromBrowser \o fromServer \o queue = <<>> \/ ws = "destroyed"
=============================================================================
