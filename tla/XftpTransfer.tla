---------------------------- MODULE XftpTransfer ----------------------------
(***************************************************************************)
(* The transfer of one file in chunks: with the XFTP web client            *)
(* (browser-xftp-web-client.mjs: handshake, FNEW, FPUT, FGET, FDEL, file   *)
(* descriptions) or with the chunk store client (browser-xftp-client.mjs,  *)
(* browser-xftp-core.mjs, browser-xftp-http-transport.mjs: put, get and    *)
(* delete by file id and index, and manifests).                            *)
(*                                                                         *)
(* A chunk's plaintext is its number; a digest is what it is taken of, so  *)
(* it matches only that.  Each command is one HTTP exchange with a         *)
(* timeout: it succeeds, is refused before it has an effect, or has its    *)
(* effect and the answer is lost.                                          *)
(***************************************************************************)
EXTENDS Integers, SequencesExt, FiniteSetsExt, Functions

CONSTANTS
  Small, Medium, Large, Huge,   \* XFTP_WEB_*_CHUNK_SIZE
  StoreChunk,      \* the chunk size of the chunk store
  Payload,         \* sizes of what is uploaded (web: with prefix, header and tag)
  MaxPieces,       \* bound: only plans of so many chunks are carried out
  MaxFaults,       \* bound: exchanges that fail
  ClientRange, Hellos,   \* versions we speak; handshakes servers answer with
  MaxDescribed,    \* XFTP_WEB_MAX_DESCRIPTION_CHUNKS
  OwnAddress       \* whether uploads name the address of the client's server

ASSUME XftpAssumption ==
  /\ {Small, Medium, Large, Huge, StoreChunk} \subseteq Nat \ {0}
  /\ Small <= Medium /\ Medium <= Large /\ Large <= Huge
  /\ Payload \subseteq Nat /\ MaxPieces \in Nat /\ MaxFaults \in Nat /\ MaxDescribed \in Nat /\ OwnAddress \in BOOLEAN

VARIABLES
  profile, payload,   \* what is used and uploaded in this behaviour
  stage,       \* of the sender
  version,     \* of the session, 0 for none
  at,          \* the chunk the sender is at
  current, uploaded,   \* the file just created; uploadedSenderChunks
  server,      \* the server's files: number of the chunk, and whether it has a body
  made,        \* history: how many files were created
  faults,      \* how many exchanges failed
  unknown,     \* history: files whose creation or deletion was not answered
  recv         \* the recipient: stage, description or manifest, plaintexts so far

vars == <<profile, payload, stage, version, at, current, uploaded, server, made,
          faults, unknown, recv>>

-----------------------------------------------------------------------------
(* Chunk plans.                                                            *)

ThreeQuarter(n) == (3 * n) \div 4

ChunkBands(size) ==
  IF size > ThreeQuarter(Huge) THEN [small |-> Large, big |-> Huge]
  ELSE IF size > ThreeQuarter(Large) THEN [small |-> Medium, big |-> Large]
  ELSE [small |-> Small, big |-> Medium]

\* Mutant: the last small chunk is left out unless it is full.
CeilingDown(n, d) == n \div d

Ceiling(n, d) == (n + d - 1) \div d

\* prepareSizeList: as many big chunks as fit; what is left gets one more, or
\* small ones.  (It calls itself at most once with a size that is not zero.)
ChunkSizes(size) ==
  LET bands == ChunkBands(size)
      bigs  == size \div bands.big
      left  == size % bands.big
      last  == IF left > ThreeQuarter(bands.big) THEN << bands.big >>
               ELSE [i \in 1 .. Ceiling(left, bands.small) |-> bands.small]
  IN  [i \in 1 .. bigs |-> bands.big] \o last

\* createXftpUpload: equal chunks, the last one shorter, and one of an empty file.
StoreSizes(size) ==
  LET count == Max({1, Ceiling(size, StoreChunk)})
  IN  [i \in 1 .. count |-> Min({StoreChunk, size - (i - 1) * StoreChunk})]

\* How much the first n chunks hold, for each n.
Offsets(sizes) ==
  LET before[n \in 0 .. Len(sizes)] == IF n = 0 THEN 0 ELSE before[n - 1] + sizes[n]
  IN  before

Total(sizes) == Offsets(sizes)[Len(sizes)]

Sizes == IF profile = "web" THEN ChunkSizes(payload) ELSE StoreSizes(payload)

\* Chunk records, with the files they are in, as descriptions and manifests
\* have them.
Chunks(sizes, files) ==
  [i \in 1 .. Len(sizes) |-> [no |-> i, offset |-> Offsets(sizes)[i - 1],
                              size |-> sizes[i], file |-> files[i], digest |-> i]]

-----------------------------------------------------------------------------
(* The session.                                                            *)

\* chooseXftpWebVersion; 0 when the ranges have nothing in common.
ChooseVersion(range) ==
  LET min == Max({range.min, ClientRange.min})
      max == Min({range.max, ClientRange.max})
  IN  IF min > max THEN 0 ELSE max

\* verifyXftpWebIdentityProof.
Identified(hello) == hello.chain \in 2 .. 4 /\ hello.pinned /\ hello.proof /\ hello.key

\* connectBrowserXftpWebClient: the answer to the hello, and, if it passes,
\* the acknowledgement of the handshake, which must be empty.
ConnectXftp ==
  /\ stage = "idle" /\ profile = "web"
  /\ \E hello \in Hellos, acked \in BOOLEAN :
       LET agreed == ChooseVersion(hello.range)
           good   == hello.range.min <= hello.range.max /\ Identified(hello) /\ agreed > 0 /\ acked
       IN  /\ stage' = IF good THEN "create" ELSE "failed"
           /\ version' = IF good THEN agreed ELSE 0
  /\ UNCHANGED <<profile, payload, at, current, uploaded, server, made, faults, unknown, recv>>

-----------------------------------------------------------------------------
(* One exchange: sendXftpWebCommand or requestJson, on a file.             *)

Result == {"ok", "refused", "lost"}

Fault(result) ==
  /\ result # "ok" => faults < MaxFaults
  /\ faults' = IF result = "ok" THEN faults ELSE faults + 1

Placed(file, chunk) == [f \in DOMAIN server \cup {file} |-> IF f = file THEN chunk ELSE server[f]]

Deleted(file) == [f \in DOMAIN server \ {file} |-> server[f]]

\* FDEL: what is not there is answered with ERR.
Answered(result, file) == result = "ok" /\ file \in DOMAIN server

DeleteOf(file, result) ==
  /\ Fault(result)
  /\ server' = IF result = "refused" THEN server ELSE Deleted(file)
  /\ unknown' = IF result = "ok" THEN unknown ELSE unknown \cup {file}

-----------------------------------------------------------------------------
(* uploadXftpWebFile.                                                      *)

Sending == <<profile, payload, version, recv>>

\* Mutant: one chunk is left.
FinishedEarly(files) == Len(files) + 1 >= Len(Sizes)

\* All chunks of the plan are uploaded.
Finished(files) == Len(files) = Len(Sizes)

\* FNEW.  Nobody learns the id of a file whose creation is not answered.
CreateFile(result) ==
  /\ stage = "create"
  /\ Fault(result)
  /\ IF result = "refused"
     THEN UNCHANGED <<server, made, unknown>>
     ELSE /\ made' = made + 1
          /\ server' = Placed(made', [chunk |-> at, body |-> FALSE])
          /\ unknown' = IF result = "lost" THEN unknown \cup {made'} ELSE unknown
  /\ IF result = "ok" THEN stage' = "put" /\ current' = made'
                      ELSE stage' = "cleanup" /\ UNCHANGED current
  /\ UNCHANGED <<at, uploaded, Sending>>

\* Mutant: a failed put leaves the file to the outer catch, which does not
\* have it yet.
AfterPutNoUndo(result) ==
  IF result # "ok" THEN "cleanup" ELSE IF Finished(uploaded') THEN "done" ELSE "create"

AfterPut(result) ==
  IF result # "ok" THEN "undo" ELSE IF Finished(uploaded') THEN "done" ELSE "create"

\* FPUT.
PutFile(result) ==
  /\ stage = "put"
  /\ Fault(result)
  /\ server' = IF result = "refused" THEN server ELSE [server EXCEPT ![current].body = TRUE]
  /\ uploaded' = IF result = "ok" THEN Append(uploaded, current) ELSE uploaded
  /\ at' = IF result = "ok" THEN at + 1 ELSE at
  /\ stage' = AfterPut(result)
  /\ UNCHANGED <<current, made, unknown, Sending>>

\* deleteUploadedXftpWebFile of one record, as the two catches call it: their
\* replica must be on the client's server, and all that it throws is swallowed.
CleanOne(file, result) ==
  IF OwnAddress THEN DeleteOf(file, result)
  ELSE result = "ok" /\ UNCHANGED <<server, unknown, faults>>

Undo(result) ==
  /\ stage = "undo"
  /\ CleanOne(current, result)
  /\ stage' = "cleanup"
  /\ UNCHANGED <<at, current, uploaded, made, Sending>>

Cleanup(result) ==
  /\ stage = "cleanup"
  /\ IF uploaded = <<>>
     THEN stage' = "failed" /\ UNCHANGED <<uploaded, server, unknown, faults>>
     ELSE CleanOne(Last(uploaded), result) /\ uploaded' = Front(uploaded) /\ UNCHANGED stage
  /\ UNCHANGED <<at, current, made, Sending>>

-----------------------------------------------------------------------------
(* BrowserXftpClient.uploadFile, which cleans nothing up.                  *)

PutChunk(result) ==
  /\ stage = "idle" /\ profile = "store"
  /\ Fault(result)
  /\ IF result = "refused"
     THEN UNCHANGED <<server, made>>
     ELSE made' = made + 1 /\ server' = Placed(made', [chunk |-> at, body |-> TRUE])
  /\ uploaded' = IF result = "ok" THEN Append(uploaded, made') ELSE uploaded
  /\ at' = IF result = "ok" THEN at + 1 ELSE at
  /\ stage' = IF result # "ok" THEN "failed" ELSE IF Finished(uploaded') THEN "done" ELSE "idle"
  /\ UNCHANGED <<current, unknown, Sending>>

-----------------------------------------------------------------------------
(* Deletion by the sender: deleteUploadedXftpWebFile with the sender's     *)
(* description, and deleteFile of the chunk store.  Chunk by chunk; what   *)
(* fails ends it, and the application starts again from the first.         *)

StartDelete ==
  /\ stage \in {"done", "partly"}
  /\ OwnAddress \/ profile = "store"
  /\ stage' = "deleting" /\ at' = 1
  /\ UNCHANGED <<current, uploaded, server, made, faults, unknown, Sending>>

Delete(result) ==
  /\ stage = "deleting"
  /\ DeleteOf(uploaded[at], result)
  /\ at' = at + 1
  /\ stage' = IF ~Answered(result, uploaded[at]) THEN "partly"
              ELSE IF at = Len(uploaded) THEN "deleted" ELSE "deleting"
  /\ UNCHANGED <<current, uploaded, made, Sending>>

-----------------------------------------------------------------------------
(* The recipient: downloadXftpWebFile and BrowserXftpClient.downloadFile.  *)

Whole == [i \in 1 .. Len(Sizes) |-> i]

\* The copy with the contents of two records exchanged.
Exchanged(chunks) ==
  [chunks EXCEPT ![1].file = chunks[2].file, ![1].digest = chunks[2].digest,
                 ![2].file = chunks[1].file, ![2].digest = chunks[1].digest]

Described(intact, sizes, chunks) == [intact |-> intact, size |-> Total(sizes), chunks |-> chunks]

Reordered(chunks) ==
  {[i \in DOMAIN chunks |-> chunks[p[i]]] :
     p \in {q \in [DOMAIN chunks -> DOMAIN chunks] : IsInjective(q)}}

\* What may reach it: the records in any order, without the last, or, on the
\* web where they name their files, with two exchanged.
Received ==
  LET all == Chunks(Sizes, uploaded)
  IN  {Described(TRUE, Sizes, chunks) : chunks \in Reordered(all)}
        \cup {Described(FALSE, Front(Sizes), Front(all))}
        \cup IF Len(all) > 1 /\ profile = "web" THEN {Described(FALSE, Sizes, Exchanged(all))} ELSE {}

\* Mutant: the records are taken as they come.
AsTheyCome(chunks) == chunks

\* sortDescriptionChunks, and the sort of downloadFile.
Sorted(chunks) ==
  CHOOSE s \in Reordered(chunks) : \A i \in 2 .. Len(s) : s[i - 1].no <= s[i].no

\* normalizeXftpWebDescription with validateXftpWebDescriptionChunkPlan.
WellFormed(d) ==
  LET sorted  == Sorted(d.chunks)
      offsets == Offsets([i \in 1 .. Len(sorted) |-> sorted[i].size])
  IN  /\ Len(sorted) \in 1 .. MaxDescribed
      /\ \A i \in 1 .. Len(sorted) : sorted[i].no = i /\ sorted[i].offset = offsets[i - 1]
      /\ d.size = offsets[Len(sorted)]

\* downloadFile only wants a chunk list of the stated length, and not empty.
Accepted(d) == IF profile = "web" THEN WellFormed(d) ELSE Len(d.chunks) > 0

StartDownload(d) ==
  /\ recv.stage = "idle" /\ stage = "done" /\ OwnAddress
  /\ recv' = [recv EXCEPT !.stage = IF Accepted(d) THEN "getting" ELSE "failed",
                          !.chunks = Sorted(d.chunks), !.intact = d.intact]
  /\ UNCHANGED <<profile, payload, stage, version, at, current, uploaded, server, made, faults, unknown>>

\* Mutant: the digest of the whole file is not compared.
OpensUnchecked(plain) == TRUE

\* decryptXftpWebFileEnvelope and assembleXftpDownload: the digest of the whole.
Opens(plain) == plain = Whole

\* FGET or getChunk, the digest of the chunk, and after the last the file.
GetChunk(result) ==
  LET wanted == recv.chunks[Len(recv.got) + 1]
      good   == result = "ok" /\ wanted.file \in DOMAIN server
                  /\ server[wanted.file].chunk = wanted.digest
      plain  == Append(recv.got, wanted.digest)
  IN  /\ recv.stage = "getting"
      /\ Fault(result)
      /\ recv' = [recv EXCEPT
           !.got = IF good THEN plain ELSE @,
           !.faulted = @ \/ result # "ok",
           !.stage = IF ~good THEN "failed" ELSE IF Len(plain) < Len(recv.chunks) THEN "getting"
                     ELSE IF Opens(plain) THEN "done" ELSE "failed"]
      /\ UNCHANGED <<profile, payload, stage, version, at, current, uploaded, server, made, unknown>>

-----------------------------------------------------------------------------
(* Specification.  The plan of every payload is made; those of at most     *)
(* MaxPieces chunks are carried out.                                       *)

Init ==
  /\ profile \in {"web", "store"} /\ payload \in Payload
  /\ stage = IF Len(Sizes) \in 1 .. MaxPieces THEN "idle" ELSE "planned"
  /\ version = 0 /\ at = 1 /\ current = 0 /\ uploaded = <<>>
  /\ server = << >> /\ made = 0 /\ faults = 0 /\ unknown = {}
  /\ recv = [stage |-> "idle", chunks |-> <<>>, intact |-> TRUE, faulted |-> FALSE, got |-> <<>>]

Next ==
  \/ ConnectXftp \/ StartDelete
  \/ \E result \in Result :
       \/ CreateFile(result) \/ PutFile(result) \/ Undo(result) \/ Cleanup(result)
       \/ PutChunk(result) \/ Delete(result) \/ GetChunk(result)
  \/ stage = "done" /\ \E d \in Received : StartDownload(d)

Spec == Init /\ [][Next]_vars

-----------------------------------------------------------------------------
(* Properties.                                                             *)

TransferTypeOK ==
  /\ stage \in {"planned", "idle", "create", "put", "undo", "cleanup", "done", "failed",
                "deleting", "partly", "deleted"}
  /\ stage \in {"create", "put"} => at \in 1 .. Len(Sizes) /\ version > 0
  /\ stage \in {"done", "deleting"} => Len(uploaded) = Len(Sizes)
  /\ DOMAIN server \subseteq 1 .. made /\ unknown \subseteq 1 .. made
  /\ faults \in 0 .. MaxFaults
  /\ recv.stage \in {"idle", "getting", "done", "failed"}

\* A chunk plan holds the payload, no chunk of it could be left out, and
\* there is little padding: on the web less than a small chunk or less than a
\* third of the payload, in the store none (prepareXftpWebChunkSizes,
\* createXftpUpload).
PlanFits ==
  LET sizes == Sizes
      sum   == Total(sizes)
  IN  /\ sum >= payload
      /\ payload > 0 => sum - Last(sizes) < payload
      /\ \A i \in 2 .. Len(sizes) : sizes[i] <= sizes[i - 1]
      /\ profile = "web" => sum - payload < Small \/ 3 * (sum - payload) < payload
      /\ profile = "store" => sum = payload

\* An upload that failed half way leaves nothing behind but files whose
\* creation or deletion the server did not answer (uploadXftpWebFile and its
\* two catches).
CleanFailure == profile = "web" /\ stage = "failed" => DOMAIN server \subseteq unknown

\* A download ends with the file that was uploaded or with a failure, and
\* fails only when a command did, the description is not what the upload
\* returned, or the sender deletes.
DownloadIsTheFile ==
  /\ recv.stage = "done" => recv.got = Whole /\ recv.intact
  /\ recv.stage = "failed" => ~recv.intact \/ recv.faulted \/ stage \in {"deleting", "partly", "deleted"}

\* Not so: a deletion that failed half way gets further when it is repeated;
\* it ends at the first chunk, which is gone (deleteUploadedXftpWebFile).
DeletionCanBeRepeated == stage = "partly" /\ server # << >> => uploaded[1] \in DOMAIN server
=============================================================================
