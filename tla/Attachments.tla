---------------------------- MODULE Attachments ----------------------------
(***************************************************************************)
(* An attachment's way from one device to another: the managed uploads and *)
(* downloads of core/crates/arveil-app/src/attachment_ui.rs, the blob      *)
(* handlers of the relay (server/blobs.go over BlobStore), and what breaks *)
(* on the way: connections, statements and files that fail, the relay.     *)
(*                                                                         *)
(* A profile runs one transfer at a time; a cancellation is run at once,   *)
(* wherever the transfer waits for the relay.  The relay handles the       *)
(* requests of one connection in turn and those of several at once, so an  *)
(* orphan, a request whose client gave up, interleaves with the requests   *)
(* of the resumed transfer.                                                *)
(*                                                                         *)
(* Every attachment has one receiver, whose profile is modelled as far as  *)
(* its download goes; the message itself travels through Delivery.         *)
(***************************************************************************)
EXTENDS BlobStore

CONSTANTS
    Files,      \* attachments, by their event id
    None,       \* no attachment, no blob
    BlobTtl,    \* life the sender asks for; 0 leaves it to the relay
    MaxTime,    \* bound: the clock stops here
    MaxFaults,  \* bound: interruptions, failed statements, crashes
    LastFault   \* bound: the last time at which one happens

ASSUME AttachmentAssumption ==
    /\ None \notin Files /\ None \notin Blobs
    /\ BlobTtl \in Nat
    /\ MaxTime \in Nat
    /\ MaxFaults \in Nat
    /\ LastFault \in Nat

VARIABLES
    out,      \* attachment_transfers.state at the sender
    blob,     \* the blob its descriptor names
    until,    \* expires_at, 0 while not committed
    up,       \* the running upload
    requests, \* upload requests in flight or being handled
    answer,   \* the reply the upload waits for
    message,  \* the blob the sent message names
    in,       \* attachment_transfers.state at the receiver
    parts,    \* attachment_chunks at the receiver
    down,     \* the running download
    faults,   \* how many faults happened
    crashes   \* how many of them took the relay down

senderVars == <<out, blob, until, up, message>>
receiverVars == <<in, parts, down>>
netVars == <<requests, answer>>
faultVars == <<faults, crashes>>
vars == <<now, row, staging, final, used, victims, out, blob, until, up,
          requests, answer, message, in, parts, down, faults, crashes>>

Request == [kind : {"begin", "resume", "chunk", "commit"},
            blob : Blobs \union {None}, at : Int, live : BOOLEAN,
            step : {"sent", "inserted", "opened", "appended", "verified",
                    "renamed"}]
Answer == [kind : {"none", "started", "offset", "refused", "ack", "committed",
                   "error"},
           blob : Blobs \union {None}, at : Int]
Upload == [file : Files \union {None}, offset : Int,
           step : {"idle", "connect", "resume", "begin", "chunk", "commit",
                   "send"}]
Parts == SUBSET (Int \X Int)  \* chunks, each with the offset it is stored at
Download == [file : Files \union {None}, mem : Parts,
             step : {"idle", "connect", "fetch", "reply", "verify"},
             got : {"none", "data", "odd", "gone", "denied", "error"},
             chunk : Int]

NoAnswer == [kind |-> "none", blob |-> None, at |-> 0]
NoUpload == [file |-> None, offset |-> 0, step |-> "idle"]
NoDownload == [file |-> None, mem |-> {}, step |-> "idle", got |-> "none",
               chunk |-> 0]

AttachmentTypeOK ==
    /\ StoreTypeOK
    /\ out \in [Files -> {"pending", "transferring", "sent", "cancelled"}]
    /\ blob \in [Files -> Blobs \union {None}]
    /\ until \in [Files -> Int]
    /\ up \in Upload
    /\ requests \subseteq Request
    /\ answer \in Answer
    /\ message \in [Files -> Blobs \union {None}]
    /\ in \in [Files -> {"pending", "transferring", "ready", "cancelled",
                         "unavailable", "expired", "invalid"}]
    /\ parts \in [Files -> Parts]
    /\ down \in Download
    /\ faults \in Nat /\ crashes \in Nat

Init ==
    /\ StoreInit
    /\ out = [x \in Files |-> "pending"]
    /\ blob = [x \in Files |-> None]
    /\ until = [x \in Files |-> 0]
    /\ up = NoUpload
    /\ requests = {}
    /\ answer = NoAnswer
    /\ message = [x \in Files |-> None]
    /\ in = [x \in Files |-> "pending"]
    /\ parts = [x \in Files |-> {}]
    /\ down = NoDownload
    /\ faults = 0 /\ crashes = 0

-----------------------------------------------------------------------------
(* The upload.  Between two requests nothing else of the profile runs. *)

\* A transfer that was cancelled while it waited stops at its next step.
Active(x) == out[x] = "transferring"

StopUpload == up' = NoUpload

\* resume puts the transfer back to pending, unless it was cancelled.
FailUpload(x) ==
    /\ StopUpload
    /\ out' = IF Active(x) THEN [out EXCEPT ![x] = "pending"] ELSE out

Ask(x, kind, b, at) ==
    /\ requests' = requests \union
          {[kind |-> kind, blob |-> b, at |-> at, live |-> TRUE, step |-> "sent"]}
    /\ up' = [file |-> x, offset |-> at, step |-> kind]

\* The next chunk goes out, or the commit after the last.
Continue(x, b, offset) ==
    Ask(x, IF offset < Size THEN "chunk" ELSE "commit", b, offset)

\* ResumeAttachment: a blob that is committed and lives is not sent again.
StartUpload(x) ==
    /\ up = NoUpload
    /\ out[x] \in {"pending", "transferring"}
    /\ out' = [out EXCEPT ![x] = "transferring"]
    /\ up' = [file |-> x, offset |-> 0,
              step |-> IF until[x] > now THEN "send" ELSE "connect"]
    /\ UNCHANGED <<now, storeVars, blob, until, message, receiverVars,
                   netVars, faultVars>>

Connected(x) ==
    /\ up.file = x /\ up.step = "connect"
    /\ \/ ~Active(x) /\ StopUpload /\ UNCHANGED requests
       \/ Active(x) /\ blob[x] = None /\ Ask(x, "begin", None, 0)
       \/ Active(x) /\ blob[x] # None /\ Ask(x, "resume", blob[x], 0)
    /\ UNCHANGED <<now, storeVars, out, blob, until, message, receiverVars,
                   answer, faultVars>>

\* What every reply has in common.
Hears(x, step) ==
    /\ up.file = x /\ up.step = step
    /\ answer # NoAnswer
    /\ answer' = NoAnswer
    /\ UNCHANGED <<now, storeVars, message, receiverVars, faultVars>>

\* Mutant: a blob the relay does not know any more is an error like others.
ResumeReplyOnly(x) ==
    /\ Hears(x, "resume")
    /\ \/ /\ answer.kind \in {"error", "refused"} \/ answer.at > Size
          /\ FailUpload(x)
          /\ UNCHANGED requests
       \/ /\ answer.kind = "offset" /\ answer.at <= Size
          /\ \/ ~Active(x) /\ StopUpload /\ UNCHANGED requests
             \/ Active(x) /\ Continue(x, blob[x], answer.at)
          /\ UNCHANGED out
    /\ UNCHANGED <<blob, until>>

\* Where the relay is; or a new blob when it dropped or committed this one.
ResumeReply(x) ==
    /\ Hears(x, "resume")
    /\ \/ /\ answer.kind = "error" \/ answer.at > Size
          /\ FailUpload(x)
          /\ UNCHANGED requests
       \/ /\ answer.kind \in {"offset", "refused"} /\ answer.at <= Size
          /\ \/ ~Active(x) /\ StopUpload /\ UNCHANGED requests
             \/ /\ Active(x) /\ answer.kind = "offset"
                /\ Continue(x, blob[x], answer.at)
             \/ /\ Active(x) /\ answer.kind = "refused"
                /\ Ask(x, "begin", None, 0)
          /\ UNCHANGED out
    /\ UNCHANGED <<blob, until>>

\* The descriptor is stored before the first chunk goes out.
BeginReply(x) ==
    /\ Hears(x, "begin")
    /\ \/ /\ answer.kind = "error"
          /\ FailUpload(x)
          /\ UNCHANGED <<blob, until, requests>>
       \/ /\ answer.kind = "started" /\ ~Active(x)
          /\ StopUpload
          /\ UNCHANGED <<out, blob, until, requests>>
       \/ /\ answer.kind = "started" /\ Active(x)
          /\ blob' = [blob EXCEPT ![x] = answer.blob]
          /\ until' = [until EXCEPT ![x] = 0]
          /\ Continue(x, answer.blob, 0)
          /\ UNCHANGED out

ChunkReply(x) ==
    /\ Hears(x, "chunk")
    /\ \/ /\ answer.kind = "error"
          /\ FailUpload(x)
          /\ UNCHANGED requests
       \/ /\ answer.kind = "ack"
          /\ \/ ~Active(x) /\ StopUpload /\ UNCHANGED requests
             \/ Active(x) /\ Continue(x, blob[x], up.offset + 1)
          /\ UNCHANGED out
    /\ UNCHANGED <<blob, until>>

CommitReply(x) ==
    /\ Hears(x, "commit")
    /\ \/ /\ answer.kind = "error"
          /\ FailUpload(x)
          /\ UNCHANGED until
       \/ /\ answer.kind = "committed" /\ ~Active(x)
          /\ StopUpload
          /\ UNCHANGED <<out, until>>
       \/ /\ answer.kind = "committed" /\ Active(x)
          /\ until' = [until EXCEPT ![x] = answer.at]
          /\ up' = [up EXCEPT !.step = "send"]
          /\ UNCHANGED out
    /\ UNCHANGED <<blob, requests>>

\* Mutant: the transfer is not looked at after the connection was closed.
SendUnchecked(x) ==
    /\ up.file = x /\ up.step = "send"
    /\ StopUpload
    /\ out' = [out EXCEPT ![x] = "sent"]
    /\ message' = [message EXCEPT ![x] = blob[x]]
    /\ UNCHANGED <<now, storeVars, blob, until, receiverVars, netVars,
                   faultVars>>

\* The send unit: message, outbox and transfer state commit together.  That it
\* fails, because the conversation is gone or a revoked device is still in it
\* (guard_revoked), is InterruptUpload at this step: pending, to be resumed.
SendMessage(x) ==
    /\ up.file = x /\ up.step = "send"
    /\ StopUpload
    /\ \/ /\ Active(x)
          /\ out' = [out EXCEPT ![x] = "sent"]
          /\ message' = [message EXCEPT ![x] = blob[x]]
       \/ ~Active(x) /\ UNCHANGED <<out, message>>
    /\ UNCHANGED <<now, storeVars, blob, until, receiverVars, netVars,
                   faultVars>>

CancelUpload(x) ==
    /\ out[x] \in {"pending", "transferring"}
    /\ out' = [out EXCEPT ![x] = "cancelled"]
    /\ UNCHANGED <<now, storeVars, blob, until, up, message, receiverVars,
                   netVars, faultVars>>

-----------------------------------------------------------------------------
(* The handlers of the relay, one statement or file operation per step. *)

Serving(r, kind, step) ==
    /\ r \in requests
    /\ r.kind = kind /\ r.step = step
    /\ UNCHANGED <<now, senderVars, receiverVars, faultVars>>

\* The handler goes on to its next step.
Proceed(r, step, b, at) ==
    /\ requests' = (requests \ {r}) \union
          {[r EXCEPT !.step = step, !.blob = b, !.at = at]}
    /\ UNCHANGED answer

\* The handler ends.  Only the connection that asked hears its answer.
Reply(r, kind, b, at) ==
    /\ requests' = requests \ {r}
    /\ answer' = IF r.live THEN [kind |-> kind, blob |-> b, at |-> at] ELSE answer

Begin(r) ==
    /\ Serving(r, "begin", "sent")
    /\ \/ /\ OverQuota
          /\ Reply(r, "error", None, 0)
          /\ UNCHANGED storeVars
       \/ /\ ~OverQuota
          /\ used # Blobs
          /\ InsertRow(FreshBlob)
          /\ Proceed(r, "inserted", FreshBlob, 0)

BeginCreate(r) ==
    /\ Serving(r, "begin", "inserted")
    /\ CreateFile(r.blob)
    /\ Reply(r, "started", r.blob, 0)

Resume(r) ==
    /\ Serving(r, "resume", "sent")
    /\ IF row[r.blob].state = "staging"
       THEN Reply(r, "offset", r.blob, StagedOffset(r.blob))
       ELSE Reply(r, "refused", r.blob, 0)
    /\ UNCHANGED storeVars

Chunk(r) ==
    /\ Serving(r, "chunk", "sent")
    /\ IF TakesChunk(r.blob, r.at) THEN Proceed(r, "opened", r.blob, r.at)
       ELSE Reply(r, "error", r.blob, 0)
    /\ UNCHANGED storeVars

ChunkAppend(r) ==
    /\ Serving(r, "chunk", "opened")
    /\ AppendChunk(r.blob, r.at)
    /\ Proceed(r, "appended", r.blob, r.at)

ChunkCount(r) ==
    /\ Serving(r, "chunk", "appended")
    /\ CountChunk(r.blob)
    /\ Reply(r, "ack", r.blob, 0)

\* The expiry is counted from the time the request arrived.
Commit(r) ==
    /\ Serving(r, "commit", "sent")
    /\ IF Verifies(r.blob)
       THEN Proceed(r, "verified", r.blob,
                    BlobExpiry(IF BlobTtl = 0 THEN 0 ELSE now + BlobTtl))
       ELSE Reply(r, "error", r.blob, 0)
    /\ UNCHANGED storeVars

CommitRename(r) ==
    /\ Serving(r, "commit", "verified")
    /\ \/ /\ RenameFile(r.blob)
          /\ Proceed(r, "renamed", r.blob, r.at)
       \/ /\ staging[r.blob] = NoFile
          /\ Reply(r, "error", r.blob, 0)
          /\ UNCHANGED storeVars

CommitMark(r) ==
    /\ Serving(r, "commit", "renamed")
    /\ MarkCommitted(r.blob, r.at)
    /\ Reply(r, "committed", r.blob, r.at)

Sweep ==
    /\ SweepList \/ \E v \in victims : SweepRemove(v) \/ SweepDelete(v)
    /\ UNCHANGED <<now, senderVars, receiverVars, netVars, faultVars>>

Tick ==
    /\ now < MaxTime
    /\ now' = now + 1
    /\ UNCHANGED <<storeVars, senderVars, receiverVars, netVars, faultVars>>

-----------------------------------------------------------------------------
(* The download. *)

CipherParts == {<<i, i>> : i \in 1 .. Size}

Downloading(x) == in[x] = "transferring"

\* attachment_bytes refuses chunks with a gap between them.
Contiguous(p) == {c[1] : c \in p} = 1 .. Cardinality(p)

Running(x, step, mem) ==
    [file |-> x, mem |-> mem, step |-> step, got |-> "none", chunk |-> 0]

EndDownload(x, state) ==
    /\ down' = NoDownload
    /\ in' = [in EXCEPT ![x] = state]

StartDownload(x) ==
    /\ message[x] # None
    /\ down = NoDownload
    /\ in[x] \notin {"ready", "invalid"}
    /\ IF Contiguous(parts[x])
       THEN /\ in' = [in EXCEPT ![x] = "transferring"]
            /\ down' = Running(x, "connect", parts[x])
       ELSE EndDownload(x, "pending")
    /\ UNCHANGED <<now, storeVars, senderVars, netVars, parts, faultVars>>

\* The loop goes on until nothing is missing.
NextChunk(x, mem) ==
    down' = Running(x, IF Cardinality(mem) < Size THEN "fetch" ELSE "verify", mem)

DownloadConnected(x) ==
    /\ down.file = x /\ down.step = "connect"
    /\ IF Downloading(x) THEN NextChunk(x, down.mem) ELSE down' = NoDownload
    /\ UNCHANGED <<now, storeVars, senderVars, netVars, in, parts, faultVars>>

\* blobFetch.  A size other than the descriptor's is an odd reply.
Read(x) ==
    LET b == message[x]
        at == Cardinality(down.mem) + 1
        got(kind, c) == down' = [down EXCEPT !.step = "reply", !.got = kind,
                                             !.chunk = c]
    IN  /\ down.file = x /\ down.step = "fetch"
        /\ \/ row[b].state # "committed" /\ got("denied", 0)
           \/ row[b].state = "committed" /\ row[b].expires <= now /\ got("gone", 0)
           \/ Readable(b) /\ row[b].stored # Size /\ got("odd", 0)
           \/ /\ Readable(b) /\ row[b].stored = Size
              /\ IF final[b] # NoFile /\ at \in DOMAIN final[b]
                 THEN got("data", final[b][at]) ELSE got("error", 0)
        /\ UNCHANGED <<now, storeVars, senderVars, netVars, in, parts,
                       faultVars>>

\* Mutant: a cancelled download takes the reply it was waiting for.
TakeAnyReply(x) ==
    LET at == Cardinality(down.mem) + 1
        c == <<at, down.chunk>>
    IN  /\ down.file = x /\ down.step = "reply"
        /\ down.got = "data"
        /\ NextChunk(x, down.mem \union {c})
        /\ parts' = [parts EXCEPT ![x] = @ \union {c}]
        /\ UNCHANGED <<now, storeVars, senderVars, netVars, in, faultVars>>

\* The chunk is stored under the offset the transfer has reached.
TakeReply(x) ==
    LET at == Cardinality(down.mem) + 1
        c == <<at, down.chunk>>
        end(state) == EndDownload(x, state) /\ UNCHANGED parts
    IN  /\ down.file = x /\ down.step = "reply"
        /\ \/ ~Downloading(x) /\ end(in[x])
           \/ Downloading(x) /\ down.got = "gone" /\ end("expired")
           \/ Downloading(x) /\ down.got = "denied" /\ end("unavailable")
           \/ Downloading(x) /\ down.got = "odd" /\ end("invalid")
           \/ Downloading(x) /\ down.got = "error" /\ end("pending")
           \/ /\ Downloading(x) /\ down.got = "data"
              /\ IF \E p \in parts[x] : p[1] = at THEN end("pending")
                 ELSE /\ NextChunk(x, down.mem \union {c})
                      /\ parts' = [parts EXCEPT ![x] = @ \union {c}]
                      /\ UNCHANGED in
        /\ UNCHANGED <<now, storeVars, senderVars, netVars, faultVars>>

\* Nothing is waited for between the last chunk and this, but the process can
\* die: the last chunk and the verdict are two transactions.
Verify(x) ==
    /\ down.file = x /\ down.step = "verify"
    /\ IF down.mem = CipherParts
       THEN EndDownload(x, "ready") /\ UNCHANGED parts
       ELSE EndDownload(x, "invalid") /\ parts' = [parts EXCEPT ![x] = {}]
    /\ UNCHANGED <<now, storeVars, senderVars, netVars, faultVars>>

CancelDownload(x) ==
    /\ message[x] # None
    /\ in[x] \notin {"ready", "cancelled"}
    /\ ~(down.file = x /\ down.step = "verify")
    /\ in' = [in EXCEPT ![x] = "cancelled"]
    /\ parts' = [parts EXCEPT ![x] = {}]
    /\ UNCHANGED <<now, storeVars, senderVars, netVars, down, faultVars>>

-----------------------------------------------------------------------------
(* Faults. *)

Fault ==
    /\ faults < MaxFaults
    /\ now <= LastFault
    /\ faults' = faults + 1

\* The states a transfer is left in: pending by an error its client lived to
\* see, as it was when the process was killed.
Left(transfers, x, keep) ==
    IF transfers[x] = "transferring" /\ ~keep
    THEN [transfers EXCEPT ![x] = "pending"] ELSE transfers

\* The sender's connection or process ends.  A request in flight is lost or
\* becomes an orphan; one that is being handled goes on as one.
InterruptUpload(x, keep, lost) ==
    /\ up.file = x
    /\ Fault
    /\ StopUpload
    /\ out' = Left(out, x, keep)
    /\ requests' = {[r EXCEPT !.live = FALSE] :
          r \in {q \in requests : ~(lost /\ q.live /\ q.step = "sent")}}
    /\ answer' = NoAnswer
    /\ UNCHANGED <<now, storeVars, blob, until, message, receiverVars, crashes>>

InterruptDownload(x, keep) ==
    /\ down.file = x
    /\ Fault
    /\ down' = NoDownload
    /\ in' = Left(in, x, keep)
    /\ UNCHANGED <<now, storeVars, senderVars, netVars, parts, crashes>>

\* A statement or file operation of a running handler fails: the store was
\* busy for too long, the disk is full.  What was done before stays.
HandlerFails(r) ==
    /\ r \in requests /\ r.step # "sent"
    /\ Fault
    /\ Reply(r, "error", r.blob, 0)
    /\ UNCHANGED <<now, storeVars, senderVars, receiverVars, crashes>>

\* The relay stops and starts again: handlers, sweep and connections are
\* gone, and Reconcile runs before it listens.
Restart(kept) ==
    /\ Fault
    /\ crashes' = crashes + 1
    /\ Reconcile(kept)
    /\ requests' = {}
    /\ answer' = NoAnswer
    /\ StopUpload
    /\ out' = IF up.file = None THEN out ELSE Left(out, up.file, FALSE)
    /\ down' = NoDownload
    /\ in' = IF down.file = None THEN in ELSE Left(in, down.file, FALSE)
    /\ UNCHANGED <<now, blob, until, message, parts>>

-----------------------------------------------------------------------------
UploadStep(x) ==
    \/ Connected(x) \/ ResumeReply(x) \/ BeginReply(x) \/ ChunkReply(x)
    \/ CommitReply(x) \/ SendMessage(x)

DownloadStep(x) ==
    DownloadConnected(x) \/ Read(x) \/ TakeReply(x) \/ Verify(x)

RelayStep(r) ==
    \/ Begin(r) \/ BeginCreate(r) \/ Resume(r)
    \/ Chunk(r) \/ ChunkAppend(r) \/ ChunkCount(r)
    \/ Commit(r) \/ CommitRename(r) \/ CommitMark(r)

Next ==
    \/ \E x \in Files :
          \/ StartUpload(x) \/ UploadStep(x) \/ CancelUpload(x)
          \/ StartDownload(x) \/ DownloadStep(x) \/ CancelDownload(x)
          \/ \E keep, lost \in BOOLEAN : InterruptUpload(x, keep, lost)
          \/ \E keep \in BOOLEAN : InterruptDownload(x, keep)
    \/ \E r \in requests : RelayStep(r) \/ HandlerFails(r)
    \/ \E kept \in SUBSET Blobs : Restart(kept)
    \/ Sweep
    \/ Tick

Spec == Init /\ [][Next]_vars

\* The relay runs its handlers and its sweep, the sender resumes what is
\* pending, and time passes.  Nothing is assumed of the receiver.
Fairness ==
    /\ \A x \in Files : WF_vars(StartUpload(x)) /\ WF_vars(UploadStep(x))
    /\ WF_vars(\E r \in requests : RelayStep(r))
    /\ WF_vars(Sweep)
    /\ WF_vars(Tick)

FairSpec == Spec /\ Fairness

-----------------------------------------------------------------------------
(* Properties. *)

\* What the relay serves of a blob is what it verified: as long as the row says
\* committed and has not expired, the file is in place and holds the ciphertext
\* whose hash Commit checked, whatever handler, orphan, sweep or restart ran
\* since.
ServedVerified ==
    \A b \in Blobs : Readable(b) => HoldsCiphertext(final[b])

\* A committed blob is not deleted before it has expired, whatever orphaned
\* chunk, second commit, restart or sweep runs, unless a sweep listed it as an
\* old upload just before it was committed (Sweep deletes by id, in whatever
\* state the row is by then).
CommittedStays ==
    [][\A b \in Blobs :
          Readable(b) /\ row[b].expires > now' =>
             \/ row'[b].state = "committed"
             \/ \E v \in victims : v.blob = b /\ v.state = "staging"]_vars

\* A download that is offered for export is complete in the database, also
\* when it was cancelled, interrupted and begun again before.
ReadyComplete == \A x \in Files : in[x] = "ready" => parts[x] = CipherParts

\* A cancelled upload stays cancelled and no message comes of it, wherever
\* its transfer was when it was cancelled.
CancelFinal ==
    [][\A x \in Files :
          out[x] = "cancelled" =>
             out'[x] = "cancelled" /\ message'[x] = None]_vars

\* The relay starts with a file for each committed row it had one for, and
\* with no file that no row accounts for.
RestartClean ==
    [][crashes' # crashes =>
          \A b \in Blobs :
             /\ final'[b] # NoFile => row'[b].state = "committed"
             /\ staging'[b] # NoFile => row'[b].state # "none"]_vars

\* An upload that its sender keeps resuming is sent, unless it is cancelled or
\* the quota stays exhausted: what a fault spoiled is dropped by the sweep and
\* uploaded again.
EventuallySent ==
    <>[]~OverQuota => \A x \in Files : <>(out[x] \in {"sent", "cancelled"})

=============================================================================
