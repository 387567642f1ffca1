------------------------- MODULE AttachmentsProofs -------------------------
(***************************************************************************)
(* A committed blob stays readable and a finished download is complete, for *)
(* any attachments, blobs, sizes, lives, faults and schedules.             *)
(***************************************************************************)
EXTENDS AttachmentsInvariant, FiniteSetTheorems, TLAPS

\* Rounding down to a multiple of u takes off less than u.
LEMMA RoundDown ==
    ASSUME NEW x \in Int, NEW u \in Nat \ {0}
    PROVE  /\ x - (x % u) \in Int
           /\ x - (x % u) <= x
           /\ x - u < x - (x % u)
  OBVIOUS

\* A clipped and rounded expiry is a time, whatever was asked for.
LEMMA EffectiveType ==
    ASSUME NEW t \in Nat, NEW ttl \in Nat, NEW requested \in Int
    PROVE  coarseExpiry(clipped(requested, ttl, t), t) \in Int
  <1>1. clipped(requested, ttl, t) \in Int
    BY DEF clipped
  <1>2. \A x \in Int, u \in {Day, Hour, Minute} : x - (x % u) \in Int
    BY ExpiryAssumption
  <1> QED BY <1>1, <1>2 DEF coarseExpiry

USE BlobAssumption, AttachmentAssumption

\* What the records of the model are made of.
LEMMA NoneTyped ==
    /\ NoRow \in Row
    /\ NoAnswer \in Answer
    /\ NoUpload \in Upload
    /\ NoDownload \in Download
  BY DEF NoRow, Row, BlobStates, NoAnswer, Answer, NoUpload, Upload,
         NoDownload, Download, Parts

LEMMA AskTyped ==
    ASSUME NEW x \in Files, NEW kind \in {"begin", "resume", "chunk", "commit"},
           NEW b \in Blobs \union {None}, NEW at \in Int,
           requests \subseteq Request, Ask(x, kind, b, at)
    PROVE  requests' \subseteq Request /\ up' \in Upload
  <1>1. [kind |-> kind, blob |-> b, at |-> at, live |-> TRUE, step |-> "sent"]
           \in Request
    BY DEF Request
  <1>2. [file |-> x, offset |-> at, step |-> kind] \in Upload
    BY DEF Upload
  <1> QED BY <1>1, <1>2 DEF Ask

LEMMA ContinueTyped ==
    ASSUME NEW x \in Files, NEW b \in Blobs \union {None}, NEW at \in Int,
           requests \subseteq Request, Continue(x, b, at)
    PROVE  requests' \subseteq Request /\ up' \in Upload
  <1>1. (IF at < Size THEN "chunk" ELSE "commit")
           \in {"begin", "resume", "chunk", "commit"}
    OBVIOUS
  <1> QED BY <1>1, AskTyped DEF Continue

LEMMA ReplyTyped ==
    ASSUME NEW r \in requests, NEW kind \in {"started", "offset", "refused",
                                             "ack", "committed", "error"},
           NEW b \in Blobs \union {None}, NEW at \in Int,
           requests \subseteq Request, answer \in Answer,
           Reply(r, kind, b, at)
    PROVE  requests' \subseteq Request /\ answer' \in Answer
  BY DEF Reply, Answer

LEMMA ProceedTyped ==
    ASSUME NEW r \in requests,
           NEW step \in {"inserted", "opened", "appended", "verified", "renamed"},
           NEW b \in Blobs \union {None}, NEW at \in Int,
           requests \subseteq Request, answer \in Answer,
           Proceed(r, step, b, at)
    PROVE  requests' \subseteq Request /\ answer' \in Answer
  BY DEF Proceed, Request

\* Type correctness is kept by every step of an upload ...
LEMMA UploadTyped ==
    ASSUME AttachmentTypeOK, NEW x \in Files,
           StartUpload(x) \/ UploadStep(x) \/ CancelUpload(x)
    PROVE  AttachmentTypeOK'
  <1> USE DEF AttachmentTypeOK, StoreTypeOK, storeVars, receiverVars, netVars,
              faultVars
  <1> USE NoneTyped
  <1>0. /\ requests \subseteq Request
        /\ answer.blob \in Blobs \union {None}
        /\ answer.at \in Int /\ 0 \in Int /\ up.offset + 1 \in Int
    BY DEF Answer, Upload
  <1>1. CASE StartUpload(x)
    BY <1>1 DEF StartUpload, Upload
  <1>2. CASE Connected(x)
    BY <1>2, AskTyped DEF Connected, StopUpload
  <1>3. CASE ResumeReply(x)
    <2>1. up' \in Upload /\ requests' \subseteq Request
      <3>1. CASE FailUpload(x) /\ UNCHANGED requests
        BY <3>1 DEF FailUpload, StopUpload
      <3>2. CASE StopUpload /\ UNCHANGED requests
        BY <3>2 DEF StopUpload
      <3>3. CASE Continue(x, blob[x], answer.at)
        BY <1>0, <3>3, ContinueTyped, Zenon
      <3>4. CASE Ask(x, "begin", None, 0)
        BY <3>4, AskTyped
      <3> QED BY <1>3, <3>1, <3>2, <3>3, <3>4 DEF ResumeReply
    <2>2. out' \in [Files -> {"pending", "transferring", "sent", "cancelled"}]
      BY <1>3 DEF ResumeReply, FailUpload
    <2> QED BY <1>3, <2>1, <2>2 DEF ResumeReply, Hears
  <1>4. CASE BeginReply(x)
    <2>1. up' \in Upload /\ requests' \subseteq Request
      <3>1. CASE FailUpload(x) /\ UNCHANGED requests
        BY <3>1 DEF FailUpload, StopUpload
      <3>2. CASE StopUpload /\ UNCHANGED requests
        BY <3>2 DEF StopUpload
      <3>3. CASE Continue(x, answer.blob, 0)
        BY <1>0, <3>3, ContinueTyped, Zenon
      <3> QED BY <1>4, <3>1, <3>2, <3>3 DEF BeginReply
    <2>2. out' \in [Files -> {"pending", "transferring", "sent", "cancelled"}]
      BY <1>4 DEF BeginReply, FailUpload
    <2>3. blob' \in [Files -> Blobs \union {None}] /\ until' \in [Files -> Int]
      <3>1. CASE UNCHANGED <<blob, until>>
        BY <3>1
      <3>2. CASE /\ blob' = [blob EXCEPT ![x] = answer.blob]
                 /\ until' = [until EXCEPT ![x] = 0]
        BY <1>0, <3>2
      <3> QED BY <1>4, <3>1, <3>2 DEF BeginReply
    <2> QED BY <1>4, <2>1, <2>2, <2>3 DEF BeginReply, Hears
  <1>5. CASE ChunkReply(x)
    <2>1. up' \in Upload /\ requests' \subseteq Request
      <3>1. CASE FailUpload(x) /\ UNCHANGED requests
        BY <3>1 DEF FailUpload, StopUpload
      <3>2. CASE StopUpload /\ UNCHANGED requests
        BY <3>2 DEF StopUpload
      <3>3. CASE Continue(x, blob[x], up.offset + 1)
        BY <1>0, <3>3, ContinueTyped, Zenon
      <3> QED BY <1>5, <3>1, <3>2, <3>3 DEF ChunkReply
    <2>2. out' \in [Files -> {"pending", "transferring", "sent", "cancelled"}]
      BY <1>5 DEF ChunkReply, FailUpload
    <2> QED BY <1>5, <2>1, <2>2 DEF ChunkReply, Hears
  <1>6. CASE CommitReply(x)
    BY <1>0, <1>6 DEF CommitReply, Hears, FailUpload, StopUpload, Upload
  <1>7. CASE SendMessage(x)
    BY <1>7 DEF SendMessage, StopUpload
  <1>8. CASE CancelUpload(x)
    BY <1>8 DEF CancelUpload
  <1> QED BY <1>1, <1>2, <1>3, <1>4, <1>5, <1>6, <1>7, <1>8 DEF UploadStep

LEMMA RunningTyped ==
    ASSUME NEW x \in Files, NEW step \in {"connect", "fetch", "verify"},
           NEW mem \in Parts
    PROVE  Running(x, step, mem) \in Download
  BY DEF Running, Download

LEMMA NextTyped ==
    ASSUME NEW x \in Files, NEW mem \in Parts, NextChunk(x, mem)
    PROVE  down' \in Download
  <1>1. CASE Cardinality(mem) < Size
    BY <1>1, RunningTyped DEF NextChunk
  <1>2. CASE ~(Cardinality(mem) < Size)
    BY <1>2, RunningTyped DEF NextChunk
  <1> QED BY <1>1, <1>2

\* ... of a download, whose chunks are counted ...
LEMMA DownloadTyped ==
    ASSUME AttachmentTypeOK, NamesSound, DownloadSound, NEW x \in Files,
           StartDownload(x) \/ DownloadStep(x) \/ CancelDownload(x)
    PROVE  AttachmentTypeOK'
  <1> USE DEF AttachmentTypeOK, StoreTypeOK, storeVars, senderVars, netVars,
              faultVars
  <1> USE NoneTyped
  <1> DEFINE at == Cardinality(down.mem) + 1
  <1>0. /\ down.mem \in Parts /\ down.chunk \in Int /\ parts[x] \in Parts
    BY DEF Download
  <1>1. CASE StartDownload(x)
    <2>1. down' \in Download
      BY <1>0, <1>1, RunningTyped DEF StartDownload, EndDownload
    <2> QED BY <1>1, <2>1 DEF StartDownload, EndDownload
  <1>2. CASE DownloadConnected(x)
    <2>1. down' \in Download
      BY <1>0, <1>2, NextTyped DEF DownloadConnected
    <2> QED BY <1>2, <2>1 DEF DownloadConnected
  <1>3. CASE Read(x)
    <2>1. \A got \in {"data", "odd", "gone", "denied", "error"}, c \in Int :
             [down EXCEPT !.step = "reply", !.got = got, !.chunk = c] \in Download
      BY DEF Download
    <2>2. \A b \in Blobs, i \in Int :
             final[b] # NoFile /\ i \in DOMAIN final[b] => final[b][i] \in Int
      BY DEF Content
    <2>3. message[x] \in Blobs /\ at \in Int
      BY <1>3, FS_CardinalityType DEF Read, NamesSound, DownloadSound
    <2>4. PICK got \in {"data", "odd", "gone", "denied", "error"}, c \in Int :
             down' = [down EXCEPT !.step = "reply", !.got = got, !.chunk = c]
      <3> DEFINE data == /\ final[message[x]] # NoFile
                         /\ at \in DOMAIN final[message[x]]
      <3>1. CASE data /\ row[message[x]].state = "committed"
                 /\ down' = [down EXCEPT !.step = "reply", !.got = "data",
                                         !.chunk = final[message[x]][at]]
        <4>1. final[message[x]][at] \in Int
          BY <2>2, <2>3, <3>1
        <4> HIDE DEF at
        <4> QED BY <3>1, <4>1
      <3>2. CASE \E got \in {"odd", "gone", "denied", "error"} :
                   down' = [down EXCEPT !.step = "reply", !.got = got, !.chunk = 0]
        <4>1. 0 \in Int
          OBVIOUS
        <4> QED BY <3>2, <4>1, Zenon
      <3> QED BY <1>3, <3>1, <3>2 DEF Read, Readable
    <2> QED BY <1>3, <2>1, <2>4 DEF Read
  <1>4. CASE TakeReply(x)
    <2>1. down.file = x => at \in Int
      BY FS_CardinalityType DEF DownloadSound
    <2>2. down.file = x => down.mem \union {<<at, down.chunk>>} \in Parts
                           /\ parts[x] \union {<<at, down.chunk>>} \in Parts
      <3> HIDE DEF at
      <3>1. \A i, c \in Int, p \in Parts : p \union {<<i, c>>} \in Parts
        BY DEF Parts
      <3> QED BY <1>0, <2>1, <3>1
    <2>3. CASE down' = NoDownload /\ UNCHANGED parts
      BY <1>4, <2>3 DEF TakeReply, EndDownload
    <2>4. CASE /\ NextChunk(x, down.mem \union {<<at, down.chunk>>})
               /\ parts' = [parts EXCEPT ![x] = @ \union {<<at, down.chunk>>}]
               /\ UNCHANGED in
      <3> HIDE DEF at
      <3>1. down' \in Download
        BY <1>4, <2>2, <2>4, NextTyped DEF TakeReply
      <3>2. parts' \in [Files -> Parts]
        BY <1>4, <2>2, <2>4 DEF TakeReply
      <3> QED BY <1>4, <2>4, <3>1, <3>2 DEF TakeReply
    <2> QED BY <1>4, <2>3, <2>4 DEF TakeReply, EndDownload
  <1>5. CASE Verify(x)
    BY <1>5 DEF Verify, EndDownload, Parts
  <1>6. CASE CancelDownload(x)
    BY <1>6 DEF CancelDownload, Parts
  <1> QED BY <1>1, <1>2, <1>3, <1>4, <1>5, <1>6 DEF DownloadStep

\* ... of the relay, whose requests name blobs, and under every fault.
LEMMA RelayTyped ==
    ASSUME AttachmentTypeOK, FreshSound, StepsSound, NEW r \in requests,
           RelayStep(r) \/ HandlerFails(r)
    PROVE  AttachmentTypeOK'
  <1> USE DEF AttachmentTypeOK, StoreTypeOK, storeVars, senderVars,
              receiverVars, faultVars
  <1>0. /\ r \in Request
        /\ r.at \in Int /\ r.blob \in Blobs \union {None}
        /\ 0 \in Int /\ None \in Blobs \union {None}
    BY DEF Request
  <1>1. \A kind \in {"started", "offset", "refused", "ack", "committed", "error"},
           b \in Blobs \union {None}, at \in Int :
           Reply(r, kind, b, at) => requests' \subseteq Request /\ answer' \in Answer
    BY ReplyTyped, Zenon
  <1>2. \A step \in {"inserted", "opened", "appended", "verified", "renamed"},
           b \in Blobs \union {None}, at \in Int :
           Proceed(r, step, b, at) => requests' \subseteq Request /\ answer' \in Answer
    BY ProceedTyped, Zenon
  <1>3. r.kind # "begin" \/ r.step = "inserted" => r.blob \in Blobs
    BY DEF FreshSound
  <1>4. CASE Begin(r)
    <2>1. CASE OverQuota
      BY <1>0, <1>1, <1>4, <2>1 DEF Begin, Serving
    <2>2. CASE ~OverQuota
      <3>1. FreshBlob \in Blobs
        BY <1>4, <2>2 DEF Begin, FreshBlob
      <3>2. coarseHour(now) \in Int
        BY ExpiryAssumption, RoundDown DEF coarseHour
      <3>3. [state |-> "staging", stored |-> 0, created |-> coarseHour(now),
             expires |-> 0] \in Row
        BY <3>2 DEF Row, BlobStates
      <3>4. row' \in [Blobs -> Row] /\ used' \subseteq Blobs
        <4>1. InsertRow(FreshBlob)
          BY <1>4, <2>2 DEF Begin
        <4> HIDE DEF FreshBlob
        <4> QED BY <3>1, <3>3, <4>1 DEF InsertRow
      <3>5. requests' \subseteq Request /\ answer' \in Answer
        BY <1>0, <1>2, <1>4, <2>2, <3>1 DEF Begin
      <3> QED BY <1>4, <2>2, <3>4, <3>5 DEF Begin, Serving, InsertRow
    <2> QED BY <2>1, <2>2
  <1>5. CASE BeginCreate(r)
    <2>1. requests' \subseteq Request /\ answer' \in Answer
      BY <1>0, <1>1, <1>5 DEF BeginCreate
    <2>2. <<>> \in Content
      BY DEF Content
    <2> QED BY <1>5, <2>1, <2>2 DEF BeginCreate, CreateFile, Serving
  <1>6. CASE Resume(r)
    <2>1. row[r.blob].stored \in Int
      BY <1>3, <1>6 DEF Resume, Serving, Row
    <2>2. requests' \subseteq Request /\ answer' \in Answer
      BY <1>0, <1>1, <1>6, <2>1 DEF Resume, StagedOffset
    <2> QED BY <1>6, <2>2 DEF Resume, Serving
  <1>7. CASE Chunk(r)
    <2>1. requests' \subseteq Request /\ answer' \in Answer
      BY <1>0, <1>1, <1>2, <1>7 DEF Chunk
    <2> QED BY <1>7, <2>1 DEF Chunk, Serving
  <1>8. CASE ChunkAppend(r)
    <2>1. requests' \subseteq Request /\ answer' \in Answer
      BY <1>0, <1>2, <1>8 DEF ChunkAppend
    <2>2. \A f \in Content : f # NoFile => Append(f, r.at + 1) \in Content
      BY <1>0 DEF Content
    <2>3. staging' \in [Blobs -> Content] /\ final' \in [Blobs -> Content]
      <3>1. r.blob \in Blobs /\ AppendChunk(r.blob, r.at)
        BY <1>3, <1>8 DEF ChunkAppend, Serving
      <3>2. CASE staging[r.blob] # NoFile
        <4>1. Append(staging[r.blob], r.at + 1) \in Content
          BY <2>2, <3>1, <3>2
        <4>2. /\ staging' = [staging EXCEPT ![r.blob] = Append(@, r.at + 1)]
              /\ final' = final
          BY <3>1, <3>2 DEF AppendChunk
        <4> QED BY <4>1, <4>2
      <3>3. CASE staging[r.blob] = NoFile /\ final[r.blob] # NoFile
        <4>1. Append(final[r.blob], r.at + 1) \in Content
          BY <2>2, <3>1, <3>3
        <4>2. /\ final' = [final EXCEPT ![r.blob] = Append(@, r.at + 1)]
              /\ staging' = staging
          BY <3>1, <3>3 DEF AppendChunk
        <4> QED BY <4>1, <4>2
      <3>4. CASE staging[r.blob] = NoFile /\ final[r.blob] = NoFile
        BY <3>1, <3>4 DEF AppendChunk
      <3> QED BY <3>2, <3>3, <3>4
    <2> QED BY <1>8, <2>1, <2>3 DEF ChunkAppend, AppendChunk, Serving
  <1>9. CASE ChunkCount(r)
    <2>1. requests' \subseteq Request /\ answer' \in Answer
      BY <1>0, <1>1, <1>9 DEF ChunkCount
    <2>2. row' \in [Blobs -> Row]
      <3>1. CountChunk(r.blob)
        BY <1>9 DEF ChunkCount
      <3>2. ASSUME NEW w \in Row PROVE [w EXCEPT !.stored = @ + 1] \in Row
        <4>1. w.stored + 1 \in Int
          BY DEF Row
        <4>2. ASSUME NEW n \in Int PROVE [w EXCEPT !.stored = n] \in Row
          BY DEF Row
        <4> QED BY <4>1, <4>2
      <3> QED BY <3>1, <3>2 DEF CountChunk
    <2> QED BY <1>9, <2>1, <2>2 DEF ChunkCount, CountChunk, Serving
  <1>10. CASE Commit(r)
    <2>1. BlobExpiry(IF BlobTtl = 0 THEN 0 ELSE now + BlobTtl) \in Int
      <3>1. (IF BlobTtl = 0 THEN 0 ELSE now + BlobTtl) \in Int
        OBVIOUS
      <3>2. now \in Nat /\ DefaultBlobTTL \in Nat
        OBVIOUS
      <3> QED BY <3>1, <3>2, EffectiveType, Zenon DEF BlobExpiry
    <2> HIDE DEF BlobExpiry
    <2>2. requests' \subseteq Request /\ answer' \in Answer
      BY <1>0, <1>1, <1>2, <1>10, <2>1 DEF Commit
    <2> QED BY <1>10, <2>2 DEF Commit, Serving
  <1>11. CASE CommitRename(r)
    <2>1. requests' \subseteq Request /\ answer' \in Answer
      BY <1>0, <1>1, <1>2, <1>11 DEF CommitRename
    <2>2. r.blob \in Blobs
      BY <1>3, <1>11 DEF CommitRename, Serving
    <2>3. staging' \in [Blobs -> Content] /\ final' \in [Blobs -> Content]
      BY <1>11, <2>2 DEF CommitRename, RenameFile, Content
    <2> QED BY <1>11, <2>1, <2>3 DEF CommitRename, RenameFile, Serving
  <1>12. CASE CommitMark(r)
    <2>1. requests' \subseteq Request /\ answer' \in Answer
      BY <1>0, <1>1, <1>12 DEF CommitMark
    <2>2. row' \in [Blobs -> Row]
      <3>1. MarkCommitted(r.blob, r.at)
        BY <1>12 DEF CommitMark
      <3>2. \A w \in Row : [w EXCEPT !.state = "committed", !.expires = r.at] \in Row
        BY <1>0 DEF Row, BlobStates
      <3> QED BY <3>1, <3>2 DEF MarkCommitted
    <2> QED BY <1>12, <2>1, <2>2 DEF CommitMark, MarkCommitted, Serving
  <1>13. CASE HandlerFails(r)
    <2>1. requests' \subseteq Request /\ answer' \in Answer
      BY <1>0, <1>1, <1>13 DEF HandlerFails
    <2> QED BY <1>13, <2>1 DEF HandlerFails, Fault
  <1> QED
    BY <1>4, <1>5, <1>6, <1>7, <1>8, <1>9, <1>10, <1>11, <1>12, <1>13
    DEF RelayStep

LEMMA OtherTyped ==
    ASSUME AttachmentTypeOK,
           \/ Sweep \/ Tick
           \/ \E kept \in SUBSET Blobs : Restart(kept)
           \/ \E x \in Files, keep, lost \in BOOLEAN : InterruptUpload(x, keep, lost)
           \/ \E x \in Files, keep \in BOOLEAN : InterruptDownload(x, keep)
    PROVE  AttachmentTypeOK'
  <1> USE DEF AttachmentTypeOK, StoreTypeOK, storeVars, senderVars,
              receiverVars, netVars, faultVars
  <1> USE NoneTyped
  <1>1. CASE Sweep
    <2>1. \A b \in Blobs : Stale(b) => row[b].state \in {"staging", "committed"}
      BY DEF Stale
    <2>2. CASE SweepList
      <3>1. \A b \in Blobs : Stale(b) =>
               [blob |-> b, state |-> row[b].state, step |-> "listed"] \in Victim
        BY <2>1 DEF Victim
      <3>2. victims' \subseteq Victim
        <4> SUFFICES ASSUME NEW v \in victims' PROVE v \in Victim
          OBVIOUS
        <4>1. PICK b \in {x \in Blobs : Stale(x)} :
                 v = [blob |-> b, state |-> row[b].state, step |-> "listed"]
          BY <2>2 DEF SweepList
        <4> QED BY <3>1, <4>1
      <3> QED BY <1>1, <2>2, <3>2 DEF Sweep, SweepList
    <2>3. ASSUME NEW v \in victims, SweepRemove(v) PROVE AttachmentTypeOK'
      <3>1. \A w \in Victim : [w EXCEPT !.step = "removed"] \in Victim
        BY DEF Victim
      <3>2. victims' \subseteq Victim
        BY <2>3, <3>1 DEF SweepRemove
      <3>3. staging' \in [Blobs -> Content] /\ final' \in [Blobs -> Content]
        BY <2>3 DEF SweepRemove, Content
      <3> QED BY <1>1, <2>3, <3>2, <3>3 DEF Sweep, SweepRemove
    <2>4. ASSUME NEW v \in victims, SweepDelete(v) PROVE AttachmentTypeOK'
      BY <1>1, <2>4 DEF Sweep, SweepDelete
    <2> QED BY <1>1, <2>2, <2>3, <2>4 DEF Sweep
  <1>2. CASE Tick
    BY <1>2 DEF Tick
  <1>3. ASSUME NEW kept \in SUBSET Blobs, Restart(kept) PROVE AttachmentTypeOK'
    <2>1. /\ row' \in [Blobs -> Row]
          /\ staging' \in [Blobs -> Content] /\ final' \in [Blobs -> Content]
          /\ used' \subseteq Blobs /\ victims' \subseteq Victim
      BY <1>3 DEF Restart, Reconcile, Content
    <2>2. /\ out' \in [Files -> {"pending", "transferring", "sent", "cancelled"}]
          /\ in' \in [Files -> {"pending", "transferring", "ready", "cancelled",
                                 "unavailable", "expired", "invalid"}]
      BY <1>3 DEF Restart, Left
    <2>3. /\ UNCHANGED <<now, blob, until, message, parts>>
          /\ faults' \in Nat /\ crashes' \in Nat
          /\ requests' = {} /\ answer' = NoAnswer
          /\ up' = NoUpload /\ down' = NoDownload
      BY <1>3 DEF Restart, Fault, StopUpload
    <2> QED BY <2>1, <2>2, <2>3
  <1>4. ASSUME NEW x \in Files, NEW keep \in BOOLEAN, NEW lost \in BOOLEAN,
               InterruptUpload(x, keep, lost)
        PROVE  AttachmentTypeOK'
    <2>1. requests' \subseteq Request
      <3>1. \A r \in Request : [r EXCEPT !.live = FALSE] \in Request
        BY DEF Request
      <3> QED BY <1>4, <3>1 DEF InterruptUpload
    <2>2. out' \in [Files -> {"pending", "transferring", "sent", "cancelled"}]
      BY <1>4 DEF InterruptUpload, Left
    <2> QED BY <1>4, <2>1, <2>2 DEF InterruptUpload, Fault, StopUpload
  <1>5. ASSUME NEW x \in Files, NEW keep \in BOOLEAN, InterruptDownload(x, keep)
        PROVE  AttachmentTypeOK'
    <2>1. in' \in [Files -> {"pending", "transferring", "ready", "cancelled",
                             "unavailable", "expired", "invalid"}]
      BY <1>5 DEF InterruptDownload, Left
    <2> QED BY <1>5, <2>1 DEF InterruptDownload, Fault
  <1> QED BY <1>1, <1>2, <1>3, <1>4, <1>5

\* The parts of the invariant that are about transfers.
LEMMA DownloadStepSound ==
    ASSUME AttachmentTypeOK, ReadyComplete, NamesSound, DownloadSound,
           NEW x \in Files,
           StartDownload(x) \/ DownloadStep(x) \/ CancelDownload(x)
    PROVE  ReadyComplete' /\ NamesSound' /\ DownloadSound'
  <1> USE DEF AttachmentTypeOK, storeVars, senderVars, netVars, faultVars,
              Downloading
  <1>0. NamesSound'
    <2>1. UNCHANGED <<answer, until, blob, up, message>>
      BY DEF StartDownload, DownloadStep, DownloadConnected, Read, TakeReply,
             Verify, CancelDownload
    <2>2. down'.file \in {None, down.file} \/ (down'.file = x /\ message[x] # None)
      <3> USE DEF NoDownload, Running
      <3>1. CASE StartDownload(x)
        BY <3>1 DEF StartDownload, EndDownload
      <3>2. CASE DownloadConnected(x)
        BY <3>2 DEF DownloadConnected, NextChunk
      <3>3. CASE Read(x)
        BY <3>3 DEF Read, Download
      <3>4. CASE TakeReply(x)
        BY <3>4 DEF TakeReply, NextChunk, EndDownload
      <3>5. CASE Verify(x)
        BY <3>5 DEF Verify, EndDownload
      <3>6. CASE CancelDownload(x)
        BY <3>6 DEF CancelDownload
      <3> QED BY <3>1, <3>2, <3>3, <3>4, <3>5, <3>6 DEF DownloadStep
    <2> QED BY <2>1, <2>2 DEF NamesSound
  <1> SUFFICES ReadyComplete' /\ DownloadSound'
    BY <1>0
  <1>1. CASE StartDownload(x)
    BY <1>1 DEF StartDownload, EndDownload, Running, NoDownload, ReadyComplete,
                DownloadSound
  <1>2. CASE DownloadConnected(x)
    BY <1>2 DEF DownloadConnected, NextChunk, Running, NoDownload, ReadyComplete,
                DownloadSound
  <1>3. CASE Read(x)
    <2>1. down'.file = down.file /\ down'.mem = down.mem /\ down'.step = "reply"
      <3>1. PICK kind, c :
               down' = [down EXCEPT !.step = "reply", !.got = kind, !.chunk = c]
        BY <1>3 DEF Read
      <3> QED BY <3>1 DEF Download
    <2>2. in' = in /\ parts' = parts
      BY <1>3 DEF Read
    <2>3. ReadyComplete'
      BY <2>2 DEF ReadyComplete
    <2>4. DownloadSound'
      BY <2>1, <2>2 DEF DownloadSound
    <2> QED BY <2>3, <2>4
  <1>4. CASE TakeReply(x)
    <2> DEFINE c == <<Cardinality(down.mem) + 1, down.chunk>>
    <2>1. CASE down' = NoDownload /\ UNCHANGED parts
      <3>1. \A y \in Files : in'[y] = "ready" => in[y] = "ready"
        BY <1>4, <2>1 DEF TakeReply, EndDownload, NextChunk, Running, NoDownload
      <3> QED BY <2>1, <3>1 DEF ReadyComplete, DownloadSound, NoDownload
    <2>2. CASE /\ Downloading(x) /\ down.file = x
               /\ NextChunk(x, down.mem \union {c})
               /\ parts' = [parts EXCEPT ![x] = @ \union {c}]
               /\ UNCHANGED in
      <3> HIDE DEF c
      <3>1. IsFiniteSet(down.mem \union {c}) /\ down.mem = parts[x]
        BY <2>2, FS_AddElement DEF DownloadSound
      <3> QED BY <2>2, <3>1 DEF NextChunk, Running, ReadyComplete, DownloadSound
    <2> QED BY <1>4, <2>1, <2>2 DEF TakeReply, EndDownload
  <1>5. CASE Verify(x)
    <2>1. down.mem = parts[x]
      BY <1>5 DEF Verify, DownloadSound
    <2>2. \A y \in Files : in'[y] = "ready" => parts'[y] = CipherParts
      BY <1>5, <2>1 DEF Verify, EndDownload, ReadyComplete
    <2>3. \A y \in Files : IsFiniteSet(parts'[y])
      BY <1>5, FS_EmptySet DEF Verify, DownloadSound
    <2> QED BY <1>5, <2>2, <2>3
        DEF Verify, EndDownload, NoDownload, ReadyComplete, DownloadSound
  <1>6. CASE CancelDownload(x)
    BY <1>6, FS_EmptySet DEF CancelDownload, ReadyComplete, DownloadSound
  <1> QED BY <1>1, <1>2, <1>3, <1>4, <1>5, <1>6 DEF DownloadStep

\* The parts of the invariant that are about the store and its requests.
StoreSound ==
    /\ ServedVerified
    /\ FreshSound
    /\ FilesSound
    /\ CommitSound
    /\ SweepSound
    /\ StepsSound

\* What an upload does to them: it asks about the blob it was told of.
LEMMA AskSound ==
    ASSUME AttachmentTypeOK, StoreSound, NEW x \in Files,
           UNCHANGED <<now, row, staging, final, used, victims>>,
           answer' \in {answer, NoAnswer},
           \/ blob' = blob
           \/ blob' = [blob EXCEPT ![x] = answer.blob],
           \/ requests' = requests
           \/ \E q \in Request :
                 /\ q.step = "sent"
                 /\ \/ q.kind = "begin" /\ q.blob = None
                    \/ q.blob \in Blobs /\ q.blob = blob'[x]
                 /\ requests' = requests \union {q}
    PROVE  StoreSound'
  <1> USE DEF AttachmentTypeOK, StoreTypeOK
  <1>1. \A b \in Blobs : Unnamed(b) => Unnamed(b)' /\ blob'[x] # b
    BY DEF Unnamed, NoAnswer
  <1>2. \A q \in requests' :
           \/ q \in requests
           \/ /\ q.step = "sent"
              /\ \/ q.kind = "begin" /\ q.blob = None
                 \/ q.blob \in Blobs /\ q.blob = blob'[x]
    OBVIOUS
  <1>3. ServedVerified' /\ FilesSound' /\ SweepSound'
    BY DEF StoreSound, ServedVerified, Readable, FilesSound, SweepSound
  <1>4. StepsSound'
    BY <1>2 DEF StoreSound, StepsSound
  <1>5. CommitSound'
    BY <1>2 DEF StoreSound, CommitSound
  <1>6. FreshSound'
    <2>1. \A b \in Blobs \ used :
             /\ row[b].state = "none" /\ staging[b] = NoFile /\ final[b] = NoFile
             /\ Unnamed(b)'
             /\ \A r \in requests' : r.blob # b
      BY <1>1, <1>2 DEF StoreSound, FreshSound
    <2>2. ASSUME NEW r \in requests', r.step = "inserted"
          PROVE  /\ r.blob \in Blobs
                 /\ row[r.blob].state # "committed"
                 /\ staging[r.blob] = NoFile /\ final[r.blob] = NoFile
                 /\ Unnamed(r.blob)'
                 /\ \A q \in requests' : q.blob = r.blob => q = r
      <3>1. r \in requests /\ r.blob \in Blobs /\ Unnamed(r.blob)
        BY <1>2, <2>2 DEF StoreSound, FreshSound
      <3> QED BY <1>1, <1>2, <2>2, <3>1 DEF StoreSound, FreshSound
    <2>3. \A r \in requests' : r.kind # "begin" => r.blob \in Blobs
      BY <1>2 DEF StoreSound, FreshSound
    <2> QED BY <2>1, <2>2, <2>3 DEF FreshSound
  <1> QED BY <1>3, <1>4, <1>5, <1>6 DEF StoreSound

LEMMA UploadStoreSound ==
    ASSUME AttachmentTypeOK, StoreSound, NamesSound, NEW x \in Files,
           StartUpload(x) \/ UploadStep(x) \/ CancelUpload(x)
    PROVE  StoreSound'
  <1> USE DEF AttachmentTypeOK, StoreTypeOK, storeVars, netVars
  <1> DEFINE Asks(q) == /\ q.step = "sent"
                        /\ \/ q.kind = "begin" /\ q.blob = None
                           \/ q.blob \in Blobs /\ q.blob = blob'[x]
                        /\ requests' = requests \union {q}
  <1>1. ASSUME NEW kind \in {"resume", "chunk", "commit"}, NEW at \in Int,
               NEW b \in Blobs, b = blob'[x], Ask(x, kind, b, at)
        PROVE  \E q \in Request : Asks(q)
    <2> DEFINE q == [kind |-> kind, blob |-> b, at |-> at, live |-> TRUE,
                     step |-> "sent"]
    <2>1. q \in Request
      BY DEF Request
    <2>2. Asks(q)
      BY <1>1 DEF Ask
    <2> QED BY <2>1, <2>2
  <1>2. ASSUME Ask(x, "begin", None, 0) PROVE \E q \in Request : Asks(q)
    <2> DEFINE q == [kind |-> "begin", blob |-> None, at |-> 0, live |-> TRUE,
                     step |-> "sent"]
    <2>1. q \in Request
      BY DEF Request
    <2>2. Asks(q)
      BY <1>2 DEF Ask
    <2> QED BY <2>1, <2>2
  <1>3. ASSUME NEW b \in Blobs, NEW at \in Int, b = blob'[x], Continue(x, b, at)
        PROVE  \E q \in Request : Asks(q)
    <2>1. CASE at < Size
      BY <1>1, <1>3, <2>1 DEF Continue
    <2>2. CASE ~(at < Size)
      BY <1>1, <1>3, <2>2 DEF Continue
    <2> QED BY <2>1, <2>2
  <1> HIDE DEF Asks
  <1>4. /\ answer.at \in Int /\ up.offset + 1 \in Int /\ 0 \in Int
        /\ up.file = x /\ up.step \in {"resume", "chunk"} => blob[x] \in Blobs
        /\ answer.kind = "started" => answer.blob \in Blobs
    BY DEF Answer, Upload, NamesSound
  <1>5. UNCHANGED <<now, row, staging, final, used, victims>>
    BY DEF StartUpload, UploadStep, CancelUpload, Connected, ResumeReply,
           BeginReply, ChunkReply, CommitReply, SendMessage, Hears
  <1>6. answer' \in {answer, NoAnswer}
    BY DEF StartUpload, UploadStep, CancelUpload, Connected, ResumeReply,
           BeginReply, ChunkReply, CommitReply, SendMessage, Hears
  <1>7. blob' = blob \/ blob' = [blob EXCEPT ![x] = answer.blob]
    BY DEF StartUpload, UploadStep, CancelUpload, Connected, ResumeReply,
           BeginReply, ChunkReply, CommitReply, SendMessage
  <1>8. requests' = requests \/ \E q \in Request : Asks(q)
    <2>1. CASE StartUpload(x) \/ CancelUpload(x) \/ CommitReply(x) \/ SendMessage(x)
      BY <2>1 DEF StartUpload, CancelUpload, CommitReply, SendMessage
    <2>2. CASE Connected(x)
      <3>1. CASE Ask(x, "resume", blob[x], 0) /\ blob[x] # None
        <4>1. blob[x] \in Blobs /\ blob[x] = blob'[x]
          BY <2>2, <3>1 DEF Connected
        <4> QED BY <1>1, <1>4, <3>1, <4>1
      <3> QED BY <1>2, <2>2, <3>1 DEF Connected
    <2>3. CASE ResumeReply(x)
      <3>1. CASE Continue(x, blob[x], answer.at)
        <4>1. blob[x] \in Blobs /\ blob[x] = blob'[x]
          BY <1>4, <2>3 DEF ResumeReply, Hears
        <4> QED BY <1>3, <1>4, <3>1, <4>1
      <3> QED BY <1>2, <2>3, <3>1 DEF ResumeReply
    <2>4. CASE BeginReply(x)
      <3>1. CASE /\ Continue(x, answer.blob, 0) /\ answer.kind = "started"
                 /\ blob' = [blob EXCEPT ![x] = answer.blob]
        <4>1. answer.blob \in Blobs /\ answer.blob = blob'[x]
          BY <1>4, <3>1
        <4> QED BY <1>3, <1>4, <3>1, <4>1
      <3> QED BY <2>4, <3>1 DEF BeginReply
    <2>5. CASE ChunkReply(x)
      <3>1. CASE Continue(x, blob[x], up.offset + 1)
        <4>1. blob[x] \in Blobs /\ blob[x] = blob'[x]
          BY <1>4, <2>5 DEF ChunkReply, Hears
        <4> QED BY <1>3, <1>4, <3>1, <4>1, Zenon
      <3> QED BY <2>5, <3>1 DEF ChunkReply
    <2> QED BY <2>1, <2>2, <2>3, <2>4, <2>5 DEF UploadStep
  <1> QED BY <1>5, <1>6, <1>7, <1>8, AskSound DEF Asks

LEMMA UploadNamesSound ==
    ASSUME AttachmentTypeOK, NamesSound, NEW x \in Files,
           StartUpload(x) \/ UploadStep(x) \/ CancelUpload(x)
    PROVE  NamesSound'
  <1> USE DEF AttachmentTypeOK, StoreTypeOK, storeVars, receiverVars, netVars,
              NamesSound
  <1>1. CASE StartUpload(x)
    BY <1>1 DEF StartUpload
  <1>2. CASE Connected(x)
    BY <1>2 DEF Connected, Ask, StopUpload, NoUpload
  <1>3. CASE ResumeReply(x)
    BY <1>3 DEF ResumeReply, Hears, FailUpload, StopUpload, Continue, Ask,
                NoUpload, NoAnswer
  <1>4. CASE BeginReply(x)
    <2>1. CASE /\ up' = NoUpload
               /\ UNCHANGED <<blob, until>>
      BY <1>4, <2>1 DEF BeginReply, Hears, NoUpload, NoAnswer
    <2>2. CASE /\ blob' = [blob EXCEPT ![x] = answer.blob]
               /\ until' = [until EXCEPT ![x] = 0]
               /\ up'.file = x /\ answer.blob # None
      BY <1>4, <2>2 DEF BeginReply, Hears, NoAnswer
    <2>3. up' = NoUpload \/ up'.file = x
      BY <1>4 DEF BeginReply, FailUpload, StopUpload, Continue, Ask
    <2> QED BY <1>4, <2>1, <2>2, <2>3
        DEF BeginReply, FailUpload, StopUpload, Continue, Ask
  <1>5. CASE ChunkReply(x)
    BY <1>5 DEF ChunkReply, Hears, FailUpload, StopUpload, Continue, Ask,
                NoUpload, NoAnswer
  <1>6. CASE CommitReply(x)
    BY <1>6 DEF CommitReply, Hears, FailUpload, StopUpload, NoUpload, NoAnswer,
                Upload
  <1>7. CASE SendMessage(x)
    BY <1>7 DEF SendMessage, StopUpload, NoUpload
  <1>8. CASE CancelUpload(x)
    BY <1>8 DEF CancelUpload
  <1> QED BY <1>1, <1>2, <1>3, <1>4, <1>5, <1>6, <1>7, <1>8 DEF UploadStep

LEMMA RelayNamesSound ==
    ASSUME AttachmentTypeOK, FreshSound, NamesSound, NEW r \in requests,
           RelayStep(r) \/ HandlerFails(r)
    PROVE  NamesSound'
  <1>1. UNCHANGED <<until, blob, up, down, message>>
    BY DEF RelayStep, HandlerFails, Begin, BeginCreate, Resume, Chunk, ChunkAppend,
           ChunkCount, Commit, CommitRename, CommitMark, Serving, senderVars,
           receiverVars
  <1>2. answer' = answer \/ answer'.kind # "started" \/ answer'.blob # None
    <2>1. CASE BeginCreate(r)
      BY <2>1 DEF BeginCreate, Serving, Reply, FreshSound
    <2>2. CASE ~BeginCreate(r)
      BY <2>2 DEF RelayStep, HandlerFails, Begin, Resume, Chunk, ChunkAppend,
           ChunkCount, Commit, CommitRename, CommitMark, Reply, Proceed
    <2> QED BY <2>1, <2>2
  <1> QED BY <1>1, <1>2 DEF NamesSound

\* What a handler does to the store's invariant when it ends without having
\* changed the store.
LEMMA ReplySound ==
    ASSUME AttachmentTypeOK, StoreSound, NEW r \in requests,
           UNCHANGED <<now, row, staging, final, used, victims, blob>>,
           requests' = requests \ {r},
           answer' = answer \/ answer'.blob = None \/ answer'.blob = r.blob
    PROVE  StoreSound'
  <1> USE DEF AttachmentTypeOK, StoreTypeOK, StoreSound
  <1>1. ServedVerified' /\ FilesSound' /\ SweepSound'
    BY DEF ServedVerified, Readable, FilesSound, SweepSound
  <1>2. StepsSound' /\ CommitSound'
    BY DEF StepsSound, CommitSound
  <1>3. FreshSound'
    BY DEF FreshSound, Unnamed
  <1> QED BY <1>1, <1>2, <1>3

\* The same for a handler that goes on without having changed the store.
LEMMA ProceedSound ==
    ASSUME AttachmentTypeOK, StoreSound, NEW r \in requests, NEW p \in Request,
           UNCHANGED <<now, row, staging, final, used, victims, blob, answer>>,
           r.step # "inserted", r.kind # "begin",
           p.blob = r.blob, p.kind = r.kind,
           \/ p.step \in {"opened", "appended"} /\ p.kind = "chunk"
           \/ /\ p.step = "verified" /\ p.kind = "commit"
              /\ HoldsCiphertext(staging[p.blob]),
           requests' = (requests \ {r}) \union {p}
    PROVE  StoreSound'
  <1> USE DEF AttachmentTypeOK, StoreTypeOK, StoreSound
  <1>1. ServedVerified' /\ FilesSound' /\ SweepSound'
    BY DEF ServedVerified, Readable, FilesSound, SweepSound
  <1>2. StepsSound' /\ CommitSound'
    BY DEF StepsSound, CommitSound
  <1>3. FreshSound'
    BY DEF FreshSound, Unnamed
  <1> QED BY <1>1, <1>2, <1>3

LEMMA BeginSound ==
    ASSUME AttachmentTypeOK, StoreSound, NEW r \in requests,
           Begin(r) \/ BeginCreate(r)
    PROVE  StoreSound'
  <1> USE DEF AttachmentTypeOK, StoreTypeOK, StoreSound, storeVars, senderVars
  <1>1. CASE Begin(r) /\ OverQuota
    BY <1>1, ReplySound DEF Begin, Serving, Reply
  <1>2. CASE Begin(r) /\ ~OverQuota
    <2> DEFINE b == FreshBlob
               p == [r EXCEPT !.step = "inserted", !.blob = b, !.at = 0]
    <2>1. b \in Blobs /\ b \notin used
      BY <1>2 DEF Begin, FreshBlob
    <2>2. p.step = "inserted" /\ p.blob = b /\ p.kind = "begin"
      BY <1>2 DEF Begin, Serving, Request
    <2>3. /\ UNCHANGED <<now, staging, final, victims, blob, answer>>
          /\ used' = used \union {b}
          /\ requests' = (requests \ {r}) \union {p}
          /\ row'[b].state = "staging"
          /\ \A c \in Blobs \ {b} : row'[c] = row[c]
      BY <1>2, <2>1 DEF Begin, InsertRow, Proceed, Serving
    <2>4. /\ row[b].state = "none" /\ staging[b] = NoFile /\ final[b] = NoFile
          /\ Unnamed(b) /\ \A q \in requests : q.blob # b
      BY <2>1 DEF FreshSound
    <2> HIDE DEF b, p
    <2>5. ServedVerified' /\ FilesSound' /\ SweepSound'
      <3>1. \A v \in victims : v.blob \in Blobs
        BY DEF Victim
      <3> QED BY <2>1, <2>3, <2>4, <3>1
          DEF ServedVerified, Readable, FilesSound, SweepSound
    <2>6. StepsSound' /\ CommitSound'
      <3>1. \A q \in requests : q.step \in {"verified", "renamed"} => q.blob \in Blobs
        BY DEF StepsSound, FreshSound
      <3> QED BY <2>1, <2>2, <2>3, <2>4, <3>1 DEF StepsSound, CommitSound
    <2>7. FreshSound'
      BY <2>1, <2>2, <2>3, <2>4 DEF FreshSound, Unnamed
    <2> QED BY <2>5, <2>6, <2>7
  <1>3. CASE BeginCreate(r)
    <2> DEFINE b == r.blob
    <2>1. /\ r.step = "inserted" /\ b \in Blobs
          /\ row[b].state # "committed"
          /\ staging[b] = NoFile /\ final[b] = NoFile
          /\ \A q \in requests : q.blob = b => q = r
      BY <1>3 DEF BeginCreate, Serving, FreshSound
    <2>2. /\ UNCHANGED <<now, row, final, victims, used, blob>>
          /\ requests' = requests \ {r}
          /\ answer' = answer \/ answer'.blob = b
          /\ \A c \in Blobs \ {b} : staging'[c] = staging[c]
      BY <1>3 DEF BeginCreate, CreateFile, Reply, Serving
    <2>3. ServedVerified' /\ FilesSound' /\ SweepSound'
      BY <2>1, <2>2 DEF ServedVerified, Readable, FilesSound, SweepSound
    <2>4. StepsSound' /\ CommitSound'
      <3>1. \A q \in requests : q.step \in {"verified", "renamed"} => q.blob \in Blobs
        BY DEF StepsSound, FreshSound
      <3> QED BY <2>1, <2>2, <3>1 DEF StepsSound, CommitSound
    <2>5. FreshSound'
      BY <2>1, <2>2 DEF FreshSound, Unnamed
    <2> QED BY <2>3, <2>4, <2>5
  <1> QED BY <1>1, <1>2, <1>3

\* A file that holds the ciphertext holds it when something is appended.
LEMMA AppendHolds ==
    ASSUME NEW f \in Content, f # NoFile, NEW e \in Int
    PROVE  /\ Append(f, e) # NoFile
           /\ HoldsCiphertext(f) => HoldsCiphertext(Append(f, e))
  <1>1. f \in Seq(Int) /\ Append(f, e) \in Seq(Int)
    BY DEF Content
  <1>2. /\ DOMAIN f \subseteq DOMAIN Append(f, e)
        /\ \A i \in DOMAIN f : Append(f, e)[i] = f[i]
    BY <1>1
  <1> QED BY <1>1, <1>2 DEF HoldsCiphertext

LEMMA ChunkSound ==
    ASSUME AttachmentTypeOK, StoreSound, NEW r \in requests,
           Resume(r) \/ Chunk(r) \/ ChunkAppend(r) \/ ChunkCount(r)
    PROVE  StoreSound'
  <1> USE DEF AttachmentTypeOK, StoreTypeOK, StoreSound, storeVars, senderVars
  <1> DEFINE b == r.blob
  <1>0. /\ b \in Blobs /\ r.kind # "begin" /\ r.step # "inserted"
        /\ r.step \notin {"verified", "renamed"} /\ r.at \in Int
        /\ \A q \in requests : q.step \in {"verified", "renamed"} => q.blob \in Blobs
        /\ \A q \in requests : q.step = "inserted" => q.blob \in Blobs /\ q.blob # b
    BY DEF Resume, Chunk, ChunkAppend, ChunkCount, Serving, FreshSound, StepsSound,
           Request
  <1>1. CASE Resume(r)
    BY <1>1, ReplySound DEF Resume, Serving, Reply
  <1>2. CASE Chunk(r)
    <2> DEFINE p == [r EXCEPT !.step = "opened", !.blob = b, !.at = r.at]
    <2>1. /\ p \in Request /\ p.step = "opened" /\ p.blob = b
          /\ p.kind = r.kind /\ p.kind = "chunk"
      <3>1. r.kind = "chunk"
        BY <1>2 DEF Chunk, Serving
      <3>2. r \in Request
        OBVIOUS
      <3>3. p.step = "opened" /\ p.blob = b /\ p.kind = r.kind
        BY <3>2 DEF Request
      <3>4. p \in Request
        BY <1>0, <3>1, <3>2 DEF Request
      <3> QED BY <3>1, <3>3, <3>4
    <2>2. CASE TakesChunk(b, r.at)
      <3>1. /\ UNCHANGED <<now, row, staging, final, used, victims, blob, answer>>
            /\ requests' = (requests \ {r}) \union {p}
        BY <1>2, <2>2 DEF Chunk, Serving, Proceed
      <3> HIDE DEF p
      <3> QED BY <1>0, <2>1, <3>1, ProceedSound
    <2>3. CASE ~TakesChunk(b, r.at)
      BY <1>2, <2>3, ReplySound DEF Chunk, Serving, Reply
    <2> QED BY <2>2, <2>3
  <1>3. CASE ChunkAppend(r)
    <2> DEFINE p == [r EXCEPT !.step = "appended", !.blob = b, !.at = r.at]
    <2>1. p.step = "appended" /\ p.blob = b /\ p.kind = "chunk"
      BY <1>3 DEF ChunkAppend, Serving, Request
    <2>2. /\ UNCHANGED <<now, row, used, victims, blob, answer>>
          /\ requests' = (requests \ {r}) \union {p}
          /\ AppendChunk(b, r.at)
      BY <1>3 DEF ChunkAppend, AppendChunk, Serving, Proceed
    <2>3. \A c \in Blobs \ {b} : staging'[c] = staging[c] /\ final'[c] = final[c]
      BY <1>0, <2>2 DEF AppendChunk
    <2>4. /\ staging'[b] = NoFile <=> staging[b] = NoFile
          /\ final'[b] = NoFile <=> final[b] = NoFile
          /\ HoldsCiphertext(staging[b]) => HoldsCiphertext(staging'[b])
          /\ HoldsCiphertext(final[b]) => HoldsCiphertext(final'[b])
      <3>1. staging[b] \in Content /\ final[b] \in Content /\ r.at + 1 \in Int
        BY <1>0
      <3>2. CASE staging[b] # NoFile
        <4>1. staging'[b] = Append(staging[b], r.at + 1) /\ final' = final
          BY <1>0, <2>2, <3>2 DEF AppendChunk
        <4> QED BY <3>1, <3>2, <4>1, AppendHolds
      <3>3. CASE staging[b] = NoFile /\ final[b] # NoFile
        <4>1. final'[b] = Append(final[b], r.at + 1) /\ staging' = staging
          BY <1>0, <2>2, <3>3 DEF AppendChunk
        <4> QED BY <3>1, <3>3, <4>1, AppendHolds
      <3>4. CASE staging[b] = NoFile /\ final[b] = NoFile
        BY <2>2, <3>4 DEF AppendChunk
      <3> QED BY <3>2, <3>3, <3>4
    <2> HIDE DEF p
    <2>5. \A c \in Blobs :
             /\ staging'[c] = NoFile <=> staging[c] = NoFile
             /\ final'[c] = NoFile <=> final[c] = NoFile
             /\ HoldsCiphertext(staging[c]) => HoldsCiphertext(staging'[c])
             /\ HoldsCiphertext(final[c]) => HoldsCiphertext(final'[c])
      BY <2>3, <2>4
    <2>6. ServedVerified' /\ FilesSound' /\ SweepSound'
      <3>1. ServedVerified'
        BY <2>2, <2>5 DEF ServedVerified, Readable
      <3> QED BY <2>2, <2>5, <3>1 DEF FilesSound, SweepSound
    <2>7. StepsSound' /\ CommitSound'
      BY <1>0, <2>1, <2>2, <2>5 DEF StepsSound, CommitSound
    <2>8. FreshSound'
      BY <1>0, <2>1, <2>2, <2>5 DEF FreshSound, Unnamed
    <2> QED BY <2>6, <2>7, <2>8
  <1>4. CASE ChunkCount(r)
    <2>1. /\ UNCHANGED <<now, staging, final, used, victims, blob>>
          /\ requests' = requests \ {r}
          /\ answer' = answer \/ answer'.blob = b
          /\ CountChunk(b)
      BY <1>4 DEF ChunkCount, CountChunk, Serving, Reply
    <2>2. \A c \in Blobs :
             row'[c].state = row[c].state /\ row'[c].expires = row[c].expires
      <3>1. \A c \in Blobs \ {b} : row'[c] = row[c]
        BY <1>0, <2>1 DEF CountChunk
      <3>2. row'[b] = row[b] \/ row'[b] = [row[b] EXCEPT !.stored = @ + 1]
        BY <1>0, <2>1 DEF CountChunk
      <3>3. row[b] \in Row
        BY <1>0
      <3>4. row'[b].state = row[b].state /\ row'[b].expires = row[b].expires
        BY <3>2, <3>3 DEF Row
      <3> QED BY <3>1, <3>4
    <2>3. ServedVerified' /\ FilesSound' /\ SweepSound'
      <3>1. \A v \in victims : v.blob \in Blobs
        BY DEF Victim
      <3> QED BY <2>1, <2>2, <3>1
          DEF ServedVerified, Readable, FilesSound, SweepSound
    <2>4. StepsSound' /\ CommitSound'
      <3>1. StepsSound'
        BY <2>1 DEF StepsSound
      <3>2. \A q \in requests :
               q.step \in {"verified", "renamed"} => q.blob \in Blobs
        BY DEF StepsSound, FreshSound
      <3>3. CommitSound'
        <4> HIDE DEF AttachmentTypeOK, StoreTypeOK
        <4> QED BY <2>1, <2>2, <3>2 DEF CommitSound
      <3> QED BY <3>1, <3>3
    <2>5. FreshSound'
      <3>1. \A c \in Blobs : Unnamed(c) /\ c # b => Unnamed(c)'
        BY <2>1 DEF Unnamed
      <3>2. b \in used
        BY <1>0 DEF FreshSound
      <3>3. ASSUME NEW c \in Blobs \ used'
            PROVE  /\ row'[c].state = "none"
                   /\ staging'[c] = NoFile /\ final'[c] = NoFile
                   /\ Unnamed(c)'
                   /\ \A q \in requests' : q.blob # c
        BY <1>0, <2>1, <2>2, <3>1, <3>2 DEF FreshSound
      <3>4. ASSUME NEW q \in requests', q.step = "inserted"
            PROVE  /\ q.blob \in Blobs
                   /\ row'[q.blob].state # "committed"
                   /\ staging'[q.blob] = NoFile /\ final'[q.blob] = NoFile
                   /\ Unnamed(q.blob)'
                   /\ \A p \in requests' : p.blob = q.blob => p = q
        <4>1. q \in requests /\ q # r
          BY <1>0, <2>1, <3>4
        <4>2. /\ q.blob \in Blobs
              /\ row[q.blob].state # "committed"
              /\ staging[q.blob] = NoFile /\ final[q.blob] = NoFile
              /\ Unnamed(q.blob)
              /\ \A p \in requests : p.blob = q.blob => p = q
          BY <3>4, <4>1 DEF FreshSound
        <4>3. q.blob # b
          BY <4>1, <4>2
        <4> QED BY <2>1, <2>2, <3>1, <4>2, <4>3
      <3>5. \A q \in requests' : q.kind # "begin" => q.blob \in Blobs
        BY <2>1 DEF FreshSound
      <3> QED BY <3>3, <3>4, <3>5 DEF FreshSound
    <2> QED BY <2>3, <2>4, <2>5
  <1> QED BY <1>1, <1>2, <1>3, <1>4

LEMMA CommitStepSound ==
    ASSUME AttachmentTypeOK, StoreSound, NEW r \in requests,
           Commit(r) \/ CommitRename(r) \/ CommitMark(r)
    PROVE  StoreSound'
  <1> USE DEF AttachmentTypeOK, StoreTypeOK, StoreSound, storeVars, senderVars
  <1> DEFINE b == r.blob
  <1>0. /\ b \in Blobs /\ r.kind # "begin" /\ r.step # "inserted" /\ r.at \in Int
        /\ \A q \in requests : q.step \in {"verified", "renamed"} => q.blob \in Blobs
        /\ \A q \in requests : q.step = "inserted" => q.blob \in Blobs /\ q.blob # b
        /\ \A v \in victims : v.blob \in Blobs
    BY DEF Commit, CommitRename, CommitMark, Serving, FreshSound, StepsSound,
           Request, Victim
  <1>1. CASE Commit(r) /\ ~Verifies(b)
    BY <1>1, ReplySound DEF Commit, Serving, Reply
  <1>2. CASE Commit(r) /\ Verifies(b)
    <2>1. BlobExpiry(IF BlobTtl = 0 THEN 0 ELSE now + BlobTtl) \in Int
      <3>1. (IF BlobTtl = 0 THEN 0 ELSE now + BlobTtl) \in Int
        OBVIOUS
      <3>2. now \in Nat /\ DefaultBlobTTL \in Nat
        OBVIOUS
      <3> QED BY <3>1, <3>2, EffectiveType, Zenon DEF BlobExpiry
    <2> DEFINE e == BlobExpiry(IF BlobTtl = 0 THEN 0 ELSE now + BlobTtl)
               p == [r EXCEPT !.step = "verified", !.blob = b, !.at = e]
    <2>2. /\ UNCHANGED <<now, row, staging, final, used, victims, blob, answer>>
          /\ requests' = (requests \ {r}) \union {p}
      BY <1>2 DEF Commit, Serving, Proceed
    <2> HIDE DEF e
    <2>3. /\ p \in Request /\ p.step = "verified" /\ p.blob = b
          /\ p.kind = r.kind /\ p.kind = "commit"
      <3>1. r.kind = "commit" /\ e \in Int
        BY <1>2, <2>1 DEF Commit, Serving, e
      <3>2. r \in Request
        OBVIOUS
      <3>3. p.step = "verified" /\ p.blob = b /\ p.kind = r.kind
        BY <3>2 DEF Request
      <3>4. p \in Request
        BY <1>0, <3>1, <3>2 DEF Request
      <3> QED BY <3>1, <3>3, <3>4
    <2>4. HoldsCiphertext(staging[b])
      BY <1>2 DEF Verifies, HoldsCiphertext, Ciphertext
    <2> HIDE DEF p
    <2> QED BY <1>0, <2>2, <2>3, <2>4, ProceedSound
  <1>3. CASE CommitRename(r) /\ staging[b] = NoFile
    BY <1>3, ReplySound DEF CommitRename, RenameFile, Serving, Reply
  <1>4. CASE CommitRename(r) /\ staging[b] # NoFile
    <2> DEFINE p == [r EXCEPT !.step = "renamed", !.blob = b, !.at = r.at]
    <2>1. p.step = "renamed" /\ p.blob = b /\ p.kind = "commit"
      BY <1>4 DEF CommitRename, Serving, Request
    <2>2. /\ UNCHANGED <<now, row, used, victims, blob, answer>>
          /\ requests' = (requests \ {r}) \union {p}
          /\ staging'[b] = NoFile /\ final'[b] = staging[b]
          /\ \A c \in Blobs \ {b} : staging'[c] = staging[c] /\ final'[c] = final[c]
      BY <1>0, <1>4 DEF CommitRename, RenameFile, Serving, Proceed
    <2>3. /\ HoldsCiphertext(staging[b]) /\ row[b].state # "committed"
          /\ \A q \in requests : q.step = "renamed" => q.blob # b
      BY <1>0, <1>4 DEF CommitRename, Serving, CommitSound, FilesSound
    <2>4. b \in used
      BY <1>0 DEF FreshSound
    <2> HIDE DEF p
    <2>5. ServedVerified' /\ FilesSound' /\ SweepSound'
      BY <1>0, <2>2, <2>3 DEF ServedVerified, Readable, FilesSound, SweepSound
    <2>6. StepsSound' /\ CommitSound'
      BY <1>0, <2>1, <2>2, <2>3 DEF StepsSound, CommitSound
    <2>7. FreshSound'
      BY <1>0, <2>1, <2>2, <2>4 DEF FreshSound, Unnamed
    <2> QED BY <2>5, <2>6, <2>7
  <1>5. CASE CommitMark(r)
    <2>1. /\ UNCHANGED <<now, staging, final, used, victims, blob>>
          /\ requests' = requests \ {r}
          /\ answer' = answer \/ answer'.blob = b
          /\ \A c \in Blobs \ {b} : row'[c] = row[c]
      BY <1>0, <1>5 DEF CommitMark, MarkCommitted, Serving, Reply
    <2>2. /\ staging[b] = NoFile /\ HoldsCiphertext(final[b])
          /\ row[b].state # "committed"
          /\ \A q \in requests : q.step = "renamed" /\ q.blob = b => q = r
      BY <1>5 DEF CommitMark, Serving, CommitSound
    <2>3. b \in used
      BY <1>0 DEF FreshSound
    <2>4. ServedVerified' /\ FilesSound' /\ SweepSound'
      BY <1>0, <2>1, <2>2 DEF ServedVerified, Readable, FilesSound, SweepSound
    <2>5. StepsSound' /\ CommitSound'
      BY <1>0, <2>1, <2>2 DEF StepsSound, CommitSound
    <2>6. FreshSound'
      BY <1>0, <2>1, <2>3 DEF FreshSound, Unnamed
    <2> QED BY <2>4, <2>5, <2>6
  <1> QED BY <1>1, <1>2, <1>3, <1>4, <1>5

LEMMA SweepStepSound ==
    ASSUME AttachmentTypeOK, StoreSound, Sweep
    PROVE  StoreSound'
  <1> USE DEF AttachmentTypeOK, StoreTypeOK, StoreSound, senderVars, netVars
  <1>0. /\ UNCHANGED <<now, blob, requests, answer>>
        /\ \A v \in victims : v.blob \in Blobs
        /\ \A q \in requests : q.step \in {"verified", "renamed"} => q.blob \in Blobs
    BY DEF Sweep, StepsSound, FreshSound, Victim
  <1>1. CASE SweepList
    <2>1. UNCHANGED <<row, staging, final, used>>
      BY <1>1 DEF SweepList
    <2>2. \A v \in victims' : v.state = "committed" =>
             row[v.blob].state = "committed" /\ row[v.blob].expires <= now
      <3> SUFFICES ASSUME NEW v \in victims', v.state = "committed"
                   PROVE  row[v.blob].state = "committed" /\ row[v.blob].expires <= now
        OBVIOUS
      <3>1. PICK b \in {x \in Blobs : Stale(x)} :
               v = [blob |-> b, state |-> row[b].state, step |-> "listed"]
        BY <1>1 DEF SweepList
      <3> QED BY <3>1 DEF Stale
    <2>3. \A v, w \in victims' : v.blob = w.blob => v = w
      <3> SUFFICES ASSUME NEW v \in victims', NEW w \in victims', v.blob = w.blob
                   PROVE  v = w
        OBVIOUS
      <3>1. PICK b \in {x \in Blobs : Stale(x)} :
               v = [blob |-> b, state |-> row[b].state, step |-> "listed"]
        BY <1>1 DEF SweepList
      <3>2. PICK c \in {x \in Blobs : Stale(x)} :
               w = [blob |-> c, state |-> row[c].state, step |-> "listed"]
        BY <1>1 DEF SweepList
      <3> QED BY <3>1, <3>2
    <2>4. ServedVerified' /\ FilesSound' /\ SweepSound'
      BY <1>0, <2>1, <2>2, <2>3
      DEF ServedVerified, Readable, FilesSound, SweepSound
    <2>5. StepsSound' /\ CommitSound' /\ FreshSound'
      BY <1>0, <2>1 DEF StepsSound, CommitSound, FreshSound, Unnamed
    <2> QED BY <2>4, <2>5
  <1>2. ASSUME NEW v \in victims, SweepRemove(v) PROVE StoreSound'
    <2> DEFINE b == v.blob
    <2>1. UNCHANGED <<row, used>>
      BY <1>2 DEF SweepRemove
    <2>2. \A c \in Blobs :
             /\ staging'[c] = staging[c] \/ staging'[c] = NoFile
             /\ \/ final'[c] = final[c]
                \/ /\ final'[c] = NoFile
                   /\ row[c].state = "committed" /\ row[c].expires <= now
      BY <1>2 DEF SweepRemove, SweepSound
    <2> DEFINE g == [v EXCEPT !.step = "removed"]
    <2>3. /\ victims' = (victims \ {v}) \union {g}
          /\ g.blob = v.blob /\ g.state = v.state
      <3>1. \A w \in Victim : /\ [w EXCEPT !.step = "removed"].blob = w.blob
                               /\ [w EXCEPT !.step = "removed"].state = w.state
        BY DEF Victim
      <3>2. v \in Victim
        OBVIOUS
      <3> QED BY <1>2, <3>1, <3>2 DEF SweepRemove
    <2> HIDE DEF g
    <2>4. ServedVerified' /\ FilesSound' /\ SweepSound'
      <3>1. ServedVerified'
        <4>1. \A c \in Blobs : ~(row[c].expires <= now /\ row[c].expires > now)
          BY DEF Row
        <4> QED BY <1>0, <2>1, <2>2, <4>1 DEF ServedVerified, Readable
      <3>2. FilesSound'
        BY <1>0, <2>1, <2>2 DEF FilesSound
      <3>3. SweepSound'
        BY <1>0, <2>1, <2>3 DEF SweepSound
      <3> QED BY <3>1, <3>2, <3>3
    <2>5. StepsSound' /\ CommitSound'
      BY <1>0, <2>1, <2>2 DEF StepsSound, CommitSound
    <2>6. FreshSound'
      BY <1>0, <2>1, <2>2 DEF FreshSound, Unnamed
    <2> QED BY <2>4, <2>5, <2>6
  <1>3. ASSUME NEW v \in victims, SweepDelete(v) PROVE StoreSound'
    <2> DEFINE b == v.blob
    <2>1. /\ UNCHANGED <<staging, final, used>>
          /\ victims' = victims \ {v}
          /\ b \in Blobs /\ row'[b].state = "none"
          /\ \A c \in Blobs \ {b} : row'[c] = row[c]
      BY <1>0, <1>3 DEF SweepDelete, NoRow
    <2>2. ServedVerified' /\ FilesSound' /\ SweepSound'
      <3>1. ServedVerified' /\ FilesSound'
        BY <1>0, <2>1 DEF ServedVerified, Readable, FilesSound
      <3>2. SweepSound'
        BY <1>0, <2>1 DEF SweepSound
      <3> QED BY <3>1, <3>2
    <2>3. StepsSound' /\ CommitSound'
      BY <1>0, <2>1 DEF StepsSound, CommitSound
    <2>4. FreshSound'
      <3>1. ASSUME NEW c \in Blobs \ used'
            PROVE  /\ row'[c].state = "none"
                   /\ staging'[c] = NoFile /\ final'[c] = NoFile
                   /\ Unnamed(c)'
                   /\ \A q \in requests' : q.blob # c
        BY <1>0, <2>1 DEF FreshSound, Unnamed
      <3>2. ASSUME NEW q \in requests', q.step = "inserted"
            PROVE  /\ q.blob \in Blobs
                   /\ row'[q.blob].state # "committed"
                   /\ staging'[q.blob] = NoFile /\ final'[q.blob] = NoFile
                   /\ Unnamed(q.blob)'
                   /\ \A p \in requests' : p.blob = q.blob => p = q
        <4>1. q \in requests
          BY <1>0
        <4>2. /\ q.blob \in Blobs
              /\ row[q.blob].state # "committed"
              /\ staging[q.blob] = NoFile /\ final[q.blob] = NoFile
              /\ Unnamed(q.blob)
              /\ \A p \in requests : p.blob = q.blob => p = q
          BY <3>2, <4>1 DEF FreshSound
        <4>3. Unnamed(q.blob)'
          BY <1>0, <4>2 DEF Unnamed
        <4>4. row'[q.blob].state # "committed"
          BY <2>1, <4>2
        <4> QED BY <1>0, <2>1, <4>2, <4>3, <4>4
      <3>3. \A q \in requests' : q.kind # "begin" => q.blob \in Blobs
        BY <1>0, <2>1 DEF FreshSound
      <3> QED BY <3>1, <3>2, <3>3 DEF FreshSound
    <2> QED BY <2>2, <2>3, <2>4
  <1> QED BY <1>1, <1>2, <1>3 DEF Sweep

LEMMA OtherStoreSound ==
    ASSUME AttachmentTypeOK, StoreSound,
           \/ Tick
           \/ \E kept \in SUBSET Blobs : Restart(kept)
           \/ \E x \in Files, keep, lost \in BOOLEAN : InterruptUpload(x, keep, lost)
           \/ \E r \in requests : HandlerFails(r)
    PROVE  StoreSound'
  <1> USE DEF AttachmentTypeOK, StoreTypeOK, StoreSound, storeVars, senderVars,
              netVars
  <1>1. CASE Tick
    <2>1. /\ UNCHANGED <<row, staging, final, used, victims, blob, requests, answer>>
          /\ now' = now + 1
      BY <1>1 DEF Tick
    <2>2. \A b \in Blobs : /\ row[b].expires > now' => row[b].expires > now
                           /\ row[b].expires <= now => row[b].expires <= now'
      BY <2>1 DEF Row
    <2>3. \A v \in victims : v.blob \in Blobs
      BY DEF Victim
    <2>4. ServedVerified' /\ FilesSound' /\ SweepSound'
      BY <2>1, <2>2, <2>3 DEF ServedVerified, Readable, FilesSound, SweepSound
    <2>5. StepsSound' /\ CommitSound' /\ FreshSound'
      BY <2>1 DEF StepsSound, CommitSound, FreshSound, Unnamed
    <2> QED BY <2>4, <2>5
  <1>2. ASSUME NEW kept \in SUBSET Blobs, Restart(kept) PROVE StoreSound'
    <2>1. /\ UNCHANGED <<now, used, blob>>
          /\ requests' = {} /\ victims' = {} /\ answer' = NoAnswer
          /\ \A b \in Blobs :
                /\ row'[b] = row[b] \/ row'[b] = NoRow
                /\ row[b].state = "committed" => final'[b] = final[b]
                /\ row[b].state # "committed" => final'[b] = NoFile
                /\ staging'[b] = staging[b] \/ staging'[b] = NoFile
      BY <1>2 DEF Restart, Reconcile
    <2>2. NoRow.state = "none" /\ answer'.blob = None
      BY <2>1 DEF NoRow, NoAnswer
    <2>3. ServedVerified'
      <3> SUFFICES ASSUME NEW b \in Blobs, Readable(b)'
                   PROVE  HoldsCiphertext(final'[b])
        BY DEF ServedVerified
      <3>1. row'[b] = row[b] /\ row[b].state = "committed"
        BY <2>1, <2>2 DEF Readable
      <3> QED BY <2>1, <3>1 DEF ServedVerified, Readable
    <2>4. FilesSound'
      <3> SUFFICES ASSUME NEW b \in Blobs, staging'[b] # NoFile
                   PROVE  final'[b] = NoFile /\ row'[b].state # "committed"
        BY DEF FilesSound
      <3>1. row[b].state # "committed"
        BY <2>1 DEF FilesSound
      <3> QED BY <2>1, <2>2, <3>1
    <2>5. SweepSound' /\ StepsSound' /\ CommitSound'
      BY <2>1 DEF SweepSound, StepsSound, CommitSound
    <2>6. FreshSound'
      <3>1. ASSUME NEW b \in Blobs \ used
            PROVE  /\ row'[b].state = "none"
                   /\ staging'[b] = NoFile /\ final'[b] = NoFile
                   /\ Unnamed(b)'
        BY <2>1, <2>2 DEF FreshSound, Unnamed
      <3> QED BY <2>1, <3>1 DEF FreshSound
    <2> QED BY <2>3, <2>4, <2>5, <2>6
  <1>3. ASSUME NEW x \in Files, NEW keep \in BOOLEAN, NEW lost \in BOOLEAN,
               InterruptUpload(x, keep, lost)
        PROVE  StoreSound'
    <2>1. /\ UNCHANGED <<now, row, staging, final, used, victims, blob>>
          /\ answer' = NoAnswer
      BY <1>3 DEF InterruptUpload
    <2> DEFINE orphan(r) == [r EXCEPT !.live = FALSE]
    <2>2. \A q \in requests' : \E r \in requests : q = orphan(r)
      BY <1>3 DEF InterruptUpload
    <2>3. \A r \in requests : /\ orphan(r).step = r.step
                              /\ orphan(r).blob = r.blob
                              /\ orphan(r).kind = r.kind
      BY DEF Request
    <2> HIDE DEF orphan
    <2>4. ServedVerified' /\ FilesSound' /\ SweepSound'
      BY <2>1 DEF ServedVerified, Readable, FilesSound, SweepSound
    <2>5. StepsSound'
      <3> SUFFICES ASSUME NEW q \in requests'
                   PROVE  /\ q.step = "inserted" => q.kind = "begin"
                          /\ q.step \in {"opened", "appended"} => q.kind = "chunk"
                          /\ q.step \in {"verified", "renamed"} => q.kind = "commit"
        BY DEF StepsSound
      <3>1. PICK r \in requests : q = orphan(r)
        BY <2>2
      <3>2. q.step = r.step /\ q.kind = r.kind
        BY <2>3, <3>1
      <3> QED BY <3>2 DEF StepsSound
    <2>6. CommitSound' /\ FreshSound'
      <3>1. ASSUME NEW p \in requests', NEW q \in requests', p.blob = q.blob,
                   p.step = "inserted" \/ (p.step = "renamed" /\ q.step = "renamed")
            PROVE  q = p
        <4>1. PICK r1 \in requests, r2 \in requests : p = orphan(r1) /\ q = orphan(r2)
          BY <2>2
        <4>2. /\ p.blob = r1.blob /\ q.blob = r2.blob
              /\ p.step = r1.step /\ q.step = r2.step
          BY <2>3, <4>1
        <4>3. CASE p.step = "inserted"
          <5>1. \A r \in requests :
                   r.step = "inserted" =>
                      \A s \in requests : s.blob = r.blob => s = r
            BY DEF FreshSound
          <5>2. r2 = r1
            BY <3>1, <4>2, <4>3, <5>1
          <5> QED BY <4>1, <5>2
        <4>4. CASE p.step = "renamed" /\ q.step = "renamed"
          <5>1. r2 = r1
            BY <3>1, <4>2, <4>4 DEF CommitSound
          <5> QED BY <4>1, <5>1
        <4> QED BY <3>1, <4>3, <4>4
      <3>2. CommitSound'
        <4> SUFFICES ASSUME NEW q \in requests'
            PROVE  /\ q.step = "verified" =>
                         staging[q.blob] = NoFile \/ HoldsCiphertext(staging[q.blob])
                   /\ q.step = "renamed" =>
                         /\ staging[q.blob] = NoFile
                         /\ HoldsCiphertext(final[q.blob])
                         /\ row[q.blob].state # "committed"
          BY <2>1, <3>1 DEF CommitSound
        <4>1. PICK r \in requests : q = orphan(r)
          BY <2>2
        <4>2. q.step = r.step /\ q.blob = r.blob
          BY <2>3, <4>1
        <4> QED BY <4>2 DEF CommitSound
      <3>3. FreshSound'
        <4>1. \A b \in Blobs : Unnamed(b) => Unnamed(b)'
          BY <2>1 DEF Unnamed, NoAnswer
        <4>2. ASSUME NEW q \in requests'
              PROVE  /\ q.kind # "begin" => q.blob \in Blobs
                     /\ \A b \in Blobs \ used : q.blob # b
                     /\ q.step = "inserted" =>
                           /\ q.blob \in Blobs
                           /\ row[q.blob].state # "committed"
                           /\ staging[q.blob] = NoFile /\ final[q.blob] = NoFile
                           /\ Unnamed(q.blob)
          <5>1. PICK r \in requests : q = orphan(r)
            BY <2>2
          <5>2. q.step = r.step /\ q.blob = r.blob /\ q.kind = r.kind
            BY <2>3, <5>1
          <5> QED BY <5>2 DEF FreshSound
        <4> QED BY <2>1, <3>1, <4>1, <4>2 DEF FreshSound
      <3> QED BY <3>2, <3>3
    <2> QED BY <2>4, <2>5, <2>6
  <1>4. ASSUME NEW r \in requests, HandlerFails(r) PROVE StoreSound'
    BY <1>4, ReplySound DEF HandlerFails, Reply
  <1> QED BY <1>1, <1>2, <1>3, <1>4

LEMMA OtherTransferSound ==
    ASSUME AttachmentTypeOK, ReadyComplete, NamesSound, DownloadSound,
           \/ Sweep \/ Tick
           \/ \E kept \in SUBSET Blobs : Restart(kept)
           \/ \E x \in Files, keep, lost \in BOOLEAN : InterruptUpload(x, keep, lost)
           \/ \E x \in Files, keep \in BOOLEAN : InterruptDownload(x, keep)
    PROVE  ReadyComplete' /\ NamesSound' /\ DownloadSound'
  <1> USE DEF AttachmentTypeOK, storeVars, senderVars, receiverVars, netVars
  <1>1. UNCHANGED <<parts, until, blob, message>>
    BY DEF Sweep, Tick, Restart, InterruptUpload, InterruptDownload
  <1>2. /\ (down' = down /\ in' = in) \/ down' = NoDownload
        /\ up' = up \/ up' = NoUpload
        /\ answer' = answer \/ answer' = NoAnswer
    BY DEF Sweep, Tick, Restart, InterruptUpload, InterruptDownload, StopUpload
  <1>3. \A x \in Files : in'[x] = "ready" => in[x] = "ready"
    BY DEF Sweep, Tick, Restart, InterruptUpload, InterruptDownload, Left
  <1> QED BY <1>1, <1>2, <1>3
      DEF ReadyComplete, NamesSound, DownloadSound, Downloading, NoDownload,
          NoUpload, NoAnswer

\* Everything that is neither a download nor a fault leaves downloads alone.
LEMMA SenderTransferSound ==
    ASSUME ReadyComplete, DownloadSound, UNCHANGED receiverVars
    PROVE  ReadyComplete' /\ DownloadSound'
  BY DEF ReadyComplete, DownloadSound, Downloading, receiverVars

LEMMA InvInit == Init => AttachmentsInv
  <1> SUFFICES ASSUME Init PROVE AttachmentsInv
    OBVIOUS
  <1> USE DEF Init, StoreInit
  <1>1. AttachmentTypeOK
    BY NoneTyped DEF AttachmentTypeOK, StoreTypeOK, Content, Parts
  <1>2. ServedVerified /\ ReadyComplete /\ FilesSound /\ SweepSound
    BY DEF ServedVerified, Readable, ReadyComplete, FilesSound, SweepSound, NoRow
  <1>3. FreshSound /\ CommitSound /\ StepsSound
    BY DEF FreshSound, Unnamed, CommitSound, StepsSound, NoRow, NoAnswer
  <1>4. NamesSound /\ DownloadSound
    BY FS_EmptySet DEF NamesSound, DownloadSound, Downloading, NoUpload, NoDownload,
                       NoAnswer
  <1> QED BY <1>1, <1>2, <1>3, <1>4 DEF AttachmentsInv

LEMMA InvStep == AttachmentsInv /\ [Next]_vars => AttachmentsInv'
  <1> SUFFICES ASSUME AttachmentsInv, [Next]_vars PROVE AttachmentsInv'
    OBVIOUS
  <1> USE DEF AttachmentsInv, StoreSound
  <1>1. ASSUME NEW x \in Files, StartUpload(x) \/ UploadStep(x) \/ CancelUpload(x)
        PROVE  AttachmentsInv'
    <2>1. UNCHANGED receiverVars
      BY <1>1 DEF StartUpload, UploadStep, CancelUpload, Connected, ResumeReply,
                  BeginReply, ChunkReply, CommitReply, SendMessage, Hears
    <2> QED BY <1>1, <2>1, UploadTyped, UploadStoreSound, UploadNamesSound,
               SenderTransferSound
  <1>2. ASSUME NEW x \in Files,
               StartDownload(x) \/ DownloadStep(x) \/ CancelDownload(x)
        PROVE  AttachmentsInv'
    <2>1. UNCHANGED <<now, row, staging, final, used, victims, blob, requests, answer>>
      BY <1>2 DEF StartDownload, DownloadStep, CancelDownload, DownloadConnected,
                  Read, TakeReply, Verify, storeVars, senderVars, netVars
    <2>2. StoreSound'
      BY <1>2, <2>1, AskSound
    <2> QED BY <1>2, <2>2, DownloadTyped, DownloadStepSound
  <1>3. ASSUME NEW r \in requests, RelayStep(r) \/ HandlerFails(r)
        PROVE  AttachmentsInv'
    <2>1. UNCHANGED receiverVars
      BY <1>3 DEF RelayStep, HandlerFails, Begin, BeginCreate, Resume, Chunk,
                  ChunkAppend, ChunkCount, Commit, CommitRename, CommitMark, Serving
    <2>2. StoreSound'
      BY <1>3, BeginSound, ChunkSound, CommitStepSound, OtherStoreSound DEF RelayStep
    <2> QED BY <1>3, <2>1, <2>2, RelayTyped, RelayNamesSound, SenderTransferSound
  <1>4. CASE \/ Sweep \/ Tick
             \/ \E kept \in SUBSET Blobs : Restart(kept)
             \/ \E x \in Files, keep, lost \in BOOLEAN :
                   InterruptUpload(x, keep, lost)
    BY <1>4, OtherTyped, OtherTransferSound, OtherStoreSound, SweepStepSound
  <1>5. ASSUME NEW x \in Files, NEW keep \in BOOLEAN, InterruptDownload(x, keep)
        PROVE  AttachmentsInv'
    <2>1. UNCHANGED <<now, row, staging, final, used, victims, blob, requests, answer>>
      BY <1>5 DEF InterruptDownload, storeVars, senderVars, netVars
    <2>2. StoreSound'
      BY <1>5, <2>1, AskSound
    <2> QED BY <1>5, <2>2, OtherTyped, OtherTransferSound
  <1>6. CASE UNCHANGED vars
    BY <1>6 DEF vars, AttachmentTypeOK, StoreTypeOK, ServedVerified, Readable,
        ReadyComplete, FreshSound, Unnamed, FilesSound, CommitSound, SweepSound,
        StepsSound, NamesSound, DownloadSound, Downloading
  <1> QED BY <1>1, <1>2, <1>3, <1>4, <1>5, <1>6 DEF Next

\* A message is there for an attachment that was sent and stays sent, so none
\* for one that was cancelled.
SentSound == \A x \in Files : message[x] # None => out[x] = "sent"

LEMMA SentStep ==
    ASSUME AttachmentTypeOK, SentSound, [Next]_vars
    PROVE  /\ SentSound'
           /\ \A x \in Files :
                 out[x] = "cancelled" => out'[x] = "cancelled" /\ message'[x] = None
  <1> USE DEF AttachmentTypeOK, SentSound, senderVars
  <1>1. ASSUME NEW x \in Files, SendMessage(x)
        PROVE  /\ SentSound'
               /\ \A y \in Files :
                     out[y] = "cancelled" => out'[y] = "cancelled" /\ message'[y] = None
    BY <1>1 DEF SendMessage, Active
  <1>2. CASE /\ message' = message
             /\ \A y \in Files :
                   out'[y] = out[y] \/ out[y] \in {"pending", "transferring"}
    BY <1>2
  <1>3. ASSUME NEW x \in Files,
               \/ StartUpload(x) \/ Connected(x) \/ ResumeReply(x) \/ BeginReply(x)
               \/ ChunkReply(x) \/ CommitReply(x) \/ CancelUpload(x)
        PROVE  /\ message' = message
               /\ \A y \in Files :
                     out'[y] = out[y] \/ out[y] \in {"pending", "transferring"}
    BY <1>3 DEF StartUpload, Connected, ResumeReply, BeginReply, ChunkReply,
                CommitReply, CancelUpload, Hears, FailUpload, Active
  <1>4. ASSUME NEW x \in Files,
               \/ StartDownload(x) \/ DownloadStep(x) \/ CancelDownload(x)
               \/ \E keep \in BOOLEAN : InterruptDownload(x, keep)
        PROVE  message' = message /\ out' = out
    BY <1>4 DEF StartDownload, DownloadStep, CancelDownload, DownloadConnected, Read,
                TakeReply, Verify, InterruptDownload
  <1>5. ASSUME NEW r \in requests, RelayStep(r) \/ HandlerFails(r)
        PROVE  message' = message /\ out' = out
    BY <1>5 DEF RelayStep, HandlerFails, Begin, BeginCreate, Resume, Chunk,
                ChunkAppend, ChunkCount, Commit, CommitRename, CommitMark, Serving
  <1>6. ASSUME \/ Sweep \/ Tick
               \/ \E kept \in SUBSET Blobs : Restart(kept)
               \/ \E x \in Files, keep, lost \in BOOLEAN :
                     InterruptUpload(x, keep, lost)
        PROVE  /\ message' = message
               /\ \A y \in Files :
                     out'[y] = out[y] \/ out[y] \in {"pending", "transferring"}
    BY <1>6 DEF Sweep, Tick, Restart, InterruptUpload, Left
  <1>7. CASE UNCHANGED vars
    BY <1>7 DEF vars
  <1> QED BY <1>1, <1>2, <1>3, <1>4, <1>5, <1>6, <1>7 DEF Next, UploadStep

\* Rows, files, requests, sweep and transfers agree, whatever fails and
\* whatever order handlers, orphans and sweep run in.
THEOREM InvariantHolds == Spec => []AttachmentsInv
  BY InvInit, InvStep, PTL DEF Spec

\* What Read serves before expiry is what Commit verified: Chunk, Commit, Sweep
\* and Reconcile never spoil the file of a row that says committed.
THEOREM ServedIsVerified == Spec => []ServedVerified
  <1>1. AttachmentsInv => ServedVerified
    BY DEF AttachmentsInv
  <1> QED BY <1>1, InvariantHolds, PTL

\* Sweep deletes the row of a committed blob before its time only when it listed
\* it as an old upload; Chunk, Commit and Reconcile never do.
THEOREM CommittedStaysHolds == Spec => CommittedStays
  <1> DEFINE Stays == \A b \in Blobs :
                Readable(b) /\ row[b].expires > now' =>
                   \/ row'[b].state = "committed"
                   \/ \E v \in victims : v.blob = b /\ v.state = "staging"
  <1>1. AttachmentsInv /\ [Next]_vars => [Stays]_vars
    <2> SUFFICES ASSUME AttachmentsInv, Next, NEW b \in Blobs, Readable(b),
                        row'[b].state # "committed"
                 PROVE  \E v \in victims : v.blob = b /\ v.state = "staging"
      OBVIOUS
    <2> USE DEF AttachmentsInv, AttachmentTypeOK, StoreTypeOK, Readable
    <2>1. row' # row /\ row[b].state = "committed" /\ b \in used
      BY DEF FreshSound
    <2>2. ASSUME NEW r \in requests, RelayStep(r)
          PROVE  FALSE
      <3>1. \/ Begin(r) /\ used # Blobs /\ InsertRow(FreshBlob)
            \/ ChunkCount(r) \/ CommitMark(r)
        BY <2>1, <2>2 DEF RelayStep, Begin, BeginCreate, CreateFile, Resume, Chunk,
              ChunkAppend, AppendChunk, Commit, CommitRename, RenameFile, storeVars
      <3>2. CASE InsertRow(FreshBlob) /\ used # Blobs
        <4>1. FreshBlob \in Blobs /\ FreshBlob \notin used
          BY <3>2 DEF FreshBlob
        <4> QED BY <2>1, <3>2, <4>1 DEF InsertRow
      <3>3. CASE ChunkCount(r)
        BY <2>1, <3>3 DEF ChunkCount, CountChunk, Row
      <3>4. CASE CommitMark(r)
        BY <2>1, <3>4 DEF CommitMark, MarkCommitted, Row
      <3> QED BY <3>1, <3>2, <3>3, <3>4
    <2>3. ASSUME NEW kept \in SUBSET Blobs, Restart(kept)
          PROVE  FALSE
      BY <2>1, <2>3 DEF Restart, Reconcile
    <2>4. Sweep
      BY <2>1, <2>2, <2>3 DEF Next, UploadStep, DownloadStep, StartUpload, Connected,
             ResumeReply, BeginReply, ChunkReply, CommitReply, SendMessage, Hears,
             CancelUpload, StartDownload, DownloadConnected, Read, TakeReply, Verify,
             CancelDownload, InterruptUpload, InterruptDownload, HandlerFails, Tick,
             storeVars
    <2>5. PICK v \in victims : SweepDelete(v)
      BY <2>1, <2>4 DEF Sweep, SweepList, SweepRemove
    <2>6. v.blob = b
      BY <2>1, <2>5 DEF SweepDelete
    <2>7. v.state # "committed"
      <3>1. row[b].expires \in Int /\ now \in Int
        BY DEF Row
      <3> QED BY <2>6, <3>1 DEF SweepSound
    <2> QED BY <2>6, <2>7 DEF Victim
  <1> QED BY <1>1, InvariantHolds, PTL DEF Spec, CommittedStays

\* download marks an attachment ready only when the database holds all of it.
THEOREM ReadyCompleteHolds == Spec => []ReadyComplete
  <1>1. AttachmentsInv => ReadyComplete
    BY DEF AttachmentsInv
  <1> QED BY <1>1, InvariantHolds, PTL

\* cancel is final for an upload: no reply that comes later, no resume and no
\* restart makes a message of it.
THEOREM CancelFinalHolds == Spec => CancelFinal
  <1>1. Init => SentSound
    BY DEF Init, SentSound
  <1>2. AttachmentsInv /\ SentSound /\ [Next]_vars =>
           SentSound' /\ [\A x \in Files : out[x] = "cancelled" =>
                             out'[x] = "cancelled" /\ message'[x] = None]_vars
    BY SentStep DEF AttachmentsInv
  <1> QED BY <1>1, <1>2, InvariantHolds, PTL DEF Spec, CancelFinal

\* Reconcile leaves no file that no row accounts for.
THEOREM RestartCleanHolds == Spec => RestartClean
  <1> DEFINE Clean == crashes' # crashes =>
                \A b \in Blobs :
                   /\ final'[b] # NoFile => row'[b].state = "committed"
                   /\ staging'[b] # NoFile => row'[b].state # "none"
  <1>1. AttachmentsInv /\ [Next]_vars => [Clean]_vars
    <2> SUFFICES ASSUME AttachmentsInv, Next, crashes' # crashes
                 PROVE  \A b \in Blobs :
                           /\ final'[b] # NoFile => row'[b].state = "committed"
                           /\ staging'[b] # NoFile => row'[b].state # "none"
      OBVIOUS
    <2>1. PICK kept \in SUBSET Blobs : Restart(kept)
      BY DEF Next, UploadStep, DownloadStep, RelayStep, StartUpload, Connected,
             ResumeReply, BeginReply, ChunkReply, CommitReply, SendMessage, Hears,
             CancelUpload, StartDownload, DownloadConnected, Read, TakeReply, Verify,
             CancelDownload, InterruptUpload, InterruptDownload, HandlerFails, Begin,
             BeginCreate, Resume, Chunk, ChunkAppend, ChunkCount, Commit, CommitRename,
             CommitMark, Serving, Sweep, Tick, faultVars
    <2> QED BY <2>1 DEF Restart, Reconcile, AttachmentsInv, FilesSound
  <1> QED BY <1>1, InvariantHolds, PTL DEF Spec, RestartClean
=============================================================================
