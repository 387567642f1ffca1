----------------------------- MODULE BlobStore -----------------------------
(***************************************************************************)
(* The relay's attachment store: relay/internal/store/blobs.go.            *)
(*                                                                         *)
(* A blob is a row and a file, and nothing makes the two change together:  *)
(* every operator below is one statement of the database or one call of    *)
(* the file system, and Attachments puts them in the order the handlers    *)
(* run them, with whatever else happens in between.                        *)
(*                                                                         *)
(* Bytes are counted in chunks and every upload declares Size of them.  A  *)
(* file is the sequence of the chunk numbers written to it, so the hash of *)
(* the ciphertext matches exactly the sequence 1, 2, ..., Size.            *)
(***************************************************************************)
EXTENDS Expiry, Sequences, FiniteSetsExt

CONSTANTS
    Blobs,             \* blob ids
    Size,              \* chunks of an upload
    QuotaPerIdentity,  \* committed chunks an identity may hold
    DefaultBlobTTL,    \* longest life of a committed blob
    StagingTTL,        \* life of an upload that never commits
    NoFile             \* the content of a file that does not exist

ASSUME BlobAssumption ==
    /\ Size \in Nat \ {0}
    /\ QuotaPerIdentity \in Nat
    /\ DefaultBlobTTL \in Nat \ {0}
    /\ StagingTTL \in Nat \ {0}
    /\ NoFile \notin Seq(Int)

VARIABLES
    now,      \* the relay's clock
    row,      \* table blobs
    staging,  \* the files of the staging directory
    final,    \* the files of the blobs directory
    used,     \* ids that were drawn
    victims   \* what a running sweep listed and has still to remove

storeVars == <<row, staging, final, used, victims>>

BlobStates == {"none", "staging", "committed"}

Row == [state : BlobStates, stored : Int, created : Int, expires : Int]
NoRow == [state |-> "none", stored |-> 0, created |-> 0, expires |-> 0]
Victim ==
    [blob : Blobs, state : {"staging", "committed"}, step : {"listed", "removed"}]
Content == Seq(Int) \union {NoFile}

StoreTypeOK ==
    /\ now \in Nat
    /\ row \in [Blobs -> Row]
    /\ staging \in [Blobs -> Content]
    /\ final \in [Blobs -> Content]
    /\ used \subseteq Blobs
    /\ victims \subseteq Victim

StoreInit ==
    /\ now = 0
    /\ row = [b \in Blobs |-> NoRow]
    /\ staging = [b \in Blobs |-> NoFile]
    /\ final = [b \in Blobs |-> NoFile]
    /\ used = {}
    /\ victims = {}

Ciphertext == [i \in 1 .. Size |-> i]

\* A file from which every read within the ciphertext returns the ciphertext.
HoldsCiphertext(f) ==
    /\ f # NoFile
    /\ \A i \in 1 .. Size : i \in DOMAIN f /\ f[i] = i

-----------------------------------------------------------------------------
(* Begin. *)

Committed == {b \in Blobs : row[b].state = "committed"}

\* Only committed bytes count, and only here.
OverQuota ==
    /\ Committed # {}
    /\ MapThenSumSet(LAMBDA b : row[b].stored, Committed) + Size
          > QuotaPerIdentity

\* Ids are random and tell nothing: which unused one is drawn is immaterial.
FreshBlob == CHOOSE b \in Blobs : b \notin used

InsertRow(b) ==
    /\ used' = used \union {b}
    /\ row' = [row EXCEPT ![b] = [state |-> "staging", stored |-> 0,
                                  created |-> coarseHour(now), expires |-> 0]]
    /\ UNCHANGED <<staging, final, victims>>

CreateFile(b) ==
    /\ staging' = [staging EXCEPT ![b] = <<>>]
    /\ UNCHANGED <<row, final, used, victims>>

-----------------------------------------------------------------------------
(* Chunk and StagedOffset. *)

\* The row is read, and the staging file opened.
TakesChunk(b, offset) ==
    /\ row[b].state = "staging"
    /\ row[b].stored = offset
    /\ offset < Size
    /\ staging[b] # NoFile

\* The bytes go to the end of the opened file, wherever it has been renamed
\* to, and nowhere if it was removed.
AppendChunk(b, offset) ==
    /\ \/ /\ staging[b] # NoFile
          /\ staging' = [staging EXCEPT ![b] = Append(@, offset + 1)]
          /\ UNCHANGED final
       \/ /\ staging[b] = NoFile /\ final[b] # NoFile
          /\ final' = [final EXCEPT ![b] = Append(@, offset + 1)]
          /\ UNCHANGED staging
       \/ /\ staging[b] = NoFile /\ final[b] = NoFile
          /\ UNCHANGED <<staging, final>>
    /\ UNCHANGED <<row, used, victims>>

\* stored_size is increased whatever state the row is in by now.
CountChunk(b) ==
    /\ row' = IF row[b].state = "none" THEN row
              ELSE [row EXCEPT ![b].stored = @ + 1]
    /\ UNCHANGED <<staging, final, used, victims>>

StagedOffset(b) == row[b].stored

-----------------------------------------------------------------------------
(* Commit. *)

\* Mutant: the size is enough.
VerifiesSize(b) ==
    /\ row[b].state = "staging"
    /\ row[b].stored = Size
    /\ staging[b] # NoFile

\* State, size and hash are right.
Verifies(b) ==
    /\ row[b].state = "staging"
    /\ row[b].stored = Size
    /\ staging[b] # NoFile
    /\ staging[b] = Ciphertext

BlobExpiry(requested) ==
    coarseExpiry(clipped(requested, DefaultBlobTTL, now), now)

RenameFile(b) ==
    /\ staging[b] # NoFile
    /\ final' = [final EXCEPT ![b] = staging[b]]
    /\ staging' = [staging EXCEPT ![b] = NoFile]
    /\ UNCHANGED <<row, used, victims>>

\* An update of a row that is gone changes nothing and is not noticed.
MarkCommitted(b, expiry) ==
    /\ row' = IF row[b].state = "none" THEN row
              ELSE [row EXCEPT ![b] = [@ EXCEPT !.state = "committed",
                                                !.expires = expiry]]
    /\ UNCHANGED <<staging, final, used, victims>>

-----------------------------------------------------------------------------
(* Read. *)

Readable(b) == row[b].state = "committed" /\ row[b].expires > now

-----------------------------------------------------------------------------
(* The sweep, row by row, and the start of the relay. *)

\* Mutant: whatever was begun long ago is stale, committed or not.
StaleWhenOld(b) ==
    \/ row[b].state = "committed" /\ row[b].expires <= now
    \/ row[b].state # "none" /\ row[b].created <= now - StagingTTL

Stale(b) ==
    \/ row[b].state = "committed" /\ row[b].expires <= now
    \/ row[b].state = "staging" /\ row[b].created <= now - StagingTTL

SweepList ==
    /\ victims = {}
    /\ \E b \in Blobs : Stale(b)
    /\ victims' = {[blob |-> b, state |-> row[b].state, step |-> "listed"] :
                      b \in {x \in Blobs : Stale(x)}}
    /\ UNCHANGED <<row, staging, final, used>>

\* The file of the state that was listed is removed if it is there ...
SweepRemove(v) ==
    /\ v \in victims
    /\ v.step = "listed"
    /\ \A w \in victims : w.step = "listed"
    /\ victims' = (victims \ {v}) \union {[v EXCEPT !.step = "removed"]}
    /\ staging' = IF v.state = "staging"
                  THEN [staging EXCEPT ![v.blob] = NoFile] ELSE staging
    /\ final' = IF v.state = "committed"
                THEN [final EXCEPT ![v.blob] = NoFile] ELSE final
    /\ UNCHANGED <<row, used>>

\* ... and then the row, in whatever state it is by now.
SweepDelete(v) ==
    /\ v \in victims
    /\ v.step = "removed"
    /\ victims' = victims \ {v}
    /\ row' = [row EXCEPT ![v.blob] = NoRow]
    /\ UNCHANGED <<staging, final, used>>

\* Files without a row go, and renamed files whose row was never marked go
\* with their row.  `kept` are rows that stay behind: the file was removed
\* first and the relay died, or the deletion failed, which is ignored.
Reconcile(kept) ==
    LET unmarked == {b \in Blobs : final[b] # NoFile /\ row[b].state = "staging"}
    IN  /\ final' = [b \in Blobs |->
                       IF row[b].state = "committed" THEN final[b] ELSE NoFile]
        /\ staging' = [b \in Blobs |->
                         IF row[b].state = "none" THEN NoFile ELSE staging[b]]
        /\ row' = [b \in Blobs |-> IF b \in unmarked \ kept THEN NoRow ELSE row[b]]
        /\ UNCHANGED used
        /\ victims' = {}
=============================================================================
