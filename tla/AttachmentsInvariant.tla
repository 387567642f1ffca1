------------------------ MODULE AttachmentsInvariant ------------------------
(* The inductive invariant behind the safety properties of Attachments. *)
EXTENDS Attachments

\* Nothing names a blob before its id is drawn, or before Begin is done with
\* it: until then no request, answer or descriptor can be about it.
Unnamed(b) ==
    /\ answer.blob # b
    /\ \A x \in Files : blob[x] # b

FreshSound ==
    /\ \A b \in Blobs \ used :
          /\ row[b].state = "none" /\ staging[b] = NoFile /\ final[b] = NoFile
          /\ Unnamed(b)
          /\ \A r \in requests : r.blob # b
    /\ \A r \in requests :
          r.step = "inserted" =>
             /\ r.blob \in Blobs
             /\ row[r.blob].state # "committed"
             /\ staging[r.blob] = NoFile /\ final[r.blob] = NoFile
             /\ Unnamed(r.blob)
             /\ \A q \in requests : q.blob = r.blob => q = r
    /\ \A r \in requests : r.kind # "begin" => r.blob \in Blobs

\* A file is in one directory, and in staging only before the commit.
FilesSound ==
    \A b \in Blobs :
        staging[b] # NoFile => final[b] = NoFile /\ row[b].state # "committed"

\* What a commit verified is what it renames and marks, whatever orphan
\* appends behind it; and one commit at most gets that far.
CommitSound ==
    \A r \in requests :
        /\ r.step = "verified" =>
              staging[r.blob] = NoFile \/ HoldsCiphertext(staging[r.blob])
        /\ r.step = "renamed" =>
              /\ staging[r.blob] = NoFile
              /\ HoldsCiphertext(final[r.blob])
              /\ row[r.blob].state # "committed"
              /\ \A q \in requests :
                    q.step = "renamed" /\ q.blob = r.blob => q = r

\* The sweep removes a committed file only when its blob is expired, which it
\* stays, and comes to each blob once.
SweepSound ==
    /\ \A v \in victims :
          v.state = "committed" =>
             row[v.blob].state = "committed" /\ row[v.blob].expires <= now
    /\ \A v, w \in victims : v.blob = w.blob => v = w

\* The step of a request belongs to its kind.
StepsSound ==
    \A r \in requests :
        /\ r.step = "inserted" => r.kind = "begin"
        /\ r.step \in {"opened", "appended"} => r.kind = "chunk"
        /\ r.step \in {"verified", "renamed"} => r.kind = "commit"

\* An upload past Begin has a blob to name, and so has a message.
NamesSound ==
    /\ answer.kind = "started" => answer.blob # None
    /\ \A x \in Files :
          /\ until[x] > 0 => blob[x] # None
          /\ up.file = x /\ up.step \in {"resume", "chunk", "commit", "send"}
                => blob[x] # None
          /\ down.file = x => message[x] # None

\* A running download that was not cancelled holds what the database holds.
DownloadSound ==
    \A x \in Files :
        /\ IsFiniteSet(parts[x])
        /\ down.file = x => IsFiniteSet(down.mem)
        /\ down.file = x /\ Downloading(x) => down.mem = parts[x]
        /\ down.file = x /\ down.step = "verify" => Downloading(x)

\* The inductive invariant of attachments: rows, files, requests, sweep and
\* transfers agree in every order of handlers, orphans, faults and restarts.
AttachmentsInv ==
    /\ AttachmentTypeOK
    /\ ServedVerified
    /\ ReadyComplete
    /\ FreshSound
    /\ FilesSound
    /\ CommitSound
    /\ SweepSound
    /\ StepsSound
    /\ NamesSound
    /\ DownloadSound
=============================================================================
