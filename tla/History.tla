------------------------------- MODULE History -------------------------------
(***************************************************************************)
(* What one profile keeps of its conversations and how it is read: the     *)
(* rows of events with their cursors, pages, search and the read marker    *)
(* (arveil-core delivery.rs, arveil-app lib.rs), the encrypted history     *)
(* archive (archives.rs, archive_store.rs).                                *)
(***************************************************************************)
EXTENDS Naturals, Sequences, FiniteSets, FiniteSetsExt, SequencesExt

CONSTANTS Messages,       \* event ids
          GroupOf,        \* the conversation of each
          KindOf,         \* the kind each is recorded with
          Mine,           \* those another device of this identity wrote
          Nameless,       \* those whose device is in no roster kept here
          Hits,           \* texts that contain what is searched for
          Vault,          \* an archive a lost profile exported
          PageMax,        \* MAX_HISTORY_PAGE
          ScanMax,        \* MAX_SEARCH_SCAN
          RecordsMax      \* MAX_ARCHIVE_RECORDS

VARIABLES events,    \* rows of events, their cursor being the position
          markers,   \* read_markers: markers[g]
          progress   \* an event or a gap waits for the screen

historyVars == <<events, markers, progress>>

Conversations == {GroupOf[m] : m \in Messages}
OwnKinds == {"sent", "sent-file", "file-outgoing"}
NoticeKinds == {"devices-changed"}
FileKinds == {"file-pending", "received-file", "file-unavailable", "sent-file", "file-outgoing"}
Kinds == {"sent", "received"} \cup NoticeKinds \cup FileKinds

\* A row as it is first recorded, without a copy of a file.
Recorded(m) == [id |-> m, kind |-> KindOf[m], copy |-> FALSE]
Kept(m) == \E c \in DOMAIN events : events[c].id = m

\* The n greatest cursors of S.
Newest(S, n) == {c \in S : Cardinality({d \in S : d > c}) < n}
Rows(g) == {c \in DOMAIN events : GroupOf[events[c].id] = g}
\* 0 stands for no cursor.
Before(S, before) == {c \in S : before = 0 \/ c < before}
EventsPage(g, before, limit) == Newest(Before(Rows(g), before), limit)

Clamp(n, lo, hi) == IF n < lo THEN lo ELSE IF n > hi THEN hi ELSE n

\* One row beyond the page tells whether there is an older one.
Page(rows, limit) ==
    LET kept == Newest(rows, limit)
    IN  [rows |-> kept, next |-> IF Cardinality(rows) > limit THEN Min(kept) ELSE 0]

HistoryPage(g, before, asked) ==
    LET limit == Clamp(asked, 1, PageMax)
    IN  Page(EventsPage(g, before, limit + 1), limit)

IsText(c) == events[c].kind \in {"sent", "received"}
Matches(c) == IsText(c) /\ events[c].id \in Hits

\* Mutant: a search that found enough goes on behind the batch it read.
ScanSkips(g, s, limit) ==
    LET batch == Min({ScanMax - s.scanned, PageMax})
        rows == EventsPage(g, s.cursor, batch)
        hits == Newest({c \in rows : Matches(c)}, limit - Cardinality(s.found))
    IN  [s EXCEPT !.found = @ \cup hits, !.cursor = IF Cardinality(rows) < batch THEN 0 ELSE Min(rows),
                  !.scanned = @ + batch,
                  !.over = \/ s.scanned + batch >= ScanMax \/ Cardinality(rows) < batch
                           \/ Cardinality(s.found \cup hits) = limit]

\* The scan reads batch after batch until it found enough, came to the start
\* of the conversation or read ScanMax rows.
ScanBatch(g, s, limit) ==
    LET batch == Min({ScanMax - s.scanned, PageMax})
        rows == EventsPage(g, s.cursor, batch)
        hits == Newest({c \in rows : Matches(c)}, limit - Cardinality(s.found))
        found == s.found \cup hits
    IN  IF Cardinality(found) = limit
        THEN [s EXCEPT !.found = found, !.cursor = Min(found), !.over = TRUE]
        ELSE IF Cardinality(rows) < batch
        THEN [s EXCEPT !.found = found, !.cursor = 0, !.over = TRUE]
        ELSE [s EXCEPT !.found = found, !.cursor = Min(rows),
                       !.scanned = @ + batch, !.over = s.scanned + batch >= ScanMax]

SearchHistory(g, before, asked) ==
    LET start == [cursor |-> before, scanned |-> 0, found |-> {}, over |-> FALSE]
        end == FoldLeft(LAMBDA s, k : IF s.over THEN s ELSE ScanBatch(g, s, Clamp(asked, 1, PageMax)),
                        start, [k \in 1..ScanMax |-> k])
    IN  [rows |-> end.found, next |-> end.cursor]

\* The whole conversation, assembled from pages the command line asks for.
History(g) ==
    LET longer(all, k) ==
            LET page == HistoryPage(g, all.next, PageMax)
            IN  IF k > 1 /\ all.next = 0 THEN all
                ELSE [rows |-> all.rows \cup page.rows, next |-> page.next]
    IN  FoldLeft(longer, [rows |-> {}, next |-> 0], [k \in 1..(Len(events) + 1) |-> k]).rows

\* What another identity wrote after a read marker.
Unread(g, marker) ==
    {c \in Rows(g) : /\ c > marker
                     /\ events[c].kind \notin OwnKinds \cup NoticeKinds
                     /\ events[c].id \notin Mine}

\* The author is the stored identity, the roster's, or this one for what this
\* device sent; what cannot be resolved stays unknown.
Attribution(row) ==
    IF row.id \in Mine \/ row.kind \in OwnKinds THEN "me"
    ELSE IF row.id \in Nameless THEN "unknown" ELSE "other"

\* A conversation in the list: how many rows, the newest, how many unread.
ConversationSummary(g) ==
    [count |-> Cardinality(Rows(g)), last |-> EventsPage(g, 0, 1),
     unread |-> Cardinality(Unread(g, markers[g]))]

\* Mutant: a mark takes everything recorded so far for read.
MarkedAll(g, cursor) == IF Rows(g) = {} THEN markers[g] ELSE Max(Rows(g))

\* The marker moves forward, and not past the newest row.
Marked(g, cursor) ==
    IF Rows(g) = {} \/ cursor = 0 THEN markers[g]
    ELSE Max({markers[g], Min({cursor, Max(Rows(g))})})

-----------------------------------------------------------------------------
(* The archive. *)

ArchiveRecord == [id : Messages, kind : Kinds, by : {"me", "other", "unknown"}, file : BOOLEAN]

ASSUME VaultAssumption == Vault.records \subseteq ArchiveRecord

Normalizable(kind) ==
    kind \in {"sent", "received", "received-file", "sent-file", "file-pending", "file-outgoing"}
\* A restored file is never a live capability or a path: only its name and bytes.
Normalize(r) ==
    [r EXCEPT !.kind = CASE r.kind \in {"sent", "received"} -> r.kind
                         [] r.kind \in {"sent-file", "file-outgoing"} -> "sent-file"
                         [] OTHER -> "received-file"]

\* The attachment of a row as the store knows it.
Summary(row) ==
    IF row.copy THEN "ready"
    ELSE IF row.kind = "file-pending" THEN "pending"
    ELSE IF row.kind \in FileKinds THEN "legacy" ELSE "none"

\* A row as a screen reads it, and as it reads an imported record: the author of
\* the latter is the exporter's claim.
HistoryEvent(row) ==
    [kind |-> row.kind, attachment |-> Summary(row), by |-> Attribution(row),
     own |-> row.kind \in OwnKinds \/ Attribution(row) = "me"]
ArchivedEvent(r) == [kind |-> r.kind, by |-> r.by, own |-> r.kind \in OwnKinds \/ r.by = "me"]

\* Live and imported history without notices; a live row wins the same id.
Snapshot(live, imported) ==
    LET rows == SelectSeq(live, LAMBDA row : row.kind \notin NoticeKinds)
        ids == {rows[i].id : i \in DOMAIN rows}
    IN  {[id |-> rows[i].id, kind |-> rows[i].kind, by |-> Attribution(rows[i]),
          file |-> Summary(rows[i]) = "ready"] : i \in DOMAIN rows}
            \cup {r \in ToSet(imported) : r.id \notin ids}

\* One record that cannot be normalised, or one too many, refuses the export.
CanExport(live, imported) ==
    /\ Cardinality(Snapshot(live, imported)) <= RecordsMax
    /\ \A r \in Snapshot(live, imported) : Normalizable(r.kind)
Export(live, imported, secret) ==
    [owner |-> "me", secret |-> secret, records |-> {Normalize(r) : r \in Snapshot(live, imported)}]

ArchiveOpens(box, secret) == box.secret = secret /\ Cardinality(box.records) <= RecordsMax

\* Rows already there are never touched.
ArchiveImport(rows, records) ==
    rows \o SetToSeq({r \in records : \A i \in DOMAIN rows : rows[i].id # r.id})

\* Another identity's archive, or one with a record it cannot read, changes nothing.
Import(rows, box, secret) ==
    IF /\ ArchiveOpens(box, secret) /\ box.owner = "me"
       /\ \A r \in box.records : Normalizable(r.kind)
    THEN ArchiveImport(rows, {Normalize(r) : r \in box.records}) ELSE rows

ArchiveRows(rows, before, n) == Newest(Before(DOMAIN rows, before), n)
ArchivePage(rows, before, asked) ==
    LET limit == Clamp(asked, 1, PageMax)
    IN  Page(ArchiveRows(rows, before, limit + 1), limit)

-----------------------------------------------------------------------------
\* What a screen hears of: the change that records a row of this kind is
\* projected, or stays in the result of the operation.
Projected(kind) == kind \in {"sent", "received", "file-pending", "received-file"}

HistoryInit(past) ==
    /\ events = [i \in DOMAIN past |-> Recorded(past[i])]
    /\ markers = [g \in Conversations |-> 0]
    /\ progress = FALSE

\* A row is recorded by the unit that processes or sends the message.
Record(m) ==
    /\ ~Kept(m)
    /\ events' = Append(events, Recorded(m))
    /\ progress' = (progress \/ Projected(KindOf[m]))
    /\ UNCHANGED markers

MarkReadRow(g, cursor) ==
    /\ markers' = [markers EXCEPT ![g] = Marked(g, cursor)]
    /\ UNCHANGED <<events, progress>>
=============================================================================
