-------------------------------- MODULE Screen --------------------------------
(***************************************************************************)
(* The conversation screen (conversation_controller.dart) over the history *)
(* of one profile. The screen keeps only projections: the window of rows   *)
(* it shows and where the window continues. Syncs, refreshes, reads of     *)
(* pages and marks are futures, and each await is a point where the others *)
(* run. The list beside the window keeps no state a property is about.     *)
(***************************************************************************)
EXTENDS History

CONSTANTS Past,       \* what the profile holds when the screen opens
          Arrivals,   \* messages others write to this device
          Sends,      \* messages written on this screen
          None,       \* no conversation is open
          PageLimit,  \* rows a screen asks for at a time
          FaultsMax,  \* bound: failed queries and failed syncs
          MarksMax    \* bound: marks under way

ASSUME ScreenAssumption ==
    /\ GroupOf \in [Messages -> {GroupOf[m] : m \in Messages}]
    /\ Past \in Seq(Messages) /\ Arrivals \subseteq Messages /\ Sends \subseteq Messages
    /\ PageLimit \in Nat /\ PageMax \in Nat \ {0}

VARIABLES mail,       \* what the relay holds for this device, in order
          selected, shown, before, older,  \* the open window; older: loadingOlder's cursor
          refresh, refreshAgain,           \* _refreshWork: "idle", "list" or "page"
          read,                            \* the read _historyRead names, or NoRead
          sync, syncAgain,                 \* _syncWork: "idle", "wire" or "refresh"
          place,                           \* lifecycle and page
          marks, marked, seen,             \* mark_read calls under way; _marked; history
          faults

windowVars == <<selected, shown, before, older, read>>
refreshVars == <<refresh, refreshAgain>>
syncVars == <<sync, syncAgain>>
markVars == <<marks, marked, seen>>
vars == <<historyVars, mail, windowVars, refreshVars, syncVars, markVars, place, faults>>

NoRead == [group |-> None, rows |-> {}, next |-> 0, oldest |-> 0, by |-> "none"]
\* Until the system has said whether the application is in front it may show
\* and mark, and does not sync.
OnScreen == place \in {"starting", "front"}
CanSync == place \in {"front", "behind"}

Init ==
    /\ HistoryInit(Past)
    /\ mail = <<>>
    /\ selected = None /\ shown = {} /\ before = 0 /\ older = 0 /\ read = NoRead
    /\ refresh = "list" /\ refreshAgain = FALSE
    /\ sync = "idle" /\ syncAgain = FALSE
    /\ place = "starting"
    /\ marks = <<>> /\ marked = [g \in Conversations |-> 0]
    /\ seen = [g \in Conversations |-> 0]
    /\ faults = 0

-----------------------------------------------------------------------------
(* refresh() and sync() start the work, or ask the running one to go on. *)

Refresh ==
    IF refresh = "idle" THEN refresh' = "list" /\ refreshAgain' = FALSE
    ELSE refreshAgain' = TRUE /\ UNCHANGED refresh

Sync ==
    IF sync = "idle" THEN sync' = "wire" /\ syncAgain' = FALSE
    ELSE syncAgain' = TRUE /\ UNCHANGED sync

\* The end of one turn of _performRefresh.
RefreshTurn ==
    IF refreshAgain THEN refresh' = "list" /\ refreshAgain' = FALSE
    ELSE refresh' = "idle" /\ UNCHANGED refreshAgain

\* _readSelected gives nothing to wait for when nothing is open or an older
\* page is on its way; otherwise it supersedes whatever read was under way.
ReadSelected(by) ==
    read' = [NoRead EXCEPT !.group = selected', !.by = by,
                           !.oldest = IF shown' = {} THEN 0 ELSE Min(shown')]

\* The conversation list has come.
GotList ==
    /\ refresh = "list"
    /\ UNCHANGED <<selected, shown, before, older>>
    /\ IF selected = None \/ older # 0 THEN RefreshTurn /\ UNCHANGED read
       ELSE refresh' = "page" /\ UNCHANGED refreshAgain /\ ReadSelected("refresh")
    /\ UNCHANGED <<historyVars, mail, syncVars, markVars, place, faults>>

\* A page has come for the read still in force. Pages are read until the
\* rows reach back to where the window began.
ReadPage ==
    /\ read # NoRead
    /\ LET page == HistoryPage(read.group, read.next, PageLimit)
           rows == read.rows \cup page.rows
           more == read.oldest # 0 /\ page.next # 0 /\ rows # {} /\ Min(rows) > read.oldest
       IN  IF more
           THEN /\ read' = [read EXCEPT !.rows = rows, !.next = page.next]
                /\ UNCHANGED <<shown, before, refreshVars>>
           ELSE /\ shown' = rows /\ before' = page.next /\ read' = NoRead
                /\ IF read.by = "refresh" THEN RefreshTurn ELSE UNCHANGED refreshVars
    /\ UNCHANGED <<historyVars, mail, selected, older, syncVars, markVars, place, faults>>

\* The read a refresh waits for was superseded: its rows are dropped.
ReadStale ==
    /\ refresh = "page" /\ read.by # "refresh"
    /\ RefreshTurn
    /\ UNCHANGED <<historyVars, mail, windowVars, syncVars, markVars, place, faults>>

\* A query fails: the refresh ends, and what was asked of it meanwhile with it.
RefreshFail ==
    /\ refresh # "idle" /\ faults < FaultsMax
    /\ refresh' = "idle"
    /\ read' = IF read.by = "refresh" THEN NoRead ELSE read
    /\ faults' = faults + 1
    /\ UNCHANGED <<historyVars, mail, selected, shown, before, older, refreshAgain, syncVars,
                   markVars, place>>

\* Mutant: loadingOlder survives the selection, and so does its page.
SelectKeepsOlder(g) ==
    /\ selected' = g /\ shown' = {} /\ before' = 0 /\ UNCHANGED older
    /\ IF g = None THEN read' = NoRead ELSE ReadSelected("select")
    /\ UNCHANGED <<historyVars, mail, refreshVars, syncVars, markVars, place, faults>>

Select(g) ==
    /\ selected' = g /\ shown' = {} /\ before' = 0 /\ older' = 0
    /\ IF g = None THEN read' = NoRead ELSE ReadSelected("select")
    /\ UNCHANGED <<historyVars, mail, refreshVars, syncVars, markVars, place, faults>>

SelectFail ==
    /\ read.by = "select" /\ faults < FaultsMax
    /\ read' = NoRead /\ faults' = faults + 1
    /\ UNCHANGED <<historyVars, mail, selected, shown, before, older, refreshVars, syncVars,
                   markVars, place>>

Older ==
    /\ older = 0 /\ before # 0 /\ selected # None
    /\ older' = before
    /\ read' = NoRead
    /\ UNCHANGED <<historyVars, mail, selected, shown, before, refreshVars, syncVars, markVars,
                   place, faults>>

OlderDone ==
    /\ older # 0
    /\ LET page == HistoryPage(selected, older, PageLimit)
       IN  shown' = shown \cup page.rows /\ before' = page.next
    /\ older' = 0
    /\ UNCHANGED <<historyVars, mail, selected, read, refreshVars, syncVars, markVars, place, faults>>

OlderFail ==
    /\ older # 0 /\ faults < FaultsMax
    /\ older' = 0 /\ faults' = faults + 1
    /\ UNCHANGED <<historyVars, mail, selected, shown, before, read, refreshVars, syncVars, markVars,
                   place>>

-----------------------------------------------------------------------------
(* Synchronisation. *)

\* The relay takes a message for this device (external).
Arrive(m) ==
    /\ m \in Arrivals /\ ~Kept(m) /\ m \notin ToSet(mail)
    /\ mail' = Append(mail, m)
    /\ UNCHANGED <<historyVars, windowVars, refreshVars, syncVars, markVars, place, faults>>

\* Mutant: without the timer, only notices make the screen sync.
NoTimer == FALSE /\ UNCHANGED vars

\* The poll timer skips its turn while a sync runs; an activity notice does
\* not, and makes the running one go round again.
Poll ==
    /\ CanSync /\ sync = "idle"
    /\ Sync
    /\ UNCHANGED <<historyVars, mail, windowVars, refreshVars, markVars, place, faults>>

Notice ==
    /\ CanSync /\ mail # <<>> /\ Sync
    /\ UNCHANGED <<historyVars, mail, windowVars, refreshVars, markVars, place, faults>>

\* The running sync processes the next envelope.
Receive ==
    /\ sync = "wire" /\ mail # <<>>
    /\ Record(Head(mail))
    /\ mail' = Tail(mail)
    /\ UNCHANGED <<windowVars, refreshVars, syncVars, markVars, place, faults>>

SyncDone ==
    /\ sync = "wire" /\ mail = <<>>
    /\ sync' = "refresh" /\ UNCHANGED syncAgain
    /\ progress' = TRUE /\ Refresh
    /\ UNCHANGED <<events, markers, mail, windowVars, markVars, place, faults>>

\* A sync that fails still refreshes, but forgets that it was asked again.
SyncFail ==
    /\ sync = "wire" /\ faults < FaultsMax
    /\ sync' = "refresh" /\ syncAgain' = FALSE
    /\ Refresh
    /\ faults' = faults + 1
    /\ UNCHANGED <<historyVars, mail, windowVars, markVars, place>>

\* The refresh a sync waits for has ended.
SyncTurn ==
    /\ sync = "refresh" /\ refresh = "idle"
    /\ IF syncAgain THEN sync' = "wire" /\ syncAgain' = FALSE
       ELSE sync' = "idle" /\ UNCHANGED syncAgain
    /\ UNCHANGED <<historyVars, mail, windowVars, refreshVars, markVars, place, faults>>

Send(m) ==
    /\ m \in Sends /\ GroupOf[m] = selected /\ OnScreen
    /\ Record(m)
    /\ Refresh /\ Sync
    /\ UNCHANGED <<mail, windowVars, markVars, place, faults>>

\* Progress of any operation was heard and the debounce timer ended; a screen
\* that is hidden only lets it pass.
HearProgress ==
    /\ progress /\ progress' = FALSE
    /\ IF CanSync THEN Refresh ELSE UNCHANGED refreshVars
    /\ UNCHANGED <<events, markers, mail, windowVars, syncVars, markVars, place, faults>>

\* The window or the page comes to the front, goes behind another page, or
\* the application is left: then timers stop and nothing is asked again.
Show(p) ==
    /\ p \in {"front", "behind"} /\ place # p
    /\ place' = p
    /\ IF CanSync THEN UNCHANGED syncVars ELSE Sync
    /\ UNCHANGED <<historyVars, mail, windowVars, refreshVars, markVars, faults>>

Hide ==
    /\ place # "hidden"
    /\ place' = "hidden" /\ syncAgain' = FALSE
    /\ progress' \in {progress, FALSE}
    /\ UNCHANGED <<events, markers, mail, windowVars, refreshVars, sync, markVars, faults>>

-----------------------------------------------------------------------------
(* The read marker. *)

\* A frame shows the window; what it showed last is marked, once.
MarkVisible ==
    /\ OnScreen /\ selected # None /\ shown # {}
    /\ marked[selected] < Max(shown) /\ Len(marks) < MarksMax
    /\ marks' = Append(marks, [group |-> selected, cursor |-> Max(shown)])
    /\ seen' = [seen EXCEPT ![selected] = Max({@, Max(shown)})]
    /\ UNCHANGED <<historyVars, mail, windowVars, refreshVars, syncVars, marked, place, faults>>

\* The list is read again when its count of unread rows is not the marker's.
MarkRead ==
    /\ marks # <<>>
    /\ LET mark == Head(marks) IN
        /\ MarkReadRow(mark.group, mark.cursor)
        /\ marked' = [marked EXCEPT ![mark.group] = Marked(mark.group, mark.cursor)]
        /\ Refresh \/ UNCHANGED refreshVars
    /\ marks' = Tail(marks)
    /\ UNCHANGED <<mail, windowVars, syncVars, seen, place, faults>>

MarkFail ==
    /\ marks # <<>> /\ faults < FaultsMax
    /\ marks' = Tail(marks) /\ faults' = faults + 1
    /\ UNCHANGED <<historyVars, mail, windowVars, refreshVars, syncVars, marked, seen, place>>

Next ==
    \/ GotList \/ ReadPage \/ ReadStale \/ RefreshFail
    \/ \E g \in Conversations \cup {None} : Select(g)
    \/ SelectFail \/ Older \/ OlderDone \/ OlderFail
    \/ \E m \in Messages : Arrive(m) \/ Send(m)
    \/ Poll \/ Notice \/ Receive \/ SyncDone \/ SyncFail \/ SyncTurn
    \/ HearProgress
    \/ \E p \in {"front", "behind"} : Show(p)
    \/ Hide \/ MarkVisible \/ MarkRead \/ MarkFail

\* Queries answer or fail, and so does the sync the poll timer starts again.
Lists == GotList \/ ReadStale
Syncs == Poll \/ Receive \/ SyncDone \/ SyncTurn
Fairness == WF_vars(Lists) /\ WF_vars(ReadPage) /\ WF_vars(OlderDone) /\ WF_vars(Syncs)

Spec == Init /\ [][Next]_vars /\ Fairness

-----------------------------------------------------------------------------
\* The window is a whole stretch of the open conversation, with no row missing
\* inside it, and `before` continues exactly where it stops: whatever reads and
\* selections overlapped, scrolling back never skips a message.
WindowWhole ==
    shown # {} =>
        /\ shown = {c \in Rows(selected) : c >= Min(shown) /\ c <= Max(shown)}
        /\ before = IF \E c \in Rows(selected) : c < Min(shown) THEN Min(shown) ELSE 0

\* What another identity wrote stays counted as unread until a displayed frame
\* showed it or something newer, whatever arrives between a frame and its mark.
UnreadHonest ==
    \A g \in Conversations :
        Cardinality({c \in Unread(g, 0) : c > seen[g]}) <= ConversationSummary(g).unread

\* Nothing is under way: what the store holds is what there is to read.
AtRest == refresh = "idle" /\ sync = "idle" /\ selected = None /\ ~progress /\ marks = <<>>

\* Whatever was recorded: searching returns the newest matches before the cursor
\* and no others, continuing from `next` misses none, for what lies above it holds
\* no other match, and the pages of a whole conversation put it together.
SearchWhole ==
    AtRest =>
    /\ \A g \in Conversations : History(g) = Rows(g)
    /\ \A g \in Conversations, c \in 0..Len(events), limit \in 0..(PageMax + 1) :
        LET found == SearchHistory(g, c, limit)
            all == {r \in Before(Rows(g), c) : Matches(r)}
        IN  /\ found.rows = {r \in all : found.next = 0 \/ r >= found.next}
            /\ Cardinality(found.rows) <= Clamp(limit, 1, PageMax)

\* The live rows with a copy of some of their files, and an earlier import.
Archives == {[live |-> [c \in DOMAIN events |-> [events[c] EXCEPT !.copy = c \in copies]],
              imported |-> imported] :
             copies \in SUBSET {c \in DOMAIN events : events[c].kind \in FileKinds},
             imported \in {<<>>, Import(<<>>, Vault, Vault.secret)}}

\* What a profile exports holds each message once, a live row with its file
\* winning over an earlier import, and keeps who wrote it; a profile that lost everything imports it with
\* its secret and exports it again unchanged, importing it twice adds nothing,
\* and its pages cover it.
ExportStable ==
    AtRest =>
    \A a \in Archives : CanExport(a.live, a.imported) =>
        LET box == Export(a.live, a.imported, "new")
            restored == Import(<<>>, box, "new")
        IN  /\ \A r \in box.records, q \in box.records : r.id = q.id => r = q
            /\ \A c \in DOMAIN a.live : a.live[c].kind \notin NoticeKinds =>
                   \E r \in box.records :
                       /\ r.id = a.live[c].id /\ r.file = a.live[c].copy
                       /\ ArchivedEvent(r).own = HistoryEvent(a.live[c]).own
            /\ CanExport(<<>>, restored) /\ Export(<<>>, restored, "new") = box
            /\ Import(restored, box, "new") = restored
            /\ \A c \in DOMAIN restored, limit \in 0..(PageMax + 1) :
                  LET page == ArchivePage(restored, c, limit)
                  IN  1..(c - 1) = page.rows \cup (IF page.next = 0 THEN {} ELSE 1..(page.next - 1))

\* A message of the open conversation is held by the relay, or recorded here,
\* and the window does not show it.
WindowBehind ==
    /\ selected # None
    /\ \/ \E i \in DOMAIN mail : GroupOf[mail[i]] = selected
       \/ Rows(selected) # {} /\ Max(Rows(selected)) \notin shown

\* The window of a screen that may sync comes to show the newest message although
\* reads supersede each other, an older page makes a refresh skip the window, and
\* a failure forgets what was asked again meanwhile.
EventuallyShown == WindowBehind ~> ~WindowBehind \/ ~CanSync

\* What the store answers is the history it holds, page by page, by search and
\* through an archive.
StoreFaithful == SearchWhole /\ ExportStable
===============================================================================
