# A TLA+ verification of arveil

arveil is an end-to-end encrypted messenger: a Rust core (`core/crates/arveil-core`,
`arveil-app`) that keeps everything a device knows in one encrypted SQLite profile, a Go
relay (`relay/`) that keeps opaque envelopes and attachments for devices that are away, and
a Flutter client on top. This directory models the parts of it where several actors share
state: the way of an envelope from outbox to inbox, activity notices, attachments, the
executor that runs a profile's commands, the streams and the conversation screen fed by it,
linking a device, personal invitations, revocation and group membership, recovery from an
identity kit, and contact requests. TLC checks the models on small instances; TLAPS proves
safety properties of all of them for every instance.

Paths below are relative to the repository. `PROJECT.json` names the lines behind every
definition (`map`), the runs, the mutants that show each property can fail, the hazards and
the theorems.

## 1. Inventory

| Part | State it keeps | Operations | Talks to |
|---|---|---|---|
| Mailbox queue (`store/delivery.go`, `server/delivery.go`) | rows per mailbox with sequence, delivery id, expiry; the mailbox's next sequence; capabilities | put (stored, duplicate, conflict, full, forbidden), fetch after a cursor, ack by id, sweep | members over a channel; hub of notices |
| Outbox and inbox (`arveil-core/delivery.rs`) | sealed rows in send order, their state and expiry; inbox ids; acked marks; one cursor per mailbox | enqueue, pending, mark accepted or undeliverable, record incoming, mark acked, set cursor | one transaction with the MLS state |
| Sync and publish (`arveil-app/lib.rs`, `carrier.rs`) | running commands, one connection each | `publish_pending`, `sync`, `send`, ... | relay; outbox and inbox |
| Sessions and executor (`arveil-app/lib.rs`) | a registry slot per profile, the file lock, a worker thread, counters of admitted commands, five exclusions | open, submit, run, panic, close | every command |
| Activity notices (`server/watch.go`, `store/watch.go`) | the hub: at most one subscription per device; watch keys; per connection a delivering goroutine | MailboxWatch, wake, WatchKeySet, revocation's recheck | every put; revocations; the client's poll loop |
| Blob store (`store/blobs.go`, `server/blobs.go`) | rows, staging files, final files | begin, chunk, resume, commit, read, sweep, reconcile at start | file system; members |
| Attachments on the client (`attachment_ui.rs`, `attachment_store.rs`) | transfer state, descriptor, stored chunks | queue, resume, upload, download, cancel, export | blob store; send unit |
| Linking (`onboarding.rs`, `onboarding/linking.rs`, `store/pairing.go`) | rendezvous with three slots; offers in memory; pairing sessions and completion phases | offer, answer, sign, publish, seal, read, cancel, confirm, complete | enrolment; manifests |
| Invitations (`invitations.rs`, `store/invitations.go`, `onboarding.rs`, `keypackages.go`) | tokens with uses, receipts, key packages; one durable row per operation on each side | issue, redeem, accept, claim, introduce, settle, revoke, sweep | enrolment; requests; delivery |
| Manifests, revocation, groups (`devices.rs`, `lib.rs`, `mls/policy.rs`, `store.go`) | signed manifests, known manifests, routes and marks, a journal of revocations, MLS state | revoke, publish, refresh, add, remove, receive | relay; delivery |
| Recovery (`recovery.rs`, `client.rs`, `store.go`, `backup.go`) | kits, recovery rows, recorded recoveries, a snapshot of the relay | export, confirm, restore, recover, resume, restore of the relay | manifests |
| Requests and cards (`requests.rs`, `contacts.rs`, `card_store.rs`) | cards, requests, contacts | offer, redeem, classify, settle, answer, save | delivery; sync |
| Channel (`arveil-core/channel`, `carrier.rs`) | nonces, fragments of one frame, one request in flight | handshake, seal, open, request, discard on failure | every request |
| Streams (`watch.rs`, `api/profile.rs`) | a generation counter per stream, a bounded channel per watcher, a watching session | reserve, watch, stop, publish, reconnect | hub of notices; screen |
| History and archives (`delivery.rs`, `archives.rs`) | rows of events, read markers, imported records | record, page, search, mark, export, import | screen |
| Conversation screen (`conversation_controller.dart`) | the window shown, where it continues, running reads and syncs, marks | select, refresh, sync, older, markVisible | streams; commands |
| Limits (`limits/limits.go`) | connection gate, sliding windows | admit, release | every session |
| Links, realm, endpoints, key files, widgets | bytes, keys, files, views | | |

What is hard here:

* **Lost replies.** A request that times out drops its connection (`carrier.rs` 332-399),
  but the relay may have handled it, may be handling it, or may handle it later. Every
  client operation is repeated without knowing which. `Delivery` and `Attachments` call such
  a request an *orphan*.
* **Several transactions per operation.** Relay handlers commit and then tell the hub; blob
  handlers change a row and a file; `sync` commits, acknowledges and stores its cursor;
  a link completes in phases, a settlement in four statements. Anything may happen between
  two of them, a crash included.
* **Commands interleave at every wait.** `FuturesUnordered` on one thread: what a command
  read before a wait may be stale after it. Five exclusions, held across waits, keep some
  of them apart.
* **No sequencer.** Members of a group decide for themselves who may commit, from manifests
  that reach them in any order.
* **Time.** Expiry, sweeps, revocation and quotas act on their own.
* **Progress.** A pass stops at the first thing it cannot do, so what blocks one thing may
  block everything behind it.

What makes the parts correct: nothing accepted is lost silently, nothing is shown twice or
before what it builds on; a cursor leaves nothing behind; a notice reaches who is entitled
and nobody else for long; what is served of a blob is what was verified; a
cancelled transfer or link stays cancelled; a recorded phase is true; an invitation is used
once; a revoked device stays out; members stay on one line of epochs; nobody is verified
and nothing joined without the person; a screen shows a whole stretch of what the store
holds and is told what it missed; a refused message was not sent; what should happen happens
eventually. The hazards
are listed, each at its line, in `PROJECT.json`.

## 2. The modules

| Module | Models | Extends |
|---|---|---|
| `Expiry` | `coarseExpiry`, `coarseHour`, clipping to a TTL | |
| `MailboxQueue` | the envelope table and its statements | `Expiry` |
| `ClientQueues` | outbox, inbox, cursor | `MailboxQueue` |
| `Delivery` | `publish_pending`, `sync`, send units, the put and ack handlers, sweep, revocation, interruptions, orphans | `ClientQueues` |
| `CausalDelivery` | what delivery promises, abstractly | |
| `Notices` | hub, handlers and goroutines of `watch.go` over the queue | `MailboxQueue` |
| `BlobStore` | rows and files of `blobs.go`, statement by statement | `Expiry` |
| `Attachments` | managed uploads and downloads, blob handlers, faults, restart | `BlobStore` |
| `Commands` | the table of commands: how each is run, what it answers, admission, exclusions, the changes it may record | |
| `Executor` | `executor_for`, `submit`, `run_executor`, `command_future`, `shutdown`, the schema check | `Commands` |
| `Channel` | frames and their answers, fragments, handshake, kinds of failure (no state) | |
| `Streams` | progress and activity streams, their generations, the watching thread and its session at the relay | `Channel`, `Commands` |
| `History` | events, pages, search, read markers, archives | |
| `Screen` | the conversation screen over `History` | `History` |
| `Linking` | both devices and the relay while a device is linked, and its revocation | |
| `Invitations` | issuer, guests and relay around a personal invitation | |
| `Groups` | revocation, manifests and commits of one conversation | |
| `Recovery` | kits, restored profiles, the relay and its snapshot | |
| `Requests` | cards, requests and contacts of one device | |
| `DeliveryInvariant`, `AttachmentsInvariant`, `ExecutorInvariant`, `InvitationsInvariant`, `RecoveryInvariant`, `LinkingInvariant`, `GroupsInvariant` | inductive invariants (those of `Notices`, `Screen` and `Requests` stand at the head of their proofs) | |
| `DeliveryProofs`, `NoticesProofs`, `AttachmentsProofs`, `RequestsProofs` (and `Groups`), `ExecutorProofs` (and `Streams`), `InvitationsProofs`, `RecoveryProofs` (and `Linking`), `ScreenProofs` | theorems | `TLAPS` |
| `MCDelivery`, `MCExecutor`, `MCGroups`, `MCInvitations`, `MCScreen` | instances for TLC whose constants are functions or records, or whose steps are bounded further; the other runs are a `.cfg` on the module, or on the module of its invariant | |

**Delivery.** A *task* is a running command of a profile: the sync of a device (named by the
device) or another publishing command. `pc[w]` says where it is, `todo[w]` is the snapshot
of the outbox it works through, `items[d]` the fetched page, `advanced[d]` the code's
`advanced_to`. Requests in flight are `puts` and `acks`; a live request has a task waiting
for its answer, an orphan has none. Every transaction is one action: the receive unit
(`ProcessNew`) writes inbox row, MLS state and event together. A *content* is an MLS
message, its *copies* are the envelopes of the fan-out, and `Requires` says what it builds
on: that is all the protocol can see of an epoch. `Interrupt` covers a broken connection, a
timeout and a killed process, also where `sync` refreshes manifests, replenishes key
packages or settles invitations and downloads, which the model leaves out.
Deliveries have one body each, so `PutConflict` is not reached; capabilities are revoked
but do not grow old.

**Notices.** A session is a connection with its one subscription. `phase` follows its
goroutines, `hub`, `done` and `wake` are the hub's map and channels, and `wakes`, `stales`,
`rechecks`, `listed` are handlers between their commit and their call of the hub. All
devices belong to one identity. The clock stands still, so credentials do not expire; the
push hint of `notify.go` is left out, and the client's reconnection is in `Streams`. A
member session whose subscription is replaced stays open and unwatched, as in the code.

**Attachments.** Bytes are counted in chunks; a file is the sequence of chunk numbers
written to it, so a torn or repeated append is visible and a hash matches exactly the
sequence 1..Size. Every handler runs one statement or file operation per step. Any of
these can fail (`HandlerFails`), the relay can stop between any two and run `Reconcile`
when it starts again (`Restart`), the sender's or receiver's connection or process can end
(`InterruptUpload`, `InterruptDownload`). A cancellation interleaves wherever a transfer
waits. The last chunk of a download and its verdict are two transactions (`Verify`). Which
unused id `Begin` draws is immaterial, so it is a `CHOOSE`. One identity, one size, one
receiver per attachment. The sweep deletes by id whatever state the row is in by then, and
an append goes to the opened file wherever it was renamed to.

**Executor.** One step is one critical section or one stretch between two awaits. `slot` is
the profile's entry in `SESSIONS`, `alive` the worker thread that holds the lock, `stage[r]`
where a command is between its caller, the queue and the worker, `held[r]` how many of its
exclusions it has. A command records the changes of its `Script` one durable unit at a time
and may fail or panic between any two; `result[r]` is what `CHANGES` collected and
`chat_mutation` what Dart is told of it. `outside` is another process with the same profile,
perhaps a newer build that migrates it (`version`). Which commands exist, how each is run and
which exclusions it takes is the table in `Commands`, whose assumptions TLC evaluates: every
method of `Application` matches the output its command has, and every call of the bridge
names a command. A session ends with `close()`, or when its last handle is dropped, which
starts the same shutdown later; `overtaken` is a history variable that says that an open got
in between such a drop and the shutdown it starts (section 4).

**Streams.** A behaviour follows either progress or activity. A screen reserves a generation,
asks for the stream, and stops it, perhaps after its successor started one. A progress
channel holds `WatchCapacity` events; what does not fit is counted and announced as a gap.
The watching thread tries endpoints (an endpoint may be down, be another relay, or have a
store that fails), subscribes, waits and pings; `wire[g]` are the frames
on their way to it, `hub` the one subscription the relay keeps. A thread notices at its next
turn that it is not current. Asking for the stream may fail before there is a session (a full
queue, a store that fails): nobody is told then (`"untold"`) and the screen's timer carries
on. The length of pauses is left out.

**History and Screen.** A row's cursor is its position. The window is the set of cursors
shown, `before` where it continues; reads, refreshes, syncs, older pages and marks are
futures that interleave at their awaits, with the code's counters (`_historyRead`,
`_selection`) deciding which result counts. `seen[g]` records the newest row a displayed
frame showed. An archive is a set of records, opened with the secret it was made with.

**Linking.** A *road* is a rendezvous (opened by card on the root device or by code on the
new one) or a grant carried by hand. Slots are written once; `sealed` is the answer in the
third. `DeviceAuthorize` signs a credential and the next manifest in one unit, `PublishGrant`
and the registration are separate requests, and the relay checks a registration against the
newest manifest (`CheckCredential`) before it inserts it (`RegisterCredential`): a manifest
may land in between, and the handler goes on without the one who asked. On the new device `session`, `grant` and
`phase` are rows, `did` says how far the effects really are: a phase is recorded after its
effect (`DoEffect`, `AdvanceCompletion`), so a crash repeats it. `Unlocked`, `NobodyAsking`
and `NobodyWaiting` are the executor's exclusions. Cryptography is left out: an answer read
from a slot is the one that was sealed.

**Invitations.** The owner's row is written before the relay is asked; a guest's progress is
its enrolment row (`Redeeming` to `Complete`) and its operation row. `doing[g]` is the
command a guest runs, `tending` the owner's. A request takes effect at the relay in one
step and its reply is saved in the next; `GuestStops` and `OwnerStops` between the two are
a lost reply, a crash or a lost request. `age` counts what the relay's clock decides:
valid, past the seven days, past the retention. `sent` is the state of the introduction in
the guest's outbox: sealed, accepted, refused for good, or past the expiry the
relay gave it (`Lapse`); an acceptance is complete only when `notification_counts` finds
nothing of it pending, refused or lapsed. `Forward` is somebody else's client that was given
the link and introduces itself with it. A listing that does not ask the relay takes no
exclusion and cleans up all the same; a command of the owner works on the row it read when
it began (`tending.row`). `built` and `taken` are history.

**Groups.** A group state is the sequence of commits a member has applied; two members are
on one line when one sequence is a prefix of the other. `KnownRevoked` is what a member
knows, `Permits` the policy's verdict on a commit, `IAmCommitter` its own claim. `journal`,
`announced` and `told` are `device_revocations`. A pass goes through the stages of `sync`;
add and remove interleave at its waits, while `prepare` runs without one. Mail is delivered
once and in order, which is what `Delivery` shows. MLS itself (leaf numbers, epochs) is
external: a commit applies to the very state it was made on.

**Recovery.** A manifest is the sequence of bodies that leads to it, which is what its hash
chain commits to. A kit is a manifest with the root. Profiles restored from a kit, the
profile called lost and linked devices all act at will, over sessions opened earlier too
(`members`); the operator may copy the relay and put the copy back. A registration is two
steps of the relay, the check against the newest manifest and the insert; `late` is a history
variable with the credentials whose insert came after the manifest that revokes them.

**Requests.** One device. The three first messages of a conversation arrive in order, each
in its receive unit. A settlement reads the pending codes (`work`), waits, and then writes
up to four statements, of which a crash may keep any prefix (`SettleTorn`); the person
answers and saves contacts in between. `Me` is the person's own identity, whose other
devices start conversations too, and `Shared` are the conversations another device of it is
in: both are joined without a request, like those of a chosen contact (`Joins`). Histories
record what the person did.

## 3. What is checked

Safety runs use `Spec`; runs with a liveness property use a specification with fairness. In
`MCExecutor` and `MCInvitations` a bound on the next state is added to either.

| Run | Instance and properties |
|---|---|
| `delivery` | two causally related messages, a mailbox of one row, expiry, sweep, revocation, two interruptions: `NoSilentLoss`, `AppliedOnce`, `NothingSkipped`, `CustodyUntilCommit`, and the refinement `ImplementsCausalDelivery` |
| `delivery_live` | sync and a send command publish one outbox from two snapshots, one interruption: `InOrder`, `EventuallyProcessed` |
| `notices` | two connections of a device, member or watch key, puts, acks, key changes, a revocation: `HubSound`, `ToldOnceMore`, `MailAnnounced` |
| `attachments` | an upload, its message and its download under a quota, two faults, cancellations, expiry, sweep: `ServedVerified`, `ReadyComplete`, `CommittedStays`, `CancelFinal`, `EventuallySent` |
| `executor` | two sessions and another process, an invitation with a sync or with a message, limits of one, failures and panics, close and drop: `OneSession`, `NoOverlap`, `RetryIsSafe`, `NothingHangs` |
| `streams` | two generations, a channel of two events, two endpoints, one failure, revocation, close: `GapAccounted`, `EventuallyTold` |
| `screen` | a conversation with one row of history, one message arriving and one written, pages of one row, one failure, an archive: `WindowWhole`, `UnreadHonest`, `StoreFaithful`, `EventuallyShown` |
| `linking` | a rendezvous by card or code and a direct grant, two lost requests or crashes, expiry, cancellation, refusal, revocation: `PhaseTruthful`, `EventuallyLinked` |
| `invitations` | an invitation and a token of the host; one guest with one fault, a refused or lapsed introduction, two key packages, ageing, sweep and an early linked device, or two guests with the link, forwarded, and no trouble: `AdmittedTruthful`, `IntroducedOnce`, `SpentOnce`, `ConnectedWithClaimant` |
| `groups` | phone and laptop of a person and a friend to add, two manifests, two epochs, one pass cut short: `ForkOnlyAfterRevocation`, `RemovedWasRevoked` |
| `recovery` | an old and a restored profile, a linked device, three manifests, one restore of the relay: `RevokedKeptOut`, `LostStayOut`, `ScreenTruthful`, `EventuallySettled` |
| `requests` | two people, one saved by hand, and another device of the person; two conversations, one of them shared with that device, one code: `VerifiedTruthful`, `JoinedByChoice`, `EventuallyVerified` |

**Bounds.** Two copies are the fewest that can be reordered, skipped or reinserted.
`MaxMailboxQueue = 1` makes a full mailbox and a retry after a drain ordinary events.
`DefaultEnvelopeTTL = MaxTime = 2` lets a row expire, be swept and be put anew. Two
interruptions give an orphan and, during the retry, a second one. Two sessions are the
fewest that replace one another; one key suffices for a stale one, as removing it leaves it
stale. In `attachments` four blobs are more than two faults can waste, so `Begin` is never
stuck for want of an id; size 2 has a first and a last chunk; quota 3 is exceeded by a
second committed blob; faults happen at time 0 (`LastFault`), expiry and sweep afterwards.
In `executor` the three commands are an invitation, a sync and a message: the first two
share exclusions, the third is one a retry must not repeat and shares a limit with the first.
A sync and a message share neither and are not submitted together (`Meeting`); submitting is
not a fair step, so the bound does not interfere with fairness. Two sessions are the fewest
that can meet. In `streams` two generations are the fewest that replace each other, and five
changes fill a channel of two, make a gap and fill it again. In `screen` three rows and pages
of one make a read of several pages that others can overtake. In `linking` one
rendezvous and the direct grant are the two roads that can compete for a completion, and
two mailbox keys are as many as two faults can draw. In `invitations` two packages are the
fewest that a wrong retry could waste; the second guest is the somebody else who could spend
the same invitation or introduce itself with a link it did not redeem. Both at once are too
many states, so a behaviour has one guest and any trouble or two guests and none
(`OneOrUntroubled`); the proofs have both. Guests and packages are interchangeable, hence the
symmetry. In `groups` the phone holds the lower leaf, so a
revocation moves the committer, and the friend gives a second identity and an add that races
it. In `recovery` sequence 3 allows a link or revocation between kit and recovery, and between the check and the insert
of a registration. In `requests` one code that two conversations carry is counted once, and
the shared conversation is joined by either of the reasons `classify` has. The proofs have no
bounds.

`InOrder` is checked with a standing clock: once the clock may advance, a second publisher
can put an expired row anew behind a younger one. `EventuallyProcessed` is stated for a
standing clock, because an expired envelope is rightly never processed.

**Fairness.** An open profile syncs again and again (the client's timer), a pass or handler
that can move moves (goroutines and futures are scheduled), the relay's sweep runs on its
ticker, time passes. Interruptions and the other faults are never fair and are bounded.
`Notices` assumes nothing of clients, `Attachments` that the sender keeps resuming what is
pending. In `Executor` the worker is scheduled and polls what it holds, and a session that
is being closed goes on closing; nobody is obliged to close one. `Linking` assumes
that a person retries an operation that the application shows as unfinished; an exclusion
serves its waiters in order (tokio's mutex is fair), so the retry is given strong fairness,
as other commands can delay it and not shut it out. In `Recovery` and `Requests` replies may
be lost again and again, but not for ever: the steps that need one have strong fairness.
In `Screen` queries answer or fail, and the poll timer starts a sync while the screen may
sync. In `Streams` the relay's goroutines and the client's threads are scheduled; connections
fail a bounded number of times. `Groups` and `Invitations` have no liveness property. `CHECK_DEADLOCK FALSE`
stands where everybody may have nothing left to do.

## 4. Disagreements met while modelling

These were reached with TLC on instances of these modules, or read in the code while
translating it. The properties of the runs are stated so that they are true of the code:
where a promise of the repository is not kept, the property names the one case in which it
is not (`CommittedStays`, `OneSession`, `RevokedKeptOut`, `JoinedByChoice`), and a run and a
proof show that there is no other.

Linking:

* A device whose first link was interrupted after the relay registered its credential is
  signed a second one, which the relay never registers; revoking the device names only the
  newest hash (`client.rs` 1014, 1771), and the first credential stays active, against
  PROTOCOL.md:248.

Delivery, notices, attachments:

* A message of a new epoch that reaches a mailbox ahead of the commit it needs ends every
  pass there (`lib.rs` 5438), and the commit lies behind it: deferred until it expires, where
  PROTOCOL.md:143 expects it processed once the commit arrives.
* Two devices that each have more to publish than the other's full mailbox holds wait for
  each other: `sync` publishes before it fetches (`lib.rs` 5367; ARCHITECTURE.md:110).
* A revocation between `startWatch`'s check and its subscribe closes nothing; the session
  stays in the hub until its next notice (`watch.go` 234).
* A row put anew after its receiver acknowledged it is recognised as a duplicate and not
  acknowledged again: it stays until it expires.
* A chunk appended and not counted is appended again on resume, and the hash never matches
  (`blobs.go` 150); the upload gets through only as a new blob.
* The sweep deletes the row of an upload that was committed after it was listed (`blobs.go`
  305-318), against DOMAIN_MODEL.md:82 ("`staging → committed → expired → deleted`. GC ignores
  active uploads"): listed as stale, its last chunk arrives, it is committed, its row is
  deleted, and the sender's message names a blob that no receiver can fetch. `CommittedStays`
  says that a committed blob is lost before its time in no other way, `ServedVerified` that
  what is served is what was verified. An orphaned chunk can also be appended to, and counted
  for, a committed blob, whose receivers then see another size and mark the attachment
  invalid.

Executor:

* A session whose last handle is dropped, not closed, may be opened over: `executor_for`
  looks at the strong count (`lib.rs` 2035-2045), which is zero before `Drop` begins its
  shutdown, and the lock is shared within the process. The late shutdown then marks and
  forgets the new session's entry (1707-1714), so a third open is not refused, although the
  profile is "never free while work of its own is still in flight" (`lib.rs` 1661-1663) and
  dropping closes it "on the same terms as `close`" (1719): TLC
  reaches a state in which the registry is free and commands of the second session are in
  flight. `OneSession` is therefore
  conditioned on `~overtaken`; that no other process has the profile, and that the schema is
  this build's, holds in any case.

Streams, history:

* "The stream ends when the profile closes" (`api/profile.rs` 1424), but the progress thread
  ends only when it is stopped or its stream is dropped: `close` leaves the subscription.
* The relay keeps one subscription per device and the newest to arrive wins: the thread of an
  older generation that subscribes late silently replaces the one its screen needs, which
  stays deaf until it reconnects for some other reason. `EventuallyTold` excepts it
  (`Superseded`).
* "Whether a failure means the credentials themselves were refused" (`watch.rs` 322): the
  relay closes every failed handshake as a policy violation (`server.go` 131-138), also one
  during which its store failed (`session.go` 44-55), and `refused` takes that for a
  revocation. A healthy device stops following until its screen asks again. `EventuallyTold`
  excepts it (`thread[g] = "refused"`).
* `download_pending` records `file-unavailable` (`lib.rs` 5860, 5966), a kind that
  `archives.rs` `normalize` refuses, so `export_archive` fails from then on
  (CLIENT_FOUNDATION.md:311-314).

Invitations and requests:

* A request declined while a settlement waits for a credential is joined all the same, for
  a personal invitation (`invitations.rs` 669, 691, 722; "an already declined request is never
  automatically accepted", INVITATIONS.md:116) and for a code
  (`requests.rs` 243-247; "declined conversations disappear and deliver nothing more",
  CLIENT_FOUNDATION.md:1066). A declined sender of a valid code also
  becomes a chosen and verified contact. `JoinedByChoice` says that this is the only way: a
  declined conversation is joined for a code that bound to its sender and not otherwise.
* Accepting a request between its welcome and its roster leaves `request_from` empty for
  good: the code is spent and nobody is verified (ADR-012:101).
* A crash between `request_set_card` and `request_resolve` leaves the request pending, and
  no later sync looks at it.
* Linking a device before an enrolment is complete signs a manifest the relay has not got,
  and the enrolment cannot be resumed. A claim key older than seven days, or an introduction
  that was refused or expired before the guest recorded the end, leaves an invitation in
  progress for ever, so that nothing is claimed of its end. An enrolment with an
  invalid token leaves its row behind.

Groups, manifests, recovery:

* `credentialPut` looks at the newest manifest (`session.go` 212-219) and inserts in a
  transaction of its own (220, `store.go` 651-661). A manifest or a recovery that revokes the
  credential in between finds no row to disable (`store.go` 580-582, 627-629), and the
  credential is then inserted as active, where "the realm refuses the revoked device's
  handshake" (PHASE2.md:40). `RevokedKeptOut` says that there is no other
  way in.
* `prepare` removes one revoked leaf per commit, and `policy.rs` 195 refuses a commit that
  leaves a lower revoked leaf in place. With two revoked devices below the one that holds
  the root, `revoke` and every later `sync` fail before they connect, and the second
  revocation does not reach the relay (CLIENT_FOUNDATION.md, "Regular sync resumes confirmed
  revocations"; PROTOCOL.md:135).
* A manifest notice of sequence n that arrives after the receiver has accepted n+1 from the
  relay is refused as a rollback (`identity/mod.rs` 376), and its envelope blocks the mailbox
  until it expires (PHASE1.md:36, PHASE2.md:28).
* A manifest accepted before the roster that brings the route leaves that route unmarked
  until the next refresh (PHASE2.md:29). A committer that does not hold the root never
  removes by itself. The relay does not look again at an open session of a revoked
  credential.
* The relay compares sequences only, so a holder of the old root with an open session can
  publish a longer line that does not contain the recovery, against PROTOCOL.md:250
  ("it never rolls back"); a credential signed and not registered at export can come in
  over it. The rollback warning is also shown when the kit's manifest was never published. A
  relay restored after it accepted a recovery, and before that is complete, makes it
  impossible to resume.

## 5. What is proved

All theorems hold for any constants that satisfy the modules' assumptions
(`ExpiryAssumption` and its like: names are distinct where the code's types are, limits and
lifetimes are natural numbers, positive where the code's constants are; the first members
of a conversation are different devices). TLC evaluates every one of those assumptions. The
theorems about `Streams`, `Linking` and `Groups` sit beside those of a module they share a
subject with and speak of a named instance of theirs (`S!`, `L!`, `G!`); the assumptions of
`Linking` and `Groups` are then a hypothesis, stated in full (`LinkConstants`,
`GroupConstants`).

* `DeliveryProofs`: rounding an expiry never lengthens a life and never cuts it by half or
  more (`CoarseExpirySound`). `Spec => []DeliveryInv`, and from it `TypeOK`, `NoSilentLoss`,
  `AppliedOnce`, `NothingSkipped`, `CustodyUntilCommit`, and that `Delivery` implements
  `CausalDelivery`. None of these is inductive by itself. That no row lies behind a cursor
  needs that a page in hand has no holes (`PageComplete`), which needs that a row which
  now has the sequence of an item carries the same delivery (`PageSound`), which needs that
  sequences are used once (`RowsSound`). That an acceptance is true when it is *marked*
  needs that it is true while it is *on the way* (`PromisesKept`), which needs that the
  answer of a task is about the row the task is at (`Turns`, `OutboxSound`).
  Order is a second layer, `OrderInv`, on top of `DeliveryInv`. `InOrderUntilExpiry`
  concludes `[]InOrder` from `Spec` and `[]NothingExpired`, that no row of the queue is past
  its expiry; `InOrderHolds` discharges that for a standing clock. The argument: a task that
  has y to put has every earlier x of that mailbox to put first, or x is settled (held by the
  relay or its receiver, or its mailbox takes nothing more), so no put of y, live or orphan,
  exists before x is settled (`SentInOrder`, `ToldSound`); therefore x has the lower sequence
  or has been received (`QueuedInOrder`), a page repeats that (`PageInOrder`), and a pass
  takes the lowest first (`ReceivedInOrder`).
* `NoticesProofs`: `Spec => []NoticesInv`, hence `HubSound` and `ToldOnceMore`. A late
  notice is the last because a session that got one is not entitled, is not about to be
  told, and can never be entitled again: keys are registered once (`LateSound`, `KeysSound`).
* `AttachmentsProofs`: `Spec => []AttachmentsInv`, hence `ServedVerified` and
  `ReadyComplete`, and the action properties `CommittedStays`, `CancelFinal` and
  `RestartClean`. The argument:
  nothing names a blob before `Begin` is done with it (`FreshSound`), so its file is created
  where none can be; a file is in one directory only (`FilesSound`), so what a commit
  verified is what it renames, orphans append behind it and never before it, and a second
  commit of the blob finds nothing to rename (`CommitSound`); the sweep removes a final file
  only when its blob is expired, which it stays (`SweepSound`). For downloads: unless it was
  cancelled, a running download holds what the database holds (`DownloadSound`).
* `RequestsProofs`: `Spec => []RequestsInv`, hence `VerifiedTruthful` and `JoinedByChoice`.
  Neither is inductive: a settlement acts on what it read before it waited, so the invariant
  says that everything in `work` is backed by a code that counted for that conversation
  alone (`WorkSound`, `PendingSound`), which lasts because a code that counted is not open
  any more (`CodesSound`) and the roster names the starter (`ChatsSound`).
  The module also proves, of `Groups`: `[]GroupsInv`, hence `RemovedWasRevoked`, and two
  theorems about forks. The invariant says that whatever a device holds for revoked its own
  root revoked (`LineInv`, `TableInv`), and that every history, of a member, in an outbox or
  in a mailbox, was led at each epoch by the lowest leaf not revoked or by a revoked device
  (`GroupInv`, `MailInv`). So of two different committers at one epoch of one line one is
  revoked (`RivalsWereRevoked`), whatever each of them knew. `OneLineWhileUnrevoked`: until a
  device is revoked, of any two members' states one is a beginning of the other, because the
  founder commits alone and all the rest is a beginning of what it has (`FounderInv`).
* `ScreenProofs`: `Spec => []ScreenInv`, hence `WindowWhole` and `UnreadHonest`, for any
  history, arrivals and page size. A window has no gap because what a read has collected so
  far has none, and its next page or an older one continues exactly where it ends; any step
  that moves that place abandons the read (`WindowInv`). No mark on its way exceeds what a
  frame showed (`MarksInv`).
* `RecoveryProofs`: `Spec => []RecoveryInv`, hence `RevokedKeptOut`, `LostStayOut` and
  `ScreenTruthful`. That whoever held the root stays out after a recovery needs that its
  receipt was made from a kit that listed them and that the relay's manifest is never shorter
  again (`ReceiptSound`), in the operator's snapshot too, because it may be put back
  (`ReceiptsSound`, `TablesInStep`, which excepts what was inserted late). A late registration or a repeated recovery cannot revive
  anybody because no manifest lists a profile before it exists or, while it is coming back,
  at a lower sequence than it comes back with (`ManifestsSound`, `RecoveringSound`). What the
  screen says of the kit is `KitsSound`: an exported or confirmed sequence is older than the
  device's manifest, or that very manifest is in a kit.
  The module also proves, of `Linking`: `[]LinkingInv`, hence `PhaseTruthful`. Whatever is
  granted, sealed, handed over or applied is the one credential the relay registered, so no
  two roads lead to different ones (`Granted`); what is durable is ahead of every phase that
  says so, on whichever road (`Durable`), which a completion that resumes relies on.
* `ExecutorProofs`: `Spec => []ExecutorInv`, hence `OneSession`, `NoOverlap` and
  `RetryIsSafe`, for any number of sessions and requests and any scripts of changes. One
  session at a time rests on the registry accounting for every session that is not closed,
  step by step of its shutdown (`SessionSound`), which lasts until an open overtakes the
  shutdown that the drop of a last handle starts (section 4): that part of `OneSession`, and
  `NoOverlap`, are proved while `~overtaken`. What `OneSession` says of other processes and of
  the schema, and `RetryIsSafe`, need no such condition: that a recorded change is a durable
  one (`AnswerSound`) is local to the request. `NoOverlap` needs that a running
  command holds all its exclusions and that no exclusion has two holders in a session
  (`ExclusionSound`), and `OneSession` for two commands of different sessions.
  The module also proves `GapAccounted` of `Streams`, for any channels and capacities: the
  events heard, in the channel, announced by a gap or counted for the next one are all that
  were published. The witness (`place`) is shifted by each action that touches the channel.
* `InvitationsProofs`: `Spec => []InvitationsInv`, hence `SpentOnce`, `AdmittedTruthful`,
  `IntroducedOnce` and `ConnectedWithClaimant`, for any guests, invitations, host tokens, key
  packages and faults. What a guest is doing must follow from its rows, because a resumed
  command starts from them and not from where the last one stopped (`StepSound`, `RowSound`).
  An invitation is spent by the one the relay named (`CardSound`); the counter of a host token
  and the set of those who redeemed it move together (`HostSound`), by counting. A claim is
  answered from its receipt as long as its key is young (`ClaimSound`). What the owner is
  about to write down was true when the relay said it and stays so: an invitation revoked or
  withdrawn before use is used by nobody later (`Withdrawn`, `OwnerSound`).

Each inductive invariant was checked by TLC on the instance of its run before it was proved;
where it has a module of its own, the run's module extends it.

Only model-checked, and why:

* every liveness property (`EventuallyProcessed`, `MailAnnounced` and their like,
  `NothingHangs`): fairness and ENABLED are out of the prover's reach;
* `StoreFaithful` compares a search and an archive with folds over the history, which needs
  induction over data;
* `ForkOnlyAfterRevocation` for one device that commits twice at one epoch. Its other case,
  two committers, is `RivalsWereRevoked`. `handle_mls` does not refuse a Welcome for a group
  the device already has, so a member's state could in principle go back and it could commit
  there again; that no such Welcome is ever addressed to a committer is a fact about who is
  added when, which TLC confirms for the run's members and no invariant here states.

`InOrder` while rows expire is not claimed: it does not hold then (section 3). No module uses
RECURSIVE operators.

## 6. Not modelled

Cryptography, encodings, key files and migrations are taken as correct; SQLite transactions
are taken as atomic and fsync at its word. The command line's `send_file` and
`download_pending` with their `.part` files, endpoint rotation, credentials that expire,
concurrent uploads of one identity that exceed the quota together, a restore of the relay's
mailboxes under clients that kept their cursors, and limits on pending invitations are left
out. So are two orders of hub calls: two WatchKeySets of one device that commit in one order
and reach the hub in the other, and mail put while a fetched page waits for its
acknowledgement, which finds the mailbox not empty and gets no notice.

Much of the repository's code has no state to check: the generated Flutter bridge, the
command line's argument handling, the codecs of links and cards, the MLS spikes, and
widgets. The remaining parts are listed with their reasons in `PROJECT.json`.

## 7. Plan

1. Proof: who can be welcomed twice, for what is left of `ForkOnlyAfterRevocation`.
2. Restore: `Delivery` with a snapshot of the relay put back under clients that kept their
   cursors.
3. Limits: the connection gate and sliding windows at their bounds.
4. Liveness of `Invitations`: an acceptance that the relay recorded ends, but for the cases in
   section 4. With the lost replies and the owner's side it needs an instance of its own.
