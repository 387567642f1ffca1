------------------------------ MODULE Notices ------------------------------
(***************************************************************************)
(* Activity notices: the relay's watch hub (relay/internal/server/watch.go,*)
(* server.go, store/watch.go) over the envelope queue, with the handlers   *)
(* that reach it and the client that waits (arveil-app/src/watch.rs).      *)
(*                                                                         *)
(* Every connection has a goroutine that serves its frames and, once it    *)
(* subscribed, a second one that delivers notices.  The hub's mutex covers *)
(* one operation at a time, the database another: a handler commits its    *)
(* transaction first and tells the hub afterwards, so anything happens in  *)
(* between.  Those tails are the variables wakes, stales, rechecks and     *)
(* listed.                                                                 *)
(*                                                                         *)
(* A session is a connection and, as the client sends MailboxWatch once    *)
(* per connection, also its subscription.  All devices belong to one       *)
(* identity, whose subscriptions recheckWatchers goes through.             *)
(***************************************************************************)
EXTENDS MailboxQueue

CONSTANTS
    Sessions,   \* connections: each is opened once
    Keys,       \* watch keys: each is generated once
    None,       \* no session, no key
    Member,     \* the key of a session opened with the transport key
    FetchLimit, \* envelopes one fetch returns
    CanRevoke   \* devices that may be revoked

ASSUME NoticesAssumption ==
    /\ None \notin Sessions /\ None \notin Keys
    /\ Member \notin Keys \union {None}
    /\ IsFiniteSet(Envelopes)
    /\ Envelopes \subseteq Bodies
    /\ FetchLimit \in Nat \ {0}

VARIABLES
    watchKey,  \* table watch_keys
    issued,    \* keys that were ever registered
    phase,     \* where each session is
    owner,     \* the device a session was authorized for
    key,       \* the static key it was opened with
    hub,       \* watchHub.subs
    done,      \* sessions whose done channel is closed
    wake,      \* sessions whose wake channel holds its one token
    wakes,     \* puts that have still to wake the owner of the mailbox
    stales,    \* WatchKeySets that have still to drop a stale session
    rechecks,  \* revocations that have still to list the hub
    listed,    \* subscriptions a revocation listed and has still to check
    posted,    \* envelopes that were put
    noticed,   \* sessions whose client heard a notice and has not synced since
    held,      \* the page each device fetched and has still to acknowledge
    late       \* notices written to a session that had lost its entitlement

sessionVars == <<phase, owner, key>>
hubVars == <<hub, done, wake>>
tailVars == <<wakes, stales, rechecks, listed>>
clientVars == <<posted, noticed, held>>
keyVars == <<watchKey, issued>>
vars == <<now, queue, nextSeq, revoked, watchKey, issued, phase, owner, key,
          hub, done, wake, wakes, stales, rechecks, listed, posted,
          noticed, held, late>>

Phases == {"closed", "open", "entitled", "subscribed", "waiting", "telling",
           "unwatched", "ended"}

NoticesTypeOK ==
    /\ QueueTypeOK
    /\ watchKey \in [Mailboxes -> Keys \union {None}]
    /\ issued \subseteq Keys
    /\ phase \in [Sessions -> Phases]
    /\ owner \in [Sessions -> Mailboxes \union {None}]
    /\ key \in [Sessions -> Keys \union {Member, None}]
    /\ hub \in [Mailboxes -> Sessions \union {None}]
    /\ done \subseteq Sessions
    /\ wake \subseteq Sessions
    /\ wakes \subseteq Mailboxes \X Envelopes
    /\ stales \subseteq Mailboxes \X (Keys \union {None})
    /\ rechecks \subseteq Mailboxes
    /\ listed \subseteq Mailboxes \X Sessions
    /\ posted \subseteq Envelopes
    /\ noticed \subseteq Sessions
    /\ held \in [Mailboxes -> SUBSET Envelopes]
    /\ late \in [Sessions -> Nat]

Init ==
    /\ QueueInit
    /\ watchKey = [d \in Mailboxes |-> None]
    /\ issued = {}
    /\ phase = [s \in Sessions |-> "closed"]
    /\ owner = [s \in Sessions |-> None]
    /\ key = [s \in Sessions |-> None]
    /\ hub = [d \in Mailboxes |-> None]
    /\ done = {} /\ wake = {}
    /\ wakes = {} /\ stales = {} /\ rechecks = {} /\ listed = {}
    /\ posted = {} /\ noticed = {}
    /\ held = [d \in Mailboxes |-> {}]
    /\ late = [s \in Sessions |-> 0]

-----------------------------------------------------------------------------
(* Who may watch. *)

DeviceActive(d) == d \notin revoked

\* Revocation deletes the watch key, so a watch key stands for its device.
Entitles(k, d) == DeviceActive(d) /\ (k = Member \/ watchKey[d] = k)

stillEntitled(s) == Entitles(key[s], owner[s])

DeviceHasMail(d) == Live(d) # {}

Subscribed(s) == phase[s] \in {"subscribed", "waiting", "telling"}

-----------------------------------------------------------------------------
(* The hub: each operator is one critical section.  unsubscribe closes done  *)
(* just before it and dropStaleWatch just after it: what falls in between    *)
(* meets an entry whose subscription is over, and can do nothing with it.    *)

\* A new subscription replaces the device's old one.
subscribe(s) ==
    LET old == hub[owner[s]]
    IN  /\ hub' = [hub EXCEPT ![owner[s]] = s]
        /\ done' = done \union ({old} \ {None})

\* Mutant: it takes whatever entry its device has with it.
UnsubscribeDevice(s) ==
    /\ done' = done \union {s}
    /\ hub' = [hub EXCEPT ![owner[s]] = None]

\* It leaves the hub only if it is still its device's subscription.
unsubscribe(s) ==
    /\ done' = done \union {s}
    /\ hub' = [d \in Mailboxes |-> IF hub[d] = s THEN None ELSE hub[d]]

\* One token at most: notices coalesce.
wakeDevice(d) == wake' = wake \union ({hub[d]} \ {None})

dropStaleWatch(d, current) ==
    IF hub[d] # None /\ key[hub[d]] \notin {Member, current}
    THEN /\ hub' = [hub EXCEPT ![d] = None]
         /\ done' = done \union {hub[d]}
    ELSE UNCHANGED <<hub, done>>

-----------------------------------------------------------------------------
(* A session: the handshake, MailboxWatch, and the end of the connection. *)

\* authorize answers the handshake of an active device's key.  Any other key
\* is refused, or opens a provisional session whose MailboxWatch is refused.
Open(s, d, k) ==
    /\ phase[s] = "closed"
    /\ Entitles(k, d)
    /\ phase' = [phase EXCEPT ![s] = "open"]
    /\ owner' = [owner EXCEPT ![s] = d]
    /\ key' = [key EXCEPT ![s] = k]
    /\ UNCHANGED <<now, revoked, queueVars, keyVars, hubVars, tailVars,
                   clientVars, late>>

\* startWatch first asks the database again.  A refused client gives up on
\* these credentials and closes.
CheckEntitled(s) ==
    /\ phase[s] = "open"
    /\ phase' = [phase EXCEPT ![s] =
                    IF stillEntitled(s) THEN "entitled" ELSE "ended"]
    /\ UNCHANGED <<now, revoked, queueVars, keyVars, owner, key, hubVars,
                   tailVars, clientVars, late>>

\* It then enters the hub, without looking again.
Subscribe(s) ==
    /\ phase[s] = "entitled"
    /\ phase' = [phase EXCEPT ![s] = "subscribed"]
    /\ subscribe(s)
    /\ UNCHANGED <<now, revoked, queueVars, keyVars, owner, key, wake,
                   tailVars, clientVars, late>>

\* The reader of the connection ends: the client closed it or it broke.  The
\* subscription goes with it.
Disconnect(s) ==
    /\ phase[s] \in {"open", "subscribed", "waiting", "telling", "unwatched"}
    /\ phase' = [phase EXCEPT ![s] = "ended"]
    /\ noticed' = noticed \ {s}
    /\ IF Subscribed(s) THEN unsubscribe(s) ELSE UNCHANGED <<hub, done>>
    /\ UNCHANGED <<now, revoked, queueVars, keyVars, owner, key, wake,
                   tailVars, posted, held, late>>

-----------------------------------------------------------------------------
(* deliver, the second goroutine of a subscribed session. *)

\* A watch session exists only to be told, so it closes with its
\* subscription; a member session lives on without it.
AfterWatch(s) == IF key[s] = Member THEN "unwatched" ELSE "ended"

\* Mutant: mail that was already there is not looked for.
DeliverStartBlind(s) ==
    /\ phase[s] = "subscribed"
    /\ phase' = [phase EXCEPT ![s] = "waiting"]
    /\ UNCHANGED <<now, revoked, queueVars, keyVars, owner, key, hubVars,
                   tailVars, clientVars, late>>

\* Ack has gone out.  Mail already waiting counts as a notice.
DeliverStart(s) ==
    /\ phase[s] = "subscribed"
    /\ phase' = [phase EXCEPT ![s] = "waiting"]
    /\ wake' = IF DeviceHasMail(owner[s]) THEN wake \union {s} ELSE wake
    /\ UNCHANGED <<now, revoked, queueVars, keyVars, owner, key, hub, done,
                   tailVars, clientVars, late>>

DeliverDone(s) ==
    /\ phase[s] = "waiting"
    /\ s \in done
    /\ phase' = [phase EXCEPT ![s] = AfterWatch(s)]
    /\ UNCHANGED <<now, revoked, queueVars, keyVars, owner, key, hubVars,
                   tailVars, clientVars, late>>

\* Mutant: the entitlement is not read again before a notice.
DeliverWakeUnchecked(s) ==
    /\ phase[s] = "waiting"
    /\ s \in wake
    /\ wake' = wake \ {s}
    /\ phase' = [phase EXCEPT ![s] = "telling"]
    /\ UNCHANGED <<now, revoked, queueVars, keyVars, owner, key, hub, done,
                   tailVars, clientVars, late>>

\* A token is taken; the entitlement is read again before the notice.
DeliverWake(s) ==
    /\ phase[s] = "waiting"
    /\ s \in wake
    /\ wake' = wake \ {s}
    /\ \/ /\ stillEntitled(s)
          /\ phase' = [phase EXCEPT ![s] = "telling"]
          /\ UNCHANGED <<hub, done>>
       \/ /\ ~stillEntitled(s)
          /\ phase' = [phase EXCEPT ![s] = AfterWatch(s)]
          /\ unsubscribe(s)
    /\ UNCHANGED <<now, revoked, queueVars, keyVars, owner, key, tailVars,
                   clientVars, late>>

\* The MailboxWakeup frame is written and the client hears it.
DeliverWrite(s) ==
    /\ phase[s] = "telling"
    /\ phase' = [phase EXCEPT ![s] = "waiting"]
    /\ noticed' = noticed \union {s}
    /\ late' = [late EXCEPT ![s] = IF stillEntitled(s) THEN @ ELSE @ + 1]
    /\ UNCHANGED <<now, revoked, queueVars, keyVars, owner, key, hubVars,
                   tailVars, posted, held>>

-----------------------------------------------------------------------------
(* The handlers that reach the hub, in two steps each. *)

\* envelopePut: the row is committed; a mailbox that was empty gets a notice.
Put(d, e) ==
    /\ e \notin posted
    /\ posted' = posted \union {e}
    /\ PutStored(d, e, e, 0)
    /\ wakes' = IF WasEmpty(d) THEN wakes \union {<<d, e>>} ELSE wakes
    /\ UNCHANGED <<now, revoked, keyVars, sessionVars, hubVars, stales,
                   rechecks, listed, noticed, held, late>>

PutWakes(w) ==
    /\ w \in wakes
    /\ wakes' = wakes \ {w}
    /\ wakeDevice(w[1])
    /\ UNCHANGED <<now, revoked, queueVars, keyVars, sessionVars, hub, done,
                   stales, rechecks, listed, clientVars, late>>

\* WatchKeySet: the key is replaced by a new one, or removed.  The member
\* session that asks may be older than a revocation of its device.
SetWatchKey(d, k) ==
    /\ k = None \/ k \in Keys \ issued
    /\ k # None \/ watchKey[d] # None
    /\ watchKey' = [watchKey EXCEPT ![d] = k]
    /\ issued' = issued \union ({k} \ {None})
    /\ stales' = stales \union {<<d, k>>}
    /\ UNCHANGED <<now, revoked, queueVars, sessionVars, hubVars,
                   wakes, rechecks, listed, clientVars, late>>

DropStale(w) ==
    /\ w \in stales
    /\ stales' = stales \ {w}
    /\ dropStaleWatch(w[1], w[2])
    /\ UNCHANGED <<now, revoked, queueVars, keyVars, sessionVars, wake, wakes,
                   rechecks, listed, clientVars, late>>

\* A manifest or a recovery revokes a device, its capabilities and its watch
\* key in one transaction, then looks for subscriptions to close.
Revoke(d) ==
    /\ d \in CanRevoke
    /\ RevokeCapabilities(d)
    /\ watchKey' = [watchKey EXCEPT ![d] = None]
    /\ rechecks' = rechecks \union {d}
    /\ UNCHANGED <<now, issued, sessionVars, hubVars, wakes, stales,
                   listed, clientVars, late>>

\* recheckWatchers lists the hub in one critical section ...
ListWatchers(d) ==
    /\ d \in rechecks
    /\ rechecks' = rechecks \ {d}
    /\ listed' = listed \union
          {<<d, s>> : s \in {hub[x] : x \in Mailboxes} \ {None}}
    /\ UNCHANGED <<now, revoked, queueVars, keyVars, sessionVars, hubVars,
                   wakes, stales, clientVars, late>>

\* ... and then asks the database about each.  An inactive device stays
\* inactive, so the answer and the unsubscribe are one step.
RecheckWatcher(w) ==
    /\ w \in listed
    /\ listed' = listed \ {w}
    /\ IF DeviceActive(owner[w[2]]) THEN UNCHANGED <<hub, done>>
       ELSE unsubscribe(w[2])
    /\ UNCHANGED <<now, revoked, queueVars, keyVars, sessionVars, wake, wakes,
                   stales, rechecks, clientVars, late>>

-----------------------------------------------------------------------------
(* The rest of the system, as far as notices depend on it. *)

\* A sync of the device: one page is fetched, and acknowledged later.  What
\* is put between the two finds the mailbox not empty.
Fetch(d) ==
    /\ held[d] = {}
    /\ CheckCapability(d)
    /\ Live(d) # {}
    /\ held' = [held EXCEPT ![d] =
                   {r.delivery : r \in FetchEnvelopes(d, 0, FetchLimit)}]
    /\ noticed' = {s \in noticed : owner[s] # d}
    /\ UNCHANGED <<now, revoked, queueVars, keyVars, sessionVars, hubVars,
                   tailVars, posted, late>>

Ack(d) ==
    /\ held[d] # {}
    /\ held' = [held EXCEPT ![d] = {}]
    /\ \/ CheckCapability(d) /\ AckEnvelopes(d, held[d])
       \/ ~CheckCapability(d) /\ UNCHANGED queueVars
    /\ UNCHANGED <<now, revoked, keyVars, sessionVars, hubVars, tailVars,
                   posted, noticed, late>>

-----------------------------------------------------------------------------
SessionStep(s) ==
    \/ CheckEntitled(s) \/ Subscribe(s)
    \/ DeliverStart(s) \/ DeliverDone(s) \/ DeliverWake(s) \/ DeliverWrite(s)

TailStep ==
    \/ \E w \in wakes : PutWakes(w)
    \/ \E w \in stales : DropStale(w)
    \/ \E d \in Mailboxes : ListWatchers(d)
    \/ \E w \in listed : RecheckWatcher(w)

Next ==
    \/ \E s \in Sessions, d \in Mailboxes, k \in Keys \union {Member} :
          Open(s, d, k)
    \/ \E s \in Sessions : SessionStep(s) \/ Disconnect(s)
    \/ \E d \in Mailboxes, e \in Envelopes : Put(d, e)
    \/ \E d \in Mailboxes, k \in Keys \union {None} : SetWatchKey(d, k)
    \/ \E d \in Mailboxes : Revoke(d) \/ Fetch(d) \/ Ack(d)
    \/ TailStep

Spec == Init /\ [][Next]_vars

\* Goroutines and handlers that can run do run; nothing is assumed of the
\* clients, which may never connect, sync or disconnect.
Fairness ==
    /\ \A s \in Sessions :
          /\ WF_vars(CheckEntitled(s)) /\ WF_vars(Subscribe(s))
          /\ WF_vars(DeliverStart(s)) /\ WF_vars(DeliverWrite(s))
          /\ WF_vars(DeliverDone(s) \/ DeliverWake(s))
    /\ WF_vars(TailStep)

FairSpec == Spec /\ Fairness

-----------------------------------------------------------------------------
(* Properties. *)

\* The hub and the goroutines agree: an entry is a running subscription of
\* that device which nothing has cancelled, and a running subscription that
\* is not the hub's entry of its device has been cancelled.  So a device has
\* at most one subscription, and none is left that neither a new
\* subscription, nor a revocation, nor a new key would find.
HubSound ==
    /\ \A d \in Mailboxes :
          hub[d] # None =>
             owner[hub[d]] = d /\ Subscribed(hub[d]) /\ hub[d] \notin done
    /\ \A s \in Sessions :
          Subscribed(s) => hub[owner[s]] = s \/ s \in done

\* deliver asks again before each notice: a session that lost its key or
\* whose device was revoked is told at most once more, however
\* long the handler that should end it takes.
ToldOnceMore == \A s \in Sessions : late[s] <= 1

\* Mail waiting when a subscription starts, and mail put into an empty
\* mailbox under a subscription, is announced, unless it is gone first or the
\* subscription ends.
MailAnnounced ==
    \A s \in Sessions :
        ( \/ phase[s] = "subscribed" /\ DeviceHasMail(owner[s])
          \/ Subscribed(s) /\ \E w \in wakes : w[1] = owner[s] )
        ~> \/ s \in noticed
           \/ ~Subscribed(s)
           \/ ~DeviceHasMail(owner[s])

=============================================================================
