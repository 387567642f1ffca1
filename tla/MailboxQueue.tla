---------------------------- MODULE MailboxQueue ----------------------------
(***************************************************************************)
(* The relay's envelope queue: relay/internal/store/delivery.go and the    *)
(* handlers of relay/internal/server/delivery.go that reach it.            *)
(*                                                                         *)
(* Every write is one BEGIN IMMEDIATE transaction, so each operator below  *)
(* is one atomic step.  A handler first reads the capability table and     *)
(* then runs its transaction.  The two are one step here: a revocation     *)
(* between them touches only the capability table, so it commutes with the *)
(* transaction and yields a state that "transaction, then revocation"      *)
(* also reaches.                                                           *)
(*                                                                         *)
(* The operators take the request as arguments and constrain only the      *)
(* variables of this module; Delivery and Notices compose them with the    *)
(* clients and with the watch hub.                                         *)
(***************************************************************************)
EXTENDS Expiry, FiniteSets

CONSTANTS
    Mailboxes,          \* one per device: the mailbox it created for itself
    Envelopes,          \* delivery ids
    Bodies,             \* what body_hash tells apart
    MaxMailboxQueue,    \* rows one mailbox may hold
    DefaultEnvelopeTTL  \* longest life of a row

ASSUME QueueAssumption ==
    /\ MaxMailboxQueue \in Nat
    /\ DefaultEnvelopeTTL \in Nat \ {0}

VARIABLES
    now,      \* the relay's clock
    queue,    \* table queued_envelopes
    nextSeq,  \* mailboxes.next_seq
    revoked   \* mailboxes whose device, and with it whose capabilities, is revoked

queueVars == <<queue, nextSeq>>

Row == [mailbox : Mailboxes, delivery : Envelopes, body : Bodies,
        seq : Nat, expires : Int]

QueueTypeOK ==
    /\ now \in Nat
    /\ queue \subseteq Row
    /\ nextSeq \in [Mailboxes -> Nat]
    /\ revoked \subseteq Mailboxes

QueueInit ==
    /\ now = 0
    /\ queue = {}
    /\ nextSeq = [m \in Mailboxes |-> 1]
    /\ revoked = {}

-----------------------------------------------------------------------------
(* Expiry. *)

effectiveExpiry(requested) ==
    coarseExpiry(clipped(requested, DefaultEnvelopeTTL, now), now)

-----------------------------------------------------------------------------
(* Reading the table. *)

CheckCapability(m) == m \notin revoked

Queued(m) == {r \in queue : r.mailbox = m}

Stored(m, e) == {r \in Queued(m) : r.delivery = e}

\* The rows a fetch can see.  An expired row stays in the table, and in
\* MaxMailboxQueue, until a sweep removes it.
Live(m) == {r \in Queued(m) : r.expires > now}

\* Mutant: the cursor taken for the next sequence number to read.
FetchPastNext(m, cursor, limit) ==
    LET after == {r \in Live(m) : r.seq > cursor + 1}
    IN  {r \in after : Cardinality({q \in after : q.seq < r.seq}) < limit}

\* The oldest `limit` live rows after `cursor`.
FetchEnvelopes(m, cursor, limit) ==
    LET after == {r \in Live(m) : r.seq > cursor}
    IN  {r \in after : Cardinality({q \in after : q.seq < r.seq}) < limit}

-----------------------------------------------------------------------------
(* EnvelopePut, one operator per outcome. *)

\* 403: the write capability is unknown, revoked or expired.
PutForbidden(m) ==
    /\ ~CheckCapability(m)
    /\ UNCHANGED queueVars

\* 409: the delivery id is taken by another body.
PutConflict(m, e, body) ==
    /\ CheckCapability(m)
    /\ \E r \in Stored(m, e) : r.body # body
    /\ UNCHANGED queueVars

\* The same bytes again: answered with the expiry of the stored row `r`,
\* even one that has passed.
PutDuplicate(m, e, body, r) ==
    /\ CheckCapability(m)
    /\ r \in Stored(m, e)
    /\ r.body = body
    /\ UNCHANGED queueVars

\* 429: the mailbox holds its maximum, expired rows included.
PutFull(m, e) ==
    /\ CheckCapability(m)
    /\ Stored(m, e) = {}
    /\ Cardinality(Queued(m)) >= MaxMailboxQueue
    /\ UNCHANGED queueVars

\* A new row, numbered by its mailbox's own counter.
PutStored(m, e, body, requested) ==
    /\ CheckCapability(m)
    /\ Stored(m, e) = {}
    /\ Cardinality(Queued(m)) < MaxMailboxQueue
    /\ queue' = queue \union
          {[mailbox |-> m, delivery |-> e, body |-> body,
            seq |-> nextSeq[m], expires |-> effectiveExpiry(requested)]}
    /\ nextSeq' = [nextSeq EXCEPT ![m] = @ + 1]

\* PutResult.WasEmpty: no row at all was there, not even an expired one.
WasEmpty(m) == Queued(m) = {}

-----------------------------------------------------------------------------
(* EnvelopeAck, the sweep, the clock and revocation. *)

\* Mutant: every row of the mailbox goes, named or not.
AckWholeMailbox(m, ids) ==
    /\ queue' = queue \ Queued(m)
    /\ UNCHANGED nextSeq

\* Delete the named rows of one mailbox.  Naming an absent row is fine.
AckEnvelopes(m, ids) ==
    /\ queue' = queue \ {r \in Queued(m) : r.delivery \in ids}
    /\ UNCHANGED nextSeq

\* Mutant: the sweep takes rows one unit early.
ExpireEarly ==
    /\ \E r \in queue : r.expires <= now + 1
    /\ queue' = {r \in queue : r.expires > now + 1}
    /\ UNCHANGED nextSeq

\* The periodic sweep removes every row past its expiry.
ExpireEnvelopes ==
    /\ \E r \in queue : r.expires <= now
    /\ queue' = {r \in queue : r.expires > now}
    /\ UNCHANGED nextSeq

\* A manifest or a recovery revoked the device that owns the mailbox, and
\* with it every capability of the mailbox (store.go, revokeCredentials).
RevokeCapabilities(m) ==
    /\ m \notin revoked
    /\ revoked' = revoked \union {m}
    /\ UNCHANGED queueVars
=============================================================================
