---------------------------- MODULE ClientQueues ----------------------------
(***************************************************************************)
(* The durable outbox and inbox of every profile:                          *)
(* core/crates/arveil-core/src/delivery.rs.                                *)
(*                                                                         *)
(* One profile per device.  An MLS message (Contents) is sealed once per   *)
(* recipient device: each copy is an envelope with a delivery id of its    *)
(* own, so the outbox row, the relay's row and the inbox row of one copy   *)
(* share one element of Envelopes.                                         *)
(*                                                                         *)
(* MLS itself is outside: what matters here is that a message can be       *)
(* processed only by a device that has the messages it builds on (the      *)
(* Welcome, the commits that lead to its epoch), which Requires states.    *)
(***************************************************************************)
EXTENDS MailboxQueue

CONSTANTS
    Contents,  \* MLS messages: commits, Welcomes, application messages
    Author,    \* [Contents -> Mailboxes]: the device that produced it
    Requires,  \* [Contents -> SUBSET Contents]: what it builds on
    Content,   \* [Envelopes -> Contents]
    To         \* [Envelopes -> Mailboxes]: the mailbox the copy goes to

ASSUME ClientAssumption ==
    /\ IsFiniteSet(Envelopes)
    /\ Author \in [Contents -> Mailboxes]
    /\ Requires \in [Contents -> SUBSET Contents]
    /\ Content \in [Envelopes -> Contents]
    /\ To \in [Envelopes -> Mailboxes]
    /\ Envelopes \subseteq Bodies  \* a copy's sealed bytes are its own

VARIABLES
    outbox,     \* outbox.state of each envelope, "none" before it is sealed
    rowId,      \* outbox.id: the order rows are published in
    nextRow,    \* the next outbox id of each device
    expiresAt,  \* outbox.expires_at, what the relay declared
    inbox,      \* table inbox: the deliveries each device recorded
    acked,      \* the rows of inbox with acked = 1
    cursor,     \* table mailbox_cursor
    applied     \* how often each envelope's MLS message was processed

sendVars == <<outbox, rowId, nextRow, expiresAt>>
receiveVars == <<inbox, acked, cursor, applied>>

From(e) == Author[Content[e]]

ClientTypeOK ==
    /\ outbox \in [Envelopes -> {"none", "sealed", "accepted", "undeliverable"}]
    /\ rowId \in [Envelopes -> Nat]
    /\ nextRow \in [Mailboxes -> Nat]
    /\ expiresAt \in [Envelopes -> Int]
    /\ inbox \in [Mailboxes -> SUBSET Envelopes]
    /\ acked \in [Mailboxes -> SUBSET Envelopes]
    /\ cursor \in [Mailboxes -> Nat]
    /\ applied \in [Envelopes -> Nat]

ClientInit ==
    /\ outbox = [e \in Envelopes |-> "none"]
    /\ rowId = [e \in Envelopes |-> 0]
    /\ nextRow = [d \in Mailboxes |-> 1]
    /\ expiresAt = [e \in Envelopes |-> 0]
    /\ inbox = [d \in Mailboxes |-> {}]
    /\ acked = [d \in Mailboxes |-> {}]
    /\ cursor = [d \in Mailboxes |-> 0]
    /\ applied = [e \in Envelopes |-> 0]

-----------------------------------------------------------------------------
(* The outbox. *)

Copies(k) == {e \in Envelopes : Content[e] = k}

\* The orders in which a set of rows can be numbered from `first` on.
Numberings(rows, first) ==
    {f \in [rows -> first .. (first + Cardinality(rows) - 1)] :
        \A x, y \in rows : f[x] = f[y] => x = y}

\* Seal one copy per recipient, in a shuffled order (enqueue_for_all).
enqueue(k) ==
    \E f \in Numberings(Copies(k), nextRow[Author[k]]) :
        /\ outbox' = [e \in Envelopes |->
                        IF e \in Copies(k) THEN "sealed" ELSE outbox[e]]
        /\ rowId' = [e \in Envelopes |->
                        IF e \in Copies(k) THEN f[e] ELSE rowId[e]]
        /\ nextRow' = [nextRow EXCEPT ![Author[k]] = @ + Cardinality(Copies(k))]
        /\ UNCHANGED expiresAt

pending(d) == {e \in Envelopes : From(e) = d /\ outbox[e] = "sealed"}

\* Both marks are unconditional updates of one row.
mark_accepted(e, expires) ==
    /\ outbox' = [outbox EXCEPT ![e] = "accepted"]
    /\ expiresAt' = [expiresAt EXCEPT ![e] = expires]
    /\ UNCHANGED <<rowId, nextRow>>

mark_undeliverable(e) ==
    /\ outbox' = [outbox EXCEPT ![e] = "undeliverable"]
    /\ UNCHANGED <<rowId, nextRow, expiresAt>>

-----------------------------------------------------------------------------
(* The inbox. *)

\* MLS messages a device has: its own and those it processed.
Has(d) ==
    {k \in Contents :
        \/ Author[k] = d /\ \E e \in Copies(k) : outbox[e] # "none"
        \/ \E e \in Copies(k) : To[e] = d /\ e \in inbox[d]}

\* Mutant: a message of an epoch the device has not reached is taken.
ProcessableAnyEpoch(d, e) == TRUE

\* handle_mls succeeds on what builds on messages this device has.
Processable(d, e) == Requires[Content[e]] \subseteq Has(d)

\* Mutant: the result of INSERT OR IGNORE is not looked at.
RecordAgain(d, e) ==
    /\ inbox' = [inbox EXCEPT ![d] = @ \union {e}]
    /\ applied' = [applied EXCEPT ![e] = @ + 1]
    /\ UNCHANGED <<acked, cursor>>

\* One receive unit: the inbox row, the MLS change and the event commit
\* together or not at all.
record_incoming(d, e) ==
    /\ e \notin inbox[d]
    /\ inbox' = [inbox EXCEPT ![d] = @ \union {e}]
    /\ applied' = [applied EXCEPT ![e] = @ + 1]
    /\ UNCHANGED <<acked, cursor>>

unacked(d) == inbox[d] \ acked[d]

mark_acked(d, ids) ==
    /\ acked' = [acked EXCEPT ![d] = @ \union ids]
    /\ UNCHANGED <<inbox, cursor, applied>>

\* The stored cursor never goes back.
set_cursor(d, c) ==
    /\ cursor' = [cursor EXCEPT ![d] = IF c > @ THEN c ELSE @]
    /\ UNCHANGED <<inbox, acked, applied>>
=============================================================================
