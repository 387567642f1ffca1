-------------------------- MODULE DeliveryInvariant --------------------------
(***************************************************************************)
(* The inductive invariant behind the safety properties of Delivery.  TLC  *)
(* checks it on small instances, DeliveryProofs proves it for all.         *)
(***************************************************************************)
EXTENDS Delivery

\* Rows sit in the mailbox of their addressee under a sequence number their
\* mailbox has used up, and neither a sequence number nor a delivery id
\* occurs twice in a mailbox.
RowsSound ==
    /\ IsFiniteSet(queue)
    /\ \A r \in queue :
          /\ r.mailbox = To[r.delivery]
          /\ r.seq < nextSeq[r.mailbox]
          /\ outbox[r.delivery] # "none"
    /\ \A r, q \in queue :
          r.mailbox = q.mailbox /\ (r.seq = q.seq \/ r.delivery = q.delivery)
          => r = q

\* A page in hand is a copy of rows of the device's own mailbox that lie
\* after `advanced`, one per sequence number; a row that now has the number
\* of an item carries the same delivery.
PageSound ==
    \A d \in Mailboxes : \A i \in items[d] :
        /\ \A j \in items[d] : i.seq = j.seq => i = j
        /\ pc[d] = "process"
        /\ i.mailbox = d /\ To[i.delivery] = d
        /\ i.seq < nextSeq[d]
        /\ advanced[d] < i.seq
        /\ outbox[i.delivery] # "none"
        /\ \A r \in Queued(d) : r.seq = i.seq => r.delivery = i.delivery

\* What a device may leave behind: a row it has committed or an expired one.
Dispensable(r) == r.delivery \in inbox[r.mailbox] \/ r.expires <= now

\* A page has no holes: between `advanced` and an item of the page, every
\* row is on the page or dispensable.
PageComplete ==
    \A d \in Mailboxes : \A i \in items[d] : \A r \in Queued(d) :
        advanced[d] < r.seq /\ r.seq < i.seq
        => (\E j \in items[d] : j.seq = r.seq) \/ Dispensable(r)

\* Behind `advanced`, and behind the stored cursor, every row is dispensable,
\* and both lag the relay's counter.
CursorSound ==
    \A d \in Mailboxes :
        /\ advanced[d] < nextSeq[d]
        /\ cursor[d] < nextSeq[d]
        /\ \A r \in Queued(d) :
              r.seq <= advanced[d] \/ r.seq <= cursor[d] => Dispensable(r)

\* The inbox holds the device's own deliveries, each applied once, and only
\* what the inbox holds is ever acknowledged.
InboxSound ==
    /\ AppliedOnce
    /\ \A e \in Envelopes : e \in inbox[To[e]] => outbox[e] # "none"
    /\ \A r \in acks : r.ids \subseteq inbox[r.dev]

\* A task has at most one request or answer outstanding, and only in a
\* step that waits for one.
Turn(w) ==
    /\ \A r \in puts : r.live /\ r.task = w =>
          /\ Publishing(w) /\ answer[w] = NoAnswer
          /\ \A q \in puts : q.live /\ q.task = w => q = r
    /\ \A r \in acks : r.live /\ r.dev = w =>
          /\ pc[w] = "ack" /\ answer[w] = NoAnswer
          /\ \A q \in acks : q.live /\ q.dev = w => q = r
    /\ answer[w].kind = "none" => answer[w] = NoAnswer
    /\ answer[w] # NoAnswer => Publishing(w) \/ pc[w] = "ack"
    /\ answer[w].kind = "accepted" => Publishing(w)

Turns ==
    /\ \A r \in puts : outbox[r.env] # "none"
    /\ \A w \in Tasks : Turn(w)

\* Outbox ids order the rows of a device, the copies of a message are sealed
\* together, a task has rows of its own device to put, and its live put
\* carries the oldest of them.
OutboxSound ==
    /\ \A x, y \in Envelopes :
          /\ outbox[x] # "none" /\ Content[x] = Content[y] => outbox[y] # "none"
          /\ /\ outbox[x] # "none" /\ outbox[y] # "none"
             /\ From(x) = From(y) /\ rowId[x] = rowId[y]
             => x = y
    /\ \A e \in Envelopes : outbox[e] # "none" => rowId[e] < nextRow[From(e)]
    /\ \A w \in Tasks : \A e \in todo[w] :
          outbox[e] # "none" /\ From(e) = Device(w)
    /\ \A r \in puts : r.live => Current(r.task, r.env)

\* The receiver committed e, or the expiry the sender was told has passed, or
\* the row with that expiry is still queued.
Kept(e, expires) ==
    \/ e \in inbox[To[e]]
    \/ expires <= now
    \/ \E r \in queue : r.delivery = e /\ r.expires = expires

\* What a sender was told, and what it is about to be told, is true.
PromisesKept ==
    /\ \A e \in Envelopes :
          outbox[e] = "accepted" => Kept(e, expiresAt[e])
    /\ \A w \in Tasks : \A e \in Envelopes :
          answer[w].kind = "accepted" /\ Current(w, e)
          => Kept(e, answer[w].expires)

\* The inductive invariant of delivery: relay rows, pages, cursors, inboxes,
\* requests in flight and outboxes agree with one another in every state that
\* retries, orphans, sweeps, revocations and interruptions can produce.
DeliveryInv ==
    /\ TypeOK
    /\ RowsSound
    /\ PageSound
    /\ PageComplete
    /\ CursorSound
    /\ InboxSound
    /\ Turns
    /\ OutboxSound
    /\ PromisesKept

-----------------------------------------------------------------------------
(* Order.  InOrder holds as long as the relay's queue has no expired row in   *)
(* it: one that expired and was swept can be put anew, by a task that still   *)
(* has it to put, behind what was queued after it.                            *)

NothingExpired == \A r \in queue : r.expires > now

\* x was queued before y, from and to the same device.
Ahead(x, y) ==
    /\ From(x) = From(y) /\ To[x] = To[y]
    /\ outbox[x] # "none" /\ outbox[y] # "none"
    /\ rowId[x] < rowId[y]

Held(x) == x \in inbox[To[x]] \/ \E r \in queue : r.delivery = x

\* x will not come in behind anything: the relay or its receiver has it, or
\* the relay takes nothing more for that mailbox.
Settled(x) == Held(x) \/ To[x] \in revoked

\* What a sender was told of a row, or is about to be told, settles it.
ToldSound ==
    /\ \A e \in Envelopes :
          /\ outbox[e] = "accepted" => Held(e)
          /\ outbox[e] = "undeliverable" => To[e] \in revoked
    /\ \A w \in Tasks : \A e \in Envelopes :
          Current(w, e) =>
              /\ answer[w].kind = "accepted" => Held(e)
              /\ Publishing(w) /\ answer[w].kind = "forbidden" => To[e] \in revoked

\* A task that has y to put has x to put before it or need not, and nothing
\* puts y until x is settled.
SentInOrder ==
    \A x, y \in Envelopes : Ahead(x, y) =>
        /\ \A w \in Tasks : y \in todo[w] => x \in todo[w] \/ Settled(x)
        /\ \A r \in puts : r.env = y => Settled(x)

\* Wherever y is, x is before it or has been received.
QueuedInOrder ==
    \A x, y \in Envelopes : Ahead(x, y) =>
        \A r \in queue : r.delivery = y =>
            x \in inbox[To[x]] \/ \E q \in queue : q.delivery = x /\ q.seq < r.seq

PageInOrder ==
    \A x, y \in Envelopes : Ahead(x, y) =>
        \A i \in items[To[y]] : i.delivery = y =>
            \/ x \in inbox[To[x]]
            \/ \E j \in items[To[y]] : j.delivery = x /\ j.seq < i.seq

ReceivedInOrder ==
    \A x, y \in Envelopes :
        Ahead(x, y) /\ y \in inbox[To[y]] => x \in inbox[To[x]]

OrderInv ==
    ToldSound /\ SentInOrder /\ QueuedInOrder /\ PageInOrder /\ ReceivedInOrder
=============================================================================
