------------------------------ MODULE Delivery ------------------------------
(***************************************************************************)
(* Store-and-forward delivery end to end: the send unit and publish_pending*)
(* of the sender, the relay's queue, and the sync pass of the receiver     *)
(* (core/crates/arveil-app/src/lib.rs), over a carrier that can fail at    *)
(* any point.                                                              *)
(*                                                                         *)
(* The executor of a profile keeps many commands in flight and switches    *)
(* between them where one awaits the relay.  Syncs exclude one another, so *)
(* each device has one sync, with a program counter:                       *)
(*   idle -> publish -> fetch -> process -> ack -> cursor -> republish     *)
(*        -> idle                                                          *)
(* The other commands that use the outbox (send, start, add, remove,       *)
(* send_file) interleave with it and with each other: they commit a send   *)
(* unit and then run publish_pending over a connection of their own, which *)
(* is what Commands are for.                                               *)
(*                                                                         *)
(* A request whose connection died may still reach the relay: the client   *)
(* gave up after its timeout and dropped the carrier, while the relay had  *)
(* the frame in a buffer.  Such an orphan stays in flight, is handled at   *)
(* any later time, and nobody hears its answer.                            *)
(***************************************************************************)
EXTENDS ClientQueues

CONSTANTS
    Commands,       \* publishing commands other than sync
    Runs,           \* [Commands -> Mailboxes]: the device that runs it
    FetchLimit,     \* envelopes one fetch returns
    EnvelopeTtl,    \* life the sender asks for; 0 leaves it to the relay
    MaxTime,        \* bound: the clock stops here
    MaxInterrupts,  \* bound: lost connections and killed processes
    CanRevoke       \* mailboxes whose device may be revoked

ASSUME DeliveryAssumption ==
    /\ Commands \intersect Mailboxes = {}
    /\ Runs \in [Commands -> Mailboxes]
    /\ FetchLimit \in Nat \ {0}
    /\ EnvelopeTtl \in Nat
    /\ MaxTime \in Nat
    /\ MaxInterrupts \in Nat
    /\ CanRevoke \subseteq Mailboxes

VARIABLES
    pc,          \* where each task is
    todo,        \* the rows a publish_pending has still to put
    items,       \* the fetched envelopes not yet processed
    advanced,    \* advanced_to: the last sequence processed or deduplicated
    puts,        \* EnvelopePut requests in flight
    acks,        \* EnvelopeAck requests in flight
    answer,      \* the reply each task waits for
    interrupts   \* how many interruptions happened

passVars == <<pc, todo, items, advanced>>
netVars == <<puts, acks, answer>>
vars == <<now, queue, nextSeq, revoked, outbox, rowId, nextRow, expiresAt,
          inbox, acked, cursor, applied, pc, todo, items, advanced, puts,
          acks, answer, interrupts>>

\* The sync of a device goes by the device's own name.
Tasks == Mailboxes \union Commands

Device(w) == IF w \in Mailboxes THEN w ELSE Runs[w]

Steps == {"idle", "publish", "fetch", "process", "ack", "cursor", "republish"}

PutRequest == [task : Tasks, env : Envelopes, requested : Nat,
               live : BOOLEAN]
AckRequest == [dev : Mailboxes, ids : SUBSET Envelopes, live : BOOLEAN]
Answer == [kind : {"none", "accepted", "forbidden", "refused", "ack"},
           expires : Int]

NoAnswer == [kind |-> "none", expires |-> 0]

TypeOK ==
    /\ QueueTypeOK
    /\ ClientTypeOK
    /\ pc \in [Tasks -> Steps]
    /\ todo \in [Tasks -> SUBSET Envelopes]
    /\ items \in [Mailboxes -> SUBSET Row]
    /\ advanced \in [Mailboxes -> Nat]
    /\ puts \subseteq PutRequest
    /\ acks \subseteq AckRequest
    /\ answer \in [Tasks -> Answer]
    /\ interrupts \in Nat

Init ==
    /\ QueueInit
    /\ ClientInit
    /\ pc = [w \in Tasks |-> "idle"]
    /\ todo = [w \in Tasks |-> {}]
    /\ items = [d \in Mailboxes |-> {}]
    /\ advanced = [d \in Mailboxes |-> 0]
    /\ puts = {}
    /\ acks = {}
    /\ answer = [w \in Tasks |-> NoAnswer]
    /\ interrupts = 0

Goto(w, step) == pc' = [pc EXCEPT ![w] = step]

Publishing(w) == pc[w] \in {"publish", "republish"}

\* Nothing is outstanding: no request awaits the relay, no answer the client.
Quiet(w) ==
    /\ answer[w] = NoAnswer
    /\ \A r \in puts : r.live => r.task # w
    /\ \A r \in acks : r.live => r.dev # w

-----------------------------------------------------------------------------
(* Sending. *)

\* A credential and the capabilities of its device's mailbox are revoked in
\* one transaction, and authorize refuses a revoked device its handshake.  A
\* session that is already open goes on.
Connects(d) == d \notin revoked

\* One send unit (queue_text, start, add, remove).  The command that ran it
\* may publish later, or not: QueueMessage never connects.
Send(k) ==
    /\ \A e \in Copies(k) : outbox[e] = "none"
    /\ Copies(k) # {}
    /\ Requires[k] \subseteq Has(Author[k])
    /\ enqueue(k)
    /\ UNCHANGED <<now, revoked, queueVars, receiveVars, passVars, netVars,
                   interrupts>>

\* publish_pending reads the pending rows once, when it starts.  What
\* another task does to those rows meanwhile goes unnoticed.
Snapshot(w) == todo' = [todo EXCEPT ![w] = pending(Device(w))]

\* A command other than sync has connected and publishes.
StartPublish(w) ==
    /\ pc[w] = "idle"
    /\ Connects(Device(w))
    /\ Snapshot(w)
    /\ Goto(w, "republish")
    /\ UNCHANGED <<now, revoked, queueVars, sendVars, receiveVars, items,
                   advanced, netVars, interrupts>>

\* Mutant: pending() without ORDER BY id.
CurrentUnordered(w, e) == e \in todo[w]

\* The row a publish_pending is at: the oldest of those left to put.
Current(w, e) ==
    /\ e \in todo[w]
    /\ \A x \in todo[w] : rowId[e] <= rowId[x]

\* The stored bytes go out.
PublishPut(w) ==
    /\ Publishing(w)
    /\ Quiet(w)
    /\ \E e \in Envelopes :
          /\ Current(w, e)
          /\ puts' = puts \union
                {[task |-> w, env |-> e, live |-> TRUE,
                  requested |-> IF EnvelopeTtl = 0 THEN 0 ELSE now + EnvelopeTtl]}
    /\ UNCHANGED <<now, revoked, queueVars, sendVars, receiveVars, passVars,
                   acks, answer, interrupts>>

\* Accepted rows are marked, rows refused for good are marked too, and any
\* other refusal ends the whole command.
PublishReply(w) ==
    /\ Publishing(w)
    /\ \E e \in Envelopes :
          /\ Current(w, e)
          /\ \/ /\ answer[w].kind = "accepted"
                /\ mark_accepted(e, answer[w].expires)
                /\ todo' = [todo EXCEPT ![w] = @ \ {e}]
                /\ UNCHANGED pc
             \/ /\ answer[w].kind = "forbidden"
                /\ mark_undeliverable(e)
                /\ todo' = [todo EXCEPT ![w] = @ \ {e}]
                /\ UNCHANGED pc
             \/ /\ answer[w].kind = "refused"
                /\ todo' = [todo EXCEPT ![w] = {}]
                /\ Goto(w, "idle")
                /\ UNCHANGED sendVars
    /\ answer' = [answer EXCEPT ![w] = NoAnswer]
    /\ UNCHANGED <<now, revoked, queueVars, receiveVars, items, advanced,
                   puts, acks, interrupts>>

PublishDone(w) ==
    /\ Publishing(w)
    /\ Quiet(w)
    /\ todo[w] = {}
    /\ Goto(w, IF pc[w] = "publish" THEN "fetch" ELSE "idle")
    /\ UNCHANGED <<now, revoked, queueVars, sendVars, receiveVars, todo, items,
                   advanced, netVars, interrupts>>

-----------------------------------------------------------------------------
(* Receiving: one sync pass. *)

StartSync(d) ==
    /\ pc[d] = "idle"
    /\ Connects(d)
    /\ Snapshot(d)
    /\ Goto(d, "publish")
    /\ UNCHANGED <<now, revoked, queueVars, sendVars, receiveVars, items,
                   advanced, netVars, interrupts>>

\* EnvelopeFetch from the stored cursor.  The page is what the relay held
\* when it answered; everything after this step happens to a copy.
Fetch(d) ==
    /\ pc[d] = "fetch"
    /\ CheckCapability(d)
    /\ items' = [items EXCEPT ![d] = FetchEnvelopes(d, cursor[d], FetchLimit)]
    /\ advanced' = [advanced EXCEPT ![d] = cursor[d]]
    /\ Goto(d, "process")
    /\ UNCHANGED <<now, revoked, queueVars, sendVars, receiveVars, todo,
                   netVars, interrupts>>

\* The relay refuses the read capability and the command fails.
FetchForbidden(d) ==
    /\ pc[d] = "fetch"
    /\ ~CheckCapability(d)
    /\ Goto(d, "idle")
    /\ UNCHANGED <<now, revoked, queueVars, sendVars, receiveVars, todo,
                   items, advanced, netVars, interrupts>>

\* Items are taken in sequence order.
NextItem(d, r) ==
    /\ r \in items[d]
    /\ \A q \in items[d] : r.seq <= q.seq

Consume(d, r) ==
    /\ items' = [items EXCEPT ![d] = @ \ {r}]
    /\ advanced' = [advanced EXCEPT ![d] = r.seq]
    /\ UNCHANGED <<pc, todo>>

\* The receive unit commits.
ProcessNew(d) ==
    /\ pc[d] = "process"
    /\ \E r \in items[d] :
          /\ NextItem(d, r)
          /\ Processable(d, r.delivery)
          /\ record_incoming(d, r.delivery)
          /\ Consume(d, r)
    /\ UNCHANGED <<now, revoked, queueVars, sendVars, netVars, interrupts>>

\* The inbox already has it: nothing is processed, the pass moves on.
ProcessDuplicate(d) ==
    /\ pc[d] = "process"
    /\ \E r \in items[d] :
          /\ NextItem(d, r)
          /\ r.delivery \in inbox[d]
          /\ Consume(d, r)
    /\ UNCHANGED <<now, revoked, queueVars, sendVars, receiveVars, netVars,
                   interrupts>>

\* Mutant: the pass steps over what it cannot process.
ProcessSkipped(d) ==
    /\ pc[d] = "process"
    /\ \E r \in items[d] :
          /\ NextItem(d, r)
          /\ r.delivery \notin inbox[d]
          /\ ~Processable(d, r.delivery)
          /\ Consume(d, r)
    /\ UNCHANGED <<now, revoked, queueVars, sendVars, receiveVars, netVars,
                   interrupts>>

\* The unit rolls back, its inbox row included, and the pass stops there.
ProcessDeferred(d) ==
    /\ pc[d] = "process"
    /\ \E r \in items[d] :
          /\ NextItem(d, r)
          /\ r.delivery \notin inbox[d]
          /\ ~Processable(d, r.delivery)
    /\ items' = [items EXCEPT ![d] = {}]
    /\ Goto(d, "ack")
    /\ UNCHANGED <<now, revoked, queueVars, sendVars, receiveVars, todo,
                   advanced, netVars, interrupts>>

ProcessDone(d) ==
    /\ pc[d] = "process"
    /\ items[d] = {}
    /\ Goto(d, "ack")
    /\ UNCHANGED <<now, revoked, queueVars, sendVars, receiveVars, todo,
                   items, advanced, netVars, interrupts>>

\* Acknowledge everything recorded and not acknowledged yet.
SendAck(d) ==
    /\ pc[d] = "ack"
    /\ Quiet(d)
    /\ unacked(d) # {}
    /\ acks' = acks \union {[dev |-> d, ids |-> unacked(d), live |-> TRUE]}
    /\ UNCHANGED <<now, revoked, queueVars, sendVars, receiveVars, passVars,
                   puts, answer, interrupts>>

AckReply(d) ==
    /\ pc[d] = "ack"
    /\ \/ /\ answer[d].kind = "ack"
          /\ mark_acked(d, unacked(d))
          /\ Goto(d, "cursor")
       \/ /\ answer[d].kind = "forbidden"
          /\ Goto(d, "idle")
          /\ UNCHANGED receiveVars
    /\ answer' = [answer EXCEPT ![d] = NoAnswer]
    /\ UNCHANGED <<now, revoked, queueVars, sendVars, todo, items,
                   advanced, puts, acks, interrupts>>

NothingToAck(d) ==
    /\ pc[d] = "ack"
    /\ Quiet(d)
    /\ unacked(d) = {}
    /\ Goto(d, "cursor")
    /\ UNCHANGED <<now, revoked, queueVars, sendVars, receiveVars, todo,
                   items, advanced, netVars, interrupts>>

\* The cursor is stored last, and only up to what the pass got through.  The
\* second publish_pending starts in the same step: nothing awaits in between.
AdvanceCursor(d) ==
    /\ pc[d] = "cursor"
    /\ set_cursor(d, advanced[d])
    /\ Snapshot(d)
    /\ Goto(d, "republish")
    /\ UNCHANGED <<now, revoked, queueVars, sendVars, items, advanced,
                   netVars, interrupts>>

-----------------------------------------------------------------------------
(* The relay. *)

\* The answer reaches the client only on the connection that asked.
Reply(w, live, reply) ==
    answer' = IF live THEN [answer EXCEPT ![w] = reply] ELSE answer

\* The envelopePut handler.
RelayPut(r) ==
    LET m == To[r.env]
    IN  /\ r \in puts
        /\ \/ /\ PutForbidden(m)
              /\ Reply(r.task, r.live, [kind |-> "forbidden", expires |-> 0])
           \/ \E row \in queue :
                 /\ PutDuplicate(m, r.env, r.env, row)
                 /\ Reply(r.task, r.live,
                          [kind |-> "accepted", expires |-> row.expires])
           \/ /\ PutFull(m, r.env)
              /\ Reply(r.task, r.live, [kind |-> "refused", expires |-> 0])
           \/ /\ PutStored(m, r.env, r.env, r.requested)
              /\ Reply(r.task, r.live,
                       [kind |-> "accepted",
                        expires |-> effectiveExpiry(r.requested)])
        /\ puts' = puts \ {r}
        /\ UNCHANGED <<now, revoked, sendVars, receiveVars, passVars, acks,
                       interrupts>>

\* The envelopeAck handler.
RelayAck(r) ==
    /\ r \in acks
    /\ \/ /\ CheckCapability(r.dev)
          /\ AckEnvelopes(r.dev, r.ids)
          /\ Reply(r.dev, r.live, [kind |-> "ack", expires |-> 0])
       \/ /\ ~CheckCapability(r.dev)
          /\ Reply(r.dev, r.live, [kind |-> "forbidden", expires |-> 0])
          /\ UNCHANGED queueVars
    /\ acks' = acks \ {r}
    /\ UNCHANGED <<now, revoked, sendVars, receiveVars, passVars, puts,
                   interrupts>>

Sweep ==
    /\ ExpireEnvelopes
    /\ UNCHANGED <<now, revoked, sendVars, receiveVars, passVars, netVars,
                   interrupts>>

Tick ==
    /\ now < MaxTime
    /\ now' = now + 1
    /\ UNCHANGED <<revoked, queueVars, sendVars, receiveVars, passVars,
                   netVars, interrupts>>

Revoke(m) ==
    /\ m \in CanRevoke
    /\ RevokeCapabilities(m)
    /\ UNCHANGED <<now, sendVars, receiveVars, passVars, netVars, interrupts>>

-----------------------------------------------------------------------------
(* Failure. *)

\* The connection of a running pass breaks, its request times out, or the
\* process is killed: the pass is gone, what was committed stays.  `kept`
\* says whether a request in flight may still reach the relay.
Orphaned(requests, mine, kept) ==
    {r \in requests : ~(r.live /\ r \in mine)}
        \union (IF kept THEN {[r EXCEPT !.live = FALSE] :
                                 r \in {q \in requests : q.live /\ q \in mine}}
                ELSE {})

Interrupt(w, kept) ==
    /\ pc[w] # "idle"
    /\ interrupts < MaxInterrupts
    /\ interrupts' = interrupts + 1
    /\ Goto(w, "idle")
    /\ todo' = [todo EXCEPT ![w] = {}]
    /\ items' = [d \in Mailboxes |-> IF d = w THEN {} ELSE items[d]]
    /\ puts' = Orphaned(puts, {r \in puts : r.task = w}, kept)
    /\ acks' = Orphaned(acks, {r \in acks : r.dev = w}, kept)
    /\ answer' = [answer EXCEPT ![w] = NoAnswer]
    /\ UNCHANGED <<now, revoked, queueVars, sendVars, receiveVars, advanced>>

\* An orphan is lost for good.
LoseOrphan ==
    /\ \/ \E r \in puts : ~r.live /\ puts' = puts \ {r} /\ UNCHANGED acks
       \/ \E r \in acks : ~r.live /\ acks' = acks \ {r} /\ UNCHANGED puts
    /\ UNCHANGED <<now, revoked, queueVars, sendVars, receiveVars, passVars,
                   answer, interrupts>>

-----------------------------------------------------------------------------
PublishStep(w) == PublishPut(w) \/ PublishReply(w) \/ PublishDone(w)

ReceiveStep(d) ==
    \/ Fetch(d) \/ FetchForbidden(d)
    \/ ProcessNew(d) \/ ProcessDuplicate(d) \/ ProcessDeferred(d)
    \/ ProcessDone(d)
    \/ SendAck(d) \/ AckReply(d) \/ NothingToAck(d) \/ AdvanceCursor(d)

RelayStep == (\E r \in puts : RelayPut(r)) \/ (\E r \in acks : RelayAck(r))

Next ==
    \/ \E k \in Contents : Send(k)
    \/ \E w \in Commands : StartPublish(w)
    \/ \E w \in Tasks : PublishStep(w)
    \/ \E d \in Mailboxes : StartSync(d) \/ ReceiveStep(d)
    \/ RelayStep
    \/ Sweep \/ Tick
    \/ \E m \in Mailboxes : Revoke(m)
    \/ \E w \in Tasks, kept \in BOOLEAN : Interrupt(w, kept)
    \/ LoseOrphan

Spec == Init /\ [][Next]_vars

\* An open profile syncs again and again (Flutter's timer), a pass that can
\* move moves, and the relay answers what reached it and sweeps on a timer.
\* Interruptions end: MaxInterrupts bounds them.
Fairness ==
    /\ \A d \in Mailboxes : WF_vars(StartSync(d)) /\ WF_vars(ReceiveStep(d))
    /\ \A w \in Tasks : WF_vars(PublishStep(w))
    /\ WF_vars(RelayStep)
    /\ WF_vars(Sweep)
    /\ WF_vars(Tick)

FairSpec == Spec /\ Fairness

-----------------------------------------------------------------------------
(* Properties. *)

\* An envelope the sender shows as accepted is never silently discarded: it
\* is still in the relay's queue, or its receiver has committed it, or the
\* expiry the relay declared to the sender has passed.  (publish_pending
\* marks the row on a reply that may answer a retry; acks and sweeps race it.)
NoSilentLoss ==
    \A e \in Envelopes :
        outbox[e] = "accepted" =>
            \/ Stored(To[e], e) # {}
            \/ e \in inbox[To[e]]
            \/ expiresAt[e] <= now

\* Retries, orphans, re-inserted rows and repeated passes never process an
\* MLS message twice, and the inbox holds exactly what was processed.
AppliedOnce ==
    \A d \in Mailboxes, e \in Envelopes :
        /\ e \in inbox[d] => To[e] = d
        /\ applied[e] = IF e \in inbox[To[e]] THEN 1 ELSE 0

\* "The cursor only advances past what was processed or deduplicated": no
\* row that a device still needs lies at or behind its stored cursor, where
\* no later fetch would return it.
NothingSkipped ==
    \A r \in queue :
        r.seq <= cursor[r.mailbox] =>
            r.delivery \in inbox[r.mailbox] \/ r.expires <= now

\* Two envelopes of one sender to one device are processed in the order they
\* were queued, unless the earlier one was refused for good or expired.
InOrder ==
    \A x, y \in Envelopes :
        /\ From(x) = From(y) /\ To[x] = To[y]
        /\ rowId[x] < rowId[y] /\ outbox[x] # "none"
        /\ y \in inbox[To[y]]
        => \/ x \in inbox[To[x]]
           \/ outbox[x] = "undeliverable"
           \/ outbox[x] = "accepted" /\ expiresAt[x] <= now

\* I-05, "ACK implies sufficient local persistence": a row leaves the queue
\* only when its receiver has committed it, or when it has expired.
CustodyStep ==
    \A r \in queue :
        r \notin queue' =>
            r.delivery \in inbox[r.mailbox] \/ r.expires <= now

CustodyUntilCommit == [][CustodyStep]_vars

\* The relay, the outbox, the inbox and the passes together implement
\* causal, at-most-once delivery.
Causal == INSTANCE CausalDelivery WITH
    sent <- {k \in Contents : \E e \in Copies(k) : outbox[e] # "none"},
    shown <- applied

ImplementsCausalDelivery == Causal!Spec

\* Every sealed envelope is processed by its receiver in the end.  Stated
\* for a clock that stands still, so that nothing expires on the way.
EventuallyProcessed ==
    \A e \in Envelopes : (outbox[e] = "sealed") ~> (e \in inbox[To[e]])
=============================================================================
