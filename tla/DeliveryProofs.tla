--------------------------- MODULE DeliveryProofs ---------------------------
(***************************************************************************)
(* Proofs about Delivery for every set of devices, messages and copies,    *)
(* every queue size, page size, lifetime and number of interruptions.      *)
(***************************************************************************)
EXTENDS DeliveryInvariant, FiniteSetTheorems, TLAPS

-----------------------------------------------------------------------------
(* Expiry arithmetic, for every unit and every time.                         *)

\* Rounding down to a multiple of u takes off less than u.
LEMMA RoundDown ==
    ASSUME NEW x \in Int, NEW u \in Nat \ {0}
    PROVE  /\ x - (x % u) \in Int
           /\ x - (x % u) <= x
           /\ x - u < x - (x % u)
  OBVIOUS

\* coarseExpiry keeps more than half of a positive life: a row that was not
\* expired when the relay accepted it does not become so by rounding.
THEOREM CoarseExpirySound ==
    ASSUME NEW expiry \in Int, NEW t \in Int
    PROVE  /\ coarseExpiry(expiry, t) \in Int
           /\ coarseExpiry(expiry, t) <= expiry
           /\ expiry > t => 2 * (coarseExpiry(expiry, t) - t) > expiry - t
  <1>1. Day \in Nat \ {0} /\ Hour \in Nat \ {0} /\ Minute \in Nat \ {0}
    BY ExpiryAssumption
  <1>2. \A u \in {Day, Hour, Minute} :
           /\ expiry - (expiry % u) \in Int
           /\ expiry - (expiry % u) <= expiry
           /\ expiry - u < expiry - (expiry % u)
    BY <1>1, RoundDown
  <1> DEFINE life == expiry - t
  <1>3. CASE life >= 2 * Day
    <2>1. coarseExpiry(expiry, t) = expiry - (expiry % Day)
      BY <1>3 DEF coarseExpiry
    <2> QED BY <1>1, <1>2, <1>3, <2>1
  <1>4. CASE ~(life >= 2 * Day) /\ life >= 2 * Hour
    <2>1. coarseExpiry(expiry, t) = expiry - (expiry % Hour)
      BY <1>4 DEF coarseExpiry
    <2> QED BY <1>1, <1>2, <1>4, <2>1
  <1>5. CASE ~(life >= 2 * Day) /\ ~(life >= 2 * Hour) /\ life >= 2 * Minute
    <2>1. coarseExpiry(expiry, t) = expiry - (expiry % Minute)
      BY <1>5 DEF coarseExpiry
    <2> QED BY <1>1, <1>2, <1>5, <2>1
  <1>6. CASE ~(life >= 2 * Day) /\ ~(life >= 2 * Hour) /\ ~(life >= 2 * Minute)
    <2>1. coarseExpiry(expiry, t) = expiry
      BY <1>6 DEF coarseExpiry
    <2> QED BY <2>1
  <1> QED BY <1>3, <1>4, <1>5, <1>6

\* A clipped and rounded expiry is a time, whatever was asked for.
LEMMA EffectiveType ==
    ASSUME NEW t \in Nat, NEW ttl \in Nat, NEW requested \in Int
    PROVE  coarseExpiry(clipped(requested, ttl, t), t) \in Int
  <1>1. clipped(requested, ttl, t) \in Int
    BY DEF clipped
  <1> QED BY <1>1, CoarseExpirySound

LEMMA EffectiveExpiryType ==
    ASSUME now \in Nat, NEW requested \in Nat
    PROVE  effectiveExpiry(requested) \in Int
  BY EffectiveType, QueueAssumption DEF effectiveExpiry

-----------------------------------------------------------------------------
(* Types. *)

USE QueueAssumption, ClientAssumption, DeliveryAssumption

LEMMA FromType ==
    ASSUME NEW e \in Envelopes
    PROVE  From(e) \in Mailboxes /\ To[e] \in Mailboxes
  BY DEF From

LEMMA TaskTypes ==
    /\ Mailboxes \subseteq Tasks
    /\ Commands \subseteq Tasks
    /\ \A w \in Tasks : Device(w) \in Mailboxes
    /\ \A d \in Mailboxes : Device(d) = d
  BY DEF Tasks, Device

LEMMA PendingType ==
    ASSUME NEW d PROVE pending(d) \subseteq Envelopes
  BY DEF pending

LEMMA CopiesFinite ==
    ASSUME NEW k
    PROVE  IsFiniteSet(Copies(k)) /\ Cardinality(Copies(k)) \in Nat
  <1>1. Copies(k) \subseteq Envelopes
    BY DEF Copies
  <1>2. IsFiniteSet(Copies(k))
    BY <1>1, FS_Subset
  <1> QED BY <1>2, FS_CardinalityType

LEMMA OrphanedPutType ==
    ASSUME NEW S \in SUBSET PutRequest, NEW M, NEW kept
    PROVE  Orphaned(S, M, kept) \subseteq PutRequest
  <1>1. \A r \in S : [r EXCEPT !.live = FALSE] \in PutRequest
    BY DEF PutRequest
  <1> QED BY <1>1 DEF Orphaned

LEMMA OrphanedAckType ==
    ASSUME NEW S \in SUBSET AckRequest, NEW M, NEW kept
    PROVE  Orphaned(S, M, kept) \subseteq AckRequest
  <1>1. \A r \in S : [r EXCEPT !.live = FALSE] \in AckRequest
    BY DEF AckRequest
  <1> QED BY <1>1 DEF Orphaned

LEMMA AnswerTypes ==
    /\ NoAnswer \in Answer
    /\ \A x \in Int : [kind |-> "accepted", expires |-> x] \in Answer
    /\ \A kind \in {"forbidden", "refused", "ack"} :
          [kind |-> kind, expires |-> 0] \in Answer
  BY DEF Answer, NoAnswer

LEMMA RequestTypes ==
    /\ \A w \in Tasks, e \in Envelopes, n \in Nat :
          [task |-> w, env |-> e, live |-> TRUE, requested |-> n] \in PutRequest
    /\ \A d \in Mailboxes, ids \in SUBSET Envelopes :
          [dev |-> d, ids |-> ids, live |-> TRUE] \in AckRequest
  BY DEF PutRequest, AckRequest

LEMMA CounterType ==
    ASSUME NEW S, NEW f \in [S -> Nat], NEW x \in S
    PROVE  [f EXCEPT ![x] = f[x] + 1] \in [S -> Nat]
  OBVIOUS

LEMMA RowType ==
    ASSUME NEW m \in Mailboxes, NEW e \in Envelopes, NEW n \in Nat,
           NEW x \in Int
    PROVE  [mailbox |-> m, delivery |-> e, body |-> e, seq |-> n,
            expires |-> x] \in Row
  BY DEF Row

LEMMA TypeInit == Init => TypeOK
  BY DEF Init, QueueInit, ClientInit, TypeOK, QueueTypeOK, ClientTypeOK,
         Steps, Answer, NoAnswer

LEMMA TypeStep == TypeOK /\ [Next]_vars => TypeOK'
  <1> SUFFICES ASSUME TypeOK, [Next]_vars PROVE TypeOK'
    OBVIOUS
  <1> USE DEF TypeOK, QueueTypeOK, ClientTypeOK, queueVars, sendVars,
              receiveVars, passVars, netVars, Goto, Steps
  <1>1. ASSUME NEW k \in Contents, Send(k) PROVE TypeOK'
    <2> DEFINE d == Author[k]
    <2>1. d \in Mailboxes
      OBVIOUS
    <2>2. PICK f \in Numberings(Copies(k), nextRow[d]) :
             /\ rowId' = [e \in Envelopes |->
                            IF e \in Copies(k) THEN f[e] ELSE rowId[e]]
             /\ outbox' = [e \in Envelopes |->
                            IF e \in Copies(k) THEN "sealed" ELSE outbox[e]]
             /\ nextRow' = [nextRow EXCEPT ![d] = @ + Cardinality(Copies(k))]
             /\ UNCHANGED expiresAt
      BY <1>1 DEF Send, enqueue
    <2>3. Cardinality(Copies(k)) \in Nat
      BY CopiesFinite
    <2>4. \A e \in Copies(k) : f[e] \in Nat
      BY <2>1, <2>2, <2>3 DEF Numberings
    <2>5. ClientTypeOK'
      BY <1>1, <2>1, <2>2, <2>3, <2>4 DEF Send
    <2> QED BY <1>1, <2>1, <2>5 DEF Send
  <1>2. ASSUME NEW d \in Mailboxes, StartSync(d) PROVE TypeOK'
    BY <1>2, TaskTypes, PendingType DEF StartSync, Snapshot
  <1>12. ASSUME NEW w \in Commands, StartPublish(w) PROVE TypeOK'
    BY <1>12, TaskTypes, PendingType DEF StartPublish, Snapshot
  <1>13. ASSUME NEW w \in Tasks, PublishStep(w) PROVE TypeOK'
    <2>1. CASE PublishPut(w)
      <3>1. puts' \subseteq PutRequest
        BY <2>1, RequestTypes DEF PublishPut
      <3> QED BY <2>1, <3>1 DEF PublishPut
    <2>2. CASE PublishReply(w)
      <3>1. answer' \in [Tasks -> Answer] /\ answer[w].expires \in Int
        BY <2>2, AnswerTypes DEF PublishReply, Answer
      <3>2. ClientTypeOK'
        BY <2>2, <3>1 DEF PublishReply, mark_accepted, mark_undeliverable
      <3>3. pc' \in [Tasks -> Steps]
        BY <2>2 DEF PublishReply
      <3>4. todo' \in [Tasks -> SUBSET Envelopes]
        <4>1. PICK left \in SUBSET Envelopes : todo' = [todo EXCEPT ![w] = left]
          BY <2>2 DEF PublishReply
        <4> QED BY <4>1
      <3> QED BY <2>2, <3>1, <3>2, <3>3, <3>4 DEF PublishReply
    <2>3. CASE PublishDone(w)
      BY <2>3 DEF PublishDone
    <2> QED BY <1>13, <2>1, <2>2, <2>3 DEF PublishStep
  <1>3. ASSUME NEW d \in Mailboxes, ReceiveStep(d) PROVE TypeOK'
    <2>0. d \in Tasks
      BY TaskTypes
    <2> USE <2>0
    <2>4. CASE Fetch(d)
      BY <2>4 DEF Fetch, FetchEnvelopes, Live, Queued
    <2>5. CASE FetchForbidden(d)
      BY <2>5 DEF FetchForbidden
    <2>6. CASE ProcessNew(d)
      BY <2>6 DEF ProcessNew, Consume, record_incoming, Row
    <2>7. CASE ProcessDuplicate(d)
      BY <2>7 DEF ProcessDuplicate, Consume, Row
    <2>8. CASE ProcessDeferred(d)
      BY <2>8 DEF ProcessDeferred
    <2>9. CASE ProcessDone(d)
      BY <2>9 DEF ProcessDone
    <2>10. CASE SendAck(d)
      <3>1. acks' \subseteq AckRequest
        BY <2>10, RequestTypes DEF SendAck, unacked
      <3> QED BY <2>10, <3>1 DEF SendAck
    <2>11. CASE AckReply(d)
      <3>1. answer' \in [Tasks -> Answer]
        BY <2>11, AnswerTypes DEF AckReply
      <3>2. ClientTypeOK' /\ pc' \in [Tasks -> Steps]
        <4>1. CASE mark_acked(d, unacked(d)) /\ Goto(d, "cursor")
          BY <2>11, <4>1 DEF AckReply, mark_acked, unacked
        <4>2. CASE Goto(d, "idle") /\ UNCHANGED receiveVars
          BY <2>11, <4>2 DEF AckReply
        <4> QED BY <2>11, <4>1, <4>2 DEF AckReply
      <3> QED BY <2>11, <3>1, <3>2 DEF AckReply
    <2>12. CASE NothingToAck(d)
      BY <2>12 DEF NothingToAck
    <2>13. CASE AdvanceCursor(d)
      BY <2>13, TaskTypes, PendingType DEF AdvanceCursor, set_cursor, Snapshot
    <2> QED BY <1>3, <2>4, <2>5, <2>6, <2>7, <2>8, <2>9,
               <2>10, <2>11, <2>12, <2>13 DEF ReceiveStep
  <1>4. ASSUME NEW r \in puts, RelayPut(r) PROVE TypeOK'
    <2>1. r.env \in Envelopes /\ r.requested \in Nat /\ r.task \in Tasks
      BY DEF PutRequest
    <2>2. From(r.env) \in Mailboxes /\ To[r.env] \in Mailboxes
      BY <2>1, FromType
    <2>3. effectiveExpiry(r.requested) \in Int
      BY <2>1, EffectiveExpiryType
    <2>4. answer' \in [Tasks -> Answer]
      <3>1. \A row \in queue : row.expires \in Int
        BY DEF Row
      <3>2. PICK x \in Answer : Reply(r.task, r.live, x)
        BY <1>4, <2>3, <3>1, AnswerTypes DEF RelayPut
      <3> QED BY <2>1, <3>2 DEF Reply
    <2>5. queue' \subseteq Row /\ nextSeq' \in [Mailboxes -> Nat]
      <3>1. CASE PutStored(To[r.env], r.env, r.env, r.requested)
        <4>1. nextSeq[To[r.env]] \in Nat
          BY <2>2
        <4>2. [mailbox |-> To[r.env], delivery |-> r.env, body |-> r.env,
               seq |-> nextSeq[To[r.env]],
               expires |-> effectiveExpiry(r.requested)] \in Row
          BY <2>1, <2>2, <2>3, <4>1, RowType
        <4>3. queue' \subseteq Row
          BY <3>1, <4>2 DEF PutStored
        <4>4. nextSeq' \in [Mailboxes -> Nat]
          <5>1. nextSeq' = [nextSeq EXCEPT ![To[r.env]] = nextSeq[To[r.env]] + 1]
            BY <3>1 DEF PutStored
          <5> QED BY <2>2, <5>1, CounterType
        <4> QED BY <4>3, <4>4
      <3>2. CASE UNCHANGED queueVars
        BY <3>2
      <3> QED BY <1>4, <3>1, <3>2 DEF RelayPut, PutForbidden, PutDuplicate,
                 PutFull
    <2> QED BY <1>4, <2>4, <2>5 DEF RelayPut
  <1>5. ASSUME NEW r \in acks, RelayAck(r) PROVE TypeOK'
    <2>1. r.dev \in Tasks
      BY TaskTypes DEF AckRequest
    <2>2. answer' \in [Tasks -> Answer]
      BY <1>5, <2>1, AnswerTypes DEF RelayAck, Reply
    <2> QED BY <1>5, <2>2 DEF RelayAck, AckEnvelopes
  <1>6. CASE Sweep
    BY <1>6 DEF Sweep, ExpireEnvelopes
  <1>7. CASE Tick
    BY <1>7 DEF Tick
  <1>8. ASSUME NEW m \in Mailboxes, Revoke(m) PROVE TypeOK'
    BY <1>8 DEF Revoke, RevokeCapabilities
  <1>9. ASSUME NEW w \in Tasks, NEW kept \in BOOLEAN, Interrupt(w, kept)
        PROVE  TypeOK'
    <2>1. puts' \subseteq PutRequest
      BY <1>9, OrphanedPutType DEF Interrupt
    <2>2. acks' \subseteq AckRequest
      BY <1>9, OrphanedAckType DEF Interrupt
    <2> QED BY <1>9, <2>1, <2>2, AnswerTypes DEF Interrupt
  <1>10. CASE LoseOrphan
    BY <1>10 DEF LoseOrphan
  <1>11. CASE UNCHANGED vars
    BY <1>11 DEF vars
  <1> QED BY <1>1, <1>2, <1>3, <1>4, <1>5, <1>6, <1>7, <1>8, <1>9, <1>10,
             <1>11, <1>12, <1>13 DEF Next, RelayStep

\* Every variable keeps its type: in particular sequence numbers, cursors and
\* outbox ids never leave the naturals and no reply of an unknown kind exists.
THEOREM TypeCorrect == Spec => []TypeOK
  <1> QED BY TypeInit, TypeStep, PTL DEF Spec

-----------------------------------------------------------------------------
(* Which action changes what. *)

LEMMA Frame ==
    ASSUME [Next]_vars
    PROVE  /\ now' = now \/ Tick
           /\ \/ UNCHANGED queueVars
              \/ \E r \in puts : RelayPut(r)
              \/ \E r \in acks : RelayAck(r)
              \/ Sweep
           /\ UNCHANGED <<inbox, applied>> \/ \E d \in Mailboxes : ProcessNew(d)
           /\ cursor' = cursor \/ \E d \in Mailboxes : AdvanceCursor(d)
           /\ \/ UNCHANGED <<outbox, expiresAt>>
              \/ \E k \in Contents : Send(k)
              \/ \E w \in Tasks : PublishReply(w)
           /\ UNCHANGED <<rowId, nextRow>> \/ \E k \in Contents : Send(k)
           /\ \/ answer' = answer
              \/ \E w \in Tasks : \/ PublishReply(w)
                                  \/ \E kept \in BOOLEAN : Interrupt(w, kept)
              \/ \E d \in Mailboxes : AckReply(d)
              \/ \E r \in puts : RelayPut(r)
              \/ \E r \in acks : RelayAck(r)
  <1> DEFINE Goal ==
        /\ now' = now \/ Tick
        /\ \/ UNCHANGED queueVars
           \/ \E r \in puts : RelayPut(r)
           \/ \E r \in acks : RelayAck(r)
           \/ Sweep
        /\ UNCHANGED <<inbox, applied>> \/ \E d \in Mailboxes : ProcessNew(d)
        /\ cursor' = cursor \/ \E d \in Mailboxes : AdvanceCursor(d)
        /\ \/ UNCHANGED <<outbox, expiresAt>>
           \/ \E k \in Contents : Send(k)
           \/ \E w \in Tasks : PublishReply(w)
        /\ UNCHANGED <<rowId, nextRow>> \/ \E k \in Contents : Send(k)
        /\ \/ answer' = answer
           \/ \E w \in Tasks : \/ PublishReply(w)
                               \/ \E kept \in BOOLEAN : Interrupt(w, kept)
           \/ \E d \in Mailboxes : AckReply(d)
           \/ \E r \in puts : RelayPut(r)
           \/ \E r \in acks : RelayAck(r)
  <1> SUFFICES Goal
    OBVIOUS
  <1> USE DEF queueVars, sendVars, receiveVars, passVars, netVars
  <1>1. ASSUME NEW k \in Contents, Send(k) PROVE Goal
    BY <1>1 DEF Send
  <1>2. ASSUME NEW d \in Mailboxes, StartSync(d) PROVE Goal
    BY <1>2 DEF StartSync
  <1>12. ASSUME NEW w \in Commands, StartPublish(w) PROVE Goal
    BY <1>12 DEF StartPublish
  <1>13. ASSUME NEW w \in Tasks, PublishStep(w) PROVE Goal
    <2>1. CASE PublishPut(w)
      BY <2>1 DEF PublishPut
    <2>2. CASE PublishReply(w)
      BY <2>2 DEF PublishReply, mark_accepted, mark_undeliverable
    <2>3. CASE PublishDone(w)
      BY <2>3 DEF PublishDone
    <2> QED BY <1>13, <2>1, <2>2, <2>3 DEF PublishStep
  <1>3. ASSUME NEW d \in Mailboxes, ReceiveStep(d) PROVE Goal
    <2>4. CASE Fetch(d)
      BY <2>4 DEF Fetch
    <2>5. CASE FetchForbidden(d)
      BY <2>5 DEF FetchForbidden
    <2>6. CASE ProcessNew(d)
      BY <2>6 DEF ProcessNew, record_incoming
    <2>7. CASE ProcessDuplicate(d)
      BY <2>7 DEF ProcessDuplicate
    <2>8. CASE ProcessDeferred(d)
      BY <2>8 DEF ProcessDeferred
    <2>9. CASE ProcessDone(d)
      BY <2>9 DEF ProcessDone
    <2>10. CASE SendAck(d)
      BY <2>10 DEF SendAck
    <2>11. CASE AckReply(d)
      BY <2>11 DEF AckReply, mark_acked
    <2>12. CASE NothingToAck(d)
      BY <2>12 DEF NothingToAck
    <2>13. CASE AdvanceCursor(d)
      BY <2>13 DEF AdvanceCursor, set_cursor
    <2> QED BY <1>3, <2>4, <2>5, <2>6, <2>7, <2>8, <2>9,
               <2>10, <2>11, <2>12, <2>13 DEF ReceiveStep
  <1>4. ASSUME NEW r \in puts, RelayPut(r) PROVE Goal
    BY <1>4 DEF RelayPut
  <1>5. ASSUME NEW r \in acks, RelayAck(r) PROVE Goal
    BY <1>5 DEF RelayAck
  <1>6. CASE Sweep
    BY <1>6 DEF Sweep
  <1>7. CASE Tick
    BY <1>7 DEF Tick
  <1>8. ASSUME NEW m \in Mailboxes, Revoke(m) PROVE Goal
    BY <1>8 DEF Revoke, RevokeCapabilities
  <1>9. ASSUME NEW w \in Tasks, NEW kept \in BOOLEAN, Interrupt(w, kept)
        PROVE  Goal
    BY <1>9 DEF Interrupt
  <1>10. CASE LoseOrphan
    BY <1>10 DEF LoseOrphan
  <1>11. CASE UNCHANGED vars
    BY <1>11 DEF vars
  <1> HIDE DEF Goal
  <1> QED BY <1>1, <1>2, <1>3, <1>4, <1>5, <1>6, <1>7, <1>8, <1>9, <1>10,
             <1>11, <1>12, <1>13 DEF Next, RelayStep

\* Time passes, an inbox grows, and a sealed row is never unsealed.
LEMMA Monotone ==
    ASSUME TypeOK, [Next]_vars
    PROVE  /\ now \in Nat /\ now' \in Nat /\ now <= now'
           /\ \A d \in Mailboxes : inbox[d] \subseteq inbox'[d]
           /\ \A e \in Envelopes : outbox[e] # "none" => outbox'[e] # "none"
  <1> USE DEF TypeOK, QueueTypeOK, ClientTypeOK
  <1>1. now \in Nat /\ now' \in Nat /\ now <= now'
    BY Frame DEF Tick
  <1>2. \A d \in Mailboxes : inbox[d] \subseteq inbox'[d]
    BY Frame DEF ProcessNew, record_incoming
  <1>3. \A e \in Envelopes : outbox[e] # "none" => outbox'[e] # "none"
    <2> SUFFICES ASSUME NEW e \in Envelopes, outbox[e] # "none"
                 PROVE  outbox'[e] # "none"
      OBVIOUS
    <2>1. ASSUME NEW k \in Contents, Send(k) PROVE outbox'[e] # "none"
      BY <2>1 DEF Send, enqueue
    <2>2. ASSUME NEW w \in Tasks, PublishReply(w) PROVE outbox'[e] # "none"
      BY <2>2 DEF PublishReply, mark_accepted, mark_undeliverable, sendVars
    <2> QED BY <2>1, <2>2, Frame
  <1> QED BY <1>1, <1>2, <1>3

\* The four things a step can do to the relay's queue.
QueueKept == UNCHANGED queueVars

QueueGrown(r, row) ==
    /\ r \in puts
    /\ To[r.env] \notin revoked
    /\ Stored(To[r.env], r.env) = {}
    /\ row.mailbox = To[r.env] /\ row.delivery = r.env
    /\ row.seq = nextSeq[To[r.env]]
    /\ row.expires = effectiveExpiry(r.requested)
    /\ queue' = queue \union {row}
    /\ nextSeq' = [nextSeq EXCEPT ![To[r.env]] = @ + 1]

QueueShrunk ==
    /\ queue' \subseteq queue
    /\ \A r \in queue : r \notin queue' => Dispensable(r)
    /\ nextSeq' = nextSeq

LEMMA QueueStep ==
    ASSUME DeliveryInv, [Next]_vars
    PROVE  \/ QueueKept
           \/ \E r \in puts, row \in Row : QueueGrown(r, row)
           \/ QueueShrunk
  <1> USE DEF DeliveryInv, TypeOK, QueueTypeOK, ClientTypeOK
  <1>1. ASSUME NEW r \in puts, RelayPut(r)
        PROVE  QueueKept \/ \E row \in Row : QueueGrown(r, row)
    <2>1. CASE PutStored(To[r.env], r.env, r.env, r.requested)
      <3> DEFINE row == [mailbox |-> To[r.env], delivery |-> r.env,
                         body |-> r.env, seq |-> nextSeq[To[r.env]],
                         expires |-> effectiveExpiry(r.requested)]
      <3>1. r.env \in Envelopes /\ r.requested \in Nat
        BY DEF PutRequest
      <3>2. row \in Row
        BY <3>1, FromType, EffectiveExpiryType, RowType
      <3>3. QueueGrown(r, row)
        BY <2>1 DEF PutStored, CheckCapability, QueueGrown
      <3> QED BY <3>2, <3>3
    <2>2. CASE UNCHANGED queueVars
      BY <2>2 DEF QueueKept
    <2> QED BY <1>1, <2>1, <2>2 DEF RelayPut, PutForbidden, PutDuplicate,
               PutFull
  <1>2. ASSUME NEW r \in acks, RelayAck(r) PROVE QueueKept \/ QueueShrunk
    BY <1>2 DEF RelayAck, AckEnvelopes, QueueKept, QueueShrunk, InboxSound,
                Dispensable, Queued
  <1>3. CASE Sweep
    BY <1>3 DEF Sweep, ExpireEnvelopes, QueueShrunk, Dispensable, Row
  <1> QED BY <1>1, <1>2, <1>3, Frame DEF QueueKept

-----------------------------------------------------------------------------
(* The relay's rows. *)

LEMMA RowFields ==
    ASSUME NEW r \in Row
    PROVE  /\ r.mailbox \in Mailboxes /\ r.delivery \in Envelopes
           /\ r.seq \in Nat /\ r.expires \in Int
  BY DEF Row

LEMMA RowsStep ==
    ASSUME DeliveryInv, [Next]_vars
    PROVE  RowsSound'
  <1> USE DEF DeliveryInv, TypeOK, QueueTypeOK, ClientTypeOK
  <1>0. \A e \in Envelopes : outbox[e] # "none" => outbox'[e] # "none"
    BY Monotone
  <1>1. CASE QueueKept
    BY <1>0, <1>1, RowFields DEF QueueKept, queueVars, RowsSound
  <1>2. ASSUME NEW r \in puts, NEW row \in Row, QueueGrown(r, row)
        PROVE  RowsSound'
    <2> DEFINE m == To[r.env]
    <2>1. r.env \in Envelopes /\ m \in Mailboxes /\ outbox[r.env] # "none"
      BY FromType DEF PutRequest, Turns
    <2>2. IsFiniteSet(queue')
      BY <1>2, FS_AddElement DEF QueueGrown, RowsSound
    <2>3. \A n \in Mailboxes : nextSeq'[n] = IF n = m THEN nextSeq[n] + 1
                                                      ELSE nextSeq[n]
      BY <1>2, <2>1 DEF QueueGrown
    <2>4. \A q \in queue :
             /\ q.mailbox = To[q.delivery] /\ q.seq < nextSeq[q.mailbox]
             /\ outbox[q.delivery] # "none"
             /\ q.mailbox \in Mailboxes /\ q.delivery \in Envelopes
             /\ q.seq \in Nat
      BY RowFields DEF RowsSound
    <2>5. \A q \in queue' :
             /\ q.mailbox = To[q.delivery] /\ q.seq < nextSeq'[q.mailbox]
             /\ outbox'[q.delivery] # "none"
      <3>1. ASSUME NEW q \in queue
            PROVE  /\ q.mailbox = To[q.delivery] /\ q.seq < nextSeq'[q.mailbox]
                   /\ outbox'[q.delivery] # "none"
        <4>1. q.mailbox \in Mailboxes /\ q.seq \in Nat /\ nextSeq[q.mailbox] \in Nat
          BY <2>4
        <4>2. q.seq < nextSeq'[q.mailbox]
          <5>1. q.seq < nextSeq[q.mailbox]
            BY <2>4
          <5>2. nextSeq'[q.mailbox] \in {nextSeq[q.mailbox], nextSeq[q.mailbox] + 1}
            BY <2>3, <4>1
          <5> HIDE DEF DeliveryInv, TypeOK, QueueTypeOK, ClientTypeOK
          <5> QED BY <4>1, <5>1, <5>2
        <4> QED BY <1>0, <2>4, <4>2
      <3>2. /\ row.mailbox = To[row.delivery] /\ row.seq < nextSeq'[row.mailbox]
            /\ outbox'[row.delivery] # "none"
        BY <1>0, <1>2, <2>1, <2>3 DEF QueueGrown
      <3> QED BY <1>2, <3>1, <3>2 DEF QueueGrown
    <2>6. \A q \in queue : q.mailbox = row.mailbox =>
             q.seq # row.seq /\ q.delivery # row.delivery
      BY <1>2, <2>1, <2>4 DEF QueueGrown, Stored, Queued
    <2>7. \A p, q \in queue' :
             p.mailbox = q.mailbox /\ (p.seq = q.seq \/ p.delivery = q.delivery)
             => p = q
      BY <1>2, <2>6 DEF QueueGrown, RowsSound
    <2> QED BY <2>2, <2>5, <2>7 DEF RowsSound
  <1>3. CASE QueueShrunk
    <2>1. IsFiniteSet(queue')
      BY <1>3, FS_Subset DEF QueueShrunk, RowsSound
    <2> QED BY <1>0, <1>3, <2>1, RowFields DEF QueueShrunk, RowsSound
  <1> QED BY <1>1, <1>2, <1>3, QueueStep

-----------------------------------------------------------------------------
(* Pages and cursors. *)

\* The four things a step can do to the page a device has in hand.
PageDropped(d) == items'[d] = {} /\ advanced'[d] = advanced[d]

PageHeld(d) ==
    /\ items'[d] = items[d] /\ advanced'[d] = advanced[d]
    /\ items[d] # {} => pc'[d] = "process"

PageConsumed(d, r) ==
    /\ NextItem(d, r)
    /\ pc'[d] = "process"
    /\ items'[d] = items[d] \ {r} /\ advanced'[d] = r.seq
    /\ r.delivery \in inbox'[d]
    /\ UNCHANGED <<queue, nextSeq, now>>

PageCase(d) ==
    \/ PageDropped(d) \/ PageHeld(d) \/ Fetch(d)
    \/ \E r \in items[d] : PageConsumed(d, r)

LEMMA PageCases ==
    ASSUME DeliveryInv, [Next]_vars, NEW d \in Mailboxes
    PROVE  PageCase(d)
  <1> USE DEF DeliveryInv, TypeOK, ClientTypeOK, queueVars, sendVars,
              receiveVars, passVars, netVars, Goto
  <1>0. (items[d] # {} => pc[d] = "process") /\ d \in Tasks
    BY TaskTypes DEF PageSound
  <1>1. ASSUME NEW k \in Contents, Send(k) PROVE PageHeld(d)
    BY <1>0, <1>1 DEF Send, PageHeld
  <1>2. ASSUME NEW c \in Mailboxes, StartSync(c) PROVE PageHeld(d)
    BY <1>0, <1>2 DEF StartSync, PageHeld
  <1>9. ASSUME NEW w \in Commands, StartPublish(w) PROVE PageHeld(d)
    BY <1>0, <1>9 DEF StartPublish, PageHeld
  <1>10. ASSUME NEW w \in Tasks, PublishStep(w) PROVE PageHeld(d)
    <2>1. CASE PublishPut(w)
      BY <1>0, <2>1 DEF PublishPut, PageHeld
    <2>2. CASE PublishReply(w)
      BY <1>0, <2>2 DEF PublishReply, PageHeld, Publishing
    <2>3. CASE PublishDone(w)
      BY <1>0, <2>3 DEF PublishDone, PageHeld, Publishing
    <2> QED BY <1>10, <2>1, <2>2, <2>3 DEF PublishStep
  <1>3. ASSUME NEW c \in Mailboxes, ReceiveStep(c) PROVE PageCase(d)
    <2>4. CASE Fetch(c)
      BY <1>0, <2>4 DEF Fetch, PageCase, PageHeld
    <2>5. CASE FetchForbidden(c)
      BY <1>0, <2>5 DEF FetchForbidden, PageCase, PageHeld
    <2>6. CASE ProcessNew(c)
      <3>1. CASE c = d
        <4>1. PICK r \in items[d] : PageConsumed(d, r)
          BY <1>0, <2>6, <3>1 DEF ProcessNew, PageConsumed, Consume, record_incoming
        <4> QED BY <4>1 DEF PageCase
      <3>2. CASE c # d
        BY <1>0, <2>6, <3>2 DEF ProcessNew, PageCase, PageHeld, Consume
      <3> QED BY <3>1, <3>2
    <2>7. CASE ProcessDuplicate(c)
      <3>1. CASE c = d
        <4>1. PICK r \in items[d] : PageConsumed(d, r)
          BY <1>0, <2>7, <3>1 DEF ProcessDuplicate, PageConsumed, Consume
        <4> QED BY <4>1 DEF PageCase
      <3>2. CASE c # d
        BY <1>0, <2>7, <3>2 DEF ProcessDuplicate, PageCase, PageHeld, Consume
      <3> QED BY <3>1, <3>2
    <2>8. CASE ProcessDeferred(c)
      BY <1>0, <2>8 DEF ProcessDeferred, PageCase, PageHeld, PageDropped
    <2>9. CASE ProcessDone(c)
      BY <1>0, <2>9 DEF ProcessDone, PageCase, PageHeld
    <2>10. CASE SendAck(c)
      BY <1>0, <2>10 DEF SendAck, PageCase, PageHeld
    <2>11. CASE AckReply(c)
      BY <1>0, <2>11 DEF AckReply, PageCase, PageHeld
    <2>12. CASE NothingToAck(c)
      BY <1>0, <2>12 DEF NothingToAck, PageCase, PageHeld
    <2>13. CASE AdvanceCursor(c)
      BY <1>0, <2>13 DEF AdvanceCursor, PageCase, PageHeld
    <2> QED BY <1>3, <2>4, <2>5, <2>6, <2>7, <2>8, <2>9,
               <2>10, <2>11, <2>12, <2>13 DEF ReceiveStep
  <1>4. ASSUME NEW r \in puts, RelayPut(r) PROVE PageHeld(d)
    BY <1>0, <1>4 DEF RelayPut, PageHeld
  <1>5. ASSUME NEW r \in acks, RelayAck(r) PROVE PageHeld(d)
    BY <1>0, <1>5 DEF RelayAck, PageHeld
  <1>6. ASSUME Sweep \/ Tick \/ LoseOrphan \/ \E m \in Mailboxes : Revoke(m)
        PROVE  PageHeld(d)
    BY <1>0, <1>6 DEF Sweep, Tick, LoseOrphan, Revoke, PageHeld
  <1>7. ASSUME NEW c \in Tasks, NEW kept \in BOOLEAN, Interrupt(c, kept)
        PROVE  PageHeld(d) \/ PageDropped(d)
    BY <1>0, <1>7 DEF Interrupt, PageHeld, PageDropped
  <1>8. CASE UNCHANGED vars
    BY <1>0, <1>8 DEF vars, PageCase, PageHeld
  <1> QED BY <1>1, <1>2, <1>3, <1>4, <1>5, <1>6, <1>7, <1>8, <1>9, <1>10
          DEF Next, RelayStep, PageCase

LEMMA DispensableStable ==
    ASSUME TypeOK, [Next]_vars, NEW r \in Row, Dispensable(r)
    PROVE  Dispensable(r)'
  BY Monotone, RowFields DEF Dispensable

\* A row of the next state is an old one or carries a fresh number.
LEMMA RowOrigin ==
    ASSUME DeliveryInv, [Next]_vars, NEW d \in Mailboxes
    PROVE  /\ nextSeq[d] \in Nat /\ nextSeq'[d] \in Nat
           /\ nextSeq[d] <= nextSeq'[d]
           /\ \A r \in Queued(d)' : r \in Row /\ (r \in Queued(d) \/ r.seq = nextSeq[d])
  <1> USE DEF DeliveryInv, TypeOK, QueueTypeOK, Queued
  <1>0. TypeOK'
    BY TypeStep
  <1>1. CASE QueueKept
    BY <1>1 DEF QueueKept, queueVars
  <1>2. ASSUME NEW r \in puts, NEW row \in Row, QueueGrown(r, row)
        PROVE  /\ nextSeq[d] <= nextSeq'[d]
               /\ \A q \in Queued(d)' : q \in Queued(d) \/ q.seq = nextSeq[d]
    BY <1>2 DEF QueueGrown
  <1>3. CASE QueueShrunk
    BY <1>3 DEF QueueShrunk
  <1> QED BY <1>0, <1>1, <1>2, <1>3, QueueStep

\* A fetched page has no holes among the live rows.
LEMMA FetchNoHoles ==
    ASSUME TypeOK, RowsSound, NEW d \in Mailboxes, NEW c \in Nat,
           NEW i \in FetchEnvelopes(d, c, FetchLimit), NEW r \in Live(d),
           c < r.seq, r.seq < i.seq
    PROVE  r \in FetchEnvelopes(d, c, FetchLimit)
  <1> DEFINE after == {x \in Live(d) : x.seq > c}
             before(x) == {q \in after : q.seq < x.seq}
  <1>1. after \subseteq Row /\ IsFiniteSet(after)
    <2>1. after \subseteq queue
      BY DEF Live, Queued
    <2> QED BY <2>1, FS_Subset DEF TypeOK, QueueTypeOK, RowsSound
  <1>2. i \in after /\ Cardinality(before(i)) < FetchLimit
    BY DEF FetchEnvelopes
  <1>3. r \in after
    OBVIOUS
  <1>4. before(r) \subseteq before(i)
    BY <1>1, <1>2, <1>3, RowFields
  <1>5. IsFiniteSet(before(i))
    BY <1>1, FS_Subset
  <1>6. /\ Cardinality(before(r)) <= Cardinality(before(i))
        /\ IsFiniteSet(before(r))
    BY <1>4, <1>5, FS_Subset
  <1>7. Cardinality(before(r)) \in Nat /\ Cardinality(before(i)) \in Nat
    BY <1>5, <1>6, FS_CardinalityType
  <1>8. Cardinality(before(r)) < FetchLimit
    BY <1>2, <1>6, <1>7
  <1> QED BY <1>3, <1>8 DEF FetchEnvelopes

LEMMA CursorStep ==
    ASSUME DeliveryInv, [Next]_vars
    PROVE  CursorSound'
  <1> SUFFICES ASSUME NEW d \in Mailboxes
               PROVE  /\ advanced'[d] < nextSeq'[d]
                      /\ cursor'[d] < nextSeq'[d]
                      /\ \A r \in Queued(d)' :
                            r.seq <= advanced'[d] \/ r.seq <= cursor'[d]
                            => Dispensable(r)'
    BY DEF CursorSound
  <1>1. /\ advanced[d] \in Nat /\ cursor[d] \in Nat
        /\ advanced[d] < nextSeq[d] /\ cursor[d] < nextSeq[d]
    BY DEF DeliveryInv, TypeOK, ClientTypeOK, CursorSound
  <1>2. cursor'[d] \in {cursor[d], advanced[d]}
    BY Frame DEF DeliveryInv, TypeOK, ClientTypeOK, AdvanceCursor, set_cursor
  <1>3. \A r \in Queued(d) :
           r.seq <= advanced[d] \/ r.seq <= cursor[d] => Dispensable(r)'
    BY DispensableStable DEF DeliveryInv, TypeOK, QueueTypeOK, CursorSound, Queued
  <1>4. ASSUME advanced'[d] \in {advanced[d], cursor[d]}
        PROVE  /\ advanced'[d] < nextSeq'[d] /\ cursor'[d] < nextSeq'[d]
               /\ \A r \in Queued(d)' :
                     r.seq <= advanced'[d] \/ r.seq <= cursor'[d]
                     => Dispensable(r)'
    <2>1. advanced'[d] < nextSeq[d] /\ cursor'[d] < nextSeq[d]
      BY <1>1, <1>2, <1>4
    <2>2. advanced'[d] < nextSeq'[d] /\ cursor'[d] < nextSeq'[d]
      BY <1>1, <1>2, <1>4, <2>1, RowOrigin
    <2>3. ASSUME NEW r \in Queued(d)',
                 r.seq <= advanced'[d] \/ r.seq <= cursor'[d]
          PROVE  Dispensable(r)'
      <3>1. r \in Queued(d)
        BY <1>1, <1>2, <1>4, <2>1, <2>3, RowOrigin
      <3> QED BY <1>2, <1>3, <1>4, <2>3, <3>1
    <2> QED BY <2>2, <2>3
  <1>5. ASSUME NEW i \in items[d], PageConsumed(d, i)
        PROVE  /\ advanced'[d] < nextSeq'[d] /\ cursor'[d] < nextSeq'[d]
               /\ \A r \in Queued(d)' :
                     r.seq <= advanced'[d] \/ r.seq <= cursor'[d]
                     => Dispensable(r)'
    <2>1. i \in Row /\ i.seq \in Nat /\ i.seq < nextSeq[d] /\ i.mailbox = d
      BY RowFields DEF DeliveryInv, TypeOK, PageSound
    <2>2. advanced'[d] = i.seq /\ nextSeq' = nextSeq /\ Queued(d)' = Queued(d)
      BY <1>5 DEF PageConsumed, Queued
    <2>3. ASSUME NEW r \in Queued(d)',
                 r.seq <= advanced'[d] \/ r.seq <= cursor'[d]
          PROVE  Dispensable(r)'
      <3>1. r \in Queued(d) /\ r \in Row /\ r.mailbox = d /\ r.seq \in Nat
        BY <2>2, <2>3, RowFields DEF DeliveryInv, TypeOK, QueueTypeOK, Queued
      <3>2. CASE r.seq <= advanced[d] \/ r.seq <= cursor[d]
        BY <1>3, <3>1, <3>2
      <3>3. CASE r.seq = i.seq
        BY <1>5, <3>1, <3>3 DEF DeliveryInv, PageSound, PageConsumed, Dispensable
      <3>4. CASE advanced[d] < r.seq /\ r.seq < i.seq
        <4>1. ~ \E j \in items[d] : j.seq = r.seq
          BY <1>5, <2>1, <3>1, <3>4, RowFields
             DEF DeliveryInv, TypeOK, PageConsumed, NextItem
        <4>2. Dispensable(r)
          BY <3>1, <3>4, <4>1 DEF DeliveryInv, PageComplete
        <4> QED BY <3>1, <4>2, DispensableStable DEF DeliveryInv
      <3> QED BY <1>1, <1>2, <2>1, <2>2, <2>3, <3>1, <3>2, <3>3, <3>4
    <2> QED BY <1>1, <1>2, <2>1, <2>2, <2>3
  <1>6. CASE PageDropped(d) \/ PageHeld(d) \/ Fetch(d)
    BY <1>4, <1>6 DEF PageDropped, PageHeld, Fetch, DeliveryInv, TypeOK
  <1> QED BY <1>5, <1>6, PageCases DEF PageCase

LEMMA PageStep ==
    ASSUME DeliveryInv, [Next]_vars
    PROVE  PageSound' /\ PageComplete'
  <1> DEFINE Sound(d, i) ==
        /\ \A j \in items'[d] : i.seq = j.seq => i = j
        /\ pc'[d] = "process"
        /\ i.mailbox = d /\ To[i.delivery] = d
        /\ i.seq < nextSeq'[d]
        /\ advanced'[d] < i.seq
        /\ outbox'[i.delivery] # "none"
        /\ \A r \in Queued(d)' : r.seq = i.seq => r.delivery = i.delivery
      Complete(d, i) ==
        \A r \in Queued(d)' :
            advanced'[d] < r.seq /\ r.seq < i.seq
            => (\E j \in items'[d] : j.seq = r.seq) \/ Dispensable(r)'
  <1> SUFFICES ASSUME NEW d \in Mailboxes, NEW i \in items'[d]
               PROVE  Sound(d, i) /\ Complete(d, i)
    BY DEF PageSound, PageComplete
  <1>0. advanced[d] \in Nat /\ items[d] \subseteq Row /\ Queued(d) \subseteq Row
    BY DEF DeliveryInv, TypeOK, QueueTypeOK, Queued
  \* What held of an item keeps holding while the page is kept.
  <1>1. ASSUME i \in items[d], items'[d] \subseteq items[d], pc'[d] = "process",
               advanced'[d] \in Nat, advanced'[d] < i.seq
        PROVE  Sound(d, i)
    <2>1. /\ i.mailbox = d /\ To[i.delivery] = d /\ i.seq < nextSeq[d]
          /\ outbox[i.delivery] # "none" /\ i.delivery \in Envelopes
          /\ i.seq \in Nat
      BY <1>0, <1>1, RowFields DEF DeliveryInv, PageSound
    <2>2. i.seq < nextSeq'[d] /\ outbox'[i.delivery] # "none"
      BY <2>1, RowOrigin, Monotone DEF DeliveryInv
    <2>3. \A r \in Queued(d)' : r.seq = i.seq => r.delivery = i.delivery
      BY <1>1, <2>1, RowOrigin DEF DeliveryInv, PageSound
    <2>4. \A j \in items'[d] : i.seq = j.seq => i = j
      BY <1>1 DEF DeliveryInv, PageSound
    <2> QED BY <1>1, <2>1, <2>2, <2>3, <2>4
  <1>2. CASE PageDropped(d)
    BY <1>2 DEF PageDropped
  <1>3. CASE PageHeld(d)
    <2>1. /\ i \in items[d] /\ items'[d] = items[d] /\ pc'[d] = "process"
          /\ advanced'[d] = advanced[d]
      BY <1>3 DEF PageHeld
    <2>2. Sound(d, i)
      BY <1>0, <1>1, <2>1 DEF DeliveryInv, PageSound
    <2>3. ASSUME NEW r \in Queued(d)', advanced'[d] < r.seq, r.seq < i.seq
          PROVE  (\E j \in items'[d] : j.seq = r.seq) \/ Dispensable(r)'
      <3>1. r \in Queued(d) /\ r \in Row
        BY <1>0, <2>1, <2>3, RowOrigin, RowFields DEF DeliveryInv, PageSound
      <3>2. (\E j \in items[d] : j.seq = r.seq) \/ Dispensable(r)
        BY <2>1, <2>3, <3>1 DEF DeliveryInv, PageComplete
      <3> QED BY <1>3, <3>1, <3>2, DispensableStable DEF DeliveryInv, PageHeld
    <2> QED BY <2>2, <2>3
  <1>4. ASSUME NEW c \in items[d], PageConsumed(d, c)
        PROVE  Sound(d, i) /\ Complete(d, i)
    <2>1. /\ i \in items[d] /\ i # c /\ pc'[d] = "process"
          /\ advanced'[d] = c.seq /\ Queued(d)' = Queued(d)
      BY <1>4 DEF PageConsumed, Queued
    <2>2. /\ i \in Row /\ i.seq \in Nat /\ c \in Row /\ c.seq \in Nat
          /\ c.seq <= i.seq
      BY <1>0, <1>4, <2>1, RowFields DEF PageConsumed, NextItem
    <2>3. c.seq < i.seq
      BY <2>1, <2>2 DEF DeliveryInv, PageSound
    <2>4. Sound(d, i)
      BY <1>1, <1>4, <2>1, <2>2, <2>3 DEF PageConsumed
    <2>5. ASSUME NEW r \in Queued(d)', advanced'[d] < r.seq, r.seq < i.seq
          PROVE  (\E j \in items'[d] : j.seq = r.seq) \/ Dispensable(r)'
      <3>1. r \in Queued(d) /\ r \in Row /\ r.seq \in Nat
        BY <1>0, <2>1, <2>5, RowFields
      <3>2. advanced[d] < r.seq
        BY <1>0, <1>4, <2>1, <2>2, <2>5, <3>1 DEF DeliveryInv, PageSound
      <3>3. (\E j \in items[d] : j.seq = r.seq) \/ Dispensable(r)
        BY <2>1, <2>5, <3>1, <3>2 DEF DeliveryInv, PageComplete
      <3>4. CASE Dispensable(r)
        BY <3>1, <3>4, DispensableStable DEF DeliveryInv
      <3>5. ASSUME NEW j \in items[d], j.seq = r.seq
            PROVE  j \in items'[d]
        BY <1>4, <2>1, <2>2, <2>5, <3>1, <3>5 DEF PageConsumed
      <3> QED BY <3>3, <3>4, <3>5
    <2> QED BY <2>4, <2>5
  <1>5. CASE Fetch(d)
    <2>1. /\ items'[d] = FetchEnvelopes(d, cursor[d], FetchLimit)
          /\ advanced'[d] = cursor[d] /\ pc'[d] = "process"
          /\ queue' = queue /\ nextSeq' = nextSeq /\ outbox' = outbox
          /\ now' = now /\ inbox' = inbox
      BY <1>5, TaskTypes DEF Fetch, Goto, queueVars, sendVars, receiveVars,
                  DeliveryInv, TypeOK
    <2>2. \A x \in items'[d] : x \in Live(d) /\ x.seq > cursor[d]
      BY <2>1 DEF FetchEnvelopes
    <2>3. cursor[d] \in Nat
      BY DEF DeliveryInv, TypeOK, ClientTypeOK
    <2>4. i \in queue /\ i \in Row /\ i.mailbox = d /\ i.seq \in Nat
      BY <1>0, <2>2, RowFields DEF Live, Queued
    <2>5. Sound(d, i)
      BY <2>1, <2>2, <2>3, <2>4 DEF DeliveryInv, RowsSound, Live, Queued
    <2>6. ASSUME NEW r \in Queued(d)', advanced'[d] < r.seq, r.seq < i.seq
          PROVE  (\E j \in items'[d] : j.seq = r.seq) \/ Dispensable(r)'
      <3>1. r \in Queued(d) /\ r \in Row /\ r.expires \in Int
        BY <1>0, <2>1, <2>6, RowFields DEF Queued
      <3>2. CASE r \in Live(d)
        BY <2>1, <2>3, <2>6, <3>2, FetchNoHoles DEF DeliveryInv
      <3>3. CASE r \notin Live(d)
        BY <2>1, <3>1, <3>3 DEF Live, Dispensable, DeliveryInv, TypeOK, QueueTypeOK
      <3> QED BY <3>2, <3>3
    <2> QED BY <2>5, <2>6
  <1> QED BY <1>2, <1>3, <1>4, <1>5, PageCases DEF PageCase

-----------------------------------------------------------------------------
(* Requests in flight. *)

\* An orphan differs from the request it was only in that nobody waits for
\* it, and none of the requests given up stays live.
LEMMA OrphanedPuts ==
    ASSUME NEW S \in SUBSET PutRequest, NEW M, NEW kept \in BOOLEAN,
           NEW r \in Orphaned(S, M, kept)
    PROVE  \E q \in S : /\ r.env = q.env /\ r.task = q.task
                        /\ r.live => r = q /\ q \notin M
  <1>1. CASE r \in S /\ ~(r.live /\ r \in M)
    BY <1>1
  <1>2. ASSUME NEW q \in S, r = [q EXCEPT !.live = FALSE]
        PROVE  r.env = q.env /\ r.task = q.task /\ ~r.live
    BY <1>2 DEF PutRequest
  <1> QED BY <1>1, <1>2 DEF Orphaned

LEMMA OrphanedAcks ==
    ASSUME NEW S \in SUBSET AckRequest, NEW M, NEW kept \in BOOLEAN,
           NEW r \in Orphaned(S, M, kept)
    PROVE  \E q \in S : /\ r.dev = q.dev /\ r.ids = q.ids
                        /\ r.live => r = q /\ q \notin M
  <1>1. CASE r \in S /\ ~(r.live /\ r \in M)
    BY <1>1
  <1>2. ASSUME NEW q \in S, r = [q EXCEPT !.live = FALSE]
        PROVE  r.dev = q.dev /\ r.ids = q.ids /\ ~r.live
    BY <1>2 DEF AckRequest
  <1> QED BY <1>1, <1>2 DEF Orphaned

\* A request of the next state was in flight before, live or not, or it has
\* just been sent.
LEMMA NetFrame ==
    ASSUME TypeOK, [Next]_vars
    PROVE  /\ \A r \in puts' :
                 \/ \E q \in puts : r.env = q.env /\ (r.live => r = q)
                 \/ /\ r.task \in Tasks /\ PublishPut(r.task)
                    /\ Current(r.task, r.env)
           /\ \A r \in acks' :
                 \/ \E q \in acks : /\ r.dev = q.dev /\ r.ids = q.ids
                                    /\ r.live => r = q
                 \/ SendAck(r.dev) /\ r.ids = unacked(r.dev) /\ r.dev \in Mailboxes
  <1> DEFINE P(r) == \/ \E q \in puts : r.env = q.env /\ (r.live => r = q)
                     \/ /\ r.task \in Tasks /\ PublishPut(r.task)
                        /\ Current(r.task, r.env)
             A(r) == \/ \E q \in acks : /\ r.dev = q.dev /\ r.ids = q.ids
                                        /\ r.live => r = q
                     \/ /\ SendAck(r.dev) /\ r.ids = unacked(r.dev)
                        /\ r.dev \in Mailboxes
             Goal == (\A r \in puts' : P(r)) /\ (\A r \in acks' : A(r))
  <1> SUFFICES Goal
    OBVIOUS
  <1> USE DEF queueVars, sendVars, receiveVars, passVars, netVars
  <1>0. (\A r \in puts : P(r)) /\ (\A r \in acks : A(r))
    OBVIOUS
  <1>1. ASSUME puts' \subseteq puts, acks' \subseteq acks PROVE Goal
    BY <1>0, <1>1
  <1>2. ASSUME NEW w \in Tasks, PublishPut(w) PROVE Goal
    <2>1. PICK e \in Envelopes :
             /\ Current(w, e)
             /\ puts' = puts \union
                   {[task |-> w, env |-> e, live |-> TRUE,
                     requested |-> IF EnvelopeTtl = 0 THEN 0 ELSE now + EnvelopeTtl]}
      BY <1>2 DEF PublishPut
    <2>2. acks' = acks
      BY <1>2 DEF PublishPut
    <2> QED BY <1>0, <1>2, <2>1, <2>2
  <1>3. ASSUME NEW d \in Mailboxes, SendAck(d) PROVE Goal
    <2>1. puts' = puts
      BY <1>3 DEF SendAck
    <2>2. acks' = acks \union {[dev |-> d, ids |-> unacked(d), live |-> TRUE]}
      BY <1>3 DEF SendAck
    <2> QED BY <1>0, <1>3, <2>1, <2>2
  <1>4. ASSUME NEW w \in Tasks, NEW kept \in BOOLEAN, Interrupt(w, kept)
        PROVE  Goal
    <2>1. \A r \in puts' : P(r)
      BY <1>4, OrphanedPuts DEF Interrupt, TypeOK
    <2>2. \A r \in acks' : A(r)
      BY <1>4, OrphanedAcks DEF Interrupt, TypeOK
    <2> QED BY <2>1, <2>2
  <1> HIDE DEF Goal, P, A
  <1>5. ASSUME NEW k \in Contents, Send(k) PROVE Goal
    BY <1>1, <1>5 DEF Send
  <1>6. ASSUME NEW d \in Mailboxes, StartSync(d) PROVE Goal
    BY <1>1, <1>6 DEF StartSync
  <1>12. ASSUME NEW w \in Commands, StartPublish(w) PROVE Goal
    BY <1>1, <1>12 DEF StartPublish
  <1>13. ASSUME NEW w \in Tasks, PublishStep(w) PROVE Goal
    <2>1. CASE PublishPut(w)
      BY <1>2, <2>1
    <2>2. CASE PublishReply(w)
      BY <1>1, <2>2 DEF PublishReply
    <2>3. CASE PublishDone(w)
      BY <1>1, <2>3 DEF PublishDone
    <2> QED BY <1>13, <2>1, <2>2, <2>3 DEF PublishStep
  <1>7. ASSUME NEW d \in Mailboxes, ReceiveStep(d) PROVE Goal
    <2>4. CASE Fetch(d)
      BY <1>1, <2>4 DEF Fetch
    <2>5. CASE FetchForbidden(d)
      BY <1>1, <2>5 DEF FetchForbidden
    <2>6. CASE ProcessNew(d)
      BY <1>1, <2>6 DEF ProcessNew
    <2>7. CASE ProcessDuplicate(d)
      BY <1>1, <2>7 DEF ProcessDuplicate
    <2>8. CASE ProcessDeferred(d)
      BY <1>1, <2>8 DEF ProcessDeferred
    <2>9. CASE ProcessDone(d)
      BY <1>1, <2>9 DEF ProcessDone
    <2>10. CASE SendAck(d)
      BY <1>3, <2>10
    <2>11. CASE AckReply(d)
      BY <1>1, <2>11 DEF AckReply
    <2>12. CASE NothingToAck(d)
      BY <1>1, <2>12 DEF NothingToAck
    <2>13. CASE AdvanceCursor(d)
      BY <1>1, <2>13 DEF AdvanceCursor
    <2> QED BY <1>7, <2>4, <2>5, <2>6, <2>7, <2>8, <2>9,
               <2>10, <2>11, <2>12, <2>13 DEF ReceiveStep
  <1>8. ASSUME NEW r \in puts, RelayPut(r) PROVE Goal
    BY <1>1, <1>8 DEF RelayPut
  <1>9. ASSUME NEW r \in acks, RelayAck(r) PROVE Goal
    BY <1>1, <1>9 DEF RelayAck
  <1>10. ASSUME Sweep \/ Tick \/ LoseOrphan \/ \E m \in Mailboxes : Revoke(m)
         PROVE  Goal
    BY <1>1, <1>10 DEF Sweep, Tick, LoseOrphan, Revoke
  <1>11. CASE UNCHANGED vars
    BY <1>1, <1>11 DEF vars
  <1> QED BY <1>4, <1>5, <1>6, <1>7, <1>8, <1>9, <1>10, <1>11,
             <1>12, <1>13
          DEF Next, RelayStep

LEMMA InboxStep ==
    ASSUME DeliveryInv, [Next]_vars
    PROVE  InboxSound'
  <1> USE DEF DeliveryInv, TypeOK, ClientTypeOK
  <1>1. CASE UNCHANGED <<inbox, applied>>
    <2>1. AppliedOnce'
      BY <1>1 DEF InboxSound, AppliedOnce
    <2>2. \A e \in Envelopes : e \in inbox'[To[e]] => outbox'[e] # "none"
      BY <1>1, Monotone DEF InboxSound
    <2>3. \A r \in acks' : r.ids \subseteq inbox'[r.dev]
      BY <1>1, NetFrame DEF InboxSound, unacked
    <2> QED BY <2>1, <2>2, <2>3 DEF InboxSound
  <1>2. ASSUME NEW d \in Mailboxes, ProcessNew(d) PROVE InboxSound'
    <2>1. PICK i \in items[d] : record_incoming(d, i.delivery)
      BY <1>2 DEF ProcessNew
    <2> DEFINE e0 == i.delivery
    <2>2. e0 \in Envelopes /\ To[e0] = d /\ outbox[e0] # "none"
      BY RowFields DEF PageSound
    <2>3. /\ e0 \notin inbox[d]
          /\ inbox' = [inbox EXCEPT ![d] = @ \union {e0}]
          /\ applied' = [applied EXCEPT ![e0] = @ + 1]
      BY <2>1 DEF record_incoming
    <2>4. AppliedOnce'
      BY <2>2, <2>3, FromType DEF InboxSound, AppliedOnce
    <2>5. \A e \in Envelopes : e \in inbox'[To[e]] => outbox'[e] # "none"
      BY <2>2, <2>3, FromType, Monotone DEF InboxSound
    <2>6. \A r \in acks' : r.ids \subseteq inbox'[r.dev]
      <3>1. acks' = acks
        BY <1>2 DEF ProcessNew, netVars
      <3> QED BY <3>1, Monotone DEF InboxSound, AckRequest
    <2> QED BY <2>4, <2>5, <2>6 DEF InboxSound
  <1> QED BY <1>1, <1>2, Frame

-----------------------------------------------------------------------------
(* Turns: one request or answer at a time. *)

\* Nothing of a device's turn changed, except that requests were lost.
TurnHeld(d) ==
    /\ pc'[d] = pc[d] /\ answer'[d] = answer[d]
    /\ \A r \in puts' : r.live /\ r.task = d => r \in puts
    /\ \A r \in acks' : r.live /\ r.dev = d => r \in acks

\* Nothing is outstanding any more.
TurnOver(d) ==
    /\ answer'[d] = NoAnswer
    /\ \A r \in puts' : r.live => r.task # d
    /\ \A r \in acks' : r.live => r.dev # d

LEMMA TurnCases ==
    ASSUME NEW d \in Tasks, Turn(d), TurnHeld(d) \/ TurnOver(d)
    PROVE  Turn(d)'
  <1>1. CASE TurnHeld(d)
    BY <1>1 DEF TurnHeld, Turn, Publishing
  <1>2. CASE TurnOver(d)
    BY <1>2 DEF TurnOver, Turn, NoAnswer
  <1> QED BY <1>1, <1>2

\* A device with an answer in hand has no live request.
LEMMA AnsweredIsAlone ==
    ASSUME NEW d \in Tasks, Turn(d), answer[d] # NoAnswer
    PROVE  /\ \A r \in puts : r.live => r.task # d
           /\ \A r \in acks : r.live => r.dev # d
  BY DEF Turn

LEMMA TurnStep ==
    ASSUME DeliveryInv, [Next]_vars, NEW d \in Tasks
    PROVE  Turn(d)'
  <1> USE DEF queueVars, sendVars, receiveVars, passVars, netVars
  <1>0. /\ Turn(d)
        /\ pc \in [Tasks -> Steps] /\ answer \in [Tasks -> Answer]
    BY DEF DeliveryInv, TypeOK, Turns
  <1>1. ASSUME NEW k \in Contents, Send(k) PROVE Turn(d)'
    BY <1>0, <1>1, TurnCases DEF Send, TurnHeld
  <1>2. ASSUME NEW c \in Mailboxes, StartSync(c) PROVE Turn(d)'
    <2>1. CASE c # d
      BY <1>0, <1>2, <2>1, TurnCases DEF StartSync, Goto, TurnHeld
    <2>2. CASE c = d
      <3>1. TurnOver(d)
        BY <1>0, <1>2, <2>2 DEF StartSync, Turn, TurnOver, Publishing
      <3> QED BY <1>0, <3>1, TurnCases
    <2> QED BY <2>1, <2>2
  <1>10. ASSUME NEW c \in Commands, StartPublish(c) PROVE Turn(d)'
    <2>1. CASE c # d
      BY <1>0, <1>10, <2>1, TurnCases DEF StartPublish, Goto, TurnHeld
    <2>2. CASE c = d
      <3>1. TurnOver(d)
        BY <1>0, <1>10, <2>2 DEF StartPublish, Turn, TurnOver, Publishing
      <3> QED BY <1>0, <3>1, TurnCases
    <2> QED BY <2>1, <2>2
  <1>11. ASSUME NEW c \in Tasks, PublishStep(c), c # d PROVE Turn(d)'
    <2> SUFFICES TurnHeld(d)
      BY <1>0, TurnCases
    <2>1. CASE PublishPut(c)
      BY <1>0, <1>11, <2>1 DEF PublishPut, TurnHeld
    <2>2. CASE PublishReply(c)
      BY <1>0, <1>11, <2>2 DEF PublishReply, Goto, TurnHeld
    <2>3. CASE PublishDone(c)
      BY <1>0, <1>11, <2>3 DEF PublishDone, Goto, TurnHeld
    <2> QED BY <1>11, <2>1, <2>2, <2>3 DEF PublishStep
  <1>3. ASSUME NEW c \in Mailboxes, ReceiveStep(c), c # d PROVE Turn(d)'
    <2> SUFFICES TurnHeld(d)
      BY <1>0, TurnCases
    <2>4. CASE Fetch(c)
      BY <1>0, <1>3, <2>4 DEF Fetch, Goto, TurnHeld
    <2>5. CASE FetchForbidden(c)
      BY <1>0, <1>3, <2>5 DEF FetchForbidden, Goto, TurnHeld
    <2>6. CASE ProcessNew(c)
      BY <1>0, <1>3, <2>6 DEF ProcessNew, Goto, TurnHeld, Consume
    <2>7. CASE ProcessDuplicate(c)
      BY <1>0, <1>3, <2>7 DEF ProcessDuplicate, Goto, TurnHeld, Consume
    <2>8. CASE ProcessDeferred(c)
      BY <1>0, <1>3, <2>8 DEF ProcessDeferred, Goto, TurnHeld
    <2>9. CASE ProcessDone(c)
      BY <1>0, <1>3, <2>9 DEF ProcessDone, Goto, TurnHeld
    <2>10. CASE SendAck(c)
      BY <1>0, <1>3, <2>10 DEF SendAck, Goto, TurnHeld
    <2>11. CASE AckReply(c)
      BY <1>0, <1>3, <2>11 DEF AckReply, Goto, TurnHeld
    <2>12. CASE NothingToAck(c)
      BY <1>0, <1>3, <2>12 DEF NothingToAck, Goto, TurnHeld
    <2>13. CASE AdvanceCursor(c)
      BY <1>0, <1>3, <2>13 DEF AdvanceCursor, Goto, TurnHeld
    <2> QED BY <1>3, <2>4, <2>5, <2>6, <2>7, <2>8, <2>9,
               <2>10, <2>11, <2>12, <2>13 DEF ReceiveStep
  <1>12. CASE PublishStep(d)
    <2>1. CASE PublishPut(d)
      <3>1. PICK p : puts' = puts \union {p}
        BY <2>1 DEF PublishPut
      <3>2. Quiet(d) /\ Publishing(d) /\ UNCHANGED <<pc, acks, answer>>
        BY <2>1 DEF PublishPut
      <3> QED BY <1>0, <3>1, <3>2 DEF Quiet, Turn, Publishing, NoAnswer
    <2>2. CASE PublishReply(d)
      <3>1. answer[d] # NoAnswer /\ answer'[d] = NoAnswer
        BY <1>0, <2>2 DEF PublishReply, NoAnswer
      <3>2. TurnOver(d)
        BY <1>0, <2>2, <3>1, AnsweredIsAlone DEF PublishReply, TurnOver
      <3> QED BY <1>0, <3>2, TurnCases
    <2>3. CASE PublishDone(d)
      BY <1>0, <2>3, TurnCases DEF PublishDone, Quiet, TurnOver
    <2> QED BY <1>12, <2>1, <2>2, <2>3 DEF PublishStep
  <1>4. CASE ReceiveStep(d)
    <2>10. CASE SendAck(d)
      <3> DEFINE p == [dev |-> d, ids |-> unacked(d), live |-> TRUE]
      <3>1. acks' = acks \union {p} /\ p.dev = d
        BY <2>10 DEF SendAck
      <3>2. Quiet(d) /\ pc[d] = "ack" /\ UNCHANGED <<pc, puts, answer>>
        BY <2>10 DEF SendAck
      <3> QED BY <1>0, <3>1, <3>2 DEF Quiet, Turn, Publishing, NoAnswer
    <2>11. CASE AckReply(d)
      <3>1. answer[d] # NoAnswer /\ answer'[d] = NoAnswer
        BY <1>0, <2>11 DEF AckReply, NoAnswer
      <3>2. TurnOver(d)
        BY <1>0, <2>11, <3>1, AnsweredIsAlone DEF AckReply, TurnOver
      <3> QED BY <1>0, <3>2, TurnCases
    <2>12. CASE NothingToAck(d)
      BY <1>0, <2>12, TurnCases DEF NothingToAck, Quiet, TurnOver
    <2>14. ASSUME pc[d] \in {"fetch", "process", "cursor"},
                  UNCHANGED netVars
           PROVE  Turn(d)'
      BY <1>0, <2>14, TurnCases DEF Turn, TurnOver, Publishing
    <2>4. CASE Fetch(d)
      BY <2>14, <2>4 DEF Fetch
    <2>5. CASE FetchForbidden(d)
      BY <2>14, <2>5 DEF FetchForbidden
    <2>6. CASE ProcessNew(d)
      BY <2>14, <2>6 DEF ProcessNew
    <2>7. CASE ProcessDuplicate(d)
      BY <2>14, <2>7 DEF ProcessDuplicate
    <2>8. CASE ProcessDeferred(d)
      BY <2>14, <2>8 DEF ProcessDeferred
    <2>9. CASE ProcessDone(d)
      BY <2>14, <2>9 DEF ProcessDone
    <2>13. CASE AdvanceCursor(d)
      BY <2>14, <2>13 DEF AdvanceCursor
    <2> QED BY <1>4, <2>4, <2>5, <2>6, <2>7, <2>8, <2>9,
               <2>10, <2>11, <2>12, <2>13 DEF ReceiveStep
  <1>5. ASSUME NEW r \in puts, RelayPut(r) PROVE Turn(d)'
    <2>1. r.task \in Tasks /\ r.live \in BOOLEAN
      BY DEF DeliveryInv, TypeOK, PutRequest
    <2>2. UNCHANGED <<pc, acks>> /\ puts' = puts \ {r}
      BY <1>5 DEF RelayPut
    <2>3. CASE ~r.live \/ r.task # d
      <3>1. answer'[d] = answer[d]
        BY <1>0, <1>5, <2>1, <2>3 DEF RelayPut, Reply
      <3> QED BY <1>0, <2>2, <3>1, TurnCases DEF TurnHeld
    <2>4. CASE r.live /\ r.task = d
      <3>1. answer'[d].kind \in {"accepted", "forbidden", "refused"}
        BY <1>0, <1>5, <2>4 DEF RelayPut, Reply
      <3>2. Publishing(d)
        BY <1>0, <2>4 DEF Turn
      <3> QED BY <1>0, <2>2, <2>4, <3>1, <3>2 DEF Turn, Publishing
    <2> QED BY <2>1, <2>3, <2>4
  <1>6. ASSUME NEW r \in acks, RelayAck(r) PROVE Turn(d)'
    <2>1. r.dev \in Mailboxes /\ r.live \in BOOLEAN
      BY DEF DeliveryInv, TypeOK, AckRequest
    <2>2. UNCHANGED <<pc, puts>> /\ acks' = acks \ {r}
      BY <1>6 DEF RelayAck
    <2>3. CASE ~r.live \/ r.dev # d
      <3>1. answer'[d] = answer[d]
        BY <1>0, <1>6, <2>1, <2>3 DEF RelayAck, Reply
      <3> QED BY <1>0, <2>2, <3>1, TurnCases DEF TurnHeld
    <2>4. CASE r.live /\ r.dev = d
      <3>1. answer'[d].kind \in {"ack", "forbidden"}
        BY <1>0, <1>6, <2>4 DEF RelayAck, Reply
      <3>2. pc[d] = "ack"
        BY <1>0, <2>4 DEF Turn
      <3> QED BY <1>0, <2>2, <2>4, <3>1, <3>2 DEF Turn, Publishing
    <2> QED BY <2>1, <2>3, <2>4
  <1>7. ASSUME Sweep \/ Tick \/ LoseOrphan \/ \E m \in Mailboxes : Revoke(m)
        PROVE  Turn(d)'
    BY <1>0, <1>7, TurnCases DEF Sweep, Tick, LoseOrphan, Revoke, TurnHeld
  <1>8. ASSUME NEW c \in Tasks, NEW kept \in BOOLEAN, Interrupt(c, kept)
        PROVE  Turn(d)'
    <2>1. puts \subseteq PutRequest /\ acks \subseteq AckRequest
      BY DEF DeliveryInv, TypeOK
    <2>2. \A r \in puts' : r.live => r \in puts /\ r.task # c
      BY <1>8, <2>1, OrphanedPuts DEF Interrupt
    <2>3. \A r \in acks' : r.live => r \in acks /\ r.dev # c
      BY <1>8, <2>1, OrphanedAcks DEF Interrupt
    <2>4. CASE c = d
      BY <1>0, <1>8, <2>2, <2>3, <2>4, TurnCases DEF Interrupt, TurnOver
    <2>5. CASE c # d
      BY <1>0, <1>8, <2>2, <2>3, <2>5, TurnCases DEF Interrupt, Goto, TurnHeld
    <2> QED BY <2>4, <2>5
  <1>9. CASE UNCHANGED vars
    BY <1>0, <1>9, TurnCases DEF vars, TurnHeld
  <1> QED BY <1>1, <1>2, <1>3, <1>4, <1>5, <1>6, <1>7, <1>8, <1>9,
             <1>10, <1>11, <1>12
          DEF Next, RelayStep

\* A task puts rows its device has sealed.
LEMMA CurrentOwn ==
    ASSUME DeliveryInv, NEW w \in Tasks, NEW e, Current(w, e)
    PROVE  e \in Envelopes /\ From(e) = Device(w) /\ outbox[e] # "none"
  BY DEF Current, DeliveryInv, TypeOK, OutboxSound

LEMMA TurnsStep ==
    ASSUME DeliveryInv, [Next]_vars
    PROVE  Turns'
  <1>0. TypeOK
    BY DEF DeliveryInv
  <1>1. \A r \in puts' : outbox'[r.env] # "none"
    <2>1. \A r \in puts : r.env \in Envelopes
      BY <1>0 DEF TypeOK, PutRequest
    <2> QED BY <1>0, <2>1, CurrentOwn, Monotone, NetFrame DEF DeliveryInv, Turns
  <1> QED BY <1>1, TurnStep DEF Turns

-----------------------------------------------------------------------------
(* Outboxes. *)

LEMMA CurrentUnique ==
    ASSUME DeliveryInv, NEW w \in Tasks, NEW x, NEW y,
           Current(w, x), Current(w, y)
    PROVE  x = y
  <1>1. rowId[x] <= rowId[y] /\ rowId[y] <= rowId[x]
    BY DEF Current
  <1>2. rowId[x] \in Nat /\ rowId[y] \in Nat
    BY CurrentOwn DEF DeliveryInv, TypeOK, ClientTypeOK
  <1> QED BY <1>1, <1>2, CurrentOwn DEF DeliveryInv, OutboxSound

LEMMA SendNumbers ==
    ASSUME DeliveryInv, NEW k \in Contents, Send(k)
    PROVE  \A x \in Envelopes :
              /\ Content[x] = k => /\ rowId'[x] \in Nat
                                   /\ nextRow[Author[k]] <= rowId'[x]
                                   /\ rowId'[x] < nextRow'[Author[k]]
                                   /\ outbox'[x] = "sealed"
                                   /\ outbox[x] = "none"
              /\ Content[x] # k => rowId'[x] = rowId[x] /\ outbox'[x] = outbox[x]
              /\ \A y \in Envelopes : Content[x] = k /\ Content[y] = k
                                      /\ rowId'[x] = rowId'[y] => x = y
  <1> DEFINE d == Author[k]
             n == Cardinality(Copies(k))
  <1>1. n \in Nat /\ d \in Mailboxes /\ nextRow[d] \in Nat
    BY CopiesFinite DEF DeliveryInv, TypeOK, ClientTypeOK
  <1>2. PICK f \in Numberings(Copies(k), nextRow[d]) :
           /\ outbox' = [e \in Envelopes |->
                           IF e \in Copies(k) THEN "sealed" ELSE outbox[e]]
           /\ rowId' = [e \in Envelopes |->
                           IF e \in Copies(k) THEN f[e] ELSE rowId[e]]
           /\ nextRow' = [nextRow EXCEPT ![d] = @ + n]
    BY DEF Send, enqueue
  <1>3. \A x \in Copies(k) : f[x] \in nextRow[d] .. (nextRow[d] + n - 1)
    BY <1>2 DEF Numberings
  <1>4. \A x, y \in Copies(k) : f[x] = f[y] => x = y
    BY <1>2 DEF Numberings
  <1>5. nextRow'[d] = nextRow[d] + n
    BY <1>1, <1>2 DEF DeliveryInv, TypeOK, ClientTypeOK
  <1>6. \A x \in Copies(k) : outbox[x] = "none"
    BY DEF Send
  <1> HIDE DEF n
  <1> QED BY <1>1, <1>2, <1>3, <1>4, <1>5, <1>6 DEF Copies

\* A row keeps its place in the outbox.
LEMMA RowIdStays ==
    ASSUME DeliveryInv, [Next]_vars, NEW e \in Envelopes, outbox[e] # "none"
    PROVE  rowId'[e] = rowId[e]
  <1>1. ASSUME NEW k \in Contents, Send(k) PROVE rowId'[e] = rowId[e]
    BY <1>1, SendNumbers
  <1> QED BY <1>1, Frame

\* As long as the rows a task has to put stay, so does the current one.
LEMMA CurrentStays ==
    ASSUME DeliveryInv, [Next]_vars, NEW w \in Tasks, NEW e,
           todo'[w] = todo[w]
    PROVE  Current(w, e)' <=> Current(w, e)
  <1>1. \A x \in todo[w] : rowId'[x] = rowId[x]
    BY RowIdStays DEF DeliveryInv, TypeOK, OutboxSound
  <1> QED BY <1>1 DEF Current

\* The ways a task's rows to put change.
TodoTaken(w) ==
    /\ pc[w] \in {"idle", "cursor"}
    /\ todo'[w] = pending(Device(w))
    /\ UNCHANGED outbox

TodoCase(w) ==
    \/ todo'[w] = todo[w]
    \/ PublishReply(w) /\ todo'[w] \subseteq todo[w]
    \/ TodoTaken(w)
    \/ (\E kept \in BOOLEAN : Interrupt(w, kept)) /\ todo'[w] = {}

LEMMA TodoCases ==
    ASSUME TypeOK, [Next]_vars, NEW w \in Tasks
    PROVE  TodoCase(w)
  <1> USE DEF TypeOK, queueVars, sendVars, receiveVars, passVars, netVars,
              TodoCase
  <1>1. ASSUME NEW k \in Contents, Send(k) PROVE TodoCase(w)
    BY <1>1 DEF Send
  <1>2. ASSUME NEW d \in Mailboxes, StartSync(d) PROVE TodoCase(w)
    BY <1>2 DEF StartSync, Snapshot, TodoTaken
  <1>3. ASSUME NEW c \in Commands, StartPublish(c) PROVE TodoCase(w)
    BY <1>3 DEF StartPublish, Snapshot, TodoTaken
  <1>4. ASSUME NEW c \in Tasks, PublishStep(c) PROVE TodoCase(w)
    <2>1. CASE PublishPut(c)
      BY <2>1 DEF PublishPut
    <2>2. CASE PublishReply(c)
      <3>1. CASE c = w
        BY <2>2, <3>1 DEF PublishReply
      <3>2. CASE c # w
        BY <2>2, <3>2 DEF PublishReply
      <3> QED BY <3>1, <3>2
    <2>3. CASE PublishDone(c)
      BY <2>3 DEF PublishDone
    <2> QED BY <1>4, <2>1, <2>2, <2>3 DEF PublishStep
  <1>5. ASSUME NEW d \in Mailboxes, ReceiveStep(d) PROVE TodoCase(w)
    <2>1. CASE Fetch(d) \/ FetchForbidden(d)
      BY <2>1 DEF Fetch, FetchForbidden
    <2>2. CASE ProcessNew(d) \/ ProcessDuplicate(d)
      BY <2>2 DEF ProcessNew, ProcessDuplicate, Consume
    <2>3. CASE ProcessDeferred(d) \/ ProcessDone(d)
      BY <2>3 DEF ProcessDeferred, ProcessDone
    <2>4. CASE SendAck(d) \/ AckReply(d) \/ NothingToAck(d)
      BY <2>4 DEF SendAck, AckReply, NothingToAck
    <2>5. CASE AdvanceCursor(d)
      BY <2>5 DEF AdvanceCursor, Snapshot, TodoTaken
    <2> QED BY <1>5, <2>1, <2>2, <2>3, <2>4, <2>5 DEF ReceiveStep
  <1>6. ASSUME RelayStep \/ Sweep \/ Tick \/ LoseOrphan
               \/ \E m \in Mailboxes : Revoke(m)
        PROVE  TodoCase(w)
    BY <1>6 DEF RelayStep, RelayPut, RelayAck, Sweep, Tick, LoseOrphan, Revoke
  <1>7. ASSUME NEW c \in Tasks, NEW kept \in BOOLEAN, Interrupt(c, kept)
        PROVE  TodoCase(w)
    <2>1. CASE c = w
      BY <1>7, <2>1 DEF Interrupt
    <2>2. CASE c # w
      BY <1>7, <2>2 DEF Interrupt
    <2> QED BY <2>1, <2>2
  <1>8. CASE UNCHANGED vars
    BY <1>8 DEF vars
  <1> HIDE DEF TodoCase
  <1> QED BY <1>1, <1>2, <1>3, <1>4, <1>5, <1>6, <1>7, <1>8 DEF Next

LEMMA OutboxStep ==
    ASSUME DeliveryInv, [Next]_vars
    PROVE  OutboxSound'
  <1>0. TypeOK /\ TypeOK'
    BY TypeStep DEF DeliveryInv
  <1> DEFINE Together == \A x, y \in Envelopes :
                 outbox[x] # "none" /\ Content[x] = Content[y]
                 => outbox[y] # "none"
             Unique == \A x, y \in Envelopes :
                 /\ outbox[x] # "none" /\ outbox[y] # "none"
                 /\ From(x) = From(y) /\ rowId[x] = rowId[y]
                 => x = y
             Bounded == \A e \in Envelopes :
                 outbox[e] # "none" => rowId[e] < nextRow[From(e)]
             Own == \A w \in Tasks : \A e \in todo[w] :
                 outbox[e] # "none" /\ From(e) = Device(w)
             AtCurrent == \A r \in puts : r.live => Current(r.task, r.env)
  <1>1. Together /\ Unique /\ Bounded /\ Own /\ AtCurrent
    BY DEF DeliveryInv, OutboxSound
  <1>2. ASSUME NEW k \in Contents, Send(k)
        PROVE  Together' /\ Unique' /\ Bounded'
    <2> DEFINE d == Author[k]
    <2>1. \A x \in Envelopes : /\ Content[x] \in Contents
                               /\ rowId[x] \in Nat /\ From(x) \in Mailboxes
                               /\ Content[x] = k => From(x) = d
      BY <1>0, FromType DEF TypeOK, ClientTypeOK, From
    <2>2. Together'
      BY <1>1, <1>2, SendNumbers
    <2>3. Unique'
      <3>1. \A c \in Mailboxes : nextRow[c] \in Nat
        BY <1>0 DEF TypeOK, ClientTypeOK
      <3> QED BY <1>1, <1>2, <2>1, <3>1, SendNumbers
    <2>4. Bounded'
      <3>1. \A c \in Mailboxes : nextRow[c] \in Nat /\ nextRow'[c] \in Nat
                                 /\ nextRow[c] <= nextRow'[c]
        <4>1. nextRow' = [nextRow EXCEPT ![d] = @ + Cardinality(Copies(k))]
          BY <1>2 DEF Send, enqueue
        <4> QED BY <1>0, <4>1, CopiesFinite DEF TypeOK, ClientTypeOK
      <3> QED BY <1>1, <1>2, <2>1, <3>1, SendNumbers
    <2> QED BY <2>2, <2>3, <2>4
  <1>3. ASSUME NEW w \in Tasks, PublishReply(w)
        PROVE  Together' /\ Unique' /\ Bounded'
    <2>1. UNCHANGED <<rowId, nextRow>>
      BY <1>3 DEF PublishReply, mark_accepted, mark_undeliverable, sendVars
    <2>2. \A e \in Envelopes : outbox'[e] = "none" <=> outbox[e] = "none"
      BY <1>0, <1>3, CurrentOwn DEF PublishReply, mark_accepted,
            mark_undeliverable, sendVars, TypeOK, ClientTypeOK
    <2> QED BY <1>1, <2>1, <2>2
  <1>4. Together' /\ Unique' /\ Bounded'
    <2>1. CASE UNCHANGED <<outbox, rowId, nextRow>>
      BY <1>1, <2>1
    <2> QED BY <1>2, <1>3, <2>1, Frame
  <1>5. Own'
    <2> SUFFICES ASSUME NEW w \in Tasks, NEW e \in todo'[w]
                 PROVE  outbox'[e] # "none" /\ From(e) = Device(w)
      OBVIOUS
    <2>1. CASE e \in todo[w]
      BY <1>0, <1>1, <2>1, Monotone DEF TypeOK
    <2>2. CASE TodoTaken(w)
      BY <2>2 DEF TodoTaken, pending
    <2> QED BY <1>0, <2>1, <2>2, TodoCases DEF TodoCase
  <1>6. AtCurrent'
    <2> SUFFICES ASSUME NEW r \in puts', r.live
                 PROVE  Current(r.task, r.env)'
      OBVIOUS
    <2> DEFINE w == r.task
    <2>1. CASE r \in puts
      <3>1. w \in Tasks /\ Turn(w)
        BY <1>0, <2>1 DEF TypeOK, PutRequest, DeliveryInv, Turns
      <3>2. Publishing(w) /\ answer[w] = NoAnswer
        BY <2>1, <3>1 DEF Turn
      <3>3. ~PublishReply(w) /\ ~TodoTaken(w)
        BY <3>2 DEF PublishReply, NoAnswer, TodoTaken, Publishing
      <3>4. ASSUME NEW kept \in BOOLEAN, Interrupt(w, kept) PROVE FALSE
        BY <1>0, <3>4, OrphanedPuts DEF Interrupt, TypeOK
      <3>5. todo'[w] = todo[w]
        BY <1>0, <3>1, <3>3, <3>4, TodoCases DEF TodoCase
      <3> QED BY <1>1, <2>1, <3>1, <3>5, CurrentStays
    <2>2. CASE w \in Tasks /\ PublishPut(w) /\ Current(w, r.env)
      <3>1. todo' = todo
        BY <2>2 DEF PublishPut, passVars
      <3> QED BY <2>2, <3>1, CurrentStays
    <2> QED BY <1>0, <2>1, <2>2, NetFrame
  <1> QED BY <1>4, <1>5, <1>6 DEF OutboxSound

-----------------------------------------------------------------------------
(* What senders are told. *)

LEMMA KeptStable ==
    ASSUME DeliveryInv, [Next]_vars, NEW e \in Envelopes, NEW x \in Int,
           Kept(e, x)
    PROVE  Kept(e, x)'
  <1>1. To[e] \in Mailboxes /\ TypeOK
    BY FromType DEF DeliveryInv
  <1>2. CASE e \in inbox[To[e]]
    BY <1>1, <1>2, Monotone DEF Kept
  <1>3. CASE x <= now
    BY <1>1, <1>3, Monotone DEF Kept
  <1>4. ASSUME NEW r \in queue, r.delivery = e, r.expires = x, r \notin queue'
        PROVE  Kept(e, x)'
    <2>1. Dispensable(r)
      BY <1>4, QueueStep DEF QueueKept, queueVars, QueueGrown, QueueShrunk
    <2>2. r.mailbox = To[e]
      BY <1>4 DEF DeliveryInv, RowsSound
    <2> QED BY <1>2, <1>3, <1>4, <2>1, <2>2 DEF Dispensable
  <1> QED BY <1>2, <1>3, <1>4 DEF Kept

\* The relay says "accepted" only of a row it has.
LEMMA AcceptedIsStored ==
    ASSUME DeliveryInv, NEW r \in puts, RelayPut(r), r.live,
           answer'[r.task].kind = "accepted"
    PROVE  \E q \in queue' : /\ q.delivery = r.env
                             /\ q.expires = answer'[r.task].expires
  <1> DEFINE d == r.task
             Accepted(x) == [kind |-> "accepted", expires |-> x]
  <1>1. answer \in [Tasks -> Answer] /\ d \in Tasks
    BY DEF DeliveryInv, TypeOK, PutRequest
  <1>2. ASSUME NEW row \in queue, PutDuplicate(To[r.env], r.env, r.env, row),
               Reply(d, r.live, Accepted(row.expires))
        PROVE  \E q \in queue' : q.delivery = r.env /\ q.expires = answer'[d].expires
    <2>1. answer'[d].expires = row.expires
      BY <1>1, <1>2 DEF Reply
    <2>2. row \in queue' /\ row.delivery = r.env
      BY <1>2 DEF PutDuplicate, queueVars, Stored
    <2> QED BY <2>1, <2>2
  <1>3. ASSUME PutStored(To[r.env], r.env, r.env, r.requested),
               Reply(d, r.live, Accepted(effectiveExpiry(r.requested)))
        PROVE  \E q \in queue' : q.delivery = r.env /\ q.expires = answer'[d].expires
    <2>1. answer'[d].expires = effectiveExpiry(r.requested)
      BY <1>1, <1>3 DEF Reply
    <2> DEFINE row == [mailbox |-> To[r.env], delivery |-> r.env,
                       body |-> r.env, seq |-> nextSeq[To[r.env]],
                       expires |-> effectiveExpiry(r.requested)]
    <2>2. row \in queue' /\ row.delivery = r.env
                         /\ row.expires = effectiveExpiry(r.requested)
      BY <1>3 DEF PutStored
    <2> QED BY <2>1, <2>2
  <1>4. ASSUME NEW kind \in {"forbidden", "refused"},
               Reply(d, r.live, [kind |-> kind, expires |-> 0])
        PROVE  FALSE
    BY <1>1, <1>4 DEF Reply
  <1> QED BY <1>2, <1>3, <1>4 DEF RelayPut

LEMMA PromisesStep ==
    ASSUME DeliveryInv, [Next]_vars
    PROVE  PromisesKept'
  <1>0. TypeOK /\ \A d \in Tasks : Turn(d) /\ answer[d].expires \in Int
    BY DEF DeliveryInv, Turns, TypeOK, Answer
  <1>1. ASSUME NEW e \in Envelopes, outbox'[e] = "accepted",
               NEW x \in Int, x = expiresAt'[e]
        PROVE  Kept(e, x)'
    <2>1. CASE outbox[e] = "accepted" /\ expiresAt'[e] = expiresAt[e]
      <3>1. Kept(e, x)
        BY <1>1, <2>1 DEF DeliveryInv, PromisesKept
      <3> QED BY <3>1, KeptStable
    <2>2. ASSUME NEW k \in Contents, Send(k)
          PROVE  outbox[e] = "accepted" /\ expiresAt'[e] = expiresAt[e]
      <3>1. outbox'[e] = outbox[e]
        BY <1>1, <2>2, SendNumbers
      <3>2. expiresAt' = expiresAt
        BY <2>2 DEF Send, enqueue
      <3> QED BY <1>1, <3>1, <3>2
    <2>3. ASSUME NEW d \in Tasks, PublishReply(d)
          PROVE  \/ outbox[e] = "accepted" /\ expiresAt'[e] = expiresAt[e]
                 \/ Kept(e, x)'
      <3>1. PICK y \in Envelopes :
               /\ Current(d, y)
               /\ \/ /\ answer[d].kind = "accepted"
                     /\ mark_accepted(y, answer[d].expires)
                  \/ mark_undeliverable(y)
                  \/ UNCHANGED sendVars
        BY <2>3 DEF PublishReply
      <3>2. CASE e # y
        BY <1>0, <1>1, <3>1, <3>2 DEF mark_accepted, mark_undeliverable,
              sendVars, TypeOK, ClientTypeOK
      <3>3. CASE e = y
        <4>1. CASE UNCHANGED sendVars
          BY <1>1, <4>1 DEF sendVars
        <4>2. CASE /\ answer[d].kind = "accepted"
                   /\ mark_accepted(e, answer[d].expires)
          <5>1. expiresAt'[e] = answer[d].expires
            BY <1>0, <4>2 DEF mark_accepted, TypeOK, ClientTypeOK
          <5>2. Kept(e, x)
            BY <1>1, <2>3, <3>1, <3>3, <4>2, <5>1 DEF DeliveryInv, PromisesKept
          <5> QED BY <5>2, KeptStable
        <4>3. CASE mark_undeliverable(e)
          BY <1>0, <1>1, <4>3 DEF mark_undeliverable, TypeOK, ClientTypeOK
        <4> QED BY <3>1, <3>3, <4>1, <4>2, <4>3
      <3> QED BY <3>2, <3>3
    <2>4. CASE UNCHANGED <<outbox, expiresAt>>
      BY <1>1, <2>1, <2>4
    <2> QED BY <2>1, <2>2, <2>3, <2>4, Frame
  <1>2. ASSUME NEW d \in Tasks, NEW e \in Envelopes,
               answer'[d].kind = "accepted", Current(d, e)',
               NEW x \in Int, x = answer'[d].expires
        PROVE  Kept(e, x)'
    <2>1. CASE answer'[d] = answer[d]
      <3>1. Publishing(d)
        BY <1>0, <1>2, <2>1 DEF Turn
      <3>2. ~PublishReply(d) /\ \A kept \in BOOLEAN : ~Interrupt(d, kept)
        BY <1>0, <1>2, <3>1 DEF PublishReply, Interrupt, NoAnswer, TypeOK
      <3>3. ~TodoTaken(d)
        BY <3>1 DEF TodoTaken, Publishing
      <3>4. Current(d, e)
        BY <1>0, <1>2, <3>2, <3>3, TodoCases, CurrentStays DEF TodoCase
      <3>5. Kept(e, x)
        BY <1>2, <2>1, <3>4 DEF DeliveryInv, PromisesKept
      <3> QED BY <3>5, KeptStable
    <2>2. ASSUME NEW r \in puts, RelayPut(r), answer'[d] # answer[d]
          PROVE  Kept(e, x)'
      <3>1. r.live /\ r.task = d
        BY <1>0, <2>2 DEF RelayPut, Reply, TypeOK
      <3>2. todo' = todo
        BY <2>2 DEF RelayPut, passVars
      <3>3. Current(d, e) /\ Current(d, r.env)
        BY <1>2, <3>1, <3>2, CurrentStays DEF DeliveryInv, OutboxSound
      <3>4. e = r.env
        BY <3>3, CurrentUnique
      <3> QED BY <1>2, <2>2, <3>1, <3>4, AcceptedIsStored DEF Kept
    <2>3. ASSUME NEW r \in acks, RelayAck(r) PROVE answer'[d] = answer[d]
      <3>1. \/ Reply(r.dev, r.live, [kind |-> "ack", expires |-> 0])
            \/ Reply(r.dev, r.live, [kind |-> "forbidden", expires |-> 0])
        BY <2>3 DEF RelayAck
      <3> QED BY <1>0, <1>2, <3>1 DEF Reply, TypeOK
    <2>4. ASSUME NEW c, NEW kept \in BOOLEAN,
                 PublishReply(c) \/ AckReply(c) \/ Interrupt(c, kept)
          PROVE  answer'[d] = answer[d]
      <3>1. answer' = [answer EXCEPT ![c] = NoAnswer]
        BY <2>4 DEF PublishReply, AckReply, Interrupt
      <3> QED BY <1>0, <1>2, <3>1 DEF NoAnswer, TypeOK
    <2> QED BY <2>1, <2>2, <2>3, <2>4, Frame
  <1>3. /\ \A e \in Envelopes : expiresAt'[e] \in Int
        /\ \A d \in Tasks : answer'[d].expires \in Int
    BY <1>0, TypeStep DEF TypeOK, ClientTypeOK, Answer
  <1> QED BY <1>1, <1>2, <1>3 DEF PromisesKept, Kept

-----------------------------------------------------------------------------
(* The invariant and what follows from it. *)

LEMMA InvInit == Init => DeliveryInv
  <1> SUFFICES ASSUME Init PROVE DeliveryInv
    OBVIOUS
  <1> USE DEF Init, QueueInit, ClientInit
  <1>1. TypeOK
    BY TypeInit
  <1>2. RowsSound
    BY FS_EmptySet DEF RowsSound
  <1>3. PageSound /\ PageComplete /\ CursorSound
    BY DEF PageSound, PageComplete, CursorSound, Queued
  <1>4. InboxSound
    BY FromType DEF InboxSound, AppliedOnce
  <1>5. Turns /\ OutboxSound /\ PromisesKept
    BY FromType DEF Turns, Turn, OutboxSound, PromisesKept, NoAnswer
  <1> QED BY <1>1, <1>2, <1>3, <1>4, <1>5 DEF DeliveryInv

LEMMA InvStep == DeliveryInv /\ [Next]_vars => DeliveryInv'
  <1> SUFFICES ASSUME DeliveryInv, [Next]_vars PROVE DeliveryInv'
    OBVIOUS
  <1>1. TypeOK'
    BY TypeStep DEF DeliveryInv
  <1> QED BY <1>1, RowsStep, PageStep, CursorStep, InboxStep, TurnsStep,
             OutboxStep, PromisesStep DEF DeliveryInv

\* The rows of the relay, the pages, cursors and inboxes of the receivers, the
\* requests in flight and the outboxes of the senders agree in every reachable
\* state, whatever is retried, lost, swept, revoked or interrupted.
THEOREM InvariantHolds == Spec => []DeliveryInv
  <1> QED BY InvInit, InvStep, PTL DEF Spec

\* An envelope publish_pending marked accepted is queued, committed by its
\* receiver, or past the expiry its sender was told.
THEOREM NoSilentLossHolds == Spec => []NoSilentLoss
  <1>1. DeliveryInv => NoSilentLoss
    <2> SUFFICES ASSUME DeliveryInv, NEW e \in Envelopes,
                        outbox[e] = "accepted"
                 PROVE  \/ Stored(To[e], e) # {}
                        \/ e \in inbox[To[e]]
                        \/ expiresAt[e] <= now
      BY DEF NoSilentLoss
    <2>1. Kept(e, expiresAt[e])
      BY DEF DeliveryInv, PromisesKept
    <2>2. ASSUME NEW r \in queue, r.delivery = e PROVE r \in Stored(To[e], e)
      BY <2>2 DEF DeliveryInv, RowsSound, Stored, Queued
    <2> QED BY <2>1, <2>2 DEF Kept
  <1> QED BY <1>1, InvariantHolds, PTL

\* No retry, orphan or repeated pass makes a device process a message twice.
THEOREM AppliedOnceHolds == Spec => []AppliedOnce
  <1>1. DeliveryInv => AppliedOnce
    BY DEF DeliveryInv, InboxSound
  <1> QED BY <1>1, InvariantHolds, PTL

\* No stored cursor ever passes a row its device still needs.
THEOREM NothingSkippedHolds == Spec => []NothingSkipped
  <1>1. DeliveryInv => NothingSkipped
    <2> SUFFICES ASSUME DeliveryInv, NEW r \in queue, r.seq <= cursor[r.mailbox]
                 PROVE  r.delivery \in inbox[r.mailbox] \/ r.expires <= now
      BY DEF NothingSkipped
    <2>1. r.mailbox \in Mailboxes /\ r \in Queued(r.mailbox)
      BY RowFields DEF DeliveryInv, TypeOK, QueueTypeOK, Queued
    <2> QED BY <2>1 DEF DeliveryInv, CursorSound, Dispensable
  <1> QED BY <1>1, InvariantHolds, PTL

\* A row leaves the relay only when its receiver has committed it or when it
\* has expired (I-05).
THEOREM CustodyHolds == Spec => CustodyUntilCommit
  <1>1. DeliveryInv /\ [Next]_vars => [CustodyStep]_vars
    <2> SUFFICES ASSUME DeliveryInv, [Next]_vars PROVE CustodyStep
      OBVIOUS
    <2> QED BY QueueStep DEF QueueKept, queueVars, QueueGrown, QueueShrunk,
                 Dispensable, CustodyStep
  <1> QED BY <1>1, InvariantHolds, PTL DEF Spec, CustodyUntilCommit

\* Delivery implements causal, at-most-once delivery: a send unit is the
\* abstract Commit, a receive unit the abstract Show, and every other step
\* stutters.
THEOREM Refinement == Spec => ImplementsCausalDelivery
  <1> DEFINE sentA == {k \in Contents : \E e \in Copies(k) : outbox[e] # "none"}
  <1>1. Init => Causal!Init
    BY DEF Init, ClientInit, Causal!Init, Copies
  <1>2. DeliveryInv /\ [Next]_vars
        => [Causal!Next]_<<sentA, applied>>
    <2> SUFFICES ASSUME DeliveryInv, [Next]_vars
                 PROVE  Causal!Next \/ UNCHANGED <<sentA, applied>>
      OBVIOUS
    <2>0. TypeOK /\ \A k \in Contents : Author[k] \in Mailboxes
      BY DEF DeliveryInv
    <2>1. \A d \in Mailboxes : Causal!Known(d) = Has(d)
      <3>1. \A e \in Envelopes : applied[e] > 0 <=> e \in inbox[To[e]]
        BY FromType DEF DeliveryInv, InboxSound, AppliedOnce
      <3>2. ASSUME NEW d \in Mailboxes, NEW k \in Contents
            PROVE  k \in Causal!Known(d) <=> k \in Has(d)
        BY <3>1 DEF Causal!Known, Has, Copies
      <3>3. \A d : Causal!Known(d) \subseteq Contents /\ Has(d) \subseteq Contents
        BY DEF Causal!Known, Has
      <3> QED BY <3>2, <3>3
    <2>2. ASSUME NEW k \in Contents, Send(k) PROVE Causal!Commit(k)
      <3>1. k \notin sentA /\ Copies(k) # {} /\ Requires[k] \subseteq Has(Author[k])
        BY <2>2 DEF Send
      <3>2. \A c \in Contents : c \in sentA' <=> c \in sentA \/ c = k
        BY <2>2, <3>1, SendNumbers DEF Copies
      <3>3. sentA' = sentA \union {k}
        BY <3>2
      <3>4. applied' = applied
        BY <2>2 DEF Send, receiveVars
      <3> QED BY <2>0, <2>1, <3>1, <3>3, <3>4 DEF Causal!Commit
    <2>3. ASSUME NEW d \in Mailboxes, ProcessNew(d)
          PROVE  \E e \in Envelopes : Causal!Show(e)
      <3>1. PICK i \in items[d] : /\ Processable(d, i.delivery)
                                  /\ record_incoming(d, i.delivery)
        BY <2>3 DEF ProcessNew
      <3> DEFINE e == i.delivery
      <3>2. e \in Envelopes /\ To[e] = d /\ outbox[e] # "none"
        BY RowFields DEF DeliveryInv, TypeOK, PageSound
      <3>3. Content[e] \in sentA
        BY <3>2 DEF Copies
      <3>4. applied[e] = 0 /\ applied' = [applied EXCEPT ![e] = 1]
        <4>1. applied[e] = 0
          BY <3>1, <3>2 DEF record_incoming, DeliveryInv, InboxSound, AppliedOnce
        <4>2. applied' = [applied EXCEPT ![e] = applied[e] + 1]
          BY <3>1 DEF record_incoming
        <4> QED BY <4>1, <4>2
      <3>5. sentA' = sentA
        BY <2>3 DEF ProcessNew, sendVars
      <3>6. Requires[Content[e]] \subseteq Causal!Known(To[e])
        BY <2>1, <3>1, <3>2 DEF Processable
      <3>7. Causal!Show(e)
        BY <3>3, <3>4, <3>5, <3>6 DEF Causal!Show
      <3> QED BY <3>2, <3>7
    <2>4. ASSUME UNCHANGED applied, ~ \E k \in Contents : Send(k)
          PROVE  UNCHANGED <<sentA, applied>>
      <3>1. ASSUME NEW d \in Tasks, PublishReply(d)
            PROVE  \A e \in Envelopes : outbox'[e] # "none" <=> outbox[e] # "none"
        BY <2>0, <3>1, CurrentOwn DEF PublishReply, mark_accepted,
              mark_undeliverable, sendVars, TypeOK, ClientTypeOK
      <3>2. \A e \in Envelopes : outbox'[e] # "none" <=> outbox[e] # "none"
        BY <2>4, <3>1, Frame
      <3>3. \A k \in Contents : k \in sentA' <=> k \in sentA
        BY <3>2 DEF Copies
      <3>4. sentA' = sentA
        BY <3>3
      <3> QED BY <2>4, <3>4
    <2> QED BY <2>2, <2>3, <2>4, Frame DEF Causal!Next
  <1> QED BY <1>1, <1>2, InvariantHolds, PTL
          DEF Spec, ImplementsCausalDelivery, Causal!Spec

-----------------------------------------------------------------------------
(* Order. *)

\* What is revoked stays so.
LEMMA RevokedGrows ==
    ASSUME [Next]_vars
    PROVE  revoked \subseteq revoked'
  <1>1. ASSUME NEW m \in Mailboxes, Revoke(m) PROVE revoked \subseteq revoked'
    BY <1>1 DEF Revoke, RevokeCapabilities
  <1>2. ASSUME NEW k \in Contents, Send(k) PROVE revoked' = revoked
    BY <1>2 DEF Send
  <1>3. ASSUME NEW w, StartPublish(w) \/ StartSync(w) PROVE revoked' = revoked
    BY <1>3 DEF StartPublish, StartSync
  <1>4. ASSUME NEW w, PublishStep(w) PROVE revoked' = revoked
    BY <1>4 DEF PublishStep, PublishPut, PublishReply, PublishDone
  <1>5. ASSUME NEW d, ReceiveStep(d) PROVE revoked' = revoked
    <2>1. CASE Fetch(d) \/ FetchForbidden(d)
      BY <2>1 DEF Fetch, FetchForbidden
    <2>2. CASE ProcessNew(d) \/ ProcessDuplicate(d) \/ ProcessDeferred(d)
               \/ ProcessDone(d)
      BY <2>2 DEF ProcessNew, ProcessDuplicate, ProcessDeferred, ProcessDone
    <2>3. CASE SendAck(d) \/ AckReply(d) \/ NothingToAck(d) \/ AdvanceCursor(d)
      BY <2>3 DEF SendAck, AckReply, NothingToAck, AdvanceCursor
    <2> QED BY <1>5, <2>1, <2>2, <2>3 DEF ReceiveStep
  <1>6. ASSUME RelayStep \/ Sweep \/ Tick \/ LoseOrphan PROVE revoked' = revoked
    BY <1>6 DEF RelayStep, RelayPut, RelayAck, Sweep, Tick, LoseOrphan
  <1>7. ASSUME NEW w, NEW kept, Interrupt(w, kept) PROVE revoked' = revoked
    BY <1>7 DEF Interrupt
  <1>8. CASE UNCHANGED vars
    BY <1>8 DEF vars
  <1> QED BY <1>1, <1>2, <1>3, <1>4, <1>5, <1>6, <1>7, <1>8 DEF Next

\* From an acknowledgement a task does not go on to publish at once.
LEMMA AckThenCursor ==
    ASSUME TypeOK, [Next]_vars, NEW w \in Tasks, pc[w] = "ack"
    PROVE  ~Publishing(w)'
  <1> SUFFICES pc'[w] \in {"ack", "cursor", "idle"}
    BY DEF Publishing
  <1> USE DEF TypeOK, passVars, Goto
  <1>1. ASSUME NEW k \in Contents, Send(k) PROVE pc' = pc
    BY <1>1 DEF Send
  <1>2. ASSUME NEW c, StartPublish(c) \/ StartSync(c) PROVE pc'[w] = "ack"
    BY <1>2 DEF StartPublish, StartSync
  <1>3. ASSUME NEW c, PublishStep(c) PROVE pc'[w] \in {"ack", "idle"}
    <2>1. CASE PublishPut(c)
      BY <2>1 DEF PublishPut
    <2>2. CASE PublishReply(c)
      BY <2>2 DEF PublishReply
    <2>3. CASE PublishDone(c)
      BY <2>3 DEF PublishDone, Publishing
    <2> QED BY <1>3, <2>1, <2>2, <2>3 DEF PublishStep
  <1>4. ASSUME NEW d, ReceiveStep(d) PROVE pc'[w] \in {"ack", "cursor", "idle"}
    <2>1. CASE Fetch(d) \/ FetchForbidden(d)
      BY <2>1 DEF Fetch, FetchForbidden
    <2>2. CASE ProcessNew(d) \/ ProcessDuplicate(d) \/ ProcessDeferred(d)
               \/ ProcessDone(d)
      BY <2>2 DEF ProcessNew, ProcessDuplicate, ProcessDeferred, ProcessDone, Consume
    <2>3. CASE SendAck(d) \/ AckReply(d) \/ NothingToAck(d) \/ AdvanceCursor(d)
      BY <2>3 DEF SendAck, AckReply, NothingToAck, AdvanceCursor
    <2> QED BY <1>4, <2>1, <2>2, <2>3 DEF ReceiveStep
  <1>5. ASSUME RelayStep \/ Sweep \/ Tick \/ LoseOrphan PROVE pc' = pc
    BY <1>5 DEF RelayStep, RelayPut, RelayAck, Sweep, Tick, LoseOrphan
  <1>6. ASSUME NEW m \in Mailboxes, Revoke(m) PROVE pc' = pc
    BY <1>6 DEF Revoke
  <1>7. ASSUME NEW c \in Tasks, NEW kept \in BOOLEAN, Interrupt(c, kept)
        PROVE  pc'[w] \in {"ack", "idle"}
    BY <1>7 DEF Interrupt
  <1>8. CASE UNCHANGED vars
    BY <1>8 DEF vars
  <1> QED BY <1>1, <1>2, <1>3, <1>4, <1>5, <1>6, <1>7, <1>8 DEF Next

\* While nothing expires, a row that may go has been received.
LEMMA GoneIsReceived ==
    ASSUME DeliveryInv, NothingExpired, NEW r \in queue, Dispensable(r)
    PROVE  r.delivery \in inbox[To[r.delivery]]
  <1>1. r.mailbox = To[r.delivery] /\ r.expires \in Int /\ now \in Nat
    BY RowFields DEF DeliveryInv, TypeOK, QueueTypeOK, RowsSound
  <1> QED BY <1>1 DEF Dispensable, NothingExpired

LEMMA HeldStable ==
    ASSUME DeliveryInv, NothingExpired, [Next]_vars, NEW e \in Envelopes, Held(e)
    PROVE  Held(e)'
  <1>1. To[e] \in Mailboxes /\ TypeOK
    BY FromType DEF DeliveryInv
  <1>2. CASE e \in inbox[To[e]]
    BY <1>1, <1>2, Monotone DEF Held
  <1>3. ASSUME NEW r \in queue, r.delivery = e, r \notin queue'
        PROVE  e \in inbox[To[e]]
    <2>1. Dispensable(r)
      BY <1>3, QueueStep DEF QueueKept, queueVars, QueueGrown, QueueShrunk
    <2> QED BY <1>3, <2>1, GoneIsReceived
  <1> QED BY <1>2, <1>3 DEF Held

LEMMA SettledStable ==
    ASSUME DeliveryInv, NothingExpired, [Next]_vars, NEW e \in Envelopes, Settled(e)
    PROVE  Settled(e)'
  BY HeldStable, RevokedGrows DEF Settled

\* Nothing is queued before what was already queued.
LEMMA AheadWas ==
    ASSUME DeliveryInv, [Next]_vars, NEW x \in Envelopes, NEW y \in Envelopes,
           Ahead(x, y)', outbox[y] # "none"
    PROVE  Ahead(x, y)
  <1>0. TypeOK /\ From(x) \in Mailboxes /\ From(y) \in Mailboxes
    BY FromType DEF DeliveryInv
  <1>1. From(x) = From(y) /\ To[x] = To[y] /\ rowId'[x] < rowId'[y]
    BY DEF Ahead, From
  <1>2. rowId'[y] = rowId[y] /\ rowId[y] < nextRow[From(y)]
    BY RowIdStays DEF DeliveryInv, OutboxSound
  <1>3. ASSUME outbox[x] = "none" PROVE FALSE
    <2>1. outbox'[x] # "none"
      BY DEF Ahead
    <2>2. ASSUME NEW w \in Tasks, PublishReply(w) PROVE FALSE
      BY <1>0, <1>3, <2>1, <2>2, CurrentOwn DEF PublishReply, mark_accepted,
            mark_undeliverable, sendVars, TypeOK, ClientTypeOK
    <2>3. PICK k \in Contents : Send(k)
      BY <1>3, <2>1, <2>2, Frame
    <2>4. Content[x] = k /\ nextRow[Author[k]] <= rowId'[x] /\ rowId'[x] \in Nat
      BY <1>3, <2>1, <2>3, SendNumbers
    <2>5. From(y) = Author[k] /\ nextRow[From(y)] \in Nat /\ rowId[y] \in Nat
      BY <1>0, <1>1, <2>4 DEF From, TypeOK, ClientTypeOK
    <2> QED BY <1>1, <1>2, <2>4, <2>5
  <1>4. rowId'[x] = rowId[x]
    BY <1>3, RowIdStays
  <1> QED BY <1>1, <1>2, <1>3, <1>4 DEF Ahead

\* The relay says "forbidden" to a put only of a revoked mailbox.
LEMMA ForbiddenIsRevoked ==
    ASSUME DeliveryInv, NEW r \in puts, RelayPut(r), r.live,
           answer'[r.task].kind = "forbidden"
    PROVE  To[r.env] \in revoked
  <1>1. answer \in [Tasks -> Answer] /\ r.task \in Tasks
    BY DEF DeliveryInv, TypeOK, PutRequest
  <1>2. CASE PutForbidden(To[r.env])
    BY <1>2 DEF PutForbidden, CheckCapability
  <1>3. ASSUME NEW x, Reply(r.task, r.live, [kind |-> "accepted", expires |-> x])
        PROVE  FALSE
    BY <1>1, <1>3 DEF Reply
  <1>4. ASSUME Reply(r.task, r.live, [kind |-> "refused", expires |-> 0])
        PROVE  FALSE
    BY <1>1, <1>4 DEF Reply
  <1> QED BY <1>2, <1>3, <1>4 DEF RelayPut

LEMMA ToldStep ==
    ASSUME DeliveryInv, OrderInv, NothingExpired, [Next]_vars
    PROVE  ToldSound'
  <1>0. TypeOK /\ \A d \in Tasks : Turn(d)
    BY DEF DeliveryInv, Turns
  <1>t. ToldSound
    BY DEF OrderInv
  <1>1. ASSUME NEW e \in Envelopes
        PROVE  /\ outbox'[e] = "accepted" => Held(e)'
               /\ outbox'[e] = "undeliverable" => To[e] \in revoked'
    <2>1. CASE outbox'[e] = outbox[e]
      BY <1>t, <2>1, HeldStable, RevokedGrows DEF ToldSound
    <2>2. ASSUME NEW k \in Contents, Send(k)
          PROVE  outbox'[e] = outbox[e] \/ outbox'[e] = "sealed"
      BY <2>2, SendNumbers
    <2>3. ASSUME NEW w \in Tasks, PublishReply(w), outbox'[e] # outbox[e]
          PROVE  /\ outbox'[e] = "accepted" => Held(e)
                 /\ outbox'[e] = "undeliverable" => To[e] \in revoked
      <3>1. PICK y \in Envelopes :
               /\ Current(w, y)
               /\ \/ /\ answer[w].kind = "accepted"
                     /\ mark_accepted(y, answer[w].expires)
                  \/ answer[w].kind = "forbidden" /\ mark_undeliverable(y)
                  \/ UNCHANGED sendVars
        BY <2>3 DEF PublishReply
      <3>2. y = e /\ Publishing(w)
        BY <1>0, <2>3, <3>1 DEF PublishReply, mark_accepted, mark_undeliverable,
              sendVars, TypeOK, ClientTypeOK
      <3>3. /\ outbox'[e] = "accepted" => answer[w].kind = "accepted"
            /\ outbox'[e] = "undeliverable" => answer[w].kind = "forbidden"
        BY <1>0, <2>3, <3>1, <3>2 DEF mark_accepted, mark_undeliverable,
              sendVars, TypeOK, ClientTypeOK
      <3> QED BY <1>t, <3>1, <3>2, <3>3 DEF ToldSound
    <2>4. ASSUME NEW w \in Tasks, PublishReply(w), outbox'[e] # outbox[e]
          PROVE  /\ outbox'[e] = "accepted" => Held(e)'
                 /\ outbox'[e] = "undeliverable" => To[e] \in revoked'
      BY <2>3, <2>4, HeldStable, RevokedGrows
    <2> QED BY <2>1, <2>2, <2>4, Frame
  <1>2. ASSUME NEW w \in Tasks, NEW e \in Envelopes, Current(w, e)',
               NEW kind \in {"accepted", "forbidden"}, answer'[w].kind = kind,
               kind = "forbidden" => Publishing(w)'
        PROVE  IF kind = "accepted" THEN Held(e)' ELSE To[e] \in revoked'
    <2>1. CASE answer'[w] = answer[w]
      <3>1. Publishing(w)
        <4>1. answer[w] # NoAnswer /\ (kind = "accepted" => Publishing(w))
          BY <1>0, <1>2, <2>1 DEF Turn, NoAnswer
        <4>2. Publishing(w) \/ pc[w] = "ack"
          BY <1>0, <4>1 DEF Turn
        <4> QED BY <1>0, <1>2, <4>1, <4>2, AckThenCursor
      <3>2. ~PublishReply(w) /\ \A kept \in BOOLEAN : ~Interrupt(w, kept)
        BY <1>0, <1>2, <2>1 DEF PublishReply, Interrupt, NoAnswer, TypeOK
      <3>3. ~TodoTaken(w)
        BY <3>1 DEF TodoTaken, Publishing
      <3>4. Current(w, e)
        BY <1>0, <1>2, <3>2, <3>3, TodoCases, CurrentStays DEF TodoCase
      <3>5. IF kind = "accepted" THEN Held(e) ELSE To[e] \in revoked
        BY <1>t, <1>2, <2>1, <3>1, <3>4 DEF ToldSound
      <3> QED BY <3>5, HeldStable, RevokedGrows
    <2>2. ASSUME NEW r \in puts, RelayPut(r), answer'[w] # answer[w]
          PROVE  IF kind = "accepted" THEN Held(e)' ELSE To[e] \in revoked'
      <3>1. r.live /\ r.task = w
        BY <1>0, <2>2 DEF RelayPut, Reply, TypeOK
      <3>2. todo' = todo
        BY <2>2 DEF RelayPut, passVars
      <3>3. Current(w, e) /\ Current(w, r.env)
        BY <1>2, <3>1, <3>2, CurrentStays DEF DeliveryInv, OutboxSound
      <3>4. e = r.env
        BY <3>3, CurrentUnique
      <3>5. CASE kind = "accepted"
        BY <1>2, <2>2, <3>1, <3>4, <3>5, AcceptedIsStored DEF Held
      <3>6. CASE kind = "forbidden"
        BY <1>2, <2>2, <3>1, <3>4, <3>6, ForbiddenIsRevoked, RevokedGrows
      <3> QED BY <3>5, <3>6
    <2>3. ASSUME NEW r \in acks, RelayAck(r) PROVE answer'[w] = answer[w]
      <3>1. \/ Reply(r.dev, r.live, [kind |-> "ack", expires |-> 0])
            \/ Reply(r.dev, r.live, [kind |-> "forbidden", expires |-> 0])
        BY <2>3 DEF RelayAck
      <3>2. ASSUME r.live /\ r.dev = w PROVE FALSE
        <4>1. pc[w] = "ack"
          BY <1>0, <3>2 DEF Turn
        <4>2. answer'[w].kind # "accepted"
          BY <1>0, <3>1, <3>2 DEF Reply, TypeOK
        <4> QED BY <1>0, <1>2, <4>1, <4>2, AckThenCursor
      <3> QED BY <1>0, <3>1, <3>2 DEF Reply, TypeOK
    <2>4. ASSUME NEW c, NEW kept \in BOOLEAN,
                 PublishReply(c) \/ AckReply(c) \/ Interrupt(c, kept)
          PROVE  answer'[w] = answer[w]
      <3>1. answer' = [answer EXCEPT ![c] = NoAnswer]
        BY <2>4 DEF PublishReply, AckReply, Interrupt
      <3> QED BY <1>0, <1>2, <3>1 DEF NoAnswer, TypeOK
    <2> QED BY <2>1, <2>2, <2>3, <2>4, Frame
  <1> QED BY <1>1, <1>2 DEF ToldSound

LEMMA SentStep ==
    ASSUME DeliveryInv, OrderInv, NothingExpired, [Next]_vars
    PROVE  SentInOrder'
  <1>0. TypeOK
    BY DEF DeliveryInv
  <1>s. ToldSound /\ SentInOrder
    BY DEF OrderInv
  <1> SUFFICES ASSUME NEW x \in Envelopes, NEW y \in Envelopes, Ahead(x, y)'
               PROVE  /\ \A w \in Tasks : y \in todo'[w] => x \in todo'[w] \/ Settled(x)'
                      /\ \A r \in puts' : r.env = y => Settled(x)'
    BY DEF SentInOrder
  <1>1. ASSUME NEW w \in Tasks, y \in todo'[w], x \notin todo'[w] PROVE Settled(x)'
    <2>1. ASSUME y \in todo[w] PROVE x \in todo[w] \/ Settled(x)
      <3>1. outbox[y] # "none"
        BY <2>1 DEF DeliveryInv, OutboxSound
      <3> QED BY <1>s, <2>1, <3>1, AheadWas DEF SentInOrder
    <2>2. CASE todo'[w] = todo[w]
      BY <1>1, <2>1, <2>2, SettledStable
    <2>3. CASE PublishReply(w) /\ todo'[w] \subseteq todo[w]
      <3>1. PICK e \in Envelopes :
               /\ Current(w, e)
               /\ answer[w].kind \in {"accepted", "forbidden"}
               /\ todo' = [todo EXCEPT ![w] = @ \ {e}]
        BY <1>0, <1>1, <2>3 DEF PublishReply, TypeOK
      <3>2. x \in todo[w] => x = e
        BY <1>0, <1>1, <3>1 DEF TypeOK
      <3>3. Settled(e)
        BY <1>s, <2>3, <3>1 DEF ToldSound, PublishReply, Settled
      <3> QED BY <1>1, <2>1, <2>3, <3>2, <3>3, SettledStable
    <2>4. CASE TodoTaken(w)
      <3>1. y \in pending(Device(w)) /\ UNCHANGED outbox
        BY <1>1, <2>4 DEF TodoTaken
      <3>2. Ahead(x, y)
        BY <3>1, AheadWas DEF pending
      <3>3. outbox[x] \in {"accepted", "undeliverable"}
        BY <1>0, <1>1, <2>4, <3>1, <3>2 DEF TodoTaken, pending, Ahead, TypeOK,
              ClientTypeOK
      <3>4. Settled(x)
        BY <1>s, <3>3 DEF ToldSound, Settled
      <3> QED BY <3>4, SettledStable
    <2> QED BY <1>0, <1>1, <2>2, <2>3, <2>4, TodoCases DEF TodoCase
  <1>2. ASSUME NEW r \in puts', r.env = y PROVE Settled(x)'
    <2>1. ASSUME NEW q \in puts, q.env = y PROVE Settled(x)
      <3>1. outbox[y] # "none"
        BY <2>1 DEF DeliveryInv, Turns
      <3> QED BY <1>s, <2>1, <3>1, AheadWas DEF SentInOrder
    <2>2. ASSUME NEW w \in Tasks, Current(w, y) PROVE Settled(x)
      <3>1. outbox[y] # "none" /\ y \in todo[w]
        BY <2>2, CurrentOwn DEF Current
      <3>2. Ahead(x, y)
        BY <3>1, AheadWas
      <3>3. x \notin todo[w]
        <4>1. rowId[x] \in Nat /\ rowId[y] \in Nat /\ rowId[x] < rowId[y]
          BY <1>0, <3>2 DEF Ahead, TypeOK, ClientTypeOK
        <4>2. x \in todo[w] => rowId[y] <= rowId[x]
          BY <2>2 DEF Current
        <4> QED BY <4>1, <4>2
      <3> QED BY <1>s, <3>1, <3>2, <3>3 DEF SentInOrder
    <2> QED BY <1>0, <1>2, <2>1, <2>2, NetFrame, SettledStable
  <1> QED BY <1>1, <1>2

LEMMA QueuedStep ==
    ASSUME DeliveryInv, OrderInv, NothingExpired, [Next]_vars
    PROVE  QueuedInOrder'
  <1>0. TypeOK
    BY DEF DeliveryInv
  <1>s. SentInOrder /\ QueuedInOrder
    BY DEF OrderInv
  <1> SUFFICES ASSUME NEW x \in Envelopes, NEW y \in Envelopes, Ahead(x, y)',
                      NEW r \in queue', r.delivery = y, x \notin inbox'[To[x]]
               PROVE  \E q \in queue' : q.delivery = x /\ q.seq < r.seq
    BY DEF QueuedInOrder
  <1>1. To[x] \in Mailboxes /\ To[x] = To[y] /\ x \notin inbox[To[x]]
    BY <1>0, FromType, Monotone DEF Ahead
  <1>2. ASSUME r \in queue PROVE \E q \in queue : q.delivery = x /\ q.seq < r.seq
    <2>1. outbox[y] # "none"
      BY <1>2 DEF DeliveryInv, RowsSound
    <2> QED BY <1>s, <1>1, <1>2, <2>1, AheadWas DEF QueuedInOrder
  <1>3. CASE QueueKept
    BY <1>2, <1>3 DEF QueueKept, queueVars
  <1>4. ASSUME NEW p \in puts, NEW row \in Row, QueueGrown(p, row), r \notin queue
        PROVE  \E q \in queue' : q.delivery = x /\ q.seq < r.seq
    <2>1. r = row /\ p.env = y /\ r.seq = nextSeq[To[x]] /\ To[x] \notin revoked
      BY <1>1, <1>4 DEF QueueGrown
    <2>2. outbox[y] # "none"
      BY <2>1 DEF DeliveryInv, Turns
    <2>3. Settled(x)
      BY <1>s, <2>1, <2>2, AheadWas DEF SentInOrder
    <2>4. PICK q \in queue : q.delivery = x
      BY <1>1, <2>1, <2>3 DEF Settled, Held
    <2>5. q.seq < nextSeq[To[x]]
      BY <2>4 DEF DeliveryInv, RowsSound
    <2> QED BY <1>4, <2>1, <2>4, <2>5 DEF QueueGrown
  <1>5. ASSUME NEW p \in puts, NEW row \in Row, QueueGrown(p, row), r \in queue
        PROVE  \E q \in queue' : q.delivery = x /\ q.seq < r.seq
    BY <1>2, <1>5 DEF QueueGrown
  <1>6. CASE QueueShrunk
    <2>1. PICK q \in queue : q.delivery = x /\ q.seq < r.seq
      BY <1>2, <1>6 DEF QueueShrunk
    <2>2. ~Dispensable(q)
      BY <1>1, <2>1, GoneIsReceived
    <2> QED BY <1>6, <2>1, <2>2 DEF QueueShrunk
  <1> QED BY <1>3, <1>4, <1>5, <1>6, QueueStep

LEMMA PageOrderStep ==
    ASSUME DeliveryInv, OrderInv, NothingExpired, [Next]_vars
    PROVE  PageInOrder'
  <1>0. TypeOK
    BY DEF DeliveryInv
  <1>s. QueuedInOrder /\ PageInOrder
    BY DEF OrderInv
  <1> SUFFICES ASSUME NEW x \in Envelopes, NEW y \in Envelopes, Ahead(x, y)',
                      NEW i \in items'[To[y]], i.delivery = y,
                      x \notin inbox'[To[x]]
               PROVE  \E j \in items'[To[y]] : j.delivery = x /\ j.seq < i.seq
    BY DEF PageInOrder
  <1> DEFINE d == To[y]
  <1>1. d \in Mailboxes /\ To[x] = d /\ x \notin inbox[d]
    BY <1>0, FromType, Monotone DEF Ahead
  <1>2. ASSUME i \in items[d]
        PROVE  \E j \in items[d] : j.delivery = x /\ j.seq < i.seq
    <2>1. outbox[y] # "none"
      BY <1>1, <1>2 DEF DeliveryInv, PageSound
    <2> QED BY <1>s, <1>1, <1>2, <2>1, AheadWas DEF PageInOrder
  <1>3. CASE PageDropped(d)
    BY <1>3 DEF PageDropped
  <1>4. CASE PageHeld(d)
    BY <1>2, <1>4 DEF PageHeld
  <1>5. ASSUME NEW r \in items[d], PageConsumed(d, r)
        PROVE  \E j \in items'[d] : j.delivery = x /\ j.seq < i.seq
    <2>1. items'[d] = items[d] \ {r} /\ r.delivery \in inbox'[d]
      BY <1>5 DEF PageConsumed
    <2>2. r.delivery # x
      BY <1>1, <2>1
    <2> QED BY <1>2, <2>1, <2>2
  <1>6. CASE Fetch(d)
    <2>1. /\ items'[d] = FetchEnvelopes(d, cursor[d], FetchLimit)
          /\ cursor[d] \in Nat
      BY <1>0, <1>1, <1>6 DEF Fetch, TypeOK, ClientTypeOK
    <2>2. i \in queue /\ outbox[y] # "none"
      BY <2>1 DEF FetchEnvelopes, Live, Queued, DeliveryInv, RowsSound
    <2>3. PICK q \in queue : q.delivery = x /\ q.seq < i.seq
      BY <1>s, <1>1, <2>2, AheadWas DEF QueuedInOrder
    <2>4. q \in Row /\ q \in Queued(d) /\ q \in Live(d)
      BY <1>0, <1>1, <2>3 DEF DeliveryInv, TypeOK, QueueTypeOK, RowsSound,
            NothingExpired, Queued, Live
    <2>5. cursor[d] < q.seq
      <3>1. ~Dispensable(q)
        BY <1>1, <2>3, GoneIsReceived
      <3>2. ~(q.seq <= cursor[d])
        BY <1>1, <2>4, <3>1 DEF DeliveryInv, CursorSound
      <3> QED BY <2>1, <2>4, <3>2, RowFields
    <2>6. q \in items'[d]
      BY <1>0, <1>1, <2>1, <2>3, <2>4, <2>5, FetchNoHoles DEF DeliveryInv
    <2> QED BY <2>3, <2>6
  <1> QED BY <1>1, <1>3, <1>4, <1>5, <1>6, PageCases DEF PageCase

LEMMA ReceivedStep ==
    ASSUME DeliveryInv, OrderInv, NothingExpired, [Next]_vars
    PROVE  ReceivedInOrder'
  <1>0. TypeOK
    BY DEF DeliveryInv
  <1>s. PageInOrder /\ ReceivedInOrder
    BY DEF OrderInv
  <1> SUFFICES ASSUME NEW x \in Envelopes, NEW y \in Envelopes, Ahead(x, y)',
                      y \in inbox'[To[y]]
               PROVE  x \in inbox'[To[x]]
    BY DEF ReceivedInOrder
  <1>1. /\ To[x] \in Mailboxes /\ To[y] \in Mailboxes
        /\ x \in inbox[To[x]] => x \in inbox'[To[x]]
    BY <1>0, FromType, Monotone
  <1>2. CASE y \in inbox[To[y]]
    <2>1. outbox[y] # "none"
      BY <1>2 DEF DeliveryInv, InboxSound
    <2> QED BY <1>s, <1>1, <1>2, <2>1, AheadWas DEF ReceivedInOrder
  <1>3. ASSUME NEW d \in Mailboxes, ProcessNew(d), y \notin inbox[To[y]]
        PROVE  x \in inbox[To[x]]
    <2>1. PICK i \in items[d] : NextItem(d, i) /\ record_incoming(d, i.delivery)
      BY <1>3 DEF ProcessNew
    <2>2. i.delivery = y /\ To[y] = d
      BY <1>0, <1>1, <1>3, <2>1 DEF record_incoming, DeliveryInv, PageSound, TypeOK,
            ClientTypeOK
    <2>3. outbox[y] # "none"
      BY <2>2 DEF DeliveryInv, PageSound
    <2>4. ASSUME NEW j \in items[d] PROVE ~(j.seq < i.seq)
      <3>1. i.seq <= j.seq /\ i.seq \in Nat /\ j.seq \in Nat
        BY <1>0, <2>1, <2>4, RowFields DEF NextItem, TypeOK
      <3> QED BY <3>1
    <2> QED BY <1>s, <2>2, <2>3, <2>4, AheadWas DEF PageInOrder
  <1> QED BY <1>1, <1>2, <1>3, Frame

LEMMA OrderInit == Init => OrderInv
  <1> SUFFICES ASSUME Init PROVE OrderInv
    OBVIOUS
  <1>1. \A x, y \in Envelopes : ~Ahead(x, y)
    BY DEF Init, ClientInit, Ahead
  <1>2. ToldSound
    BY DEF Init, ClientInit, ToldSound, NoAnswer
  <1> QED BY <1>1, <1>2 DEF OrderInv, SentInOrder, QueuedInOrder, PageInOrder,
             ReceivedInOrder

LEMMA OrderStep ==
    DeliveryInv /\ OrderInv /\ NothingExpired /\ [Next]_vars => OrderInv'
  BY ToldStep, SentStep, QueuedStep, PageOrderStep, ReceivedStep DEF OrderInv

LEMMA OrderImplies == DeliveryInv /\ OrderInv => InOrder
  BY DEF DeliveryInv, InboxSound, OrderInv, ReceivedInOrder, Ahead, InOrder

\* As long as no row of the relay's queue is past its expiry, each device
\* processes the envelopes of another in the order they were queued, however
\* many commands publish the same outbox from snapshots of their own, and
\* whatever is retried, orphaned, revoked or interrupted.
THEOREM InOrderUntilExpiry == Spec /\ []NothingExpired => []InOrder
  <1> QED BY OrderInit, OrderStep, OrderImplies, InvariantHolds, PTL DEF Spec

\* With a standing clock nothing expires: a new row outlives the moment it is
\* accepted, whatever life was asked for.
LEMMA StandingStep ==
    ASSUME MaxTime = 0, DeliveryInv, now = 0, NothingExpired, [Next]_vars
    PROVE  now' = 0 /\ NothingExpired'
  <1>1. now' = 0
    BY Frame DEF Tick
  <1>2. ASSUME NEW r \in puts, NEW row \in Row, QueueGrown(r, row)
        PROVE  row.expires > 0
    <2>1. r.requested \in Nat
      BY DEF DeliveryInv, TypeOK, PutRequest
    <2> DEFINE c == clipped(r.requested, DefaultEnvelopeTTL, now)
    <2>2. c \in Int /\ c > 0
      BY <2>1 DEF clipped
    <2>3. coarseExpiry(c, now) \in Int /\ 2 * (coarseExpiry(c, now) - now) > c - now
      BY <2>2, CoarseExpirySound
    <2>4. row.expires = coarseExpiry(c, now)
      BY <1>2 DEF QueueGrown, effectiveExpiry
    <2> HIDE DEF c
    <2> QED BY <2>2, <2>3, <2>4
  <1> QED BY <1>1, <1>2, QueueStep DEF NothingExpired, QueueKept, queueVars,
             QueueGrown, QueueShrunk

\* The same for a clock that stands still, with no other hypothesis.
THEOREM InOrderHolds == ASSUME MaxTime = 0 PROVE Spec => []InOrder
  <1> DEFINE Standing == now = 0 /\ NothingExpired
  <1>1. Init => Standing
    BY DEF Init, QueueInit, NothingExpired
  <1>2. DeliveryInv /\ Standing /\ [Next]_vars => Standing'
    BY StandingStep
  <1>3. Standing => NothingExpired
    OBVIOUS
  <1> HIDE DEF Standing
  <1>4. Spec => []NothingExpired
    BY <1>1, <1>2, <1>3, InvariantHolds, PTL DEF Spec
  <1> QED BY <1>4, InOrderUntilExpiry, PTL
=============================================================================
