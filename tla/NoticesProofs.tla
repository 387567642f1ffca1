--------------------------- MODULE NoticesProofs ---------------------------
(***************************************************************************)
(* The hub stays sound, and a session that lost its entitlement hears at   *)
(* most one more notice, for any devices, connections, keys and schedules. *)
(***************************************************************************)
EXTENDS Notices, TLAPS

\* A session that was opened has an owner, and a key that was issued.
SessionsSound ==
    \A s \in Sessions :
        phase[s] # "closed" =>
            owner[s] \in Mailboxes /\ key[s] \in issued \union {Member}

\* Nothing refers to a subscription before it exists.
YetToSubscribe(s) == phase[s] \in {"closed", "open", "entitled"}

FreshSound ==
    /\ \A s \in done : ~YetToSubscribe(s)
    /\ \A w \in listed : ~YetToSubscribe(w[2])

\* Keys are registered once, so a device's watch key is an issued one.
KeysSound == \A d \in Mailboxes : watchKey[d] \in issued \union {None}

\* A late notice was the last: the session is not entitled any more and is
\* not about to be told again.
LateSound ==
    \A s \in Sessions :
        /\ late[s] <= 1
        /\ late[s] = 1 => /\ phase[s] \notin {"closed", "telling"}
                          /\ ~stillEntitled(s)

\* The inductive invariant of the watch hub: connections, hub entries, done
\* channels, keys and late notices agree in every order of handlers.
NoticesInv ==
    /\ NoticesTypeOK
    /\ HubSound
    /\ FreshSound
    /\ SessionsSound
    /\ KeysSound
    /\ LateSound
-----------------------------------------------------------------------------
\* A clipped and rounded expiry is a time, whatever was asked for.
LEMMA EffectiveType ==
    ASSUME NEW t \in Nat, NEW ttl \in Nat, NEW requested \in Int
    PROVE  coarseExpiry(clipped(requested, ttl, t), t) \in Int
  <1>1. clipped(requested, ttl, t) \in Int
    BY DEF clipped
  <1>2. \A x \in Int, u \in {Day, Hour, Minute} : x - (x % u) \in Int
    BY ExpiryAssumption
  <1> QED BY <1>1, <1>2 DEF coarseExpiry

USE NoticesAssumption, QueueAssumption

LEMMA EnvelopeRow ==
    ASSUME NoticesTypeOK, NEW d \in Mailboxes, NEW e \in Envelopes
    PROVE  [mailbox |-> d, delivery |-> e, body |-> e, seq |-> nextSeq[d],
            expires |-> effectiveExpiry(0)] \in Row
  <1>1. effectiveExpiry(0) \in Int
    BY EffectiveType DEF effectiveExpiry, NoticesTypeOK, QueueTypeOK
  <1> QED BY <1>1 DEF Row, NoticesTypeOK, QueueTypeOK

\* Type correctness is kept by every step.  Subscribe needs to know that a
\* session that gets that far has an owner.
LEMMA TypeStep ==
    ASSUME NoticesTypeOK, SessionsSound, [Next]_vars
    PROVE  NoticesTypeOK'
  <1> USE DEF NoticesTypeOK, QueueTypeOK, queueVars, sessionVars, hubVars,
              tailVars, clientVars, keyVars
  <1>1. ASSUME NEW s \in Sessions, NEW d \in Mailboxes,
               NEW k \in Keys \union {Member}, Open(s, d, k)
        PROVE  NoticesTypeOK'
    <2>1. phase' = [phase EXCEPT ![s] = "open"] /\ owner' = [owner EXCEPT ![s] = d]
          /\ key' = [key EXCEPT ![s] = k]
      BY <1>1 DEF Open
    <2> QED BY <1>1, <2>1 DEF Open, Phases
  <1>2. ASSUME NEW s \in Sessions, CheckEntitled(s) PROVE NoticesTypeOK'
    BY <1>2 DEF CheckEntitled, Phases
  <1>3. ASSUME NEW s \in Sessions, Subscribe(s) PROVE NoticesTypeOK'
    <2>1. owner[s] \in Mailboxes
      BY <1>3 DEF Subscribe, SessionsSound
    <2> QED BY <1>3, <2>1 DEF Subscribe, subscribe, Phases
  <1>4. ASSUME NEW s \in Sessions, DeliverStart(s) PROVE NoticesTypeOK'
    BY <1>4 DEF DeliverStart, Phases
  <1>5. ASSUME NEW s \in Sessions, DeliverDone(s) PROVE NoticesTypeOK'
    BY <1>5 DEF DeliverDone, AfterWatch, Phases
  <1>6. ASSUME NEW s \in Sessions, DeliverWake(s) PROVE NoticesTypeOK'
    BY <1>6 DEF DeliverWake, AfterWatch, unsubscribe, Phases
  <1>7. ASSUME NEW s \in Sessions, DeliverWrite(s) PROVE NoticesTypeOK'
    BY <1>7 DEF DeliverWrite, Phases
  <1>8. ASSUME NEW s \in Sessions, Disconnect(s) PROVE NoticesTypeOK'
    BY <1>8 DEF Disconnect, unsubscribe, Phases
  <1>9. ASSUME NEW d \in Mailboxes, NEW e \in Envelopes, Put(d, e)
        PROVE  NoticesTypeOK'
    BY <1>9, EnvelopeRow DEF Put, PutStored
  <1>10. ASSUME NEW w \in wakes, PutWakes(w) PROVE NoticesTypeOK'
    BY <1>10 DEF PutWakes, wakeDevice
  <1>11. ASSUME NEW d \in Mailboxes, NEW k \in Keys \union {None}, SetWatchKey(d, k)
         PROVE  NoticesTypeOK'
    BY <1>11 DEF SetWatchKey
  <1>12. ASSUME NEW w \in stales, DropStale(w) PROVE NoticesTypeOK'
    BY <1>12 DEF DropStale, dropStaleWatch
  <1>13. ASSUME NEW d \in Mailboxes, Revoke(d) PROVE NoticesTypeOK'
    BY <1>13 DEF Revoke, RevokeCapabilities
  <1>14. ASSUME NEW d \in Mailboxes, ListWatchers(d) PROVE NoticesTypeOK'
    BY <1>14 DEF ListWatchers
  <1>15. ASSUME NEW w \in listed, RecheckWatcher(w) PROVE NoticesTypeOK'
    BY <1>15 DEF RecheckWatcher, unsubscribe
  <1>16. ASSUME NEW d \in Mailboxes, Fetch(d) PROVE NoticesTypeOK'
    <2>1. \A r \in FetchEnvelopes(d, 0, FetchLimit) : r \in Row
      BY DEF FetchEnvelopes, Live, Queued
    <2>2. \A r \in Row : r.delivery \in Envelopes
      BY DEF Row
    <2>3. {r.delivery : r \in FetchEnvelopes(d, 0, FetchLimit)} \subseteq Envelopes
      BY <2>1, <2>2
    <2> HIDE DEF FetchEnvelopes
    <2> QED BY <1>16, <2>3 DEF Fetch
  <1>17. ASSUME NEW d \in Mailboxes, Ack(d) PROVE NoticesTypeOK'
    BY <1>17 DEF Ack, AckEnvelopes
  <1>18. ASSUME UNCHANGED vars PROVE NoticesTypeOK'
    BY <1>18 DEF vars
  <1> QED
    BY <1>1, <1>2, <1>3, <1>4, <1>5, <1>6, <1>7, <1>8, <1>9, <1>10, <1>11,
       <1>12, <1>13, <1>14, <1>15, <1>16, <1>17, <1>18
    DEF Next, SessionStep, TailStep

-----------------------------------------------------------------------------
\* Who owns a session and which keys exist.
LEMMA SessionsStep ==
    ASSUME NoticesTypeOK, SessionsSound, KeysSound, [Next]_vars
    PROVE  SessionsSound' /\ KeysSound'
  <1> USE DEF NoticesTypeOK, SessionsSound, KeysSound, queueVars, sessionVars,
              hubVars, tailVars, clientVars, keyVars
  <1>1. ASSUME NEW s \in Sessions, NEW d \in Mailboxes,
               NEW k \in Keys \union {Member}, Open(s, d, k)
        PROVE  SessionsSound' /\ KeysSound'
    <2>1. k \in issued \union {Member}
      BY <1>1 DEF Open, Entitles
    <2> QED BY <1>1, <2>1 DEF Open
  <1>2. ASSUME NEW s \in Sessions, SessionStep(s) \/ Disconnect(s)
        PROVE  SessionsSound' /\ KeysSound'
    <2>1. UNCHANGED <<owner, key, watchKey, issued>>
      BY <1>2 DEF SessionStep, CheckEntitled, Subscribe, DeliverStart,
         DeliverDone, DeliverWake, DeliverWrite, Disconnect
    <2>2. phase[s] # "closed"
      BY <1>2 DEF SessionStep, CheckEntitled, Subscribe, DeliverStart,
         DeliverDone, DeliverWake, DeliverWrite, Disconnect
    <2>3. \A x \in Sessions : x # s => phase'[x] = phase[x]
      BY <1>2 DEF SessionStep, CheckEntitled, Subscribe, DeliverStart,
         DeliverDone, DeliverWake, DeliverWrite, Disconnect
    <2> QED BY <2>1, <2>2, <2>3
  <1>3. ASSUME NEW d \in Mailboxes, NEW k \in Keys \union {None},
               SetWatchKey(d, k)
        PROVE  SessionsSound' /\ KeysSound'
    BY <1>3 DEF SetWatchKey
  <1>4. ASSUME NEW d \in Mailboxes, Revoke(d)
        PROVE  SessionsSound' /\ KeysSound'
    BY <1>4 DEF Revoke
  <1>5. CASE UNCHANGED <<sessionVars, keyVars>>
    BY <1>5
  <1>6. \/ \E d \in Mailboxes : Fetch(d) \/ Ack(d)
        \/ \E d \in Mailboxes, e \in Envelopes : Put(d, e)
        \/ TailStep \/ UNCHANGED vars
        => UNCHANGED <<sessionVars, keyVars>>
    BY DEF Fetch, Ack, Put, TailStep, PutWakes, DropStale, ListWatchers,
           RecheckWatcher, vars
  <1> QED BY <1>1, <1>2, <1>3, <1>4, <1>5, <1>6 DEF Next

\* The hub and the running subscriptions agree after every step.
LEMMA HubStep ==
    ASSUME NoticesTypeOK, SessionsSound, FreshSound, HubSound, [Next]_vars
    PROVE  HubSound'
  <1> USE DEF NoticesTypeOK, SessionsSound, HubSound, Subscribed, queueVars,
              sessionVars, hubVars, tailVars, clientVars, keyVars
  <1>1. ASSUME NEW s \in Sessions, NEW d \in Mailboxes,
               NEW k \in Keys \union {Member}, Open(s, d, k)
        PROVE  HubSound'
    BY <1>1 DEF Open
  <1>2. ASSUME NEW s \in Sessions, CheckEntitled(s) PROVE HubSound'
    BY <1>2 DEF CheckEntitled
  <1>3. ASSUME NEW s \in Sessions, Subscribe(s) PROVE HubSound'
    <2>1. owner[s] \in Mailboxes /\ s \notin done
      BY <1>3 DEF Subscribe, FreshSound, YetToSubscribe
    <2> QED BY <1>3, <2>1 DEF Subscribe, subscribe
  <1>4. ASSUME NEW s \in Sessions, DeliverStart(s) PROVE HubSound'
    BY <1>4 DEF DeliverStart
  <1>5. ASSUME NEW s \in Sessions, DeliverDone(s) PROVE HubSound'
    BY <1>5 DEF DeliverDone, AfterWatch
  <1>6. ASSUME NEW s \in Sessions, DeliverWake(s) PROVE HubSound'
    BY <1>6 DEF DeliverWake, AfterWatch, unsubscribe
  <1>7. ASSUME NEW s \in Sessions, DeliverWrite(s) PROVE HubSound'
    BY <1>7 DEF DeliverWrite
  <1>8. ASSUME NEW s \in Sessions, Disconnect(s) PROVE HubSound'
    BY <1>8 DEF Disconnect, unsubscribe
  <1>9. ASSUME NEW w \in stales, DropStale(w) PROVE HubSound'
    BY <1>9 DEF DropStale, dropStaleWatch
  <1>10. ASSUME NEW w \in listed, RecheckWatcher(w) PROVE HubSound'
    BY <1>10 DEF RecheckWatcher, unsubscribe
  <1>11. CASE UNCHANGED <<phase, owner, hub, done>>
    BY <1>11
  <1>12. \/ \E d \in Mailboxes : Revoke(d) \/ Fetch(d) \/ Ack(d) \/ ListWatchers(d)
         \/ \E d \in Mailboxes, e \in Envelopes : Put(d, e)
         \/ \E d \in Mailboxes, k \in Keys \union {None} : SetWatchKey(d, k)
         \/ \E w \in wakes : PutWakes(w)
         \/ UNCHANGED vars
         => UNCHANGED <<phase, owner, hub, done>>
    BY DEF Revoke, Fetch, Ack, Put, PutWakes, ListWatchers, SetWatchKey, vars
  <1> QED
    BY <1>1, <1>2, <1>3, <1>4, <1>5, <1>6, <1>7, <1>8, <1>9, <1>10, <1>11, <1>12
    DEF Next, SessionStep, TailStep

\* A session never goes back to before its subscription, and only sessions
\* that have one are cancelled or listed.
LEMMA FreshStep ==
    ASSUME NoticesTypeOK, SessionsSound, FreshSound, HubSound, [Next]_vars
    PROVE  FreshSound'
  <1> USE DEF NoticesTypeOK, SessionsSound, FreshSound, HubSound, Subscribed,
              YetToSubscribe, queueVars, sessionVars, hubVars, tailVars,
              clientVars, keyVars
  <1>1. ASSUME NEW s \in Sessions, NEW d \in Mailboxes,
               NEW k \in Keys \union {Member}, Open(s, d, k)
        PROVE  FreshSound'
    BY <1>1 DEF Open
  <1>2. ASSUME NEW s \in Sessions, CheckEntitled(s) PROVE FreshSound'
    BY <1>2 DEF CheckEntitled
  <1>3. ASSUME NEW s \in Sessions, Subscribe(s) PROVE FreshSound'
    <2>1. owner[s] \in Mailboxes
      BY <1>3 DEF Subscribe
    <2>2. hub[owner[s]] # None => ~YetToSubscribe(hub[owner[s]])
      BY <2>1
    <2> QED BY <1>3, <2>1, <2>2 DEF Subscribe, subscribe
  <1>4. ASSUME NEW s \in Sessions, DeliverStart(s) \/ DeliverDone(s) \/ DeliverWrite(s)
        PROVE  FreshSound'
    BY <1>4 DEF DeliverStart, DeliverDone, DeliverWrite, AfterWatch
  <1>5. ASSUME NEW s \in Sessions, DeliverWake(s) PROVE FreshSound'
    BY <1>5 DEF DeliverWake, AfterWatch, unsubscribe
  <1>6. ASSUME NEW s \in Sessions, Disconnect(s) PROVE FreshSound'
    BY <1>6 DEF Disconnect, unsubscribe
  <1>7. ASSUME NEW w \in stales, DropStale(w) PROVE FreshSound'
    BY <1>7 DEF DropStale, dropStaleWatch
  <1>8. ASSUME NEW d \in Mailboxes, ListWatchers(d) PROVE FreshSound'
    <2>1. \A x \in Mailboxes : hub[x] # None => ~YetToSubscribe(hub[x])
      OBVIOUS
    <2>2. \A w \in listed' : w \in listed \/ \E x \in Mailboxes :
             hub[x] # None /\ w = <<d, hub[x]>>
      BY <1>8 DEF ListWatchers
    <2> QED BY <1>8, <2>1, <2>2 DEF ListWatchers
  <1>9. ASSUME NEW w \in listed, RecheckWatcher(w) PROVE FreshSound'
    BY <1>9 DEF RecheckWatcher, unsubscribe
  <1>10. CASE UNCHANGED <<phase, done, listed>>
    BY <1>10
  <1>11. \/ \E d \in Mailboxes : Revoke(d) \/ Fetch(d) \/ Ack(d)
         \/ \E d \in Mailboxes, e \in Envelopes : Put(d, e)
         \/ \E d \in Mailboxes, k \in Keys \union {None} : SetWatchKey(d, k)
         \/ \E w \in wakes : PutWakes(w)
         \/ UNCHANGED vars
         => UNCHANGED <<phase, done, listed>>
    BY DEF Revoke, RevokeCapabilities, Fetch, Ack, Put, PutWakes, SetWatchKey, vars
  <1> QED
    BY <1>1, <1>2, <1>3, <1>4, <1>5, <1>6, <1>7, <1>8, <1>9, <1>10, <1>11
    DEF Next, SessionStep, TailStep

\* An entitlement that is lost does not come back: a revoked device stays
\* revoked, and a key that was replaced is never registered again.
LEMMA NotEntitledAgain ==
    ASSUME NoticesTypeOK, SessionsSound, KeysSound, [Next]_vars,
           NEW s \in Sessions, phase[s] # "closed", ~stillEntitled(s)
    PROVE  ~stillEntitled(s)'
  <1> USE DEF NoticesTypeOK, SessionsSound, KeysSound, queueVars, sessionVars,
              hubVars, tailVars, clientVars, keyVars
  <1>1. key'[s] = key[s] /\ owner'[s] = owner[s]
    BY DEF Next, Open, SessionStep, CheckEntitled, Subscribe, DeliverStart,
       DeliverDone, DeliverWake, DeliverWrite, Disconnect, Put, SetWatchKey,
       Revoke, Fetch, Ack, TailStep, PutWakes, DropStale, ListWatchers,
       RecheckWatcher, vars
  <1>2. revoked \subseteq revoked'
    BY DEF Next, Open, SessionStep, CheckEntitled, Subscribe, DeliverStart,
       DeliverDone, DeliverWake, DeliverWrite, Disconnect, Put, SetWatchKey,
       Revoke, RevokeCapabilities, Fetch, Ack, TailStep, PutWakes, DropStale,
       ListWatchers, RecheckWatcher, vars
  <1>3. \A d \in Mailboxes : watchKey'[d] \in {watchKey[d], None} \union (Keys \ issued)
    BY DEF Next, Open, SessionStep, CheckEntitled, Subscribe, DeliverStart,
       DeliverDone, DeliverWake, DeliverWrite, Disconnect, Put, SetWatchKey,
       Revoke, Fetch, Ack, TailStep, PutWakes, DropStale, ListWatchers,
       RecheckWatcher, vars
  <1>4. owner[s] \in Mailboxes /\ key[s] \in issued \union {Member}
    OBVIOUS
  <1>5. owner[s] \in revoked \/ (key[s] # Member /\ watchKey[owner[s]] # key[s])
    BY <1>4 DEF stillEntitled, Entitles, DeviceActive
  <1>6. owner[s] \in revoked' \/ (key[s] # Member /\ watchKey'[owner[s]] # key[s])
    BY <1>2, <1>3, <1>4, <1>5
  <1> QED BY <1>1, <1>4, <1>6 DEF stillEntitled, Entitles, DeviceActive

\* A late notice is the last one.
LEMMA LateStep ==
    ASSUME NoticesTypeOK, SessionsSound, KeysSound, LateSound, [Next]_vars
    PROVE  LateSound'
  <1> SUFFICES ASSUME NEW s \in Sessions
               PROVE  /\ late'[s] <= 1
                      /\ late'[s] = 1 =>
                            /\ phase'[s] \notin {"closed", "telling"}
                            /\ ~stillEntitled(s)'
    BY DEF LateSound
  <1> USE DEF NoticesTypeOK, queueVars, sessionVars, hubVars, tailVars,
              clientVars, keyVars
  <1>1. late[s] \in Nat /\ late[s] <= 1
    BY DEF LateSound
  <1>2. CASE DeliverWrite(s)
    <2>1. late[s] = 0
      BY <1>1, <1>2 DEF LateSound, DeliverWrite
    <2>2. phase[s] # "closed" /\ phase'[s] = "waiting"
      BY <1>2 DEF DeliverWrite
    <2>3. CASE stillEntitled(s)
      BY <1>2, <2>1, <2>3 DEF DeliverWrite
    <2>4. CASE ~stillEntitled(s)
      <3>1. late'[s] = 1
        BY <1>2, <2>1, <2>4 DEF DeliverWrite
      <3>2. ~stillEntitled(s)'
        BY <2>2, <2>4, NotEntitledAgain
      <3> QED BY <2>2, <3>1, <3>2
    <2> QED BY <2>3, <2>4
  <1>3. CASE ~DeliverWrite(s)
    <2>1. late'[s] = late[s]
      BY <1>3 DEF Next, Open, SessionStep, CheckEntitled, Subscribe,
         DeliverStart, DeliverDone, DeliverWake, DeliverWrite, Disconnect, Put,
         SetWatchKey, Revoke, Fetch, Ack, TailStep, PutWakes, DropStale,
         ListWatchers, RecheckWatcher, vars
    <2>2. CASE late[s] = 1
      <3>1. phase[s] \notin {"closed", "telling"} /\ ~stillEntitled(s)
        BY <2>2 DEF LateSound
      <3>2. ~stillEntitled(s)'
        BY <3>1, NotEntitledAgain
      <3>3. phase'[s] \notin {"closed", "telling"}
        BY <3>1 DEF Next, Open, SessionStep, CheckEntitled, Subscribe,
           DeliverStart, DeliverDone, DeliverWake, DeliverWrite, Disconnect,
           Put, SetWatchKey, Revoke, Fetch, Ack, TailStep, PutWakes, DropStale,
           ListWatchers, RecheckWatcher, AfterWatch, vars
      <3> QED BY <1>1, <2>1, <3>2, <3>3
    <2> QED BY <1>1, <2>1, <2>2
  <1> QED BY <1>2, <1>3

-----------------------------------------------------------------------------
LEMMA InvInit == Init => NoticesInv
  BY DEF Init, QueueInit, NoticesInv, NoticesTypeOK, QueueTypeOK, Phases,
     HubSound, Subscribed, FreshSound, SessionsSound, KeysSound, LateSound

\* Connections, hub, done channels, keys and late notices agree, whatever the
\* order in which handlers reach the hub after their transactions.
THEOREM InvariantHolds == Spec => []NoticesInv
  <1>1. NoticesInv /\ [Next]_vars => NoticesInv'
    BY TypeStep, SessionsStep, HubStep, FreshStep, LateStep DEF NoticesInv
  <1> QED BY <1>1, InvInit, PTL DEF Spec

\* watchHub keeps at most one subscription per device, and every running
\* subscription is the hub's or cancelled.
THEOREM HubSoundHolds == Spec => []HubSound
  <1>1. NoticesInv => HubSound
    BY DEF NoticesInv
  <1> QED BY <1>1, InvariantHolds, PTL

\* deliver writes at most one notice to a session after it lost its key or its
\* device was revoked.
THEOREM ToldOnceMoreHolds == Spec => []ToldOnceMore
  <1>1. NoticesInv => ToldOnceMore
    BY DEF NoticesInv, LateSound, ToldOnceMore
  <1> QED BY <1>1, InvariantHolds, PTL
=============================================================================
