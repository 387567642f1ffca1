---------------------------- MODULE ExecutorProofs ----------------------------
(* Proofs about Executor: for every number of sessions and of requests, any   *)
(* commands, scripts and limits.                                              *)
EXTENDS ExecutorInvariant, SequenceTheorems, TLAPS

USE ExecutorAssumption

-----------------------------------------------------------------------------
(* The tables of Commands.                                                   *)

LEMMA Joined ==
    ASSUME NEW f, NEW g, NEW c
    PROVE  /\ c \in DOMAIN (f ++ g) <=> c \in DOMAIN f \cup DOMAIN g
           /\ c \in DOMAIN f => (f ++ g)[c] = f[c]
           /\ c \in DOMAIN g \ DOMAIN f => (f ++ g)[c] = g[c]
  BY DEF ++

\* The calls a person must not repeat are operations: what they recorded is
\* their answer.
LEMMA MutationsAnswer == \A c \in ChatMutations : Keeps(c) /\ Scoped(c)
  <1> DEFINE AB == AttachmentCommands ++ ContactCommands
             ABC == AB ++ CardCommands
             ABCD == ABC ++ RouteCommands
             E == ABCD ++ UpkeepCommands
             F == E ++ KeptCommands
             G == F ++ OnboardingCommands
             H == G ++ ChatCommands
  <1> SUFFICES ASSUME NEW c \in ChatMutations PROVE Keeps(c) /\ Scoped(c)
    OBVIOUS
  <1>1. /\ c = "CreateContactConversation" => c \in DOMAIN ContactCommands /\ ContactCommands[c] = Operation
        /\ c = "StartFromCard" => c \in DOMAIN CardCommands /\ CardCommands[c] = Operation
        /\ c \in {"CreateRouteConversation", "QueueMessage"} =>
               c \in DOMAIN RouteCommands /\ RouteCommands[c] = Operation
    BY DEF ContactCommands, CardCommands, RouteCommands
  <1>2. c \notin DOMAIN AttachmentCommands
    BY DEF ChatMutations, AttachmentCommands
  <1>3. c # "CreateContactConversation" => c \notin DOMAIN ContactCommands
    BY DEF ChatMutations, ContactCommands
  <1>4. c \in {"CreateRouteConversation", "QueueMessage"} => c \notin DOMAIN CardCommands
    BY DEF CardCommands
  <1>5. c \in DOMAIN ABCD /\ ABCD[c] = Operation
    <2>1. CASE c = "CreateContactConversation"
      <3>1. c \in DOMAIN AB /\ AB[c] = Operation
        BY <1>1, <1>2, <2>1, Joined
      <3>2. c \in DOMAIN ABC /\ ABC[c] = Operation
        BY <3>1, Joined
      <3> QED BY <3>2, Joined
    <2>2. CASE c = "StartFromCard"
      <3>1. c \notin DOMAIN AB
        BY <1>2, <1>3, <2>2, Joined
      <3>2. c \in DOMAIN ABC /\ ABC[c] = Operation
        BY <1>1, <2>2, <3>1, Joined
      <3> QED BY <3>2, Joined
    <2>3. CASE c \in {"CreateRouteConversation", "QueueMessage"}
      <3>1. c \notin DOMAIN AB
        BY <1>2, <1>3, <2>3, Joined
      <3>2. c \notin DOMAIN ABC
        BY <1>4, <2>3, <3>1, Joined
      <3> QED BY <1>1, <2>3, <3>2, Joined
    <2> QED BY <2>1, <2>2, <2>3 DEF ChatMutations
  <1> HIDE DEF ABCD
  <1>6. c \in DOMAIN E /\ E[c] = Operation
    BY <1>5, Joined
  <1> HIDE DEF E
  <1>7. c \in DOMAIN F /\ F[c] = Operation
    BY <1>6, Joined
  <1> HIDE DEF F
  <1>8. c \in DOMAIN G /\ G[c] = Operation
    BY <1>7, Joined
  <1> HIDE DEF G
  <1>9. c \in DOMAIN H /\ H[c] = Operation
    BY <1>8, Joined
  <1>10. run_command = H ++ LocalQueries
    BY Zenon DEF run_command, ABCD, E, F, G
  <1> HIDE DEF H
  <1>11. run_command[c] = Operation
    BY <1>9, <1>10, Joined
  <1> QED BY <1>11 DEF Keeps, Scoped, Operation

LEMMA KeepsScoped == \A c : Keeps(c) => Scoped(c)
  BY DEF Keeps, Scoped

\* A command that syncs takes the sync exclusion, one that enrols the
\* enrolment's.
LEMMA GroupExclusions ==
    ASSUME NEW c
    PROVE  /\ c \in SyncLike => \E i \in 1..Len(Exclusions(c)) : Exclusions(c)[i] = "sync"
           /\ c \in EnrollLike => \E i \in 1..Len(Exclusions(c)) : Exclusions(c)[i] = "enrollment"
  BY DEF SyncLike, EnrollLike, Exclusions

LEMMA ExclusionsFinite == ASSUME NEW c PROVE Len(Exclusions(c)) \in Nat
  BY DEF Exclusions

-----------------------------------------------------------------------------
(* Steps of the session leave the work alone, steps of the work the session. *)

SessionStep ==
    \/ \E e \in Executors : \/ BeginOpen(e) \/ DropHandles(e) \/ TakeWorker(e)
                            \/ FinishShutdown(e) \/ WorkerEnds(e)
    \/ FinishOpen \/ OutsideTakes \/ OutsideEnds

WorkStep ==
    \/ \E e \in Executors : TakeRequest(e) \/ \E r \in Requests : CheckPoisoned(r, e)
    \/ \E r \in Requests : Caller(r) \/ Command(r)

LEMMA NextCases ==
    ASSUME [Next]_vars
    PROVE  \/ SessionStep /\ UNCHANGED work
           \/ WorkStep /\ UNCHANGED session
           \/ UNCHANGED <<session, work>>
  <1>1. CASE SessionStep
    BY <1>1 DEF SessionStep, BeginOpen, DropHandles, TakeWorker, FinishShutdown, MarkClosing,
                JoinWorker, ForgetSession, WorkerEnds, FinishOpen, Migrate, OpenFails, Opened,
                OutsideTakes, OutsideEnds
  <1>2. CASE WorkStep
    BY <1>2 DEF WorkStep, TakeRequest, CheckPoisoned, Caller, Admit, Send, Command, FirstPoll,
                TakeExclusion, Commit, Answer, ReleaseSlot
  <1>3. CASE UNCHANGED vars
    BY <1>3 DEF vars
  <1> QED BY <1>1, <1>2, <1>3 DEF Next, SessionStep, WorkStep, Worker

-----------------------------------------------------------------------------
(* The profile's lock, and its one session.                                  *)

LEMMA LockStep ==
    ASSUME TypeOK, LockSound, [Next]_vars PROVE LockSound'
  <1> USE DEF LockSound, LockHeldHere
  <1>1. CASE UNCHANGED session
    BY <1>1 DEF session
  <1>2. CASE \E e \in Executors : BeginOpen(e) \/ DropHandles(e) \/ TakeWorker(e) \/ FinishShutdown(e)
    BY <1>2 DEF BeginOpen, DropHandles, TakeWorker, FinishShutdown, MarkClosing, JoinWorker, ForgetSession
  <1>3. CASE \E e \in Executors : WorkerEnds(e)
    BY <1>3 DEF WorkerEnds, TypeOK
  <1>4. CASE Migrate \/ OpenFails
    BY <1>4 DEF Migrate, OpenFails, Registry, TypeOK
  <1>5. CASE Opened
    BY <1>5 DEF Opened, Registry, TypeOK
  <1>6. CASE OutsideTakes \/ OutsideEnds
    BY <1>6 DEF OutsideTakes, OutsideEnds
  <1> QED BY <1>1, <1>2, <1>3, <1>4, <1>5, <1>6, NextCases DEF SessionStep, FinishOpen

\* While no open overtakes a shutdown, the registry stays in step with the
\* sessions.
LEMMA SessionsStep ==
    ASSUME TypeOK, ~overtaken => SessionSound, [Next]_vars, ~overtaken' PROVE SessionSound'
  <1> USE DEF SessionSound, TypeOK, States
  <1>a. ~overtaken /\ SessionSound
    BY NextCases DEF session, SessionStep, BeginOpen, DropHandles, TakeWorker, FinishShutdown,
                     MarkClosing, JoinWorker, ForgetSession, WorkerEnds, FinishOpen, Migrate,
                     OpenFails, Opened, OutsideTakes, OutsideEnds
  <1> USE <1>a
  <1>1. CASE UNCHANGED session
    BY <1>1 DEF session
  <1>2. ASSUME NEW e \in Executors, BeginOpen(e) PROVE SessionSound'
    BY <1>2 DEF BeginOpen
  <1>3. ASSUME NEW e \in Executors, DropHandles(e) PROVE SessionSound'
    BY <1>3 DEF DropHandles
  <1>4. ASSUME NEW e \in Executors, TakeWorker(e) PROVE SessionSound'
    BY <1>4 DEF TakeWorker
  <1>5. ASSUME NEW e \in Executors, MarkClosing(e) PROVE SessionSound'
    BY <1>5 DEF MarkClosing, Registry
  <1>6. ASSUME NEW e \in Executors, JoinWorker(e) PROVE SessionSound'
    BY <1>6 DEF JoinWorker
  <1>7. ASSUME NEW e \in Executors, ForgetSession(e) PROVE SessionSound'
    BY <1>7 DEF ForgetSession, Registry
  <1>8. ASSUME NEW e \in Executors, WorkerEnds(e) PROVE SessionSound'
    BY <1>8 DEF WorkerEnds
  <1>9. CASE Migrate \/ OpenFails \/ OutsideTakes \/ OutsideEnds
    BY <1>9 DEF Migrate, OpenFails, OutsideTakes, OutsideEnds
  <1>10. CASE Opened
    BY <1>10 DEF Opened, Registry
  <1> QED BY <1>1, <1>2, <1>3, <1>4, <1>5, <1>6, <1>7, <1>8, <1>9, <1>10, NextCases
          DEF SessionStep, FinishOpen, FinishShutdown

-----------------------------------------------------------------------------
(* Requests, from the caller to the worker.                                  *)

\* A request that changes its stage outside a queue leaves the queues as they
\* were.
LEMMA QueueKept ==
    ASSUME TypeOK, QueueSound, NEW r \in Requests, NEW s,
           stage[r] # "queued", s # "new", s # "queued",
           s \in Received => alive[at[r]],
           at[r] \in Executors,
           stage' = [stage EXCEPT ![r] = s],
           UNCHANGED <<queue, at, alive>>
    PROVE  QueueSound'
  <1>1. \A q \in Requests : stage'[q] = IF q = r THEN s ELSE stage[q]
    BY DEF TypeOK
  <1>2. \A e \in Executors : \A i \in 1..Len(queue[e]) : queue[e][i] \in Requests /\ queue[e][i] # r
    BY ElementOfSeq DEF TypeOK, QueueSound
  <1>3. \A e \in Executors : \A i \in 1..Len(queue'[e]) :
            /\ at'[queue'[e][i]] = e /\ stage'[queue'[e][i]] = "queued"
            /\ \A j \in 1..Len(queue'[e]) : queue'[e][i] = queue'[e][j] => i = j
    BY <1>1, <1>2 DEF QueueSound
  <1>4. \A q \in Requests : stage'[q] # "new" => at'[q] \in Executors
    BY <1>1 DEF QueueSound
  <1>5. \A q \in Requests : stage'[q] \in Received => alive'[at'[q]]
    BY <1>1 DEF QueueSound
  <1> QED BY <1>3, <1>4, <1>5 DEF QueueSound

LEMMA QueueStep ==
    ASSUME TypeOK, QueueSound, [Next]_vars PROVE QueueSound'
  <1> USE DEF session, work, calls
  <1>1. CASE SessionStep /\ UNCHANGED work
    <2>1. UNCHANGED <<queue, at, stage>>
      BY <1>1
    <2>2. \A r \in Requests : stage[r] \in Received => alive'[at[r]]
      <3>1. CASE \E e \in Executors : WorkerEnds(e)
        BY <3>1 DEF WorkerEnds, Running, Received, QueueSound, TypeOK
      <3>2. CASE ~ \E e \in Executors : WorkerEnds(e)
        <4>1. alive' = alive \/ Opened
          BY <1>1, <3>2 DEF SessionStep, BeginOpen, DropHandles, TakeWorker, FinishShutdown,
                MarkClosing, JoinWorker, ForgetSession, FinishOpen, Migrate, OpenFails,
                OutsideTakes, OutsideEnds
        <4>2. \A e \in Executors : alive[e] => alive'[e]
          BY <4>1 DEF Opened, TypeOK
        <4> QED BY <4>2 DEF QueueSound, Received
      <3> QED BY <3>1, <3>2
    <2> QED BY <2>1, <2>2 DEF QueueSound
  <1>2. ASSUME NEW e \in Executors, NEW r \in Requests, CheckPoisoned(r, e) PROVE QueueSound'
    <2>1. /\ stage[r] = "new" /\ at' = [at EXCEPT ![r] = e]
          /\ stage' = [stage EXCEPT ![r] = "done"] \/ stage' = [stage EXCEPT ![r] = "checked"]
          /\ UNCHANGED <<queue, alive>>
      BY <1>2 DEF CheckPoisoned, Refuse
    <2>2. \A q \in Requests : /\ at'[q] = IF q = r THEN e ELSE at[q]
                              /\ q # r => stage'[q] = stage[q]
                              /\ stage'[r] \notin Received /\ stage'[r] # "new"
      BY <2>1 DEF TypeOK, Received
    <2>3. \A f \in Executors : \A i \in 1..Len(queue[f]) : queue[f][i] \in Requests /\ queue[f][i] # r
      BY <2>1, ElementOfSeq DEF TypeOK, QueueSound
    <2> QED BY <2>1, <2>2, <2>3 DEF QueueSound
  <1>3. ASSUME NEW e \in Executors, TakeRequest(e) PROVE QueueSound'
    <2> DEFINE r == Head(queue[e])
    <2>1. /\ alive[e] /\ queue[e] # <<>> /\ stage' = [stage EXCEPT ![r] = "received"]
          /\ queue' = [queue EXCEPT ![e] = Tail(queue[e])]
          /\ UNCHANGED <<alive, at>>
      BY <1>3 DEF TakeRequest
    <2>2. /\ queue[e] \in Seq(Requests) /\ Len(queue[e]) \in Nat \ {0} /\ r = queue[e][1]
          /\ Len(Tail(queue[e])) = Len(queue[e]) - 1
          /\ \A i \in 1..Len(Tail(queue[e])) : Tail(queue[e])[i] = queue[e][i + 1]
          /\ r \in Requests
      BY <2>1, EmptySeq, HeadTailProperties DEF TypeOK
    <2>3. at[r] = e /\ stage[r] = "queued"
      BY <2>2 DEF QueueSound
    <2>4. \A q \in Requests : stage'[q] = IF q = r THEN "received" ELSE stage[q]
      BY <2>1, <2>2 DEF TypeOK
    <2> HIDE DEF r
    <2>5. ASSUME NEW f \in Executors, NEW i \in 1..Len(queue'[f])
          PROVE  /\ at[queue'[f][i]] = f /\ stage'[queue'[f][i]] = "queued"
                 /\ \A j \in 1..Len(queue'[f]) : queue'[f][i] = queue'[f][j] => i = j
      <3>1. CASE f = e
        <4>1. queue'[f] = Tail(queue[e])
          BY <2>1, <3>1 DEF TypeOK
        <4>2. i \in Nat /\ i + 1 \in 1..Len(queue[e]) /\ i + 1 # 1 /\ 1 \in 1..Len(queue[e])
          BY <2>2, <2>5, <4>1
        <4>3. queue'[f][i] = queue[e][i + 1] /\ queue[e][i + 1] \in Requests
          BY <2>2, <2>5, <4>1, <4>2, ElementOfSeq
        <4>4. queue[e][i + 1] # r /\ stage[queue[e][i + 1]] = "queued" /\ at[queue[e][i + 1]] = e
          BY <2>2, <4>2 DEF QueueSound
        <4>5. ASSUME NEW j \in 1..Len(queue'[f]), queue'[f][i] = queue'[f][j] PROVE i = j
          <5>1. j \in Nat /\ j + 1 \in 1..Len(queue[e]) /\ queue'[f][j] = queue[e][j + 1]
            BY <2>2, <4>1, <4>5
          <5>2. \A a, b \in 1..Len(queue[e]) : queue[e][a] = queue[e][b] => a = b
            BY DEF QueueSound
          <5>3. i + 1 = j + 1
            BY <4>2, <4>3, <4>5, <5>1, <5>2
          <5> QED BY <4>2, <5>1, <5>3
        <4> QED BY <2>4, <3>1, <4>3, <4>4, <4>5
      <3>2. CASE f # e
        <4>1. queue'[f] = queue[f]
          BY <2>1, <3>2 DEF TypeOK
        <4>2. queue[f][i] \in Requests /\ queue[f][i] # r
          BY <2>3, <2>5, <3>2, <4>1, ElementOfSeq DEF QueueSound, TypeOK
        <4> QED BY <2>4, <2>5, <4>1, <4>2 DEF QueueSound
      <3> QED BY <3>1, <3>2
    <2>6. \A q \in Requests : stage'[q] # "new" => at[q] \in Executors
      BY <2>3, <2>4 DEF QueueSound
    <2>7. \A q \in Requests : stage'[q] \in Received => alive[at[q]]
      BY <2>1, <2>3, <2>4 DEF QueueSound, Received
    <2> QED BY <2>1, <2>5, <2>6, <2>7 DEF QueueSound
  <1>4. ASSUME NEW r \in Requests, Send(r), state[at[r]] = "open" PROVE QueueSound'
    <2> DEFINE e == at[r]
    <2>1. /\ stage[r] = "admitted" /\ queue' = [queue EXCEPT ![e] = Append(queue[e], r)]
          /\ stage' = [stage EXCEPT ![r] = "queued"]
          /\ UNCHANGED <<alive, at>>
      BY <1>4 DEF Send
    <2>2. e \in Executors /\ queue[e] \in Seq(Requests) /\ Len(queue[e]) \in Nat
      BY <2>1 DEF QueueSound, TypeOK
    <2>3. /\ Len(Append(queue[e], r)) = Len(queue[e]) + 1
          /\ \A i \in 1..Len(queue[e]) : Append(queue[e], r)[i] = queue[e][i]
          /\ Append(queue[e], r)[Len(queue[e]) + 1] = r
      BY <2>2, AppendProperties
    <2>4. \A q \in Requests : stage'[q] = IF q = r THEN "queued" ELSE stage[q]
      BY <2>1 DEF TypeOK
    <2>5. \A f \in Executors : \A i \in 1..Len(queue[f]) : queue[f][i] \in Requests /\ queue[f][i] # r
      BY <2>1, ElementOfSeq DEF TypeOK, QueueSound
    <2>6. ASSUME NEW f \in Executors, NEW i \in 1..Len(queue'[f])
          PROVE  /\ at[queue'[f][i]] = f /\ stage'[queue'[f][i]] = "queued"
                 /\ \A j \in 1..Len(queue'[f]) : queue'[f][i] = queue'[f][j] => i = j
      <3>1. CASE f = e
        <4>1. queue'[f] = Append(queue[e], r)
          BY <2>1, <2>2, <3>1 DEF TypeOK
        <4>2. \A k \in 1..Len(queue'[f]) : k \in 1..Len(queue[e]) \/ (k = Len(queue[e]) + 1 /\ queue'[f][k] = r)
          BY <2>2, <2>3, <4>1
        <4>3. \A k \in 1..Len(queue[e]) : queue'[f][k] = queue[e][k] /\ queue[e][k] # r
          BY <2>2, <2>3, <2>5, <4>1
        <4>4. \A k \in 1..Len(queue'[f]) : at[queue'[f][k]] = f /\ stage'[queue'[f][k]] = "queued"
          BY <2>2, <2>4, <2>5, <3>1, <4>2, <4>3 DEF QueueSound
        <4>5. \A a, b \in 1..Len(queue[e]) : queue[e][a] = queue[e][b] => a = b
          BY <2>2 DEF QueueSound
        <4>6. \A a, b \in 1..Len(queue'[f]) : queue'[f][a] = queue'[f][b] => a = b
          BY <4>2, <4>3, <4>5
        <4> QED BY <2>6, <4>4, <4>6
      <3>2. CASE f # e
        <4>1. queue'[f] = queue[f]
          BY <2>1, <3>2 DEF TypeOK
        <4> QED BY <2>4, <2>5, <2>6, <4>1 DEF QueueSound
      <3> QED BY <3>1, <3>2
    <2>7. \A q \in Requests : /\ stage'[q] # "new" => at[q] \in Executors
                              /\ stage'[q] \in Received => alive[at[q]]
      BY <2>2, <2>4 DEF QueueSound, Received
    <2> QED BY <2>1, <2>6, <2>7 DEF QueueSound
  <1>5. ASSUME NEW r \in Requests,
               Admit(r) \/ (Send(r) /\ state[at[r]] # "open") \/ Command(r)
        PROVE  QueueSound'
    <2>1. /\ UNCHANGED <<queue, at, alive>>
          /\ \/ UNCHANGED stage
             \/ /\ stage[r] \in {"checked", "admitted"}
                /\ \E s \in {"admitted", "done"} : stage' = [stage EXCEPT ![r] = s]
             \/ /\ stage[r] \in Received
                /\ \E s \in {"waiting", "running", "leaving", "done"} : stage' = [stage EXCEPT ![r] = s]
      BY <1>5 DEF Admit, Send, Command, Refuse, FirstPoll, TakeExclusion, Commit, Answer, ReleaseSlot, Received
    <2>2. CASE UNCHANGED stage
      BY <2>1, <2>2 DEF QueueSound
    <2>3. CASE ~ UNCHANGED stage
      <3>1. PICK s \in {"admitted", "waiting", "running", "leaving", "done"} :
                /\ stage' = [stage EXCEPT ![r] = s]
                /\ \/ stage[r] \in {"checked", "admitted"} /\ s \in {"admitted", "done"}
                   \/ stage[r] \in Received
        BY <2>1, <2>3
      <3>2. /\ stage[r] # "queued" /\ s # "new" /\ s # "queued" /\ at[r] \in Executors
            /\ s \in Received => alive[at[r]]
        BY <3>1 DEF QueueSound, Received
      <3> QED BY <2>1, <3>1, <3>2, QueueKept
    <2> QED BY <2>2, <2>3
  <1>6. CASE UNCHANGED <<session, work>>
    BY <1>6 DEF QueueSound
  <1> QED BY <1>1, <1>2, <1>3, <1>4, <1>5, <1>6, NextCases DEF WorkStep, Caller

-----------------------------------------------------------------------------
(* Exclusions.                                                               *)

\* A request that holds nothing before and after, and is not waiting, disturbs
\* nobody's exclusions.
LEMMA ExclusionKept ==
    ASSUME TypeOK, ExclusionSound, NEW r \in Requests, NEW s,
           stage[r] \notin {"waiting", "running"},
           s \notin {"waiting", "running"} \/ (s = "running" /\ Locks(r) = <<>>)
               \/ (s = "waiting" /\ Locks(r) # <<>>),
           stage' = [stage EXCEPT ![r] = s], held' = held,
           \A q \in Requests \ {r} : at'[q] = at[q]
    PROVE  ExclusionSound'
  <1>1. \A q \in Requests : stage'[q] = IF q = r THEN s ELSE stage[q]
    BY DEF TypeOK
  <1>2. held[r] = 0 /\ Holds(r) = {} /\ \A q \in Requests : Holds(q)' = Holds(q)
    BY DEF ExclusionSound, Holds
  <1>3. Len(Locks(r)) \in Nat /\ (Locks(r) = <<>> <=> Len(Locks(r)) = 0)
    BY DEF Locks, Exclusions
  <1>4. /\ s = "running" => Len(Locks(r)) = 0
        /\ s = "waiting" => 0 < Len(Locks(r))
    BY <1>3
  <1> QED BY <1>1, <1>2, <1>4 DEF ExclusionSound

LEMMA ExclusionStep ==
    ASSUME TypeOK, QueueSound, ExclusionSound, [Next]_vars PROVE ExclusionSound'
  <1> USE DEF work, calls
  <1>1. CASE UNCHANGED work
    BY <1>1 DEF ExclusionSound, Holds
  <1>2. ASSUME NEW e \in Executors, NEW r \in Requests, CheckPoisoned(r, e) PROVE ExclusionSound'
    <2>1. PICK s \in {"done", "checked"} : stage' = [stage EXCEPT ![r] = s]
      BY <1>2 DEF CheckPoisoned, Refuse
    <2>2. stage[r] = "new" /\ held' = held /\ \A q \in Requests \ {r} : at'[q] = at[q]
      BY <1>2 DEF CheckPoisoned, TypeOK
    <2> QED BY <2>1, <2>2, ExclusionKept
  <1>3. ASSUME NEW r \in Requests,
               Admit(r) \/ Send(r) \/ ReleaseSlot(r) \/ (FirstPoll(r) /\ poisoned[at[r]])
        PROVE  ExclusionSound'
    <2>1. PICK s \in {"done", "admitted", "queued"} : stage' = [stage EXCEPT ![r] = s]
      BY <1>3 DEF Admit, Send, FirstPoll, ReleaseSlot, Refuse
    <2>2. stage[r] \notin {"waiting", "running"} /\ held' = held /\ at' = at
      BY <1>3 DEF Admit, Send, FirstPoll, ReleaseSlot
    <2> QED BY <2>1, <2>2, ExclusionKept
  <1>4. ASSUME NEW r \in Requests, FirstPoll(r), ~poisoned[at[r]] PROVE ExclusionSound'
    <2>1. /\ stage[r] = "received" /\ held' = held /\ at' = at
          /\ stage' = [stage EXCEPT ![r] = IF Locks(r) = <<>> THEN "running" ELSE "waiting"]
      BY <1>4 DEF FirstPoll
    <2>2. CASE Locks(r) = <<>>
      BY <2>1, <2>2, ExclusionKept
    <2>3. CASE Locks(r) # <<>>
      BY <2>1, <2>3, ExclusionKept
    <2> QED BY <2>2, <2>3
  <1>5. ASSUME NEW e \in Executors, TakeRequest(e) PROVE ExclusionSound'
    <2>1. PICK r : r = Head(queue[e])
      OBVIOUS
    <2>2. r \in Requests /\ stage[r] = "queued"
      <3>1. queue[e] \in Seq(Requests) /\ queue[e] # <<>>
        BY <1>5 DEF TakeRequest, TypeOK
      <3>2. Head(queue[e]) = queue[e][1] /\ 1 \in 1..Len(queue[e])
        BY <3>1, EmptySeq
      <3> QED BY <1>5, <2>1, <3>1, <3>2, ElementOfSeq DEF QueueSound
    <2>3. stage' = [stage EXCEPT ![r] = "received"] /\ held' = held /\ at' = at
      BY <1>5, <2>1 DEF TakeRequest
    <2> QED BY <2>2, <2>3, ExclusionKept
  <1>6. ASSUME NEW r \in Requests, TakeExclusion(r) PROVE ExclusionSound'
    <2> DEFINE x == Locks(r)[held[r] + 1]
    <2>1. /\ stage[r] = "waiting" /\ at' = at
          /\ \A q \in Requests : at[q] = at[r] => x \notin Holds(q)
          /\ held' = [held EXCEPT ![r] = held[r] + 1]
          /\ stage' = [stage EXCEPT ![r] = IF held[r] + 1 = Len(Locks(r)) THEN "running" ELSE "waiting"]
      BY <1>6 DEF TakeExclusion
    <2>2. held[r] \in Nat /\ held[r] < Len(Locks(r)) /\ Len(Locks(r)) \in Nat
      BY <2>1, ExclusionsFinite DEF ExclusionSound, TypeOK, Locks
    <2>3. /\ held'[r] = held[r] + 1
          /\ \A q \in Requests \ {r} : held'[q] = held[q] /\ stage'[q] = stage[q]
          /\ stage'[r] = IF held[r] + 1 = Len(Locks(r)) THEN "running" ELSE "waiting"
      BY <2>1 DEF TypeOK
    <2>4. \A q \in Requests \ {r} : Holds(q)' = Holds(q)
      BY <2>3 DEF Holds
    <2>5. Holds(r)' \subseteq Holds(r) \cup {x}
      BY <2>2, <2>3 DEF Holds
    <2>6. \A p, q \in Requests : p # q /\ at'[p] = at'[q] => Holds(p)' \cap Holds(q)' = {}
      <3> SUFFICES ASSUME NEW p \in Requests, NEW q \in Requests, p # q, at[p] = at[q]
                   PROVE  Holds(p)' \cap Holds(q)' = {}
        BY <2>1
      <3>1. Holds(p) \cap Holds(q) = {}
        BY DEF ExclusionSound
      <3> HIDE DEF x
      <3>2. CASE p = r
        BY <2>1, <2>4, <2>5, <3>1, <3>2
      <3>3. CASE q = r
        BY <2>1, <2>4, <2>5, <3>1, <3>3
      <3>4. CASE p # r /\ q # r
        BY <2>4, <3>1, <3>4
      <3> QED BY <3>2, <3>3, <3>4
    <2>7. \A q \in Requests :
              /\ stage'[q] = "running" => held'[q] = Len(Locks(q))
              /\ stage'[q] = "waiting" => held'[q] < Len(Locks(q))
              /\ stage'[q] \notin {"waiting", "running"} => held'[q] = 0
      BY <2>2, <2>3 DEF ExclusionSound
    <2> QED BY <2>6, <2>7 DEF ExclusionSound, Locks
  <1>7. ASSUME NEW r \in Requests, Commit(r) PROVE ExclusionSound'
    BY <1>7 DEF Commit, ExclusionSound, Holds
  <1>8. ASSUME NEW r \in Requests, Answer(r) PROVE ExclusionSound'
    <2>1. /\ held' = [held EXCEPT ![r] = 0] /\ stage' = [stage EXCEPT ![r] = "leaving"] /\ at' = at
      BY <1>8 DEF Answer
    <2>2. /\ held'[r] = 0 /\ stage'[r] = "leaving"
          /\ \A q \in Requests \ {r} : held'[q] = held[q] /\ stage'[q] = stage[q]
      BY <2>1 DEF TypeOK
    <2>3. \A q \in Requests : Holds(q)' \subseteq Holds(q)
      BY <2>2 DEF Holds
    <2>4. \A p, q \in Requests : p # q /\ at'[p] = at'[q] => Holds(p)' \cap Holds(q)' = {}
      BY <2>1, <2>3 DEF ExclusionSound
    <2>5. \A q \in Requests :
              /\ stage'[q] = "running" => held'[q] = Len(Locks(q))
              /\ stage'[q] = "waiting" => held'[q] < Len(Locks(q))
              /\ stage'[q] \notin {"waiting", "running"} => held'[q] = 0
      BY <2>2 DEF ExclusionSound
    <2> QED BY <2>4, <2>5 DEF ExclusionSound, Locks
  <1> QED BY <1>1, <1>2, <1>3, <1>4, <1>5, <1>6, <1>7, <1>8, NextCases DEF WorkStep, Caller, Command

-----------------------------------------------------------------------------
(* Answers.                                                                  *)

\* A step that leaves a request's record alone, and answers it only from what
\* the record says.
LEMMA AnswerKept ==
    ASSUME TypeOK, AnswerSound, NEW r \in Requests, NEW s \in Stages, NEW a \in Replies,
           stage[r] \notin {"leaving", "done"} \/ (a = reply[r] /\ s \in {"leaving", "done"}),
           s \notin {"leaving", "done"} => a = "none",
           stage' = [stage EXCEPT ![r] = s],
           reply' = [reply EXCEPT ![r] = a],
           UNCHANGED command
    PROVE  AnswerSound'
  <1>1. \A q \in Requests : /\ stage'[q] = IF q = r THEN s ELSE stage[q]
                            /\ reply'[q] = IF q = r THEN a ELSE reply[q]
                            /\ Recorded(q)' <=> Recorded(q)
    BY DEF TypeOK, command, Recorded
  <1> QED BY <1>1 DEF AnswerSound

LEMMA AnswerStep ==
    ASSUME TypeOK, QueueSound, AnswerSound, [Next]_vars PROVE AnswerSound'
  <1>1. CASE UNCHANGED work
    BY <1>1 DEF work, calls, command, AnswerSound, Recorded
  <1>2. \A r \in Requests : stage[r] \notin {"leaving", "done"} => reply[r] = "none"
    BY DEF AnswerSound
  <1>3. \A r \in Requests : UNCHANGED reply => reply' = [reply EXCEPT ![r] = reply[r]]
    BY DEF TypeOK
  <1>4. ASSUME NEW e \in Executors, NEW r \in Requests, CheckPoisoned(r, e) PROVE AnswerSound'
    <2>1. PICK s \in Stages, a \in Replies :
              /\ stage' = [stage EXCEPT ![r] = s] /\ reply' = [reply EXCEPT ![r] = a]
              /\ s \notin {"leaving", "done"} => a = "none"
      BY <1>2, <1>3, <1>4 DEF CheckPoisoned, Refuse, Stages, Replies, TypeOK
    <2> QED BY <1>4, <2>1, AnswerKept DEF CheckPoisoned
  <1>5. ASSUME NEW r \in Requests, Admit(r) \/ Send(r) \/ FirstPoll(r) PROVE AnswerSound'
    <2>1. stage[r] \notin {"leaving", "done"} /\ UNCHANGED command
      BY <1>5 DEF Admit, Send, FirstPoll
    <2>2. PICK s \in Stages, a \in Replies :
              /\ stage' = [stage EXCEPT ![r] = s] /\ reply' = [reply EXCEPT ![r] = a]
              /\ s \notin {"leaving", "done"} => a = "none"
      BY <1>2, <1>3, <1>5 DEF Admit, Send, FirstPoll, Refuse, Stages, Replies, TypeOK
    <2> QED BY <2>1, <2>2, AnswerKept
  <1>6. ASSUME NEW r \in Requests, TakeExclusion(r) PROVE AnswerSound'
    <2>1. stage[r] \notin {"leaving", "done"} /\ UNCHANGED <<reply, command>>
      BY <1>6 DEF TakeExclusion
    <2>2. PICK s \in {"running", "waiting"} : stage' = [stage EXCEPT ![r] = s]
      BY <1>6 DEF TakeExclusion
    <2> QED BY <1>2, <1>3, <2>1, <2>2, AnswerKept DEF Stages, Replies
  <1>7. ASSUME NEW e \in Executors, TakeRequest(e) PROVE AnswerSound'
    <2>1. PICK r : r = Head(queue[e])
      OBVIOUS
    <2>2. r \in Requests /\ stage[r] = "queued"
      <3>1. queue[e] \in Seq(Requests) /\ queue[e] # <<>>
        BY <1>7 DEF TakeRequest, TypeOK
      <3>2. Head(queue[e]) = queue[e][1] /\ 1 \in 1..Len(queue[e])
        BY <3>1, EmptySeq
      <3> QED BY <1>7, <2>1, <3>1, <3>2, ElementOfSeq DEF QueueSound
    <2>3. stage' = [stage EXCEPT ![r] = "received"] /\ UNCHANGED <<reply, command>>
      BY <1>7, <2>1 DEF TakeRequest
    <2> QED BY <1>2, <1>3, <2>2, <2>3, AnswerKept DEF Stages, Replies
  <1>8. ASSUME NEW r \in Requests, ReleaseSlot(r) PROVE AnswerSound'
    <2>1. stage[r] = "leaving" /\ stage' = [stage EXCEPT ![r] = "done"] /\ UNCHANGED <<reply, command>>
      BY <1>8 DEF ReleaseSlot
    <2> QED BY <1>3, <2>1, AnswerKept DEF Stages, TypeOK
  <1>9. ASSUME NEW r \in Requests, Commit(r) PROVE AnswerSound'
    <2> DEFINE n == did[r]
               x == Script[r][n + 1]
    <2>1. /\ stage[r] = "running" /\ n < Len(Script[r])
          /\ did' = [did EXCEPT ![r] = n + 1]
          /\ result' = [result EXCEPT ![r] = Append(result[r], x)]
          /\ UNCHANGED <<stage, reply>>
      BY <1>9 DEF Commit, calls
    <2>2. n \in Nat /\ Recorded(r) /\ result[r] \in Seq(StateChange)
      BY <2>1 DEF AnswerSound, TypeOK
    <2>3. Len(Script[r]) \in Nat /\ x \in StateChange
      <3>1. Script[r] \in Seq(StateChange)
        BY ScriptAssumption
      <3>2. Len(Script[r]) \in Nat
        BY <3>1
      <3> QED BY <2>1, <2>2, <3>1, <3>2, ElementOfSeq
    <2>4. /\ Len(Append(result[r], x)) = Len(result[r]) + 1
          /\ \A i \in 1..Len(result[r]) : Append(result[r], x)[i] = result[r][i]
          /\ Append(result[r], x)[Len(result[r]) + 1] = x
      BY <2>2, <2>3, AppendProperties
    <2>5. did'[r] = n + 1 /\ result'[r] = Append(result[r], x)
      BY <2>1 DEF TypeOK
    <2>6. Recorded(r)'
      <3>1. \A i \in 1..(n + 1) : i \in 1..n \/ i = n + 1
        BY <2>2
      <3>2. n + 1 <= Len(Script[r])
        BY <2>1, <2>2, <2>3
      <3> HIDE DEF x
      <3>3. \A i \in 1..(n + 1) : result'[r][i] = Script[r][i]
        BY <2>2, <2>4, <2>5, <3>1 DEF Recorded, x
      <3> QED BY <2>2, <2>4, <2>5, <3>2, <3>3 DEF Recorded
    <2>7. \A q \in Requests \ {r} : Recorded(q)' <=> Recorded(q)
      BY <2>1 DEF Recorded, TypeOK
    <2> QED BY <2>1, <2>6, <2>7 DEF AnswerSound
  <1>10. ASSUME NEW r \in Requests, Answer(r) PROVE AnswerSound'
    <2>1. /\ stage[r] = "running" /\ stage' = [stage EXCEPT ![r] = "leaving"] /\ did' = did
          /\ \/ reply' = [reply EXCEPT ![r] = "output"] /\ result' = [result EXCEPT ![r] = Succeeded(r)]
             \/ reply' = [reply EXCEPT ![r] = "failed"] /\ result' = [result EXCEPT ![r] = Failed(r)]
             \/ reply' = [reply EXCEPT ![r] = "panicked"] /\ result' = [result EXCEPT ![r] = <<>>]
      BY <1>10 DEF Answer
    <2>2. Recorded(r)
      BY <2>1 DEF AnswerSound
    <2>3. \A q \in Requests \ {r} : /\ stage'[q] = stage[q] /\ reply'[q] = reply[q]
                                    /\ Recorded(q)' <=> Recorded(q)
      BY <2>1 DEF Recorded, TypeOK
    <2>4. stage'[r] = "leaving" /\ (reply'[r] = "panicked" \/ ~Keeps(Asked[r]) \/ result'[r] = result[r])
      BY <2>1, KeepsScoped DEF TypeOK, Succeeded, Failed
    <2>5. result'[r] = result[r] => Recorded(r)'
      BY <2>1, <2>2 DEF Recorded
    <2> QED BY <2>3, <2>4, <2>5 DEF AnswerSound
  <1> QED BY <1>1, <1>4, <1>5, <1>6, <1>7, <1>8, <1>9, <1>10, NextCases DEF WorkStep, Caller, Command

-----------------------------------------------------------------------------
(* Types.                                                                    *)

SessionTypes ==
    /\ slot \in Executors \cup {Free, Closing}
    /\ opening \in Executors \cup {NoExecutor}
    /\ outside \in BOOLEAN
    /\ version \in Nat
    /\ handles \in [Executors -> BOOLEAN]
    /\ state \in [Executors -> States]
    /\ alive \in [Executors -> BOOLEAN]
    /\ overtaken \in BOOLEAN

WorkTypes ==
    /\ queue \in [Executors -> Seq(Requests)]
    /\ active \in [Executors -> [Admissions -> Int]]
    /\ poisoned \in [Executors -> BOOLEAN]
    /\ at \in [Requests -> Executors \cup {NoExecutor}]
    /\ stage \in [Requests -> Stages]
    /\ held \in [Requests -> Nat]
    /\ reply \in [Requests -> Replies]
    /\ did \in [Requests -> Nat]
    /\ result \in [Requests -> Seq(StateChange)]

LEMMA TypeParts == TypeOK <=> SessionTypes /\ WorkTypes
  BY DEF TypeOK, SessionTypes, WorkTypes

LEMMA SessionTypesStep ==
    ASSUME TypeOK, SessionStep PROVE SessionTypes'
  <1> USE DEF SessionTypes, States
  <1>1. CASE \E e \in Executors : BeginOpen(e) \/ DropHandles(e) \/ TakeWorker(e) \/ WorkerEnds(e)
    BY <1>1 DEF TypeOK, BeginOpen, DropHandles, TakeWorker, WorkerEnds
  <1>2. CASE \E e \in Executors : FinishShutdown(e)
    BY <1>2 DEF TypeOK, FinishShutdown, MarkClosing, JoinWorker, ForgetSession
  <1>3. CASE Migrate \/ OpenFails
    <2>1. version' \in Nat /\ opening' \in Executors \cup {NoExecutor}
      BY <1>3 DEF TypeOK, Migrate, OpenFails
    <2>2. UNCHANGED <<slot, outside, handles, state, alive, overtaken>>
      BY <1>3 DEF Migrate, OpenFails
    <2> QED BY <2>1, <2>2 DEF TypeOK
  <1>4. CASE Opened
    <2>1. handles' \in [Executors -> BOOLEAN] /\ alive' \in [Executors -> BOOLEAN]
      BY <1>4 DEF TypeOK, Opened
    <2>2. state' \in [Executors -> States]
      BY <1>4 DEF TypeOK, Opened
    <2>3. slot' \in Executors /\ opening' = NoExecutor /\ UNCHANGED <<outside, version, overtaken>>
      BY <1>4 DEF TypeOK, Opened, Registry
    <2> QED BY <2>1, <2>2, <2>3 DEF TypeOK
  <1>5. CASE OutsideTakes \/ OutsideEnds
    <2>1. version' \in Nat
      BY <1>5 DEF TypeOK, OutsideTakes, OutsideEnds
    <2>2. outside' \in BOOLEAN /\ UNCHANGED <<slot, opening, handles, state, alive, overtaken>>
      BY <1>5 DEF OutsideTakes, OutsideEnds
    <2> QED BY <2>1, <2>2 DEF TypeOK
  <1> QED BY <1>1, <1>2, <1>3, <1>4, <1>5 DEF SessionStep, FinishOpen

\* A counter goes up or down by one.
LEMMA CounterType ==
    ASSUME TypeOK, NEW e \in Executors, NEW a \in Admissions, NEW n \in Int,
           active' = [active EXCEPT ![e][a] = n]
    PROVE  active' \in [Executors -> [Admissions -> Int]]
  <1>1. PICK row : row = [active[e] EXCEPT ![a] = n]
    OBVIOUS
  <1>2. row \in [Admissions -> Int]
    BY <1>1 DEF TypeOK
  <1>3. active' = [active EXCEPT ![e] = row]
    BY <1>1
  <1> QED BY <1>2, <1>3 DEF TypeOK

LEMMA AdmissionType == \A r \in Requests : Admission(r) \in Admissions
  BY DEF Admission, AdmissionOf, Admissions

\* What a command records is a change, and its answer a sequence of them.
LEMMA WorkTypesStep ==
    ASSUME TypeOK, QueueSound, WorkStep PROVE WorkTypes'
  <1>1. ASSUME NEW e \in Executors, TakeRequest(e) PROVE WorkTypes'
    <2>1. queue[e] \in Seq(Requests) /\ queue[e] # <<>>
      BY <1>1 DEF TakeRequest, TypeOK
    <2>2. Tail(queue[e]) \in Seq(Requests)
      BY <2>1, HeadTailProperties
    <2>3. queue' \in [Executors -> Seq(Requests)]
      BY <1>1, <2>2 DEF TakeRequest, TypeOK
    <2>4. stage' \in [Requests -> Stages]
      BY <1>1 DEF TakeRequest, TypeOK, Stages
    <2> QED BY <1>1, <2>3, <2>4 DEF TakeRequest, TypeOK, WorkTypes, command
  <1>2. ASSUME NEW e \in Executors, NEW r \in Requests, CheckPoisoned(r, e) PROVE WorkTypes'
    BY <1>2 DEF CheckPoisoned, Refuse, TypeOK, WorkTypes, command, Stages, Replies
  <1>3. ASSUME NEW r \in Requests, Admit(r) PROVE WorkTypes'
    <2>1. at[r] \in Executors
      BY <1>3 DEF QueueSound, Admit
    <2>2. PICK e \in Executors, a \in Admissions : e = at[r] /\ a = Admission(r)
      BY <2>1, AdmissionType
    <2>3. active[e][a] + 1 \in Int
      BY DEF TypeOK
    <2>4. active' = [active EXCEPT ![e][a] = active[e][a] + 1] \/ active' = active
      BY <1>3, <2>2 DEF Admit
    <2>5. active' \in [Executors -> [Admissions -> Int]]
      BY <2>3, <2>4, CounterType DEF TypeOK
    <2>6. stage' \in [Requests -> Stages] /\ reply' \in [Requests -> Replies]
      BY <1>3 DEF Admit, Refuse, TypeOK, Stages, Replies
    <2> QED BY <1>3, <2>5, <2>6 DEF Admit, TypeOK, WorkTypes, command
  <1>4. ASSUME NEW r \in Requests, Send(r) PROVE WorkTypes'
    <2>1. at[r] \in Executors
      BY <1>4 DEF QueueSound, Send
    <2>2. PICK e \in Executors, a \in Admissions : e = at[r] /\ a = Admission(r)
      BY <2>1, AdmissionType
    <2>3. active[e][a] - 1 \in Int
      BY DEF TypeOK
    <2>4. active' = [active EXCEPT ![e][a] = active[e][a] - 1] \/ active' = active
      BY <1>4, <2>2 DEF Send
    <2>5. active' \in [Executors -> [Admissions -> Int]]
      BY <2>3, <2>4, CounterType DEF TypeOK
    <2>6. stage' \in [Requests -> Stages] /\ reply' \in [Requests -> Replies]
      BY <1>4 DEF Send, Refuse, TypeOK, Stages, Replies
    <2>7. Append(queue[e], r) \in Seq(Requests)
      BY DEF TypeOK
    <2>8. PICK s \in Seq(Requests) : queue' = [queue EXCEPT ![e] = s] \/ queue' = queue
      BY <1>4, <2>2, <2>7 DEF Send
    <2>9. queue' \in [Executors -> Seq(Requests)]
      BY <2>8 DEF TypeOK
    <2> QED BY <1>4, <2>5, <2>6, <2>9 DEF Send, TypeOK, WorkTypes, command
  <1>5. ASSUME NEW r \in Requests, FirstPoll(r) PROVE WorkTypes'
    BY <1>5 DEF FirstPoll, Refuse, TypeOK, WorkTypes, command, Stages, Replies
  <1>6. ASSUME NEW r \in Requests, TakeExclusion(r) PROVE WorkTypes'
    BY <1>6 DEF TakeExclusion, TypeOK, WorkTypes, command, Stages
  <1>7. ASSUME NEW r \in Requests, Commit(r) PROVE WorkTypes'
    <2>1. Script[r][did[r] + 1] \in StateChange
      <3>1. did[r] \in Nat /\ did[r] < Len(Script[r])
        BY <1>7 DEF Commit, TypeOK
      <3>2. Script[r] \in Seq(StateChange)
        BY ScriptAssumption
      <3>3. Len(Script[r]) \in Nat
        BY <3>2
      <3> QED BY <3>1, <3>2, <3>3, ElementOfSeq
    <2>2. Append(result[r], Script[r][did[r] + 1]) \in Seq(StateChange)
      BY <2>1 DEF TypeOK
    <2>3. result' \in [Requests -> Seq(StateChange)]
      BY <1>7, <2>2 DEF Commit, TypeOK
    <2>4. did' \in [Requests -> Nat]
      BY <1>7 DEF Commit, TypeOK
    <2> QED BY <1>7, <2>3, <2>4 DEF Commit, TypeOK, WorkTypes, calls
  <1>8. ASSUME NEW r \in Requests, Answer(r) PROVE WorkTypes'
    <2>1. /\ Succeeded(r) \in Seq(StateChange) /\ Failed(r) \in Seq(StateChange)
          /\ <<>> \in Seq(StateChange)
      BY DEF Succeeded, Failed, TypeOK
    <2>2. result' \in [Requests -> Seq(StateChange)]
      <3>1. PICK x \in Seq(StateChange) : result' = [result EXCEPT ![r] = x]
        BY <1>8, <2>1 DEF Answer
      <3> QED BY <3>1 DEF TypeOK
    <2>3. /\ stage' \in [Requests -> Stages] /\ reply' \in [Requests -> Replies]
          /\ held' \in [Requests -> Nat]
      BY <1>8 DEF Answer, TypeOK, Stages, Replies
    <2>4. poisoned' \in [Executors -> BOOLEAN]
      BY <1>8 DEF Answer, TypeOK
    <2> QED BY <1>8, <2>2, <2>3, <2>4 DEF Answer, TypeOK, WorkTypes
  <1>9. ASSUME NEW r \in Requests, ReleaseSlot(r) PROVE WorkTypes'
    <2>1. at[r] \in Executors
      BY <1>9 DEF QueueSound, ReleaseSlot
    <2>2. PICK e \in Executors, a \in Admissions : e = at[r] /\ a = Admission(r)
      BY <2>1, AdmissionType
    <2>3. active[e][a] - 1 \in Int
      BY DEF TypeOK
    <2>4. active' = [active EXCEPT ![e][a] = active[e][a] - 1]
      BY <1>9, <2>2 DEF ReleaseSlot
    <2>5. active' \in [Executors -> [Admissions -> Int]]
      BY <2>3, <2>4, CounterType
    <2>6. stage' \in [Requests -> Stages]
      BY <1>9 DEF ReleaseSlot, TypeOK, Stages
    <2> QED BY <1>9, <2>5, <2>6 DEF ReleaseSlot, TypeOK, WorkTypes, command
  <1> QED BY <1>1, <1>2, <1>3, <1>4, <1>5, <1>6, <1>7, <1>8, <1>9 DEF WorkStep, Caller, Command

LEMMA TypeStep ==
    ASSUME TypeOK, QueueSound, [Next]_vars PROVE TypeOK'
  <1>1. SessionTypes /\ WorkTypes
    BY TypeParts
  <1>2. UNCHANGED session => SessionTypes'
    BY <1>1 DEF session, SessionTypes
  <1>3. UNCHANGED work => WorkTypes'
    BY <1>1 DEF work, calls, command, WorkTypes
  <1>4. SessionTypes' /\ WorkTypes'
    BY <1>2, <1>3, NextCases, SessionTypesStep, WorkTypesStep
  <1> QED BY <1>4 DEF TypeOK, SessionTypes, WorkTypes

-----------------------------------------------------------------------------
(* The theorems.                                                             *)

LEMMA InvInit == ASSUME Init PROVE ExecutorInv
  <1>1. TypeOK
    <2>1. SessionTypes
      <3>1. /\ handles \in [Executors -> BOOLEAN] /\ alive \in [Executors -> BOOLEAN]
            /\ state \in [Executors -> States]
        BY DEF Init, States
      <3>2. version \in Nat /\ slot = Free /\ opening = NoExecutor /\ outside = FALSE /\ overtaken = FALSE
        BY DEF Init
      <3> QED BY <3>1, <3>2 DEF SessionTypes
    <2>2. queue \in [Executors -> Seq(Requests)] /\ result \in [Requests -> Seq(StateChange)]
      BY DEF Init
    <2>3. /\ active \in [Executors -> [Admissions -> Int]] /\ poisoned \in [Executors -> BOOLEAN]
          /\ at \in [Requests -> Executors \cup {NoExecutor}]
      BY DEF Init
    <2>4. /\ stage \in [Requests -> Stages] /\ held \in [Requests -> Nat]
          /\ reply \in [Requests -> Replies] /\ did \in [Requests -> Nat]
      BY DEF Init, Stages, Replies
    <2> QED BY <2>1, <2>2, <2>3, <2>4, TypeParts DEF WorkTypes
  <1>2. LockSound
    BY DEF Init, LockSound
  <1>3. SessionSound
    BY DEF Init, SessionSound
  <1>4. QueueSound
    BY DEF Init, QueueSound, Received
  <1>5. ExclusionSound
    BY DEF Init, ExclusionSound, Holds
  <1>6. AnswerSound
    BY DEF Init, AnswerSound, Recorded
  <1> QED BY <1>1, <1>2, <1>3, <1>4, <1>5, <1>6 DEF ExecutorInv

LEMMA InvStep == ASSUME ExecutorInv, [Next]_vars PROVE ExecutorInv'
  BY TypeStep, LockStep, SessionsStep, QueueStep, ExclusionStep, AnswerStep DEF ExecutorInv

(* The parts the properties rest on hold together in every state: the registry *)
(* accounts for the sessions, the queues for the requests sent, the exclusions  *)
(* for the commands that run, and the answers for what is durable.              *)
THEOREM ExecutorInvariance == Spec => []ExecutorInv
  <1>1. Init => ExecutorInv
    BY InvInit
  <1>2. ExecutorInv /\ [Next]_vars => ExecutorInv'
    BY InvStep
  <1> QED BY <1>1, <1>2, PTL DEF Spec

(* At most one worker runs on the profile and the registry names it            *)
(* (executor_for, shutdown, SessionSlot), however many sessions are opened,     *)
(* closed or abandoned, until an open overtakes the shutdown of an abandoned    *)
(* one; another process and a foreign schema stay out even then.               *)
THEOREM OneSessionAtATime == Spec => []OneSession
  <1>1. ExecutorInv => OneSession
    <2> SUFFICES ASSUME ExecutorInv PROVE OneSession
      OBVIOUS
    <2>1. TypeOK /\ LockSound /\ (~overtaken => SessionSound)
      BY DEF ExecutorInv
    <2>2. ~overtaken => \A e, f \in Executors : alive[e] /\ alive[f] => e = f
      BY <2>1 DEF SessionSound, TypeOK
    <2> QED BY <2>1, <2>2 DEF OneSession, LockSound, SessionSound
  <1> QED BY <1>1, ExecutorInvariance, PTL

(* Two commands that sync, or two that enrol, never run at the same time, in    *)
(* one session or across any number (the lanes of command_future), as long as   *)
(* no open has overtaken the shutdown that a dropped last handle starts.        *)
THEOREM CommandsExclude == Spec => [](~overtaken => NoOverlap)
  <1>1. ExecutorInv => (~overtaken => NoOverlap)
    <2> SUFFICES ASSUME ExecutorInv, ~overtaken, NEW q \in Requests, NEW r \in Requests,
                        stage[q] = "running", stage[r] = "running", q # r,
                        NEW group \in {SyncLike, EnrollLike},
                        Asked[q] \in group, Asked[r] \in group
                 PROVE  FALSE
      BY DEF NoOverlap
    <2>1. TypeOK /\ SessionSound /\ QueueSound /\ ExclusionSound
      BY DEF ExecutorInv
    <2>2. at[q] \in Executors /\ at[r] \in Executors /\ alive[at[q]] /\ alive[at[r]]
      BY <2>1 DEF QueueSound, Received
    <2>3. at[q] = at[r]
      BY <2>1, <2>2 DEF SessionSound, TypeOK
    <2>4. Holds(q) \cap Holds(r) = {}
      BY <2>1, <2>3 DEF ExclusionSound
    <2>5. held[q] = Len(Locks(q)) /\ held[r] = Len(Locks(r))
      BY <2>1 DEF ExclusionSound
    <2>6. PICK x : /\ \E i \in 1..Len(Locks(q)) : Locks(q)[i] = x
                   /\ \E i \in 1..Len(Locks(r)) : Locks(r)[i] = x
      BY GroupExclusions DEF Locks
    <2>7. x \in Holds(q) /\ x \in Holds(r)
      BY <2>5, <2>6 DEF Holds
    <2> QED BY <2>4, <2>7
  <1> QED BY <1>1, ExecutorInvariance, PTL

(* A chat mutation is reported accepted exactly when what it accepted is        *)
(* durable (run_operation_with_value, chat_mutation), whatever else fails,      *)
(* panics elsewhere or closes; unlike the other two, also after an open has     *)
(* overtaken a shutdown.                                                        *)
THEOREM RetriesAreSafe == Spec => []RetryIsSafe
  <1>1. ExecutorInv => RetryIsSafe
    <2> SUFFICES ASSUME ExecutorInv, NEW r \in Requests, Asked[r] \in ChatMutations,
                        reply[r] \notin {"none", "panicked"}
                 PROVE  (chat_mutation(r) = "accepted") = Durable(r)
      BY DEF RetryIsSafe
    <2>1. Keeps(Asked[r])
      BY MutationsAnswer
    <2>2. Recorded(r) /\ result[r] \in Seq(StateChange) /\ did[r] \in Nat
      BY <2>1 DEF ExecutorInv, AnswerSound, TypeOK
    <2>3. DOMAIN result[r] = 1..did[r]
      BY <2>2 DEF Recorded
    <2>4. (\E i \in DOMAIN result[r] : result[r][i] \in Accepting) <=> Durable(r)
      BY <2>2, <2>3 DEF Recorded, Durable
    <2>5. chat_mutation(r) = "accepted" <=> Durable(r)
      BY <2>4 DEF chat_mutation
    <2>6. Durable(r) \in BOOLEAN
      BY DEF Durable
    <2> QED BY <2>5, <2>6
  <1> QED BY <1>1, ExecutorInvariance, PTL

-----------------------------------------------------------------------------
(* What the commands record goes to the screens that follow the profile      *)
(* (Streams): nothing is lost in a channel without being counted.            *)

HIDE ExecutorAssumption

CONSTANTS FragmentData, MaxFrame, Generations, WatchCapacity, Recordable, ChangesMax,
          Endpoints, FaultsMax

VARIABLES following, profile, counter, screen, thread, sequence, sub, tried, last, pending, asked,
          wire, served, hub, woken, mail, news, revoked, faults

S == INSTANCE Streams

Event == [gap : Nat] \cup [number : Nat]
Channel == [live : BOOLEAN, queue : Seq(Event), dropped : Nat, heard : Nat]

\* Every channel is one, and a live one accounts for what was published.
StreamsInv ==
    /\ sequence \in Nat /\ sub \in [Generations -> Channel]
    /\ S!GapAccounted

LEMMA EventWeight ==
    ASSUME NEW e \in Event
    PROVE  /\ S!Weight(e) \in Nat
           /\ \A n \in Nat : e = [gap |-> n] => S!Weight(e) = n /\ "number" \notin DOMAIN e
           /\ \A n \in Nat : e = [number |-> n] => S!Weight(e) = 1 /\ e.number = n
  BY DEF Event, S!Weight

\* place says where the elements of a queue stand.
Placed(elems, place, heard, published) ==
    /\ place \in [0..Len(elems) -> 0..published]
    /\ place[0] = heard
    /\ \A i \in DOMAIN elems :
          /\ place[i] = place[i - 1] + S!Weight(elems[i])
          /\ "number" \in DOMAIN elems[i] => elems[i].number = place[i - 1]

LEMMA AccountedIs ==
    ASSUME NEW ch, NEW n
    PROVE  S!Accounted(ch, n) <=>
               \E place : Placed(ch.queue, place, ch.heard, n)
                          /\ place[Len(ch.queue)] + ch.dropped = n
  BY DEF S!Accounted, Placed

LEMMA JoinedSeq ==
    ASSUME NEW s \in Seq(Event), NEW e \in Event
    PROVE  /\ s \o <<e>> = Append(s, e) /\ s \o <<>> = s
           /\ Append(s, e) \in Seq(Event) /\ Len(Append(s, e)) = Len(s) + 1
  <1>1. s \o <<>> = s
    BY ConcatEmptySeq
  <1>2. s \o <<e>> = Append(s, e)
    OBVIOUS
  <1> QED BY <1>1, <1>2

\* One element more stands behind all others.
LEMMA PlacedAppend ==
    ASSUME NEW elems \in Seq(Event), NEW place, NEW heard, NEW n \in Nat, NEW e \in Event,
           Placed(elems, place, heard, n),
           NEW m \in Nat, n <= m, place[Len(elems)] + S!Weight(e) <= m,
           "number" \in DOMAIN e => e.number = place[Len(elems)]
    PROVE  \E longer : /\ Placed(Append(elems, e), longer, heard, m)
                       /\ longer[Len(elems) + 1] = place[Len(elems)] + S!Weight(e)
  <1> DEFINE k == Len(elems)
             longer == [i \in 0..(k + 1) |-> IF i = k + 1 THEN place[k] + S!Weight(e) ELSE place[i]]
             q == Append(elems, e)
  <1>1. /\ k \in Nat /\ DOMAIN elems = 1..k /\ Len(q) = k + 1 /\ DOMAIN q = 1..(k + 1)
        /\ q[k + 1] = e /\ \A i \in 1..k : q[i] = elems[i]
    OBVIOUS
  <1>2. place \in [0..k -> 0..n] /\ place[k] \in 0..n /\ S!Weight(e) \in Nat
    BY <1>1, EventWeight DEF Placed
  <1>3. longer \in [0..(k + 1) -> 0..m]
    <2>1. place[k] + S!Weight(e) \in 0..m
      BY <1>2
    <2>2. ASSUME NEW i \in 0..(k + 1), i # k + 1 PROVE place[i] \in 0..m
      <3>1. i \in 0..k
        BY <1>1, <2>2
      <3>2. place[i] \in 0..n
        BY <1>2, <3>1
      <3> QED BY <3>2
    <2> QED BY <2>1, <2>2
  <1>4. longer[0] = heard
    BY <1>1 DEF Placed
  <1>5. ASSUME NEW i \in DOMAIN q
        PROVE  /\ longer[i] = longer[i - 1] + S!Weight(q[i])
               /\ "number" \in DOMAIN q[i] => q[i].number = longer[i - 1]
    <2>1. CASE i = k + 1
      <3>1. longer[i] = place[k] + S!Weight(e) /\ longer[i - 1] = place[k] /\ q[i] = e
        <4>1. i \in 0..(k + 1) /\ i - 1 = k /\ k \in 0..(k + 1) /\ k # k + 1
          <5> HIDE DEF q, k
          <5> QED BY <1>1, <2>1
        <4> QED BY <1>1, <2>1, <4>1
      <3> QED BY <3>1
    <2>2. CASE i # k + 1
      <3>1. i \in 1..k /\ i - 1 \in 0..k
        BY <1>1, <2>2
      <3>2. longer[i] = place[i] /\ longer[i - 1] = place[i - 1] /\ q[i] = elems[i]
        BY <1>1, <3>1
      <3> HIDE DEF longer, q
      <3> QED BY <1>1, <3>1, <3>2 DEF Placed
    <2> QED BY <2>1, <2>2
  <1>6. Placed(q, longer, heard, m)
    <2> HIDE DEF longer, q
    <2> QED BY <1>1, <1>3, <1>4, <1>5 DEF Placed
  <1>7. longer[k + 1] = place[k] + S!Weight(e)
    BY <1>1
  <1> HIDE DEF longer
  <1> QED BY <1>6, <1>7

\* What is published is heard, dropped and counted, or announced.
LEMMA OfferedAccounts ==
    ASSUME NEW ch \in Channel, NEW n \in Nat, ch.live, S!Accounted(ch, n)
    PROVE  /\ S!Offered(ch, n) \in Channel
           /\ S!Accounted(S!Offered(ch, n), n + 1)
  <1> DEFINE gap == IF ch.dropped > 0 THEN <<[gap |-> ch.dropped]>> ELSE <<>>
             room == WatchCapacity - Len(ch.queue)
             event == [number |-> n]
             missed == [gap |-> ch.dropped]
             new == S!Offered(ch, n)
  <1>1. /\ ch.queue \in Seq(Event) /\ Len(ch.queue) \in Nat /\ ch.dropped \in Nat /\ ch.heard \in Nat
        /\ event \in Event /\ missed \in Event
    BY DEF Channel, Event
  <1>2. /\ S!Weight(event) = 1 /\ event.number = n
        /\ S!Weight(missed) = ch.dropped /\ "number" \notin DOMAIN missed
    BY <1>1, EventWeight
  <1>3. PICK place : Placed(ch.queue, place, ch.heard, n) /\ place[Len(ch.queue)] + ch.dropped = n
    BY AccountedIs
  <1>4. place[Len(ch.queue)] \in 0..n /\ place \in [0..Len(ch.queue) -> 0..n]
    BY <1>1, <1>3 DEF Placed
  <1>5. Placed(ch.queue, place, ch.heard, n + 1)
    <2>1. \A y \in 0..n : y \in 0..(n + 1)
      OBVIOUS
    <2>2. place \in [0..Len(ch.queue) -> 0..(n + 1)]
      BY <1>4, <2>1
    <2> QED BY <1>3, <2>2 DEF Placed
  <1> HIDE DEF event, missed
  <1>6. CASE room < Len(gap)
    <2>1. new = [ch EXCEPT !.dropped = ch.dropped + 1]
      BY <1>6 DEF S!Offered, missed
    <2>2. /\ new \in Channel /\ new.queue = ch.queue /\ new.heard = ch.heard
          /\ new.dropped = ch.dropped + 1
      BY <1>1, <2>1 DEF Channel
    <2>3. place[Len(ch.queue)] + new.dropped = n + 1
      BY <1>1, <1>3, <1>4, <2>2
    <2> HIDE DEF new
    <2> QED BY <1>5, <2>2, <2>3, AccountedIs DEF new
  <1>7. CASE ~(room < Len(gap)) /\ room < Len(gap) + 1
    <2>1. new = [ch EXCEPT !.queue = ch.queue \o gap, !.dropped = 1]
      BY <1>7 DEF S!Offered, missed
    <2>2. CASE ch.dropped > 0
      <3>1. gap = <<missed>>
        BY <2>2 DEF missed
      <3>2. /\ new \in Channel /\ new.queue = Append(ch.queue, missed) /\ new.heard = ch.heard
            /\ new.dropped = 1 /\ Len(new.queue) = Len(ch.queue) + 1
        <4> DEFINE q == ch.queue \o gap
        <4> HIDE DEF new, gap
        <4>1. new = [ch EXCEPT !.queue = q, !.dropped = 1]
          BY <2>1
        <4>2. q \in Seq(Event) /\ q = Append(ch.queue, missed) /\ Len(q) = Len(ch.queue) + 1
          BY <1>1, <3>1, JoinedSeq
        <4> HIDE DEF q
        <4>3. new \in Channel /\ new.queue = q /\ new.heard = ch.heard /\ new.dropped = 1
          BY <1>1, <4>1, <4>2 DEF Channel
        <4> QED BY <4>2, <4>3
      <3>3. PICK longer : /\ Placed(Append(ch.queue, missed), longer, ch.heard, n + 1)
                          /\ longer[Len(ch.queue) + 1] = place[Len(ch.queue)] + S!Weight(missed)
        <4>1. place[Len(ch.queue)] + S!Weight(missed) <= n + 1 /\ n <= n + 1 /\ n + 1 \in Nat
          BY <1>2, <1>3
        <4> HIDE DEF new, gap, room
        <4> QED BY <1>1, <1>2, <1>3, <4>1, PlacedAppend
      <3>4. longer[Len(new.queue)] + new.dropped = n + 1
        BY <1>2, <1>3, <3>2, <3>3
      <3> HIDE DEF new
      <3> QED BY <3>2, <3>3, <3>4, AccountedIs DEF new
    <2>3. CASE ~(ch.dropped > 0)
      <3>1. gap = <<>> /\ ch.dropped = 0
        BY <1>1, <2>3
      <3>2. /\ new \in Channel /\ new.queue = ch.queue /\ new.heard = ch.heard
            /\ new.dropped = 1
        <4> DEFINE q == ch.queue \o gap
        <4> HIDE DEF new, gap
        <4>1. new = [ch EXCEPT !.queue = q, !.dropped = 1]
          BY <2>1
        <4>2. q \in Seq(Event) /\ q = ch.queue
          BY <1>1, <3>1, JoinedSeq
        <4> HIDE DEF q
        <4>3. new \in Channel /\ new.queue = q /\ new.heard = ch.heard /\ new.dropped = 1
          BY <1>1, <4>1, <4>2 DEF Channel
        <4> QED BY <4>2, <4>3
      <3>3. place[Len(ch.queue)] + new.dropped = n + 1
        BY <1>3, <1>4, <3>1, <3>2
      <3> HIDE DEF new
      <3> QED BY <1>5, <3>2, <3>3, AccountedIs DEF new
    <2> QED BY <2>2, <2>3
  <1>8. CASE ~(room < Len(gap)) /\ ~(room < Len(gap) + 1)
    <2>1. new = [ch EXCEPT !.queue = ch.queue \o gap \o <<event>>, !.dropped = 0]
      BY <1>8 DEF S!Offered, missed, event
    <2>2. CASE ch.dropped > 0
      <3> DEFINE first == Append(ch.queue, missed)
      <3>1. /\ first \in Seq(Event) /\ Len(first) = Len(ch.queue) + 1
            /\ ch.queue \o gap \o <<event>> = Append(first, event)
            /\ Append(first, event) \in Seq(Event) /\ Len(Append(first, event)) = Len(first) + 1
        <4>1. gap = <<missed>>
          BY <2>2 DEF missed
        <4>2. first = ch.queue \o gap /\ first \in Seq(Event) /\ Len(first) = Len(ch.queue) + 1
          BY <1>1, <4>1, JoinedSeq
        <4> HIDE DEF first, gap
        <4> QED BY <1>1, <4>2, JoinedSeq
      <3>2. /\ new \in Channel /\ new.queue = Append(first, event) /\ new.heard = ch.heard
            /\ new.dropped = 0
        <4> DEFINE q == ch.queue \o gap \o <<event>>
        <4> HIDE DEF new, gap, first
        <4>1. new = [ch EXCEPT !.queue = q, !.dropped = 0]
          BY <2>1
        <4>2. q \in Seq(Event) /\ q = Append(first, event)
          BY <3>1
        <4> HIDE DEF q
        <4>3. new \in Channel /\ new.queue = q /\ new.heard = ch.heard /\ new.dropped = 0
          BY <1>1, <4>1, <4>2 DEF Channel
        <4> QED BY <4>2, <4>3
      <3>3. PICK longer : /\ Placed(first, longer, ch.heard, n)
                          /\ longer[Len(first)] = place[Len(ch.queue)] + S!Weight(missed)
        BY <1>1, <1>2, <1>3, <1>4, <3>1, PlacedAppend
      <3>4. longer[Len(first)] = n
        BY <1>2, <1>3, <3>3
      <3> HIDE DEF first
      <3>5. PICK longest : /\ Placed(Append(first, event), longest, ch.heard, n + 1)
                           /\ longest[Len(first) + 1] = longer[Len(first)] + S!Weight(event)
        <4>1. longer[Len(first)] + S!Weight(event) <= n + 1 /\ n <= n + 1 /\ n + 1 \in Nat
          BY <1>2, <3>4
        <4> HIDE DEF new, gap, room
        <4> QED BY <1>1, <1>2, <3>1, <3>3, <3>4, <4>1, PlacedAppend
      <3>6. longest[Len(new.queue)] + new.dropped = n + 1
        BY <1>2, <3>1, <3>2, <3>4, <3>5
      <3> HIDE DEF new
      <3> QED BY <3>2, <3>5, <3>6, AccountedIs DEF new
    <2>3. CASE ~(ch.dropped > 0)
      <3>1. /\ ch.queue \o gap \o <<event>> = Append(ch.queue, event) /\ ch.dropped = 0
            /\ Append(ch.queue, event) \in Seq(Event)
            /\ Len(Append(ch.queue, event)) = Len(ch.queue) + 1
        <4>1. gap = <<>> /\ ch.dropped = 0
          BY <1>1, <2>3
        <4> HIDE DEF gap
        <4> QED BY <1>1, <4>1, JoinedSeq
      <3>2. /\ new \in Channel /\ new.queue = Append(ch.queue, event) /\ new.heard = ch.heard
            /\ new.dropped = 0
        <4> DEFINE q == ch.queue \o gap \o <<event>>
        <4> HIDE DEF new, gap
        <4>1. new = [ch EXCEPT !.queue = q, !.dropped = 0]
          BY <2>1
        <4>2. q \in Seq(Event) /\ q = Append(ch.queue, event)
          BY <3>1
        <4> HIDE DEF q
        <4>3. new \in Channel /\ new.queue = q /\ new.heard = ch.heard /\ new.dropped = 0
          BY <1>1, <4>1, <4>2 DEF Channel
        <4> QED BY <4>2, <4>3
      <3>3. place[Len(ch.queue)] = n
        BY <1>3, <1>4, <3>1
      <3>4. PICK longer : /\ Placed(Append(ch.queue, event), longer, ch.heard, n + 1)
                          /\ longer[Len(ch.queue) + 1] = place[Len(ch.queue)] + S!Weight(event)
        <4>1. place[Len(ch.queue)] + S!Weight(event) <= n + 1 /\ n <= n + 1 /\ n + 1 \in Nat
          BY <1>2, <3>3
        <4> HIDE DEF new, gap, room
        <4>2. event.number = place[Len(ch.queue)]
          BY <1>2, <3>3
        <4> HIDE DEF new, gap, room
        <4>3. n \in Nat /\ n + 1 \in Nat
          OBVIOUS
        <4>4. Placed(ch.queue, place, ch.heard, n) /\ ch.queue \in Seq(Event) /\ event \in Event
          BY <1>1, <1>3
        <4>5. \E longer : /\ Placed(Append(ch.queue, event), longer, ch.heard, n + 1)
                          /\ longer[Len(ch.queue) + 1] = place[Len(ch.queue)] + S!Weight(event)
          BY <4>1, <4>2, <4>3, <4>4, PlacedAppend
        <4> QED BY <4>5
      <3>5. longer[Len(new.queue)] + new.dropped = n + 1
        BY <1>2, <3>1, <3>2, <3>3, <3>4
      <3> HIDE DEF new
      <3> QED BY <3>2, <3>4, <3>5, AccountedIs DEF new
    <2> QED BY <2>2, <2>3
  <1> QED BY <1>6, <1>7, <1>8

\* The first element is heard: the others stand where they stood.
LEMMA HeardAccounts ==
    ASSUME NEW ch \in Channel, NEW n \in Nat, ch.queue # <<>>, S!Accounted(ch, n)
    PROVE  LET new == [ch EXCEPT !.queue = Tail(@), !.heard = @ + S!Weight(Head(ch.queue))]
           IN  new \in Channel /\ S!Accounted(new, n) /\ new.live = ch.live
  <1> DEFINE k == Len(ch.queue)
             rest == Tail(ch.queue)
             heard == ch.heard + S!Weight(Head(ch.queue))
             new == [ch EXCEPT !.queue = rest, !.heard = heard]
  <1>1. /\ ch.queue \in Seq(Event) /\ ch.heard \in Nat /\ ch.dropped \in Nat
    BY DEF Channel
  <1>2. /\ k \in Nat \ {0} /\ DOMAIN ch.queue = 1..k /\ Head(ch.queue) = ch.queue[1]
        /\ rest \in Seq(Event) /\ Len(rest) = k - 1 /\ DOMAIN rest = 1..(k - 1)
        /\ \A i \in 1..(k - 1) : rest[i] = ch.queue[i + 1]
    BY <1>1
  <1>3. Head(ch.queue) \in Event /\ heard \in Nat
    BY <1>1, <1>2, EventWeight
  <1>4. /\ new \in Channel /\ new.queue = rest /\ new.heard = heard /\ new.dropped = ch.dropped
        /\ new.live = ch.live
    BY <1>1, <1>2, <1>3 DEF Channel
  <1>5. PICK place : Placed(ch.queue, place, ch.heard, n) /\ place[k] + ch.dropped = n
    BY AccountedIs
  <1> DEFINE shorter == [i \in 0..(k - 1) |-> place[i + 1]]
  <1>6. place \in [0..k -> 0..n] /\ place[0] = ch.heard
    BY <1>5 DEF Placed
  <1>7. shorter \in [0..(k - 1) -> 0..n]
    <2>1. \A i \in 0..(k - 1) : i + 1 \in 0..k
      BY <1>2
    <2> QED BY <1>6, <2>1
  <1>8. shorter[0] = heard /\ shorter[k - 1] = place[k]
    <2>1. shorter[0] = place[1] /\ shorter[k - 1] = place[k]
      BY <1>2
    <2>2. place[1] = place[0] + S!Weight(ch.queue[1])
      BY <1>2, <1>5 DEF Placed
    <2> QED BY <1>2, <1>6, <2>1, <2>2
  <1>9. ASSUME NEW i \in 1..(k - 1)
        PROVE  /\ shorter[i] = shorter[i - 1] + S!Weight(rest[i])
               /\ "number" \in DOMAIN rest[i] => rest[i].number = shorter[i - 1]
    <2>1. /\ shorter[i] = place[i + 1] /\ shorter[i - 1] = place[i] /\ rest[i] = ch.queue[i + 1]
          /\ i + 1 \in 1..k /\ (i + 1) - 1 = i
      BY <1>2
    <2>2. /\ place[i + 1] = place[(i + 1) - 1] + S!Weight(ch.queue[i + 1])
          /\ "number" \in DOMAIN ch.queue[i + 1] => ch.queue[i + 1].number = place[(i + 1) - 1]
      BY <1>2, <1>5, <2>1 DEF Placed
    <2> HIDE DEF shorter, rest
    <2> QED BY <2>1, <2>2
  <1>10. Placed(rest, shorter, heard, n)
    <2> HIDE DEF shorter, rest, heard
    <2> QED BY <1>2, <1>7, <1>8, <1>9 DEF Placed
  <1>11. S!Accounted(new, n)
    <2> HIDE DEF shorter, rest, heard, new
    <2> QED BY <1>2, <1>4, <1>5, <1>8, <1>10, AccountedIs
  <1> QED BY <1>4, <1>11

\* A channel nobody hears, and one that starts now.
LEMMA FreshAccounts ==
    ASSUME NEW n \in Nat
    PROVE  LET new == [S!NoChannel EXCEPT !.live = TRUE, !.heard = n]
           IN  S!NoChannel \in Channel /\ ~S!NoChannel.live /\ new \in Channel /\ S!Accounted(new, n)
  <1> DEFINE new == [S!NoChannel EXCEPT !.live = TRUE, !.heard = n]
             place == [i \in {0} |-> n]
  <1>1. S!NoChannel \in Channel /\ ~S!NoChannel.live
    BY DEF S!NoChannel, Channel
  <1>2. new \in Channel /\ new.queue = <<>> /\ new.heard = n /\ new.dropped = 0
    <2>1. S!NoChannel.queue = <<>> /\ S!NoChannel.dropped = 0
      BY DEF S!NoChannel
    <2> DEFINE ch == S!NoChannel
    <2>2. ch \in Channel /\ ch.queue = <<>> /\ ch.dropped = 0
      BY <1>1, <2>1
    <2> HIDE DEF ch
    <2>3. new = [ch EXCEPT !.live = TRUE, !.heard = n]
      BY DEF ch
    <2> HIDE DEF new
    <2> QED BY <2>2, <2>3 DEF Channel
  <1>3. Placed(<<>>, place, n, n)
    <2>1. Len(<<>>) = 0 /\ 0..0 = {0} /\ DOMAIN <<>> = {} /\ n \in 0..n
      OBVIOUS
    <2>2. place \in [0..0 -> 0..n] /\ place[0] = n
      BY <2>1
    <2> QED BY <2>1, <2>2 DEF Placed
  <1>4. place[Len(<<>>)] + 0 = n
    OBVIOUS
  <1>5. S!Accounted(new, n)
    <2> HIDE DEF new, place
    <2> QED BY <1>2, <1>3, <1>4, AccountedIs
  <1> QED BY <1>1, <1>2, <1>5

LEMMA StreamsInit == S!Init => StreamsInv
  <1> SUFFICES ASSUME S!Init PROVE StreamsInv
    OBVIOUS
  <1>1. sequence = 0 /\ sub = [g \in Generations |-> S!NoChannel]
    BY DEF S!Init, S!Each
  <1>2. S!NoChannel \in Channel /\ ~S!NoChannel.live
    BY FreshAccounts
  <1> QED BY <1>1, <1>2 DEF StreamsInv, S!GapAccounted

\* A step accounts for each channel if the ones it changes are accounted for.
LEMMA StreamsKept ==
    ASSUME sequence' \in Nat, DOMAIN sub' = Generations,
           sub' = [g \in Generations |-> sub'[g]],
           \A g \in Generations :
               sub'[g] \in Channel /\ (sub'[g].live => S!Accounted(sub'[g], sequence'))
    PROVE  StreamsInv'
  <1>1. S!GapAccounted'
    BY DEF S!GapAccounted, S!Accounted, S!Weight
  <1> QED BY <1>1 DEF StreamsInv

LEMMA StreamsQuiet ==
    ASSUME StreamsInv, UNCHANGED <<sequence, sub>>
    PROVE  StreamsInv'
  BY DEF StreamsInv, S!GapAccounted, S!Accounted, S!Weight

LEMMA WatchAccounts ==
    ASSUME StreamsInv, NEW g \in Generations, S!watch(g) PROVE StreamsInv'
  <1> DEFINE new == [S!NoChannel EXCEPT !.live = TRUE, !.heard = sequence]
  <1>1. sequence \in Nat /\ sub \in [Generations -> Channel] /\ sequence' = sequence
    BY DEF StreamsInv, S!watch
  <1>2. new \in Channel /\ S!Accounted(new, sequence)
    BY <1>1, FreshAccounts
  <1>3. sub' = sub \/ sub' = [sub EXCEPT ![g] = new]
    BY DEF S!watch
  <1> HIDE DEF new
  <1>4. \A h \in Generations : sub'[h] = sub[h] \/ sub'[h] = new
    BY <1>1, <1>3
  <1>5. DOMAIN sub' = Generations /\ sub' = [h \in Generations |-> sub'[h]]
    BY <1>1, <1>3
  <1>6. \A h \in Generations : sub[h] \in Channel /\ (sub[h].live => S!Accounted(sub[h], sequence))
    BY <1>1 DEF StreamsInv, S!GapAccounted
  <1> QED BY <1>1, <1>2, <1>4, <1>5, <1>6, StreamsKept

LEMMA RecordAccounts ==
    ASSUME StreamsInv, NEW change, S!record_change(change) PROVE StreamsInv'
  <1>1. /\ sequence \in Nat /\ sub \in [Generations -> Channel] /\ sequence' = sequence + 1
        /\ sub' = [g \in Generations |-> S!Offered(sub[g], sequence)]
    BY DEF StreamsInv, S!record_change
  <1>2. ASSUME NEW g \in Generations
        PROVE  sub'[g] \in Channel /\ (sub'[g].live => S!Accounted(sub'[g], sequence'))
    <2>1. sub'[g] = S!Offered(sub[g], sequence) /\ sub[g] \in Channel
      BY <1>1
    <2>2. CASE sub[g].live
      <3>1. S!Accounted(sub[g], sequence)
        BY <2>2 DEF StreamsInv, S!GapAccounted
      <3> QED BY <1>1, <2>1, <2>2, <3>1, OfferedAccounts
    <2>3. CASE ~sub[g].live
      <3>1. sub'[g] = sub[g]
        BY <2>1, <2>3 DEF S!Offered
      <3> QED BY <2>1, <2>3, <3>1
    <2> QED BY <2>2, <2>3
  <1>3. DOMAIN sub' = Generations /\ sub' = [g \in Generations |-> sub'[g]] /\ sequence' \in Nat
    BY <1>1
  <1> QED BY <1>2, <1>3, StreamsKept

LEMMA WatchWithAccounts ==
    ASSUME StreamsInv, NEW g \in Generations, S!watch_with(g) PROVE StreamsInv'
  <1> DEFINE new == [sub[g] EXCEPT !.queue = Tail(@), !.heard = @ + S!Weight(Head(sub[g].queue))]
             heardNow == IF sub[g].queue = <<>> THEN sub[g] ELSE new
             over == counter # g \/ (sub[g].queue = <<>> /\ S!Gone)
  <1>1. /\ sequence \in Nat /\ sub \in [Generations -> Channel] /\ sequence' = sequence
        /\ sub' = [sub EXCEPT ![g] = IF over THEN S!NoChannel ELSE heardNow]
    BY DEF StreamsInv, S!watch_with
  <1>2. \A h \in Generations : sub[h] \in Channel /\ (sub[h].live => S!Accounted(sub[h], sequence))
    BY <1>1 DEF StreamsInv, S!GapAccounted
  <1>3. heardNow \in Channel /\ (heardNow.live => S!Accounted(heardNow, sequence))
    <2>1. CASE sub[g].queue = <<>>
      BY <1>2, <2>1
    <2>2. CASE sub[g].queue # <<>> /\ sub[g].live
      <3>1. new \in Channel /\ S!Accounted(new, sequence)
        BY <1>1, <1>2, <2>2, HeardAccounts
      <3> HIDE DEF new
      <3> QED BY <2>2, <3>1
    <2>3. CASE sub[g].queue # <<>> /\ ~sub[g].live
      <3>1. sub[g].queue \in Seq(Event) /\ sub[g].heard \in Nat /\ sub[g] \in Channel
        BY <1>1 DEF Channel
      <3>2. Tail(sub[g].queue) \in Seq(Event) /\ Head(sub[g].queue) \in Event
        BY <2>3, <3>1
      <3>3. sub[g].heard + S!Weight(Head(sub[g].queue)) \in Nat
        BY <3>1, <3>2, EventWeight
      <3>4. new \in Channel /\ new.live = sub[g].live
        BY <3>1, <3>2, <3>3 DEF Channel
      <3> HIDE DEF new
      <3> QED BY <2>3, <3>4
    <2> QED BY <2>1, <2>2, <2>3
  <1>4. S!NoChannel \in Channel /\ ~S!NoChannel.live
    BY <1>1, FreshAccounts
  <1> HIDE DEF heardNow, over
  <1>5. \A h \in Generations : sub'[h] \in {sub[h], heardNow, S!NoChannel}
    BY <1>1
  <1>6. DOMAIN sub' = Generations /\ sub' = [h \in Generations |-> sub'[h]]
    BY <1>1
  <1> QED BY <1>1, <1>2, <1>3, <1>4, <1>5, <1>6, StreamsKept

LEMMA StreamsStep == StreamsInv /\ [S!Next]_S!vars => StreamsInv'
  <1> SUFFICES ASSUME StreamsInv, [S!Next]_S!vars PROVE StreamsInv'
    OBVIOUS
  <1>1. ASSUME NEW g \in Generations, S!watch(g) PROVE StreamsInv'
    BY <1>1, WatchAccounts
  <1>2. ASSUME NEW change, S!record_change(change) PROVE StreamsInv'
    BY <1>2, RecordAccounts
  <1>3. ASSUME NEW g \in Generations, S!watch_with(g) PROVE StreamsInv'
    BY <1>3, WatchWithAccounts
  <1>4. CASE S!start_watching \/ S!start_activity \/ S!close \/ S!DropHandle
    BY <1>4, StreamsQuiet DEF S!start_watching, S!start_activity, S!Reserve, S!close, S!DropHandle, S!feed
  <1>5. ASSUME NEW g \in Generations, S!stop_watching(g) \/ S!stop_activity(g) PROVE StreamsInv'
    BY <1>5, StreamsQuiet DEF S!stop_watching, S!stop_activity, S!Release, S!feed
  <1>6. ASSUME NEW g \in Generations, S!watch_activity(g) \/ S!Activity(g) PROVE StreamsInv'
    <2>1. UNCHANGED S!feed
      BY <1>6 DEF S!watch_activity, S!Activity, S!ClientOnly, S!OpenEndpoint, S!NoEndpoint,
                  S!KeepWakeup, S!Subscribed, S!RefusedWatch, S!next_wakeup, S!KeepAlive, S!Ponged,
                  S!SessionFails, S!Resume, S!StopCheck
    <2> QED BY <2>1, StreamsQuiet DEF S!feed
  <1>7. ASSUME NEW g \in Generations, S!Serve(g) \/ S!SessionEnds(g) PROVE StreamsInv'
    BY <1>7, StreamsQuiet DEF S!Serve, S!SessionEnds, S!RelayOnly, S!feed
  <1>8. CASE S!Deliver \/ S!Arrive \/ S!Fetch \/ S!Revoke
    BY <1>8, StreamsQuiet DEF S!Deliver, S!Arrive, S!Fetch, S!Revoke, S!RelayOnly, S!feed
  <1>9. CASE UNCHANGED S!vars
    BY <1>9, StreamsQuiet DEF S!vars, S!feed
  <1> QED BY <1>1, <1>2, <1>3, <1>4, <1>5, <1>6, <1>7, <1>8, <1>9 DEF S!Next, S!Asked

\* Whatever is recorded while however many screens follow the profile: a watcher
\* hears every event, or a gap that says how many it missed, for any size of channel.
THEOREM GapsAreAccounted == S!Spec => []S!GapAccounted
  <1>1. StreamsInv => S!GapAccounted
    BY DEF StreamsInv
  <1> QED BY <1>1, StreamsInit, StreamsStep, PTL DEF S!Spec
=============================================================================
