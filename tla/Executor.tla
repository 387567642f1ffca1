------------------------------ MODULE Executor ------------------------------
(***************************************************************************)
(* The session of one profile in one process (arveil-app/src/lib.rs:       *)
(* SerialExecutor, run_executor, command_future, executor_for, shutdown).  *)
(* Opening a profile registers an executor and starts a worker thread that *)
(* holds the profile's operating-system lock; callers on other threads     *)
(* submit commands and block for the reply; the worker interleaves the     *)
(* commands it received at their awaits, under the exclusions of their     *)
(* kind; closing stops admission, waits for the worker and frees the       *)
(* profile.  Each step of the module is one critical section or one stretch*)
(* between two awaits.                                                     *)
(***************************************************************************)
EXTENDS Integers, Sequences, FiniteSets, Commands

CONSTANTS Executors,     \* the sessions opened on the profile, each once
          Requests,      \* the commands callers submit, each once
          Asked,         \* Asked[r]: the command of the request
          Script,        \* Script[r]: the changes it records, in order, if nothing fails
          Limit,         \* Limit[a]: MAX_ACTIVE_SYNCS, _MUTATIONS, _QUERIES
          Supported,     \* PROFILE_SCHEMA_VERSION of this build
          Created,       \* the schema version the profile starts with
          NoExecutor,    \* a request not submitted yet
          Free,          \* the registry has no entry for the profile
          Closing        \* SessionSlot::Closing

Admissions == {"sync", "mutation", "query"}

ASSUME ExecutorAssumption ==
    /\ Asked \in [Requests -> ClientCommand]
    /\ Limit \in [Admissions -> Nat \ {0}]
    /\ Supported \in Nat /\ Created \in 0..(Supported + 1)
    /\ IsFiniteSet(Requests)
    /\ Free # Closing
    /\ {Free, Closing} \cap (Executors \cup {NoExecutor}) = {}
    /\ NoExecutor \notin Executors

\* A command outside a change scope records nothing (CHANGES.with would panic).
ASSUME ScriptAssumption ==
    /\ Script \in [Requests -> Seq(StateChange)]
    /\ \A r \in Requests : Script[r] # <<>> => Scoped(Asked[r])

VARIABLES slot,      \* SESSIONS[dir]: Free, Closing or the registered executor
          opening,   \* the executor being opened under the registry's mutex
          outside,   \* another process holds the profile's lock
          version,   \* PRAGMA user_version of the profile's database
          handles,   \* handles[e]: the executor has a strong reference, shared by clones
          state,     \* state[e]: how far e's life and shutdown have come
          alive,     \* alive[e]: its worker thread runs and holds the lock
          overtaken, \* an open found a last handle dropped and its shutdown not yet marked
          queue,     \* queue[e]: requests sent and not yet received
          active,    \* active[e][a]: the Active counters
          poisoned,  \* poisoned[e]: a command has panicked
          at,        \* at[r]: the executor r was submitted to
          stage,     \* stage[r]: where r is
          held,      \* held[r]: how many of its exclusions it has taken
          reply,     \* reply[r]: what its caller received
          did,       \* did[r]: how much of its script is durable
          result     \* result[r]: its recorded changes, then those its reply carries

session == <<slot, opening, outside, version, handles, state, alive, overtaken>>
command == <<did, result>>
calls == <<queue, active, poisoned, at, stage, held, reply>>
work == <<calls, command>>
vars == <<session, work>>

Stages == {"new", "checked", "admitted", "queued", "received", "waiting", "running",
           "leaving", "done"}
InFlight == {"checked", "admitted", "queued", "received", "waiting", "running"}

Admission(r) == AdmissionOf(Asked[r])

Locks(r) == Exclusions(Asked[r])

Holds(r) == {Locks(r)[i] : i \in 1..held[r]}

Init == /\ slot = Free
        /\ opening = NoExecutor
        /\ outside = FALSE
        /\ version = Created
        /\ handles = [e \in Executors |-> FALSE]
        /\ state = [e \in Executors |-> "unopened"]
        /\ alive = [e \in Executors |-> FALSE]
        /\ overtaken = FALSE
        /\ queue = [e \in Executors |-> <<>>]
        /\ active = [e \in Executors |-> [a \in Admissions |-> 0]]
        /\ poisoned = [e \in Executors |-> FALSE]
        /\ at = [r \in Requests |-> NoExecutor]
        /\ stage = [r \in Requests |-> "new"]
        /\ held = [r \in Requests |-> 0]
        /\ reply = [r \in Requests |-> "none"]
        /\ did = [r \in Requests |-> 0]
        /\ result = [r \in Requests |-> <<>>]
-----------------------------------------------------------------------------
(* The profile: its registry slot, its lock, its handles and its shutdown. *)

\* The lock is shared by whatever in this process holds it.
LockHeldHere == opening # NoExecutor \/ \E e \in Executors : alive[e]

Registry == opening = NoExecutor  \* the registry's mutex is free

\* executor_for takes the registry's mutex and the profile's lock; a refusal
\* changes nothing.  A registered executor without a strong reference does not
\* refuse it, though its shutdown may still be ahead.
BeginOpen(e) ==
    /\ Registry
    /\ state[e] = "unopened"
    /\ slot # Closing
    /\ slot \in Executors => ~handles[slot]
    /\ ~outside
    /\ opening' = e
    /\ overtaken' = (overtaken \/ slot \in Executors)
    /\ UNCHANGED <<slot, outside, version, handles, state, alive, work>>

\* One migration, in a transaction with the version it sets.
Migrate ==
    /\ ~Registry
    /\ version < Supported
    /\ version' = version + 1
    /\ UNCHANGED <<slot, opening, outside, handles, state, alive, overtaken, work>>

\* A wrong key, a newer schema, a migration or a thread that fails: the open
\* fails, and the migrations already committed stay.
OpenFails ==
    /\ ~Registry
    /\ opening' = NoExecutor
    /\ UNCHANGED <<slot, outside, version, handles, state, alive, overtaken, work>>

\* The schema is this build's: the worker starts and the session is registered.
Opened ==
    /\ ~Registry
    /\ version = Supported
    /\ state' = [state EXCEPT ![opening] = "open"]
    /\ alive' = [alive EXCEPT ![opening] = TRUE]
    /\ handles' = [handles EXCEPT ![opening] = TRUE]
    /\ slot' = opening
    /\ opening' = NoExecutor
    /\ UNCHANGED <<outside, version, overtaken, work>>

\* The last clone goes, after close() or without it.  A caller inside execute()
\* or close() borrows one until it returns.
DropHandles(e) ==
    /\ handles[e]
    /\ state[e] \in {"open", "closed"}
    /\ \A r \in Requests : at[r] = e => stage[r] \notin InFlight
    /\ handles' = [handles EXCEPT ![e] = FALSE]
    /\ UNCHANGED <<slot, opening, outside, version, state, alive, overtaken, work>>

\* shutdown(), called by close() or by Drop once the last handle is gone: the
\* sender and then the worker are taken, and only one caller gets the worker.
TakeWorker(e) ==
    /\ state[e] = "open"
    /\ state' = [state EXCEPT ![e] = "marking"]
    /\ UNCHANGED <<slot, opening, outside, version, handles, alive, overtaken, work>>

MarkClosing(e) ==
    /\ state[e] = "marking"
    /\ Registry
    /\ slot' = IF slot = Free THEN Free ELSE Closing
    /\ state' = [state EXCEPT ![e] = "joining"]
    /\ UNCHANGED <<opening, outside, version, handles, alive, overtaken, work>>

\* Mutant: the shutdown does not wait for the worker.
JoinWorkerAtOnce(e) ==
    /\ state[e] = "joining"
    /\ state' = [state EXCEPT ![e] = "forgetting"]
    /\ UNCHANGED <<slot, opening, outside, version, handles, alive, overtaken, work>>

JoinWorker(e) ==
    /\ state[e] = "joining"
    /\ ~alive[e]
    /\ state' = [state EXCEPT ![e] = "forgetting"]
    /\ UNCHANGED <<slot, opening, outside, version, handles, alive, overtaken, work>>

ForgetSession(e) ==
    /\ state[e] = "forgetting"
    /\ Registry
    /\ slot' = Free
    /\ state' = [state EXCEPT ![e] = "closed"]
    /\ UNCHANGED <<opening, outside, version, handles, alive, overtaken, work>>

\* Another process takes the file lock when nobody here holds it, and ends.  It
\* may be a newer build, which leaves the database at its own version.
OutsideTakes == /\ ~outside /\ ~LockHeldHere
                /\ outside' = TRUE
                /\ version' \in {version, Supported + 1}
                /\ UNCHANGED <<slot, opening, handles, state, alive, overtaken, work>>

OutsideEnds == /\ outside
               /\ outside' = FALSE
               /\ UNCHANGED <<slot, opening, version, handles, state, alive, overtaken, work>>
-----------------------------------------------------------------------------
(* Submission, on the caller's thread (SerialExecutor::submit, execute). *)

Refuse(r, answer) == /\ stage' = [stage EXCEPT ![r] = "done"]
                     /\ reply' = [reply EXCEPT ![r] = answer]

CheckPoisoned(r, e) ==
    /\ stage[r] = "new"
    /\ handles[e]
    /\ at' = [at EXCEPT ![r] = e]
    /\ \/ poisoned[e] /\ Refuse(r, "panicked")
       \/ ~poisoned[e] /\ stage' = [stage EXCEPT ![r] = "checked"] /\ UNCHANGED reply
    /\ UNCHANGED <<session, queue, active, poisoned, held, command>>

Admit(r) ==
    LET e == at[r]  a == Admission(r)
    IN /\ stage[r] = "checked"
       /\ \/ /\ active[e][a] < Limit[a]
             /\ active' = [active EXCEPT ![e][a] = @ + 1]
             /\ stage' = [stage EXCEPT ![r] = "admitted"]
             /\ UNCHANGED reply
          \/ /\ active[e][a] >= Limit[a]
             /\ Refuse(r, "busy")
             /\ UNCHANGED active
       /\ UNCHANGED <<session, queue, poisoned, at, held, command>>

\* Under the sender's mutex: sent, or the slot is given back.
Send(r) ==
    LET e == at[r]
    IN /\ stage[r] = "admitted"
       /\ \/ /\ state[e] = "open"
             /\ queue' = [queue EXCEPT ![e] = Append(@, r)]
             /\ stage' = [stage EXCEPT ![r] = "queued"]
             /\ UNCHANGED <<active, reply>>
          \/ /\ state[e] # "open"
             /\ active' = [active EXCEPT ![e][Admission(r)] = @ - 1]
             /\ Refuse(r, "stopped")
             /\ UNCHANGED queue
       /\ UNCHANGED <<session, poisoned, at, held, command>>
-----------------------------------------------------------------------------
(* The worker thread (run_executor, command_future). *)

Running(e) == {r \in Requests : at[r] = e /\ stage[r] \in {"received", "waiting", "running", "leaving"}}

TakeRequest(e) ==
    /\ alive[e]
    /\ queue[e] # <<>>
    /\ stage' = [stage EXCEPT ![Head(queue[e])] = "received"]
    /\ queue' = [queue EXCEPT ![e] = Tail(@)]
    /\ UNCHANGED <<session, active, poisoned, at, held, reply, command>>

\* The first poll of a command: after a panic it is only answered, and its
\* slot stays taken.
FirstPoll(r) ==
    /\ stage[r] = "received"
    /\ \/ poisoned[at[r]] /\ Refuse(r, "panicked")
       \/ /\ ~poisoned[at[r]]
          /\ stage' = [stage EXCEPT ![r] = IF Locks(r) = <<>> THEN "running" ELSE "waiting"]
          /\ UNCHANGED reply
    /\ UNCHANGED <<session, queue, active, poisoned, at, held, command>>

\* The next exclusion is free; with the last one the command runs.
TakeExclusion(r) ==
    /\ stage[r] = "waiting"
    /\ \A q \in Requests : at[q] = at[r] => Locks(r)[held[r] + 1] \notin Holds(q)
    /\ held' = [held EXCEPT ![r] = @ + 1]
    /\ stage' = [stage EXCEPT ![r] = IF held[r] + 1 = Len(Locks(r)) THEN "running" ELSE "waiting"]
    /\ UNCHANGED <<session, queue, active, poisoned, at, reply, command>>

\* The command commits its next unit of work and records the change in its
\* scope, with nothing that can fail in between; what watchers hear of it is in
\* Streams.
Commit(r) ==
    /\ stage[r] = "running"
    /\ did[r] < Len(Script[r])
    /\ did' = [did EXCEPT ![r] = @ + 1]
    /\ result' = [result EXCEPT ![r] = Append(@, Script[r][did[r] + 1])]
    /\ UNCHANGED <<session, calls>>

\* Mutant: a failure answers without what was recorded.
FailedBare(r) == <<>>

\* What a failure carries: run_operation_with_value takes the changes recorded;
\* a plain command has none.
Failed(r) == IF Scoped(Asked[r]) THEN result[r] ELSE <<>>

Succeeded(r) == IF Keeps(Asked[r]) THEN result[r] ELSE <<>>

\* The command returns, fails at any point, or panics and poisons the session;
\* the exclusions are dropped with its future, then the caller is answered.
Answer(r) ==
    /\ stage[r] = "running"
    /\ held' = [held EXCEPT ![r] = 0]
    /\ stage' = [stage EXCEPT ![r] = "leaving"]
    /\ \/ /\ did[r] = Len(Script[r])
          /\ reply' = [reply EXCEPT ![r] = "output"]
          /\ result' = [result EXCEPT ![r] = Succeeded(r)]
          /\ UNCHANGED poisoned
       \/ /\ reply' = [reply EXCEPT ![r] = "failed"]
          /\ result' = [result EXCEPT ![r] = Failed(r)]
          /\ UNCHANGED poisoned
       \/ /\ reply' = [reply EXCEPT ![r] = "panicked"]
          /\ result' = [result EXCEPT ![r] = <<>>]
          /\ poisoned' = [poisoned EXCEPT ![at[r]] = TRUE]
    /\ UNCHANGED <<session, queue, active, at, did>>

ReleaseSlot(r) ==
    /\ stage[r] = "leaving"
    /\ active' = [active EXCEPT ![at[r]][Admission(r)] = @ - 1]
    /\ stage' = [stage EXCEPT ![r] = "done"]
    /\ UNCHANGED <<session, queue, poisoned, at, held, reply, command>>

\* The loop ends when the senders are gone, the queue is drained and nothing
\* runs; the thread then drops its share of the profile lock.
WorkerEnds(e) ==
    /\ alive[e]
    /\ state[e] # "open"
    /\ queue[e] = <<>>
    /\ Running(e) = {}
    /\ alive' = [alive EXCEPT ![e] = FALSE]
    /\ UNCHANGED <<slot, opening, outside, version, handles, state, overtaken, work>>

-----------------------------------------------------------------------------
FinishShutdown(e) == MarkClosing(e) \/ JoinWorker(e) \/ ForgetSession(e)

FinishOpen == Migrate \/ OpenFails \/ Opened

Caller(r) == Admit(r) \/ Send(r)

Command(r) == FirstPoll(r) \/ TakeExclusion(r) \/ Commit(r) \/ Answer(r) \/ ReleaseSlot(r)

Worker(e) == TakeRequest(e) \/ WorkerEnds(e)

Next ==
    \/ \E e \in Executors :
         \/ BeginOpen(e) \/ DropHandles(e)
         \/ TakeWorker(e) \/ FinishShutdown(e) \/ Worker(e)
         \/ \E r \in Requests : CheckPoisoned(r, e)
    \/ FinishOpen \/ OutsideTakes \/ OutsideEnds
    \/ \E r \in Requests : Caller(r) \/ Command(r)

Spec == Init /\ [][Next]_vars

\* Threads that can run do run: a caller's, the worker's, the one that opens
\* and, once the worker was taken or the last handle dropped, the one that shuts
\* down, which the registry's mutex does not starve while opens come and fail.
\* Every command ends: its waits on the network carry a timeout.
Fairness ==
    /\ \A r \in Requests : WF_vars(Caller(r) \/ Command(r))
    /\ WF_vars(FinishOpen)
    /\ \A e \in Executors :
         /\ WF_vars(Worker(e))
         /\ SF_vars(FinishShutdown(e) \/ (~handles[e] /\ TakeWorker(e)))
-----------------------------------------------------------------------------
(* A second independent open is refused while a session lives: unless an     *)
(* open overtook the shutdown that the drop of a last handle starts, at most *)
(* one worker runs on the profile and the registry names it until its        *)
(* shutdown.  In any case no other process holds the profile meanwhile, and  *)
(* the database a worker works on has the schema of this build, whatever a   *)
(* newer build did in between.                                               *)
OneSession ==
    /\ ~overtaken => /\ \A e, f \in Executors : alive[e] /\ alive[f] => e = f
                     /\ \A e \in Executors : state[e] = "open" => slot = e
    /\ outside => ~LockHeldHere
    /\ \A e \in Executors : alive[e] => version = Supported

SyncLike == {"Invitations", "Sync", "RevokeDevice", "CheckKeyPackages", "ReplenishKeyPackages",
             "SetNotificationHint", "RegisterWatchKey", "ClearWatchKey"}
EnrollLike == {"Invitations", "Enroll", "RestoreKit", "ResumeRecovery"}

(* Work that must not overlap never does, in one session or across two: at   *)
(* most one command that syncs, and one that enrols, runs on the profile.    *)
NoOverlap ==
    \A q, r \in Requests :
        stage[q] = "running" /\ stage[r] = "running" /\ q # r =>
            \A group \in {SyncLike, EnrollLike} : ~(Asked[q] \in group /\ Asked[r] \in group)

\* chat_mutation: a failure that names something accepted is a success with a
\* warning; a success that names nothing is a failure.
chat_mutation(r) ==
    IF \E i \in DOMAIN result[r] : result[r][i] \in Accepting THEN "accepted" ELSE "refused"

Durable(r) == \E i \in 1..did[r] : Script[r][i] \in Accepting

(* A person who is told that a message or a conversation was not accepted can *)
(* try again: unless the session panicked, nothing of it is durable, so no     *)
(* second copy is made.  And what is reported accepted is durable.             *)
RetryIsSafe ==
    \A r \in Requests :
        Asked[r] \in ChatMutations /\ reply[r] \notin {"none", "panicked"} =>
            (chat_mutation(r) = "accepted") = Durable(r)

(* Every caller of execute hears an answer, whatever panics or closes.      *)
EventuallyAnswered == \A r \in Requests : stage[r] \in InFlight ~> reply[r] # "none"

(* Once a shutdown has begun the profile becomes free again.                *)
EventuallyFree == \A e \in Executors : state[e] = "marking" ~> state[e] = "closed" /\ ~alive[e]

(* Neither a caller nor a shutdown waits for ever.                          *)
NothingHangs == EventuallyAnswered /\ EventuallyFree
=============================================================================
