-------------------------- MODULE ExecutorInvariant --------------------------
(* The inductive invariant behind the safety properties of Executor. *)
EXTENDS Executor

States == {"unopened", "open", "marking", "joining", "forgetting", "closed"}
Replies == {"none", "panicked", "busy", "stopped", "output", "failed"}

TypeOK ==
    /\ slot \in Executors \cup {Free, Closing}
    /\ opening \in Executors \cup {NoExecutor}
    /\ outside \in BOOLEAN
    /\ version \in Nat
    /\ handles \in [Executors -> BOOLEAN]
    /\ state \in [Executors -> States]
    /\ alive \in [Executors -> BOOLEAN]
    /\ overtaken \in BOOLEAN
    /\ queue \in [Executors -> Seq(Requests)]
    /\ active \in [Executors -> [Admissions -> Int]]
    /\ poisoned \in [Executors -> BOOLEAN]
    /\ at \in [Requests -> Executors \cup {NoExecutor}]
    /\ stage \in [Requests -> Stages]
    /\ held \in [Requests -> Nat]
    /\ reply \in [Requests -> Replies]
    /\ did \in [Requests -> Nat]
    /\ result \in [Requests -> Seq(StateChange)]

\* Whoever holds the profile's lock keeps other processes out, and a worker
\* has the schema of this build under it.
LockSound ==
    /\ outside => ~LockHeldHere
    /\ \A e \in Executors : alive[e] => version = Supported

\* As long as no open overtook a shutdown, the registry accounts for every
\* session that is not closed, so there is one at most; while one is being
\* opened there is none.
SessionSound ==
    /\ \A e \in Executors :
          /\ state[e] \in {"open", "marking"} => slot = e
          /\ state[e] \in {"joining", "forgetting"} => slot = Closing
          /\ alive[e] => state[e] \in {"open", "marking", "joining"}
    /\ \A e, f \in Executors :
          /\ state[e] \in {"joining", "forgetting"} /\ state[f] \in {"joining", "forgetting"} => e = f
    /\ slot \in Executors => state[slot] \in {"open", "marking"}
    /\ opening # NoExecutor => slot = Free

\* A request is in the queue of the executor it was sent to, once, and a
\* worker lives as long as it has something to run.
Received == {"received", "waiting", "running", "leaving"}

QueueSound ==
    /\ \A e \in Executors : \A i \in 1..Len(queue[e]) :
          /\ at[queue[e][i]] = e /\ stage[queue[e][i]] = "queued"
          /\ \A j \in 1..Len(queue[e]) : queue[e][i] = queue[e][j] => i = j
    /\ \A r \in Requests : stage[r] # "new" => at[r] \in Executors
    /\ \A r \in Requests : stage[r] \in Received => alive[at[r]]

\* A command runs with all its exclusions and waits with some, and no exclusion
\* has two holders in one session.
ExclusionSound ==
    /\ \A r \in Requests :
          /\ stage[r] = "running" => held[r] = Len(Locks(r))
          /\ stage[r] = "waiting" => held[r] < Len(Locks(r))
          /\ stage[r] \notin {"waiting", "running"} => held[r] = 0
    /\ \A q, r \in Requests : q # r /\ at[q] = at[r] => Holds(q) \cap Holds(r) = {}

\* What a command has recorded is what it has made durable.
Recorded(r) ==
    /\ did[r] <= Len(Script[r])
    /\ Len(result[r]) = did[r]
    /\ \A i \in 1..did[r] : result[r][i] = Script[r][i]

AnswerSound ==
    \A r \in Requests :
        /\ stage[r] \notin {"leaving", "done"} => reply[r] = "none"
        /\ \/ Recorded(r)
           \/ stage[r] \in {"leaving", "done"} /\ (reply[r] = "panicked" \/ ~Keeps(Asked[r]))

ExecutorInv ==
    /\ TypeOK /\ LockSound /\ (~overtaken => SessionSound)
    /\ QueueSound /\ ExclusionSound /\ AnswerSound
==============================================================================
