----------------------------- MODULE MCExecutor -----------------------------
(* An instance of Executor: which commands the callers submit, what each     *)
(* would record, and limits small enough to be reached.                      *)
EXTENDS ExecutorInvariant

CONSTANTS r1, r2, r3

MCAsked ==
    [r \in Requests |-> CASE r = r1 -> "Invitations" [] r = r2 -> "Sync" [] r = r3 -> "QueueMessage"]
MCScript ==
    [r \in Requests |-> IF r = r3 THEN <<"EndpointFallback", "MessageQueued">> ELSE <<>>]
MCLimit == [sync |-> 1, mutation |-> 1, query |-> 1]

\* An invitation meets a sync, with which it shares an exclusion, or a message,
\* with which it shares a limit; a sync and a message share neither.  Submitting
\* is no fair action, so fairness never asks for the step this takes away.
Meeting == stage[r2] = "new" \/ stage[r3] = "new"
MCNext == Next /\ Meeting'
MCSpec == Init /\ [][MCNext]_vars /\ Fairness
=============================================================================
