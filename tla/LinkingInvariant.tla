--------------------------- MODULE LinkingInvariant ---------------------------
(* The inductive invariant behind PhaseTruthful. *)
EXTENDS Linking

Standing == {"idle", "signing", "publishing", "registering", "inserting", "orphaned", "sealing"}

TypeOK ==
    /\ registered \in Creds \cup {None}
    /\ answer \in [Roads -> Standing]
    /\ signed \in [Roads -> Creds \cup {None}]
    /\ sealed \in [Links -> Answer]
    /\ handed \in Creds \cup {None}
    /\ session \in [Links -> {"none", "waiting", "ready"}]
    /\ grant \in [Roads -> Creds \cup {None}]
    /\ phase \in [Roads -> 0..Complete]
    /\ applied \in Creds \cup {None}
    /\ did \in {0} \cup LocalApplied..KeyPackagesPublished
    /\ request \in Keys \cup {None}
    /\ mailboxes \in SUBSET Keys
    /\ cancelled \in SUBSET Links

\* Whatever is granted was registered first, and the relay registers once: so
\* no two roads lead to different credentials.
Granted ==
    /\ \A x \in Roads :
          /\ answer[x] \in {"publishing", "registering", "inserting", "orphaned", "sealing"} => signed[x] # None
          /\ answer[x] = "sealing" => signed[x] = registered
          /\ grant[x] # None => grant[x] = registered
    /\ \A p \in Links : sealed[p] \in Creds => sealed[p] = registered
    /\ handed # None => handed = registered
    /\ applied # None => applied = registered

\* A completion has its grant, over a rendezvous a session that is ready, and a
\* cancelled session is gone.
Committed ==
    /\ \A x \in Roads : phase[x] > 0 => grant[x] # None
    /\ \A p \in Links :
          /\ phase[p] > 0 => session[p] = "ready"
          /\ session[p] = "ready" => grant[p] # None
          /\ p \in cancelled => session[p] = "none"

\* What is durable is ahead of every phase that says so, on whichever road.
Durable ==
    /\ did = 0 <=> applied = None
    /\ \A x \in Roads : phase[x] >= LocalApplied =>
          did >= phase[x] \/ (phase[x] = Complete /\ did = KeyPackagesPublished)
    /\ mailboxes \subseteq {request}
    /\ request = None => mailboxes = {}
    /\ did >= MailboxStored => mailboxes = {request}

LinkingInv == TypeOK /\ Granted /\ Committed /\ Durable
===============================================================================
