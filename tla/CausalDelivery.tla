--------------------------- MODULE CausalDelivery ---------------------------
(***************************************************************************)
(* What delivery promises, with no queues, cursors, retries or failures:   *)
(* a message is sent once, each copy is shown to its recipient at most     *)
(* once, and never before what it builds on.  docs/PROTOCOL.md section 6:  *)
(* transport is at least once, "the visible result must be idempotent".    *)
(***************************************************************************)
EXTENDS Naturals

CONSTANTS Mailboxes, Envelopes, Contents, Author, Requires, Content, To

VARIABLES
    sent,   \* messages whose send unit committed
    shown   \* how often each copy was processed by its recipient

Known(d) ==
    {k \in Contents :
        \/ Author[k] = d /\ k \in sent
        \/ \E e \in Envelopes : Content[e] = k /\ To[e] = d /\ shown[e] > 0}

Init ==
    /\ sent = {}
    /\ shown = [e \in Envelopes |-> 0]

Commit(k) ==
    /\ k \notin sent
    /\ Requires[k] \subseteq Known(Author[k])
    /\ sent' = sent \union {k}
    /\ UNCHANGED shown

Show(e) ==
    /\ Content[e] \in sent
    /\ shown[e] = 0
    /\ Requires[Content[e]] \subseteq Known(To[e])
    /\ shown' = [shown EXCEPT ![e] = 1]
    /\ UNCHANGED sent

Next == (\E k \in Contents : Commit(k)) \/ (\E e \in Envelopes : Show(e))

Spec == Init /\ [][Next]_<<sent, shown>>
=============================================================================
