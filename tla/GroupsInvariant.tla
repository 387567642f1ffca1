--------------------------- MODULE GroupsInvariant ---------------------------
(* The inductive invariant behind RemovedWasRevoked, and what it says of the *)
(* committers of two lines that part.  R stands for the devices revoked.     *)
EXTENDS Groups

Revoked == {x \in Device : x \in Signed(Owner[x])}

Entry == [by : Device, out : SUBSET Device, tree : [Leaf -> Device \cup {NoDevice}]]
Message ==
    [kind : {"welcome"}, on : Seq(Entry)]
        \cup [kind : {"commit"}, on : Seq(Entry), next : Seq(Entry)]
        \cup [kind : {"roster"}, on : Seq(Entry), devices : SUBSET Device]
        \cup [kind : {"manifest"}, on : Seq(Entry), id : Identity, n : Nat]
Batch == [message : Message, to : SUBSET Device]
Pass == [at : {"idle", "prepare", "again", "publish", "pending", "refresh", "receive"},
         task : {"sync", "revoke"}, k : Nat, todo : SUBSET Identity]

TypeOK ==
    /\ signed \in [Identity -> Seq(SUBSET Device)]
    /\ relay \in [Identity -> Nat]
    /\ known \in [Device -> [Identity -> Nat]]
    /\ rows \in [Device -> SUBSET Device]
    /\ marked \in [Device -> SUBSET Device]
    /\ journal \in [Device -> Seq(Device)]
    /\ group \in [Device -> Seq(Entry)]
    /\ outbox \in [Device -> Seq(Batch)]
    /\ mail \in [Device -> Seq(Message)]
    /\ pass \in [Device -> Pass]
    /\ claimed \in [Device -> SUBSET Device]

\* The manifests of an identity revoke its own devices, and never fewer; nobody
\* holds one that was not signed.
LineInv ==
    /\ \A i \in Identity :
          /\ Len(signed[i]) >= 1 /\ relay[i] <= Len(signed[i])
          /\ \A n \in 1 .. Len(signed[i]) : \A x \in signed[i][n] :
                Owner[x] = i /\ x \in signed[i][Len(signed[i])]
    /\ \A d \in Device : \A i \in Identity : known[d][i] <= Len(signed[i])

\* What a device holds for revoked, its root revoked.
TableInv ==
    \A d \in Device : /\ marked[d] \subseteq Revoked
                      /\ \A k \in 1 .. Len(journal[d]) : journal[d][k] \in Revoked

\* A pass is at an entry of its journal, or at a message of its page.
Placed(p, waiting) ==
    /\ p.at \in {"prepare", "again"} => p.k >= 1
    /\ p.at = "receive" => p.k \in 1 .. Len(waiting)

\* A device holds at most one leaf.
Tidy(t) == \A i, j \in Leaf : t[i] = t[j] /\ t[i] # NoDevice => i = j

\* d was to commit on t: it had a leaf and only revoked ones lay below it; or it
\* is revoked itself, and what it then held for true does not matter.
Led(R, t, d) ==
    d \in R \/ ( /\ d \in Members(t)
                 /\ \A i \in Leaf : i < LeafOf(t, d) => t[i] \in R \cup {NoDevice} )

Proper(R, s) ==
    /\ Len(s) >= 1
    /\ \A k \in 1 .. Len(s) : Tidy(s[k].tree) /\ s[k].out \subseteq R
    /\ \A k \in 2 .. Len(s) : Led(R, s[k - 1].tree, s[k].by)

\* A message on its way to x: a welcome has a leaf for it, a commit takes none
\* but a revoked device's.
Genuine(R, line, m, x) ==
    /\ m.kind = "welcome" => Proper(R, m.on) /\ x \in Members(Tree(m.on))
    /\ m.kind = "commit" => /\ m.on # <<>> /\ Proper(R, m.next)
                            /\ Members(Tree(m.on)) \subseteq Members(Tree(m.next)) \cup R
    /\ m.kind = "manifest" => m.n <= Len(line[m.id])

\* All that a mailbox of x holds, and all that an outbox does.
Received(R, line, q, x) == \A k \in 1 .. Len(q) : Genuine(R, line, q[k], x)
Queued(R, line, q) == \A k \in 1 .. Len(q) : \A x \in q[k].to : Genuine(R, line, q[k].message, x)

\* A member's history is led by those who were to lead, and it has a leaf there
\* unless it was revoked.
Line(R, s, d) == s # <<>> => Proper(R, s) /\ d \in Members(Tree(s)) \cup R

GroupInv == \A d \in Device : Line(Revoked, group[d], d)
PassInv == \A d \in Device : Placed(pass[d], mail[d])
MailInv == \A d \in Device : /\ Received(Revoked, signed, mail[d], d)
                             /\ Queued(Revoked, signed, outbox[d])

GroupsInv == TypeOK /\ LineInv /\ TableInv /\ PassInv /\ GroupInv /\ MailInv

\* Two members whose states took commits of different committers at the same
\* epoch: one of the committers was revoked (mls/policy.rs, lowest active leaf).
RivalWasRevoked ==
    \A d, e \in Device : \A k \in 2 .. Len(group[d]) :
        /\ k <= Len(group[e])
        /\ SubSeq(group[d], 1, k - 1) = SubSeq(group[e], 1, k - 1)
        /\ group[d][k].by # group[e][k].by
        => \E x \in {group[d][k].by, group[e][k].by} : x \in Signed(Owner[x])

-----------------------------------------------------------------------------
(* Until someone is revoked, the first leaf alone commits and everything any- *)
(* one has or is sent is a beginning of what it has.                          *)

Founder == First[1]

\* A message on its way to x, when the founder has s.
Behind(s, m, x) ==
    /\ m.kind = "welcome" => OnLine(m.on, s) /\ x # Founder
    /\ m.kind = "commit" => OnLine(m.next, s) /\ Len(m.next) = Len(m.on) + 1

\* All that a mailbox of x, and all that an outbox holds.
Trails(s, q, x) == \A k \in 1 .. Len(q) : Behind(s, q[k], x)
TrailsAll(s, q) == \A k \in 1 .. Len(q) : \A x \in q[k].to : Behind(s, q[k].message, x)

FounderInv ==
    Revoked = {} =>
        /\ group[Founder] # <<>>
        /\ \A k \in 1 .. Len(group[Founder]) : group[Founder][k].tree[1] = Founder
        /\ \A d \in Device :
              /\ OnLine(group[d], group[Founder])
              /\ Trails(group[Founder], mail[d], d)
              /\ TrailsAll(group[Founder], outbox[d])

\* Until someone is revoked no two members part ways, whatever is delayed: of
\* two states one is a beginning of the other (mls/policy.rs).
OneLineUntilRevoked ==
    (\A x \in Device : x \notin Signed(Owner[x])) =>
        \A d, e \in Device : OnLine(group[d], group[e]) \/ OnLine(group[e], group[d])
=============================================================================
