------------------------- MODULE InvitationsInvariant -------------------------
(* The inductive invariant behind the safety properties of Invitations. *)
EXTENDS Invitations

Enrolling == {"record", "redeem", "gone", "redeemed", "endpoints", "finish", "finished"}
Asking == {"accept", "accepted", "refused"}
Claiming == {"key", "claim", "claimed", "build"}
Publishing == {"publish", "published"}
Steps == {"idle"} \cup Enrolling \cup Asking \cup Claiming \cup Publishing

Answers == {"pending", "expired", "used", "revoked"}

Doing == [token : Tokens \cup {None}, step : Steps, package : Packages \cup {None}]
Row == [state : {"none", "accepting", "enrolled", "prepared", "complete", "unavailable"},
        key : BOOLEAN, package : Packages \cup {None}, group : Groups \cup {None}]
Outgoing == [state : {"none", "issuing", "revoke-pending", "connected"} \cup Answers,
             secret : BOOLEAN, group : Groups \cup {None}]
Tending == [step : {"idle", "create", "resolve", "revoke", "reply", "bind"},
            card : Cards \cup {None}, record : {"none"} \cup Answers, hello : Groups \cup {None},
            row : Outgoing]

TypeOK ==
    /\ uses \in [Tokens -> Int]
    /\ issued \in [Cards -> {"none", "pending", "used", "revoked", "pruned"}]
    /\ claimant \in [Cards -> Guests \cup {None}]
    /\ age \in [Cards -> 0..2]
    /\ redeemed \subseteq Tokens \X Guests
    /\ members \subseteq Guests /\ equipped \subseteq Guests
    /\ receipt \in [Guests -> [Cards -> Packages \cup {None}]]
    /\ free \subseteq Packages /\ unpublished \subseteq Packages
    /\ mail \subseteq Groups /\ shared \subseteq Cards
    /\ manifest \in [Guests -> 0..2]
    /\ enrollment \in [Guests -> [token : Tokens \cup {None}, phase : 0..Complete]]
    /\ joined \in [Guests -> BOOLEAN]
    /\ op \in [Guests -> [Cards -> Row]]
    /\ sent \in [Guests -> [Cards -> {"none", "sealed", "accepted", "refused", "lapsed"}]]
    /\ old \subseteq Guests \X Cards
    /\ doing \in [Guests -> Doing]
    /\ out \in [Cards -> Outgoing]
    /\ hellos \subseteq Groups
    /\ request \in [Groups -> {"none", "pending", "joined", "declined"}]
    /\ contacts \subseteq Guests
    /\ tending \in Tending
    /\ built \in [Guests -> [Cards -> Nat]]
    /\ taken \in [Guests -> [Cards -> Nat]]
    /\ faults \in Nat

\* The use of an invitation is gone once it is recorded, with one name.
CardSound(c) ==
    /\ uses[c] = IF issued[c] = "pending" THEN 1 ELSE 0
    /\ issued[c] \in {"none", "pending", "revoked"} => \A g \in Guests : ~Recorded(g, c)
    /\ \A g \in Guests : Recorded(g, c) => claimant[c] = g
    /\ issued[c] = "used" => claimant[c] \in Guests /\ Recorded(claimant[c], c)
    /\ issued[c] = "pruned" => age[c] = 2

Redeemers(t) == {g \in Guests : Recorded(g, t)}

HostSound(t) == IsFiniteSet(Redeemers(t)) /\ Cardinality(Redeemers(t)) = HostUses - uses[t]

RelaySound ==
    /\ \A c \in Cards : CardSound(c)
    /\ \A t \in Hosted : HostSound(t)
    /\ \A g \in Guests, t \in Tokens : Recorded(g, t) => g \in members

\* How far a guest's enrolment has come, by its row and by the step it is at.
EnrolmentSound(g) ==
    /\ joined[g] \/ enrollment[g].phase >= Redeemed => g \in members
    /\ enrollment[g].phase = Complete => g \in equipped
    /\ doing[g].step \notin {"idle", "record", "redeem", "gone"} => g \in members
    /\ doing[g].step = "finished" => g \in equipped

Introduced(h) == h \in mail \/ request[h] # "none"

\* What the row of an accepted invitation says has happened.
RowSound(g, c) ==
    /\ \/ op[g][c].group = None /\ built[g][c] = 0
       \/ op[g][c].group = <<g, c, 1>> /\ built[g][c] = 1
    /\ op[g][c].state \in {"none", "accepting"} \/ ~op[g][c].key => op[g][c].group = None
    /\ op[g][c].state \in {"enrolled", "prepared", "complete"} => Recorded(g, c)
    /\ sent[g][c] = "none" <=> op[g][c].group = None
    /\ op[g][c].state = "complete" => sent[g][c] \in {"accepted", "lapsed"}
    /\ sent[g][c] = "accepted" => Introduced(op[g][c].group)

\* What a guest is doing follows from the row, not only from the step before.
StepSound(g) ==
    LET s == doing[g].step  c == doing[g].token
    IN /\ s # "idle" => c \in Tokens
       /\ s \in Enrolling /\ c \in Cards => Unfinished(g, c)
       /\ s \in Asking => c \in Cards /\ op[g][c].state = "accepting"
       /\ s = "accepted" => Recorded(g, c)
       /\ s \in Claiming \cup Publishing => c \in Cards /\ op[g][c].state \in {"enrolled", "prepared"}
       /\ s \in Claiming => op[g][c].group = None
       /\ s \in Claiming \ {"key"} => op[g][c].key
       /\ s \in Publishing => op[g][c].group # None

\* A package was handed out once, and its receipt is there until the key is old.
ClaimSound(g, c) ==
    /\ taken[g][c] <= 1
    /\ taken[g][c] = 1 => receipt[g][c] # None \/ <<g, c>> \in old

GuestSound(g) ==
    /\ EnrolmentSound(g) /\ StepSound(g)
    /\ \A c \in Cards : RowSound(g, c)

\* The relay will not let anyone use the invitation any more, and nobody has.
Withdrawn(c) == issued[c] \in {"revoked", "pruned"} \/ (issued[c] = "none" /\ age[c] > 0)

\* A row, kept or in memory: it is connected with whom the relay recorded.
OutSound(c, o) ==
    /\ o.group # None => Recorded(o.group[1], c) /\ o.group[1] \in contacts
    /\ o.state = "revoked" => Withdrawn(c)

OwnerSound ==
    /\ \A c \in Cards : OutSound(c, out[c])
    /\ tending.step # "idle" => tending.card \in Cards /\ OutSound(tending.card, tending.row)
    /\ tending.step = "reply" => /\ tending.record \in Answers
                                 /\ tending.record = "revoked" => Withdrawn(tending.card)
    /\ tending.step = "bind" => /\ tending.hello \in Groups /\ tending.hello[2] = tending.card
                                /\ Recorded(tending.hello[1], tending.hello[2])

InvitationsInv ==
    /\ TypeOK /\ RelaySound
    /\ \A g \in Guests : GuestSound(g)
    /\ \A g \in Guests, c \in Cards : ClaimSound(g, c)
    /\ OwnerSound
===============================================================================
