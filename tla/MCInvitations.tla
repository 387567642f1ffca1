---------------------------- MODULE MCInvitations ----------------------------
(* An instance of Invitations: one guest for whom anything may go wrong, or  *)
(* two of them for whom nothing does.                                        *)
EXTENDS InvitationsInvariant, TLC

Interchanged == Permutations(Guests) \cup Permutations(Packages)

Forwarded(g) == \E c \in Cards : <<g, c, 0>> \in mail \/ request[<<g, c, 0>>] # "none"

Came(g) == \/ g \in members \/ doing[g].step # "idle" \/ enrollment[g].phase > 0
           \/ \E c \in Cards : op[g][c].state # "none"

\* A request, reply or process was lost, the introduction was refused or ran out
\* of time, an invitation or a claim key grew old, a guest linked a device, or
\* the owner device published again.
Troubled ==
    \/ faults > 0 \/ old # {} \/ unpublished = {}
    \/ \E c \in Cards : age[c] > 0
    \/ \E g \in Guests : \/ manifest[g] = 2
                         \/ \E c \in Cards : sent[g][c] \in {"refused", "lapsed"}

OneOrUntroubled ==
    Troubled => /\ \A g \in Guests : ~Forwarded(g)
                /\ Cardinality({g \in Guests : Came(g)}) <= 1

MCNext == Next /\ OneOrUntroubled'
MCSpec == Init /\ [][MCNext]_vars
=============================================================================
