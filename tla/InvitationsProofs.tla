-------------------------- MODULE InvitationsProofs --------------------------
(* Proofs about Invitations: for every number of guests, invitations, tokens  *)
(* and key packages, and any number of lost requests and replies.             *)
EXTENDS InvitationsInvariant, FiniteSetTheorems, TLAPS

-----------------------------------------------------------------------------
(* Updates of the tables.                                                    *)

\* One entry of a table with two keys.
LEMMA TableStep ==
    ASSUME NEW A, NEW B, NEW T, NEW f \in [A -> [B -> T]], NEW a \in A, NEW b \in B, NEW v \in T
    PROVE  /\ [f EXCEPT ![a][b] = v] \in [A -> [B -> T]]
           /\ [f EXCEPT ![a][b] = v][a][b] = v
           /\ \A d \in B \ {b} : [f EXCEPT ![a][b] = v][a][d] = f[a][d]
           /\ \A c \in A \ {a} : [f EXCEPT ![a][b] = v][c] = f[c]
  <1>1. PICK row : row = [f[a] EXCEPT ![b] = v]
    OBVIOUS
  <1>2. row \in [B -> T] /\ row[b] = v /\ \A d \in B \ {b} : row[d] = f[a][d]
    BY <1>1
  <1>3. [f EXCEPT ![a][b] = v] = [f EXCEPT ![a] = row]
    BY <1>1
  <1> QED BY <1>2, <1>3

LEMMA Kinds ==
    /\ \A h \in Groups : h[1] \in Guests /\ h[2] \in Cards
    /\ \A g \in Guests, c \in Cards : <<g, c, 0>> \in Groups /\ <<g, c, 1>> \in Groups
    /\ None \notin Groups /\ None \notin Packages /\ None \notin Tokens /\ None \notin Guests
    /\ Cards \subseteq Tokens /\ Hosted \subseteq Tokens /\ Cards \cap Hosted = {}
  BY InvitationsAssumption DEF Groups, Tokens

LEMMA GoStep ==
    ASSUME doing \in [Guests -> Doing], NEW g \in Guests, NEW s \in Steps, Go(g, s)
    PROVE  /\ doing' \in [Guests -> Doing]
           /\ doing'[g] = [doing[g] EXCEPT !.step = s]
           /\ doing'[g].step = s /\ doing'[g].token = doing[g].token
           /\ \A q \in Guests \ {g} : doing'[q] = doing[q]
  BY DEF Go, Doing

LEMMA StopStep ==
    ASSUME doing \in [Guests -> Doing], NEW g \in Guests, Stop(g)
    PROVE  /\ doing' \in [Guests -> Doing]
           /\ doing'[g].step = "idle"
           /\ \A q \in Guests \ {g} : doing'[q] = doing[q]
  BY DEF Stop, Idle, Doing, Steps

\* A row of the guest's table, replaced.
LEMMA RowStep ==
    ASSUME op \in [Guests -> [Cards -> Row]], NEW g \in Guests, NEW c \in Cards, NEW row \in Row,
           op' = [op EXCEPT ![g][c] = row]
    PROVE  /\ op' \in [Guests -> [Cards -> Row]]
           /\ op'[g][c] = row
           /\ \A d \in Cards \ {c} : op'[g][d] = op[g][d]
           /\ \A q \in Guests \ {g} : op'[q] = op[q]
  BY TableStep

-----------------------------------------------------------------------------
(* Types, one group of variables at a time.                                  *)

AdmissionTypes ==
    /\ uses \in [Tokens -> Int]
    /\ issued \in [Cards -> {"none", "pending", "used", "revoked", "pruned"}]
    /\ claimant \in [Cards -> Guests \cup {None}]
    /\ age \in [Cards -> 0..2]
    /\ redeemed \subseteq Tokens \X Guests
    /\ members \subseteq Guests /\ equipped \subseteq Guests

SupplyTypes ==
    /\ receipt \in [Guests -> [Cards -> Packages \cup {None}]]
    /\ free \subseteq Packages /\ unpublished \subseteq Packages

ProfileTypes ==
    /\ manifest \in [Guests -> 0..2]
    /\ enrollment \in [Guests -> [token : Tokens \cup {None}, phase : 0..Complete]]
    /\ joined \in [Guests -> BOOLEAN]

Sendings == {"none", "sealed", "accepted", "refused", "lapsed"}

GuestTypes ==
    /\ op \in [Guests -> [Cards -> Row]]
    /\ sent \in [Guests -> [Cards -> Sendings]]
    /\ old \subseteq Guests \X Cards
    /\ doing \in [Guests -> Doing]

OwnerTypes ==
    /\ out \in [Cards -> Outgoing]
    /\ hellos \subseteq Groups
    /\ request \in [Groups -> {"none", "pending", "joined", "declined"}]
    /\ contacts \subseteq Guests
    /\ tending \in Tending

HistoryTypes ==
    /\ built \in [Guests -> [Cards -> Nat]]
    /\ taken \in [Guests -> [Cards -> Nat]]

LEMMA TypeParts ==
    TypeOK <=> /\ AdmissionTypes /\ SupplyTypes /\ ProfileTypes /\ GuestTypes /\ OwnerTypes
               /\ HistoryTypes /\ mail \subseteq Groups /\ shared \subseteq Cards /\ faults \in Nat
  BY DEF TypeOK, AdmissionTypes, SupplyTypes, ProfileTypes, GuestTypes, OwnerTypes, HistoryTypes, Sendings

LEMMA TypeFrame ==
    ASSUME TypeOK
    PROVE  /\ UNCHANGED admission => AdmissionTypes'
           /\ UNCHANGED supply => SupplyTypes'
           /\ UNCHANGED profile => ProfileTypes'
           /\ UNCHANGED guest => GuestTypes'
           /\ UNCHANGED owner => OwnerTypes'
           /\ UNCHANGED history => HistoryTypes'
           /\ UNCHANGED mail => (mail \subseteq Groups)'
           /\ UNCHANGED shared => (shared \subseteq Cards)'
           /\ UNCHANGED faults => (faults \in Nat)'
  <1>1. UNCHANGED admission => AdmissionTypes'
    BY TypeParts DEF admission, AdmissionTypes
  <1>2. UNCHANGED supply => SupplyTypes'
    BY TypeParts DEF supply, SupplyTypes
  <1>3. UNCHANGED profile => ProfileTypes'
    BY TypeParts DEF profile, ProfileTypes
  <1>4. UNCHANGED guest => GuestTypes'
    BY TypeParts DEF guest, GuestTypes
  <1>5. UNCHANGED owner => OwnerTypes'
    BY TypeParts DEF owner, OwnerTypes
  <1>6. UNCHANGED history => HistoryTypes'
    BY TypeParts DEF history, HistoryTypes
  <1> QED BY <1>1, <1>2, <1>3, <1>4, <1>5, <1>6, TypeParts

LEMMA TypeJoin ==
    ASSUME AdmissionTypes', SupplyTypes', ProfileTypes', GuestTypes', OwnerTypes', HistoryTypes',
           (mail \subseteq Groups)', (shared \subseteq Cards)', (faults \in Nat)'
    PROVE  TypeOK'
  BY DEF TypeOK, AdmissionTypes, SupplyTypes, ProfileTypes, GuestTypes, OwnerTypes, HistoryTypes, Sendings

\* The relay's tables a guest's command writes.
LEMMA RedeemTypes ==
    ASSUME TypeOK, NEW g \in Guests, NEW t \in Tokens, RedeemInvite(g, t)
    PROVE  /\ uses' \in [Tokens -> Int]
           /\ issued' \in [Cards -> {"none", "pending", "used", "revoked", "pruned"}]
           /\ claimant' \in [Cards -> Guests \cup {None}]
           /\ redeemed' \subseteq Tokens \X Guests
  <1>1. uses[t] - 1 \in Int
    BY DEF TypeOK
  <1>2. uses' \in [Tokens -> Int]
    BY <1>1 DEF TypeOK, RedeemInvite
  <1>3. issued' \in [Cards -> {"none", "pending", "used", "revoked", "pruned"}]
    BY DEF TypeOK, RedeemInvite
  <1>4. claimant' \in [Cards -> Guests \cup {None}]
    BY DEF TypeOK, RedeemInvite
  <1>5. redeemed' \subseteq Tokens \X Guests
    BY DEF TypeOK, RedeemInvite
  <1> QED BY <1>2, <1>3, <1>4, <1>5

LEMMA AdvanceType ==
    ASSUME TypeOK, NEW g \in Guests, NEW p \in 1..Complete, Advance(g, p)
    PROVE  /\ enrollment' \in [Guests -> [token : Tokens \cup {None}, phase : 0..Complete]]
           /\ enrollment'[g].phase = IF enrollment[g].phase >= p THEN enrollment[g].phase ELSE p
           /\ enrollment'[g].token = enrollment[g].token
           /\ \A q \in Guests \ {g} : enrollment'[q] = enrollment[q]
  <1>1. enrollment[g] \in [token : Tokens \cup {None}, phase : 0..4]
    BY DEF TypeOK, Complete
  <1>2. PICK row : row = [enrollment[g] EXCEPT !.phase = IF enrollment[g].phase >= p
                                                         THEN enrollment[g].phase ELSE p]
    OBVIOUS
  <1>3. row \in [token : Tokens \cup {None}, phase : 0..4]
    BY <1>1, <1>2 DEF Complete
  <1>4. row.phase = (IF enrollment[g].phase >= p THEN enrollment[g].phase ELSE p)
        /\ row.token = enrollment[g].token
    BY <1>1, <1>2
  <1>5. enrollment' = [enrollment EXCEPT ![g] = row]
    BY <1>2 DEF Advance
  <1> QED BY <1>3, <1>4, <1>5 DEF TypeOK, Complete

-----------------------------------------------------------------------------
(* What the relay has recorded, and what has reached it, stays: so does what  *)
(* a guest's rows say of it.                                                 *)

Progress ==
    /\ redeemed \subseteq redeemed' /\ members \subseteq members' /\ equipped \subseteq equipped'
    /\ \A h \in Groups : Introduced(h) => Introduced(h)'

\* Nothing of guest q moves.
Same(q) ==
    /\ doing'[q] = doing[q] /\ op'[q] = op[q] /\ sent'[q] = sent[q] /\ built'[q] = built[q]
    /\ enrollment'[q] = enrollment[q] /\ joined'[q] = joined[q]

LEMMA RowKept ==
    ASSUME TypeOK, Progress, NEW g \in Guests, NEW c \in Cards, RowSound(g, c),
           op'[g][c] = op[g][c], sent'[g][c] = sent[g][c], built'[g][c] = built[g][c]
    PROVE  RowSound(g, c)'
  <1>1. op[g][c].group \in Groups \cup {None}
    BY DEF TypeOK, Row
  <1>2. Recorded(g, c) => Recorded(g, c)'
    BY DEF Progress, Recorded
  <1>3. sent[g][c] = "accepted" => Introduced(op[g][c].group)'
    BY <1>1 DEF Progress, Introduced, RowSound
  <1> QED BY <1>2, <1>3 DEF RowSound

LEMMA StepKept ==
    ASSUME TypeOK, Progress, NEW g \in Guests, StepSound(g),
           doing'[g] = doing[g], op'[g] = op[g]
    PROVE  StepSound(g)'
  <1>1. PICK c, s : c = doing[g].token /\ s = doing[g].step
    OBVIOUS
  <1>2. Recorded(g, c) => Recorded(g, c)'
    BY DEF Progress, Recorded
  <1>3. Unfinished(g, c) => Unfinished(g, c)'
    BY DEF Unfinished
  <1> QED BY <1>1, <1>2, <1>3 DEF StepSound

LEMMA GuestKept ==
    ASSUME TypeOK, Progress, NEW g \in Guests, GuestSound(g), Same(g)
    PROVE  GuestSound(g)'
  <1>1. EnrolmentSound(g)'
    BY DEF GuestSound, EnrolmentSound, Progress, Same
  <1>2. StepSound(g)'
    BY StepKept DEF GuestSound, Same
  <1>3. \A c \in Cards : RowSound(g, c)'
    BY RowKept DEF GuestSound, Same
  <1> QED BY <1>1, <1>2, <1>3 DEF GuestSound

\* Steps that touch neither the relay's records of guests nor the mail.
LEMMA ProgressKept ==
    ASSUME UNCHANGED <<redeemed, members, equipped, mail, request>> PROVE Progress
  BY DEF Progress, Introduced

LEMMA ProgressGuest ==
    ASSUME TypeOK, NEW g \in Guests, GuestStep(g) PROVE Progress
  <1>1. CASE RecordEnrollment(g) \/ Rejected(g) \/ RecordRedeemed(g) \/ StoreEndpoints(g)
             \/ CompleteEnrollment(g)
    BY <1>1, ProgressKept DEF RecordEnrollment, Rejected, RecordRedeemed, StoreEndpoints,
                              CompleteEnrollment, admission, owner
  <1>2. CASE SaveAnswer(g) \/ DrawClaimKey(g) \/ ClaimOnce(g) \/ SaveClaim(g) \/ BuildGroup(g)
             \/ CompleteOperation(g)
    BY <1>2, ProgressKept DEF SaveAnswer, DrawClaimKey, ClaimOnce, SaveClaim, BuildGroup,
                              CompleteOperation, admission, owner
  <1>3. CASE FinishEnrollment(g)
    BY <1>3 DEF FinishEnrollment, owner, Progress, Introduced
  <1>4. CASE PublishIntroduction(g)
    BY <1>4 DEF PublishIntroduction, admission, owner, Progress, Introduced
  <1>5. CASE Redeem(g)
    <2>1. redeemed \subseteq redeemed' /\ members \subseteq members'
      BY <1>5 DEF Redeem, RedeemInvite
    <2> QED BY <1>5, <2>1 DEF Redeem, owner, Progress, Introduced
  <1>6. CASE AcceptInvitation(g)
    <2>1. redeemed \subseteq redeemed'
      BY <1>6 DEF AcceptInvitation, RedeemInvite
    <2> QED BY <1>6, <2>1 DEF AcceptInvitation, owner, Progress, Introduced
  <1> QED BY <1>1, <1>2, <1>3, <1>4, <1>5, <1>6 DEF GuestStep

LEMMA ProgressOwner ==
    ASSUME TypeOK, OwnerSound PROVE
        /\ OwnerStep \/ OwnerStops => Progress
        /\ \A c \in Cards : Create(c) \/ Share(c) \/ Revoke(c) \/ Age(c) => Progress
        /\ \A refresh \in BOOLEAN : List(refresh) => Progress
        /\ \A h \in Groups : Receive(h) \/ SettleAsk(h) => Progress
        /\ \A h \in Groups, accept \in BOOLEAN : AnswerRequest(h, accept) => Progress
        /\ Replenish \/ ClaimKeyPackage \/ SweepInvitationHistory => Progress
  <1>1. ASSUME OwnerStep \/ OwnerStops PROVE Progress
    <2>1. CASE SendCreate \/ ResolveCreate \/ SendRevoke \/ SaveReply \/ OwnerStops
      BY <2>1, ProgressKept DEF SendCreate, ResolveCreate, SendRevoke, SaveReply, OwnerStops, admission
    <2>2. CASE SettleBind
      <3>1. /\ UNCHANGED <<redeemed, members, equipped, mail>>
            /\ request' = [request EXCEPT ![tending.hello] = "joined"]
        BY <2>2 DEF SettleBind, admission
      <3> QED BY <3>1 DEF TypeOK, Progress, Introduced
    <2> QED BY <1>1, <2>1, <2>2 DEF OwnerStep
  <1>2. ASSUME NEW c \in Cards, Create(c) \/ Share(c) \/ Revoke(c) \/ Age(c) PROVE Progress
    BY <1>2, ProgressKept DEF Create, Share, Revoke, Age, admission, owner
  <1>3. ASSUME NEW refresh \in BOOLEAN, List(refresh) PROVE Progress
    BY <1>3, ProgressKept DEF List, admission
  <1>4. ASSUME NEW h \in Groups, Receive(h) \/ SettleAsk(h) PROVE Progress
    <2>1. CASE SettleAsk(h)
      BY <2>1, ProgressKept DEF SettleAsk, admission
    <2>2. CASE Receive(h)
      <3>1. UNCHANGED <<redeemed, members, equipped>> /\ mail' = mail \ {h}
        BY <2>2 DEF Receive, admission
      <3>2. request'[h] # "none" /\ \A k \in Groups \ {h} : request'[k] = request[k]
        BY <2>2 DEF Receive, TypeOK
      <3> QED BY <3>1, <3>2 DEF Progress, Introduced
    <2> QED BY <1>4, <2>1, <2>2
  <1>5. ASSUME NEW h \in Groups, NEW accept \in BOOLEAN, AnswerRequest(h, accept) PROVE Progress
    <2>1. UNCHANGED <<redeemed, members, equipped, mail>>
      BY <1>5 DEF AnswerRequest, admission
    <2>2. request'[h] # "none" /\ \A k \in Groups \ {h} : request'[k] = request[k]
      BY <1>5 DEF AnswerRequest, TypeOK
    <2> QED BY <2>1, <2>2 DEF Progress, Introduced
  <1>6. ASSUME Replenish \/ ClaimKeyPackage \/ SweepInvitationHistory PROVE Progress
    BY <1>6, ProgressKept DEF Replenish, ClaimKeyPackage, SweepInvitationHistory, admission, owner
  <1> QED BY <1>1, <1>2, <1>3, <1>4, <1>5, <1>6

-----------------------------------------------------------------------------
(* The steps of a guest that accepts.                                        *)

\* A command that stops leaves the rows as they are.
LEMMA StoppedSound ==
    ASSUME TypeOK, Progress, NEW g \in Guests, GuestSound(g), Stop(g), UNCHANGED <<op, sent, built, profile>>
    PROVE  GuestSound(g)' /\ \A q \in Guests \ {g} : Same(q)
  <1>1. doing'[g].step = "idle" /\ \A q \in Guests \ {g} : doing'[q] = doing[q]
    BY StopStep DEF TypeOK
  <1>2. EnrolmentSound(g)'
    BY <1>1 DEF GuestSound, EnrolmentSound, Progress, profile
  <1>3. StepSound(g)'
    BY <1>1 DEF StepSound, Enrolling, Asking, Claiming, Publishing
  <1>4. \A c \in Cards : RowSound(g, c)'
    BY RowKept DEF GuestSound
  <1> QED BY <1>1, <1>2, <1>3, <1>4 DEF GuestSound, Same, profile

\* A row that may be written for card c by a command that goes on at step s.
RowFits(g, c, row, s) ==
    /\ row.group = op[g][c].group
    /\ row.state \in {"none", "accepting"} \/ ~row.key => row.group = None
    /\ row.state \in {"enrolled", "prepared", "complete"} => Recorded(g, c)
    /\ row.state = "complete" => sent[g][c] \in {"accepted", "lapsed"}
    /\ s \notin {"idle", "record"} => g \in members
    /\ s \in Enrolling => row.state \in {"accepting", "enrolled", "prepared"}
    /\ s \in Asking => row.state = "accepting"
    /\ s \in Claiming \cup Publishing => row.state \in {"enrolled", "prepared"}
    /\ s \in Claiming => row.group = None
    /\ s \in Claiming \ {"key"} => row.key
    /\ s \in Publishing => row.group # None

\* A command that goes on inside an accepted invitation writes its row only.
LEMMA RowWritten ==
    ASSUME TypeOK, Progress, NEW g \in Guests, GuestSound(g),
           NEW c \in Cards, NEW row \in Row, NEW s \in Steps \ {"finished"},
           doing' \in [Guests -> Doing], doing'[g].step = s, s # "idle" => doing'[g].token = c,
           \A q \in Guests \ {g} : doing'[q] = doing[q],
           op' = [op EXCEPT ![g][c] = row], UNCHANGED <<sent, built, profile>>,
           RowFits(g, c, row, s),
           s = "accepted" => Recorded(g, c)'
    PROVE  GuestSound(g)' /\ \A q \in Guests \ {g} : Same(q)
  <1>1. /\ op'[g][c] = row /\ \A d \in Cards \ {c} : op'[g][d] = op[g][d]
        /\ \A q \in Guests \ {g} : op'[q] = op[q]
    BY RowStep DEF TypeOK
  <1>2. Recorded(g, c) => Recorded(g, c)'
    BY DEF Progress, Recorded
  <1>3. row.group \in Groups \cup {None}
    BY DEF Row
  <1>4. sent[g][c] = "accepted" => Introduced(op[g][c].group)'
    BY <1>1, <1>3 DEF Progress, Introduced, GuestSound, RowSound, RowFits
  <1>5. RowSound(g, c)'
    BY <1>1, <1>2, <1>4 DEF GuestSound, RowSound, RowFits
  <1>6. \A d \in Cards \ {c} : RowSound(g, d)'
    BY <1>1, RowKept DEF GuestSound
  <1>7. EnrolmentSound(g)'
    BY DEF GuestSound, EnrolmentSound, Progress, profile, RowFits
  <1>8. c \in Tokens /\ (row.state \in {"accepting", "enrolled", "prepared"} => Unfinished(g, c)')
    BY <1>1, Kinds DEF Unfinished
  <1>9. StepSound(g)'
    BY <1>1, <1>2, <1>8 DEF StepSound, RowFits, Introduced, Enrolling, Asking, Claiming, Publishing
  <1> QED BY <1>1, <1>5, <1>6, <1>7, <1>9 DEF GuestSound, Same, profile

LEMMA RowSame ==
    ASSUME TypeOK, NEW g \in Guests, NEW c \in Cards, UNCHANGED op
    PROVE  op[g][c] \in Row /\ op' = [op EXCEPT ![g][c] = op[g][c]]
  <1>1. op \in [Guests -> [Cards -> Row]]
    BY DEF TypeOK
  <1>2. [op EXCEPT ![g][c] = op[g][c]] = op
    <2>1. [op[g] EXCEPT ![c] = op[g][c]] = op[g]
      BY <1>1
    <2> QED BY <1>1, <2>1
  <1> QED BY <1>1, <1>2

\* NextStep turns to a step the row allows.
LEMMA NextStepSound ==
    ASSUME TypeOK, NEW g \in Guests, NEW c \in Cards, RowSound(g, c), Unfinished(g, c)
    PROVE  /\ NextStep(g, c) \in {"accept"} \cup Claiming \cup {"publish"}
           /\ NextStep(g, c) = "accept" <=> op[g][c].state = "accepting"
           /\ NextStep(g, c) \in Claiming => op[g][c].group = None
           /\ NextStep(g, c) \in Claiming \ {"key"} => op[g][c].key
           /\ NextStep(g, c) = "publish" => op[g][c].group # None
  BY DEF NextStep, RowSound, Unfinished, Claiming

LEMMA AcceptStep ==
    ASSUME TypeOK, Progress, NEW g \in Guests, NEW c \in Cards, GuestSound(g), Accept(g, c)
    PROVE  TypeOK' /\ GuestSound(g)' /\ \A q \in Guests \ {g} : Same(q)
  <1>0. PICK row, s :
           /\ row = [op[g][c] EXCEPT !.state = IF @ = "none" THEN "accepting" ELSE @]
           /\ s = IF NeedsEnrollment(g) THEN "record"
                  ELSE IF op[g][c].state = "none" THEN "accept" ELSE NextStep(g, c)
    OBVIOUS
  <1>1. op[g][c] \in Row /\ RowSound(g, c) /\ op[g][c].state \notin {"complete", "unavailable"}
    BY DEF TypeOK, Accept, GuestSound
  <1>2. /\ row \in Row /\ row.group = op[g][c].group /\ row.key = op[g][c].key
        /\ row.state = IF op[g][c].state = "none" THEN "accepting" ELSE op[g][c].state
    BY <1>0, <1>1 DEF Row
  <1>3. op' = [op EXCEPT ![g][c] = row]
    BY <1>0 DEF Accept
  <1>4. op[g][c].state # "none" => Unfinished(g, c)
    BY <1>1 DEF Unfinished, Row
  <1>5. s \in {"record", "accept", "publish"} \cup Claiming
    BY <1>0, <1>1, <1>4, NextStepSound
  <1>6. /\ doing' \in [Guests -> Doing] /\ doing'[g].step = s /\ doing'[g].token = c
        /\ \A q \in Guests \ {g} : doing'[q] = doing[q]
    <2>1. doing' = [doing EXCEPT ![g] = [token |-> c, package |-> None, step |-> s]]
      BY <1>0 DEF Accept
    <2>2. c \in Tokens /\ s \in Steps
      BY <1>5, Kinds DEF Steps, Enrolling, Asking, Publishing
    <2> QED BY <2>1, <2>2 DEF TypeOK, Doing
  <1>7. ~NeedsEnrollment(g) => g \in members
    BY DEF NeedsEnrollment, GuestSound, EnrolmentSound
  <1>8. /\ s \in Asking => row.state = "accepting"
        /\ s \in Claiming \cup Publishing => row.state \in {"enrolled", "prepared"}
        /\ s \in Claiming => row.group = None
        /\ s \in Claiming \ {"key"} => row.key
        /\ s \in Publishing => row.group # None
        /\ s \in Enrolling => row.state \in {"accepting", "enrolled", "prepared"}
        /\ s \notin {"accepted", "published", "idle", "finished"}
    BY <1>0, <1>1, <1>2, <1>4, <1>5, NextStepSound DEF Unfinished, Asking, Claiming, Publishing, Enrolling
  <1>9. /\ row.state \in {"none", "accepting"} \/ ~row.key => row.group = None
        /\ row.state \in {"enrolled", "prepared", "complete"} => Recorded(g, c)
        /\ row.state # "complete"
    BY <1>1, <1>2 DEF RowSound
  <1>10. s \in Steps \ {"finished"} /\ (s \notin {"idle", "record"} => g \in members)
    BY <1>0, <1>5, <1>7 DEF Steps, Enrolling, Asking, Claiming, Publishing
  <1>11. GuestSound(g)' /\ \A q \in Guests \ {g} : Same(q)
    <2>1. UNCHANGED <<sent, built, profile>>
      BY DEF Accept, history
    <2>2. RowFits(g, c, row, s)
      BY <1>2, <1>8, <1>9, <1>10 DEF RowFits
    <2>3. s \notin {"accepted", "published"}
      BY <1>8
    <2> QED BY <1>2, <1>3, <1>6, <1>10, <2>1, <2>2, <2>3, RowWritten
  <1>12. GuestTypes'
    <2>1. op' \in [Guests -> [Cards -> Row]]
      BY <1>2, <1>3, RowStep DEF TypeOK
    <2> QED BY <1>6, <2>1 DEF TypeOK, Sendings, GuestTypes, Accept
  <1> QED BY <1>11, <1>12, TypeFrame, TypeJoin DEF Accept

\* What a guest's step says of its card.
LEMMA AtCard ==
    ASSUME TypeOK, NEW g \in Guests, GuestSound(g), NEW c, c = doing[g].token,
           doing[g].step \in Asking \cup Claiming \cup Publishing
    PROVE  /\ c \in Cards /\ g \in members /\ op[g][c] \in Row /\ RowSound(g, c)
           /\ doing[g].step \in Asking => op[g][c].state = "accepting"
           /\ doing[g].step \in Claiming \cup Publishing => op[g][c].state \in {"enrolled", "prepared"}
           /\ doing[g].step \in Claiming => op[g][c].group = None
           /\ doing[g].step \in Claiming \ {"key"} => op[g][c].key
           /\ doing[g].step \in Publishing => op[g][c].group = <<g, c, 1>>
           /\ doing[g].step = "accepted" => Recorded(g, c)
  <1>1. c \in Cards
    BY DEF GuestSound, StepSound
  <1>2. g \in members
    BY DEF GuestSound, EnrolmentSound, Asking, Claiming, Publishing
  <1> QED BY <1>1, <1>2 DEF GuestSound, StepSound, RowSound, TypeOK

LEMMA SaveAnswerStep ==
    ASSUME TypeOK, Progress, NEW g \in Guests, GuestSound(g), SaveAnswer(g)
    PROVE  TypeOK' /\ GuestSound(g)' /\ \A q \in Guests \ {g} : Same(q)
  <1>1. PICK c : c = doing[g].token
    OBVIOUS
  <1>2. /\ c \in Cards /\ g \in members /\ op[g][c] \in Row /\ RowSound(g, c)
        /\ op[g][c].state = "accepting" /\ (doing[g].step = "accepted" => Recorded(g, c))
    BY <1>1, AtCard DEF SaveAnswer, At, Asking
  <1>3. PICK x \in {"enrolled", "unavailable"}, s \in {"key", "idle"} :
           /\ op' = [op EXCEPT ![g][c].state = x]
           /\ x = "enrolled" => s = "key" /\ doing[g].step = "accepted" /\ Go(g, s)
           /\ x = "unavailable" => s = "idle" /\ Stop(g)
    BY <1>1 DEF SaveAnswer, At
  <1>4. /\ doing' \in [Guests -> Doing] /\ doing'[g].step = s
        /\ s # "idle" => doing'[g].token = c
        /\ \A q \in Guests \ {g} : doing'[q] = doing[q]
    BY <1>1, <1>3, GoStep, StopStep DEF TypeOK, Steps, Claiming
  <1>0. PICK row : row = [op[g][c] EXCEPT !.state = x]
    OBVIOUS
  <1>5. row \in Row /\ row.state = x /\ row.group = op[g][c].group
    BY <1>0, <1>2 DEF Row
  <1>6. op' = [op EXCEPT ![g][c] = row]
    BY <1>3, <1>0
  <1>7. row.group = None /\ (x = "enrolled" => Recorded(g, c)) /\ UNCHANGED <<sent, built, profile>>
    BY <1>2, <1>3, <1>5 DEF RowSound, SaveAnswer, history
  <1>8. GuestSound(g)' /\ \A q \in Guests \ {g} : Same(q)
    <2>1. /\ s \in Steps \ {"finished", "accepted", "published"}
          /\ s \notin Enrolling \cup Asking \cup Publishing
          /\ s \in Claiming => x = "enrolled" /\ s = "key"
      BY <1>3 DEF Steps, Enrolling, Asking, Claiming, Publishing
    <2>2. /\ row.state \notin {"none", "accepting", "complete"}
          /\ row.state \in {"enrolled", "prepared", "complete"} => Recorded(g, c)
          /\ s \in Claiming \cup Publishing => row.state \in {"enrolled", "prepared"}
      BY <1>3, <1>5, <1>7, <2>1
    <2>3. RowFits(g, c, row, s)
      BY <1>2, <1>5, <1>7, <2>1, <2>2 DEF RowFits
    <2> QED BY <1>2, <1>4, <1>5, <1>6, <1>7, <2>1, <2>3, RowWritten
  <1>9. GuestTypes'
    <2>1. op' \in [Guests -> [Cards -> Row]]
      BY <1>2, <1>6, <1>5, RowStep DEF TypeOK
    <2> QED BY <1>4, <2>1 DEF TypeOK, Sendings, GuestTypes, SaveAnswer
  <1> QED BY <1>8, <1>9, TypeFrame, TypeJoin DEF SaveAnswer

LEMMA DrawClaimKeyStep ==
    ASSUME TypeOK, Progress, NEW g \in Guests, GuestSound(g), DrawClaimKey(g)
    PROVE  TypeOK' /\ GuestSound(g)' /\ \A q \in Guests \ {g} : Same(q)
  <1>1. PICK c : c = doing[g].token
    OBVIOUS
  <1>2. /\ c \in Cards /\ g \in members /\ op[g][c] \in Row /\ RowSound(g, c)
        /\ op[g][c].state \in {"enrolled", "prepared"} /\ op[g][c].group = None
    BY <1>1, AtCard DEF DrawClaimKey, At, Claiming
  <1>3. /\ doing' \in [Guests -> Doing] /\ doing'[g].step = "claim" /\ doing'[g].token = c
        /\ \A q \in Guests \ {g} : doing'[q] = doing[q]
    BY <1>1, GoStep DEF TypeOK, Steps, Claiming, DrawClaimKey
  <1>0. PICK row : row = [op[g][c] EXCEPT !.key = TRUE]
    OBVIOUS
  <1>4. row \in Row /\ row.state = op[g][c].state /\ row.group = op[g][c].group /\ row.key
    BY <1>0, <1>2 DEF Row
  <1>5. op' = [op EXCEPT ![g][c] = row]
    BY <1>0, <1>1 DEF DrawClaimKey
  <1>6. Recorded(g, c) /\ UNCHANGED <<sent, built, profile>>
    BY <1>2 DEF RowSound, DrawClaimKey, history
  <1>7. GuestSound(g)' /\ \A q \in Guests \ {g} : Same(q)
    <2>1. /\ "claim" \in Steps \ {"finished", "accepted", "published", "idle"}
          /\ "claim" \notin Enrolling \cup Asking \cup Publishing
      BY DEF Steps, Enrolling, Asking, Claiming, Publishing
    <2>2. RowFits(g, c, row, "claim")
      BY <1>2, <1>4, <1>6, <2>1 DEF RowFits
    <2> QED BY <1>2, <1>3, <1>4, <1>5, <1>6, <2>1, <2>2, RowWritten
  <1>8. GuestTypes'
    <2>1. op' \in [Guests -> [Cards -> Row]]
      BY <1>2, <1>5, <1>4, RowStep DEF TypeOK
    <2> QED BY <1>3, <2>1 DEF TypeOK, Sendings, GuestTypes, DrawClaimKey
  <1> QED BY <1>7, <1>8, TypeFrame, TypeJoin DEF DrawClaimKey

LEMMA SaveClaimStep ==
    ASSUME TypeOK, Progress, NEW g \in Guests, GuestSound(g), SaveClaim(g)
    PROVE  TypeOK' /\ GuestSound(g)' /\ \A q \in Guests \ {g} : Same(q)
  <1>1. PICK c : c = doing[g].token
    OBVIOUS
  <1>2. /\ c \in Cards /\ g \in members /\ op[g][c] \in Row /\ RowSound(g, c)
        /\ op[g][c].state \in {"enrolled", "prepared"} /\ op[g][c].group = None /\ op[g][c].key
    BY <1>1, AtCard DEF SaveClaim, At, Claiming
  <1>3. /\ doing' \in [Guests -> Doing] /\ doing'[g].step = "build" /\ doing'[g].token = c
        /\ \A q \in Guests \ {g} : doing'[q] = doing[q]
    BY <1>1, GoStep DEF TypeOK, Steps, Claiming, SaveClaim
  <1>4. doing[g].package \in Packages \cup {None}
    BY DEF TypeOK, Doing
  <1>0. PICK row : row = [op[g][c] EXCEPT !.package = doing[g].package]
    OBVIOUS
  <1>5. row \in Row /\ row.state = op[g][c].state /\ row.group = op[g][c].group /\ row.key
    BY <1>0, <1>2, <1>4 DEF Row
  <1>6. op' = [op EXCEPT ![g][c] = row]
    BY <1>0, <1>1 DEF SaveClaim
  <1>7. Recorded(g, c) /\ UNCHANGED <<sent, built, profile>>
    BY <1>2 DEF RowSound, SaveClaim, history
  <1>8. GuestSound(g)' /\ \A q \in Guests \ {g} : Same(q)
    <2>1. /\ "build" \in Steps \ {"finished", "accepted", "published", "idle"}
          /\ "build" \notin Enrolling \cup Asking \cup Publishing
      BY DEF Steps, Enrolling, Asking, Claiming, Publishing
    <2>2. RowFits(g, c, row, "build")
      BY <1>2, <1>5, <1>7, <2>1 DEF RowFits
    <2> QED BY <1>2, <1>3, <1>5, <1>6, <1>7, <2>1, <2>2, RowWritten
  <1>9. GuestTypes'
    <2>1. op' \in [Guests -> [Cards -> Row]]
      BY <1>2, <1>6, <1>5, RowStep DEF TypeOK
    <2> QED BY <1>3, <2>1 DEF TypeOK, Sendings, GuestTypes, SaveClaim
  <1> QED BY <1>8, <1>9, TypeFrame, TypeJoin DEF SaveClaim

LEMMA CompleteOperationStep ==
    ASSUME TypeOK, Progress, NEW g \in Guests, GuestSound(g), CompleteOperation(g)
    PROVE  TypeOK' /\ GuestSound(g)' /\ \A q \in Guests \ {g} : Same(q)
  <1>1. PICK c : c = doing[g].token
    OBVIOUS
  <1>2. /\ c \in Cards /\ g \in members /\ op[g][c] \in Row /\ RowSound(g, c)
        /\ op[g][c].state \in {"enrolled", "prepared"} /\ op[g][c].group = <<g, c, 1>>
    BY <1>1, AtCard DEF CompleteOperation, At, Publishing
  <1>3. /\ doing' \in [Guests -> Doing] /\ doing'[g].step = "idle"
        /\ \A q \in Guests \ {g} : doing'[q] = doing[q]
    BY StopStep DEF TypeOK, CompleteOperation
  <1>4. UNCHANGED <<sent, built, profile>>
    BY DEF CompleteOperation, history
  <1>5. ASSUME sent[g][c] = "accepted"
        PROVE  (op \in [Guests -> [Cards -> Row]])' /\ GuestSound(g)' /\ \A q \in Guests \ {g} : Same(q)
    <2>0. PICK row : row = [op[g][c] EXCEPT !.state = "complete", !.package = None]
      OBVIOUS
    <2>1. /\ row \in Row /\ row.state = "complete" /\ row.group = op[g][c].group
          /\ row.key = op[g][c].key
      BY <1>2, <2>0 DEF Row
    <2>2. op' = [op EXCEPT ![g][c] = row]
      <3>1. op' = [op EXCEPT ![g][c].state = "complete", ![g][c].package = None]
        BY <1>1, <1>5 DEF CompleteOperation
      <3> QED BY <1>2, <2>0, <3>1 DEF TypeOK
    <2>3. Recorded(g, c) /\ row.group # None /\ row.key
      BY <1>2, <2>1, Kinds DEF RowSound
    <2>4. /\ "idle" \in Steps \ {"finished", "accepted"}
          /\ "idle" \notin Enrolling \cup Asking \cup Claiming \cup Publishing
      BY DEF Steps, Enrolling, Asking, Claiming, Publishing
    <2>5. RowFits(g, c, row, "idle")
      BY <1>2, <1>5, <2>1, <2>3, <2>4 DEF RowFits
    <2>6. op' \in [Guests -> [Cards -> Row]]
      BY <1>2, <2>1, <2>2, RowStep DEF TypeOK
    <2> QED BY <1>2, <1>3, <1>4, <2>1, <2>2, <2>4, <2>5, <2>6, RowWritten
  <1>6. ASSUME sent[g][c] # "accepted"
        PROVE  (op \in [Guests -> [Cards -> Row]])' /\ GuestSound(g)' /\ \A q \in Guests \ {g} : Same(q)
    <2>1. UNCHANGED op /\ Stop(g)
      BY <1>1, <1>6 DEF CompleteOperation
    <2> QED BY <1>4, <2>1, StoppedSound DEF TypeOK
  <1>7. (op \in [Guests -> [Cards -> Row]])' /\ GuestSound(g)' /\ \A q \in Guests \ {g} : Same(q)
    BY <1>5, <1>6
  <1>8. GuestTypes'
    BY <1>3, <1>4, <1>7 DEF TypeOK, Sendings, GuestTypes, Sendings, CompleteOperation
  <1> QED BY <1>7, <1>8, TypeFrame, TypeJoin DEF CompleteOperation

LEMMA ClaimOnceStep ==
    ASSUME TypeOK, Progress, NEW g \in Guests, GuestSound(g), ClaimOnce(g)
    PROVE  TypeOK' /\ GuestSound(g)' /\ \A q \in Guests \ {g} : Same(q)
  <1>1. PICK c : c = doing[g].token
    OBVIOUS
  <1>2. /\ c \in Cards /\ g \in members /\ op[g][c] \in Row /\ RowSound(g, c)
        /\ op[g][c].state \in {"enrolled", "prepared"} /\ op[g][c].group = None /\ op[g][c].key
    BY <1>1, AtCard DEF ClaimOnce, At, Claiming
  <1>3. UNCHANGED <<op, sent, built, profile>>
    BY DEF ClaimOnce
  <1>4. CASE Claimable(g, c)
    <2>1. PICK k \in Packages :
             /\ doing' = [doing EXCEPT ![g].step = "claimed", ![g].package = k]
             /\ \/ UNCHANGED <<receipt, free, taken>>
                \/ /\ receipt' = [receipt EXCEPT ![g][c] = k] /\ free' \subseteq free
                   /\ taken' = [taken EXCEPT ![g][c] = taken[g][c] + 1]
      <3>1. receipt[g][c] \in Packages \cup {None} /\ free \subseteq Packages
        BY <1>2 DEF TypeOK
      <3> QED BY <1>1, <1>4, <3>1 DEF ClaimOnce, ClaimKeyPackageOnce
    <2>2. /\ doing' \in [Guests -> Doing] /\ doing'[g].step = "claimed" /\ doing'[g].token = c
          /\ \A q \in Guests \ {g} : doing'[q] = doing[q]
      <3>1. PICK d : d = [doing[g] EXCEPT !.step = "claimed", !.package = k]
        OBVIOUS
      <3>2. d \in Doing /\ d.step = "claimed" /\ d.token = c
        <4>1. doing[g] \in Doing /\ "claimed" \in Steps
          BY DEF TypeOK, Steps, Claiming
        <4> QED BY <1>1, <3>1, <4>1 DEF Doing
      <3>3. doing' = [doing EXCEPT ![g] = d]
        BY <2>1, <3>1 DEF TypeOK
      <3> QED BY <3>2, <3>3 DEF TypeOK
    <2>3. receipt' \in [Guests -> [Cards -> Packages \cup {None}]] /\ free' \subseteq Packages
      <3>1. /\ receipt \in [Guests -> [Cards -> Packages \cup {None}]]
            /\ free \subseteq Packages /\ k \in Packages \cup {None}
        BY DEF TypeOK
      <3> QED BY <1>2, <2>1, <3>1, TableStep
    <2>4. taken' \in [Guests -> [Cards -> Nat]]
      <3>1. taken \in [Guests -> [Cards -> Nat]] /\ taken[g][c] + 1 \in Nat
        BY <1>2 DEF TypeOK
      <3> QED BY <1>2, <2>1, <3>1, TableStep
    <2>5. Recorded(g, c)
      BY <1>2 DEF RowSound
    <2>6. /\ "claimed" \in Steps \ {"finished", "accepted", "published", "idle"}
          /\ "claimed" \notin Enrolling \cup Asking \cup Publishing
      BY DEF Steps, Enrolling, Asking, Claiming, Publishing
    <2>7. GuestSound(g)' /\ \A q \in Guests \ {g} : Same(q)
      <3>1. PICK row \in Row : row = op[g][c] /\ op' = [op EXCEPT ![g][c] = row]
        BY <1>2, <1>3, RowSame
      <3>2. RowFits(g, c, row, "claimed")
        BY <1>2, <2>5, <2>6, <3>1 DEF RowFits
      <3> QED BY <1>2, <1>3, <2>2, <2>6, <3>1, <3>2, RowWritten
    <2>8. GuestTypes' /\ SupplyTypes' /\ HistoryTypes'
      BY <1>3, <2>2, <2>3, <2>4 DEF TypeOK, Sendings, GuestTypes, SupplyTypes, HistoryTypes, ClaimOnce
    <2> QED BY <2>7, <2>8, TypeFrame, TypeJoin DEF ClaimOnce
  <1>5. CASE ~Claimable(g, c)
    <2>1. Stop(g) /\ UNCHANGED <<receipt, free, taken>>
      BY <1>1, <1>5 DEF ClaimOnce
    <2>2. GuestSound(g)' /\ \A q \in Guests \ {g} : Same(q)
      BY <1>3, <2>1, StoppedSound
    <2>3. GuestTypes' /\ SupplyTypes' /\ HistoryTypes'
      BY <1>3, <2>1, StopStep DEF TypeOK, Sendings, GuestTypes, SupplyTypes, HistoryTypes, ClaimOnce
    <2> QED BY <2>2, <2>3, TypeFrame, TypeJoin DEF ClaimOnce
  <1> QED BY <1>4, <1>5

\* What became of the introduction is written beside the row, not in it.
LEMMA PublishIntroductionStep ==
    ASSUME TypeOK, Progress, NEW g \in Guests, GuestSound(g), PublishIntroduction(g)
    PROVE  TypeOK' /\ GuestSound(g)' /\ \A q \in Guests \ {g} : Same(q)
  <1>1. PICK c : c = doing[g].token
    OBVIOUS
  <1>2. /\ c \in Cards /\ g \in members /\ op[g][c] \in Row /\ RowSound(g, c)
        /\ op[g][c].state \in {"enrolled", "prepared"} /\ op[g][c].group = <<g, c, 1>>
    BY <1>1, AtCard DEF PublishIntroduction, At, Publishing
  <1>3. UNCHANGED <<op, built, profile, request>>
    BY DEF PublishIntroduction, history, owner
  <1>4. op[g][c].group \in Groups /\ op[g][c].group # None
    BY <1>2, Kinds
  <1>5. PICK x \in Sendings \ {"none"}, s \in {"published", "idle"} :
           /\ sent' = [sent EXCEPT ![g][c] = x]
           /\ IF s = "idle" THEN Stop(g) ELSE Go(g, s)
           /\ x = "accepted" => sent[g][c] = "accepted" \/ Introduced(op[g][c].group)'
    <2>1. sent[g][c] \in Sendings \ {"none"} /\ sent = [sent EXCEPT ![g][c] = sent[g][c]]
      <3>1. sent \in [Guests -> [Cards -> Sendings]]
        BY DEF TypeOK, Sendings
      <3>2. [sent[g] EXCEPT ![c] = sent[g][c]] = sent[g]
        BY <1>2, <3>1
      <3> QED BY <1>2, <1>4, <3>1, <3>2 DEF RowSound
    <2>2. CASE Go(g, "published") /\ UNCHANGED sent
      BY <2>1, <2>2
    <2>3. CASE Stop(g) /\ UNCHANGED sent /\ sent[g][c] = "sealed"
      BY <2>1, <2>3
    <2>4. CASE Go(g, "published") /\ sent' = [sent EXCEPT ![g][c] = "refused"]
      <3>1. PICK x \in Sendings \ {"none"} : x = "refused"
        BY DEF Sendings
      <3> QED BY <2>4, <3>1
    <2>5. CASE /\ Go(g, "published") /\ sent' = [sent EXCEPT ![g][c] = "accepted"]
               /\ mail' = IF request[op[g][c].group] = "none" THEN mail \cup {op[g][c].group} ELSE mail
      <3>1. Introduced(op[g][c].group)'
        BY <1>3, <2>5 DEF Introduced
      <3> QED BY <2>5, <3>1 DEF Sendings
    <2> QED BY <1>1, <2>2, <2>3, <2>4, <2>5 DEF PublishIntroduction
  <1>6. /\ sent' \in [Guests -> [Cards -> Sendings]] /\ sent'[g][c] = x
        /\ \A d \in Cards \ {c} : sent'[g][d] = sent[g][d]
        /\ \A q \in Guests \ {g} : sent'[q] = sent[q]
    <2>1. sent \in [Guests -> [Cards -> Sendings]] /\ x \in Sendings
      BY DEF TypeOK, Sendings
    <2> QED BY <1>2, <1>5, <2>1, TableStep
  <1>7. /\ doing' \in [Guests -> Doing] /\ doing'[g].step = s
        /\ s # "idle" => doing'[g].token = c
        /\ \A q \in Guests \ {g} : doing'[q] = doing[q]
    BY <1>1, <1>5, GoStep, StopStep DEF TypeOK, Steps, Publishing
  <1>8. Introduced(op[g][c].group) => Introduced(op[g][c].group)'
    BY <1>3, <1>4 DEF Progress, Introduced
  <1>9. RowSound(g, c)'
    <2>1. x = "accepted" => Introduced(op[g][c].group)'
      BY <1>2, <1>5, <1>8 DEF RowSound
    <2>2. Recorded(g, c)'
      BY <1>2 DEF RowSound, Progress, Recorded
    <2>3. op'[g][c] = op[g][c] /\ built'[g][c] = built[g][c] /\ sent'[g][c] = x /\ x # "none"
      BY <1>3, <1>5, <1>6
    <2> QED BY <1>2, <1>4, <2>1, <2>2, <2>3 DEF RowSound
  <1>10. \A d \in Cards \ {c} : RowSound(g, d)'
    BY <1>3, <1>6, RowKept DEF GuestSound
  <1>11. EnrolmentSound(g)'
    BY <1>2, <1>3, <1>5, <1>7 DEF GuestSound, EnrolmentSound, Progress, profile
  <1>12. StepSound(g)'
    BY <1>2, <1>3, <1>4, <1>5, <1>7, Kinds DEF StepSound, Enrolling, Asking, Claiming, Publishing
  <1>13. (mail \subseteq Groups)' /\ (faults \in Nat)'
    <2>1. faults' = faults \/ faults' = faults + 1
      BY DEF PublishIntroduction, Fault
    <2> QED BY <1>1, <1>4, <2>1 DEF PublishIntroduction, TypeOK
  <1>14. GuestTypes'
    BY <1>3, <1>6, <1>7 DEF TypeOK, Sendings, GuestTypes, PublishIntroduction
  <1>15. \A q \in Guests \ {g} : Same(q)
    BY <1>3, <1>6, <1>7 DEF Same, profile
  <1> QED BY <1>9, <1>10, <1>11, <1>12, <1>13, <1>14, <1>15, TypeFrame, TypeJoin
          DEF PublishIntroduction, GuestSound

LEMMA AcceptInvitationStep ==
    ASSUME TypeOK, Progress, NEW g \in Guests, GuestSound(g), AcceptInvitation(g)
    PROVE  TypeOK' /\ GuestSound(g)' /\ \A q \in Guests \ {g} : Same(q)
  <1>1. PICK c : c = doing[g].token
    OBVIOUS
  <1>2. /\ c \in Cards /\ g \in members /\ op[g][c] \in Row /\ RowSound(g, c)
        /\ op[g][c].state = "accepting" /\ c \in Tokens
    BY <1>1, AtCard, Kinds DEF AcceptInvitation, At, Asking
  <1>3. UNCHANGED <<op, sent, built, profile>>
    BY DEF AcceptInvitation, history
  <1>4. PICK s \in {"accepted", "refused"} :
           /\ Go(g, s)
           /\ s = "accepted" => Recorded(g, c)'
           /\ RedeemInvite(g, c) \/ UNCHANGED <<uses, redeemed, issued, claimant>>
    BY <1>1 DEF AcceptInvitation, RedeemInvite, Recorded
  <1>5. /\ doing' \in [Guests -> Doing] /\ doing'[g].step = s /\ doing'[g].token = c
        /\ \A q \in Guests \ {g} : doing'[q] = doing[q]
    BY <1>1, <1>4, GoStep DEF TypeOK, Steps, Asking
  <1>6. op[g][c].group = None
    BY <1>2 DEF RowSound
  <1>7. /\ s \in Steps \ {"finished", "published", "idle"}
        /\ s \notin Enrolling \cup Claiming \cup Publishing
    BY <1>4 DEF Steps, Enrolling, Asking, Claiming, Publishing
  <1>8. GuestSound(g)' /\ \A q \in Guests \ {g} : Same(q)
    <2>1. PICK row \in Row : row = op[g][c] /\ op' = [op EXCEPT ![g][c] = row]
      BY <1>2, <1>3, RowSame
    <2>2. RowFits(g, c, row, s)
      BY <1>2, <1>6, <1>7, <2>1 DEF RowFits
    <2> QED BY <1>2, <1>3, <1>4, <1>5, <1>7, <2>1, <2>2, RowWritten
  <1>9. AdmissionTypes'
    BY <1>2, <1>4, RedeemTypes DEF TypeOK, AdmissionTypes, AcceptInvitation
  <1>10. GuestTypes'
    BY <1>3, <1>5 DEF TypeOK, Sendings, GuestTypes, AcceptInvitation
  <1> QED BY <1>8, <1>9, <1>10, TypeFrame, TypeJoin DEF AcceptInvitation

\* The one conversation of an invitation: its row had none.
LEMMA BuildGroupStep ==
    ASSUME TypeOK, Progress, NEW g \in Guests, GuestSound(g), BuildGroup(g)
    PROVE  TypeOK' /\ GuestSound(g)' /\ \A q \in Guests \ {g} : Same(q)
  <1>1. PICK c : c = doing[g].token
    OBVIOUS
  <1>2. /\ c \in Cards /\ g \in members /\ op[g][c] \in Row /\ RowSound(g, c)
        /\ op[g][c].state \in {"enrolled", "prepared"} /\ op[g][c].group = None /\ op[g][c].key
    BY <1>1, AtCard DEF BuildGroup, At, Claiming
  <1>3. built[g][c] = 0 /\ Recorded(g, c)
    BY <1>2, Kinds DEF RowSound
  <1>4. /\ built' = [built EXCEPT ![g][c] = 1] /\ built' \in [Guests -> [Cards -> Nat]]
        /\ built'[g][c] = 1 /\ \A d \in Cards \ {c} : built'[g][d] = built[g][d]
        /\ \A q \in Guests \ {g} : built'[q] = built[q]
    <2>1. built \in [Guests -> [Cards -> Nat]] /\ 1 \in Nat
      BY DEF TypeOK
    <2>2. built' = [built EXCEPT ![g][c] = 1]
      <3>1. built[g][c] + 1 = 1
        BY <1>3
      <3> QED BY <1>1, <3>1 DEF BuildGroup
    <2> QED BY <1>2, <2>1, <2>2, TableStep
  <1>5. PICK h : h = <<g, c, 1>>
    OBVIOUS
  <1>6. h \in Groups /\ h # None
    BY <1>2, <1>5, Kinds
  <1>7. PICK row : row = [op[g][c] EXCEPT !.group = h, !.state = "prepared"]
    OBVIOUS
  <1>8. row \in Row /\ row.state = "prepared" /\ row.group = h /\ row.key
    BY <1>2, <1>6, <1>7 DEF Row
  <1>9. op' = [op EXCEPT ![g][c] = row]
    <2>1. op' = [op EXCEPT ![g][c].group = h, ![g][c].state = "prepared"]
      BY <1>1, <1>4, <1>5 DEF BuildGroup
    <2> QED BY <1>2, <1>7, <2>1 DEF TypeOK
  <1>10. /\ op' \in [Guests -> [Cards -> Row]] /\ op'[g][c] = row
         /\ \A d \in Cards \ {c} : op'[g][d] = op[g][d] /\ \A q \in Guests \ {g} : op'[q] = op[q]
    BY <1>2, <1>8, <1>9, RowStep DEF TypeOK
  <1>11. \A q \in Guests \ {g} : op'[q] = op[q]
    BY <1>2, <1>8, <1>9, RowStep DEF TypeOK
  <1>12. /\ doing' \in [Guests -> Doing] /\ doing'[g].step = "publish" /\ doing'[g].token = c
         /\ \A q \in Guests \ {g} : doing'[q] = doing[q]
    BY <1>1, GoStep DEF TypeOK, Steps, Publishing, BuildGroup
  <1>13. UNCHANGED profile
    BY DEF BuildGroup
  <1>14. /\ sent' \in [Guests -> [Cards -> Sendings]] /\ sent'[g][c] = "sealed"
         /\ \A d \in Cards \ {c} : sent'[g][d] = sent[g][d]
         /\ \A q \in Guests \ {g} : sent'[q] = sent[q]
    <2>1. sent \in [Guests -> [Cards -> Sendings]] /\ "sealed" \in Sendings
      BY DEF TypeOK, Sendings
    <2>2. sent' = [sent EXCEPT ![g][c] = "sealed"]
      BY <1>1 DEF BuildGroup
    <2> QED BY <1>2, <2>1, <2>2, TableStep
  <1>15. Recorded(g, c)'
    BY <1>3 DEF Progress, Recorded
  <1>16. EnrolmentSound(g)'
    BY <1>2, <1>12, <1>13 DEF GuestSound, EnrolmentSound, Progress, profile
  <1>17. StepSound(g)'
    BY <1>2, <1>6, <1>8, <1>10, <1>12, Kinds DEF StepSound, Enrolling, Asking, Claiming, Publishing
  <1>18. RowSound(g, c)'
    BY <1>4, <1>5, <1>6, <1>8, <1>10, <1>15, <1>14 DEF RowSound
  <1>19. \A d \in Cards \ {c} : RowSound(g, d)'
    BY <1>4, <1>10, <1>14, RowKept DEF GuestSound
  <1>20. GuestSound(g)' /\ \A q \in Guests \ {g} : Same(q)
    BY <1>4, <1>11, <1>12, <1>13, <1>16, <1>17, <1>18, <1>19, <1>14 DEF GuestSound, Same, profile
  <1>21. GuestTypes' /\ HistoryTypes'
    BY <1>4, <1>10, <1>12, <1>14 DEF TypeOK, Sendings, GuestTypes, HistoryTypes, BuildGroup
  <1> QED BY <1>20, <1>21, TypeFrame, TypeJoin DEF BuildGroup

-----------------------------------------------------------------------------
(* The steps of a guest that enrols.                                         *)

\* A command that goes on, or stops, inside an enrolment writes no row.
LEMMA EnrolWritten ==
    ASSUME TypeOK, Progress, NEW g \in Guests, GuestSound(g), doing[g].step \in Enrolling,
           NEW s \in Enrolling \cup {"idle"},
           doing'[g].step = s, s # "idle" => doing'[g].token = doing[g].token,
           UNCHANGED <<op, sent, built>>
    PROVE  StepSound(g)' /\ \A c \in Cards : RowSound(g, c)'
  <1>1. PICK t : t = doing[g].token
    OBVIOUS
  <1>2. t \in Tokens /\ (t \in Cards => Unfinished(g, t))
    BY <1>1 DEF GuestSound, StepSound, Enrolling
  <1>3. t \in Cards => Unfinished(g, t)'
    BY <1>2 DEF Unfinished
  <1>4. s \notin Asking \cup Claiming \cup Publishing
    BY DEF Enrolling, Asking, Claiming, Publishing
  <1>5. StepSound(g)'
    BY <1>1, <1>2, <1>3, <1>4 DEF StepSound, Asking, Publishing, Enrolling
  <1> QED BY <1>5, RowKept DEF GuestSound

LEMMA EnrollStep ==
    ASSUME TypeOK, Progress, NEW g \in Guests, NEW t \in Hosted, GuestSound(g), Enroll(g, t)
    PROVE  TypeOK' /\ GuestSound(g)' /\ \A q \in Guests \ {g} : Same(q)
  <1>1. t \in Tokens /\ t \notin Cards
    BY Kinds
  <1>2. /\ doing' \in [Guests -> Doing] /\ doing'[g].step = "record" /\ doing'[g].token = t
        /\ \A q \in Guests \ {g} : doing'[q] = doing[q]
    BY <1>1 DEF Enroll, TypeOK, Doing, Steps, Enrolling
  <1>3. UNCHANGED <<op, sent, built, profile>>
    BY DEF Enroll, history
  <1>4. StepSound(g)'
    BY <1>1, <1>2 DEF StepSound, Enrolling, Asking, Claiming, Publishing
  <1>5. EnrolmentSound(g)'
    BY <1>2, <1>3 DEF GuestSound, EnrolmentSound, Progress, profile
  <1>6. \A c \in Cards : RowSound(g, c)'
    BY <1>3, RowKept DEF GuestSound
  <1>7. GuestTypes'
    BY <1>2, <1>3 DEF TypeOK, Sendings, GuestTypes, Enroll
  <1>8. \A q \in Guests \ {g} : Same(q)
    BY <1>2, <1>3 DEF Same, profile
  <1> QED BY <1>4, <1>5, <1>6, <1>7, <1>8, TypeFrame, TypeJoin DEF Enroll, GuestSound

LEMMA RecordEnrollmentStep ==
    ASSUME TypeOK, Progress, NEW g \in Guests, GuestSound(g), RecordEnrollment(g)
    PROVE  TypeOK' /\ GuestSound(g)' /\ \A q \in Guests \ {g} : Same(q)
  <1>1. doing[g].step = "record" /\ doing[g].step \in Enrolling
    BY DEF RecordEnrollment, At, Enrolling
  <1>2. doing[g].token \in Tokens
    BY <1>1 DEF GuestSound, StepSound
  <1>3. UNCHANGED <<op, sent, built, joined>>
    BY DEF RecordEnrollment, history
  <1>4. PICK s \in {"redeem", "idle"} : IF s = "redeem" THEN Go(g, s) ELSE Stop(g)
    BY DEF RecordEnrollment
  <1>5. /\ doing' \in [Guests -> Doing] /\ doing'[g].step = s
        /\ s # "idle" => doing'[g].token = doing[g].token
        /\ \A q \in Guests \ {g} : doing'[q] = doing[q]
    BY <1>4, GoStep, StopStep DEF TypeOK, Steps, Enrolling
  <1>6. \/ /\ enrollment[g].phase = 0
           /\ enrollment' = [enrollment EXCEPT ![g] = [token |-> doing[g].token, phase |-> Redeeming]]
        \/ enrollment' = enrollment
    BY DEF RecordEnrollment
  <1>7. /\ enrollment' \in [Guests -> [token : Tokens \cup {None}, phase : 0..Complete]]
        /\ enrollment'[g].phase = enrollment[g].phase \/ enrollment'[g].phase = 1
        /\ \A q \in Guests \ {g} : enrollment'[q] = enrollment[q]
    <2>1. PICK row : row = [token |-> doing[g].token, phase |-> Redeeming]
      OBVIOUS
    <2>2. row \in [token : Tokens \cup {None}, phase : 0..Complete] /\ row.phase = 1
      BY <1>2, <2>1 DEF Redeeming, Complete
    <2>3. enrollment' = [enrollment EXCEPT ![g] = row] \/ enrollment' = enrollment
      BY <1>6, <2>1
    <2>4. enrollment \in [Guests -> [token : Tokens \cup {None}, phase : 0..Complete]]
      BY DEF TypeOK
    <2>5. CASE enrollment' = enrollment
      BY <2>4, <2>5
    <2>6. CASE enrollment' = [enrollment EXCEPT ![g] = row]
      BY <2>2, <2>4, <2>6
    <2> QED BY <2>3, <2>5, <2>6
  <1>8. EnrolmentSound(g)'
    BY <1>3, <1>4, <1>5, <1>7 DEF GuestSound, EnrolmentSound, Progress, Redeemed, Complete
  <1>9. StepSound(g)' /\ \A c \in Cards : RowSound(g, c)'
    BY <1>1, <1>3, <1>4, <1>5, EnrolWritten DEF Enrolling
  <1>10. GuestTypes' /\ ProfileTypes'
    <2>1. manifest' \in [Guests -> 0..2]
      BY DEF RecordEnrollment, TypeOK
    <2> QED BY <1>3, <1>5, <1>7, <2>1 DEF TypeOK, Sendings, GuestTypes, ProfileTypes, RecordEnrollment
  <1>11. \A q \in Guests \ {g} : Same(q)
    BY <1>3, <1>5, <1>7 DEF Same
  <1> QED BY <1>8, <1>9, <1>10, <1>11, TypeFrame, TypeJoin DEF RecordEnrollment, GuestSound

LEMMA RedeemStep ==
    ASSUME TypeOK, Progress, RelaySound, NEW g \in Guests, GuestSound(g), Redeem(g)
    PROVE  TypeOK' /\ GuestSound(g)' /\ \A q \in Guests \ {g} : Same(q)
  <1>1. PICK t : t = doing[g].token
    OBVIOUS
  <1>2. doing[g].step \in Enrolling /\ t \in Tokens
    BY <1>1 DEF Redeem, At, Enrolling, GuestSound, StepSound
  <1>3. UNCHANGED <<op, sent, built, profile>>
    BY DEF Redeem, history
  <1>4. PICK s \in {"redeemed", "gone", "idle"} :
           /\ IF s = "idle" THEN Stop(g) ELSE Go(g, s)
           /\ s = "redeemed" => g \in members'
           /\ \/ RedeemInvite(g, t) /\ members' = members \cup {g}
              \/ UNCHANGED <<uses, redeemed, issued, claimant, members>>
    <2>1. Recorded(g, t) => g \in members
      BY <1>2 DEF RelaySound
    <2> QED BY <1>1, <2>1 DEF Redeem
  <1>5. /\ doing' \in [Guests -> Doing] /\ doing'[g].step = s
        /\ s # "idle" => doing'[g].token = doing[g].token
        /\ \A q \in Guests \ {g} : doing'[q] = doing[q]
    BY <1>4, GoStep, StopStep DEF TypeOK, Steps, Enrolling
  <1>6. EnrolmentSound(g)'
    BY <1>3, <1>4, <1>5 DEF GuestSound, EnrolmentSound, Progress, profile
  <1>7. StepSound(g)' /\ \A c \in Cards : RowSound(g, c)'
    BY <1>2, <1>3, <1>4, <1>5, EnrolWritten DEF Enrolling
  <1>8. AdmissionTypes'
    <2>1. members' \subseteq Guests
      BY <1>4 DEF TypeOK
    <2> QED BY <1>2, <1>4, <2>1, RedeemTypes DEF TypeOK, AdmissionTypes, Redeem
  <1>9. GuestTypes'
    BY <1>3, <1>5 DEF TypeOK, Sendings, GuestTypes, Redeem
  <1>10. \A q \in Guests \ {g} : Same(q)
    BY <1>3, <1>5 DEF Same, profile
  <1> QED BY <1>6, <1>7, <1>8, <1>9, <1>10, TypeFrame, TypeJoin DEF Redeem, GuestSound

LEMMA RejectedStep ==
    ASSUME TypeOK, Progress, NEW g \in Guests, GuestSound(g), Rejected(g)
    PROVE  TypeOK' /\ GuestSound(g)' /\ \A q \in Guests \ {g} : Same(q)
  <1>1. PICK t : t = doing[g].token
    OBVIOUS
  <1>2. /\ doing' \in [Guests -> Doing] /\ doing'[g].step = "idle"
        /\ \A q \in Guests \ {g} : doing'[q] = doing[q]
    BY StopStep DEF TypeOK, Rejected
  <1>3. UNCHANGED <<sent, built, joined, manifest>>
    BY DEF Rejected, history
  <1>4. StepSound(g)'
    BY <1>2 DEF StepSound, Enrolling, Asking, Claiming, Publishing
  <1>5. \/ UNCHANGED <<enrollment, op>>
        \/ /\ t \in Cards /\ enrollment[g].phase = Redeeming
           /\ enrollment' = [enrollment EXCEPT ![g] = NoEnrollment]
           /\ op' = [op EXCEPT ![g][t].state = "unavailable"]
    BY <1>1 DEF Rejected
  <1>6. /\ enrollment' \in [Guests -> [token : Tokens \cup {None}, phase : 0..Complete]]
        /\ enrollment'[g].phase = enrollment[g].phase \/ enrollment'[g].phase = 0
        /\ \A q \in Guests \ {g} : enrollment'[q] = enrollment[q]
    <2>1. NoEnrollment \in [token : Tokens \cup {None}, phase : 0..Complete] /\ NoEnrollment.phase = 0
      BY DEF NoEnrollment, Complete
    <2>2. PICK row : row = NoEnrollment
      OBVIOUS
    <2>3. enrollment' = [enrollment EXCEPT ![g] = row] \/ enrollment' = enrollment
      BY <1>5, <2>2
    <2>4. row \in [token : Tokens \cup {None}, phase : 0..Complete] /\ row.phase = 0
      BY <2>1, <2>2
    <2>5. CASE enrollment' = enrollment
      BY <2>5 DEF TypeOK
    <2>6. CASE enrollment' = [enrollment EXCEPT ![g] = row]
      <3>1. enrollment \in [Guests -> [token : Tokens \cup {None}, phase : 0..Complete]]
        BY DEF TypeOK
      <3> QED BY <2>4, <2>6, <3>1
    <2> QED BY <2>3, <2>5, <2>6
  <1>7. EnrolmentSound(g)'
    BY <1>2, <1>3, <1>6 DEF GuestSound, EnrolmentSound, Progress, Redeemed, Complete
  <1>8. /\ op' \in [Guests -> [Cards -> Row]] /\ \A q \in Guests \ {g} : op'[q] = op[q]
        /\ \A c \in Cards : RowSound(g, c)'
    <2>1. CASE op' = op
      BY <1>3, <2>1, RowKept DEF TypeOK, GuestSound
    <2>2. CASE t \in Cards /\ op' = [op EXCEPT ![g][t].state = "unavailable"]
      <3>1. PICK row : row = [op[g][t] EXCEPT !.state = "unavailable"]
        OBVIOUS
      <3>2. op[g][t] \in Row /\ RowSound(g, t)
        BY <2>2 DEF TypeOK, GuestSound
      <3>3. /\ row \in Row /\ row.state = "unavailable" /\ row.group = op[g][t].group
            /\ row.key = op[g][t].key
        BY <3>1, <3>2 DEF Row
      <3>4. op' = [op EXCEPT ![g][t] = row]
        BY <2>2, <3>1
      <3>5. /\ op' \in [Guests -> [Cards -> Row]] /\ op'[g][t] = row
            /\ \A d \in Cards \ {t} : op'[g][d] = op[g][d]
            /\ \A q \in Guests \ {g} : op'[q] = op[q]
        <4>1. t \in Cards /\ row \in Row /\ op \in [Guests -> [Cards -> Row]]
          BY <2>2, <3>3 DEF TypeOK
        <4> QED BY <3>4, <4>1, RowStep
      <3>6. RowSound(g, t)'
        <4>1. sent[g][t] = "accepted" => Introduced(op[g][t].group)'
          BY <3>2, <3>3, <3>5 DEF RowSound, Progress, Introduced, Row
        <4> QED BY <1>3, <3>2, <3>3, <3>5, <4>1 DEF RowSound
      <3>7. \A d \in Cards \ {t} : RowSound(g, d)'
        BY <1>3, <3>5, RowKept DEF GuestSound
      <3> QED BY <3>5, <3>6, <3>7
    <2> QED BY <1>5, <2>1, <2>2
  <1>9. GuestTypes' /\ ProfileTypes'
    BY <1>2, <1>3, <1>6, <1>8 DEF TypeOK, Sendings, GuestTypes, ProfileTypes, Rejected
  <1>10. \A q \in Guests \ {g} : Same(q)
    BY <1>2, <1>3, <1>6, <1>8 DEF Same
  <1> QED BY <1>4, <1>7, <1>8, <1>9, <1>10, TypeFrame, TypeJoin DEF Rejected, GuestSound

LEMMA RecordRedeemedStep ==
    ASSUME TypeOK, Progress, NEW g \in Guests, GuestSound(g), RecordRedeemed(g)
    PROVE  TypeOK' /\ GuestSound(g)' /\ \A q \in Guests \ {g} : Same(q)
  <1>1. doing[g].step = "redeemed" /\ doing[g].step \in Enrolling /\ g \in members
    BY DEF RecordRedeemed, At, Enrolling, GuestSound, EnrolmentSound
  <1>2. UNCHANGED <<op, sent, built, joined, manifest>>
    BY DEF RecordRedeemed, history
  <1>3. /\ doing' \in [Guests -> Doing] /\ doing'[g].step = "endpoints"
        /\ doing'[g].token = doing[g].token
        /\ \A q \in Guests \ {g} : doing'[q] = doing[q]
    BY GoStep DEF TypeOK, Steps, Enrolling, RecordRedeemed
  <1>4. /\ enrollment' \in [Guests -> [token : Tokens \cup {None}, phase : 0..Complete]]
        /\ enrollment'[g].phase = Complete => enrollment[g].phase = Complete
        /\ \A q \in Guests \ {g} : enrollment'[q] = enrollment[q]
    BY AdvanceType DEF RecordRedeemed, Redeemed, Complete
  <1>5. EnrolmentSound(g)'
    BY <1>1, <1>3, <1>4 DEF GuestSound, EnrolmentSound, Progress
  <1>6. StepSound(g)' /\ \A c \in Cards : RowSound(g, c)'
    BY <1>1, <1>2, <1>3, EnrolWritten DEF Enrolling
  <1>7. GuestTypes' /\ ProfileTypes'
    BY <1>2, <1>3, <1>4 DEF TypeOK, Sendings, GuestTypes, ProfileTypes, RecordRedeemed
  <1>8. \A q \in Guests \ {g} : Same(q)
    BY <1>2, <1>3, <1>4 DEF Same
  <1> QED BY <1>5, <1>6, <1>7, <1>8, TypeFrame, TypeJoin DEF RecordRedeemed, GuestSound

LEMMA StoreEndpointsStep ==
    ASSUME TypeOK, Progress, NEW g \in Guests, GuestSound(g), StoreEndpoints(g)
    PROVE  TypeOK' /\ GuestSound(g)' /\ \A q \in Guests \ {g} : Same(q)
  <1>1. doing[g].step = "endpoints" /\ doing[g].step \in Enrolling /\ g \in members
    BY DEF StoreEndpoints, At, Enrolling, GuestSound, EnrolmentSound
  <1>2. UNCHANGED <<op, sent, built, manifest>>
    BY DEF StoreEndpoints, history
  <1>3. /\ doing' \in [Guests -> Doing] /\ doing'[g].step = "finish"
        /\ doing'[g].token = doing[g].token
        /\ \A q \in Guests \ {g} : doing'[q] = doing[q]
    BY GoStep DEF TypeOK, Steps, Enrolling, StoreEndpoints
  <1>4. /\ enrollment' \in [Guests -> [token : Tokens \cup {None}, phase : 0..Complete]]
        /\ enrollment'[g].phase = Complete => enrollment[g].phase = Complete
        /\ \A q \in Guests \ {g} : enrollment'[q] = enrollment[q]
    BY AdvanceType DEF StoreEndpoints, Endpoints, Complete
  <1>5. joined' \in [Guests -> BOOLEAN]
    BY DEF StoreEndpoints, TypeOK
  <1>6. \A q \in Guests \ {g} : joined'[q] = joined[q]
    BY DEF StoreEndpoints, TypeOK
  <1>7. EnrolmentSound(g)'
    BY <1>1, <1>3, <1>4 DEF GuestSound, EnrolmentSound, Progress
  <1>8. StepSound(g)' /\ \A c \in Cards : RowSound(g, c)'
    BY <1>1, <1>2, <1>3, EnrolWritten DEF Enrolling
  <1>9. GuestTypes' /\ ProfileTypes'
    BY <1>2, <1>3, <1>4, <1>5 DEF TypeOK, Sendings, GuestTypes, ProfileTypes, StoreEndpoints
  <1>10. \A q \in Guests \ {g} : Same(q)
    BY <1>2, <1>3, <1>4, <1>6 DEF Same
  <1> QED BY <1>7, <1>8, <1>9, <1>10, TypeFrame, TypeJoin DEF StoreEndpoints, GuestSound

LEMMA FinishEnrollmentStep ==
    ASSUME TypeOK, Progress, NEW g \in Guests, GuestSound(g), FinishEnrollment(g)
    PROVE  TypeOK' /\ GuestSound(g)' /\ \A q \in Guests \ {g} : Same(q)
  <1>1. doing[g].step = "finish" /\ doing[g].step \in Enrolling /\ g \in members
    BY DEF FinishEnrollment, At, Enrolling, GuestSound, EnrolmentSound
  <1>2. UNCHANGED <<op, sent, built, profile>> /\ equipped' = equipped \cup {g}
    BY DEF FinishEnrollment, history
  <1>3. /\ doing' \in [Guests -> Doing] /\ doing'[g].step = "finished"
        /\ doing'[g].token = doing[g].token
        /\ \A q \in Guests \ {g} : doing'[q] = doing[q]
    BY GoStep DEF TypeOK, Steps, Enrolling, FinishEnrollment
  <1>4. EnrolmentSound(g)'
    BY <1>1, <1>2 DEF GuestSound, EnrolmentSound, Progress
  <1>5. StepSound(g)' /\ \A c \in Cards : RowSound(g, c)'
    BY <1>1, <1>2, <1>3, EnrolWritten DEF Enrolling
  <1>6. GuestTypes' /\ AdmissionTypes'
    <2>1. equipped' \subseteq Guests
      BY <1>2 DEF TypeOK
    <2> QED BY <1>2, <1>3, <2>1 DEF TypeOK, Sendings, GuestTypes, AdmissionTypes, FinishEnrollment
  <1>7. \A q \in Guests \ {g} : Same(q)
    BY <1>2, <1>3 DEF Same, profile
  <1> QED BY <1>4, <1>5, <1>6, <1>7, TypeFrame, TypeJoin DEF FinishEnrollment, GuestSound

\* The enrolment is complete: the command turns to the invitation it was for.
LEMMA CompleteEnrollmentStep ==
    ASSUME TypeOK, Progress, NEW g \in Guests, GuestSound(g), CompleteEnrollment(g)
    PROVE  TypeOK' /\ GuestSound(g)' /\ \A q \in Guests \ {g} : Same(q)
  <1>1. PICK c : c = doing[g].token
    OBVIOUS
  <1>2. /\ doing[g].step \in Enrolling /\ g \in members /\ g \in equipped
        /\ c \in Tokens /\ (c \in Cards => Unfinished(g, c))
    BY <1>1 DEF CompleteEnrollment, At, Enrolling, GuestSound, EnrolmentSound, StepSound
  <1>3. UNCHANGED <<op, sent, built, joined, manifest>>
    BY DEF CompleteEnrollment, history
  <1>4. /\ enrollment' \in [Guests -> [token : Tokens \cup {None}, phase : 0..Complete]]
        /\ \A q \in Guests \ {g} : enrollment'[q] = enrollment[q]
    BY AdvanceType DEF CompleteEnrollment, Complete
  <1>5. EnrolmentSound(g)'
    BY <1>2 DEF EnrolmentSound, Progress
  <1>6. \A d \in Cards : RowSound(g, d)'
    BY <1>3, RowKept DEF GuestSound
  <1>7. /\ doing' \in [Guests -> Doing] /\ StepSound(g)'
        /\ \A q \in Guests \ {g} : doing'[q] = doing[q]
    <2>1. CASE c \in Cards
      <3>1. PICK s : s = NextStep(g, c)
        OBVIOUS
      <3>2. /\ s \in {"accept"} \cup Claiming \cup {"publish"}
            /\ s = "accept" <=> op[g][c].state = "accepting"
            /\ s \in Claiming => op[g][c].group = None
            /\ s \in Claiming \ {"key"} => op[g][c].key
            /\ s = "publish" => op[g][c].group # None
        BY <1>2, <2>1, <3>1, NextStepSound DEF GuestSound
      <3>3. s \in Steps /\ Go(g, s)
        BY <1>1, <2>1, <3>1, <3>2 DEF CompleteEnrollment, Steps, Asking, Publishing
      <3>4. /\ doing' \in [Guests -> Doing] /\ doing'[g].step = s /\ doing'[g].token = c
            /\ \A q \in Guests \ {g} : doing'[q] = doing[q]
        BY <1>1, <3>3, GoStep DEF TypeOK
      <3>5. StepSound(g)'
        BY <1>2, <1>3, <2>1, <3>2, <3>4
           DEF StepSound, Unfinished, Enrolling, Asking, Claiming, Publishing
      <3> QED BY <3>4, <3>5
    <2>2. CASE c \notin Cards
      <3>1. Stop(g)
        BY <1>1, <2>2 DEF CompleteEnrollment
      <3>2. /\ doing' \in [Guests -> Doing] /\ doing'[g].step = "idle"
            /\ \A q \in Guests \ {g} : doing'[q] = doing[q]
        BY <3>1, StopStep DEF TypeOK
      <3>3. StepSound(g)'
        BY <3>2 DEF StepSound, Enrolling, Asking, Claiming, Publishing
      <3> QED BY <3>2, <3>3
    <2> QED BY <2>1, <2>2
  <1>8. GuestTypes' /\ ProfileTypes'
    BY <1>3, <1>4, <1>7 DEF TypeOK, Sendings, GuestTypes, ProfileTypes, CompleteEnrollment
  <1>9. \A q \in Guests \ {g} : Same(q)
    BY <1>3, <1>4, <1>7 DEF Same
  <1> QED BY <1>5, <1>6, <1>7, <1>8, <1>9, TypeFrame, TypeJoin DEF CompleteEnrollment, GuestSound

-----------------------------------------------------------------------------
(* Every guest, at every step.                                               *)

GuestMoves(g) ==
    \/ \E c \in Cards : Accept(g, c)
    \/ \E t \in Hosted : Enroll(g, t)
    \/ GuestStep(g) \/ GuestStops(g)

LEMMA GuestMovesStep ==
    ASSUME TypeOK, RelaySound, NEW g \in Guests, \A q \in Guests : GuestSound(q), GuestMoves(g)
    PROVE  TypeOK' /\ Progress /\ \A q \in Guests : GuestSound(q)'
  <1>1. Progress
    <2>1. CASE \E c \in Cards : Accept(g, c)
      BY <2>1, ProgressKept DEF Accept, admission, owner
    <2>2. CASE \E t \in Hosted : Enroll(g, t)
      BY <2>2, ProgressKept DEF Enroll, admission, owner
    <2>3. CASE GuestStops(g)
      BY <2>3, ProgressKept DEF GuestStops, admission, owner
    <2> QED BY <2>1, <2>2, <2>3, ProgressGuest DEF GuestMoves
  <1>2. GuestSound(g)
    OBVIOUS
  <1>3. TypeOK' /\ GuestSound(g)' /\ \A q \in Guests \ {g} : Same(q)
    <2>1. CASE \E c \in Cards : Accept(g, c)
      BY <1>1, <1>2, <2>1, AcceptStep
    <2>2. CASE \E t \in Hosted : Enroll(g, t)
      BY <1>1, <1>2, <2>2, EnrollStep
    <2>3. CASE GuestStops(g)
      <3>1. Stop(g) /\ UNCHANGED <<op, sent, built, profile>> /\ faults' = faults + 1
        BY <2>3 DEF GuestStops, Fault, history
      <3>2. GuestTypes' /\ (faults \in Nat)'
        BY <2>3, <3>1, StopStep DEF TypeOK, Sendings, GuestTypes, GuestStops
      <3> QED BY <1>1, <1>2, <2>3, <3>1, <3>2, StoppedSound, TypeFrame, TypeJoin DEF GuestStops
    <2>4. CASE RecordEnrollment(g) \/ Redeem(g) \/ Rejected(g) \/ RecordRedeemed(g)
               \/ StoreEndpoints(g) \/ FinishEnrollment(g) \/ CompleteEnrollment(g)
      BY <1>1, <1>2, <2>4, RecordEnrollmentStep, RedeemStep, RejectedStep, RecordRedeemedStep,
         StoreEndpointsStep, FinishEnrollmentStep, CompleteEnrollmentStep
    <2>5. CASE AcceptInvitation(g) \/ SaveAnswer(g) \/ DrawClaimKey(g) \/ ClaimOnce(g)
               \/ SaveClaim(g) \/ BuildGroup(g) \/ PublishIntroduction(g) \/ CompleteOperation(g)
      BY <1>1, <1>2, <2>5, AcceptInvitationStep, SaveAnswerStep, DrawClaimKeyStep, ClaimOnceStep,
         SaveClaimStep, BuildGroupStep, PublishIntroductionStep, CompleteOperationStep
    <2> QED BY <2>1, <2>2, <2>3, <2>4, <2>5 DEF GuestMoves, GuestStep
  <1>4. \A q \in Guests \ {g} : GuestSound(q)'
    BY <1>1, <1>3, GuestKept
  <1> QED BY <1>1, <1>3, <1>4

\* Steps of anyone else leave every guest alone.
LEMMA GuestsKept ==
    ASSUME TypeOK, Progress, \A q \in Guests : GuestSound(q),
           UNCHANGED <<doing, op, sent, built, enrollment, joined>>
    PROVE  \A q \in Guests : GuestSound(q)'
  <1>1. \A q \in Guests : Same(q)
    BY DEF Same
  <1> QED BY <1>1, GuestKept

-----------------------------------------------------------------------------
(* The owner device and the relay.                                           *)

OwnerMoves ==
    \/ \E g \in Guests : LinkDevice(g) \/ \E c \in Cards : AgeKey(g, c) \/ Forward(g, c)
    \/ \E c \in Cards : Create(c) \/ Share(c) \/ Revoke(c) \/ Age(c)
    \/ \E refresh \in BOOLEAN : List(refresh)
    \/ \E h \in Groups : \/ Receive(h) \/ SettleAsk(h)
                         \/ \E accept \in BOOLEAN : AnswerRequest(h, accept)
    \/ OwnerStep \/ OwnerStops
    \/ Replenish \/ ClaimKeyPackage \/ SweepInvitationHistory

LEMMA NextCases ==
    ASSUME [Next]_vars
    PROVE  \/ \E g \in Guests : GuestMoves(g)
           \/ \E g \in Guests, c \in Cards : Lapse(g, c)
           \/ OwnerMoves \/ UNCHANGED vars
  BY DEF Next, GuestMoves, OwnerMoves

LEMMA OwnerMovesKeep ==
    ASSUME OwnerMoves PROVE UNCHANGED <<doing, op, sent, built, taken, enrollment, joined, claimant, redeemed, members>>
  <1>1. CASE \E g \in Guests : LinkDevice(g) \/ \E c \in Cards : AgeKey(g, c) \/ Forward(g, c)
    BY <1>1 DEF LinkDevice, AgeKey, Forward, admission, guest, history, profile
  <1>2. CASE \E c \in Cards : Create(c) \/ Share(c) \/ Revoke(c) \/ Age(c)
    BY <1>2 DEF Create, Share, Revoke, Age, admission, guest, history, profile
  <1>3. CASE \E refresh \in BOOLEAN : List(refresh)
    BY <1>3 DEF List, admission, guest, history, profile
  <1>4. CASE \E h \in Groups : Receive(h) \/ SettleAsk(h) \/ \E accept \in BOOLEAN : AnswerRequest(h, accept)
    BY <1>4 DEF Receive, SettleAsk, AnswerRequest, admission, guest, history, profile
  <1>5. CASE OwnerStep \/ OwnerStops
    BY <1>5 DEF OwnerStep, SendCreate, ResolveCreate, SendRevoke, SaveReply, SettleBind, OwnerStops,
                admission, guest, history, profile
  <1>6. CASE Replenish \/ ClaimKeyPackage \/ SweepInvitationHistory
    BY <1>6 DEF Replenish, ClaimKeyPackage, SweepInvitationHistory, admission, guest, history, profile
  <1> QED BY <1>1, <1>2, <1>3, <1>4, <1>5, <1>6 DEF OwnerMoves

LEMMA OwnerMovesProgress ==
    ASSUME TypeOK, OwnerSound, OwnerMoves PROVE Progress
  <1>1. CASE \E g \in Guests : LinkDevice(g) \/ \E c \in Cards : AgeKey(g, c)
    BY <1>1, ProgressKept DEF LinkDevice, AgeKey, admission, owner
  <1>2. CASE \E g \in Guests, c \in Cards : Forward(g, c)
    BY <1>2 DEF Forward, admission, owner, Progress, Introduced
  <1> QED BY <1>1, <1>2, ProgressOwner DEF OwnerMoves

LEMMA OwnerMovesGuests ==
    ASSUME TypeOK, OwnerSound, \A q \in Guests : GuestSound(q), OwnerMoves
    PROVE  \A q \in Guests : GuestSound(q)'
  BY OwnerMovesProgress, OwnerMovesKeep, GuestsKept

LEMMA OutStep ==
    ASSUME TypeOK, NEW c \in Cards, NEW row \in Outgoing, out' = [out EXCEPT ![c] = row]
    PROVE  /\ out' \in [Cards -> Outgoing] /\ out'[c] = row
           /\ \A d \in Cards \ {c} : out'[d] = out[d]
  BY DEF TypeOK

LEMMA ApplyRecordType ==
    ASSUME NEW o \in Outgoing, NEW r \in Answers
    PROVE  /\ ApplyRecord(o, r) \in Outgoing
           /\ ApplyRecord(o, r).group = o.group
           /\ ApplyRecord(o, r).state = "revoked" => r = "revoked"
  <1>1. PICK s : s = IF o.state = "revoke-pending" /\ r = "pending" THEN "revoke-pending"
                     ELSE IF r = "used" /\ o.group # None THEN "connected" ELSE r
    OBVIOUS
  <1>2. ApplyRecord(o, r) = [o EXCEPT !.state = s]
    BY <1>1 DEF ApplyRecord
  <1>3. s \in {"revoke-pending", "connected"} \cup Answers /\ (s = "revoked" => r = "revoked")
    BY <1>1 DEF Answers
  <1> QED BY <1>2, <1>3 DEF Outgoing

LEMMA RecordType ==
    ASSUME TypeOK, NEW c \in Cards, Known(c)
    PROVE  Record(c) \in Answers /\ (Record(c) = "revoked" => issued[c] = "revoked")
  BY DEF TypeOK, Known, Record, Answers

LEMMA TendType ==
    ASSUME NEW s \in {"idle", "create", "resolve", "revoke", "reply", "bind"},
           NEW c \in Cards \cup {None}, NEW h \in Groups \cup {None}, NEW o \in Outgoing,
           Tend(s, c, h, o)
    PROVE  tending' \in Tending
  BY DEF Tend, Tending

LEMMA RestType == Resting \in Tending /\ Resting.step = "idle"
  <1>1. NoInvitation \in Outgoing
    BY DEF NoInvitation, Outgoing
  <1> QED BY <1>1 DEF Resting, Tending

\* The two kinds of row the relay's transactions write for an invitation.
LEMMA IssueTypes ==
    ASSUME TypeOK, NEW c \in Cards, NEW n \in Int,
           NEW s \in {"none", "pending", "used", "revoked", "pruned"},
           uses' = [uses EXCEPT ![c] = n], issued' = [issued EXCEPT ![c] = s]
    PROVE  /\ uses' \in [Tokens -> Int] /\ uses'[c] = n
           /\ issued' \in [Cards -> {"none", "pending", "used", "revoked", "pruned"}] /\ issued'[c] = s
           /\ \A t \in Tokens \ {c} : uses'[t] = uses[t]
           /\ \A d \in Cards \ {c} : issued'[d] = issued[d]
  <1>1. c \in Tokens
    BY Kinds
  <1> QED BY <1>1 DEF TypeOK

LEMMA AgingTypes ==
    ASSUME TypeOK PROVE
        /\ \A g \in Guests : LinkDevice(g) => TypeOK'
        /\ \A g \in Guests, c \in Cards : AgeKey(g, c) \/ Forward(g, c) => TypeOK'
        /\ \A c \in Cards : Share(c) \/ Age(c) => TypeOK'
        /\ Replenish \/ ClaimKeyPackage \/ SweepInvitationHistory => TypeOK'
  <1>1. ASSUME NEW g \in Guests, LinkDevice(g) PROVE TypeOK'
    <2>1. ProfileTypes'
      <3>1. manifest' \in [Guests -> 0..2]
        BY <1>1 DEF LinkDevice, TypeOK
      <3> QED BY <1>1, <3>1 DEF LinkDevice, TypeOK, ProfileTypes
    <2> QED BY <1>1, <2>1, TypeFrame, TypeJoin DEF LinkDevice
  <1>2. ASSUME NEW g \in Guests, NEW c \in Cards, AgeKey(g, c) PROVE TypeOK'
    <2>1. GuestTypes'
      BY <1>2 DEF AgeKey, TypeOK, Sendings, GuestTypes
    <2> QED BY <1>2, <2>1, TypeFrame, TypeJoin DEF AgeKey
  <1>7. ASSUME NEW g \in Guests, NEW c \in Cards, Forward(g, c) PROVE TypeOK'
    <2>1. (mail \subseteq Groups)'
      BY <1>7, Kinds DEF Forward, TypeOK
    <2> QED BY <1>7, <2>1, TypeFrame, TypeJoin DEF Forward
  <1>3. ASSUME NEW c \in Cards, Share(c) PROVE TypeOK'
    <2>1. (shared \subseteq Cards)'
      BY <1>3 DEF Share, TypeOK
    <2> QED BY <1>3, <2>1, TypeFrame, TypeJoin DEF Share
  <1>4. ASSUME NEW c \in Cards, Age(c) PROVE TypeOK'
    <2>1. age' \in [Cards -> 0..2]
      <3>1. age[c] \in 0..2 /\ age[c] < MaxAge /\ MaxAge \in 0..2
        BY <1>4, InvitationsAssumption DEF Age, TypeOK
      <3>2. age[c] + 1 \in 0..2
        BY <3>1
      <3> QED BY <1>4, <3>2 DEF Age, TypeOK
    <2>2. AdmissionTypes'
      BY <1>4, <2>1 DEF Age, TypeOK, AdmissionTypes
    <2> QED BY <1>4, <2>2, TypeFrame, TypeJoin DEF Age
  <1>5. ASSUME Replenish \/ ClaimKeyPackage PROVE TypeOK'
    <2>1. SupplyTypes'
      BY <1>5 DEF Replenish, ClaimKeyPackage, TypeOK, SupplyTypes
    <2> QED BY <1>5, <2>1, TypeFrame, TypeJoin DEF Replenish, ClaimKeyPackage
  <1>6. ASSUME SweepInvitationHistory PROVE TypeOK'
    <2>2. \/ \E c \in Cards : issued' = [issued EXCEPT ![c] = "pruned"] /\ uses' = [uses EXCEPT ![c] = 0]
          \/ UNCHANGED <<uses, issued>>
      BY <1>6 DEF SweepInvitationHistory
    <2>3. uses' \in [Tokens -> Int] /\ issued' \in [Cards -> {"none", "pending", "used", "revoked", "pruned"}]
      <3>1. PICK n \in Int, s \in {"none", "pending", "used", "revoked", "pruned"} : n = 0 /\ s = "pruned"
        OBVIOUS
      <3>2. CASE UNCHANGED <<uses, issued>>
        BY <3>2 DEF TypeOK
      <3>3. CASE \E c \in Cards : issued' = [issued EXCEPT ![c] = s] /\ uses' = [uses EXCEPT ![c] = n]
        BY <3>3, IssueTypes
      <3> QED BY <2>2, <3>1, <3>2, <3>3
    <2>4. receipt' \in [Guests -> [Cards -> Packages \cup {None}]]
      <3>1. CASE UNCHANGED receipt
        BY <3>1 DEF TypeOK
      <3>2. CASE \E x \in old : receipt' = [receipt EXCEPT ![x[1]][x[2]] = None]
        <4>1. PICK g \in Guests, c \in Cards : receipt' = [receipt EXCEPT ![g][c] = None]
          BY <3>2 DEF TypeOK
        <4>2. receipt \in [Guests -> [Cards -> Packages \cup {None}]] /\ None \in Packages \cup {None}
          BY DEF TypeOK
        <4> QED BY <4>1, <4>2, TableStep
      <3> QED BY <1>6, <3>1, <3>2 DEF SweepInvitationHistory
    <2>5. AdmissionTypes' /\ SupplyTypes'
      BY <1>6, <2>3, <2>4 DEF SweepInvitationHistory, TypeOK, AdmissionTypes, SupplyTypes
    <2> QED BY <1>6, <2>5, TypeFrame, TypeJoin DEF SweepInvitationHistory
  <1> QED BY <1>1, <1>2, <1>3, <1>4, <1>5, <1>6, <1>7

LEMMA CommandTypes ==
    ASSUME TypeOK, NEW c \in Cards PROVE (Create(c) => TypeOK') /\ (Revoke(c) => TypeOK')
  <1>1. ASSUME Create(c) PROVE TypeOK'
    <2>1. PICK row \in Outgoing : row = [state |-> "issuing", secret |-> TRUE, group |-> None]
      BY DEF Outgoing
    <2>2. out' \in [Cards -> Outgoing]
      BY <1>1, <2>1 DEF Create, TypeOK
    <2>3. tending' \in Tending
      <3>1. PICK o \in Outgoing : o = out'[c]
        BY <2>2
      <3> QED BY <1>1, <3>1, TendType DEF Create
    <2>4. OwnerTypes'
      BY <1>1, <2>2, <2>3 DEF Create, TypeOK, OwnerTypes
    <2> QED BY <1>1, <2>4, TypeFrame, TypeJoin DEF Create
  <1>2. ASSUME Revoke(c) PROVE TypeOK'
    <2>1. PICK row : row = [out[c] EXCEPT !.state = "revoke-pending"]
      OBVIOUS
    <2>2. row \in Outgoing
      <3>1. out[c] \in Outgoing
        BY DEF TypeOK
      <3> QED BY <2>1, <3>1 DEF Outgoing
    <2>3. out' = [out EXCEPT ![c] = row]
      BY <1>2, <2>1 DEF Revoke
    <2>4. out' \in [Cards -> Outgoing]
      BY <2>2, <2>3, OutStep
    <2>5. tending' \in Tending
      <3>1. PICK o \in Outgoing : o = out'[c]
        BY <2>4
      <3> QED BY <1>2, <3>1, TendType DEF Revoke
    <2>6. OwnerTypes'
      BY <1>2, <2>4, <2>5 DEF Revoke, TypeOK, OwnerTypes
    <2> QED BY <1>2, <2>6, TypeFrame, TypeJoin DEF Revoke
  <1> QED BY <1>1, <1>2

LEMMA ListTypes ==
    ASSUME TypeOK, NEW refresh \in BOOLEAN, List(refresh) PROVE TypeOK'
  <1>1. \A c \in Cards : out'[c] \in Outgoing
    <2> SUFFICES ASSUME NEW c \in Cards PROVE out'[c] \in Outgoing
      OBVIOUS
    <2>1. out[c] \in Outgoing /\ NoInvitation \in Outgoing
      BY DEF TypeOK, NoInvitation, Outgoing
    <2>2. Known(c) => ApplyRecord(out[c], Record(c)) \in Outgoing
      BY <2>1, RecordType, ApplyRecordType
    <2> QED BY <2>1, <2>2 DEF List, Kept
  <1>2. out' \in [Cards -> Outgoing]
    BY <1>1 DEF List
  <1>3. OwnerTypes'
    BY <1>2 DEF List, TypeOK, OwnerTypes
  <1> QED BY <1>3, TypeFrame, TypeJoin DEF List

LEMMA RequestTypes ==
    ASSUME TypeOK, NEW h \in Groups PROVE
        /\ Receive(h) \/ SettleAsk(h) => TypeOK'
        /\ \A accept \in BOOLEAN : AnswerRequest(h, accept) => TypeOK'
  <1>1. ASSUME Receive(h) PROVE TypeOK'
    <2>1. /\ request' \in [Groups -> {"none", "pending", "joined", "declined"}]
          /\ hellos' \subseteq Groups /\ mail' \subseteq Groups
      BY <1>1 DEF Receive, TypeOK
    <2>2. OwnerTypes'
      BY <1>1, <2>1 DEF Receive, TypeOK, OwnerTypes
    <2> QED BY <1>1, <2>1, <2>2, TypeFrame, TypeJoin DEF Receive
  <1>2. ASSUME SettleAsk(h) PROVE TypeOK'
    <2>1. h[2] \in Cards
      BY Kinds
    <2>2. tending' \in Tending
      <3>1. CASE UNCHANGED tending
        BY <3>1 DEF TypeOK
      <3>2. CASE Tend("bind", h[2], h, out[h[2]])
        <4>1. PICK o \in Outgoing : o = out[h[2]]
          BY <2>1 DEF TypeOK
        <4> QED BY <2>1, <3>2, <4>1, TendType
      <3> QED BY <1>2, <3>1, <3>2 DEF SettleAsk
    <2>3. hellos' \subseteq Groups
      BY <1>2 DEF SettleAsk, TypeOK
    <2>4. OwnerTypes'
      BY <1>2, <2>2, <2>3 DEF SettleAsk, TypeOK, OwnerTypes
    <2> QED BY <1>2, <2>4, TypeFrame, TypeJoin DEF SettleAsk
  <1>3. ASSUME NEW accept \in BOOLEAN, AnswerRequest(h, accept) PROVE TypeOK'
    <2>1. h[1] \in Guests
      BY Kinds
    <2>2. /\ request' \in [Groups -> {"none", "pending", "joined", "declined"}]
          /\ contacts' \subseteq Guests
      BY <1>3, <2>1 DEF AnswerRequest, TypeOK
    <2>3. OwnerTypes'
      BY <1>3, <2>2 DEF AnswerRequest, TypeOK, OwnerTypes
    <2> QED BY <1>3, <2>3, TypeFrame, TypeJoin DEF AnswerRequest
  <1> QED BY <1>1, <1>2, <1>3

\* What the owner device is doing, at its next step.
LEMMA TendingStep ==
    ASSUME TypeOK, NEW s \in {"revoke", "reply"}, NEW r \in {"none"} \cup Answers,
           \/ tending' = [tending EXCEPT !.step = s, !.record = r]
           \/ tending' = [tending EXCEPT !.step = s] /\ r = tending.record
    PROVE  /\ tending' \in Tending /\ tending'.step = s
           /\ tending'.card = tending.card /\ tending'.record = r /\ tending'.row = tending.row
  BY DEF TypeOK, Tending

LEMMA IssueCases ==
    ASSUME TypeOK, NEW c \in Cards, Issuable(c), IssueInvitation(c)
    PROVE  \/ Known(c) /\ UNCHANGED <<uses, issued>>
           \/ /\ issued[c] = "none" /\ age[c] = 0
              /\ uses' = [uses EXCEPT ![c] = 1] /\ issued' = [issued EXCEPT ![c] = "pending"]
  BY DEF Issuable, IssueInvitation

LEMMA RelayRowTypes ==
    ASSUME TypeOK, NEW c \in Cards,
           \/ UNCHANGED <<uses, issued>>
           \/ uses' = [uses EXCEPT ![c] = 1] /\ issued' = [issued EXCEPT ![c] = "pending"]
           \/ uses' = [uses EXCEPT ![c] = 0] /\ issued' = [issued EXCEPT ![c] = "revoked"]
    PROVE  /\ uses' \in [Tokens -> Int]
           /\ issued' \in [Cards -> {"none", "pending", "used", "revoked", "pruned"}]
  <1>1. CASE UNCHANGED <<uses, issued>>
    BY <1>1 DEF TypeOK
  <1>2. CASE uses' = [uses EXCEPT ![c] = 1] /\ issued' = [issued EXCEPT ![c] = "pending"]
    <2>1. PICK n \in Int, s \in {"none", "pending", "used", "revoked", "pruned"} : n = 1 /\ s = "pending"
      OBVIOUS
    <2>2. uses' = [uses EXCEPT ![c] = n] /\ issued' = [issued EXCEPT ![c] = s]
      BY <1>2, <2>1
    <2> QED BY <2>2, IssueTypes
  <1>3. CASE uses' = [uses EXCEPT ![c] = 0] /\ issued' = [issued EXCEPT ![c] = "revoked"]
    <2>1. PICK n \in Int, s \in {"none", "pending", "used", "revoked", "pruned"} : n = 0 /\ s = "revoked"
      OBVIOUS
    <2>2. uses' = [uses EXCEPT ![c] = n] /\ issued' = [issued EXCEPT ![c] = s]
      BY <1>3, <2>1
    <2> QED BY <2>2, IssueTypes
  <1> QED BY <1>1, <1>2, <1>3

LEMMA OwnerStepTypes ==
    ASSUME TypeOK, OwnerSound, OwnerStep \/ OwnerStops PROVE TypeOK'
  <1>1. CASE SendCreate
    <2>1. PICK c \in Cards : c = tending.card
      BY <1>1 DEF SendCreate, OwnerSound
    <2>2. CASE Issuable(c)
      <3>1. /\ uses' \in [Tokens -> Int]
            /\ issued' \in [Cards -> {"none", "pending", "used", "revoked", "pruned"}]
        <4>1. IssueInvitation(c)
          BY <1>1, <2>1, <2>2 DEF SendCreate
        <4> QED BY <2>2, <4>1, IssueCases, RelayRowTypes
      <3>2. PICK r \in Answers : tending' = [tending EXCEPT !.step = "reply", !.record = r]
        BY <1>1, <2>1, <2>2, RecordType DEF SendCreate, Answers
      <3>3. tending' \in Tending
        BY <3>2, TendingStep
      <3>4. OwnerTypes' /\ AdmissionTypes'
        BY <1>1, <3>1, <3>3 DEF SendCreate, TypeOK, OwnerTypes, AdmissionTypes
      <3> QED BY <1>1, <3>4, TypeFrame, TypeJoin DEF SendCreate
    <2>3. CASE ~Issuable(c)
      <3>1. OwnerTypes' /\ AdmissionTypes'
        BY <1>1, <2>1, <2>3, RestType DEF SendCreate, TypeOK, OwnerTypes, AdmissionTypes
      <3> QED BY <1>1, <3>1, TypeFrame, TypeJoin DEF SendCreate
    <2> QED BY <2>2, <2>3
  <1>2. CASE ResolveCreate
    <2>1. PICK c \in Cards : c = tending.card
      BY <1>2 DEF ResolveCreate, OwnerSound
    <2>2. CASE Issuable(c)
      <3>1. /\ uses' \in [Tokens -> Int]
            /\ issued' \in [Cards -> {"none", "pending", "used", "revoked", "pruned"}]
        <4>1. IssueInvitation(c)
          BY <1>2, <2>1, <2>2 DEF ResolveCreate
        <4> QED BY <2>2, <4>1, IssueCases, RelayRowTypes
      <3>2. tending' \in Tending
        <4>1. PICK r \in {"none"} \cup Answers : r = tending.record
          BY DEF TypeOK, Tending
        <4> QED BY <1>2, <2>1, <2>2, <4>1, TendingStep DEF ResolveCreate
      <3>3. OwnerTypes' /\ AdmissionTypes'
        BY <1>2, <2>1, <2>2, <3>1, <3>2 DEF ResolveCreate, TypeOK, OwnerTypes, AdmissionTypes
      <3> QED BY <1>2, <3>3, TypeFrame, TypeJoin DEF ResolveCreate
    <2>3. CASE ~Issuable(c)
      <3>1. PICK row : row = [tending.row EXCEPT !.state = "revoked", !.secret = FALSE]
        OBVIOUS
      <3>2. row \in Outgoing
        <4>1. tending.row \in Outgoing
          BY DEF TypeOK, Tending
        <4> QED BY <3>1, <4>1 DEF Outgoing, Answers
      <3>3. out' = [out EXCEPT ![c] = row]
        BY <1>2, <2>1, <2>3, <3>1 DEF ResolveCreate, TypeOK
      <3>4. out' \in [Cards -> Outgoing]
        BY <3>2, <3>3, OutStep
      <3>5. OwnerTypes' /\ AdmissionTypes'
        BY <1>2, <2>1, <2>3, <3>4, RestType DEF ResolveCreate, TypeOK, OwnerTypes, AdmissionTypes
      <3> QED BY <1>2, <3>5, TypeFrame, TypeJoin DEF ResolveCreate
    <2> QED BY <2>2, <2>3
  <1>3. CASE SendRevoke
    <2>1. PICK c \in Cards : c = tending.card
      BY <1>3 DEF SendRevoke, OwnerSound
    <2>2. /\ uses' \in [Tokens -> Int]
          /\ issued' \in [Cards -> {"none", "pending", "used", "revoked", "pruned"}]
      <3>1. \/ UNCHANGED <<uses, issued>>
            \/ uses' = [uses EXCEPT ![c] = 0] /\ issued' = [issued EXCEPT ![c] = "revoked"]
        BY <1>3, <2>1 DEF SendRevoke
      <3> QED BY <3>1, RelayRowTypes
    <2>3. tending' \in Tending
      <3>1. \/ tending' = Resting
            \/ \E r \in Answers : tending' = [tending EXCEPT !.step = "reply", !.record = r]
        BY <1>3 DEF SendRevoke, Answers
      <3> QED BY <3>1, TendingStep, RestType
    <2>4. OwnerTypes' /\ AdmissionTypes'
      BY <1>3, <2>2, <2>3 DEF SendRevoke, TypeOK, OwnerTypes, AdmissionTypes
    <2> QED BY <1>3, <2>4, TypeFrame, TypeJoin DEF SendRevoke
  <1>4. CASE SaveReply
    <2>1. PICK c \in Cards, r \in Answers : c = tending.card /\ r = tending.record
      BY <1>4 DEF SaveReply, OwnerSound
    <2>2. PICK o \in Outgoing : o = ApplyRecord(tending.row, r)
      BY ApplyRecordType DEF TypeOK, Tending
    <2>3. PICK row : row = [o EXCEPT !.secret = @ /\ o.state # "revoked"]
      OBVIOUS
    <2>4. row \in Outgoing
      BY <2>3 DEF Outgoing
    <2>5. out' = [out EXCEPT ![c] = row]
      BY <1>4, <2>1, <2>2, <2>3 DEF SaveReply
    <2>6. out' \in [Cards -> Outgoing]
      BY <2>4, <2>5, OutStep
    <2>7. OwnerTypes'
      BY <1>4, <2>6, RestType DEF SaveReply, TypeOK, OwnerTypes
    <2> QED BY <1>4, <2>7, TypeFrame, TypeJoin DEF SaveReply
  <1>5. CASE SettleBind
    <2>1. PICK h \in Groups : h = tending.hello
      BY <1>5 DEF SettleBind, OwnerSound
    <2>2. PICK c \in Cards, g \in Guests : c = h[2] /\ g = h[1]
      BY Kinds
    <2>3. PICK row : row = [tending.row EXCEPT !.state = "connected", !.group = h]
      OBVIOUS
    <2>4. row \in Outgoing
      <3>1. tending.row \in Outgoing
        BY DEF TypeOK, Tending
      <3> QED BY <2>3, <3>1 DEF Outgoing
    <2>5. out' = [out EXCEPT ![c] = row]
      BY <1>5, <2>1, <2>2, <2>3 DEF SettleBind, TypeOK
    <2>6. out' \in [Cards -> Outgoing]
      BY <2>4, <2>5, OutStep
    <2>7. /\ contacts' \subseteq Guests /\ hellos' \subseteq Groups
          /\ request' \in [Groups -> {"none", "pending", "joined", "declined"}]
      BY <1>5, <2>1, <2>2 DEF SettleBind, TypeOK
    <2>8. OwnerTypes'
      BY <1>5, <2>6, <2>7, RestType DEF SettleBind, OwnerTypes
    <2> QED BY <1>5, <2>8, TypeFrame, TypeJoin DEF SettleBind
  <1>6. CASE OwnerStops
    <2>1. OwnerTypes' /\ (faults \in Nat)'
      BY <1>6, RestType DEF OwnerStops, Fault, TypeOK, OwnerTypes
    <2> QED BY <1>6, <2>1, TypeFrame, TypeJoin DEF OwnerStops
  <1> QED BY <1>1, <1>2, <1>3, <1>4, <1>5, <1>6 DEF OwnerStep

LEMMA OwnerMovesTypes ==
    ASSUME TypeOK, OwnerSound, OwnerMoves PROVE TypeOK'
  <1>1. CASE \E g \in Guests : LinkDevice(g) \/ \E c \in Cards : AgeKey(g, c) \/ Forward(g, c)
    BY <1>1, AgingTypes
  <1>2. CASE \E c \in Cards : Create(c) \/ Share(c) \/ Revoke(c) \/ Age(c)
    BY <1>2, AgingTypes, CommandTypes
  <1>3. CASE \E refresh \in BOOLEAN : List(refresh)
    BY <1>3, ListTypes
  <1>4. CASE \E h \in Groups : Receive(h) \/ SettleAsk(h) \/ \E accept \in BOOLEAN : AnswerRequest(h, accept)
    BY <1>4, RequestTypes
  <1>5. CASE OwnerStep \/ OwnerStops
    BY <1>5, OwnerStepTypes
  <1>6. CASE Replenish \/ ClaimKeyPackage \/ SweepInvitationHistory
    BY <1>6, AgingTypes
  <1> QED BY <1>1, <1>2, <1>3, <1>4, <1>5, <1>6 DEF OwnerMoves

-----------------------------------------------------------------------------
(* The relay's records: the five ways a step can move them.                  *)

Spends(g, t) ==
    /\ RedeemInvite(g, t) /\ ~Recorded(g, t)
    /\ uses[t] > 0 /\ (t \in Cards => age[t] = 0)
    /\ g \in members' /\ members \subseteq members'
    /\ UNCHANGED age

Writes(c, n, s) ==
    /\ uses' = [uses EXCEPT ![c] = n] /\ issued' = [issued EXCEPT ![c] = s]
    /\ UNCHANGED <<claimant, redeemed, members, age>>

Ages(c) ==
    /\ age[c] < 2 /\ age' = [age EXCEPT ![c] = @ + 1]
    /\ UNCHANGED <<uses, issued, claimant, redeemed, members>>

RelayMoves ==
    \/ UNCHANGED <<uses, issued, claimant, redeemed, members, age>>
    \/ \E g \in Guests, t \in Tokens : Spends(g, t)
    \/ \E c \in Cards : \/ issued[c] = "none" /\ age[c] = 0 /\ Writes(c, 1, "pending")
                        \/ issued[c] \notin {"used", "pruned"} /\ Writes(c, 0, "revoked")
                        \/ age[c] = 2 /\ Writes(c, 0, "pruned")
                        \/ Ages(c)

LEMMA GuestRelayMoves ==
    ASSUME TypeOK, RelaySound, NEW g \in Guests, GuestSound(g), GuestMoves(g)
    PROVE  RelayMoves
  <1>1. CASE \/ \E c \in Cards : Accept(g, c)
             \/ \E t \in Hosted : Enroll(g, t)
             \/ GuestStops(g)
    BY <1>1 DEF Accept, Enroll, GuestStops, admission, RelayMoves
  <1>2. CASE RecordEnrollment(g) \/ Rejected(g) \/ RecordRedeemed(g)
             \/ StoreEndpoints(g) \/ FinishEnrollment(g) \/ CompleteEnrollment(g)
    BY <1>2 DEF RecordEnrollment, Rejected, RecordRedeemed, StoreEndpoints, FinishEnrollment,
                CompleteEnrollment, admission, RelayMoves
  <1>3. CASE SaveAnswer(g) \/ DrawClaimKey(g) \/ ClaimOnce(g)
             \/ SaveClaim(g) \/ BuildGroup(g) \/ PublishIntroduction(g) \/ CompleteOperation(g)
    BY <1>3 DEF SaveAnswer, DrawClaimKey, ClaimOnce, SaveClaim, BuildGroup, PublishIntroduction,
                CompleteOperation, admission, RelayMoves
  <1>4. CASE Redeem(g)
    <2>1. PICK t \in Tokens : t = doing[g].token
      BY <1>4 DEF Redeem, At, GuestSound, StepSound
    <2>2. \/ UNCHANGED <<uses, issued, claimant, redeemed, members, age>>
          \/ /\ ~Recorded(g, t) /\ Redeemable(g, t) /\ RedeemInvite(g, t)
             /\ members' = members \cup {g} /\ UNCHANGED age
      BY <1>4, <2>1 DEF Redeem
    <2> QED BY <2>2 DEF Redeemable, Spends, RelayMoves
  <1>5. CASE AcceptInvitation(g)
    <2>1. PICK c \in Cards : c = doing[g].token
      BY <1>5 DEF AcceptInvitation, At, GuestSound, StepSound, Asking
    <2>2. g \in members
      BY <1>5 DEF AcceptInvitation, At, GuestSound, EnrolmentSound
    <2>3. \/ UNCHANGED <<uses, issued, claimant, redeemed, members, age>>
          \/ Record(c) = "pending" /\ RedeemInvite(g, c) /\ UNCHANGED <<members, age>>
      BY <1>5, <2>1 DEF AcceptInvitation
    <2>4. CASE Record(c) = "pending" /\ RedeemInvite(g, c) /\ UNCHANGED <<members, age>>
      <3>1. issued[c] = "pending" /\ age[c] = 0
        <4>1. age[c] \in 0..2
          BY DEF TypeOK
        <4>2. issued[c] = "pending" /\ ~(age[c] > 0)
          BY <2>4 DEF Record
        <4> QED BY <4>1, <4>2
      <3>2. uses[c] = 1 /\ ~Recorded(g, c)
        BY <3>1 DEF RelaySound, CardSound
      <3>3. Spends(g, c)
        BY <2>2, <2>4, <3>1, <3>2 DEF Spends
      <3> QED BY <3>3, Kinds DEF RelayMoves
    <2> QED BY <2>3, <2>4 DEF RelayMoves
  <1> QED BY <1>1, <1>2, <1>3, <1>4, <1>5 DEF GuestMoves, GuestStep

LEMMA OwnerRelayMoves ==
    ASSUME TypeOK, OwnerSound, OwnerMoves
    PROVE  RelayMoves
  <1>1. CASE \E g \in Guests : LinkDevice(g) \/ \E c \in Cards : AgeKey(g, c) \/ Forward(g, c)
    BY <1>1 DEF LinkDevice, AgeKey, Forward, admission, RelayMoves
  <1>2. CASE \E c \in Cards : Create(c) \/ Share(c) \/ Revoke(c)
    BY <1>2 DEF Create, Share, Revoke, admission, RelayMoves
  <1>3. CASE \E c \in Cards : Age(c)
    <2>1. PICK c \in Cards : Age(c)
      BY <1>3
    <2>2. age[c] < 2
      <3>1. age[c] \in 0..2 /\ MaxAge \in 0..2
        BY InvitationsAssumption DEF TypeOK
      <3> QED BY <2>1, <3>1 DEF Age
    <2>3. Ages(c)
      BY <2>1, <2>2 DEF Age, Ages
    <2> QED BY <2>3 DEF RelayMoves
  <1>4. CASE \E refresh \in BOOLEAN : List(refresh)
    BY <1>4 DEF List, admission, RelayMoves
  <1>5. CASE \E h \in Groups : Receive(h) \/ SettleAsk(h) \/ \E accept \in BOOLEAN : AnswerRequest(h, accept)
    BY <1>5 DEF Receive, SettleAsk, AnswerRequest, admission, RelayMoves
  <1>6. CASE SaveReply \/ SettleBind \/ OwnerStops \/ Replenish \/ ClaimKeyPackage
    BY <1>6 DEF SaveReply, SettleBind, OwnerStops, Replenish, ClaimKeyPackage, admission, RelayMoves
  <1>7. CASE SendCreate \/ ResolveCreate
    <2>1. PICK c \in Cards : c = tending.card
      BY <1>7 DEF SendCreate, ResolveCreate, OwnerSound
    <2>2. UNCHANGED <<claimant, redeemed, members, age>>
      BY <1>7 DEF SendCreate, ResolveCreate
    <2>3. UNCHANGED <<uses, issued>> \/ (Issuable(c) /\ IssueInvitation(c))
      BY <1>7, <2>1 DEF SendCreate, ResolveCreate
    <2> QED BY <2>2, <2>3, IssueCases DEF Writes, RelayMoves
  <1>8. CASE SendRevoke
    <2>1. PICK c \in Cards : c = tending.card
      BY <1>8 DEF SendRevoke, OwnerSound
    <2> QED BY <1>8, <2>1 DEF SendRevoke, Writes, RelayMoves
  <1>9. CASE SweepInvitationHistory
    BY <1>9 DEF SweepInvitationHistory, Writes, RelayMoves
  <1> QED BY <1>1, <1>2, <1>3, <1>4, <1>5, <1>6, <1>7, <1>8, <1>9 DEF OwnerMoves, OwnerStep

\* What one row of the relay's table says is true of the row alone.
LEMMA CardKept ==
    ASSUME NEW c \in Cards, CardSound(c), uses'[c] = uses[c], issued'[c] = issued[c],
           claimant'[c] = claimant[c], age'[c] = age[c],
           \A g \in Guests : Recorded(g, c)' <=> Recorded(g, c)
    PROVE  CardSound(c)'
  BY DEF CardSound

LEMMA SpendsSound ==
    ASSUME TypeOK, RelaySound, NEW g \in Guests, NEW t \in Tokens, Spends(g, t)
    PROVE  RelaySound'
  <1>1. /\ uses'[t] = uses[t] - 1 /\ \A s \in Tokens \ {t} : uses'[s] = uses[s]
        /\ \A c \in Cards : issued'[c] = IF c = t THEN "used" ELSE issued[c]
        /\ \A c \in Cards : claimant'[c] = IF c = t THEN g ELSE claimant[c]
        /\ redeemed' = redeemed \cup {<<t, g>>}
    BY DEF Spends, RedeemInvite, TypeOK
  <1>2. \A q \in Guests, s \in Tokens : Recorded(q, s)' <=> Recorded(q, s) \/ (q = g /\ s = t)
    BY <1>1 DEF Recorded
  <1>3. ASSUME NEW c \in Cards PROVE CardSound(c)'
    <2>1. c \in Tokens /\ CardSound(c)
      BY Kinds DEF RelaySound
    <2>2. CASE c = t
      <3>1. uses[c] > 0 /\ issued[c] = "pending"
        BY <2>1, <2>2 DEF CardSound, Spends
      <3>2. uses'[c] = 0
        BY <1>1, <2>1, <2>2, <3>1 DEF CardSound
      <3> QED BY <1>1, <1>2, <2>1, <2>2, <3>1, <3>2 DEF CardSound
    <2>3. CASE c # t
      <3>1. age'[c] = age[c]
        BY DEF Spends
      <3> QED BY <1>1, <1>2, <2>1, <2>3, <3>1, CardKept
    <2> QED BY <2>2, <2>3
  <1>4. ASSUME NEW s \in Hosted PROVE HostSound(s)'
    <2>1. s \in Tokens /\ HostSound(s)
      BY Kinds DEF RelaySound
    <2>2. CASE s = t
      <3>1. Redeemers(s)' = Redeemers(s) \cup {g} /\ g \notin Redeemers(s)
        BY <1>2, <2>1, <2>2 DEF Redeemers, Spends
      <3>2. PICK S, T : S = Redeemers(s) /\ T = Redeemers(s)'
        OBVIOUS
      <3>3. IsFiniteSet(S) /\ Cardinality(S) = HostUses - uses[s]
        BY <2>1, <3>2 DEF HostSound
      <3>4. IsFiniteSet(S \cup {g}) /\ Cardinality(S \cup {g}) = Cardinality(S) + 1
        BY <3>1, <3>2, <3>3, FS_AddElement
      <3>5. Cardinality(S) + 1 = HostUses - uses'[s]
        <4>1. uses[s] \in Int /\ HostUses \in Int
          BY <2>1, InvitationsAssumption DEF TypeOK
        <4>2. uses'[s] = uses[s] - 1
          BY <1>1, <2>2
        <4> QED BY <3>3, <4>1, <4>2
      <3> QED BY <3>1, <3>2, <3>4, <3>5 DEF HostSound
    <2>3. CASE s # t
      <3>1. Redeemers(s)' = Redeemers(s)
        BY <1>2, <2>1, <2>3 DEF Redeemers
      <3> QED BY <1>1, <2>1, <2>3, <3>1 DEF HostSound
    <2> QED BY <2>2, <2>3
  <1>5. \A q \in Guests, s \in Tokens : Recorded(q, s)' => q \in members'
    BY <1>2 DEF RelaySound, Spends
  <1> QED BY <1>3, <1>4, <1>5 DEF RelaySound

LEMMA WritesSound ==
    ASSUME TypeOK, RelaySound, NEW c \in Cards, NEW n \in Int,
           NEW s \in {"none", "pending", "used", "revoked", "pruned"}, Writes(c, n, s),
           \/ issued[c] = "none" /\ n = 1 /\ s = "pending"
           \/ issued[c] \notin {"used", "pruned"} /\ n = 0 /\ s = "revoked"
           \/ age[c] = 2 /\ n = 0 /\ s = "pruned"
    PROVE  RelaySound'
  <1>1. /\ uses'[c] = n /\ issued'[c] = s
        /\ \A t \in Tokens \ {c} : uses'[t] = uses[t]
        /\ \A d \in Cards \ {c} : issued'[d] = issued[d]
    BY IssueTypes DEF Writes
  <1>2. UNCHANGED <<claimant, redeemed, members, age>>
    BY DEF Writes
  <1>3. \A q, t : Recorded(q, t)' <=> Recorded(q, t)
    BY <1>2 DEF Recorded
  <1>4. ASSUME NEW d \in Cards PROVE CardSound(d)'
    <2>1. CardSound(d) /\ d \in Tokens
      BY Kinds DEF RelaySound
    <2>2. CASE d = c
      <3>1. issued[c] \in {"none", "pending", "used", "revoked", "pruned"}
        BY DEF TypeOK
      <3> QED BY <1>1, <1>2, <1>3, <2>1, <2>2, <3>1 DEF CardSound
    <2>3. CASE d # c
      BY <1>1, <1>2, <1>3, <2>1, <2>3, CardKept
    <2> QED BY <2>2, <2>3
  <1>5. ASSUME NEW t \in Hosted PROVE HostSound(t)'
    <2>1. t \in Tokens /\ t # c /\ HostSound(t)
      BY Kinds DEF RelaySound
    <2>2. Redeemers(t)' = Redeemers(t)
      BY <1>3 DEF Redeemers
    <2> QED BY <1>1, <2>1, <2>2 DEF HostSound
  <1> QED BY <1>2, <1>3, <1>4, <1>5 DEF RelaySound

LEMMA AgesSound ==
    ASSUME TypeOK, RelaySound, NEW c \in Cards, Ages(c) PROVE RelaySound'
  <1>1. UNCHANGED <<uses, issued, claimant, redeemed, members>>
    BY DEF Ages
  <1>2. age'[c] = age[c] + 1 /\ age[c] < 2 /\ \A d \in Cards \ {c} : age'[d] = age[d]
    BY DEF Ages, TypeOK
  <1>3. \A q, t : Recorded(q, t)' <=> Recorded(q, t)
    BY <1>1 DEF Recorded
  <1>4. ASSUME NEW d \in Cards PROVE CardSound(d)'
    <2>1. CardSound(d)
      BY DEF RelaySound
    <2>2. CASE d = c
      <3>1. issued[c] # "pruned"
        BY <1>2, <2>1, <2>2 DEF CardSound
      <3> QED BY <1>1, <1>3, <2>1, <2>2, <3>1 DEF CardSound
    <2>3. CASE d # c
      BY <1>1, <1>2, <1>3, <2>1, <2>3, CardKept
    <2> QED BY <2>2, <2>3
  <1>5. ASSUME NEW t \in Hosted PROVE HostSound(t)'
    <2>1. Redeemers(t)' = Redeemers(t)
      BY <1>3 DEF Redeemers
    <2> QED BY <1>1, <2>1 DEF HostSound, RelaySound
  <1> QED BY <1>1, <1>3, <1>4, <1>5 DEF RelaySound

LEMMA RelayStep ==
    ASSUME TypeOK, RelaySound, RelayMoves PROVE RelaySound'
  <1>1. CASE UNCHANGED <<uses, issued, claimant, redeemed, members, age>>
    BY <1>1 DEF RelaySound, CardSound, HostSound, Redeemers, Recorded
  <1>2. CASE \E g \in Guests, t \in Tokens : Spends(g, t)
    BY <1>2, SpendsSound
  <1>3. ASSUME NEW c \in Cards, issued[c] = "none", Writes(c, 1, "pending") PROVE RelaySound'
    <2>1. PICK n \in Int, s \in {"none", "pending", "used", "revoked", "pruned"} : n = 1 /\ s = "pending"
      OBVIOUS
    <2>2. Writes(c, n, s)
      BY <1>3, <2>1
    <2> QED BY <1>3, <2>1, <2>2, WritesSound
  <1>4. ASSUME NEW c \in Cards, issued[c] \notin {"used", "pruned"}, Writes(c, 0, "revoked") PROVE RelaySound'
    <2>1. PICK n \in Int, s \in {"none", "pending", "used", "revoked", "pruned"} : n = 0 /\ s = "revoked"
      OBVIOUS
    <2>2. Writes(c, n, s)
      BY <1>4, <2>1
    <2> QED BY <1>4, <2>1, <2>2, WritesSound
  <1>5. ASSUME NEW c \in Cards, age[c] = 2, Writes(c, 0, "pruned") PROVE RelaySound'
    <2>1. PICK n \in Int, s \in {"none", "pending", "used", "revoked", "pruned"} : n = 0 /\ s = "pruned"
      OBVIOUS
    <2>2. Writes(c, n, s)
      BY <1>5, <2>1
    <2> QED BY <1>5, <2>1, <2>2, WritesSound
  <1> QED BY <1>1, <1>2, <1>3, <1>4, <1>5, AgesSound DEF RelayMoves

\* An invitation nobody can use any more stays so.
LEMMA WithdrawnKept ==
    ASSUME TypeOK, RelaySound, RelayMoves, NEW c \in Cards, Withdrawn(c)
    PROVE  Withdrawn(c)'
  <1>1. CASE UNCHANGED <<uses, issued, claimant, redeemed, members, age>>
    BY <1>1 DEF Withdrawn
  <1>2. ASSUME NEW g \in Guests, NEW t \in Tokens, Spends(g, t) PROVE Withdrawn(c)'
    <2>1. c # t
      BY <1>2 DEF Spends, Withdrawn, RelaySound, CardSound
    <2> QED BY <1>2, <2>1 DEF Spends, RedeemInvite, Withdrawn
  <1>3. ASSUME NEW d \in Cards, issued[d] = "none", age[d] = 0, Writes(d, 1, "pending") PROVE Withdrawn(c)'
    <2>1. c # d
      BY <1>3 DEF Withdrawn
    <2> QED BY <1>3, <2>1 DEF Writes, Withdrawn, TypeOK
  <1>4. ASSUME NEW d \in Cards, Writes(d, 0, "revoked") \/ Writes(d, 0, "pruned") PROVE Withdrawn(c)'
    BY <1>4 DEF Writes, Withdrawn, TypeOK
  <1>5. ASSUME NEW d \in Cards, Ages(d) PROVE Withdrawn(c)'
    <2>1. age[c] \in 0..2 /\ age'[c] \in {age[c], age[c] + 1} /\ issued' = issued
      BY <1>5 DEF Ages, TypeOK
    <2> QED BY <2>1 DEF Withdrawn
  <1> QED BY <1>1, <1>2, <1>3, <1>4, <1>5 DEF RelayMoves

-----------------------------------------------------------------------------
(* The key packages handed out.                                              *)

LEMMA ClaimKept ==
    ASSUME TypeOK, UNCHANGED <<receipt, taken>>, old \subseteq old',
           \A g \in Guests, c \in Cards : ClaimSound(g, c)
    PROVE  \A g \in Guests, c \in Cards : ClaimSound(g, c)'
  BY DEF ClaimSound

LEMMA ClaimStep ==
    ASSUME TypeOK, \A g \in Guests : GuestSound(g), \A g \in Guests, c \in Cards : ClaimSound(g, c),
           (\E g \in Guests : GuestMoves(g)) \/ OwnerMoves
    PROVE  \A g \in Guests, c \in Cards : ClaimSound(g, c)'
  <1>1. ASSUME NEW g \in Guests, ClaimOnce(g)
        PROVE  \A q \in Guests, d \in Cards : ClaimSound(q, d)'
    <2>1. PICK c \in Cards : c = doing[g].token
      BY <1>1 DEF ClaimOnce, At, GuestSound, StepSound, Claiming
    <2>2. UNCHANGED old
      BY <1>1 DEF ClaimOnce
    <2>3. CASE UNCHANGED <<receipt, taken>>
      BY <2>2, <2>3, ClaimKept
    <2>4. CASE ~UNCHANGED <<receipt, taken>>
      <3>1. PICK k \in free : /\ receipt[g][c] = None /\ <<g, c>> \notin old
                              /\ receipt' = [receipt EXCEPT ![g][c] = k]
                              /\ taken' = [taken EXCEPT ![g][c] = @ + 1]
        BY <1>1, <2>1, <2>4 DEF ClaimOnce, Claimable, ClaimKeyPackageOnce
      <3>2. k \in Packages /\ k # None /\ k \in Packages \cup {None}
        BY Kinds DEF TypeOK
      <3>3. taken[g][c] = 0
        <4>1. ClaimSound(g, c) /\ taken[g][c] \in Nat
          BY DEF TypeOK
        <4> QED BY <3>1, <4>1 DEF ClaimSound
      <3>4. taken' = [taken EXCEPT ![g][c] = 1]
        BY <3>1, <3>3
      <3>5. /\ receipt'[g][c] = k
            /\ \A d \in Cards \ {c} : receipt'[g][d] = receipt[g][d]
            /\ \A q \in Guests \ {g} : receipt'[q] = receipt[q]
        BY <3>1, <3>2, TableStep DEF TypeOK
      <3>6. /\ taken'[g][c] = 1
            /\ \A d \in Cards \ {c} : taken'[g][d] = taken[g][d]
            /\ \A q \in Guests \ {g} : taken'[q] = taken[q]
        BY <3>4, TableStep DEF TypeOK
      <3>7. ASSUME NEW q \in Guests, NEW d \in Cards PROVE ClaimSound(q, d)'
        <4>1. CASE q = g /\ d = c
          BY <3>2, <3>5, <3>6, <4>1 DEF ClaimSound
        <4>2. CASE ~(q = g /\ d = c)
          <5>1. receipt'[q][d] = receipt[q][d] /\ taken'[q][d] = taken[q][d]
            BY <3>5, <3>6, <4>2
          <5>2. ClaimSound(q, d)
            OBVIOUS
          <5> QED BY <2>2, <5>1, <5>2 DEF ClaimSound
        <4> QED BY <4>1, <4>2
      <3> QED BY <3>7
    <2> QED BY <2>3, <2>4
  <1>2. ASSUME NEW x \in old, receipt' = [receipt EXCEPT ![x[1]][x[2]] = None], UNCHANGED <<old, taken>>
        PROVE  \A q \in Guests, d \in Cards : ClaimSound(q, d)'
    <2>1. PICK g \in Guests, c \in Cards : x = <<g, c>>
      BY DEF TypeOK
    <2>2. /\ \A d \in Cards \ {c} : receipt'[g][d] = receipt[g][d]
          /\ \A q \in Guests \ {g} : receipt'[q] = receipt[q]
      <3>1. receipt' = [receipt EXCEPT ![g][c] = None] /\ None \in Packages \cup {None}
        BY <1>2, <2>1
      <3> QED BY <3>1, TableStep DEF TypeOK
    <2> QED BY <1>2, <2>1, <2>2 DEF ClaimSound
  <1>3. ASSUME NEW g \in Guests, GuestMoves(g), ~ClaimOnce(g) PROVE UNCHANGED <<receipt, taken, old>>
    <2>1. CASE (\E c \in Cards : Accept(g, c)) \/ (\E t \in Hosted : Enroll(g, t)) \/ GuestStops(g)
      BY <2>1 DEF Accept, Enroll, GuestStops, supply, history
    <2>2. CASE RecordEnrollment(g) \/ Redeem(g) \/ Rejected(g) \/ RecordRedeemed(g)
               \/ StoreEndpoints(g) \/ FinishEnrollment(g) \/ CompleteEnrollment(g)
      BY <2>2 DEF RecordEnrollment, Redeem, Rejected, RecordRedeemed, StoreEndpoints, FinishEnrollment,
                  CompleteEnrollment, supply, history
    <2>3. CASE AcceptInvitation(g) \/ SaveAnswer(g) \/ DrawClaimKey(g)
               \/ SaveClaim(g) \/ BuildGroup(g) \/ PublishIntroduction(g) \/ CompleteOperation(g)
      BY <2>3 DEF AcceptInvitation, SaveAnswer, DrawClaimKey, SaveClaim, BuildGroup,
                  PublishIntroduction, CompleteOperation, supply, history
    <2> QED BY <1>3, <2>1, <2>2, <2>3 DEF GuestMoves, GuestStep
  <1>4. ASSUME OwnerMoves
        PROVE  \/ UNCHANGED <<receipt, taken>> /\ old \subseteq old'
               \/ \E x \in old : receipt' = [receipt EXCEPT ![x[1]][x[2]] = None] /\ UNCHANGED <<old, taken>>
    <2>1. CASE \E g \in Guests : LinkDevice(g) \/ \E c \in Cards : AgeKey(g, c) \/ Forward(g, c)
      BY <2>1 DEF LinkDevice, AgeKey, Forward, supply, guest, history
    <2>2. CASE \E c \in Cards : Create(c) \/ Share(c) \/ Revoke(c) \/ Age(c)
      BY <2>2 DEF Create, Share, Revoke, Age, supply, guest, history
    <2>3. CASE \E refresh \in BOOLEAN : List(refresh)
      BY <2>3 DEF List, supply, guest, history
    <2>4. CASE \E h \in Groups : Receive(h) \/ SettleAsk(h) \/ \E accept \in BOOLEAN : AnswerRequest(h, accept)
      BY <2>4 DEF Receive, SettleAsk, AnswerRequest, supply, guest, history
    <2>5. CASE OwnerStep \/ OwnerStops
      BY <2>5 DEF OwnerStep, SendCreate, ResolveCreate, SendRevoke, SaveReply, SettleBind, OwnerStops,
                  supply, guest, history
    <2>6. CASE Replenish \/ ClaimKeyPackage \/ SweepInvitationHistory
      BY <2>6 DEF Replenish, ClaimKeyPackage, SweepInvitationHistory, guest, history
    <2> QED BY <1>4, <2>1, <2>2, <2>3, <2>4, <2>5, <2>6 DEF OwnerMoves
  <1> QED BY <1>1, <1>2, <1>3, <1>4, ClaimKept

-----------------------------------------------------------------------------
(* The owner device.                                                         *)

RowOk(c) == OutSound(c, out[c])

TendSound ==
    /\ tending.step # "idle" => tending.card \in Cards /\ OutSound(tending.card, tending.row)
    /\ tending.step = "reply" => /\ tending.record \in Answers
                                 /\ tending.record = "revoked" => Withdrawn(tending.card)
    /\ tending.step = "bind" => /\ tending.hello \in Groups /\ tending.hello[2] = tending.card
                                /\ Recorded(tending.hello[1], tending.hello[2])

LEMMA OwnerParts == OwnerSound <=> (\A c \in Cards : RowOk(c)) /\ TendSound
  BY DEF OwnerSound, RowOk, TendSound

LEMMA OwnerJoin == ASSUME \A c \in Cards : RowOk(c)', TendSound' PROVE OwnerSound'
  BY DEF OwnerSound, RowOk, TendSound

\* What a row says stays true of it, whether it is kept or in memory.
LEMMA RowCarried ==
    ASSUME Progress, NEW c, NEW o, OutSound(c, o), contacts \subseteq contacts',
           Withdrawn(c) => Withdrawn(c)'
    PROVE  /\ o.group # None => Recorded(o.group[1], c)' /\ o.group[1] \in contacts'
           /\ o.state = "revoked" => Withdrawn(c)'
  <1>1. \A g : Recorded(g, c) => Recorded(g, c)'
    BY DEF Progress, Recorded
  <1> QED BY <1>1 DEF OutSound

LEMMA OutKept ==
    ASSUME Progress, NEW c \in Cards, RowOk(c), contacts \subseteq contacts',
           Withdrawn(c) => Withdrawn(c)',
           out'[c].group \in {None, out[c].group},
           out'[c].state = "revoked" => out[c].state = "revoked" \/ Withdrawn(c)
    PROVE  RowOk(c)'
  <1>1. \A g : Recorded(g, c) => Recorded(g, c)'
    BY DEF Progress, Recorded
  <1> QED BY <1>1 DEF RowOk, OutSound

LEMMA TendAt ==
    ASSUME NEW c \in Cards, NEW r, NEW s, NEW o,
           tending'.step = s, tending'.card = c, tending'.record = r, tending'.row = o,
           s \in {"create", "resolve", "revoke"} \/ (s = "reply" /\ r \in Answers),
           s = "reply" /\ r = "revoked" => Withdrawn(c)',
           o.group # None => Recorded(o.group[1], c)' /\ o.group[1] \in contacts',
           o.state = "revoked" => Withdrawn(c)'
    PROVE  TendSound'
  BY DEF TendSound, OutSound

LEMMA TendKept ==
    ASSUME Progress, TendSound, UNCHANGED tending, contacts \subseteq contacts',
           \A c \in Cards : Withdrawn(c) => Withdrawn(c)'
    PROVE  TendSound'
  <1>1. \A g, c : Recorded(g, c) => Recorded(g, c)'
    BY DEF Progress, Recorded
  <1>2. tending.step # "idle" => OutSound(tending.card, tending.row)'
    BY <1>1 DEF TendSound, OutSound
  <1> QED BY <1>1, <1>2 DEF TendSound

LEMMA TendRests == ASSUME tending' = Resting PROVE TendSound'
  BY DEF TendSound, Resting

LEMMA OwnerQuiet ==
    ASSUME TypeOK, RelaySound, OwnerSound, RelayMoves, Progress, contacts \subseteq contacts',
           UNCHANGED out, UNCHANGED tending \/ tending' = Resting
    PROVE  OwnerSound'
  <1>1. \A c \in Cards : Withdrawn(c) => Withdrawn(c)'
    BY WithdrawnKept
  <1>2. \A c \in Cards : RowOk(c)'
    BY <1>1, OwnerParts, OutKept
  <1>3. TendSound'
    BY <1>1, OwnerParts, TendKept, TendRests
  <1> QED BY <1>2, <1>3, OwnerJoin

\* One outgoing row replaced, and the step that follows.
LEMMA OwnerWrites ==
    ASSUME TypeOK, RelaySound, OwnerSound, RelayMoves, Progress, contacts \subseteq contacts',
           NEW c \in Cards, NEW row \in Outgoing, out' = [out EXCEPT ![c] = row],
           row.group # None => Recorded(row.group[1], c) /\ row.group[1] \in contacts',
           row.state = "revoked" => Withdrawn(c), TendSound'
    PROVE  OwnerSound'
  <1>1. \A d \in Cards : Withdrawn(d) => Withdrawn(d)'
    BY WithdrawnKept
  <1>2. out'[c] = row /\ \A d \in Cards \ {c} : out'[d] = out[d]
    BY OutStep
  <1>3. RowOk(c)'
    <2>1. \A g : Recorded(g, c) => Recorded(g, c)'
      BY DEF Progress, Recorded
    <2> QED BY <1>1, <1>2, <2>1 DEF RowOk, OutSound
  <1>4. \A d \in Cards \ {c} : RowOk(d)'
    BY <1>1, <1>2, OwnerParts, OutKept
  <1> QED BY <1>3, <1>4, OwnerJoin

LEMMA CommandSound ==
    ASSUME TypeOK, RelaySound, OwnerSound, RelayMoves, Progress, NEW c \in Cards, Create(c) \/ Revoke(c)
    PROVE  OwnerSound'
  <1>1. UNCHANGED contacts
    BY DEF Create, Revoke
  <1>0. PICK o : o = out'[c]
    OBVIOUS
  <1>2. PICK s \in {"create", "resolve"} :
           /\ tending'.step = s /\ tending'.card = c
           /\ tending'.record = "none" /\ tending'.row = o
    BY <1>0 DEF Create, Revoke, Tend
  <1>3. CASE Create(c) /\ UNCHANGED out
    <2>1. \A d \in Cards : Withdrawn(d) => Withdrawn(d)'
      BY WithdrawnKept
    <2>2. \A d \in Cards : RowOk(d)'
      BY <1>1, <1>3, <2>1, OwnerParts, OutKept
    <2>3. OutSound(c, o)
      BY <1>0, <1>3 DEF OwnerSound
    <2>4. TendSound'
      BY <1>1, <1>2, <2>1, <2>3, RowCarried, TendAt
    <2> QED BY <2>2, <2>4, OwnerJoin
  <1>4. ASSUME NEW row \in Outgoing, out' = [out EXCEPT ![c] = row], row.group = None, row.state # "revoked"
        PROVE  OwnerSound'
    <2>1. o = row
      BY <1>0, <1>4, OutStep
    <2>2. TendSound'
      BY <1>2, <1>4, <2>1, TendAt
    <2> QED BY <1>1, <1>4, <2>2, OwnerWrites
  <1>5. CASE Create(c) /\ ~UNCHANGED out
    <2>1. PICK row \in Outgoing : row = [state |-> "issuing", secret |-> TRUE, group |-> None]
      BY DEF Outgoing
    <2>2. out' = [out EXCEPT ![c] = row]
      BY <1>5, <2>1 DEF Create
    <2>3. row.group = None /\ row.state # "revoked"
      BY <2>1
    <2> QED BY <1>4, <2>2, <2>3
  <1>6. CASE Revoke(c)
    <2>1. PICK row : row = [out[c] EXCEPT !.state = "revoke-pending"]
      OBVIOUS
    <2>2. row \in Outgoing /\ row.group = out[c].group /\ row.state = "revoke-pending"
      <3>1. out[c] \in Outgoing
        BY DEF TypeOK
      <3> QED BY <2>1, <3>1 DEF Outgoing
    <2>3. out' = [out EXCEPT ![c] = row]
      BY <1>6, <2>1 DEF Revoke
    <2>4. row.group = None
      BY <1>6, <2>2 DEF Revoke
    <2> QED BY <1>4, <2>2, <2>3, <2>4
  <1> QED BY <1>3, <1>5, <1>6

LEMMA ListSound ==
    ASSUME TypeOK, RelaySound, OwnerSound, RelayMoves, Progress, NEW refresh \in BOOLEAN, List(refresh)
    PROVE  OwnerSound'
  <1>1. UNCHANGED <<contacts, tending>>
    BY DEF List
  <1>2. \A c \in Cards : Withdrawn(c) => Withdrawn(c)'
    BY WithdrawnKept
  <1>3. ASSUME NEW c \in Cards PROVE RowOk(c)'
    <2>1. out[c] \in Outgoing /\ NoInvitation.group = None /\ NoInvitation.state = "none"
      BY DEF TypeOK, NoInvitation
    <2>2. PICK o : o = IF refresh /\ Known(c) THEN ApplyRecord(out[c], Record(c)) ELSE out[c]
      OBVIOUS
    <2>3. o.group = out[c].group /\ (o.state = "revoked" => out[c].state = "revoked" \/ Withdrawn(c))
      <3>1. CASE refresh /\ Known(c)
        <4>1. PICK r \in Answers : r = Record(c)
          BY <3>1, RecordType
        <4>2. r = "revoked" => issued[c] = "revoked"
          BY <3>1, <4>1, RecordType
        <4> QED BY <2>1, <2>2, <3>1, <4>1, <4>2, ApplyRecordType DEF Withdrawn
      <3> QED BY <2>2, <3>1
    <2>4. out'[c] \in {o, NoInvitation}
      BY <2>2 DEF List, Kept
    <2> QED BY <1>1, <1>2, <2>1, <2>3, <2>4, OwnerParts, OutKept
  <1> QED BY <1>1, <1>2, <1>3, OwnerParts, OwnerJoin, TendKept

LEMMA IssuesSound ==
    ASSUME TypeOK, RelaySound, OwnerSound, RelayMoves, Progress, SendCreate \/ ResolveCreate
    PROVE  OwnerSound'
  <1>1. PICK c \in Cards : c = tending.card
    BY DEF SendCreate, ResolveCreate, OwnerSound
  <1>2. UNCHANGED <<contacts, age>>
    BY DEF SendCreate, ResolveCreate
  <1>3. \A d \in Cards : Withdrawn(d) => Withdrawn(d)'
    BY WithdrawnKept
  <1>4. PICK o : o = tending.row
    OBVIOUS
  <1>5. /\ o \in Outgoing /\ OutSound(c, o)
        /\ o.group # None => Recorded(o.group[1], c)' /\ o.group[1] \in contacts'
        /\ o.state = "revoked" => Withdrawn(c)'
    <2>1. o \in Outgoing /\ OutSound(c, o)
      BY <1>1, <1>4 DEF SendCreate, ResolveCreate, OwnerSound, TypeOK, Tending
    <2> QED BY <1>2, <1>3, <2>1, RowCarried
  <1>6. CASE Issuable(c)
    <2>1. UNCHANGED out
      BY <1>1, <1>6 DEF SendCreate, ResolveCreate
    <2>2. TendSound'
      <3>1. CASE SendCreate
        <4>1. PICK r : r = IF Known(c) THEN Record(c) ELSE "pending"
          OBVIOUS
        <4>2. r \in Answers /\ (r = "revoked" => Withdrawn(c))
          BY <4>1, RecordType DEF Answers, Withdrawn
        <4>3. tending' = [tending EXCEPT !.step = "reply", !.record = r]
          BY <1>1, <1>6, <3>1, <4>1 DEF SendCreate
        <4>4. tending'.step = "reply" /\ tending'.card = c /\ tending'.record = r /\ tending'.row = o
          BY <1>1, <1>4, <4>2, <4>3, TendingStep
        <4> QED BY <1>3, <1>5, <4>2, <4>4, TendAt
      <3>2. CASE ResolveCreate
        <4>1. PICK r \in {"none"} \cup Answers : r = tending.record
          BY DEF TypeOK, Tending
        <4>2. tending' = [tending EXCEPT !.step = "revoke"]
          BY <1>1, <1>6, <3>2 DEF ResolveCreate
        <4>3. tending'.step = "revoke" /\ tending'.card = c /\ tending'.record = r /\ tending'.row = o
          BY <1>1, <1>4, <4>1, <4>2, TendingStep
        <4> QED BY <1>5, <4>3, TendAt
      <3> QED BY <3>1, <3>2
    <2>3. \A d \in Cards : RowOk(d)'
      BY <1>2, <1>3, <2>1, OwnerParts, OutKept
    <2> QED BY <2>2, <2>3, OwnerJoin
  <1>7. CASE SendCreate /\ ~Issuable(c)
    <2>1. tending' = Resting /\ UNCHANGED out
      BY <1>1, <1>7 DEF SendCreate
    <2> QED BY <1>2, <2>1, OwnerQuiet
  <1>8. CASE ResolveCreate /\ ~Issuable(c)
    <2>1. Withdrawn(c)
      <3>1. issued[c] \in {"none", "pending", "used", "revoked", "pruned"} /\ age[c] \in 0..2
        BY DEF TypeOK
      <3> QED BY <1>8, <3>1 DEF Issuable, Known, Withdrawn
    <2>2. PICK row : row = [o EXCEPT !.state = "revoked", !.secret = FALSE]
      OBVIOUS
    <2>3. row \in Outgoing /\ row.group = o.group
      BY <1>5, <2>2 DEF Outgoing, Answers
    <2>4. out' = [out EXCEPT ![c] = row] /\ tending' = Resting
      BY <1>1, <1>8, <1>4, <2>2 DEF ResolveCreate, TypeOK
    <2>5. row.group # None => Recorded(row.group[1], c) /\ row.group[1] \in contacts'
      BY <1>2, <1>5, <2>3 DEF OutSound
    <2> QED BY <1>2, <2>1, <2>3, <2>4, <2>5, TendRests, OwnerWrites
  <1> QED BY <1>6, <1>7, <1>8

LEMMA AnswersSound ==
    ASSUME TypeOK, RelaySound, OwnerSound, RelayMoves, Progress, SendRevoke \/ SaveReply
    PROVE  OwnerSound'
  <1>1. PICK c \in Cards : c = tending.card
    BY DEF SendRevoke, SaveReply, OwnerSound
  <1>2. UNCHANGED contacts
    BY DEF SendRevoke, SaveReply
  <1>3. \A d \in Cards : Withdrawn(d) => Withdrawn(d)'
    BY WithdrawnKept
  <1>4. PICK p : p = tending.row
    OBVIOUS
  <1>5. /\ p \in Outgoing /\ OutSound(c, p)
        /\ p.group # None => Recorded(p.group[1], c)' /\ p.group[1] \in contacts'
        /\ p.state = "revoked" => Withdrawn(c)'
    <2>1. p \in Outgoing /\ OutSound(c, p)
      BY <1>1, <1>4 DEF SendRevoke, SaveReply, OwnerSound, TypeOK, Tending
    <2> QED BY <1>2, <1>3, <2>1, RowCarried
  <1>6. CASE SendRevoke
    <2>1. UNCHANGED out
      BY <1>6 DEF SendRevoke
    <2>2. CASE tending' = Resting
      BY <1>2, <2>1, <2>2, OwnerQuiet
    <2>3. CASE tending' # Resting
      <3>1. PICK r \in {"used", "revoked"} :
                 /\ tending' = [tending EXCEPT !.step = "reply", !.record = r]
                 /\ r = "revoked" => issued' = [issued EXCEPT ![c] = "revoked"]
        BY <1>1, <1>6, <2>3 DEF SendRevoke
      <3>2. r = "revoked" => Withdrawn(c)'
        BY <3>1 DEF TypeOK, Withdrawn
      <3>3. r \in Answers
        BY DEF Answers
      <3>4. tending'.step = "reply" /\ tending'.card = c /\ tending'.record = r /\ tending'.row = p
        BY <1>1, <1>4, <3>1, <3>3, TendingStep
      <3>5. TendSound'
        BY <1>5, <3>2, <3>3, <3>4, TendAt
      <3>6. \A d \in Cards : RowOk(d)'
        BY <1>2, <1>3, <2>1, OwnerParts, OutKept
      <3> QED BY <3>5, <3>6, OwnerJoin
    <2> QED BY <2>2, <2>3
  <1>7. CASE SaveReply
    <2>1. PICK r \in Answers : r = tending.record
      BY <1>7 DEF SaveReply, OwnerSound
    <2>2. PICK o : o = ApplyRecord(p, r)
      OBVIOUS
    <2>3. o \in Outgoing /\ o.group = p.group /\ (o.state = "revoked" => r = "revoked")
      BY <1>5, <2>2, ApplyRecordType
    <2>4. PICK row : row = [o EXCEPT !.secret = @ /\ o.state # "revoked"]
      OBVIOUS
    <2>5. row \in Outgoing /\ row.group = p.group /\ row.state = o.state
      BY <2>3, <2>4 DEF Outgoing
    <2>6. out' = [out EXCEPT ![c] = row] /\ tending' = Resting
      BY <1>1, <1>7, <1>4, <2>1, <2>2, <2>4 DEF SaveReply
    <2>7. row.group # None => Recorded(row.group[1], c) /\ row.group[1] \in contacts'
      BY <1>2, <1>5, <2>5 DEF OutSound
    <2>8. row.state = "revoked" => Withdrawn(c)
      BY <1>1, <1>7, <2>1, <2>3, <2>5 DEF SaveReply, OwnerSound
    <2> QED BY <1>2, <2>5, <2>6, <2>7, <2>8, TendRests, OwnerWrites
  <1> QED BY <1>6, <1>7

LEMMA SettleSound ==
    ASSUME TypeOK, RelaySound, OwnerSound, RelayMoves, Progress,
           SettleBind \/ \E h \in Groups : SettleAsk(h)
    PROVE  OwnerSound'
  <1>1. ASSUME NEW h \in Groups, SettleAsk(h) PROVE OwnerSound'
    <2>1. UNCHANGED <<out, contacts>>
      BY <1>1 DEF SettleAsk, owner
    <2>2. CASE UNCHANGED tending
      BY <2>1, <2>2, OwnerQuiet
    <2>3. CASE ~UNCHANGED tending
      <3>1. PICK g \in Guests, c \in Cards : g = h[1] /\ c = h[2]
        BY Kinds
      <3>2. issued[c] = "used" /\ claimant[c] = g /\ Tend("bind", c, h, out[c])
        BY <1>1, <2>3, <3>1 DEF SettleAsk
      <3>3. Recorded(g, c)
        BY <3>2 DEF RelaySound, CardSound
      <3>4. Recorded(g, c)'
        BY <3>3 DEF Progress, Recorded
      <3>5. PICK o : o = out[c]
        OBVIOUS
      <3>6. tending'.step = "bind" /\ tending'.hello = h /\ tending'.card = c /\ tending'.row = o
        BY <3>2, <3>5 DEF Tend
      <3>7. \A d \in Cards : Withdrawn(d) => Withdrawn(d)'
        BY WithdrawnKept
      <3>9. /\ o.group # None => Recorded(o.group[1], c)' /\ o.group[1] \in contacts'
            /\ o.state = "revoked" => Withdrawn(c)'
        <4>1. OutSound(c, o)
          BY <3>5 DEF OwnerSound
        <4> QED BY <2>1, <3>7, <4>1, RowCarried
      <3>10. TendSound'
        BY <3>1, <3>4, <3>6, <3>9 DEF TendSound, OutSound
      <3>8. \A d \in Cards : RowOk(d)'
        BY <2>1, <3>7, OwnerParts, OutKept
      <3> QED BY <3>8, <3>10, OwnerJoin
    <2> QED BY <2>2, <2>3
  <1>2. CASE SettleBind
    <2>1. PICK h \in Groups : h = tending.hello
      BY <1>2 DEF SettleBind, OwnerSound
    <2>2. PICK c \in Cards, g \in Guests : c = h[2] /\ g = h[1]
      BY Kinds
    <2>3. Recorded(g, c)
      BY <1>2, <2>1, <2>2 DEF SettleBind, OwnerSound
    <2>4. PICK row : row = [tending.row EXCEPT !.state = "connected", !.group = h]
      OBVIOUS
    <2>5. row \in Outgoing /\ row.group = h /\ row.state = "connected"
      <3>1. tending.row \in Outgoing
        BY DEF TypeOK, Tending
      <3> QED BY <2>4, <3>1 DEF Outgoing
    <2>6. out' = [out EXCEPT ![c] = row] /\ tending' = Resting
      BY <1>2, <2>1, <2>2, <2>4 DEF SettleBind, TypeOK
    <2>7. contacts' = contacts \cup {g}
      BY <1>2, <2>1, <2>2 DEF SettleBind
    <2> QED BY <2>2, <2>3, <2>5, <2>6, <2>7, TendRests, OwnerWrites
  <1> QED BY <1>1, <1>2

LEMMA OwnerSoundStep ==
    ASSUME TypeOK, RelaySound, OwnerSound, RelayMoves, Progress,
           (\E g \in Guests : GuestMoves(g)) \/ OwnerMoves
    PROVE  OwnerSound'
  <1>1. ASSUME NEW g \in Guests, GuestMoves(g) PROVE OwnerSound'
    <2>1. CASE (\E c \in Cards : Accept(g, c)) \/ (\E t \in Hosted : Enroll(g, t)) \/ GuestStops(g)
      BY <2>1, OwnerQuiet DEF Accept, Enroll, GuestStops, owner
    <2>2. CASE RecordEnrollment(g) \/ Redeem(g) \/ Rejected(g) \/ RecordRedeemed(g)
               \/ StoreEndpoints(g) \/ FinishEnrollment(g) \/ CompleteEnrollment(g)
      BY <2>2, OwnerQuiet DEF RecordEnrollment, Redeem, Rejected, RecordRedeemed, StoreEndpoints,
                              FinishEnrollment, CompleteEnrollment, owner
    <2>3. CASE AcceptInvitation(g) \/ SaveAnswer(g) \/ DrawClaimKey(g) \/ ClaimOnce(g)
               \/ SaveClaim(g) \/ BuildGroup(g) \/ PublishIntroduction(g) \/ CompleteOperation(g)
      BY <2>3, OwnerQuiet DEF AcceptInvitation, SaveAnswer, DrawClaimKey, ClaimOnce, SaveClaim,
                              BuildGroup, PublishIntroduction, CompleteOperation, owner
    <2> QED BY <1>1, <2>1, <2>2, <2>3 DEF GuestMoves, GuestStep
  <1>2. CASE \E g \in Guests : LinkDevice(g) \/ \E c \in Cards : AgeKey(g, c) \/ Forward(g, c)
    BY <1>2, OwnerQuiet DEF LinkDevice, AgeKey, Forward, owner
  <1>3. CASE \E c \in Cards : Share(c) \/ Age(c)
    BY <1>3, OwnerQuiet DEF Share, Age, owner
  <1>4. CASE \E c \in Cards : Create(c) \/ Revoke(c)
    BY <1>4, CommandSound
  <1>5. CASE \E h \in Groups : Receive(h) \/ \E accept \in BOOLEAN : AnswerRequest(h, accept)
    BY <1>5, OwnerQuiet DEF Receive, AnswerRequest
  <1>6. CASE OwnerStops \/ Replenish \/ ClaimKeyPackage \/ SweepInvitationHistory
    BY <1>6, OwnerQuiet DEF OwnerStops, Replenish, ClaimKeyPackage, SweepInvitationHistory, owner
  <1> QED BY <1>1, <1>2, <1>3, <1>4, <1>5, <1>6, ListSound, IssuesSound, AnswersSound, SettleSound
          DEF OwnerMoves, OwnerStep

-----------------------------------------------------------------------------
(* The invariant, and what follows from it.                                  *)

\* An introduction that passes its time is nobody else's.
LEMMA LapseStep ==
    ASSUME InvitationsInv, NEW g \in Guests, NEW c \in Cards, Lapse(g, c) PROVE InvitationsInv'
  <1>1. UNCHANGED <<uses, issued, claimant, age, redeemed, members, equipped, receipt, free, unpublished,
                    shared, manifest, enrollment, joined, op, old, doing, out, hellos, request,
                    contacts, tending, built, taken, faults>>
    BY DEF Lapse, admission, supply, profile, owner, history
  <1>2. /\ sent' \in [Guests -> [Cards -> Sendings]] /\ sent'[g][c] = "lapsed"
        /\ \A d \in Cards \ {c} : sent'[g][d] = sent[g][d]
        /\ \A q \in Guests \ {g} : sent'[q] = sent[q]
    <2>1. sent \in [Guests -> [Cards -> Sendings]] /\ "lapsed" \in Sendings
      BY DEF InvitationsInv, TypeOK, Sendings
    <2>2. sent' = [sent EXCEPT ![g][c] = "lapsed"]
      BY DEF Lapse
    <2> QED BY <2>1, <2>2, TableStep
  <1>3. TypeOK'
    <2>1. (mail \subseteq Groups)'
      BY DEF InvitationsInv, TypeOK, Lapse
    <2> QED BY <1>1, <1>2, <2>1 DEF InvitationsInv, TypeOK, Sendings
  <1>4. sent[g][c] = "accepted" /\ mail' = mail \ {op[g][c].group}
    BY DEF Lapse
  <1>5. ASSUME NEW q \in Guests, NEW d \in Cards PROVE RowSound(q, d)'
    <2>1. RowSound(q, d) /\ RowSound(g, c)
      BY DEF InvitationsInv, GuestSound
    <2>2. op'[q][d] = op[q][d] /\ built'[q][d] = built[q][d] /\ (Recorded(q, d) => Recorded(q, d)')
      BY <1>1 DEF Recorded
    <2>3. CASE q = g /\ d = c
      BY <1>2, <1>4, <2>1, <2>2, <2>3 DEF RowSound
    <2>4. CASE ~(q = g /\ d = c)
      <3>1. sent'[q][d] = sent[q][d]
        BY <1>2, <2>4
      <3>2. sent[q][d] = "accepted" => op[q][d].group # op[g][c].group
        BY <1>4, <2>1, <2>4 DEF RowSound
      <3>3. sent[q][d] = "accepted" => Introduced(op[q][d].group)'
        BY <1>1, <1>4, <2>1, <3>2 DEF RowSound, Introduced
      <3> QED BY <2>1, <2>2, <3>1, <3>3 DEF RowSound
    <2> QED BY <2>3, <2>4
  <1>6. ASSUME NEW q \in Guests PROVE EnrolmentSound(q)' /\ StepSound(q)'
    <2>1. EnrolmentSound(q) /\ StepSound(q)
      BY DEF InvitationsInv, GuestSound
    <2> QED BY <1>1, <2>1 DEF EnrolmentSound, StepSound, Unfinished, Recorded
  <1>7. RelayMoves
    BY <1>1 DEF RelayMoves
  <1>8. OwnerSound'
    BY <1>1 DEF InvitationsInv, OwnerSound, OutSound, Withdrawn, Recorded
  <1> QED BY <1>1, <1>3, <1>5, <1>6, <1>7, <1>8, RelayStep, ClaimKept DEF InvitationsInv, GuestSound

LEMMA InvStep ==
    ASSUME InvitationsInv, [Next]_vars PROVE InvitationsInv'
  <1>1. CASE UNCHANGED vars
    <2>1. UNCHANGED <<uses, issued, claimant, age, redeemed, members, equipped, receipt, free, unpublished,
                      mail, shared, manifest, enrollment, joined, op, sent, old, doing, out, hellos, request,
                      contacts, tending, built, taken, faults>>
      BY <1>1 DEF vars, admission, supply, profile, guest, owner, history
    <2>2. TypeOK'
      BY <2>1 DEF InvitationsInv, TypeOK
    <2>3. RelayMoves /\ Progress
      BY <2>1, ProgressKept DEF RelayMoves
    <2> QED BY <2>1, <2>2, <2>3, RelayStep, GuestsKept, ClaimKept, OwnerQuiet DEF InvitationsInv
  <1>2. ASSUME NEW g \in Guests, GuestMoves(g) PROVE InvitationsInv'
    <2>1. TypeOK' /\ Progress /\ \A q \in Guests : GuestSound(q)'
      BY <1>2, GuestMovesStep DEF InvitationsInv
    <2>2. RelayMoves
      BY <1>2, GuestRelayMoves DEF InvitationsInv
    <2> QED BY <1>2, <2>1, <2>2, RelayStep, ClaimStep, OwnerSoundStep DEF InvitationsInv
  <1>3. CASE OwnerMoves
    <2>1. TypeOK' /\ Progress /\ \A q \in Guests : GuestSound(q)'
      BY <1>3, OwnerMovesTypes, OwnerMovesProgress, OwnerMovesGuests DEF InvitationsInv
    <2>2. RelayMoves
      BY <1>3, OwnerRelayMoves DEF InvitationsInv
    <2> QED BY <1>3, <2>1, <2>2, RelayStep, ClaimStep, OwnerSoundStep DEF InvitationsInv
  <1> QED BY <1>1, <1>2, <1>3, LapseStep, NextCases

LEMMA InitTypes == Init => TypeOK
  <1> SUFFICES ASSUME Init PROVE TypeOK
    OBVIOUS
  <1>1. AdmissionTypes
    BY InvitationsAssumption DEF Init, AdmissionTypes, Tokens
  <1>2. SupplyTypes
    BY DEF Init, SupplyTypes
  <1>3. ProfileTypes
    BY DEF Init, ProfileTypes, NoEnrollment, Complete
  <1>4. GuestTypes
    <2>1. NoOp \in Row /\ Idle \in Doing
      BY DEF NoOp, Row, Idle, Doing, Steps
    <2> QED BY <2>1 DEF Init, Sendings, GuestTypes
  <1>5. OwnerTypes
    <2>1. NoInvitation \in Outgoing
      BY DEF NoInvitation, Outgoing
    <2> QED BY <2>1, RestType DEF Init, OwnerTypes
  <1>6. HistoryTypes
    BY DEF Init, HistoryTypes
  <1> QED BY <1>1, <1>2, <1>3, <1>4, <1>5, <1>6, TypeParts DEF Init

LEMMA InvInit == Init => InvitationsInv
  <1> SUFFICES ASSUME Init PROVE InvitationsInv
    OBVIOUS
  <1>1. \A g \in Guests, t \in Tokens : ~Recorded(g, t)
    BY DEF Init, Recorded
  <1>2. RelaySound
    <2>1. \A c \in Cards : CardSound(c)
      BY <1>1, Kinds DEF Init, CardSound
    <2>2. ASSUME NEW t \in Hosted PROVE HostSound(t)
      <3>1. Redeemers(t) = {} /\ t \in Tokens
        BY <1>1, Kinds DEF Redeemers
      <3>2. uses[t] = HostUses
        BY <3>1 DEF Init
      <3> QED BY <3>1, <3>2, FS_EmptySet, InvitationsAssumption DEF HostSound
    <2> QED BY <1>1, <2>1, <2>2 DEF RelaySound
  <1>3. ASSUME NEW g \in Guests PROVE GuestSound(g)
    <2>1. doing[g].step = "idle"
      BY DEF Init, Idle
    <2>2. EnrolmentSound(g)
      <3>1. /\ joined[g] <=> g \in members
            /\ enrollment[g].phase = IF g \in members THEN 4 ELSE 0
            /\ equipped = members
        BY DEF Init, NoEnrollment, Complete
      <3> QED BY <2>1, <3>1 DEF EnrolmentSound, Complete, Redeemed
    <2>3. StepSound(g)
      BY <2>1 DEF StepSound, Enrolling, Asking, Claiming, Publishing
    <2>4. \A c \in Cards : RowSound(g, c)
      BY DEF Init, RowSound, NoOp
    <2> QED BY <2>2, <2>3, <2>4 DEF GuestSound
  <1>4. \A g \in Guests, c \in Cards : ClaimSound(g, c)
    BY DEF Init, ClaimSound
  <1>5. OwnerSound
    <2>1. tending.step = "idle" /\ \A c \in Cards : out[c] = NoInvitation
      BY DEF Init, Resting
    <2> QED BY <2>1 DEF OwnerSound, OutSound, NoInvitation
  <1> QED BY <1>2, <1>3, <1>4, <1>5, InitTypes DEF InvitationsInv

\* The inductive invariant holds in every run, however many guests accept at
\* once and wherever a request, a reply or a process is lost (onboarding.rs,
\* invitations.rs, store/invitations.go).
THEOREM InvitationsInvariance == Spec => []InvitationsInv
  BY InvInit, InvStep, PTL DEF Spec

\* An invitation is spent once, by whichever of the two ways, and a host token
\* is spent as often as its counter says (RedeemInvite, AcceptInvitation).
THEOREM InvitationsSpentOnce == Spec => []SpentOnce
  <1>1. InvitationsInv => SpentOnce
    <2> SUFFICES ASSUME InvitationsInv PROVE SpentOnce
      OBVIOUS
    <2>1. ASSUME NEW c \in Cards PROVE Cardinality(Redeemers(c)) <= 1
      <3>1. CASE Redeemers(c) = {}
        BY <3>1, FS_EmptySet
      <3>2. CASE Redeemers(c) # {}
        <4>1. PICK g \in Redeemers(c) : TRUE
          BY <3>2
        <4>2. \A q \in Redeemers(c) : q = claimant[c]
          BY DEF InvitationsInv, RelaySound, CardSound, Redeemers
        <4>3. Redeemers(c) = {g}
          BY <4>1, <4>2
        <4>4. Cardinality({g}) = 1
          BY FS_Singleton
        <4> QED BY <4>3, <4>4
      <3> QED BY <3>1, <3>2
    <2> QED BY <2>1 DEF InvitationsInv, RelaySound, HostSound, Redeemers, SpentOnce
  <1> QED BY <1>1, InvitationsInvariance, PTL

\* What a guest's rows say of its admission, the relay has (advance,
\* finish_enrollment, accept).
THEOREM GuestsToldTheTruth == Spec => []AdmittedTruthful
  <1>1. InvitationsInv => AdmittedTruthful
    BY DEF InvitationsInv, GuestSound, EnrolmentSound, RowSound, AdmittedTruthful
  <1> QED BY <1>1, InvitationsInvariance, PTL

\* One accepted invitation takes one key package and starts one conversation,
\* however often it is resumed (ClaimKeyPackageOnce, build_group, complete).
THEOREM ResumingIntroducesOnce == Spec => []IntroducedOnce
  <1>1. InvitationsInv => IntroducedOnce
    <2> SUFFICES ASSUME InvitationsInv, NEW g \in Guests, NEW c \in Cards
                 PROVE  /\ built[g][c] <= 1 /\ taken[g][c] <= 1
                        /\ op[g][c].state = "complete" => sent[g][c] \in {"accepted", "lapsed"}
                        /\ sent[g][c] = "accepted" =>
                               op[g][c].group \in mail \/ request[op[g][c].group] # "none"
      BY DEF IntroducedOnce
    <2>1. RowSound(g, c) /\ ClaimSound(g, c)
      BY DEF InvitationsInv, GuestSound
    <2> QED BY <2>1 DEF RowSound, ClaimSound, Introduced
  <1> QED BY <1>1, InvitationsInvariance, PTL

\* The owner connects an invitation only with the guest the relay recorded, and
\* one it shows as revoked was used by nobody (settle, apply_record, RevokeInvitation).
THEOREM OwnerConnectsTheClaimant == Spec => []ConnectedWithClaimant
  <1>1. InvitationsInv => ConnectedWithClaimant
    <2> SUFFICES ASSUME InvitationsInv, NEW c \in Cards
                 PROVE  /\ out[c].group # None => Recorded(out[c].group[1], c) /\ out[c].group[1] \in contacts
                        /\ out[c].state = "revoked" /\ age[c] < 2 => \A g \in Guests : ~Recorded(g, c)
      BY DEF ConnectedWithClaimant
    <2>1. CardSound(c)
      BY DEF InvitationsInv, RelaySound
    <2> QED BY <2>1 DEF InvitationsInv, OwnerSound, OutSound, Withdrawn, CardSound
  <1> QED BY <1>1, InvitationsInvariance, PTL
=============================================================================
