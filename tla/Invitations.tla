----------------------------- MODULE Invitations -----------------------------
(***************************************************************************)
(* A personal invitation from the moment its owner issues it to the        *)
(* conversation it ends in (arveil-app invitations.rs and onboarding.rs,   *)
(* arveil-core invitation_store.rs, relay store/invitations.go and         *)
(* store.go).  The issuer keeps one row per invitation, written before the *)
(* relay is asked.  A guest keeps one row per invitation it accepts and    *)
(* one row for its enrolment; every step of accepting is recorded once its *)
(* effect is durable, and accepting again resumes from what is recorded.   *)
(* The relay spends the invitation in the transaction that records who     *)
(* spent it, and keeps a receipt of the key package it handed out.  A      *)
(* request and the saving of its reply are two steps here, and either      *)
(* process may stop between any two: that is a lost request, a lost reply  *)
(* and a crash alike.  Every invitation command of one profile, its        *)
(* enrolment and its sync exclude one another; answering a conversation    *)
(* request excludes nothing.                                               *)
(***************************************************************************)
EXTENDS Integers, FiniteSets

CONSTANTS Guests,     \* profiles that may accept; each is one identity and one device
          Cards,      \* personal invitations, issued by one owner device
          Hosted,     \* admission tokens made on the host, which name no contact
          HostUses,   \* how often one of them may be redeemed
          Packages,   \* key packages the owner device may publish
          None,
          MaxAge,     \* bound: how old an invitation grows, 1 past its validity, 2 past its retention
          MaxFaults   \* bound: requests, replies and processes lost

Tokens == Cards \cup Hosted
Groups == Guests \X Cards \X {0, 1, 2}  \* 0: a forwarded link's

ASSUME InvitationsAssumption == /\ Cards \cap Hosted = {}
                                /\ HostUses \in Nat /\ MaxFaults \in Nat /\ MaxAge \in 0..2
                                /\ None \notin Packages \cup Guests \cup Tokens \cup Groups

\* EnrollmentPhase; 0 while the enrolment row does not exist.
Redeeming == 1
Redeemed == 2
Endpoints == 3
Complete == 4

VARIABLES \* the relay
          uses,       \* uses[t]: invites.uses_left
          issued,     \* issued[c]: issued_invitations.state
          claimant,   \* claimant[c]: who is recorded as having used c
          age,        \* age[c]: 0 valid, 1 past its seven days, 2 past its retention
          redeemed,   \* invite_redemptions
          members,    \* guests with a membership
          equipped,   \* guests whose mailbox and first key packages the relay holds
          receipt,    \* receipt[g][c]: the package handed out under g's claim key for c
          free,       \* published packages nobody has claimed
          unpublished,\* packages the owner device has still to publish
          mail,       \* introductions in the owner's mailbox
          shared,     \* invitations whose link has left the owner device
          \* the guests
          manifest,   \* manifest[g]: sequence of the newest manifest g signed, 0 without a device
          enrollment, \* enrollment[g]: the enrolment row
          joined,     \* joined[g]: realm.enrolled
          op,         \* op[g][c]: the incoming row
          sent,       \* sent[g][c]: the introduction's rows in the outbox
          old,        \* <<g, c>> whose claim key the relay finds too old
          doing,      \* doing[g]: the command g is running
          \* the owner device
          out,        \* out[c]: the outgoing row
          hellos,     \* introductions matched with an invitation, waiting for proof
          request,    \* request[h]: where the conversation h stands
          contacts,   \* guests that are contacts
          tending,    \* the command or sync step the owner device is running
          \* history
          built,      \* built[g][c]: conversations g started for c
          taken,      \* taken[g][c]: packages handed to g for c
          faults

admission == <<uses, issued, claimant, age, redeemed, members, equipped>>
supply == <<receipt, free, unpublished>>
profile == <<manifest, enrollment, joined>>
guest == <<op, sent, old, doing>>
owner == <<out, hellos, request, contacts, tending>>
history == <<built, taken>>
vars == <<admission, supply, mail, shared, profile, guest, owner, history, faults>>

Idle == [token |-> None, step |-> "idle", package |-> None]
NoOp == [state |-> "none", key |-> FALSE, package |-> None, group |-> None]
NoInvitation == [state |-> "none", secret |-> FALSE, group |-> None]
Resting == [step |-> "idle", card |-> None, record |-> "none", hello |-> None, row |-> NoInvitation]
NoEnrollment == [token |-> None, phase |-> 0]

\* Some guests are members already, admitted in another way.
Init ==
    /\ uses = [t \in Tokens |-> IF t \in Hosted THEN HostUses ELSE 0]
    /\ issued = [c \in Cards |-> "none"]
    /\ claimant = [c \in Cards |-> None]
    /\ age = [c \in Cards |-> 0]
    /\ redeemed = {}
    /\ members \in SUBSET Guests
    /\ equipped = members
    /\ receipt = [g \in Guests |-> [c \in Cards |-> None]]
    /\ \E k \in Packages : free = {k} /\ unpublished = Packages \ {k}
    /\ mail = {} /\ shared = {}
    /\ manifest = [g \in Guests |-> IF g \in members THEN 1 ELSE 0]
    /\ joined = [g \in Guests |-> g \in members]
    /\ enrollment = [g \in Guests |-> IF g \in members THEN [token |-> None, phase |-> Complete]
                                      ELSE NoEnrollment]
    /\ op = [g \in Guests |-> [c \in Cards |-> NoOp]]
    /\ sent = [g \in Guests |-> [c \in Cards |-> "none"]] /\ old = {}
    /\ doing = [g \in Guests |-> Idle]
    /\ out = [c \in Cards |-> NoInvitation]
    /\ hellos = {}
    /\ request = [h \in Groups |-> "none"]
    /\ contacts = {}
    /\ tending = Resting
    /\ built = [g \in Guests |-> [c \in Cards |-> 0]]
    /\ taken = [g \in Guests |-> [c \in Cards |-> 0]]
    /\ faults = 0
-----------------------------------------------------------------------------
(* The relay's store: each operator is one transaction.                     *)

\* RedeemInvite consumes a use unless this redemption is already recorded.
Redeemable(g, t) == uses[t] > 0 /\ (t \in Cards => age[t] = 0)

\* Mutant: the redemption is recorded and the use is not consumed.
RedeemInviteKeeps(g, t) ==
    /\ redeemed' = redeemed \cup {<<t, g>>}
    /\ UNCHANGED <<uses, issued, claimant>>

RedeemInvite(g, t) ==
    /\ uses' = [uses EXCEPT ![t] = @ - 1]
    /\ redeemed' = redeemed \cup {<<t, g>>}
    /\ issued' = [c \in Cards |-> IF c = t THEN "used" ELSE issued[c]]
    /\ claimant' = [c \in Cards |-> IF c = t THEN g ELSE claimant[c]]

Recorded(g, t) == <<t, g>> \in redeemed

\* scanInvitation: a pending row past its time reads as expired.
Record(c) == IF issued[c] = "pending" /\ age[c] > 0 THEN "expired" ELSE issued[c]
Known(c) == issued[c] \notin {"none", "pruned"}

\* IssueInvitation: the same request key returns the row it made; a key past
\* its seven days makes none.
Issuable(c) == Known(c) \/ (issued[c] = "none" /\ age[c] = 0)

IssueInvitation(c) ==
    IF Known(c) THEN UNCHANGED <<uses, issued>>
    ELSE /\ uses' = [uses EXCEPT ![c] = 1]
         /\ issued' = [issued EXCEPT ![c] = "pending"]

\* ClaimKeyPackageOnce: the receipt answers a repeat, an old key gets nothing.
Claimable(g, c) == receipt[g][c] # None \/ (<<g, c>> \notin old /\ free # {})

\* Mutant: every claim takes a package, and the receipt keeps the last.
ClaimKeyPackageEach(g, c) ==
    \E k \in free :
        /\ free' = free \ {k}
        /\ receipt' = [receipt EXCEPT ![g][c] = k]
        /\ taken' = [taken EXCEPT ![g][c] = @ + 1]
        /\ doing' = [doing EXCEPT ![g].step = "claimed", ![g].package = k]

ClaimKeyPackageOnce(g, c) ==
    IF receipt[g][c] # None
    THEN doing' = [doing EXCEPT ![g].step = "claimed", ![g].package = receipt[g][c]]
         /\ UNCHANGED <<receipt, free, taken>>
    ELSE \E k \in free :
             /\ free' = free \ {k}
             /\ receipt' = [receipt EXCEPT ![g][c] = k]
             /\ taken' = [taken EXCEPT ![g][c] = @ + 1]
             /\ doing' = [doing EXCEPT ![g].step = "claimed", ![g].package = k]

\* Time passes, and the sweep drops what its retention no longer keeps.
Age(c) ==
    /\ out[c].state # "none" /\ age[c] < MaxAge
    /\ age' = [age EXCEPT ![c] = @ + 1]
    /\ UNCHANGED <<uses, issued, claimant, redeemed, members, equipped, supply, mail, profile, guest, owner, history, faults, shared>>

AgeKey(g, c) ==
    /\ op[g][c].key /\ <<g, c>> \notin old
    /\ old' = old \cup {<<g, c>>}
    /\ UNCHANGED <<admission, supply, mail, profile, op, sent, doing, owner, history, faults, shared>>

SweepInvitationHistory ==
    /\ \/ /\ \E c \in Cards : age[c] = 2 /\ Known(c)
             /\ issued' = [issued EXCEPT ![c] = "pruned"]
             /\ uses' = [uses EXCEPT ![c] = 0]
          /\ UNCHANGED receipt
       \/ /\ \E x \in old : receipt[x[1]][x[2]] # None
             /\ receipt' = [receipt EXCEPT ![x[1]][x[2]] = None]
          /\ UNCHANGED <<uses, issued>>
    /\ UNCHANGED <<claimant, age, redeemed, members, equipped, free, unpublished, mail, profile, guest, owner, history, faults, shared>>

\* Someone else claims a package of the owner device.
ClaimKeyPackage ==
    /\ \E k \in free : free' = free \ {k}
    /\ UNCHANGED <<receipt, unpublished, admission, mail, profile, guest, owner, history, faults, shared>>
-----------------------------------------------------------------------------
(* A guest: accepting an invitation, enrolling on the way if it has to.     *)

Fault == faults < MaxFaults /\ faults' = faults + 1
At(g, s) == doing[g].step = s
Go(g, s) == doing' = [doing EXCEPT ![g].step = s]
Stop(g) == doing' = [doing EXCEPT ![g] = Idle]

Unfinished(g, c) == op[g][c].state \in {"accepting", "enrolled", "prepared"}
NeedsEnrollment(g) == ~joined[g] \/ enrollment[g].phase \in Redeeming..Endpoints

\* What a resumed operation turns to once its profile is enrolled.
NextStep(g, c) ==
    IF op[g][c].state = "accepting" THEN "accept"
    ELSE IF ~op[g][c].key THEN "key"
    ELSE IF op[g][c].group # None THEN "publish"
    ELSE IF op[g][c].package # None THEN "build" ELSE "claim"

\* One invitation at a time; the row is saved before anything is sent.
Accept(g, c) ==
    /\ At(g, "idle")
    /\ c \in shared
    /\ op[g][c].state \notin {"complete", "unavailable"}
    /\ \A d \in Cards \ {c} : ~Unfinished(g, d)
    /\ op' = [op EXCEPT ![g][c].state = IF @ = "none" THEN "accepting" ELSE @]
    /\ doing' = [doing EXCEPT ![g] = [token |-> c, package |-> None,
                    step |-> IF NeedsEnrollment(g) THEN "record"
                             ELSE IF op[g][c].state = "none" THEN "accept" ELSE NextStep(g, c)]]
    /\ UNCHANGED <<admission, supply, mail, profile, sent, old, owner, history, faults, shared>>

\* Enrolling with a token the host made, outside any invitation.
Enroll(g, t) ==
    /\ At(g, "idle")
    /\ doing' = [doing EXCEPT ![g] = [token |-> t, package |-> None, step |-> "record"]]
    /\ UNCHANGED <<admission, supply, mail, profile, op, sent, old, owner, history, faults, shared>>

\* Mutant: the row says the redemption is done before it was asked for.
RecordEnrollmentEarly(g) ==
    /\ At(g, "record")
    /\ manifest' = [manifest EXCEPT ![g] = 1]
    /\ enrollment' = [enrollment EXCEPT ![g] = [token |-> doing[g].token, phase |-> Redeemed]]
    /\ Go(g, "redeem")
    /\ UNCHANGED <<admission, supply, mail, joined, op, sent, old, owner, history, faults, shared>>

\* The device and its first manifest are made once.  One enrolment per
\* profile: another token is refused and changes nothing else.
RecordEnrollment(g) ==
    /\ At(g, "record")
    /\ manifest' = [manifest EXCEPT ![g] = IF @ = 0 THEN 1 ELSE @]
    /\ LET t == doing[g].token IN
       IF enrollment[g].phase = 0
       THEN /\ enrollment' = [enrollment EXCEPT ![g] = [token |-> t, phase |-> Redeeming]]
            /\ Go(g, "redeem")
       ELSE /\ IF enrollment[g].token = t THEN Go(g, "redeem") ELSE Stop(g)
            /\ UNCHANGED enrollment
    /\ UNCHANGED <<admission, supply, mail, joined, op, sent, old, owner, history, faults, shared>>

\* The relay reads the manifest before it looks for a recorded redemption.
Redeem(g) ==
    /\ At(g, "redeem")
    /\ LET t == doing[g].token IN
       IF manifest[g] # 1 THEN Stop(g) /\ UNCHANGED <<uses, redeemed, issued, claimant, members>>
       ELSE IF Recorded(g, t) THEN Go(g, "redeemed") /\ UNCHANGED <<uses, redeemed, issued, claimant, members>>
       ELSE IF ~Redeemable(g, t) THEN Go(g, "gone") /\ UNCHANGED <<uses, redeemed, issued, claimant, members>>
       ELSE IF g \in members THEN Stop(g) /\ UNCHANGED <<uses, redeemed, issued, claimant, members>>
       ELSE /\ RedeemInvite(g, t)
            /\ members' = members \cup {g}
            /\ Go(g, "redeemed")
    /\ UNCHANGED <<age, equipped, supply, mail, profile, op, sent, old, owner, history, faults, shared>>

\* Only a redemption the relay refused for good releases the profile.
Rejected(g) ==
    /\ At(g, "gone")
    /\ LET t == doing[g].token IN
       IF t \in Cards /\ enrollment[g] = [token |-> t, phase |-> Redeeming] /\ ~joined[g]
       THEN /\ enrollment' = [enrollment EXCEPT ![g] = NoEnrollment]
            /\ op' = [op EXCEPT ![g][t].state = "unavailable"]
       ELSE UNCHANGED <<enrollment, op>>
    /\ Stop(g)
    /\ UNCHANGED <<admission, supply, mail, manifest, joined, sent, old, owner, history, faults, shared>>

Advance(g, phase) ==
    enrollment' = [enrollment EXCEPT ![g].phase = IF @ >= phase THEN @ ELSE phase]

RecordRedeemed(g) ==
    /\ At(g, "redeemed")
    /\ Advance(g, Redeemed)
    /\ Go(g, "endpoints")
    /\ UNCHANGED <<admission, supply, mail, manifest, joined, op, sent, old, owner, history, faults, shared>>

StoreEndpoints(g) ==
    /\ At(g, "endpoints")
    /\ joined' = [joined EXCEPT ![g] = TRUE]
    /\ Advance(g, Endpoints)
    /\ Go(g, "finish")
    /\ UNCHANGED <<admission, supply, mail, manifest, op, sent, old, owner, history, faults, shared>>

\* The mailbox and the first key packages; both requests are kept and repeated
\* as they were (module Linking has their steps).
FinishEnrollment(g) ==
    /\ At(g, "finish")
    /\ equipped' = equipped \cup {g}
    /\ Go(g, "finished")
    /\ UNCHANGED <<uses, issued, claimant, age, redeemed, members, supply, mail, profile, op, sent, old, owner, history, faults, shared>>

CompleteEnrollment(g) ==
    /\ At(g, "finished")
    /\ Advance(g, Complete)
    /\ IF doing[g].token \in Cards THEN Go(g, NextStep(g, doing[g].token)) ELSE Stop(g)
    /\ UNCHANGED <<admission, supply, mail, manifest, joined, op, sent, old, owner, history, faults, shared>>

\* AcceptInvitation: a member spends the use, or is answered from the record.
AcceptInvitation(g) ==
    /\ At(g, "accept")
    /\ LET c == doing[g].token IN
       CASE issued[c] = "used" /\ Recorded(g, c) ->
                Go(g, "accepted") /\ UNCHANGED <<uses, redeemed, issued, claimant>>
         [] Record(c) = "pending" ->
                RedeemInvite(g, c) /\ Go(g, "accepted")
         [] OTHER -> Go(g, "refused") /\ UNCHANGED <<uses, redeemed, issued, claimant>>
    /\ UNCHANGED <<age, members, equipped, supply, mail, profile, op, sent, old, owner, history, faults, shared>>

SaveAnswer(g) ==
    /\ LET c == doing[g].token IN
       \/ /\ At(g, "accepted")
          /\ op' = [op EXCEPT ![g][c].state = "enrolled"]
          /\ Go(g, "key")
       \/ /\ At(g, "refused")
          /\ op' = [op EXCEPT ![g][c].state = "unavailable"]
          /\ Stop(g)
    /\ UNCHANGED <<admission, supply, mail, profile, sent, old, owner, history, faults, shared>>

DrawClaimKey(g) ==
    /\ At(g, "key")
    /\ op' = [op EXCEPT ![g][doing[g].token].key = TRUE]
    /\ Go(g, "claim")
    /\ UNCHANGED <<admission, supply, mail, profile, sent, old, owner, history, faults, shared>>

ClaimOnce(g) ==
    /\ At(g, "claim")
    /\ IF Claimable(g, doing[g].token) THEN ClaimKeyPackageOnce(g, doing[g].token)
       ELSE Stop(g) /\ UNCHANGED <<receipt, free, taken>>
    /\ UNCHANGED <<admission, unpublished, mail, profile, op, sent, old, owner, built, faults, shared>>

SaveClaim(g) ==
    /\ At(g, "claimed")
    /\ op' = [op EXCEPT ![g][doing[g].token].package = doing[g].package]
    /\ Go(g, "build")
    /\ UNCHANGED <<admission, supply, mail, profile, sent, old, owner, history, faults, shared>>

\* The group, the conversation, the outbox and the row commit together.
BuildGroup(g) ==
    /\ At(g, "build")
    /\ LET c == doing[g].token IN
       /\ built' = [built EXCEPT ![g][c] = @ + 1]
       /\ op' = [op EXCEPT ![g][c].group = <<g, c, built'[g][c]>>, ![g][c].state = "prepared"]
       /\ sent' = [sent EXCEPT ![g][c] = "sealed"]
    /\ Go(g, "publish")
    /\ UNCHANGED <<admission, supply, mail, profile, old, owner, taken, faults, shared>>

\* publish_pending: the welcome, the roster and the hello, in order, unless
\* they were accepted or refused before; a repeat of what the relay accepted
\* stores nothing (module Delivery).  A mailbox that is gone refuses for good.
PublishIntroduction(g) ==
    /\ At(g, "publish")
    /\ LET c == doing[g].token
           h == op[g][c].group
           put == IF request[h] = "none" THEN mail \cup {h} ELSE mail
       IN \/ /\ sent[g][c] # "sealed"
             /\ Go(g, "published")
             /\ UNCHANGED <<mail, sent, faults>>
          \/ /\ sent[g][c] = "sealed"
             /\ mail' = put /\ sent' = [sent EXCEPT ![g][c] = "accepted"]
             /\ Go(g, "published")
             /\ UNCHANGED faults
          \/ /\ sent[g][c] = "sealed" /\ Fault
             /\ mail' = put /\ Stop(g)
             /\ UNCHANGED sent
          \/ /\ sent[g][c] = "sealed"
             /\ sent' = [sent EXCEPT ![g][c] = "refused"]
             /\ Go(g, "published")
             /\ UNCHANGED <<mail, faults>>
    /\ UNCHANGED <<admission, supply, profile, op, old, owner, history, shared>>

\* The introduction passes the expiry the relay gave it, read or not.
Lapse(g, c) ==
    /\ sent[g][c] = "accepted"
    /\ sent' = [sent EXCEPT ![g][c] = "lapsed"]
    /\ mail' = mail \ {op[g][c].group}
    /\ UNCHANGED <<admission, supply, profile, op, old, doing, owner, history, faults, shared>>

\* notification_counts: nothing of it is pending, refused or past its time.
CompleteOperation(g) ==
    /\ At(g, "published")
    /\ LET c == doing[g].token IN
       IF sent[g][c] = "accepted"
       THEN op' = [op EXCEPT ![g][c].state = "complete", ![g][c].package = None]
       ELSE UNCHANGED op
    /\ Stop(g)
    /\ UNCHANGED <<admission, supply, mail, profile, sent, old, owner, history, faults, shared>>

\* A client that was given the link introduces itself without having spent it.
Forward(g, c) ==
    /\ c \in shared /\ g \in members
    /\ request[<<g, c, 0>>] = "none"
    /\ mail' = mail \cup {<<g, c, 0>>}
    /\ UNCHANGED <<admission, supply, profile, guest, owner, history, faults, shared>>

\* A request or its reply is lost, or the process dies.
GuestStops(g) ==
    /\ ~At(g, "idle")
    /\ Fault
    /\ Stop(g)
    /\ UNCHANGED <<admission, supply, mail, profile, op, sent, old, owner, history, shared>>

\* device_authorize asks for an enrolled realm, not for a complete enrolment.
LinkDevice(g) ==
    /\ joined[g] /\ manifest[g] = 1
    /\ manifest' = [manifest EXCEPT ![g] = 2]
    /\ UNCHANGED <<admission, supply, mail, enrollment, joined, guest, owner, history, faults, shared>>
-----------------------------------------------------------------------------
(* The owner device: issuing, revoking, listing and settling.               *)

Free == tending.step = "idle"
\* A command keeps in memory the row it read, or saved, when it began.
Tend(s, c, h, o) == tending' = [step |-> s, card |-> c, record |-> "none", hello |-> h, row |-> o]

\* apply_record
ApplyRecord(o, r) ==
    [o EXCEPT !.state = IF o.state = "revoke-pending" /\ r = "pending" THEN "revoke-pending"
                        ELSE IF r = "used" /\ o.group # None THEN "connected" ELSE r]

\* A new invitation is drawn only when none is waiting for the relay.
Create(c) ==
    /\ Free
    /\ \/ /\ out[c].state = "none" /\ issued[c] = "none" /\ age[c] = 0
          /\ \A d \in Cards : out[d].state # "issuing"
          /\ out' = [out EXCEPT ![c] = [state |-> "issuing", secret |-> TRUE, group |-> None]]
       \/ out[c].state = "issuing" /\ UNCHANGED out
    /\ Tend("create", c, None, out'[c])
    /\ UNCHANGED <<admission, supply, mail, profile, guest, hellos, request, contacts, history, faults, shared>>

SendCreate ==
    /\ tending.step = "create"
    /\ LET c == tending.card IN
       IF Issuable(c)
       THEN /\ IssueInvitation(c)
            /\ tending' = [tending EXCEPT !.step = "reply", !.record = IF Known(c) THEN Record(c) ELSE "pending"]
       ELSE tending' = Resting /\ UNCHANGED <<uses, issued>>
    /\ UNCHANGED <<claimant, age, redeemed, members, equipped, supply, mail, profile, guest, out, hellos, request, contacts, history, faults, shared>>

\* The person's wish is saved before the relay is asked.
Revoke(c) ==
    /\ Free
    /\ out[c].state # "none" /\ out[c].group = None
    /\ out' = [out EXCEPT ![c].state = "revoke-pending"]
    /\ Tend("resolve", c, None, out'[c])
    /\ UNCHANGED <<admission, supply, mail, profile, guest, hellos, request, contacts, history, faults, shared>>

\* An invitation whose creation may never have arrived is created first; one
\* the relay will not create any more is revoked.
ResolveCreate ==
    /\ tending.step = "resolve"
    /\ LET c == tending.card IN
       IF Issuable(c)
       THEN /\ IssueInvitation(c)
            /\ tending' = [tending EXCEPT !.step = "revoke"]
            /\ UNCHANGED out
       ELSE /\ out' = [out EXCEPT ![c] = [tending.row EXCEPT !.state = "revoked", !.secret = FALSE]]
            /\ tending' = Resting
            /\ UNCHANGED <<uses, issued>>
    /\ UNCHANGED <<claimant, age, redeemed, members, equipped, supply, mail, profile, guest, hellos, request, contacts, history, faults, shared>>

\* RevokeInvitation; a used one is read back instead.
SendRevoke ==
    /\ tending.step = "revoke"
    /\ LET c == tending.card IN
       IF issued[c] = "pruned" THEN tending' = Resting /\ UNCHANGED <<uses, issued>>
       ELSE IF issued[c] = "used"
       THEN tending' = [tending EXCEPT !.step = "reply", !.record = "used"] /\ UNCHANGED <<uses, issued>>
       ELSE /\ uses' = [uses EXCEPT ![c] = 0]
            /\ issued' = [issued EXCEPT ![c] = "revoked"]
            /\ tending' = [tending EXCEPT !.step = "reply", !.record = "revoked"]
    /\ UNCHANGED <<claimant, age, redeemed, members, equipped, supply, mail, profile, guest, out, hellos, request, contacts, history, faults, shared>>

SaveReply ==
    /\ tending.step = "reply"
    /\ LET c == tending.card
           o == ApplyRecord(tending.row, tending.record)
       IN  out' = [out EXCEPT ![c] = [o EXCEPT !.secret = @ /\ o.state # "revoked"]]
    /\ tending' = Resting
    /\ UNCHANGED <<admission, supply, mail, profile, guest, hellos, request, contacts, history, faults, shared>>

\* list: every row the relay knows, then the local rows past their retention.
\* Without asking the relay it excludes nothing, and cleans up all the same.
Kept(o, c) == IF age[c] = 2 /\ o.state # "none" THEN NoInvitation ELSE o

List(refresh) ==
    /\ refresh => Free
    /\ out' = [c \in Cards |->
                 Kept(IF refresh /\ Known(c) THEN ApplyRecord(out[c], Record(c)) ELSE out[c], c)]
    /\ hellos' = {h \in hellos : age[h[2]] < 2}
    /\ UNCHANGED <<admission, supply, mail, profile, guest, request, contacts, tending, history, faults, shared>>

\* The link is shown only while the invitation is known to be pending.
Share(c) ==
    /\ out[c].state = "pending" /\ c \notin shared
    /\ shared' = shared \cup {c}
    /\ UNCHANGED <<admission, supply, mail, profile, guest, owner, history, faults>>

\* key_packages::maintain, in issue and in sync.
Replenish ==
    /\ Free /\ free = {}
    /\ \E k \in unpublished : free' = {k} /\ unpublished' = unpublished \ {k}
    /\ UNCHANGED <<receipt, admission, mail, profile, guest, owner, history, faults, shared>>

\* A sync reads the welcome, the roster and the hello of a new conversation.
Receive(h) ==
    /\ Free
    /\ h \in mail
    /\ mail' = mail \ {h}
    /\ request' = [request EXCEPT ![h] = IF h[1] \in contacts THEN "joined" ELSE "pending"]
    /\ hellos' = IF out[h[2]].secret /\ out[h[2]].state # "revoked" THEN hellos \cup {h} ELSE hellos
    /\ UNCHANGED <<admission, supply, profile, guest, out, contacts, tending, history, faults, shared>>

\* Mutant: the invitation was used, and the settlement does not ask by whom.
SettleAskAnyone(h) ==
    /\ Free
    /\ h \in hellos
    /\ LET c == h[2] IN
       /\ out[c].state \notin {"none", "revoked", "revoke-pending"}
       /\ out[c].group \in {None, h}
       /\ \/ /\ ~Known(c) \/ (issued[c] = "used" /\ request[h] = "declined")
             /\ hellos' = hellos \ {h}
             /\ UNCHANGED tending
          \/ /\ issued[c] = "used" /\ request[h] # "declined"
             /\ Tend("bind", c, h, out[c])
             /\ UNCHANGED hellos
    /\ UNCHANGED <<admission, supply, mail, profile, guest, out, request, contacts, history, faults, shared>>

\* settle asks the relay who used the invitation, and then whether the
\* person declined.
SettleAsk(h) ==
    /\ Free
    /\ h \in hellos
    /\ LET c == h[2] IN
       /\ out[c].state \notin {"none", "revoked", "revoke-pending"}
       /\ out[c].group \in {None, h}
       /\ \/ /\ ~Known(c) \/ (issued[c] = "used" /\ claimant[c] = h[1] /\ request[h] = "declined")
             /\ hellos' = hellos \ {h}
             /\ UNCHANGED tending
          \/ /\ issued[c] = "used" /\ claimant[c] = h[1] /\ request[h] # "declined"
             /\ Tend("bind", c, h, out[c])
             /\ UNCHANGED hellos
    /\ UNCHANGED <<admission, supply, mail, profile, guest, out, request, contacts, history, faults, shared>>

\* The sender's credential is bound to its leaf; then everything is saved at
\* once.
SettleBind ==
    /\ tending.step = "bind"
    /\ LET h == tending.hello IN
       /\ out' = [out EXCEPT ![h[2]] = [tending.row EXCEPT !.state = "connected", !.group = h]]
       /\ contacts' = contacts \cup {h[1]}
       /\ request' = [request EXCEPT ![h] = "joined"]
       /\ hellos' = hellos \ {h}
    /\ tending' = Resting
    /\ UNCHANGED <<admission, supply, mail, profile, guest, history, faults, shared>>

\* The person answers a conversation request, whatever else is running.
AnswerRequest(h, accept) ==
    /\ request[h] = "pending"
    /\ request' = [request EXCEPT ![h] = IF accept THEN "joined" ELSE "declined"]
    /\ contacts' = IF accept THEN contacts \cup {h[1]} ELSE contacts
    /\ UNCHANGED <<admission, supply, mail, profile, guest, out, hellos, tending, history, faults, shared>>

OwnerStops ==
    /\ ~Free
    /\ Fault
    /\ tending' = Resting
    /\ UNCHANGED <<admission, supply, mail, profile, guest, out, hellos, request, contacts, history, shared>>
-----------------------------------------------------------------------------
GuestStep(g) ==
    \/ RecordEnrollment(g) \/ Redeem(g) \/ Rejected(g)
    \/ RecordRedeemed(g) \/ StoreEndpoints(g)
    \/ FinishEnrollment(g) \/ CompleteEnrollment(g)
    \/ AcceptInvitation(g) \/ SaveAnswer(g)
    \/ DrawClaimKey(g) \/ ClaimOnce(g) \/ SaveClaim(g) \/ BuildGroup(g)
    \/ PublishIntroduction(g) \/ CompleteOperation(g)

OwnerStep == SendCreate \/ ResolveCreate \/ SendRevoke \/ SaveReply \/ SettleBind

Next ==
    \/ \E g \in Guests :
          \/ \E c \in Cards : Accept(g, c) \/ AgeKey(g, c) \/ Lapse(g, c) \/ Forward(g, c)
          \/ \E t \in Hosted : Enroll(g, t)
          \/ GuestStep(g) \/ GuestStops(g) \/ LinkDevice(g)
    \/ \E c \in Cards : Create(c) \/ Share(c) \/ Revoke(c) \/ Age(c)
    \/ \E refresh \in BOOLEAN : List(refresh)
    \/ \E h \in Groups : \/ Receive(h) \/ SettleAsk(h)
                         \/ \E accept \in BOOLEAN : AnswerRequest(h, accept)
    \/ OwnerStep \/ OwnerStops
    \/ Replenish \/ ClaimKeyPackage \/ SweepInvitationHistory

Spec == Init /\ [][Next]_vars
-----------------------------------------------------------------------------
\* An invitation is used once, whichever of the two ways it is spent and
\* however often a lost reply is asked for again (RedeemInvite, AcceptInvitation).
SpentOnce ==
    /\ \A c \in Cards : Cardinality({g \in Guests : Recorded(g, c)}) <= 1
    /\ \A t \in Hosted : Cardinality({g \in Guests : Recorded(g, t)}) = HostUses - uses[t]

\* What a guest recorded of its enrolment and of its invitation, the relay has:
\* the membership, the mailbox and the first key packages, the use it records
\* (advance, finish_enrollment, accept).
AdmittedTruthful ==
    \A g \in Guests :
        /\ enrollment[g].phase >= Redeemed => g \in members
        /\ enrollment[g].phase = Complete => g \in equipped
        /\ \A c \in Cards : op[g][c].state \in {"enrolled", "prepared", "complete"} => Recorded(g, c)

\* One accepted invitation takes one key package of the owner and starts one
\* conversation, and is complete only once the relay took the introduction,
\* which then waits for the owner, was read, or has passed its time
\* (start_with_operation, notification_counts).
IntroducedOnce ==
    \A g \in Guests, c \in Cards :
        /\ built[g][c] <= 1 /\ taken[g][c] <= 1
        /\ op[g][c].state = "complete" => sent[g][c] \in {"accepted", "lapsed"}
        /\ sent[g][c] = "accepted" =>
               op[g][c].group \in mail \/ request[op[g][c].group] # "none"

\* The owner device connects an invitation only with the guest the relay
\* recorded, whoever else the link reached, and an invitation it has revoked
\* was used by nobody (settle, revoke).
ConnectedWithClaimant ==
    \A c \in Cards :
        /\ out[c].group # None => Recorded(out[c].group[1], c) /\ out[c].group[1] \in contacts
        /\ out[c].state = "revoked" /\ age[c] < 2 => \A g \in Guests : ~Recorded(g, c)
=============================================================================
