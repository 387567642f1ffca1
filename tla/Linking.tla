------------------------------- MODULE Linking -------------------------------
(***************************************************************************)
(* Linking a device to an identity: the device that holds the root, the    *)
(* new device and the relay that carries their handshake (arveil-app       *)
(* onboarding.rs and onboarding/linking.rs, arveil-core client.rs, relay   *)
(* store/pairing.go and server/session.go).  A link runs over a rendezvous *)
(* with three write-once slots: by card the root device opens it and the   *)
(* new device speaks first, by code the other way round; a direct grant is *)
(* carried by hand.  The root device signs only when the person says yes,  *)
(* publishes the manifest and the credential, and only then seals the      *)
(* grant.  The new device keeps the grant, crosses a point after which it  *)
(* cannot be cancelled, and finishes in phases, each recorded once its     *)
(* effect is durable.  Every request may be lost, before or after the      *)
(* relay served it, and either process may die.                            *)
(***************************************************************************)
EXTENDS Integers, Sequences, FiniteSets

CONSTANTS Links,       \* the rendezvous, each opened once
          Direct,      \* a grant handed over outside any rendezvous
          Creds,       \* the credentials the root device may sign
          Keys,        \* mailbox request keys the new device may draw
          None,
          MaxFaults,   \* bound: lost requests and crashes
          MayRevoke    \* TRUE: the person may revoke the new device

Roads == Links \cup {Direct}
Answer == {"none", "declined"} \cup Creds

\* PairingCompletionPhase, 0 before a completion row exists.
Committing == 1
LocalApplied == 2
MailboxStored == 6
KeyPackagesPublished == 7
Complete == 8

ASSUME LinkingAssumption == /\ Direct \notin Links
                            /\ None \notin Roads \cup Creds \cup Keys
                            /\ Creds \cap {"none", "declined"} = {}
                            /\ IsFiniteSet(Creds) /\ IsFiniteSet(Keys)
                            /\ MaxFaults \in Nat
                            /\ MayRevoke \in BOOLEAN

VARIABLES opened,     \* rendezvous the relay opened
          card,       \* those of them opened by the root device
          expired,    \* those whose time is over
          slots,      \* slots[p]: which of "a" and "b" hold a handshake message
          sealed,     \* sealed[p]: the answer in slot "c"
          published,  \* the sequence of the manifest the relay holds
          registered, \* the credential registered for the new device's transport key
          status,     \* its state at the relay
          mailboxes,  \* request keys the relay made a mailbox for
          \* the root device
          pending,    \* pending[p]: None, "offered" or "requested", in memory
          withdrawn,  \* offers withdrawn while their wait was running, in memory
          asking,     \* asking[p]: where a wait for the other device stands
          answer,     \* answer[x]: where the person's yes or no stands
          signed,     \* signed[x]: the credential signed for x
          at,         \* at[x]: the sequence of the manifest signed with it
          chain,      \* manifest bodies signed so far
          row,        \* the new device's credential in identity_devices
          revoked,    \* its revocation: "no", "signed" or "published"
          \* the new device
          session,    \* session[p]: the pairing session's row
          grant,      \* grant[x]: the grant stored for x
          phase,      \* phase[x]: the completion phase of x
          joining,    \* joining[p]: where join_link or await_pairing stands
          scanned,    \* links whose card was read by the camera
          finishing,  \* what complete_device_link is working on
          applied,    \* the credential of this device
          did,        \* the last phase whose effect is durable
          request,    \* the stored mailbox request's key
          handed,     \* the direct grant the person carries
          cancelled,  \* links whose cancellation was confirmed
          faults

relay == <<opened, card, expired, slots, sealed>>
directory == <<published, registered, status>>
offers == <<pending, withdrawn, asking>>
root == <<answer, signed, at, chain, row, revoked>>
sessions == <<session, grant, joining, scanned, cancelled>>
finish == <<phase, finishing, applied, did, request, mailboxes>>
vars == <<relay, directory, offers, root, sessions, finish, handed, faults>>

Init ==
    /\ opened = {} /\ card = {} /\ expired = {}
    /\ slots = [p \in Links |-> {}]
    /\ sealed = [p \in Links |-> "none"]
    /\ published = 0 /\ registered = None /\ status = "none"
    /\ pending = [p \in Links |-> None] /\ withdrawn = {}
    /\ asking = [p \in Links |-> "idle"]
    /\ answer = [x \in Roads |-> "idle"]
    /\ signed = [x \in Roads |-> None]
    /\ at = [x \in Roads |-> 0]
    /\ chain = <<>> /\ row = None /\ revoked = "no"
    /\ session = [p \in Links |-> "none"]
    /\ grant = [x \in Roads |-> None]
    /\ joining = [p \in Links |-> "idle"] /\ scanned = {} /\ cancelled = {}
    /\ phase = [x \in Roads |-> 0]
    /\ finishing = None /\ applied = None /\ did = 0
    /\ request = None /\ mailboxes = {}
    /\ handed = None /\ faults = 0

Fault == faults < MaxFaults /\ faults' = faults + 1
-----------------------------------------------------------------------------
(* The root device and its rendezvous (offer_link, await_link_request,      *)
(* request_from_code).  Waits of one process exclude one another.           *)

NobodyAsking == \A p \in Links : asking[p] = "idle"

OfferLink(p) ==
    /\ p \notin opened
    /\ opened' = opened \cup {p}
    /\ card' = card \cup {p}
    /\ pending' = [pending EXCEPT ![p] = "offered"]
    /\ UNCHANGED <<expired, slots, sealed, directory, withdrawn, asking, root, sessions, finish, handed, faults>>

AwaitLinkRequest(p) ==
    /\ pending[p] = "offered"
    /\ NobodyAsking
    /\ pending' = [pending EXCEPT ![p] = None]
    /\ asking' = [asking EXCEPT ![p] = "waiting"]
    /\ UNCHANGED <<relay, directory, withdrawn, root, sessions, finish, handed, faults>>

\* The wait ends: put back while the rendezvous lives, gone with it, and gone
\* as well if the connection could not even be opened.
AwaitStops(p) ==
    /\ asking[p] = "waiting"
    /\ asking' = [asking EXCEPT ![p] = "idle"]
    /\ \/ p \in expired /\ UNCHANGED <<pending, faults>>
       \/ /\ p \notin expired /\ Fault
          /\ \/ pending' = [pending EXCEPT ![p] = "offered"]
             \/ UNCHANGED pending
    /\ UNCHANGED <<relay, directory, withdrawn, root, sessions, finish, handed>>

\* The new device has spoken: its message is answered in slot b.
AnswerHello(p) ==
    /\ asking[p] = "waiting"
    /\ p \notin expired
    /\ "a" \in slots[p]
    /\ \/ /\ slots' = [slots EXCEPT ![p] = @ \cup {"b"}]
          /\ asking' = [asking EXCEPT ![p] = "replied"]
          /\ UNCHANGED faults
       \/ /\ Fault
          /\ slots' = [slots EXCEPT ![p] = @ \cup {"b"}]
          /\ asking' = [asking EXCEPT ![p] = "idle"]
    /\ UNCHANGED <<opened, card, expired, sealed, directory, pending, withdrawn, root, sessions, finish, handed>>

\* An offer withdrawn meanwhile is refused at once; otherwise the connection
\* is closed, which yields to other commands, before the request is shown.
CheckWithdrawn(p) ==
    /\ asking[p] = "replied"
    /\ \/ /\ p \in withdrawn
          /\ withdrawn' = withdrawn \ {p}
          /\ asking' = [asking EXCEPT ![p] = "idle"]
          /\ \/ p \notin expired /\ sealed' = [sealed EXCEPT ![p] = "declined"] /\ UNCHANGED faults
             \/ p \in expired /\ UNCHANGED <<sealed, faults>>
             \/ Fault /\ UNCHANGED sealed
       \/ /\ p \notin withdrawn
          /\ asking' = [asking EXCEPT ![p] = "closing"]
          /\ UNCHANGED <<withdrawn, sealed, faults>>
    /\ UNCHANGED <<opened, card, expired, slots, directory, pending, root, sessions, finish, handed>>

\* The older flow: the root device speaks first to a code it was given.
ApproveCode(p) ==
    /\ p \in opened \ (card \cup expired)
    /\ NobodyAsking
    /\ "a" \notin slots[p]
    /\ slots' = [slots EXCEPT ![p] = {"a"}]
    /\ asking' = [asking EXCEPT ![p] = "listening"]
    /\ UNCHANGED <<opened, card, expired, sealed, directory, pending, withdrawn, root, sessions, finish, handed, faults>>

ListeningStops(p) ==
    /\ asking[p] = "listening"
    /\ asking' = [asking EXCEPT ![p] = "idle"]
    /\ \/ Fault
       \/ p \in expired /\ UNCHANGED faults
    /\ UNCHANGED <<relay, directory, pending, withdrawn, root, sessions, finish, handed>>

ShowRequest(p) ==
    /\ \/ asking[p] = "closing"
       \/ asking[p] = "listening" /\ "b" \in slots[p] /\ p \notin expired
    /\ pending' = [pending EXCEPT ![p] = "requested"]
    /\ asking' = [asking EXCEPT ![p] = "idle"]
    /\ UNCHANGED <<relay, directory, withdrawn, root, sessions, finish, handed, faults>>
-----------------------------------------------------------------------------
(* The person's answer (answer_link, authorize_link) and revocation.        *)

Body == IF chain = <<>> THEN [active |-> {}, revoked |-> {}] ELSE chain[Len(chain)]

\* Bound: the root device signs at most Creds credentials.
Unused == Creds \ (Body.active \cup Body.revoked)

\* A yes takes the request; a card that expired meanwhile is not signed.
AnswerYes(p) ==
    /\ pending[p] = "requested"
    /\ answer[p] = "idle"
    /\ pending' = [pending EXCEPT ![p] = None]
    /\ answer' = [answer EXCEPT ![p] = IF p \in card \cap expired THEN "idle" ELSE "signing"]
    /\ UNCHANGED <<relay, directory, withdrawn, asking, signed, at, chain, row, revoked, sessions, finish, handed, faults>>

\* A no to a request is told to a device that knows the refusal.  Otherwise
\* the offer is taken back, or remembered as withdrawn if it is not there.  The
\* request is gone as well if the refusal does not reach the relay.
\* The person says no where the offer or the request is on the screen.
AnswerNo(p) ==
    /\ pending[p] # None \/ asking[p] \in {"waiting", "replied", "closing"}
    /\ pending' = [pending EXCEPT ![p] = None]
    /\ withdrawn' = IF pending[p] = None THEN withdrawn \cup {p} ELSE withdrawn
    /\ \/ /\ pending[p] = "requested" /\ p \in card \ expired
          /\ \/ sealed' = [sealed EXCEPT ![p] = "declined"] /\ UNCHANGED faults
             \/ Fault /\ UNCHANGED sealed
       \/ /\ ~(pending[p] = "requested" /\ p \in card \ expired)
          /\ UNCHANGED <<sealed, faults>>
    /\ UNCHANGED <<opened, card, expired, slots, directory, asking, root, sessions, finish, handed>>

AuthorizeLink ==
    /\ answer[Direct] = "idle"
    /\ Unused # {}
    /\ answer' = [answer EXCEPT ![Direct] = "signing"]
    /\ UNCHANGED <<relay, directory, offers, signed, at, chain, row, revoked, sessions, finish, handed, faults>>

\* device_authorize: a new credential, and the next manifest that lists it.
DeviceAuthorize(x, c) ==
    /\ chain' = Append(chain, [active |-> Body.active \cup {c}, revoked |-> Body.revoked])
    /\ row' = c
    /\ signed' = [signed EXCEPT ![x] = c]
    /\ at' = [at EXCEPT ![x] = Len(chain) + 1]

\* A revoked device's id is not authorised again.
SignGrant(x) ==
    /\ answer[x] = "signing"
    /\ \/ /\ revoked = "no"
          /\ \E c \in Unused : DeviceAuthorize(x, c)
          /\ answer' = [answer EXCEPT ![x] = "publishing"]
          /\ UNCHANGED faults
       \/ /\ \/ revoked # "no" /\ UNCHANGED faults
             \/ Fault
          /\ answer' = [answer EXCEPT ![x] = "idle"]
          /\ UNCHANGED <<chain, row, signed, at>>
    /\ UNCHANGED <<relay, directory, offers, revoked, sessions, finish, handed>>

\* PublishManifest at the relay: never backwards, and its revocations with it.
PublishManifest(n) ==
    /\ n >= published
    /\ published' = n
    /\ status' = IF registered \in chain[n].revoked THEN "revoked" ELSE status
    /\ UNCHANGED registered

\* The manifest goes out; a reply that is lost ends the answer here.
PublishGrant(x) ==
    /\ answer[x] = "publishing"
    /\ \/ /\ PublishManifest(at[x])
          /\ \/ answer' = [answer EXCEPT ![x] = "registering"] /\ UNCHANGED faults
             \/ answer' = [answer EXCEPT ![x] = "idle"] /\ Fault
       \/ /\ UNCHANGED directory
          /\ answer' = [answer EXCEPT ![x] = "idle"]
          /\ \/ at[x] < published /\ UNCHANGED faults
             \/ Fault
    /\ UNCHANGED <<relay, offers, signed, at, chain, row, revoked, sessions, finish, handed>>

\* credentialPut looks at the newest manifest and then inserts, and a manifest
\* may land in between; insertCredential takes one credential per transport
\* key, and does not look at the manifest again.
Listed(c) == published > 0 /\ c \in chain[published].active

CheckCredential(x) ==
    /\ answer[x] = "registering"
    /\ \/ /\ Listed(signed[x])
          /\ answer' = [answer EXCEPT ![x] = "inserting"]
          /\ UNCHANGED faults
       \/ /\ answer' = [answer EXCEPT ![x] = "idle"]
          /\ \/ ~Listed(signed[x]) /\ UNCHANGED faults
             \/ Fault
    /\ UNCHANGED <<relay, directory, offers, signed, at, chain, row, revoked, sessions, finish, handed>>

\* The handler goes on when the one who asked is gone.
RegisterCredential(x) ==
    /\ answer[x] \in {"inserting", "orphaned"}
    /\ \/ /\ registered = None
          /\ registered' = signed[x]
          /\ status' = "active"
          /\ \/ answer[x] = "inserting" /\ answer' = [answer EXCEPT ![x] = "sealing"] /\ UNCHANGED faults
             \/ answer[x] = "orphaned" /\ answer' = [answer EXCEPT ![x] = "idle"] /\ UNCHANGED faults
             \/ answer' = [answer EXCEPT ![x] = "idle"] /\ Fault
       \/ /\ UNCHANGED <<registered, status>>
          /\ answer' = [answer EXCEPT ![x] = "idle"]
          /\ \/ registered # None /\ UNCHANGED faults
             \/ Fault
    /\ UNCHANGED <<relay, published, offers, signed, at, chain, row, revoked, sessions, finish, handed>>

\* The grant, in slot c or as text for the person to carry.
SealGrant(x) ==
    /\ answer[x] = "sealing"
    /\ answer' = [answer EXCEPT ![x] = "idle"]
    /\ \/ /\ x \in Links \ expired /\ sealed[x] = "none"
          /\ sealed' = [sealed EXCEPT ![x] = signed[x]]
          /\ UNCHANGED <<handed, faults>>
       \/ x = Direct /\ handed' = signed[x] /\ UNCHANGED <<sealed, faults>>
       \/ /\ UNCHANGED <<sealed, handed>>
          /\ \/ x \in Links /\ (x \in expired \/ sealed[x] # "none") /\ UNCHANGED faults
             \/ Fault
    /\ UNCHANGED <<opened, card, expired, slots, directory, offers, signed, at, chain, row, revoked, sessions, finish>>

\* device_revoke: the device's row names the credential that is revoked.
DeviceRevoke ==
    /\ MayRevoke
    /\ row # None /\ revoked = "no"
    /\ chain' = Append(chain, [active |-> Body.active \ {row}, revoked |-> Body.revoked \cup {row}])
    /\ revoked' = "signed"
    /\ UNCHANGED <<relay, directory, offers, answer, signed, at, row, sessions, finish, handed, faults>>

\* devices::publish sends the newest manifest until it is acknowledged.
PublishRevocation ==
    /\ revoked = "signed"
    /\ PublishManifest(Len(chain))
    /\ revoked' = "published"
    /\ UNCHANGED <<relay, offers, answer, signed, at, chain, row, sessions, finish, handed, faults>>

CrashRoot ==
    /\ Fault
    /\ pending' = [p \in Links |-> None]
    /\ withdrawn' = {}
    /\ asking' = [p \in Links |-> "idle"]
    /\ answer' = [x \in Roads |-> IF answer[x] \in {"inserting", "orphaned"} THEN "orphaned" ELSE "idle"]
    /\ UNCHANGED <<relay, directory, signed, at, chain, row, revoked, sessions, finish, handed>>
-----------------------------------------------------------------------------
(* The new device's sessions (join_link, begin_pairing, await_pairing,      *)
(* cancel_pairing).                                                         *)

\* link_completion is free, and so is the exclusion of waits.
Unlocked == finishing = None /\ \A p \in card : joining[p] = "idle"
NobodyWaiting == \A p \in Links \ card : joining[p] = "idle"

\* pending_device: only a device without a credential can be linked.
PendingDevice == applied = None

Stop(p) == joining' = [joining EXCEPT ![p] = "idle"]

\* pairing_session_clear, with its completion row.
Clear(p) == /\ session' = [session EXCEPT ![p] = "none"]
            /\ grant' = [grant EXCEPT ![p] = None]
            /\ phase' = [phase EXCEPT ![p] = 0]

\* The stored session is cleared, and one of p starts in its place unless the
\* relay cannot be reached in between.
StartSession(p) ==
    /\ grant' = [x \in Roads |-> IF x \in Links THEN None ELSE grant[x]]
    /\ phase' = [x \in Roads |-> IF x \in Links THEN 0 ELSE phase[x]]
    /\ \/ /\ session' = [q \in Links |-> IF q = p THEN "waiting" ELSE "none"]
          /\ cancelled' = cancelled \ {p}
          /\ UNCHANGED faults
       \/ /\ session' = [q \in Links |-> "none"]
          /\ Fault
          /\ UNCHANGED cancelled

JoinLink(p, byCamera) ==
    /\ p \in card \ expired
    /\ Unlocked
    /\ PendingDevice
    /\ \A q \in Links : phase[q] = 0 /\ (session[q] = "ready" => q \in expired)
    /\ StartSession(p)
    /\ joining' = [joining EXCEPT ![p] = IF session'[p] = "none" THEN @ ELSE "hello"]
    /\ scanned' = IF byCamera THEN scanned \cup {p} ELSE scanned \ {p}
    /\ UNCHANGED <<relay, directory, offers, root, finishing, applied, did, request, mailboxes, handed>>

BeginPairing(p) ==
    /\ p \notin opened
    /\ Unlocked
    /\ PendingDevice
    /\ \A q \in Links : phase[q] = 0 /\ (session[q] # "none" => q \in expired)
    /\ opened' = opened \cup {p}
    /\ StartSession(p)
    /\ UNCHANGED <<card, expired, slots, sealed, directory, offers, root, joining, scanned, finishing, applied, did, request, mailboxes, handed>>

AwaitPairing(p) ==
    /\ session[p] = "waiting" /\ p \in opened \ (card \cup expired)
    /\ NobodyWaiting
    /\ PendingDevice
    /\ joining' = [joining EXCEPT ![p] = "first"]
    /\ UNCHANGED <<relay, directory, offers, root, session, grant, scanned, cancelled, finish, handed, faults>>

\* join_link states its keys in slot a: refused, and the session cleared, if
\* somebody spoke before or the card expired.
PutHello(p) ==
    /\ joining[p] = "hello"
    /\ \/ /\ p \notin expired /\ "a" \notin slots[p]
          /\ slots' = [slots EXCEPT ![p] = {"a"}]
          /\ \/ joining' = [joining EXCEPT ![p] = "number"] /\ UNCHANGED faults
             \/ Stop(p) /\ Fault
          /\ UNCHANGED <<session, grant, phase>>
       \/ /\ p \in expired \/ "a" \in slots[p]
          /\ Clear(p)
          /\ Stop(p)
          /\ UNCHANGED <<slots, faults>>
    /\ UNCHANGED <<opened, card, expired, sealed, directory, offers, root, scanned, cancelled, finishing, applied, did, request, mailboxes, handed>>

\* await_pairing answers the root device's message in slot b.
PutReply(p) ==
    /\ joining[p] = "first"
    /\ p \notin expired /\ "a" \in slots[p]
    /\ \/ /\ "b" \notin slots[p]
          /\ slots' = [slots EXCEPT ![p] = @ \cup {"b"}]
          /\ \/ joining' = [joining EXCEPT ![p] = "answer"] /\ UNCHANGED faults
             \/ Stop(p) /\ Fault
       \/ "b" \in slots[p] /\ Stop(p) /\ UNCHANGED <<slots, faults>>
    /\ UNCHANGED <<opened, card, expired, sealed, directory, offers, root, session, grant, scanned, cancelled, finish, handed>>

ReadNumber(p) ==
    /\ joining[p] = "number"
    /\ p \notin expired /\ "b" \in slots[p]
    /\ joining' = [joining EXCEPT ![p] = "answer"]
    /\ UNCHANGED <<relay, directory, offers, root, session, grant, scanned, cancelled, finish, handed, faults>>

\* A poll finds the session cancelled, the rendezvous expired or the
\* connection lost.
WaitStops(p) ==
    /\ joining[p] \in {"first", "number", "answer"}
    /\ Stop(p)
    /\ \/ p \in expired /\ Clear(p) /\ UNCHANGED faults
       \/ /\ \/ session[p] = "none" /\ UNCHANGED faults
             \/ Fault
          /\ UNCHANGED <<session, grant, phase>>
    /\ UNCHANGED <<relay, directory, offers, root, scanned, cancelled, finishing, applied, did, request, mailboxes, handed>>

\* pairing_session_ready: the grant joins the row only if the row is there.
Ready(p, c) ==
    IF session[p] = "none" THEN UNCHANGED <<session, grant>>
    ELSE /\ session' = [session EXCEPT ![p] = "ready"]
         /\ grant' = [grant EXCEPT ![p] = c]

\* The answer in slot c.  A scanned card is confirmed in the same stretch.
ReadAnswer(p) ==
    /\ joining[p] = "answer"
    /\ p \notin expired
    /\ Stop(p)
    /\ \/ sealed[p] = "declined" /\ Clear(p) /\ UNCHANGED finishing
       \/ /\ sealed[p] \in Creds
          /\ Ready(p, sealed[p])
          /\ \/ /\ p \in card \cap scanned /\ session'[p] = "ready"
                /\ phase' = [phase EXCEPT ![p] = Committing]
                /\ finishing' = p
             \/ /\ ~(p \in card \cap scanned /\ session'[p] = "ready")
                /\ UNCHANGED <<phase, finishing>>
    /\ UNCHANGED <<relay, directory, offers, root, scanned, cancelled, applied, did, request, mailboxes, handed, faults>>

CancelPairing(p) ==
    /\ session[p] # "none"
    /\ phase[p] = 0
    /\ session' = [session EXCEPT ![p] = "none"]
    /\ grant' = [grant EXCEPT ![p] = None]
    /\ cancelled' = cancelled \cup {p}
    /\ UNCHANGED <<relay, directory, offers, root, joining, scanned, finish, handed, faults>>

\* pairing_completion_begin: the point of no return; a repeat resumes.
PairingCompletionBegin(p) == phase' = [phase EXCEPT ![p] = IF @ = 0 THEN Committing ELSE @]

\* Mutant: a committed completion expires with its rendezvous.
ConfirmExpires(p) ==
    /\ session[p] = "ready"
    /\ phase[p] < Complete
    /\ Unlocked
    /\ p \notin expired
    /\ PairingCompletionBegin(p)
    /\ finishing' = p
    /\ UNCHANGED <<relay, directory, offers, root, sessions, applied, did, request, mailboxes, handed, faults>>

\* confirm_pairing: an expired session that was not committed is cleared.
ConfirmPairing(p) ==
    /\ session[p] = "ready"
    /\ phase[p] < Complete
    /\ Unlocked
    /\ \/ /\ phase[p] > 0 \/ p \notin expired
          /\ PairingCompletionBegin(p)
          /\ finishing' = p
          /\ UNCHANGED <<session, grant>>
       \/ phase[p] = 0 /\ p \in expired /\ Clear(p) /\ UNCHANGED finishing
    /\ UNCHANGED <<relay, directory, offers, root, joining, scanned, cancelled, applied, did, request, mailboxes, handed, faults>>

\* link_completion_begin: only the very same grant resumes a stored completion.
LinkCompletionBegin(c) ==
    /\ grant[Direct] \in {None, c}
    /\ grant' = [grant EXCEPT ![Direct] = c]
    /\ phase' = [phase EXCEPT ![Direct] = IF @ = 0 THEN Committing ELSE @]

\* complete_link
CompleteLink ==
    /\ handed # None
    /\ Unlocked
    /\ phase[Direct] < Complete
    /\ LinkCompletionBegin(handed)
    /\ finishing' = Direct
    /\ UNCHANGED <<relay, directory, offers, root, session, joining, scanned, cancelled, applied, did, request, mailboxes, handed, faults>>
-----------------------------------------------------------------------------
(* complete_device_link: what is left to do, one durable effect and one     *)
(* advance at a time.                                                       *)

Working(x) == finishing = x /\ phase[x] \in Committing..(Complete - 1)

\* link_completion_abort_if_unapplied: a direct grant that failed is forgotten.
AbortIfUnapplied(x) ==
    IF x = Direct THEN /\ phase' = [phase EXCEPT ![x] = 0]
                       /\ grant' = [grant EXCEPT ![x] = None]
                  ELSE UNCHANGED <<phase, grant>>

\* device_link_complete_idempotent: the same grant may be applied again.
ApplyGrant(x) ==
    /\ Working(x) /\ phase[x] = Committing
    /\ did < LocalApplied \/ applied # grant[x]
    /\ \/ /\ applied = None
          /\ applied' = grant[x]
          /\ did' = LocalApplied
          /\ UNCHANGED <<phase, finishing, grant>>
       \/ /\ applied # None
          /\ finishing' = None
          /\ AbortIfUnapplied(x)
          /\ UNCHANGED <<applied, did>>
    /\ UNCHANGED <<relay, directory, offers, root, session, joining, scanned, cancelled, request, mailboxes, handed, faults>>

\* Realm, endpoint list, enrolled mark, key packages: writes that a repeat
\* makes again; the ones that ask the relay need a connection it accepts.
DoEffect(x) ==
    /\ Working(x)
    /\ phase[x] >= LocalApplied /\ did = phase[x] /\ did < KeyPackagesPublished
    /\ did + 1 # MailboxStored
    /\ did + 1 \in {4, KeyPackagesPublished} => status = "active"
    /\ did' = did + 1
    /\ UNCHANGED <<relay, directory, offers, root, sessions, phase, finishing, applied, request, mailboxes, handed, faults>>

\* mailbox_request: drawn once, stored before it is sent.
MailboxRequest(k) == IF request = None THEN k \in Keys \ mailboxes ELSE k = request

\* The relay answers a repeated key with the mailbox it made.
CreateMailbox(x) ==
    /\ Working(x)
    /\ phase[x] = MailboxStored - 1 /\ did = phase[x]
    /\ status = "active"
    /\ \E k \in Keys :
         /\ MailboxRequest(k)
         /\ request' = k
         /\ \/ /\ mailboxes' = mailboxes \cup {k}
               /\ \/ did' = MailboxStored /\ UNCHANGED <<finishing, faults>>
                  \/ finishing' = None /\ Fault /\ UNCHANGED did
            \/ /\ finishing' = None /\ Fault
               /\ UNCHANGED <<mailboxes, did>>
    /\ UNCHANGED <<relay, directory, offers, root, sessions, phase, applied, handed>>

\* Mutant: the phase is recorded before its effect is durable.
AdvanceTooFar(x) == did >= phase[x]

\* A phase is recorded once its effect is durable; the last one has none.
Advanceable(x) == did > phase[x] \/ phase[x] = KeyPackagesPublished

AdvanceCompletion(x) ==
    /\ Working(x)
    /\ phase[x] > Committing \/ applied = grant[x]
    /\ Advanceable(x)
    /\ phase' = [phase EXCEPT ![x] = @ + 1]
    /\ finishing' = IF phase[x] + 1 = Complete THEN None ELSE finishing
    /\ UNCHANGED <<relay, directory, offers, root, sessions, applied, did, request, mailboxes, handed, faults>>

\* The relay cannot be reached, or refuses a revoked device.
FinishStops ==
    /\ finishing # None
    /\ phase[finishing] >= 3
    /\ finishing' = None
    /\ \/ status # "active" /\ UNCHANGED faults
       \/ Fault
    /\ UNCHANGED <<relay, directory, offers, root, sessions, phase, applied, did, request, mailboxes, handed>>

CrashNew ==
    /\ Fault
    /\ joining' = [p \in Links |-> "idle"]
    /\ finishing' = None
    /\ UNCHANGED <<relay, directory, offers, root, session, grant, scanned, cancelled, phase, applied, did, request, mailboxes, handed>>

Expire(p) ==
    /\ p \in opened \ expired
    /\ expired' = expired \cup {p}
    /\ UNCHANGED <<opened, card, slots, sealed, directory, offers, root, sessions, finish, handed, faults>>
-----------------------------------------------------------------------------
RootSide(p) == \/ OfferLink(p) \/ AwaitLinkRequest(p) \/ AwaitStops(p) \/ AnswerHello(p)
               \/ CheckWithdrawn(p) \/ ApproveCode(p) \/ ListeningStops(p) \/ ShowRequest(p)
               \/ AnswerYes(p) \/ AnswerNo(p)

Sign(x) == SignGrant(x) \/ PublishGrant(x) \/ CheckCredential(x) \/ RegisterCredential(x) \/ SealGrant(x)

NewSide(p) == \/ \E byCamera \in BOOLEAN : JoinLink(p, byCamera)
              \/ BeginPairing(p) \/ AwaitPairing(p) \/ PutHello(p) \/ PutReply(p)
              \/ ReadNumber(p) \/ WaitStops(p) \/ ReadAnswer(p)
              \/ CancelPairing(p)

Finish(x) == ApplyGrant(x) \/ DoEffect(x) \/ CreateMailbox(x) \/ AdvanceCompletion(x)

Next == \/ \E p \in Links : RootSide(p) \/ NewSide(p) \/ ConfirmPairing(p) \/ Expire(p)
        \/ \E x \in Roads : Sign(x) \/ Finish(x)
        \/ AuthorizeLink \/ DeviceRevoke \/ PublishRevocation \/ CompleteLink
        \/ FinishStops \/ CrashRoot \/ CrashNew

Spec == Init /\ [][Next]_vars

\* A completion that was committed is retried, the link exclusion serves its
\* waiters in order, and the executor polls the command that holds it.
FairSpec == /\ Spec
            /\ \A x \in Roads : WF_vars(Finish(x))
            /\ \A p \in Links : SF_vars(phase[p] > 0 /\ ConfirmPairing(p))
            /\ \A p \in Links : WF_vars(PutHello(p)) /\ WF_vars(ReadNumber(p) \/ ReadAnswer(p) \/ WaitStops(p))
            /\ SF_vars(phase[Direct] > 0 /\ CompleteLink)
            /\ \A p \in Links : WF_vars(Expire(p))
-----------------------------------------------------------------------------
(* What the link promises.                                                  *)

\* A recorded phase never claims more than is durable on both sides, across
\* crashes, lost replies and a completion resumed by another command: the
\* credential it applied is the one granted and the one the relay registered,
\* however often the last phases were repeated there is one mailbox, and a link
\* whose cancellation was confirmed gives nothing, though the wait for its grant
\* was still running (complete_device_link, pairing_completion_advance,
\* pairing_session_ready, answer_link).
PhaseTruthful ==
    \A x \in Roads : phase[x] >= LocalApplied =>
        /\ x \notin cancelled
        /\ applied = grant[x] /\ registered = applied
        /\ phase[x] \in {KeyPackagesPublished, Complete} \/ did >= phase[x]
        /\ phase[x] >= MailboxStored => mailboxes = {request}
        /\ phase[x] = Complete => did = KeyPackagesPublished

\* A committed completion is finished, unless the device is revoked or already
\* holds another credential.
EventuallyLinked ==
    \A x \in Roads : phase[x] \in Committing..(Complete - 1) ~>
        \/ phase[x] = Complete \/ status = "revoked"
        \/ applied # None /\ applied # grant[x]

=============================================================================
