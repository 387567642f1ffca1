------------------------------- MODULE Recovery -------------------------------
(***************************************************************************)
(* Losing every device and coming back with the identity kit (arveil-app   *)
(* recovery.rs and devices.rs, arveil-core client.rs and identity/mod.rs,  *)
(* relay store/store.go and server/session.go), on a relay whose operator  *)
(* may restore an older snapshot (cmd/arveil-relay/backup.go).             *)
(* A profile that holds the root signs manifests; each one carries the     *)
(* hash of the one before, so it is modelled as the sequence of bodies     *)
(* that leads to it.  A kit is such a manifest with the root that signed   *)
(* it.  A clean profile restored from a kit signs one more manifest that   *)
(* revokes all the kit lists, and asks the relay to take it.  Nothing says *)
(* that the devices called lost are off: they may still sign and publish,  *)
(* over a session opened before they were revoked too.                     *)
(***************************************************************************)
EXTENDS Integers, Sequences, SequencesExt

CONSTANTS Profiles,   \* profiles that hold, or come to hold, the root
          Old,        \* the profile that enrolled the identity
          Linked,     \* devices to link: each one's credential is signed once
          None,
          MaxSeq,     \* bound: manifest sequence
          MaxRestores \* bound: restores of the relay's snapshot

Credentials == Profiles \cup Linked

ASSUME RecoveryAssumption == /\ Old \in Profiles
                             /\ Profiles \cap Linked = {}
                             /\ None \notin Credentials
                             /\ MaxSeq \in Nat \ {0}
                             /\ MaxRestores \in Nat

VARIABLES stored,     \* the newest manifest the relay holds
          status,     \* status[c]: the credential at the relay
          receipts,   \* receipts[p]: the recovery the relay recorded for p
          snapshot,   \* the operator's copy of the relay, None if there is none
          restores,
          registering,\* credentials credentialPut has checked and not yet inserted
          late,       \* history: those inserted when the newest manifest revoked them
          members,    \* profiles with an open session the relay took for a member's
          \* each profile
          manifest,   \* manifest[p]: the newest manifest it accepted
          rows,       \* rows[p]: the linked devices in its identity_devices
          linking,    \* linking[p]: the authorization it is publishing, in memory
          journal,    \* journal[p][x]: the row of device_revocations for x
          recovery,   \* recovery[p]: the row of identity_recovery
          exported,   \* exported[p]: sequence of the kit handed out, not confirmed
          saved,      \* saved[p]: sequence of the kit the person confirmed
          kits,       \* the kits handed out, wherever the person keeps them
          behind      \* behind[p]: history: the relay knew less than p's kit
                      \* when it accepted p

relay == <<stored, status, receipts>>
operator == <<snapshot, restores>>
inserts == <<registering, late>>
signing == <<manifest, rows, linking, journal>>
keeping == <<exported, saved, kits>>
vars == <<relay, operator, inserts, members, signing, recovery, keeping, behind>>

Body == [active : SUBSET Credentials, revoked : SUBSET Credentials]
Listed(m) == IF m = <<>> THEN {} ELSE Last(m).active \cup Last(m).revoked

Init ==
    LET first == <<[active |-> {Old}, revoked |-> {}]>> IN
    /\ stored = first
    /\ status = [c \in Credentials |-> IF c = Old THEN "active" ELSE "none"]
    /\ receipts = [p \in Profiles |-> None]
    /\ snapshot = None /\ restores = 0
    /\ registering = {} /\ late = {}
    /\ members = {}
    /\ manifest = [p \in Profiles |-> IF p = Old THEN first ELSE <<>>]
    /\ rows = [p \in Profiles |-> {}]
    /\ linking = [p \in Profiles |-> None]
    /\ journal = [p \in Profiles |-> [x \in Linked |-> "none"]]
    /\ recovery = [p \in Profiles |-> None]
    /\ exported = [p \in Profiles |-> 0] /\ saved = [p \in Profiles |-> 0]
    /\ kits = {}
    /\ behind = [p \in Profiles |-> FALSE]

\* enrolled(): other operations wait for an unfinished recovery.
Enrolled(p) == manifest[p] # <<>> /\ (recovery[p] # None => recovery[p].complete)

\* accept_manifest: no rollback, no fork at the known sequence or right after
\* it; a longer jump is taken as it comes.
Accepts(m, known) ==
    \/ known = <<>>
    \/ m = known
    \/ Len(m) > Len(known) /\ (Len(m) = Len(known) + 1 => Front(m) = known)

\* issue_manifest: one more body on top of what the profile knows.
Issue(p, active, revoked) ==
    /\ Len(manifest[p]) < MaxSeq
    /\ manifest' = [manifest EXCEPT ![p] =
                       Append(@, [active |-> active, revoked |-> revoked])]

\* A request may be served and its reply lost: the connection is gone, with
\* what the process held in memory, as after a crash.
Drop(p) ==
    /\ members' = members \ {p}
    /\ linking' = [linking EXCEPT ![p] = None]
-----------------------------------------------------------------------------
(* Sessions.  authorize() refuses a revoked credential and gives a member   *)
(* session to an active one; it is not looked at again.  A recovery's first *)
(* request goes over a provisional session, which keeps nothing.            *)

Connect(p) ==
    /\ p \notin members /\ status[p] = "active"
    /\ members' = members \cup {p}
    /\ UNCHANGED <<relay, operator, inserts, signing, recovery, keeping, behind>>

Disconnect(p) ==
    /\ p \in members
    /\ Drop(p)
    /\ UNCHANGED <<relay, operator, inserts, manifest, rows, journal, recovery, keeping, behind>>
-----------------------------------------------------------------------------
(* Manifests of a profile that is not recovering.                          *)

\* device_authorize, over a connection opened before or after it signs.
Authorize(p, x) ==
    /\ Enrolled(p) /\ linking[p] = None
    /\ \A q \in Profiles : x \notin rows[q]
    /\ Issue(p, Last(manifest[p]).active \cup {x}, Last(manifest[p]).revoked)
    /\ rows' = [rows EXCEPT ![p] = @ \cup {x}]
    /\ linking' = [linking EXCEPT ![p] = [device |-> x, manifest |-> manifest'[p], put |-> FALSE]]
    /\ UNCHANGED <<relay, operator, inserts, members, journal, recovery, keeping, behind>>

\* Mutant: the manifest is stored and its revocations are not applied.
PublishManifestOnly(m) ==
    /\ Len(m) > Len(stored) \/ m = stored
    /\ stored' = m
    /\ UNCHANGED <<status, receipts>>

\* PublishManifest in its transaction: the newest sequence wins, the same
\* manifest may come again, and what it revokes is revoked.
PublishManifest(m) ==
    /\ Len(m) > Len(stored) \/ m = stored
    /\ stored' = m
    /\ status' = [c \in Credentials |->
                     IF c \in Last(m).revoked /\ status[c] = "active" THEN "revoked" ELSE status[c]]
    /\ UNCHANGED receipts
Refused(m) == ~ (Len(m) > Len(stored) \/ m = stored) /\ UNCHANGED relay

\* publish_authorization, first request.  A refusal ends the operation.
PutManifest(p) ==
    /\ p \in members
    /\ linking[p] # None /\ ~linking[p].put
    /\ \/ /\ PublishManifest(linking[p].manifest)
          /\ \/ linking' = [linking EXCEPT ![p].put = TRUE] /\ UNCHANGED members
             \/ Drop(p)
       \/ /\ Refused(linking[p].manifest)
          /\ linking' = [linking EXCEPT ![p] = None]
          /\ UNCHANGED members
    /\ UNCHANGED <<operator, inserts, manifest, rows, journal, recovery, keeping, behind>>

\* Its second request, credentialPut.  The credential must be active in the
\* newest manifest; nothing of that is locked while it is inserted, and whether
\* the client still waits for the answer makes no difference.
CheckCredential(p) ==
    /\ p \in members
    /\ linking[p] # None /\ linking[p].put
    /\ registering' = registering \cup ({linking[p].device} \cap Last(stored).active)
    /\ linking' = [linking EXCEPT ![p] = None]
    /\ UNCHANGED <<relay, operator, late, members, manifest, rows, journal, recovery, keeping, behind>>

\* PutCredential, a transaction of its own: a row that exists is a conflict.
PutCredential(x) ==
    /\ x \in registering
    /\ registering' = registering \ {x}
    /\ status' = IF status[x] = "none" THEN [status EXCEPT ![x] = "active"] ELSE status
    /\ late' = late \cup ({x} \cap Last(stored).revoked)
    /\ UNCHANGED <<stored, receipts, operator, members, signing, recovery, keeping, behind>>

\* device_revoke: a device revoked already is not revoked by another manifest,
\* and a row of the journal that exists is left as it is.
Revoke(p, x) ==
    /\ Enrolled(p) /\ x \in rows[p]
    /\ LET m == Last(manifest[p]) IN
       IF x \in m.revoked THEN UNCHANGED manifest
       ELSE Issue(p, m.active \ {x}, m.revoked \cup {x})
    /\ journal' = [journal EXCEPT ![p][x] = IF @ = "none" THEN "pending" ELSE @]
    /\ UNCHANGED <<relay, operator, inserts, members, rows, linking, recovery, keeping, behind>>

\* devices::publish: the newest manifest this profile knows, at once or later.
PublishRevocations(p) ==
    /\ Enrolled(p) /\ p \in members
    /\ \E x \in Linked : journal[p][x] = "pending"
    /\ PublishManifest(manifest[p])
    /\ \/ /\ journal' = [journal EXCEPT ![p] =
                          [x \in Linked |-> IF @[x] = "pending" THEN "published" ELSE @[x]]]
          /\ UNCHANGED <<members, linking>>
       \/ Drop(p) /\ UNCHANGED journal
    /\ UNCHANGED <<operator, inserts, manifest, rows, recovery, keeping, behind>>

\* refresh_manifests, this identity's own: what cannot be accepted is reported.
Refresh(p) ==
    /\ Enrolled(p) /\ p \in members
    /\ Accepts(stored, manifest[p])
    /\ manifest' = [manifest EXCEPT ![p] = stored]
    /\ UNCHANGED <<relay, operator, inserts, members, rows, linking, journal, recovery, keeping, behind>>
-----------------------------------------------------------------------------
(* Kits.                                                                   *)

Export(p) ==
    /\ Enrolled(p)
    /\ kits' = kits \cup {manifest[p]}
    /\ exported' = [exported EXCEPT ![p] = Len(manifest[p])]
    /\ UNCHANGED <<relay, operator, inserts, members, signing, recovery, saved, behind>>

ConfirmSaved(p) ==
    /\ exported[p] # 0
    /\ saved' = [saved EXCEPT ![p] = exported[p]]
    /\ exported' = [exported EXCEPT ![p] = 0]
    /\ UNCHANGED <<relay, operator, inserts, members, signing, recovery, kits, behind>>

\* status(): what the ready screen says of the kit.
KitSaved(p) == saved[p] # 0
KitStale(p) == KitSaved(p) /\ saved[p] < Len(manifest[p])
-----------------------------------------------------------------------------
(* Recovery.                                                               *)

\* Mutant: only what the kit lists as revoked is revoked.
RestoreKeeping(p, kit) ==
    /\ manifest[p] = <<>>
    /\ Len(kit) < MaxSeq
    /\ manifest' = [manifest EXCEPT ![p] =
                       Append(kit, [active |-> {p}, revoked |-> Last(kit).revoked])]
    /\ recovery' = [recovery EXCEPT ![p] = [kit |-> kit, previous |-> None, complete |-> FALSE]]
    /\ UNCHANGED <<relay, operator, inserts, members, rows, linking, journal, keeping, behind>>

\* recovery_prepare: root, device, manifest and journal in one unit.
Restore(p, kit) ==
    /\ manifest[p] = <<>>
    /\ Len(kit) < MaxSeq
    /\ manifest' = [manifest EXCEPT ![p] =
                       Append(kit, [active |-> {p}, revoked |-> Listed(kit)])]
    /\ recovery' = [recovery EXCEPT ![p] = [kit |-> kit, previous |-> None, complete |-> FALSE]]
    /\ UNCHANGED <<relay, operator, inserts, members, rows, linking, journal, keeping, behind>>

Resumable(p) == recovery[p] # None /\ ~recovery[p].complete

\* RecoverIdentity in its transaction: a repeat of the recorded request under a
\* credential still active gets the recorded answer; anything else must be newer.
RecoverFresh(p) ==
    /\ receipts[p] = None /\ status[p] = "none"
    /\ Len(manifest[p]) > Len(stored)
    /\ stored' = manifest[p]
    /\ status' = [c \in Credentials |->
                     CASE c = p -> "active"
                       [] c # p /\ c \in Last(manifest[p]).revoked /\ status[c] # "none" -> "revoked"
                       [] OTHER -> status[c]]
    /\ receipts' = [receipts EXCEPT ![p] = [manifest |-> manifest[p], previous |-> Len(stored)]]
    /\ behind' = [behind EXCEPT ![p] = Len(stored) < Len(recovery[p].kit)]
\* Mutant: a repeat is answered with the sequence the relay holds by now.
RecoverAgainNewest(p) ==
    /\ receipts[p] # None
    /\ receipts[p].manifest = manifest[p] /\ status[p] = "active"
    /\ receipts' = [receipts EXCEPT ![p].previous = Len(stored)]
    /\ UNCHANGED <<stored, status, behind>>

RecoverAgain(p) ==
    /\ receipts[p] # None
    /\ receipts[p].manifest = manifest[p] /\ status[p] = "active"
    /\ UNCHANGED <<relay, behind>>

\* Mutant: a repeat has to be newer like any other request.
RecoverIdentityOnce(p) == RecoverFresh(p)

RecoverIdentity(p) == RecoverFresh(p) \/ RecoverAgain(p)

\* resume(), up to the relay's answer: kept once, it is not asked for again.
Recover(p) ==
    /\ Resumable(p) /\ recovery[p].previous = None
    /\ RecoverIdentity(p)
    /\ UNCHANGED <<operator, inserts, signing, keeping>>
RecoverReply(p) ==
    /\ Recover(p)
    /\ recovery' = [recovery EXCEPT ![p].previous = receipts'[p].previous]
    /\ members' = members \cup {p}
RecoverReplyLost(p) ==
    /\ Recover(p)
    /\ members' = members \ {p}
    /\ UNCHANGED recovery

\* resume(), the rest: the mailbox and the key packages need a member session.
FinishRecovery(p) ==
    /\ Resumable(p) /\ recovery[p].previous # None
    /\ p \in members
    /\ recovery' = [recovery EXCEPT ![p].complete = TRUE]
    /\ UNCHANGED <<relay, operator, inserts, members, signing, keeping, behind>>

\* RecoveryResult and status(): shown from then on, across restarts.
RollbackWarning(p) == recovery[p].previous < Len(recovery[p].kit)
-----------------------------------------------------------------------------
(* The operator.                                                           *)

Backup ==
    /\ snapshot = None /\ restores < MaxRestores
    /\ snapshot' = [stored |-> stored, status |-> status, receipts |-> receipts]
    /\ UNCHANGED <<relay, restores, inserts, members, signing, recovery, keeping, behind>>

RestoreSnapshot ==
    /\ snapshot # None /\ restores < MaxRestores
    /\ stored' = snapshot.stored
    /\ status' = snapshot.status
    /\ receipts' = snapshot.receipts
    /\ restores' = restores + 1
    /\ registering' = {}
    /\ members' = {}
    /\ linking' = [p \in Profiles |-> None]
    /\ UNCHANGED <<snapshot, late, manifest, rows, journal, recovery, keeping, behind>>
-----------------------------------------------------------------------------
Next ==
    \/ \E p \in Profiles :
          \/ Connect(p) \/ Disconnect(p)
          \/ PutManifest(p) \/ CheckCredential(p) \/ PublishRevocations(p) \/ Refresh(p)
          \/ Export(p) \/ ConfirmSaved(p)
          \/ RecoverReply(p) \/ RecoverReplyLost(p) \/ FinishRecovery(p)
          \/ \E x \in Linked : Authorize(p, x) \/ Revoke(p, x)
          \/ \E kit \in kits : Restore(p, kit)
    \/ \E x \in Linked : PutCredential(x)
    \/ Backup \/ RestoreSnapshot

Spec == Init /\ [][Next]_vars

\* The person resumes a recovery that is not complete until a reply gets
\* through and a connection lasts.
FairSpec ==
    /\ Spec
    /\ \A p \in Profiles :
          /\ SF_vars(RecoverReply(p))
          /\ SF_vars(FinishRecovery(p))
          /\ WF_vars(Resumable(p) /\ Connect(p))
-----------------------------------------------------------------------------
(* What the relay still lets in.                                           *)

Present == {c \in Credentials : status[c] = "active"}

\* Whatever the order of publications, recoveries, registrations and restores
\* of a snapshot, a credential that the newest manifest at the relay revokes can
\* open a session only if it was inserted after that revocation on the strength
\* of a check before it (PublishManifest, RecoverIdentity, credentialPut).
RevokedKeptOut == Last(stored).revoked \cap Present \subseteq late

\* Once the relay has accepted a recovery, none of the root's earlier holders
\* that the kit knew is let in, even if one of them keeps signing and
\* publishing over a session it had opened before (device_new_in_unit,
\* RecoverIdentity).
LostStayOut ==
    \A p \in Profiles : receipts[p] # None =>
        Listed(Front(receipts[p].manifest)) \cap Profiles \cap Present = {}

\* The warning of a relay rolled back is shown exactly when the relay knew
\* less than the kit at the moment it accepted the recovery, however often
\* the request was repeated after that (identity_recoveries, recovery_accepted).
WarningTruthful ==
    \A p \in Profiles : recovery[p] # None /\ recovery[p].previous # None =>
        (RollbackWarning(p) <=> behind[p])

\* A kit the ready screen calls saved and up to date is one the person was
\* handed for the very manifest this device has now, even if the devices
\* changed between the export and its confirmation (kit_confirm_saved, status).
KitTruthful ==
    \A p \in Profiles : KitSaved(p) /\ ~KitStale(p) => manifest[p] \in kits

\* What the screens say of the kit and of the relay is true, whatever was
\* repeated, lost or changed in between (status, RecoveryResult).
ScreenTruthful == WarningTruthful /\ KitTruthful

Superseded(p) == Len(stored) >= Len(manifest[p]) /\ stored # manifest[p]

\* A recovery that was begun completes through lost replies and broken
\* connections, unless the relay comes to hold another manifest at least as
\* new or the operator rolls the relay back (restore, resume, RecoverIdentity).
EventuallySettled ==
    \A p \in Profiles :
        recovery[p] # None ~> Enrolled(p) \/ Superseded(p) \/ restores > 0
=============================================================================
