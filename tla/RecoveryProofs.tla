----------------------------- MODULE RecoveryProofs -----------------------------
(* Proofs about Recovery: for every number of profiles, linked devices, kits  *)
(* and manifests, and any restore of the relay's snapshot.                    *)
EXTENDS RecoveryInvariant, SequenceTheorems, TLAPS

USE RecoveryAssumption

-----------------------------------------------------------------------------
(* Manifests as sequences.                                                   *)

\* What one more body does to a manifest.
LEMMA OneMore ==
    ASSUME NEW m \in Seq(Body), NEW b \in Body
    PROVE  /\ Append(m, b) \in Manifests
           /\ Len(Append(m, b)) = Len(m) + 1
           /\ Last(Append(m, b)) = b
           /\ Front(Append(m, b)) = m
           /\ Listed(Append(m, b)) = b.active \cup b.revoked
  <1>1. /\ Append(m, b) \in Seq(Body) /\ Append(m, b) # <<>>
        /\ Len(Append(m, b)) = Len(m) + 1
        /\ Append(m, b)[Len(m) + 1] = b
        /\ \A i \in 1..Len(m) : Append(m, b)[i] = m[i]
    BY AppendProperties
  <1>2. Last(Append(m, b)) = b
    BY <1>1 DEF Last
  <1>3. Front(Append(m, b)) = m
    <2>1. Front(Append(m, b)) = SubSeq(Append(m, b), 1, Len(m))
      BY <1>1 DEF Front
    <2>2. /\ SubSeq(Append(m, b), 1, Len(m)) \in Seq(Body)
          /\ Len(SubSeq(Append(m, b), 1, Len(m))) = Len(m)
          /\ \A i \in 1..Len(m) : SubSeq(Append(m, b), 1, Len(m))[i] = m[i]
      BY <1>1
    <2> QED BY <2>1, <2>2, SeqEqual
  <1>4. Listed(Append(m, b)) = b.active \cup b.revoked
    BY <1>1, <1>2 DEF Listed
  <1> QED BY <1>1, <1>2, <1>3, <1>4 DEF Manifests

\* The newest body of a manifest is a body, and a manifest is longer than what
\* precedes it.
LEMMA Newest ==
    ASSUME NEW m \in Manifests
    PROVE  /\ m \in Seq(Body) /\ m # <<>>
           /\ Len(m) \in Nat \ {0}
           /\ Last(m) \in Body
           /\ Len(Front(m)) = Len(m) - 1
           /\ Listed(m) = Last(m).active \cup Last(m).revoked
           /\ Listed(m) \subseteq Credentials
  <1>1. m \in Seq(Body) /\ m # <<>> /\ Len(m) \in Nat \ {0}
    BY EmptySeq DEF Manifests
  <1>2. Last(m) \in Body
    BY <1>1 DEF Last
  <1>3. Len(Front(m)) = Len(m) - 1
    <2>1. \A i \in 1..(Len(m) - 1) : m[i] \in Body
      BY <1>1
    <2>2. Len(SubSeq(m, 1, Len(m) - 1)) = IF 1 <= Len(m) - 1 THEN (Len(m) - 1) - 1 + 1 ELSE 0
      BY <1>1, <2>1, SubSeqProperties
    <2>3. \A n \in Nat \ {0} : (IF 1 <= n - 1 THEN (n - 1) - 1 + 1 ELSE 0) = n - 1
      OBVIOUS
    <2>4. Front(m) = SubSeq(m, 1, Len(m) - 1)
      BY Zenon DEF Front
    <2> QED BY <1>1, <2>2, <2>3, <2>4, Zenon
  <1>4. Last(m).active \subseteq Credentials /\ Last(m).revoked \subseteq Credentials
    BY <1>2 DEF Body
  <1>5. Listed(m) = Last(m).active \cup Last(m).revoked
    BY <1>1 DEF Listed
  <1> QED BY <1>1, <1>2, <1>3, <1>4, <1>5

LEMMA Lengths == ASSUME NEW m \in Seq(Body) PROVE Len(m) \in Nat /\ (m # <<>> => Len(m) # 0)
  BY EmptySeq, LenProperties
-----------------------------------------------------------------------------
(* What the soundness of a manifest depends on.                              *)

\* A sound manifest stays sound while rows are only added, manifests are not
\* lost, and a recovery under way keeps its manifest; one that is begun starts
\* from a profile nobody lists.
LEMMA SoundKept ==
    ASSUME NEW m, Sound(m),
           \A q \in Profiles : rows[q] \subseteq rows'[q],
           \A q \in Profiles : manifest[q] # <<>> =>
               /\ manifest'[q] # <<>>
               /\ Resumable(q)' => Resumable(q) /\ manifest'[q] = manifest[q]
    PROVE  Sound(m)'
  BY DEF Sound, Listed

\* Nothing soundness depends on has changed.
LEMMA SoundUnchanged ==
    ASSUME UNCHANGED <<rows, manifest, recovery>>
    PROVE  \A m : Sound(m) => Sound(m)'
  BY DEF Sound, Listed, Resumable

\* The relay's tables, the profiles' and the person's kits as they were: so is
\* every part of the invariant that is about them.
LEMMA FrameRelay ==
    ASSUME RecoveryInv, UNCHANGED <<relay, snapshot, late, manifest, recovery, kits, behind>>
    PROVE  ReceiptsSound' /\ TablesInStep' /\ WarningTruthful' /\ RecoveringSound'
  BY DEF RecoveryInv, ReceiptsSound, ReceiptSound, TablesInStep, InStep, WarningTruthful,
         RollbackWarning, RecoveringSound, Resumable, relay

\* Every kit handed out and not yet replaced stays of this manifest or an
\* older one while the manifest only grows and no kit is lost.
LEMMA FrameKits ==
    ASSUME RecoveryInv, UNCHANGED <<exported, saved>>, kits \subseteq kits',
           \A p \in Profiles : /\ manifest'[p] \in Seq(Body)
                               /\ Len(manifest'[p]) > Len(manifest[p]) \/ manifest'[p] = manifest[p]
    PROVE  KitsSound'
  <1> SUFFICES ASSUME NEW p \in Profiles, NEW n \in Nat, KitOf(p, n)
               PROVE  KitOf(p, n)'
    BY DEF KitsSound, RecoveryInv, TypeOK
  <1>1. Len(manifest[p]) \in Nat /\ Len(manifest'[p]) \in Nat
    BY Lengths DEF RecoveryInv, TypeOK
  <1> QED BY <1>1 DEF KitOf

-----------------------------------------------------------------------------
(* The kinds of step.                                                        *)

\* A profile that is enrolled comes to know a manifest: one it signed, or the
\* relay's.
LEMMA ManifestStep ==
    ASSUME RecoveryInv, NEW p \in Profiles, Enrolled(p),
           NEW m \in Manifests, Sound(m)',
           manifest' = [manifest EXCEPT ![p] = m],
           Len(m) > Len(manifest[p]) \/ m = manifest[p],
           \A q \in Profiles : rows[q] \subseteq rows'[q],
           \A q \in Profiles : linking'[q] # None =>
               linking'[q] = linking[q] \/ linking'[q].manifest = m,
           UNCHANGED <<relay, snapshot, late, recovery, keeping, behind>>
    PROVE  /\ ManifestsSound' /\ RecoveringSound' /\ ReceiptsSound'
           /\ TablesInStep' /\ WarningTruthful' /\ KitsSound'
  <1> USE DEF relay, keeping
  <1>1. manifest \in [Profiles -> Seq(Body)] /\ m \in Seq(Body) /\ m # <<>>
    BY DEF RecoveryInv, TypeOK, Manifests
  <1>2. \A q \in Profiles : manifest[q] # <<>> =>
            /\ manifest'[q] # <<>>
            /\ Resumable(q)' => Resumable(q) /\ manifest'[q] = manifest[q]
    BY <1>1 DEF Enrolled, Resumable
  <1>3. \A k : Sound(k) => Sound(k)'
    BY <1>2, SoundKept
  <1>4. ManifestsSound'
    BY <1>1, <1>3 DEF RecoveryInv, ManifestsSound
  <1>5. RecoveringSound'
    BY <1>1 DEF RecoveryInv, RecoveringSound, Enrolled, Resumable
  <1>6. ReceiptsSound'
    BY <1>2 DEF RecoveryInv, ReceiptsSound, ReceiptSound
  <1>7. TablesInStep' /\ WarningTruthful'
    BY DEF RecoveryInv, TablesInStep, InStep, WarningTruthful, RollbackWarning
  <1>8. KitsSound'
    BY <1>1, FrameKits
  <1> QED BY <1>4, <1>5, <1>6, <1>7, <1>8

\* The relay takes a manifest: what it revokes is shut out in the same step,
\* and nobody is let in by it.
LEMMA PublishStep ==
    ASSUME RecoveryInv, NEW m \in Manifests, Sound(m), PublishManifest(m),
           \A q \in Profiles : linking'[q] # None =>
               linking[q] # None /\ linking'[q].manifest = linking[q].manifest,
           UNCHANGED <<snapshot, late, manifest, rows, recovery, keeping, behind>>
    PROVE  /\ ManifestsSound' /\ RecoveringSound' /\ ReceiptsSound'
           /\ TablesInStep' /\ WarningTruthful' /\ KitsSound'
  <1> USE DEF keeping
  <1>1. \A k : Sound(k) => Sound(k)'
    BY SoundUnchanged
  <1>2. ManifestsSound'
    BY <1>1 DEF RecoveryInv, ManifestsSound, PublishManifest
  <1>3. /\ Len(stored) \in Nat /\ Len(m) \in Nat /\ Len(stored') >= Len(stored)
        /\ \A c \in Credentials : status'[c] = "active" => status[c] = "active" /\ c \notin Last(m).revoked
    BY Newest DEF RecoveryInv, TypeOK, PublishManifest
  <1>4. ReceiptsSound'
    <2>1. ASSUME NEW p \in Profiles, receipts'[p] # None
          PROVE  ReceiptSound(p, receipts[p], stored, status)'
      <3>1. ReceiptSound(p, receipts[p], stored, status) /\ receipts' = receipts
        BY <2>1 DEF RecoveryInv, ReceiptsSound, PublishManifest
      <3>2. receipts[p].manifest \in Manifests
        BY <2>1, <3>1 DEF RecoveryInv, TypeOK, Receipts
      <3>3. Len(receipts[p].manifest) \in Nat
        BY <3>2, Newest
      <3>4. Len(stored') >= Len(receipts[p].manifest)
        BY <1>3, <3>1, <3>3 DEF ReceiptSound
      <3>5. \A q \in Profiles : q \in Listed(Front(receipts[p].manifest)) => status'[q] # "active"
        BY <1>3, <3>1 DEF ReceiptSound, Credentials
      <3> QED BY <3>1, <3>4, <3>5 DEF ReceiptSound
    <2> QED BY <2>1 DEF RecoveryInv, ReceiptsSound, ReceiptSound, PublishManifest
  <1>5. TablesInStep'
    <2>1. \A c \in Last(m).revoked : c \in Credentials
      BY Newest
    <2>2. InStep(stored', status')
      BY <1>3, <2>1 DEF InStep, PublishManifest
    <2> QED BY <2>2 DEF RecoveryInv, TablesInStep, InStep
  <1>6. RecoveringSound' /\ WarningTruthful'
    BY DEF RecoveryInv, RecoveringSound, Resumable, WarningTruthful, RollbackWarning
  <1>7. KitsSound'
    BY DEF RecoveryInv, KitsSound, KitOf
  <1> QED BY <1>2, <1>4, <1>5, <1>6, <1>7

\* A recovery waits with a manifest that lists its profile alone as active and
\* all its kit lists as revoked; the kit does not list the profile.
LEMMA Waiting ==
    ASSUME RecoveryInv, NEW p \in Profiles, Resumable(p)
    PROVE  LET kit == recovery[p].kit IN
           /\ kit \in kits /\ kit \in Manifests
           /\ manifest[p] \in Manifests
           /\ Len(manifest[p]) = Len(kit) + 1
           /\ Front(manifest[p]) = kit
           /\ Last(manifest[p]).active = {p}
           /\ Last(manifest[p]).revoked = Listed(kit)
           /\ p \notin Listed(kit)
  <1> DEFINE kit == recovery[p].kit
             body == [active |-> {p}, revoked |-> Listed(kit)]
  <1>1. kit \in kits /\ kit \in Manifests /\ manifest[p] = Append(kit, body)
    BY DEF RecoveryInv, RecoveringSound, TypeOK
  <1>2. kit \in Seq(Body) /\ Listed(kit) \subseteq Credentials /\ Len(kit) \in Nat
    BY <1>1, Newest
  <1>3. body \in Body
    BY <1>2 DEF Body, Credentials
  <1>4. /\ manifest[p] \in Manifests
        /\ Len(manifest[p]) = Len(kit) + 1
        /\ Front(manifest[p]) = kit
        /\ Last(manifest[p]) = body
    BY <1>1, <1>2, <1>3, OneMore
  <1>5. Sound(kit)
    BY <1>1 DEF RecoveryInv, ManifestsSound
  <1>6. p \notin Listed(kit)
    BY <1>2, <1>4, <1>5 DEF Sound
  <1>7. Last(manifest[p]).active = {p} /\ Last(manifest[p]).revoked = Listed(kit)
    BY <1>4
  <1> HIDE DEF body
  <1> QED BY <1>1, <1>4, <1>6, <1>7

\* The relay accepts a recovery for the first time: the profile comes in,
\* everyone its kit listed is out, and no profile that an earlier recovery shut
\* out comes in this way.
LEMMA FreshStep ==
    ASSUME RecoveryInv, NEW p \in Profiles, Resumable(p), RecoverFresh(p),
           \A q \in Profiles : recovery'[q].kit = recovery[q].kit,
           UNCHANGED <<snapshot, late, manifest, kits>>
    PROVE  /\ ReceiptsSound' /\ TablesInStep'
           /\ behind'[p] <=> receipts'[p].previous < Len(recovery[p].kit)
  <1> DEFINE kit == recovery[p].kit
  <1>1. /\ kit \in kits /\ kit \in Manifests /\ manifest[p] \in Manifests
        /\ Len(manifest[p]) = Len(kit) + 1 /\ Front(manifest[p]) = kit
        /\ Last(manifest[p]).revoked = Listed(kit) /\ p \notin Listed(kit)
    BY Waiting
  <1>2. /\ receipts' = [receipts EXCEPT ![p] = [manifest |-> manifest[p], previous |-> Len(stored)]]
        /\ receipts[p] = None /\ stored' = manifest[p]
        /\ Len(manifest[p]) > Len(stored)
        /\ behind' = [behind EXCEPT ![p] = Len(stored) < Len(kit)]
    BY DEF RecoverFresh
  <1>3. /\ Len(stored) \in Nat /\ Len(manifest[p]) \in Nat
        /\ receipts \in Receipts /\ behind \in [Profiles -> BOOLEAN]
        /\ status \in Statuses /\ Listed(kit) \subseteq Credentials
    BY <1>1, Newest DEF RecoveryInv, TypeOK
  <1>4. \A c \in Credentials : status'[c] = "active" => c = p \/ (status[c] = "active" /\ c \notin Listed(kit))
    BY <1>1 DEF RecoverFresh
  <1>5. behind'[p] <=> receipts'[p].previous < Len(kit)
    BY <1>2, <1>3 DEF Receipts
  <1>6. ReceiptsSound'
    <2>1. ReceiptSound(p, receipts[p], stored, status)'
      <3>1. receipts'[p].manifest = manifest[p]
        BY <1>2, <1>3 DEF Receipts
      <3>2. \A q \in Profiles : q \in Listed(kit) => status'[q] # "active"
        BY <1>1, <1>4 DEF Credentials
      <3> QED BY <1>1, <1>2, <1>3, <1>5, <3>1, <3>2, Newest DEF ReceiptSound
    <2>2. ASSUME NEW q \in Profiles, q # p, receipts'[q] # None
          PROVE  ReceiptSound(q, receipts[q], stored, status)'
      <3>1. receipts'[q] = receipts[q] /\ behind'[q] = behind[q]
        BY <1>2, <1>3, <2>2 DEF Receipts
      <3>2. ReceiptSound(q, receipts[q], stored, status)
        BY <2>2, <3>1 DEF RecoveryInv, ReceiptsSound
      <3> DEFINE m == receipts[q].manifest
      <3>3. m \in Manifests /\ Front(m) \in kits /\ Len(stored) >= Len(m)
        BY <2>2, <3>1, <3>2, <1>3 DEF Receipts, ReceiptSound
      <3>4. Len(m) \in Nat /\ Len(Front(m)) = Len(m) - 1
        BY <3>3, Newest
      <3>5. p \notin Listed(Front(m))
        <4>1. Sound(Front(m))
          BY <3>3 DEF RecoveryInv, ManifestsSound
        <4>2. p \in Listed(Front(m)) => Len(Front(m)) >= Len(manifest[p])
          BY <4>1 DEF Sound
        <4> QED BY <1>2, <1>3, <3>3, <3>4, <4>2
      <3>6. \A r \in Profiles : r \in Listed(Front(m)) => status'[r] # "active"
        BY <1>4, <3>2, <3>5 DEF ReceiptSound, Credentials
      <3>7. Len(stored') >= Len(m)
        BY <1>2, <1>3, <3>3, <3>4
      <3> QED BY <3>1, <3>2, <3>6, <3>7 DEF ReceiptSound
    <2>3. snapshot # None => \A q \in Profiles : snapshot.receipts[q] # None =>
              /\ q # p
              /\ ReceiptSound(q, snapshot.receipts[q], snapshot.stored, snapshot.status)
              /\ receipts[q] = snapshot.receipts[q]
      BY <1>2 DEF RecoveryInv, ReceiptsSound
    <2>4. snapshot # None => \A q \in Profiles : snapshot.receipts[q] # None =>
              /\ ReceiptSound(q, snapshot.receipts[q], snapshot.stored, snapshot.status)'
              /\ receipts'[q] = snapshot.receipts[q]
      BY <1>2, <1>3, <2>3 DEF ReceiptSound, Receipts
    <2> QED BY <2>1, <2>2, <2>4 DEF ReceiptsSound
  <1>7. TablesInStep'
    <2>1. \A c \in Last(stored').revoked : status'[c] # "active"
      BY <1>1, <1>2, <1>3, <1>4
    <2> QED BY <2>1 DEF RecoveryInv, TablesInStep, InStep
  <1> QED BY <1>5, <1>6, <1>7

\* Neither the relay nor the operator's copy is touched, and no manifest.
LEMMA KeepingStep ==
    ASSUME RecoveryInv, kits \subseteq kits',
           \A k \in kits' : Sound(k),
           UNCHANGED <<relay, snapshot, late, signing, recovery, behind>>
    PROVE  /\ ManifestsSound' /\ RecoveringSound' /\ ReceiptsSound'
           /\ TablesInStep' /\ WarningTruthful'
  <1> USE DEF relay, signing
  <1>1. \A k : Sound(k) => Sound(k)'
    BY SoundUnchanged
  <1>2. ManifestsSound'
    BY <1>1 DEF RecoveryInv, ManifestsSound
  <1>3. RecoveringSound'
    BY DEF RecoveryInv, RecoveringSound, Resumable
  <1>4. ReceiptsSound'
    BY DEF RecoveryInv, ReceiptsSound, ReceiptSound
  <1>5. TablesInStep' /\ WarningTruthful'
    BY DEF RecoveryInv, TablesInStep, InStep, WarningTruthful, RollbackWarning
  <1> QED BY <1>2, <1>3, <1>4, <1>5

\* A recovery's request is served, whether or not the reply arrives.
LEMMA RecoverStep ==
    ASSUME RecoveryInv, NEW p \in Profiles, RecoverReply(p) \/ RecoverReplyLost(p), TypeOK'
    PROVE  /\ ManifestsSound' /\ RecoveringSound' /\ ReceiptsSound'
           /\ TablesInStep' /\ WarningTruthful' /\ KitsSound'
  <1> USE DEF operator, inserts, signing, keeping
  <1>1. Recover(p) /\ Resumable(p) /\ recovery[p].previous = None
    BY DEF RecoverReply, RecoverReplyLost, Recover
  <1>2. UNCHANGED <<snapshot, late, manifest, rows, linking, exported, saved, kits>>
    BY <1>1 DEF Recover
  <1>3. recovery \in [Profiles -> {None} \cup [kit : Manifests, previous : Nat \cup {None},
                                               complete : BOOLEAN]]
    BY DEF RecoveryInv, TypeOK
  <1>4. \A q \in Profiles :
            \/ recovery'[q] = recovery[q]
            \/ /\ q = p /\ recovery[p] # None
               /\ recovery'[p].kit = recovery[p].kit
               /\ recovery'[p].complete = recovery[p].complete
               /\ recovery'[p].previous = receipts'[p].previous
    BY <1>1, <1>3 DEF RecoverReply, RecoverReplyLost, Resumable
  <1>5. \A q \in Profiles : /\ recovery'[q].kit = recovery[q].kit
                            /\ Resumable(q)' => Resumable(q)
    BY <1>4 DEF Resumable
  <1>6. /\ ReceiptsSound' /\ TablesInStep'
        /\ behind'[p] <=> receipts'[p].previous < Len(recovery[p].kit)
        /\ \A q \in Profiles \ {p} : behind'[q] = behind[q]
        /\ stored' \in {stored, manifest[p]}
    <2>1. CASE RecoverFresh(p)
      BY <1>1, <1>2, <1>5, <2>1, FreshStep DEF RecoverFresh, RecoveryInv, TypeOK
    <2>2. CASE RecoverAgain(p)
      BY <1>2, <1>5, <2>2 DEF RecoverAgain, relay, RecoveryInv, ReceiptsSound, ReceiptSound,
                              TablesInStep, InStep
    <2> QED BY <1>1, <2>1, <2>2 DEF Recover, RecoverIdentity
  <1>7. \A k : Sound(k) => Sound(k)'
    BY <1>2, <1>5, SoundKept
  <1>8. ManifestsSound'
    <2>1. Sound(stored) /\ Sound(manifest[p])
      BY <1>1, Waiting, Newest DEF RecoveryInv, ManifestsSound
    <2> QED BY <1>2, <1>6, <1>7, <2>1 DEF RecoveryInv, ManifestsSound
  <1>9. RecoveringSound'
    BY <1>2, <1>5 DEF RecoveryInv, RecoveringSound
  <1>10. WarningTruthful'
    BY <1>1, <1>4, <1>6 DEF RecoveryInv, WarningTruthful, RollbackWarning
  <1>11. KitsSound'
    BY <1>2 DEF RecoveryInv, KitsSound, KitOf
  <1> QED BY <1>6, <1>8, <1>9, <1>10, <1>11

\* A clean profile is restored from a kit: nobody lists it yet, and the one
\* body it signs keeps all that is listed.
LEMMA RestoreStep ==
    ASSUME RecoveryInv, NEW p \in Profiles, NEW kit \in kits, Restore(p, kit)
    PROVE  /\ ManifestsSound' /\ RecoveringSound' /\ ReceiptsSound'
           /\ TablesInStep' /\ WarningTruthful' /\ KitsSound'
  <1> USE DEF relay, operator, inserts, keeping
  <1> DEFINE body == [active |-> {p}, revoked |-> Listed(kit)]
             m == Append(kit, body)
  <1>1. /\ manifest[p] = <<>> /\ manifest' = [manifest EXCEPT ![p] = m]
        /\ recovery' = [recovery EXCEPT ![p] = [kit |-> kit, previous |-> None, complete |-> FALSE]]
        /\ UNCHANGED <<relay, snapshot, late, rows, linking, exported, saved, kits, behind>>
    BY DEF Restore
  <1>2. /\ kit \in Manifests /\ kit \in Seq(Body) /\ Len(kit) \in Nat /\ Listed(kit) \subseteq Credentials
        /\ Listed(kit) = Last(kit).active \cup Last(kit).revoked
        /\ Sound(kit)
        /\ manifest \in [Profiles -> Seq(Body)]
        /\ recovery \in [Profiles -> {None} \cup [kit : Manifests, previous : Nat \cup {None},
                                                  complete : BOOLEAN]]
    BY Newest DEF RecoveryInv, TypeOK, ManifestsSound
  <1>3. body \in Body
    BY <1>2 DEF Body, Credentials
  <1>4. /\ m \in Manifests /\ Len(m) = Len(kit) + 1 /\ Last(m) = body
        /\ Listed(m) = {p} \cup Listed(kit)
    BY <1>2, <1>3, OneMore
  <1>5. manifest'[p] = m /\ \A q \in Profiles \ {p} : manifest'[q] = manifest[q] /\ recovery'[q] = recovery[q]
    BY <1>1, <1>2
  <1>6. \A q \in Profiles : manifest[q] # <<>> =>
            /\ manifest'[q] # <<>>
            /\ Resumable(q)' => Resumable(q) /\ manifest'[q] = manifest[q]
    BY <1>1, <1>5 DEF Resumable
  <1>7. \A k : Sound(k) => Sound(k)'
    BY <1>1, <1>6, SoundKept
  <1>8. Sound(m)'
    <2>1. p \notin Listed(kit)
      BY <1>1, <1>2 DEF Sound
    <2>2. Last(m).active \cap Last(m).revoked = {}
      BY <1>4, <2>1
    <2>3. \A x \in Linked \cap Listed(m) : x \in Listed(kit)
      BY <1>4
    <2>4. \A q \in Profiles \cap Listed(m) : manifest'[q] # <<>> /\ (Resumable(q)' => Len(m) >= Len(manifest'[q]))
      <3>1. SUFFICES ASSUME NEW q \in Profiles, q \in Listed(kit), q # p
                     PROVE  manifest'[q] # <<>> /\ (Resumable(q)' => Len(m) >= Len(manifest'[q]))
        BY <1>4, <1>5, Newest
      <3>2. manifest'[q] # <<>> /\ (Resumable(q)' => Len(kit) >= Len(manifest'[q]))
        BY <1>2, <1>5, <3>1 DEF Sound, Resumable
      <3>3. Len(manifest'[q]) \in Nat
        BY <1>2, <1>5, <3>1, Lengths
      <3> QED BY <1>2, <1>4, <3>2, <3>3
    <2> HIDE DEF m
    <2> QED BY <1>1, <1>2, <2>2, <2>3, <2>4 DEF Sound
  <1> HIDE DEF m, body
  <1>9. ManifestsSound'
    BY <1>1, <1>5, <1>7, <1>8 DEF RecoveryInv, ManifestsSound
  <1>10. RecoveringSound'
    BY <1>1, <1>2, <1>5 DEF RecoveryInv, RecoveringSound, Resumable, m, body
  <1>11. ReceiptsSound'
    BY <1>1, <1>5, <1>6 DEF RecoveryInv, ReceiptsSound, ReceiptSound
  <1>12. TablesInStep'
    BY <1>1 DEF RecoveryInv, TablesInStep, InStep
  <1>13. WarningTruthful'
    BY <1>1, <1>2, <1>5 DEF RecoveryInv, WarningTruthful, RollbackWarning
  <1>14. KitsSound'
    <2>1. \A q \in Profiles : /\ manifest'[q] \in Seq(Body)
                              /\ Len(manifest'[q]) > Len(manifest[q]) \/ manifest'[q] = manifest[q]
      BY <1>1, <1>2, <1>4, <1>5, Newest, EmptySeq
    <2> QED BY <1>1, <2>1, FrameKits
  <1> QED BY <1>9, <1>10, <1>11, <1>12, <1>13, <1>14

\* A linked device's credential is inserted: it is no profile's, and if the
\* newest manifest revokes it, it is late.
LEMMA CredentialStep ==
    ASSUME RecoveryInv, NEW x \in Linked, PutCredential(x)
    PROVE  /\ ManifestsSound' /\ RecoveringSound' /\ ReceiptsSound'
           /\ TablesInStep' /\ WarningTruthful' /\ KitsSound'
  <1> USE DEF operator, signing, keeping
  <1>1. /\ UNCHANGED <<stored, receipts, snapshot, manifest, rows, linking, recovery, exported, saved, kits,
                       behind>>
        /\ late' = late \cup ({x} \cap Last(stored).revoked)
    BY DEF PutCredential
  <1>2. status \in Statuses
    BY DEF RecoveryInv, TypeOK
  <1>3. \A c \in Credentials : status'[c] = "active" => status[c] = "active" \/ c = x
    BY <1>2 DEF PutCredential, Statuses, Credentials
  <1>4. \A q \in Profiles : status'[q] = "active" => status[q] = "active"
    BY <1>3 DEF Credentials
  <1>5. ManifestsSound'
    BY <1>1, SoundUnchanged DEF RecoveryInv, TypeOK, ManifestsSound
  <1>6. ReceiptsSound'
    BY <1>1, <1>4 DEF RecoveryInv, ReceiptsSound, ReceiptSound
  <1>7. TablesInStep'
    <2>1. \A c \in Last(stored).revoked : c \in Credentials
      BY Newest DEF RecoveryInv, TypeOK
    <2>2. \A c \in Last(stored').revoked : status'[c] = "active" => c \in late'
      BY <1>1, <1>3, <2>1 DEF RecoveryInv, TablesInStep, InStep
    <2>3. snapshot' # None =>
              \A c \in Last(snapshot'.stored).revoked : snapshot'.status[c] = "active" => c \in late'
      BY <1>1 DEF RecoveryInv, TablesInStep, InStep
    <2> QED BY <2>2, <2>3 DEF TablesInStep, InStep
  <1>8. RecoveringSound' /\ WarningTruthful' /\ KitsSound'
    BY <1>1 DEF RecoveryInv, RecoveringSound, Resumable, WarningTruthful, RollbackWarning, KitsSound, KitOf
  <1> QED BY <1>5, <1>6, <1>7, <1>8

\* The operator takes a copy of the relay, and brings it back.
LEMMA OperatorStep ==
    ASSUME RecoveryInv, Backup \/ RestoreSnapshot
    PROVE  /\ ManifestsSound' /\ RecoveringSound' /\ ReceiptsSound'
           /\ TablesInStep' /\ WarningTruthful' /\ KitsSound'
  <1> USE DEF relay, signing, keeping
  <1>1. UNCHANGED <<late, manifest, rows, recovery, exported, saved, kits, behind>>
    BY DEF Backup, RestoreSnapshot, inserts
  <1>2. \A k : Sound(k) => Sound(k)'
    BY <1>1, SoundUnchanged
  <1>3. RecoveringSound' /\ WarningTruthful' /\ KitsSound'
    BY <1>1 DEF RecoveryInv, RecoveringSound, Resumable, WarningTruthful, RollbackWarning, KitsSound, KitOf
  <1>4. ManifestsSound' /\ ReceiptsSound' /\ TablesInStep'
    <2>1. CASE Backup
      <3>1. UNCHANGED <<stored, status, receipts, linking>> /\ snapshot = None
        BY <2>1 DEF Backup
      <3>2. snapshot'.stored = stored /\ snapshot'.status = status /\ snapshot'.receipts = receipts
        BY <2>1 DEF Backup
      <3> QED BY <1>1, <1>2, <3>1, <3>2
              DEF RecoveryInv, ManifestsSound, ReceiptsSound, ReceiptSound, TablesInStep, InStep
    <2>2. CASE RestoreSnapshot
      <3>1. /\ snapshot # None /\ snapshot' = snapshot
            /\ stored' = snapshot.stored /\ status' = snapshot.status /\ receipts' = snapshot.receipts
            /\ \A q \in Profiles : linking'[q] = None
        BY <2>2 DEF RestoreSnapshot
      <3> QED BY <1>1, <1>2, <3>1
              DEF RecoveryInv, ManifestsSound, ReceiptsSound, ReceiptSound, TablesInStep, InStep
    <2> QED BY <2>1, <2>2
  <1> QED BY <1>3, <1>4

\* A profile that is enrolled signs one more body: linking a device or revoking
\* one lists nobody new but that device.
LEMMA SignStep ==
    ASSUME RecoveryInv, NEW p \in Profiles, NEW x \in Linked, Authorize(p, x) \/ Revoke(p, x)
    PROVE  /\ ManifestsSound' /\ RecoveringSound' /\ ReceiptsSound'
           /\ TablesInStep' /\ WarningTruthful' /\ KitsSound'
  <1> USE DEF operator, inserts
  <1> DEFINE last == Last(manifest[p])
  <1>1. Enrolled(p) /\ manifest[p] # <<>>
    BY DEF Authorize, Revoke, Enrolled
  <1>2. /\ manifest[p] \in Manifests /\ Sound(manifest[p])
        /\ manifest \in [Profiles -> Seq(Body)] /\ rows \in [Profiles -> SUBSET Linked]
        /\ linking \in [Profiles -> {None} \cup [device : Linked, manifest : Manifests, put : BOOLEAN]]
    BY <1>1 DEF RecoveryInv, TypeOK, ManifestsSound, Manifests
  <1>3. /\ manifest[p] \in Seq(Body) /\ Len(manifest[p]) \in Nat \ {0} /\ last \in Body
        /\ Listed(manifest[p]) = last.active \cup last.revoked
        /\ last.active \subseteq Credentials /\ last.revoked \subseteq Credentials
        /\ x \in Credentials
    BY <1>2, Newest DEF Body, Credentials
  <1>4. CASE Revoke(p, x) /\ x \in last.revoked
    <2>1. UNCHANGED <<relay, snapshot, late, manifest, rows, linking, recovery, keeping, behind>>
      BY <1>4 DEF Revoke
    <2>2. ManifestsSound'
      <3>1. \A k : Sound(k) => Sound(k)'
        BY <2>1, SoundUnchanged
      <3>2. UNCHANGED <<stored, snapshot, late, manifest, linking, kits>>
        BY <2>1 DEF relay, keeping
      <3> QED BY <3>1, <3>2 DEF RecoveryInv, ManifestsSound
    <2>3. KitsSound'
      BY <2>1 DEF RecoveryInv, KitsSound, KitOf, keeping
    <2> QED BY <2>1, <2>2, <2>3, FrameRelay DEF keeping
  <1>5. ASSUME NEW b \in Body, manifest' = [manifest EXCEPT ![p] = Append(@, b)],
               b.active \cap b.revoked = {},
               b.active \cup b.revoked \subseteq Listed(manifest[p]) \cup {x},
               \E q \in Profiles : x \in rows'[q],
               \A q \in Profiles : rows[q] \subseteq rows'[q],
               \A q \in Profiles : linking'[q] # None =>
                   linking'[q] = linking[q] \/ linking'[q].manifest = manifest'[p],
               UNCHANGED <<relay, snapshot, late, recovery, keeping, behind>>
        PROVE  /\ ManifestsSound' /\ RecoveringSound' /\ ReceiptsSound'
               /\ TablesInStep' /\ WarningTruthful' /\ KitsSound'
    <2>0. PICK m : m = Append(manifest[p], b)
      OBVIOUS
    <2>1. /\ m \in Manifests /\ Len(m) = Len(manifest[p]) + 1 /\ Last(m) = b
          /\ Listed(m) = b.active \cup b.revoked
      BY <1>3, <2>0, OneMore
    <2>2. manifest' = [manifest EXCEPT ![p] = m] /\ manifest'[p] = m
      BY <1>2, <1>5, <2>0
    <2>3. Sound(m)'
      <3>1. Last(m).active \cap Last(m).revoked = {}
        BY <1>5, <2>1
      <3>2. \A y \in Linked \cap Listed(m) : \E q \in Profiles : y \in rows'[q]
        <4> SUFFICES ASSUME NEW y \in Linked, y \in Listed(m), y # x
                     PROVE  \E q \in Profiles : y \in rows'[q]
          BY <1>5
        <4>1. y \in Listed(manifest[p])
          BY <1>5, <2>1
        <4> QED BY <1>2, <1>5, <4>1 DEF Sound
      <3>3. \A q \in Profiles \cap Listed(m) : q \in Listed(manifest[p])
        BY <1>5, <2>1
      <3>4. \A q \in Profiles \cap Listed(m) : /\ manifest'[q] # <<>>
                                               /\ Resumable(q)' => Len(m) >= Len(manifest'[q])
        <4> SUFFICES ASSUME NEW q \in Profiles, q \in Listed(m)
                     PROVE  manifest'[q] # <<>> /\ (Resumable(q)' => Len(m) >= Len(manifest'[q]))
          OBVIOUS
        <4>1. CASE q = p
          BY <2>1, <2>2, <4>1, Newest
        <4>2. CASE q # p
          <5>1. manifest'[q] = manifest[q] /\ (Resumable(q)' => Resumable(q))
            BY <1>2, <1>5, <4>2 DEF Resumable
          <5>2. manifest[q] # <<>> /\ (Resumable(q) => Len(manifest[p]) >= Len(manifest[q]))
            BY <1>2, <3>3 DEF Sound
          <5>3. Len(manifest[q]) \in Nat
            BY <1>2, Lengths
          <5> QED BY <1>3, <2>1, <5>1, <5>2, <5>3
        <4> QED BY <4>1, <4>2
      <3> QED BY <3>1, <3>2, <3>4 DEF Sound, Listed
    <2>4. Len(m) > Len(manifest[p])
      BY <1>3, <2>1
    <2>5. \A q \in Profiles : linking'[q] # None =>
              linking'[q] = linking[q] \/ linking'[q].manifest = m
      BY <1>5, <2>2
    <2> QED BY <1>1, <1>5, <2>1, <2>2, <2>3, <2>4, <2>5, ManifestStep
  <1>6. CASE Revoke(p, x) /\ x \notin last.revoked
    <2> DEFINE b == [active |-> last.active \ {x}, revoked |-> last.revoked \cup {x}]
    <2>1. b \in Body /\ b.active \cap b.revoked = {} /\ b.active \cup b.revoked \subseteq Listed(manifest[p]) \cup {x}
      BY <1>2, <1>3 DEF Body, Sound
    <2>2. manifest' = [manifest EXCEPT ![p] = Append(@, b)]
      BY <1>6 DEF Revoke, Issue
    <2>3. x \in rows[p] /\ UNCHANGED <<rows, linking, relay, snapshot, late, recovery, keeping, behind>>
      BY <1>6 DEF Revoke
    <2> HIDE DEF b
    <2> QED BY <1>5, <2>1, <2>2, <2>3
  <1>7. CASE Authorize(p, x)
    <2> DEFINE b == [active |-> last.active \cup {x}, revoked |-> last.revoked]
    <2>1. x \notin Listed(manifest[p])
      BY <1>2, <1>7 DEF Authorize, Sound
    <2>2. b \in Body /\ b.active \cap b.revoked = {} /\ b.active \cup b.revoked \subseteq Listed(manifest[p]) \cup {x}
      BY <1>2, <1>3, <2>1 DEF Body, Sound
    <2>3. manifest' = [manifest EXCEPT ![p] = Append(@, b)]
      BY <1>7 DEF Authorize, Issue
    <2>4. /\ rows' = [rows EXCEPT ![p] = @ \cup {x}]
          /\ linking' = [linking EXCEPT ![p] = [device |-> x, manifest |-> manifest'[p], put |-> FALSE]]
          /\ UNCHANGED <<relay, snapshot, late, recovery, keeping, behind>>
      BY <1>7 DEF Authorize
    <2>5. x \in rows'[p] /\ \A q \in Profiles : rows[q] \subseteq rows'[q]
      BY <1>2, <2>4
    <2>6. \A q \in Profiles : linking'[q] = linking[q] \/ linking'[q].manifest = manifest'[p]
      BY <1>2, <2>4
    <2> HIDE DEF b
    <2> QED BY <1>5, <2>2, <2>3, <2>4, <2>5, <2>6
  <1> QED BY <1>4, <1>6, <1>7

\* What is left changes neither the relay nor any manifest: sessions, kits, a
\* recovery that completes, a publication the relay refuses.
LEMMA QuietStep ==
    ASSUME RecoveryInv,
           \A q \in Profiles : linking'[q] # None =>
               linking[q] # None /\ linking'[q].manifest = linking[q].manifest,
           UNCHANGED <<relay, snapshot, late, manifest, rows, recovery, keeping, behind>>
    PROVE  /\ ManifestsSound' /\ RecoveringSound' /\ ReceiptsSound'
           /\ TablesInStep' /\ WarningTruthful' /\ KitsSound'
  <1> USE DEF relay, keeping
  <1>1. \A k : Sound(k) => Sound(k)'
    BY SoundUnchanged
  <1>2. ManifestsSound'
    BY <1>1 DEF RecoveryInv, ManifestsSound
  <1>3. KitsSound'
    BY DEF RecoveryInv, KitsSound, KitOf
  <1> QED BY <1>2, <1>3, FrameRelay

LEMMA KitStep ==
    ASSUME RecoveryInv, NEW p \in Profiles, Export(p) \/ ConfirmSaved(p)
    PROVE  /\ ManifestsSound' /\ RecoveringSound' /\ ReceiptsSound'
           /\ TablesInStep' /\ WarningTruthful' /\ KitsSound'
  <1>1. /\ UNCHANGED <<relay, snapshot, late, signing, recovery, behind>>
        /\ kits \subseteq kits' /\ manifest' = manifest
    BY DEF Export, ConfirmSaved, operator, inserts, signing
  <1>2. \A k \in kits' : Sound(k)
    BY DEF Export, ConfirmSaved, Enrolled, RecoveryInv, ManifestsSound
  <1>3. KitsSound'
    <2>1. exported \in [Profiles -> Nat] /\ saved \in [Profiles -> Nat]
      BY DEF RecoveryInv, TypeOK
    <2>2. \A q \in Profiles, n \in Nat : KitOf(q, n) => KitOf(q, n)'
      BY <1>1 DEF KitOf
    <2>3. CASE Export(p)
      <3>1. /\ exported' = [exported EXCEPT ![p] = Len(manifest[p])] /\ saved' = saved
            /\ manifest[p] \in kits'
        BY <2>3 DEF Export
      <3>2. Len(manifest[p]) \in Nat
        BY Lengths DEF RecoveryInv, TypeOK
      <3>3. \A n \in Nat : n = Len(manifest[p]) => KitOf(p, n)'
        BY <1>1, <3>1, <3>2 DEF KitOf
      <3> QED BY <2>1, <2>2, <3>1, <3>2, <3>3 DEF RecoveryInv, KitsSound
    <2>4. CASE ConfirmSaved(p)
      <3>1. /\ saved' = [saved EXCEPT ![p] = exported[p]]
            /\ exported' = [exported EXCEPT ![p] = 0]
        BY <2>4 DEF ConfirmSaved
      <3>2. \A q \in Profiles : KitOf(q, 0)'
        BY DEF KitOf
      <3> QED BY <2>1, <2>2, <3>1, <3>2 DEF RecoveryInv, KitsSound
    <2> QED BY <2>3, <2>4
  <1> QED BY <1>1, <1>2, <1>3, KeepingStep

LEMMA FinishStep ==
    ASSUME RecoveryInv, NEW p \in Profiles, FinishRecovery(p)
    PROVE  /\ ManifestsSound' /\ RecoveringSound' /\ ReceiptsSound'
           /\ TablesInStep' /\ WarningTruthful' /\ KitsSound'
  <1> USE DEF relay, operator, inserts, signing, keeping
  <1>1. /\ recovery[p] # None /\ recovery' = [recovery EXCEPT ![p].complete = TRUE]
        /\ UNCHANGED <<relay, snapshot, late, signing, keeping, behind>>
    BY DEF FinishRecovery, Resumable
  <1>2. recovery \in [Profiles -> {None} \cup [kit : Manifests, previous : Nat \cup {None},
                                               complete : BOOLEAN]]
    BY DEF RecoveryInv, TypeOK
  <1>3. \A q \in Profiles : \/ recovery'[q] = recovery[q]
                            \/ /\ q = p /\ recovery'[q].complete
                               /\ recovery'[q].kit = recovery[q].kit
                               /\ recovery'[q].previous = recovery[q].previous
    BY <1>1, <1>2
  <1>4. \A q \in Profiles : Resumable(q)' => Resumable(q) /\ recovery'[q] = recovery[q]
    BY <1>3 DEF Resumable
  <1>5. \A k : Sound(k) => Sound(k)'
    BY <1>1, <1>4, SoundKept
  <1>6. ManifestsSound'
    BY <1>1, <1>5 DEF RecoveryInv, ManifestsSound
  <1>7. RecoveringSound'
    BY <1>1, <1>4 DEF RecoveryInv, RecoveringSound
  <1>8. ReceiptsSound'
    BY <1>1, <1>3 DEF RecoveryInv, ReceiptsSound, ReceiptSound
  <1>9. WarningTruthful'
    BY <1>1, <1>3 DEF RecoveryInv, WarningTruthful, RollbackWarning
  <1>10. TablesInStep' /\ KitsSound'
    BY <1>1 DEF RecoveryInv, TablesInStep, InStep, KitsSound, KitOf
  <1> QED BY <1>6, <1>7, <1>8, <1>9, <1>10

-----------------------------------------------------------------------------
(* Types, then the invariant.                                                *)

LEMMA TypeInit == ASSUME Init PROVE TypeOK
  <1> DEFINE body == [active |-> {Old}, revoked |-> {}]
  <1>1. body \in Body
    BY DEF Body, Credentials
  <1>2. <<body>> \in Manifests /\ <<>> \in Seq(Body)
    BY <1>1 DEF Manifests
  <1> HIDE DEF body
  <1>3. stored = <<body>> /\ manifest = [p \in Profiles |-> IF p = Old THEN <<body>> ELSE <<>>]
    BY DEF Init, body
  <1>4. stored \in Manifests /\ manifest \in [Profiles -> Seq(Body)]
    BY <1>2, <1>3 DEF Manifests
  <1>5. /\ receipts \in Receipts /\ linking \in [Profiles -> {None}] /\ recovery \in [Profiles -> {None}]
        /\ status \in Statuses
    BY DEF Init, Receipts, Statuses
  <1> QED BY <1>4, <1>5 DEF Init, TypeOK

LEMMA TypeStep == ASSUME TypeOK, [Next]_vars PROVE TypeOK'
  <1> USE DEF relay, operator, inserts, signing, keeping
  <1> DEFINE Link == {None} \cup [device : Linked, manifest : Manifests, put : BOOLEAN]
             Recovering == {None} \cup [kit : Manifests, previous : Nat \cup {None}, complete : BOOLEAN]
  <1>1. ASSUME NEW p \in Profiles, Connect(p) PROVE TypeOK'
    BY <1>1 DEF Connect, TypeOK
  <1>2. ASSUME NEW p \in Profiles, Disconnect(p) PROVE TypeOK'
    BY <1>2 DEF Disconnect, Drop, TypeOK
  <1>3. \A m \in Manifests : PublishManifest(m) =>
            stored' \in Manifests /\ status' \in Statuses /\ receipts' = receipts
    BY DEF PublishManifest, TypeOK, Statuses
  <1>4. ASSUME NEW p \in Profiles, PutManifest(p) PROVE TypeOK'
    <2>1. linking[p] \in [device : Linked, manifest : Manifests, put : BOOLEAN]
      BY <1>4 DEF PutManifest, TypeOK
    <2>2. linking' \in [Profiles -> Link] /\ members' \subseteq Profiles
      <3>1. [linking[p] EXCEPT !.put = TRUE] \in Link
        BY <2>1
      <3>2. \/ linking' = [linking EXCEPT ![p] = [linking[p] EXCEPT !.put = TRUE]]
            \/ linking' = [linking EXCEPT ![p] = None]
        BY <1>4 DEF PutManifest, Drop
      <3>3. linking \in [Profiles -> Link] /\ None \in Link
        BY DEF TypeOK
      <3>4. members' \subseteq Profiles
        BY <1>4 DEF PutManifest, Drop, TypeOK
      <3> HIDE DEF Link
      <3> QED BY <3>1, <3>2, <3>3, <3>4
    <2>3. stored' \in Manifests /\ status' \in Statuses /\ receipts' = receipts
      BY <1>3, <1>4, <2>1 DEF PutManifest, Refused, TypeOK
    <2> QED BY <1>4, <2>2, <2>3 DEF PutManifest, TypeOK
  <1>5. ASSUME NEW p \in Profiles, CheckCredential(p) PROVE TypeOK'
    <2>1. linking[p].device \in Linked /\ linking' \in [Profiles -> Link]
      BY <1>5 DEF CheckCredential, TypeOK
    <2>2. registering' \subseteq Linked
      BY <1>5, <2>1 DEF CheckCredential, TypeOK
    <2> QED BY <1>5, <2>1, <2>2 DEF CheckCredential, TypeOK
  <1>19. ASSUME NEW x \in Linked, PutCredential(x) PROVE TypeOK'
    <2>1. status' \in Statuses /\ registering' \subseteq Linked /\ late' \subseteq Linked
      BY <1>19 DEF PutCredential, TypeOK, Statuses, Credentials
    <2> QED BY <1>19, <2>1 DEF PutCredential, TypeOK
  <1>6. ASSUME NEW p \in Profiles, PublishRevocations(p) PROVE TypeOK'
    <2>1. manifest[p] \in Manifests
      BY <1>6 DEF PublishRevocations, Enrolled, TypeOK, Manifests
    <2>2. stored' \in Manifests /\ status' \in Statuses /\ receipts' = receipts
      BY <1>3, <1>6, <2>1 DEF PublishRevocations
    <2>3. linking' \in [Profiles -> Link] /\ members' \subseteq Profiles
      BY <1>6 DEF PublishRevocations, Drop, TypeOK
    <2>4. journal' \in [Profiles -> [Linked -> {"none", "pending", "published"}]]
      <3>1. [x \in Linked |-> IF journal[p][x] = "pending" THEN "published" ELSE journal[p][x]]
                \in [Linked -> {"none", "pending", "published"}]
        BY DEF TypeOK
      <3>2. journal \in [Profiles -> [Linked -> {"none", "pending", "published"}]]
        BY DEF TypeOK
      <3>3. \/ journal' = journal
            \/ journal' = [journal EXCEPT ![p] =
                   [x \in Linked |-> IF journal[p][x] = "pending" THEN "published" ELSE journal[p][x]]]
        BY <1>6 DEF PublishRevocations
      <3> QED BY <3>1, <3>2, <3>3
    <2> QED BY <1>6, <2>2, <2>3, <2>4 DEF PublishRevocations, TypeOK
  <1>7. ASSUME NEW p \in Profiles, Refresh(p) PROVE TypeOK'
    BY <1>7 DEF Refresh, TypeOK, Manifests
  <1>8. ASSUME NEW p \in Profiles, Export(p) PROVE TypeOK'
    <2>1. manifest[p] \in Manifests /\ Len(manifest[p]) \in Nat
      BY <1>8, Lengths DEF Export, Enrolled, TypeOK, Manifests
    <2> QED BY <1>8, <2>1 DEF Export, TypeOK
  <1>9. ASSUME NEW p \in Profiles, ConfirmSaved(p) PROVE TypeOK'
    BY <1>9 DEF ConfirmSaved, TypeOK
  <1>10. ASSUME NEW p \in Profiles, RecoverReply(p) \/ RecoverReplyLost(p) PROVE TypeOK'
    <2>1. Recover(p) /\ recovery[p] # None
      BY <1>10 DEF RecoverReply, RecoverReplyLost, Recover, Resumable
    <2>2. /\ stored' \in Manifests /\ status' \in Statuses /\ receipts' \in Receipts
          /\ behind' \in [Profiles -> BOOLEAN] /\ receipts'[p].previous \in Nat
      <3>1. CASE RecoverFresh(p)
        <4>1. Len(stored) \in Nat /\ Len(manifest[p]) > Len(stored) /\ manifest[p] \in Seq(Body)
          BY <3>1, Newest DEF RecoverFresh, TypeOK
        <4>2. manifest[p] # <<>>
          BY <4>1, EmptySeq
        <4>3. receipts' \in Receipts /\ receipts'[p].previous \in Nat
          BY <3>1, <4>1, <4>2 DEF RecoverFresh, TypeOK, Receipts, Manifests
        <4>4. status' \in Statuses
          BY <3>1 DEF RecoverFresh, TypeOK, Statuses
        <4>5. behind' \in [Profiles -> BOOLEAN] /\ stored' \in Manifests
          BY <3>1, <4>1, <4>2 DEF RecoverFresh, TypeOK, Manifests
        <4> QED BY <4>3, <4>4, <4>5
      <3>2. CASE RecoverAgain(p)
        BY <3>2 DEF RecoverAgain, TypeOK, Receipts
      <3> QED BY <2>1, <3>1, <3>2 DEF Recover, RecoverIdentity
    <2>3. recovery' \in [Profiles -> Recovering] /\ members' \subseteq Profiles
      <3>1. recovery[p] \in [kit : Manifests, previous : Nat \cup {None}, complete : BOOLEAN]
        BY <2>1 DEF TypeOK
      <3>2. [recovery[p] EXCEPT !.previous = receipts'[p].previous] \in Recovering
        BY <2>2, <3>1
      <3>3. \/ recovery' = recovery
            \/ recovery' = [recovery EXCEPT ![p] = [recovery[p] EXCEPT !.previous = receipts'[p].previous]]
        BY <1>10 DEF RecoverReply, RecoverReplyLost
      <3>4. recovery \in [Profiles -> Recovering]
        BY DEF TypeOK
      <3>5. members' \subseteq Profiles
        BY <1>10 DEF RecoverReply, RecoverReplyLost, TypeOK
      <3> HIDE DEF Recovering
      <3> QED BY <3>2, <3>3, <3>4, <3>5
    <2> QED BY <2>1, <2>2, <2>3 DEF Recover, TypeOK
  <1>11. ASSUME NEW p \in Profiles, FinishRecovery(p) PROVE TypeOK'
    <2>1. recovery[p] \in Recovering \ {None} /\ recovery \in [Profiles -> Recovering]
      BY <1>11 DEF FinishRecovery, Resumable, TypeOK
    <2>2. [recovery[p] EXCEPT !.complete = TRUE] \in Recovering
      BY <2>1
    <2>3. recovery' = [recovery EXCEPT ![p] = [recovery[p] EXCEPT !.complete = TRUE]]
      BY <1>11 DEF FinishRecovery
    <2> HIDE DEF Recovering
    <2>4. recovery' \in [Profiles -> Recovering]
      BY <2>1, <2>2, <2>3
    <2> USE DEF Recovering
    <2>5. UNCHANGED <<relay, operator, inserts, members, signing, keeping, behind>>
      BY <1>11 DEF FinishRecovery
    <2> QED BY <2>4, <2>5 DEF TypeOK
  <1>12. ASSUME NEW p \in Profiles, Enrolled(p) PROVE manifest[p] \in Seq(Body) /\ Last(manifest[p]) \in Body
    BY <1>12, Newest DEF Enrolled, TypeOK, Manifests
  <1>13. ASSUME NEW p \in Profiles, NEW x \in Linked, Authorize(p, x) PROVE TypeOK'
    <2> DEFINE b == [active |-> Last(manifest[p]).active \cup {x}, revoked |-> Last(manifest[p]).revoked]
    <2>1. manifest[p] \in Seq(Body) /\ b \in Body
      BY <1>12, <1>13 DEF Authorize, Body, Credentials
    <2>2. Append(manifest[p], b) \in Manifests /\ Append(manifest[p], b) \in Seq(Body)
      BY <2>1, OneMore DEF Manifests
    <2>3. /\ manifest' = [manifest EXCEPT ![p] = Append(manifest[p], b)]
          /\ linking' = [linking EXCEPT ![p] = [device |-> x, manifest |-> manifest'[p], put |-> FALSE]]
          /\ rows' = [rows EXCEPT ![p] = @ \cup {x}]
          /\ UNCHANGED <<relay, operator, inserts, members, journal, recovery, keeping, behind>>
      BY <1>13 DEF Authorize, Issue
    <2> HIDE DEF b
    <2>4. manifest'[p] = Append(manifest[p], b) /\ manifest' \in [Profiles -> Seq(Body)]
      BY <2>2, <2>3 DEF TypeOK
    <2>5. linking' \in [Profiles -> Link]
      BY <2>2, <2>3, <2>4 DEF TypeOK
    <2> QED BY <2>3, <2>4, <2>5 DEF TypeOK
  <1>14. ASSUME NEW p \in Profiles, NEW x \in Linked, Revoke(p, x) PROVE TypeOK'
    <2> DEFINE b == [active |-> Last(manifest[p]).active \ {x}, revoked |-> Last(manifest[p]).revoked \cup {x}]
    <2>1. manifest[p] \in Seq(Body) /\ b \in Body
      BY <1>12, <1>14 DEF Revoke, Body, Credentials
    <2>2. Append(manifest[p], b) \in Seq(Body)
      BY <2>1, OneMore DEF Manifests
    <2>3. /\ manifest' = manifest \/ manifest' = [manifest EXCEPT ![p] = Append(manifest[p], b)]
          /\ journal' = [journal EXCEPT ![p][x] = IF @ = "none" THEN "pending" ELSE @]
          /\ UNCHANGED <<relay, operator, inserts, members, rows, linking, recovery, keeping, behind>>
      BY <1>14 DEF Revoke, Issue
    <2> HIDE DEF b
    <2>4. manifest' \in [Profiles -> Seq(Body)]
      <3>1. manifest \in [Profiles -> Seq(Body)]
        BY DEF TypeOK
      <3> QED BY <2>2, <2>3, <3>1
    <2>5. journal' \in [Profiles -> [Linked -> {"none", "pending", "published"}]]
      <3>1. journal \in [Profiles -> [Linked -> {"none", "pending", "published"}]]
        BY DEF TypeOK
      <3> QED BY <2>3, <3>1
    <2> QED BY <2>3, <2>4, <2>5 DEF TypeOK
  <1>15. ASSUME NEW p \in Profiles, NEW kit \in kits, Restore(p, kit) PROVE TypeOK'
    <2> DEFINE b == [active |-> {p}, revoked |-> Listed(kit)]
    <2>1. kit \in Manifests /\ kit \in Seq(Body) /\ Listed(kit) \subseteq Credentials
      BY Newest DEF TypeOK
    <2>2. Append(kit, b) \in Seq(Body)
      BY <2>1, OneMore DEF Manifests, Body, Credentials
    <2>3. /\ manifest' = [manifest EXCEPT ![p] = Append(kit, b)]
          /\ recovery' = [recovery EXCEPT ![p] = [kit |-> kit, previous |-> None, complete |-> FALSE]]
          /\ UNCHANGED <<relay, operator, inserts, members, rows, linking, journal, keeping, behind>>
      BY <1>15 DEF Restore
    <2> HIDE DEF b
    <2> QED BY <2>1, <2>2, <2>3 DEF TypeOK
  <1>16. ASSUME Backup PROVE TypeOK'
    BY <1>16 DEF Backup, TypeOK
  <1>17. ASSUME RestoreSnapshot PROVE TypeOK'
    BY <1>17 DEF RestoreSnapshot, TypeOK
  <1>18. ASSUME UNCHANGED vars PROVE TypeOK'
    BY <1>18 DEF vars, TypeOK
  <1> QED BY <1>1, <1>2, <1>4, <1>5, <1>6, <1>7, <1>8, <1>9, <1>10, <1>11, <1>13, <1>14, <1>15,
             <1>16, <1>17, <1>18, <1>19 DEF Next

LEMMA InvInit == ASSUME Init PROVE RecoveryInv
  <1> DEFINE body == [active |-> {Old}, revoked |-> {}]
  <1>1. TypeOK
    BY TypeInit
  <1>2. /\ stored = <<body>> /\ snapshot = None
        /\ \A p \in Profiles : /\ manifest[p] = IF p = Old THEN <<body>> ELSE <<>>
                               /\ linking[p] = None /\ recovery[p] = None /\ receipts[p] = None
                               /\ exported[p] = 0 /\ saved[p] = 0
        /\ kits = {}
    BY DEF Init
  <1>3. Last(<<body>>) = body
    BY DEF Last
  <1>4. body.active = {Old} /\ body.revoked = {} /\ Listed(<<body>>) = {Old}
    BY <1>3 DEF Listed
  <1> HIDE DEF body
  <1>5. Sound(<<body>>)
    BY <1>2, <1>3, <1>4 DEF Sound, Resumable
  <1>6. ManifestsSound
    BY <1>2, <1>5 DEF ManifestsSound
  <1>7. RecoveringSound /\ ReceiptsSound /\ WarningTruthful /\ KitsSound
    BY <1>2 DEF RecoveringSound, Resumable, ReceiptsSound, WarningTruthful, KitsSound, KitOf
  <1>8. TablesInStep
    BY <1>2, <1>3, <1>4 DEF TablesInStep, InStep
  <1> QED BY <1>1, <1>6, <1>7, <1>8 DEF RecoveryInv

LEMMA InvStep == ASSUME RecoveryInv, [Next]_vars PROVE RecoveryInv'
  <1> DEFINE Rest == /\ ManifestsSound' /\ RecoveringSound' /\ ReceiptsSound'
                     /\ TablesInStep' /\ WarningTruthful' /\ KitsSound'
  <1>1. TypeOK'
    BY TypeStep DEF RecoveryInv
  <1>2. linking \in [Profiles -> {None} \cup [device : Linked, manifest : Manifests, put : BOOLEAN]]
    BY DEF RecoveryInv, TypeOK
  <1>3. ASSUME NEW p \in Profiles, Drop(p)
        PROVE  \A q \in Profiles : linking'[q] # None =>
                   linking[q] # None /\ linking'[q].manifest = linking[q].manifest
    BY <1>2, <1>3 DEF Drop
  <1>4. ASSUME NEW p \in Profiles, Connect(p) \/ Disconnect(p) PROVE Rest
    <2>1. \A q \in Profiles : linking'[q] # None =>
              linking[q] # None /\ linking'[q].manifest = linking[q].manifest
      BY <1>3, <1>4 DEF Connect, Disconnect, signing
    <2>2. UNCHANGED <<relay, snapshot, late, manifest, rows, recovery, keeping, behind>>
      BY <1>4 DEF Connect, Disconnect, operator, inserts, signing
    <2> QED BY <2>1, <2>2, QuietStep
  <1>5. ASSUME NEW p \in Profiles, PutManifest(p) PROVE Rest
    <2>1. \A q \in Profiles : linking'[q] # None =>
              linking[q] # None /\ linking'[q].manifest = linking[q].manifest
      BY <1>2, <1>3, <1>5 DEF PutManifest
    <2>2. UNCHANGED <<snapshot, late, manifest, rows, recovery, keeping, behind>>
      BY <1>5 DEF PutManifest, operator, inserts
    <2>3. PICK m : m = linking[p].manifest
      OBVIOUS
    <2>4. m \in Manifests /\ Sound(m)
      BY <1>2, <1>5, <2>3 DEF PutManifest, RecoveryInv, ManifestsSound
    <2>5. CASE PublishManifest(m)
      BY <2>1, <2>2, <2>4, <2>5, PublishStep
    <2>6. CASE UNCHANGED relay
      BY <2>1, <2>2, <2>6, QuietStep
    <2> QED BY <1>5, <2>3, <2>5, <2>6 DEF PutManifest, Refused
  <1>6. ASSUME NEW p \in Profiles, PublishRevocations(p) PROVE Rest
    <2>1. \A q \in Profiles : linking'[q] # None =>
              linking[q] # None /\ linking'[q].manifest = linking[q].manifest
      BY <1>3, <1>6 DEF PublishRevocations
    <2>2. UNCHANGED <<snapshot, late, manifest, rows, recovery, keeping, behind>>
      BY <1>6 DEF PublishRevocations, operator, inserts
    <2>3. PICK m : m = manifest[p]
      OBVIOUS
    <2>4. m \in Manifests /\ Sound(m)
      BY <1>6, <2>3 DEF PublishRevocations, Enrolled, RecoveryInv, ManifestsSound, TypeOK, Manifests
    <2>5. PublishManifest(m)
      BY <1>6, <2>3 DEF PublishRevocations
    <2> QED BY <2>1, <2>2, <2>4, <2>5, PublishStep
  <1>7. ASSUME NEW p \in Profiles, Refresh(p) PROVE Rest
    <2>1. PICK m : m = stored
      OBVIOUS
    <2>2. m \in Manifests /\ Sound(m)
      BY <2>1 DEF RecoveryInv, ManifestsSound, TypeOK
    <2>3. /\ Enrolled(p) /\ manifest' = [manifest EXCEPT ![p] = m]
          /\ Len(m) > Len(manifest[p]) \/ m = manifest[p]
          /\ UNCHANGED <<relay, snapshot, late, rows, linking, recovery, keeping, behind>>
      BY <1>7, <2>1 DEF Refresh, Accepts, Enrolled, operator, inserts
    <2>4. \A q \in Profiles : manifest[q] # <<>> =>
              /\ manifest'[q] # <<>>
              /\ Resumable(q)' => Resumable(q) /\ manifest'[q] = manifest[q]
      BY <2>2, <2>3 DEF Enrolled, Resumable, RecoveryInv, TypeOK, Manifests
    <2>5. Sound(m)'
      BY <2>2, <2>3, <2>4, SoundKept
    <2> QED BY <2>2, <2>3, <2>5, ManifestStep
  <1>8. ASSUME NEW p \in Profiles, CheckCredential(p) PROVE Rest
    <2>1. \A q \in Profiles : linking'[q] # None =>
              linking[q] # None /\ linking'[q].manifest = linking[q].manifest
      BY <1>2, <1>8 DEF CheckCredential
    <2>2. UNCHANGED <<relay, snapshot, late, manifest, rows, recovery, keeping, behind>>
      BY <1>8 DEF CheckCredential, operator
    <2> QED BY <2>1, <2>2, QuietStep
  <1>17. ASSUME NEW x \in Linked, PutCredential(x) PROVE Rest
    BY <1>17, CredentialStep
  <1>9. ASSUME NEW p \in Profiles, Export(p) \/ ConfirmSaved(p) PROVE Rest
    BY <1>9, KitStep
  <1>10. ASSUME NEW p \in Profiles, RecoverReply(p) \/ RecoverReplyLost(p) PROVE Rest
    BY <1>1, <1>10, RecoverStep
  <1>11. ASSUME NEW p \in Profiles, FinishRecovery(p) PROVE Rest
    BY <1>11, FinishStep
  <1>12. ASSUME NEW p \in Profiles, NEW x \in Linked, Authorize(p, x) \/ Revoke(p, x) PROVE Rest
    BY <1>12, SignStep
  <1>13. ASSUME NEW p \in Profiles, NEW kit \in kits, Restore(p, kit) PROVE Rest
    BY <1>13, RestoreStep
  <1>14. ASSUME Backup \/ RestoreSnapshot PROVE Rest
    BY <1>14, OperatorStep
  <1>15. ASSUME UNCHANGED vars PROVE Rest
    <2>1. UNCHANGED <<linking, relay, snapshot, late, manifest, rows, recovery, keeping, behind>>
      BY <1>15 DEF vars, operator, inserts, signing
    <2> QED BY <2>1, QuietStep
  <1> HIDE DEF Rest
  <1>16. Rest
    BY <1>4, <1>5, <1>6, <1>7, <1>8, <1>9, <1>10, <1>11, <1>12, <1>13, <1>14, <1>15, <1>17 DEF Next
  <1> QED BY <1>1, <1>16 DEF Rest, RecoveryInv

\* Types, manifests, recoveries, receipts, tables and kits stay in step with
\* one another through every interleaving of the profiles and the operator.
THEOREM RecoveryInvariance == Spec => []RecoveryInv
  <1> USE InvInit, InvStep
  <1> QED BY PTL DEF Spec

\* A credential that the relay's newest manifest revokes can open a session only
\* if it was inserted after the revocation on a check from before it
\* (PublishManifest, RecoverIdentity and credentialPut together), for any number
\* of profiles, devices, manifests and restores.
THEOREM RevokedStaysOut == Spec => []RevokedKeptOut
  <1>1. RecoveryInv => RevokedKeptOut
    BY DEF RecoveryInv, TablesInStep, InStep, RevokedKeptOut, Present
  <1> QED BY <1>1, RecoveryInvariance, PTL

\* Whoever held the root before a recovery the relay accepted is never let in
\* again, though it may go on signing and publishing over an old session.
THEOREM LostHoldersStayOut == Spec => []LostStayOut
  <1>1. RecoveryInv => LostStayOut
    BY DEF RecoveryInv, ReceiptsSound, ReceiptSound, LostStayOut, Present
  <1> QED BY <1>1, RecoveryInvariance, PTL

\* What the screens say of the kit and of a relay rolled back is true, however
\* often a recovery was repeated and whatever was signed since the export.
THEOREM ScreensTellTheTruth == Spec => []ScreenTruthful
  <1>1. RecoveryInv => ScreenTruthful
    <2>1. ASSUME RecoveryInv, NEW p \in Profiles, KitSaved(p), ~KitStale(p)
          PROVE  manifest[p] \in kits
      <3>1. saved[p] \in Nat /\ Len(manifest[p]) \in Nat
        BY <2>1, Lengths DEF RecoveryInv, TypeOK
      <3> QED BY <2>1, <3>1 DEF RecoveryInv, KitsSound, KitOf, KitSaved, KitStale
    <2> QED BY <2>1 DEF RecoveryInv, ScreenTruthful, KitTruthful
  <1> QED BY <1>1, RecoveryInvariance, PTL

-----------------------------------------------------------------------------
(* Linking, with its own state: what the completion of a link records is     *)
(* true, for any rendezvous, credentials, mailbox keys and faults.           *)

HIDE RecoveryAssumption

CONSTANTS Links, Direct, Creds, Keys, MaxFaults, MayRevoke

VARIABLES opened, card, expired, slots, sealed, published, registered, standing, mailboxes,
          pending, withdrawn, asking, answer, signed, at, chain, row, revoked,
          session, grant, phase, joining, scanned, finishing, applied, did, request, handed,
          cancelled, faults

L == INSTANCE LinkingInvariant WITH status <- standing

\* What Linking assumes of its constants, as far as the proof needs it.
LinkConstants == Direct \notin Links /\ None \notin Creds \cup Keys /\ Creds \cap {"none", "declined"} = {}

linkState == <<registered, answer, signed, sealed, handed, session, grant, phase, applied, did,
               request, mailboxes, cancelled>>

LEMMA LinkInit == LinkConstants /\ L!Init => L!LinkingInv
  <1> SUFFICES ASSUME LinkConstants, L!Init PROVE L!LinkingInv
    OBVIOUS
  <1>1. L!TypeOK
    BY DEF L!Init, L!TypeOK, L!Roads, L!Answer, L!Complete, L!Standing
  <1>2. L!Granted
    BY DEF LinkConstants, L!Init, L!Granted
  <1>3. L!Committed
    BY DEF L!Init, L!Committed, L!Roads
  <1>4. L!Durable
    BY DEF L!Init, L!Durable, L!LocalApplied, L!MailboxStored
  <1> QED BY <1>1, <1>2, <1>3, <1>4 DEF L!LinkingInv

LEMMA LinkQuiet == L!LinkingInv /\ UNCHANGED linkState => L!LinkingInv'
  BY DEF linkState, L!LinkingInv, L!TypeOK, L!Granted, L!Committed, L!Durable

-----------------------------------------------------------------------------
(* The root's side.                                                          *)

\* A refusal in the slot grants nothing.
LEMMA DeclinedKeeps ==
    ASSUME LinkConstants, L!LinkingInv, NEW p \in Links,
           sealed' = [sealed EXCEPT ![p] = "declined"],
           UNCHANGED <<registered, answer, signed, handed, session, grant, phase, applied, did,
                       request, mailboxes, cancelled>>
    PROVE  L!LinkingInv'
  <1>1. "declined" \in L!Answer /\ "declined" \notin Creds
    BY DEF LinkConstants, L!Answer
  <1>2. sealed' \in [Links -> L!Answer]
    BY <1>1 DEF L!LinkingInv, L!TypeOK
  <1>3. \A q \in Links : sealed'[q] \in Creds => sealed'[q] = registered
    BY <1>1 DEF L!LinkingInv, L!TypeOK, L!Granted
  <1>4. L!TypeOK'
    BY <1>2 DEF L!LinkingInv, L!TypeOK
  <1>5. L!Granted'
    BY <1>3 DEF L!LinkingInv, L!Granted
  <1>6. L!Committed' /\ L!Durable'
    BY DEF L!LinkingInv, L!Committed, L!Durable
  <1> QED BY <1>4, <1>5, <1>6 DEF L!LinkingInv

\* An answer that moves on without having signed or registered anything new.
LEMMA AnswerKeeps ==
    ASSUME L!LinkingInv,
           answer' \in [L!Roads -> L!Standing],
           \A x \in L!Roads : \/ answer'[x] \in {"idle", "signing", answer[x]}
                              \/ answer[x] = "publishing" /\ answer'[x] = "registering"
                              \/ answer[x] = "registering" /\ answer'[x] = "inserting"
                              \/ answer[x] = "inserting" /\ answer'[x] = "orphaned",
           UNCHANGED <<registered, signed, sealed, handed, session, grant, phase, applied, did,
                       request, mailboxes, cancelled>>
    PROVE  L!LinkingInv'
  <1>1. L!TypeOK'
    BY DEF L!LinkingInv, L!TypeOK
  <1>2. L!Granted'
    BY DEF L!LinkingInv, L!Granted
  <1>3. L!Committed' /\ L!Durable'
    BY DEF L!LinkingInv, L!Committed, L!Durable
  <1> QED BY <1>1, <1>2, <1>3 DEF L!LinkingInv

LEMMA RootSideKeeps ==
    ASSUME LinkConstants, L!LinkingInv, NEW p \in Links, L!RootSide(p)
    PROVE  L!LinkingInv'
  <1>1. CASE L!OfferLink(p) \/ L!AwaitLinkRequest(p) \/ L!AwaitStops(p) \/ L!AnswerHello(p)
             \/ L!ApproveCode(p) \/ L!ListeningStops(p) \/ L!ShowRequest(p)
    <2>1. UNCHANGED linkState
      BY <1>1 DEF L!OfferLink, L!AwaitLinkRequest, L!AwaitStops, L!AnswerHello, L!ApproveCode,
                  L!ListeningStops, L!ShowRequest, linkState, L!relay, L!directory, L!root,
                  L!sessions, L!finish
    <2> QED BY <2>1, LinkQuiet
  <1>2. CASE L!CheckWithdrawn(p) \/ L!AnswerNo(p)
    <2>1. /\ UNCHANGED <<registered, answer, signed, handed, session, grant, phase, applied, did,
                         request, mailboxes, cancelled>>
          /\ sealed' = sealed \/ sealed' = [sealed EXCEPT ![p] = "declined"]
      BY <1>2 DEF L!CheckWithdrawn, L!AnswerNo, L!directory, L!root, L!sessions, L!finish
    <2>2. CASE sealed' = sealed
      BY <2>1, <2>2, LinkQuiet DEF linkState
    <2>3. CASE sealed' = [sealed EXCEPT ![p] = "declined"]
      BY <2>1, <2>3, DeclinedKeeps
    <2> QED BY <2>1, <2>2, <2>3
  <1>3. CASE L!AnswerYes(p)
    <2>1. /\ UNCHANGED <<registered, signed, sealed, handed, session, grant, phase, applied, did,
                         request, mailboxes, cancelled>>
          /\ p \in L!Roads
          /\ answer' = [answer EXCEPT ![p] = IF p \in card \cap expired THEN "idle" ELSE "signing"]
      BY <1>3 DEF L!AnswerYes, L!relay, L!directory, L!sessions, L!finish, L!Roads
    <2>2. answer \in [L!Roads -> L!Standing]
      BY DEF L!LinkingInv, L!TypeOK
    <2> QED BY <2>1, <2>2, AnswerKeeps DEF L!Standing
  <1> QED BY <1>1, <1>2, <1>3 DEF L!RootSide

LEMMA SignKeeps ==
    ASSUME LinkConstants, L!LinkingInv, NEW x \in L!Roads, L!SignGrant(x)
    PROVE  L!LinkingInv'
  <1>1. /\ UNCHANGED <<registered, sealed, handed, session, grant, phase, applied, did,
                       request, mailboxes, cancelled>>
        /\ answer[x] = "signing"
    BY DEF L!SignGrant, L!relay, L!directory, L!offers, L!sessions, L!finish
  <1>2. /\ answer \in [L!Roads -> L!Standing]
        /\ signed \in [L!Roads -> Creds \cup {None}]
    BY DEF L!LinkingInv, L!TypeOK
  <1>3. CASE answer' = [answer EXCEPT ![x] = "idle"] /\ UNCHANGED signed
    BY <1>1, <1>2, <1>3, AnswerKeeps DEF L!Standing
  <1>4. CASE \E c \in Creds : answer' = [answer EXCEPT ![x] = "publishing"]
                              /\ signed' = [signed EXCEPT ![x] = c]
    <2>1. PICK c \in Creds : answer' = [answer EXCEPT ![x] = "publishing"]
                             /\ signed' = [signed EXCEPT ![x] = c]
      BY <1>4
    <2>2. c # None
      BY DEF LinkConstants
    <2>3. L!TypeOK'
      BY <1>1, <1>2, <2>1 DEF L!LinkingInv, L!TypeOK, L!Standing
    <2>4. L!Granted'
      BY <1>1, <1>2, <2>1, <2>2 DEF L!LinkingInv, L!Granted
    <2>5. L!Committed' /\ L!Durable'
      BY <1>1 DEF L!LinkingInv, L!Committed, L!Durable
    <2> QED BY <2>3, <2>4, <2>5 DEF L!LinkingInv
  <1> QED BY <1>3, <1>4 DEF L!SignGrant, L!DeviceAuthorize, L!Unused

LEMMA PublishKeeps ==
    ASSUME L!LinkingInv, NEW x \in L!Roads, L!PublishGrant(x)
    PROVE  L!LinkingInv'
  <1>1. /\ UNCHANGED <<registered, signed, sealed, handed, session, grant, phase, applied, did,
                       request, mailboxes, cancelled>>
        /\ answer[x] = "publishing"
        /\ answer' = [answer EXCEPT ![x] = "registering"] \/ answer' = [answer EXCEPT ![x] = "idle"]
    BY DEF L!PublishGrant, L!PublishManifest, L!relay, L!directory, L!offers, L!sessions, L!finish
  <1>2. answer \in [L!Roads -> L!Standing]
    BY DEF L!LinkingInv, L!TypeOK
  <1> QED BY <1>1, <1>2, AnswerKeeps DEF L!Standing

LEMMA CheckKeeps ==
    ASSUME L!LinkingInv, NEW x \in L!Roads, L!CheckCredential(x)
    PROVE  L!LinkingInv'
  <1>1. /\ UNCHANGED <<registered, signed, sealed, handed, session, grant, phase, applied, did,
                       request, mailboxes, cancelled>>
        /\ answer[x] = "registering"
        /\ answer' = [answer EXCEPT ![x] = "inserting"] \/ answer' = [answer EXCEPT ![x] = "idle"]
    BY DEF L!CheckCredential, L!relay, L!directory, L!offers, L!sessions, L!finish
  <1>2. answer \in [L!Roads -> L!Standing]
    BY DEF L!LinkingInv, L!TypeOK
  <1> QED BY <1>1, <1>2, AnswerKeeps DEF L!Standing

\* The relay registers one credential: nothing was granted before.
LEMMA RegisterKeeps ==
    ASSUME LinkConstants, L!LinkingInv, NEW x \in L!Roads, L!RegisterCredential(x)
    PROVE  L!LinkingInv'
  <1>1. /\ UNCHANGED <<signed, sealed, handed, session, grant, phase, applied, did,
                       request, mailboxes, cancelled>>
        /\ answer[x] \in {"inserting", "orphaned"}
    BY DEF L!RegisterCredential, L!relay, L!offers, L!sessions, L!finish
  <1>2. /\ answer \in [L!Roads -> L!Standing]
        /\ signed \in [L!Roads -> Creds \cup {None}]
    BY DEF L!LinkingInv, L!TypeOK
  <1>3. CASE answer' = [answer EXCEPT ![x] = "idle"] /\ UNCHANGED registered
    BY <1>1, <1>2, <1>3, AnswerKeeps DEF L!Standing
  <1>4. CASE /\ registered = None /\ registered' = signed[x]
             /\ answer' = [answer EXCEPT ![x] = "sealing"] \/ answer' = [answer EXCEPT ![x] = "idle"]
    <2>1. signed[x] \in Creds /\ None \notin Creds
      BY <1>1, <1>2 DEF L!LinkingInv, L!Granted, LinkConstants
    <2>2. /\ \A y \in L!Roads : answer[y] # "sealing" /\ grant[y] = None
          /\ \A p \in Links : sealed[p] \notin Creds
          /\ handed = None /\ applied = None
      BY <1>4, <2>1 DEF L!LinkingInv, L!Granted
    <2>3. L!TypeOK'
      BY <1>1, <1>2, <1>4, <2>1 DEF L!LinkingInv, L!TypeOK, L!Standing
    <2>4. L!Granted'
      <3>1. ASSUME NEW y \in L!Roads
            PROVE  /\ answer'[y] \in {"publishing", "registering", "inserting", "orphaned", "sealing"} => signed'[y] # None
                   /\ answer'[y] = "sealing" => signed'[y] = registered'
        BY <1>1, <1>2, <1>4, <2>1, <2>2 DEF L!LinkingInv, L!Granted
      <3> QED BY <1>1, <2>2, <3>1 DEF L!Granted
    <2>5. L!Committed' /\ L!Durable'
      BY <1>1 DEF L!LinkingInv, L!Committed, L!Durable
    <2> QED BY <2>3, <2>4, <2>5 DEF L!LinkingInv
  <1> QED BY <1>3, <1>4 DEF L!RegisterCredential

LEMMA SealKeeps ==
    ASSUME LinkConstants, L!LinkingInv, NEW x \in L!Roads, L!SealGrant(x)
    PROVE  L!LinkingInv'
  <1>1. /\ UNCHANGED <<registered, signed, session, grant, phase, applied, did,
                       request, mailboxes, cancelled>>
        /\ answer[x] = "sealing" /\ answer' = [answer EXCEPT ![x] = "idle"]
    BY DEF L!SealGrant, L!directory, L!offers, L!sessions, L!finish
  <1>2. /\ answer \in [L!Roads -> L!Standing]
        /\ signed[x] \in Creds /\ signed[x] = registered /\ sealed \in [Links -> L!Answer]
    BY <1>1 DEF L!LinkingInv, L!TypeOK, L!Granted
  <1>3. /\ \/ sealed' = sealed
           \/ x \in Links /\ sealed' = [sealed EXCEPT ![x] = signed[x]]
        /\ handed' = handed \/ handed' = signed[x]
    BY DEF L!SealGrant
  <1>4. /\ sealed' \in [Links -> L!Answer]
        /\ \A p \in Links : sealed'[p] \in Creds => sealed'[p] = registered
    BY <1>2, <1>3 DEF L!LinkingInv, L!Granted, L!Answer
  <1>5. L!TypeOK'
    BY <1>1, <1>2, <1>3, <1>4 DEF L!LinkingInv, L!TypeOK, L!Standing
  <1>6. L!Granted'
    <2>1. ASSUME NEW y \in L!Roads
          PROVE  /\ answer'[y] \in {"publishing", "registering", "inserting", "orphaned", "sealing"} => signed'[y] # None
                 /\ answer'[y] = "sealing" => signed'[y] = registered'
                 /\ grant'[y] # None => grant'[y] = registered'
      BY <1>1, <1>2 DEF L!LinkingInv, L!Granted
    <2> QED BY <1>1, <1>2, <1>3, <1>4, <2>1 DEF L!LinkingInv, L!Granted
  <1>7. L!Committed' /\ L!Durable'
    BY <1>1 DEF L!LinkingInv, L!Committed, L!Durable
  <1> QED BY <1>5, <1>6, <1>7 DEF L!LinkingInv

LEMMA CrashRootKeeps == L!LinkingInv /\ (L!CrashRoot \/ L!AuthorizeLink) => L!LinkingInv'
  <1> SUFFICES ASSUME L!LinkingInv, L!CrashRoot \/ L!AuthorizeLink PROVE L!LinkingInv'
    OBVIOUS
  <1>1. /\ UNCHANGED <<registered, signed, sealed, handed, session, grant, phase, applied, did,
                       request, mailboxes, cancelled>>
        /\ \/ answer' = [x \in L!Roads |-> IF answer[x] \in {"inserting", "orphaned"}
                                        THEN "orphaned" ELSE "idle"]
           \/ answer' = [answer EXCEPT ![Direct] = "signing"]
    BY DEF L!CrashRoot, L!AuthorizeLink, L!relay, L!directory, L!offers, L!sessions, L!finish
  <1>2. answer \in [L!Roads -> L!Standing]
    BY DEF L!LinkingInv, L!TypeOK
  <1> QED BY <1>1, <1>2, AnswerKeeps DEF L!Standing

-----------------------------------------------------------------------------
(* The new device's side.                                                    *)

\* Sessions, grants and phases change together; the rest does not.
LEMMA SessionKeeps ==
    ASSUME LinkConstants, L!LinkingInv,
           UNCHANGED <<registered, answer, signed, sealed, handed, applied, did, request, mailboxes>>,
           session' \in [Links -> {"none", "waiting", "ready"}],
           grant' \in [L!Roads -> Creds \cup {None}], phase' \in [L!Roads -> 0..L!Complete],
           cancelled' \in SUBSET Links,
           \A x \in L!Roads : grant'[x] # None => grant'[x] = registered,
           \A x \in L!Roads : phase'[x] = phase[x] \/ phase'[x] \in {0, L!Committing},
           L!Committed'
    PROVE  L!LinkingInv'
  <1>1. L!TypeOK'
    BY DEF L!LinkingInv, L!TypeOK
  <1>2. L!Granted'
    BY DEF L!LinkingInv, L!Granted
  <1>3. \A x \in L!Roads : phase'[x] >= L!LocalApplied => phase'[x] = phase[x]
    BY DEF L!Committing, L!LocalApplied
  <1>4. L!Durable'
    BY <1>3 DEF L!LinkingInv, L!Durable
  <1> QED BY <1>1, <1>2, <1>4 DEF L!LinkingInv

\* The stored session gives way to one of p, or to none.
LEMMA StartKeeps ==
    ASSUME LinkConstants, L!LinkingInv, NEW p \in Links, L!StartSession(p),
           UNCHANGED <<registered, answer, signed, sealed, handed, applied, did, request, mailboxes>>
    PROVE  L!LinkingInv'
  <1>1. /\ grant \in [L!Roads -> Creds \cup {None}] /\ phase \in [L!Roads -> 0..L!Complete]
        /\ session \in [Links -> {"none", "waiting", "ready"}] /\ cancelled \in SUBSET Links
        /\ 0 \in 0..L!Complete
    BY DEF L!LinkingInv, L!TypeOK, L!Complete
  <1>2. /\ grant' = [x \in L!Roads |-> IF x \in Links THEN None ELSE grant[x]]
        /\ phase' = [x \in L!Roads |-> IF x \in Links THEN 0 ELSE phase[x]]
    BY DEF L!StartSession
  <1>3. /\ session' \in [Links -> {"none", "waiting"}] /\ cancelled' \in SUBSET cancelled
        /\ \A q \in cancelled' : session'[q] = "none"
    BY <1>1 DEF L!StartSession
  <1>4. /\ grant' \in [L!Roads -> Creds \cup {None}] /\ phase' \in [L!Roads -> 0..L!Complete]
        /\ \A x \in L!Roads : grant'[x] = None \/ grant'[x] = grant[x]
        /\ \A x \in L!Roads : phase'[x] = 0 \/ (phase'[x] = phase[x] /\ grant'[x] = grant[x])
        /\ \A q \in Links : phase'[q] = 0
    BY <1>1, <1>2 DEF L!Roads
  <1>5. L!Committed'
    <2>1. \A x \in L!Roads : phase'[x] > 0 => grant'[x] # None
      BY <1>4 DEF L!LinkingInv, L!Committed
    <2> QED BY <1>3, <1>4, <2>1 DEF L!Committed
  <1>6. \A x \in L!Roads : grant'[x] # None => grant'[x] = registered
    BY <1>4 DEF L!LinkingInv, L!Granted
  <1>7. session' \in [Links -> {"none", "waiting", "ready"}] /\ cancelled' \in SUBSET Links
    BY <1>1, <1>3
  <1> QED BY <1>4, <1>5, <1>6, <1>7, SessionKeeps

LEMMA ClearKeeps ==
    ASSUME LinkConstants, L!LinkingInv, NEW p \in Links, L!Clear(p),
           UNCHANGED <<registered, answer, signed, sealed, handed, applied, did, request, mailboxes,
                       cancelled>>
    PROVE  L!LinkingInv'
  <1>1. /\ grant \in [L!Roads -> Creds \cup {None}] /\ phase \in [L!Roads -> 0..L!Complete]
        /\ session \in [Links -> {"none", "waiting", "ready"}] /\ cancelled \in SUBSET Links
        /\ 0 \in 0..L!Complete /\ p \in L!Roads /\ Links \subseteq L!Roads
    BY DEF L!LinkingInv, L!TypeOK, L!Complete, L!Roads
  <1>2. /\ session' = [session EXCEPT ![p] = "none"] /\ grant' = [grant EXCEPT ![p] = None]
        /\ phase' = [phase EXCEPT ![p] = 0]
    BY DEF L!Clear
  <1>3. /\ session' \in [Links -> {"none", "waiting", "ready"}]
        /\ grant' \in [L!Roads -> Creds \cup {None}] /\ phase' \in [L!Roads -> 0..L!Complete]
    BY <1>1, <1>2
  <1>4. L!Committed'
    BY <1>1, <1>2 DEF L!LinkingInv, L!Committed
  <1>5. \A x \in L!Roads : grant'[x] # None => grant'[x] = registered
    BY <1>1, <1>2 DEF L!LinkingInv, L!Granted
  <1>6. \A x \in L!Roads : phase'[x] = phase[x] \/ phase'[x] \in {0, L!Committing}
    BY <1>1, <1>2
  <1> QED BY <1>1, <1>3, <1>4, <1>5, <1>6, SessionKeeps

\* The answer is read into a session that is still there; it may be confirmed at once.
LEMMA ReadKeeps ==
    ASSUME LinkConstants, L!LinkingInv, NEW p \in Links, L!ReadAnswer(p)
    PROVE  L!LinkingInv'
  <1>1. UNCHANGED <<registered, answer, signed, sealed, handed, applied, did, request, mailboxes,
                    cancelled>>
    BY DEF L!ReadAnswer, L!relay, L!directory, L!root
  <1>2. /\ grant \in [L!Roads -> Creds \cup {None}] /\ phase \in [L!Roads -> 0..L!Complete]
        /\ session \in [Links -> {"none", "waiting", "ready"}] /\ cancelled \in SUBSET Links
        /\ L!Committing \in 0..L!Complete /\ p \in L!Roads /\ Links \subseteq L!Roads
    BY DEF L!LinkingInv, L!TypeOK, L!Complete, L!Committing, L!Roads
  <1>3. CASE L!Clear(p)
    BY <1>1, <1>3, ClearKeeps
  <1>4. CASE /\ sealed[p] \in Creds /\ L!Ready(p, sealed[p])
             /\ \/ session'[p] = "ready" /\ phase' = [phase EXCEPT ![p] = L!Committing]
                \/ UNCHANGED phase
    <2>1. sealed[p] = registered /\ sealed[p] # None
      BY <1>4 DEF L!LinkingInv, L!Granted, LinkConstants
    <2>2. CASE session[p] = "none"
      <3>1. UNCHANGED <<session, grant>>
        BY <1>4, <2>2 DEF L!Ready
      <3>2. UNCHANGED phase
        BY <1>4, <2>2, <3>1
      <3> QED BY <1>1, <3>1, <3>2, LinkQuiet DEF linkState
    <2>3. CASE session[p] # "none"
      <3>1. /\ session' = [session EXCEPT ![p] = "ready"] /\ grant' = [grant EXCEPT ![p] = sealed[p]]
            /\ p \notin cancelled
        BY <1>4, <2>3 DEF L!Ready, L!LinkingInv, L!Committed
      <3>2. /\ session' \in [Links -> {"none", "waiting", "ready"}]
            /\ grant' \in [L!Roads -> Creds \cup {None}] /\ phase' \in [L!Roads -> 0..L!Complete]
            /\ \A x \in L!Roads : phase'[x] = phase[x] \/ (x = p /\ phase'[x] = L!Committing)
        BY <1>2, <1>4, <3>1
      <3>3. L!Committed'
        <4>1. \A x \in L!Roads : phase'[x] > 0 => grant'[x] # None
          BY <1>2, <2>1, <3>1, <3>2 DEF L!LinkingInv, L!Committed
        <4>2. ASSUME NEW q \in Links
              PROVE  /\ phase'[q] > 0 => session'[q] = "ready"
                     /\ session'[q] = "ready" => grant'[q] # None
                     /\ q \in cancelled' => session'[q] = "none"
          <5>1. CASE q = p
            BY <1>1, <1>2, <2>1, <3>1, <5>1
          <5>2. CASE q # p
            <6>1. phase'[q] = phase[q] /\ session'[q] = session[q] /\ grant'[q] = grant[q]
              BY <1>2, <3>1, <3>2, <5>2
            <6> QED BY <1>1, <6>1 DEF L!LinkingInv, L!Committed
          <5> QED BY <5>1, <5>2
        <4> QED BY <4>1, <4>2 DEF L!Committed
      <3>4. \A x \in L!Roads : grant'[x] # None => grant'[x] = registered
        BY <1>2, <2>1, <3>1 DEF L!LinkingInv, L!Granted
      <3>5. \A x \in L!Roads : phase'[x] = phase[x] \/ phase'[x] \in {0, L!Committing}
        BY <3>2
      <3>6. cancelled' \in SUBSET Links
        BY <1>1, <1>2
      <3> QED BY <1>1, <3>2, <3>3, <3>4, <3>5, <3>6, SessionKeeps
    <2> QED BY <2>2, <2>3
  <1> QED BY <1>3, <1>4 DEF L!ReadAnswer

LEMMA CancelKeeps ==
    ASSUME LinkConstants, L!LinkingInv, NEW p \in Links, L!CancelPairing(p)
    PROVE  L!LinkingInv'
  <1>1. /\ UNCHANGED <<registered, answer, signed, sealed, handed, applied, did, request, mailboxes, phase>>
        /\ session' = [session EXCEPT ![p] = "none"] /\ grant' = [grant EXCEPT ![p] = None]
        /\ cancelled' = cancelled \cup {p} /\ phase[p] = 0
    BY DEF L!CancelPairing, L!relay, L!directory, L!root, L!finish
  <1>2. /\ grant \in [L!Roads -> Creds \cup {None}] /\ phase \in [L!Roads -> 0..L!Complete]
        /\ session \in [Links -> {"none", "waiting", "ready"}] /\ cancelled \in SUBSET Links
        /\ p \in L!Roads /\ Links \subseteq L!Roads
    BY DEF L!LinkingInv, L!TypeOK, L!Roads
  <1>3. /\ session' \in [Links -> {"none", "waiting", "ready"}] /\ cancelled' \in SUBSET Links
        /\ grant' \in [L!Roads -> Creds \cup {None}] /\ phase' \in [L!Roads -> 0..L!Complete]
    BY <1>1, <1>2
  <1>4. L!Committed'
    BY <1>1, <1>2 DEF L!LinkingInv, L!Committed
  <1>5. \A x \in L!Roads : grant'[x] # None => grant'[x] = registered
    BY <1>1, <1>2 DEF L!LinkingInv, L!Granted
  <1> QED BY <1>1, <1>3, <1>4, <1>5, SessionKeeps

LEMMA ConfirmKeeps ==
    ASSUME LinkConstants, L!LinkingInv, NEW p \in Links, L!ConfirmPairing(p)
    PROVE  L!LinkingInv'
  <1>1. /\ UNCHANGED <<registered, answer, signed, sealed, handed, applied, did, request, mailboxes, cancelled>>
        /\ session[p] = "ready"
    BY DEF L!ConfirmPairing, L!relay, L!directory, L!root
  <1>2. CASE L!Clear(p)
    BY <1>1, <1>2, ClearKeeps
  <1>3. CASE L!PairingCompletionBegin(p) /\ UNCHANGED <<session, grant>>
    <2>1. /\ grant \in [L!Roads -> Creds \cup {None}] /\ phase \in [L!Roads -> 0..L!Complete]
          /\ session \in [Links -> {"none", "waiting", "ready"}] /\ cancelled \in SUBSET Links
          /\ p \in L!Roads /\ Links \subseteq L!Roads /\ L!Committing \in 0..L!Complete
      BY DEF L!LinkingInv, L!TypeOK, L!Roads, L!Committing, L!Complete
    <2>2. phase' = [phase EXCEPT ![p] = IF phase[p] = 0 THEN L!Committing ELSE phase[p]]
      BY <1>3 DEF L!PairingCompletionBegin
    <2>3. /\ phase' \in [L!Roads -> 0..L!Complete]
          /\ \A x \in L!Roads : phase'[x] = phase[x] \/ phase'[x] \in {0, L!Committing}
          /\ \A x \in L!Roads : x # p => phase'[x] = phase[x]
      BY <2>1, <2>2
    <2>4. grant[p] # None
      BY <1>1 DEF L!LinkingInv, L!Committed
    <2>5. L!Committed'
      BY <1>1, <1>3, <2>1, <2>3, <2>4 DEF L!LinkingInv, L!Committed
    <2>6. \A x \in L!Roads : grant'[x] # None => grant'[x] = registered
      BY <1>3 DEF L!LinkingInv, L!Granted
    <2> QED BY <1>1, <1>3, <2>1, <2>3, <2>5, <2>6, SessionKeeps
  <1> QED BY <1>2, <1>3 DEF L!ConfirmPairing

LEMMA CompleteKeeps ==
    ASSUME LinkConstants, L!LinkingInv, L!CompleteLink
    PROVE  L!LinkingInv'
  <1>1. /\ UNCHANGED <<registered, answer, signed, sealed, handed, applied, did, request, mailboxes,
                       cancelled, session>>
        /\ handed # None /\ grant' = [grant EXCEPT ![Direct] = handed]
        /\ phase' = [phase EXCEPT ![Direct] = IF phase[Direct] = 0 THEN L!Committing ELSE phase[Direct]]
    BY DEF L!CompleteLink, L!LinkCompletionBegin, L!relay, L!directory, L!root
  <1>2. /\ grant \in [L!Roads -> Creds \cup {None}] /\ phase \in [L!Roads -> 0..L!Complete]
        /\ session \in [Links -> {"none", "waiting", "ready"}] /\ cancelled \in SUBSET Links
        /\ Direct \in L!Roads /\ Links \subseteq L!Roads /\ L!Committing \in 0..L!Complete
        /\ handed \in Creds /\ handed = registered /\ Direct \notin Links
    BY <1>1 DEF L!LinkingInv, L!TypeOK, L!Granted, L!Roads, L!Committing, L!Complete, LinkConstants
  <1>3. /\ phase' \in [L!Roads -> 0..L!Complete] /\ grant' \in [L!Roads -> Creds \cup {None}]
        /\ \A x \in L!Roads : phase'[x] = phase[x] \/ phase'[x] \in {0, L!Committing}
        /\ \A x \in L!Roads : x # Direct => phase'[x] = phase[x] /\ grant'[x] = grant[x]
        /\ grant'[Direct] = handed
    BY <1>1, <1>2
  <1>4. L!Committed'
    BY <1>1, <1>2, <1>3 DEF L!LinkingInv, L!Committed
  <1>5. \A x \in L!Roads : grant'[x] # None => grant'[x] = registered
    BY <1>2, <1>3 DEF L!LinkingInv, L!Granted
  <1> QED BY <1>1, <1>2, <1>3, <1>4, <1>5, SessionKeeps

LEMMA NewSideKeeps ==
    ASSUME LinkConstants, L!LinkingInv, NEW p \in Links, L!NewSide(p)
    PROVE  L!LinkingInv'
  <1>1. ASSUME NEW byCamera \in BOOLEAN, L!JoinLink(p, byCamera) PROVE L!LinkingInv'
    BY <1>1, StartKeeps DEF L!JoinLink, L!relay, L!directory, L!root
  <1>2. CASE L!BeginPairing(p)
    BY <1>2, StartKeeps DEF L!BeginPairing, L!directory, L!root
  <1>3. CASE L!AwaitPairing(p) \/ L!PutReply(p) \/ L!ReadNumber(p)
    <2>1. UNCHANGED linkState
      BY <1>3 DEF L!AwaitPairing, L!PutReply, L!ReadNumber, linkState, L!relay, L!directory, L!root,
                  L!finish
    <2> QED BY <2>1, LinkQuiet
  <1>4. CASE L!PutHello(p) \/ L!WaitStops(p)
    <2>1. /\ UNCHANGED <<registered, answer, signed, sealed, handed, applied, did, request, mailboxes,
                         cancelled>>
          /\ L!Clear(p) \/ UNCHANGED <<session, grant, phase>>
      BY <1>4 DEF L!PutHello, L!WaitStops, L!relay, L!directory, L!root
    <2>2. CASE L!Clear(p)
      BY <2>1, <2>2, ClearKeeps
    <2>3. CASE UNCHANGED <<session, grant, phase>>
      BY <2>1, <2>3, LinkQuiet DEF linkState
    <2> QED BY <2>1, <2>2, <2>3
  <1>5. CASE L!ReadAnswer(p)
    BY <1>5, ReadKeeps
  <1>6. CASE L!CancelPairing(p)
    BY <1>6, CancelKeeps
  <1> QED BY <1>1, <1>2, <1>3, <1>4, <1>5, <1>6 DEF L!NewSide

-----------------------------------------------------------------------------
(* The completion.                                                           *)

\* Every grant is the registered credential, so a second completion never
\* finds another one applied.
LEMMA ApplyKeeps ==
    ASSUME LinkConstants, L!LinkingInv, NEW x \in L!Roads, L!ApplyGrant(x)
    PROVE  L!LinkingInv'
  <1>1. /\ UNCHANGED <<registered, answer, signed, sealed, handed, session, request, mailboxes, cancelled>>
        /\ phase[x] = L!Committing /\ (did < L!LocalApplied \/ applied # grant[x])
    BY DEF L!ApplyGrant, L!relay, L!directory, L!root
  <1>2. grant[x] # None /\ grant[x] = registered
    BY <1>1 DEF L!LinkingInv, L!Granted, L!Committed, L!Committing
  <1>3. applied = None
    <2>1. applied # None => applied = registered /\ did >= L!LocalApplied /\ did \in Nat
      BY DEF L!LinkingInv, L!TypeOK, L!Granted, L!Durable, L!LocalApplied, L!KeyPackagesPublished
    <2> QED BY <1>1, <1>2, <2>1 DEF L!LocalApplied
  <1>4. applied' = grant[x] /\ did' = L!LocalApplied /\ UNCHANGED <<phase, grant>>
    BY <1>3 DEF L!ApplyGrant
  <1>5. did = 0
    BY <1>3 DEF L!LinkingInv, L!Durable
  <1>6. \A y \in L!Roads : phase[y] < L!LocalApplied
    BY <1>5 DEF L!LinkingInv, L!TypeOK, L!Durable, L!LocalApplied, L!Complete, L!KeyPackagesPublished
  <1>7. L!TypeOK'
    BY <1>1, <1>2, <1>4 DEF L!LinkingInv, L!TypeOK, L!LocalApplied, L!KeyPackagesPublished
  <1>8. L!Granted'
    BY <1>1, <1>2, <1>4 DEF L!LinkingInv, L!Granted
  <1>9. L!Committed'
    BY <1>1, <1>4 DEF L!LinkingInv, L!Committed
  <1>10. L!Durable'
    BY <1>1, <1>2, <1>4, <1>6 DEF L!LinkingInv, L!TypeOK, L!Durable, L!LocalApplied, L!MailboxStored, L!Complete
  <1> QED BY <1>7, <1>8, <1>9, <1>10 DEF L!LinkingInv

\* What is durable grows.
LEMMA DidGrows ==
    ASSUME L!LinkingInv, did' \in L!LocalApplied..L!KeyPackagesPublished, did >= L!LocalApplied, did' >= did,
           request' \in Keys \cup {None}, mailboxes' \in SUBSET Keys,
           mailboxes' \subseteq {request'}, request' = None => mailboxes' = {},
           did' >= L!MailboxStored => mailboxes' = {request'},
           UNCHANGED <<registered, answer, signed, sealed, handed, session, grant, phase, applied,
                       cancelled>>
    PROVE  L!LinkingInv'
  <1>1. L!TypeOK'
    BY DEF L!LinkingInv, L!TypeOK
  <1>2. L!Granted' /\ L!Committed'
    BY DEF L!LinkingInv, L!Granted, L!Committed
  <1>3. did \in Nat /\ did' \in Nat /\ did' <= L!KeyPackagesPublished /\ did # 0 /\ did' # 0
    BY DEF L!LinkingInv, L!TypeOK, L!LocalApplied, L!KeyPackagesPublished
  <1>4. \A x \in L!Roads : phase'[x] >= L!LocalApplied =>
            did' >= phase'[x] \/ (phase'[x] = L!Complete /\ did' = L!KeyPackagesPublished)
    BY <1>3 DEF L!LinkingInv, L!TypeOK, L!Durable, L!KeyPackagesPublished, L!Complete
  <1>5. L!Durable'
    BY <1>3, <1>4 DEF L!LinkingInv, L!Durable
  <1> QED BY <1>1, <1>2, <1>5 DEF L!LinkingInv

LEMMA EffectKeeps ==
    ASSUME L!LinkingInv, NEW x \in L!Roads, L!DoEffect(x)
    PROVE  L!LinkingInv'
  <1>1. /\ UNCHANGED <<registered, answer, signed, sealed, handed, session, grant, phase, applied,
                       cancelled, request, mailboxes>>
        /\ phase[x] >= L!LocalApplied /\ did = phase[x] /\ did < L!KeyPackagesPublished
        /\ did + 1 # L!MailboxStored /\ did' = did + 1
    BY DEF L!DoEffect, L!relay, L!directory, L!root, L!sessions
  <1>2. did \in 2..6
    BY <1>1 DEF L!LinkingInv, L!TypeOK, L!LocalApplied, L!KeyPackagesPublished
  <1>3. /\ did' \in L!LocalApplied..L!KeyPackagesPublished /\ did' >= did /\ did >= L!LocalApplied
        /\ did' >= L!MailboxStored => did >= L!MailboxStored
    BY <1>1, <1>2 DEF L!LocalApplied, L!KeyPackagesPublished, L!MailboxStored
  <1>4. /\ request \in Keys \cup {None} /\ mailboxes \in SUBSET Keys
        /\ mailboxes \subseteq {request} /\ (request = None => mailboxes = {})
        /\ did >= L!MailboxStored => mailboxes = {request}
    BY DEF L!LinkingInv, L!TypeOK, L!Durable
  <1> QED BY <1>1, <1>3, <1>4, DidGrows

LEMMA MailboxKeeps ==
    ASSUME LinkConstants, L!LinkingInv, NEW x \in L!Roads, L!CreateMailbox(x)
    PROVE  L!LinkingInv'
  <1>1. /\ UNCHANGED <<registered, answer, signed, sealed, handed, session, grant, phase, applied,
                       cancelled>>
        /\ phase[x] = L!MailboxStored - 1 /\ did = phase[x]
    BY DEF L!CreateMailbox, L!relay, L!directory, L!root, L!sessions
  <1>2. PICK k \in Keys :
          /\ L!MailboxRequest(k) /\ request' = k
          /\ \/ mailboxes' = mailboxes \cup {k} /\ did' \in {L!MailboxStored, did}
             \/ UNCHANGED <<mailboxes, did>>
    BY DEF L!CreateMailbox
  <1>3. mailboxes \subseteq {k} /\ k # None /\ mailboxes \in SUBSET Keys
    BY <1>2 DEF L!MailboxRequest, L!LinkingInv, L!TypeOK, L!Durable, LinkConstants
  <1>4. did = 5 /\ did' \in {5, 6}
    BY <1>1, <1>2 DEF L!MailboxStored
  <1>5. /\ did' \in L!LocalApplied..L!KeyPackagesPublished /\ did' >= did /\ did >= L!LocalApplied
        /\ did' >= L!MailboxStored => did' = L!MailboxStored /\ did' # did
    BY <1>4 DEF L!LocalApplied, L!KeyPackagesPublished, L!MailboxStored
  <1>6. /\ request' \in Keys \cup {None} /\ mailboxes' \in SUBSET Keys
        /\ mailboxes' \subseteq {request'} /\ (request' = None => mailboxes' = {})
        /\ did' >= L!MailboxStored => mailboxes' = {request'}
    BY <1>2, <1>3, <1>5
  <1> QED BY <1>1, <1>5, <1>6, DidGrows

LEMMA AdvanceKeeps ==
    ASSUME L!LinkingInv, NEW x \in L!Roads, L!AdvanceCompletion(x)
    PROVE  L!LinkingInv'
  <1>1. /\ UNCHANGED <<registered, answer, signed, sealed, handed, session, grant, applied, did,
                       request, mailboxes, cancelled>>
        /\ phase[x] \in L!Committing..(L!Complete - 1)
        /\ did > phase[x] \/ phase[x] = L!KeyPackagesPublished
        /\ phase' = [phase EXCEPT ![x] = phase[x] + 1]
    BY DEF L!AdvanceCompletion, L!Working, L!Advanceable, L!relay, L!directory, L!root, L!sessions
  <1>2. /\ phase \in [L!Roads -> 0..8] /\ did \in {0} \cup 2..7
    BY DEF L!LinkingInv, L!TypeOK, L!Complete, L!LocalApplied, L!KeyPackagesPublished
  <1>3. phase[x] \in 1..7
    BY <1>1 DEF L!Committing, L!Complete
  <1>4. /\ phase' \in [L!Roads -> 0..8] /\ phase'[x] = phase[x] + 1
        /\ \A y \in L!Roads : y # x => phase'[y] = phase[y]
    BY <1>1, <1>2, <1>3
  <1>5. L!TypeOK'
    BY <1>1, <1>4 DEF L!LinkingInv, L!TypeOK, L!Complete
  <1>6. L!Granted'
    BY <1>1 DEF L!LinkingInv, L!Granted
  <1>7. L!Committed'
    <2>1. \A y \in L!Roads : phase'[y] > 0 => phase[y] > 0
      BY <1>2, <1>3, <1>4
    <2> QED BY <1>1, <2>1 DEF L!LinkingInv, L!Committed, L!Roads
  <1>8. L!Durable'
    <2>1. did > phase[x] \/ (phase[x] = 7 /\ did = 7)
      <3>1. CASE did > phase[x]
        BY <3>1
      <3>2. CASE phase[x] = L!KeyPackagesPublished
        BY <1>2, <3>2 DEF L!LinkingInv, L!Durable, L!LocalApplied, L!KeyPackagesPublished, L!Complete
      <3> QED BY <1>1, <3>1, <3>2
    <2>2. did >= phase[x] + 1 \/ (phase[x] + 1 = 8 /\ did = 7)
      BY <1>2, <1>3, <2>1
    <2>3. \A y \in L!Roads : phase'[y] >= L!LocalApplied =>
              did >= phase'[y] \/ (phase'[y] = L!Complete /\ did = L!KeyPackagesPublished)
      BY <1>4, <2>2 DEF L!LinkingInv, L!Durable, L!Complete, L!KeyPackagesPublished
    <2> QED BY <1>1, <2>3 DEF L!LinkingInv, L!Durable
  <1> QED BY <1>5, <1>6, <1>7, <1>8 DEF L!LinkingInv

LEMMA LinkStep == LinkConstants /\ L!LinkingInv /\ [L!Next]_L!vars => L!LinkingInv'
  <1> SUFFICES ASSUME LinkConstants, L!LinkingInv, [L!Next]_L!vars PROVE L!LinkingInv'
    OBVIOUS
  <1>1. ASSUME NEW p \in Links, L!RootSide(p) PROVE L!LinkingInv'
    BY <1>1, RootSideKeeps
  <1>2. ASSUME NEW p \in Links, L!NewSide(p) PROVE L!LinkingInv'
    BY <1>2, NewSideKeeps
  <1>3. ASSUME NEW p \in Links, L!ConfirmPairing(p) PROVE L!LinkingInv'
    BY <1>3, ConfirmKeeps
  <1>4. ASSUME NEW p \in Links, L!Expire(p) PROVE L!LinkingInv'
    BY <1>4, LinkQuiet DEF L!Expire, linkState, L!directory, L!root, L!sessions, L!finish
  <1>5. ASSUME NEW x \in L!Roads, L!Sign(x) PROVE L!LinkingInv'
    BY <1>5, SignKeeps, PublishKeeps, CheckKeeps, RegisterKeeps, SealKeeps DEF L!Sign
  <1>6. ASSUME NEW x \in L!Roads, L!Finish(x) PROVE L!LinkingInv'
    BY <1>6, ApplyKeeps, EffectKeeps, MailboxKeeps, AdvanceKeeps DEF L!Finish
  <1>7. CASE L!CrashRoot \/ L!AuthorizeLink
    BY <1>7, CrashRootKeeps
  <1>8. CASE L!CompleteLink
    BY <1>8, CompleteKeeps
  <1>9. CASE L!DeviceRevoke \/ L!PublishRevocation \/ L!FinishStops \/ L!CrashNew
    <2>1. UNCHANGED linkState
      BY <1>9 DEF L!DeviceRevoke, L!PublishRevocation, L!PublishManifest, L!FinishStops, L!CrashNew,
                  linkState, L!relay, L!directory, L!root, L!sessions, L!finish
    <2> QED BY <2>1, LinkQuiet
  <1>10. CASE UNCHANGED L!vars
    <2>1. UNCHANGED linkState
      BY <1>10 DEF L!vars, linkState, L!relay, L!directory, L!root, L!sessions, L!finish
    <2> QED BY <2>1, LinkQuiet
  <1> QED BY <1>1, <1>2, <1>3, <1>4, <1>5, <1>6, <1>7, <1>8, <1>9, <1>10 DEF L!Next

\* Whatever is lost, repeated, cancelled or revoked on the way, a grant is the
\* registered credential and the durable effects are ahead of the phases.
THEOREM LinkingInvariance ==
    ASSUME LinkConstants PROVE L!Spec => []L!LinkingInv
  BY LinkInit, LinkStep, PTL DEF L!Spec

LEMMA PhaseHolds ==
    ASSUME LinkConstants, L!LinkingInv PROVE L!PhaseTruthful
  <1> SUFFICES ASSUME NEW x \in L!Roads, phase[x] >= L!LocalApplied
               PROVE  /\ x \notin cancelled
                      /\ applied = grant[x] /\ registered = applied
                      /\ phase[x] \in {L!KeyPackagesPublished, L!Complete} \/ did >= phase[x]
                      /\ phase[x] >= L!MailboxStored => mailboxes = {request}
                      /\ phase[x] = L!Complete => did = L!KeyPackagesPublished
    BY DEF L!PhaseTruthful
  <1>1. phase[x] \in 2..8 /\ did \in {0} \cup 2..7
    BY DEF L!LinkingInv, L!TypeOK, L!Complete, L!LocalApplied, L!KeyPackagesPublished
  <1>2. did >= phase[x] \/ (phase[x] = 8 /\ did = 7)
    BY DEF L!LinkingInv, L!Durable, L!Complete, L!KeyPackagesPublished
  <1>3. applied # None /\ applied = registered
    BY <1>1, <1>2 DEF L!LinkingInv, L!Durable, L!Granted
  <1>4. grant[x] = registered
    BY <1>1 DEF L!LinkingInv, L!Committed, L!Granted
  <1>5. x \notin cancelled
    BY <1>1 DEF L!LinkingInv, L!Committed, L!TypeOK, L!Roads
  <1>6. phase[x] >= 6 => did >= 6
    BY <1>1, <1>2
  <1>7. phase[x] >= L!MailboxStored => mailboxes = {request}
    BY <1>6 DEF L!LinkingInv, L!Durable, L!MailboxStored
  <1>8. phase[x] = L!Complete => did = L!KeyPackagesPublished
    BY <1>1, <1>2 DEF L!Complete, L!KeyPackagesPublished
  <1> QED BY <1>2, <1>3, <1>4, <1>5, <1>7, <1>8 DEF L!Complete

\* A recorded phase claims no more than is durable on both sides, for any number
\* of rendezvous, of credentials signed and of interruptions.
THEOREM PhasesStayTruthful ==
    ASSUME LinkConstants PROVE L!Spec => []L!PhaseTruthful
  BY LinkingInvariance, PhaseHolds, PTL
=============================================================================
