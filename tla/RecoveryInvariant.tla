--------------------------- MODULE RecoveryInvariant ---------------------------
(* The inductive invariant behind the safety properties of Recovery. *)
EXTENDS Recovery

Manifests == Seq(Body) \ {<<>>}
Statuses == [Credentials -> {"none", "active", "revoked"}]
Receipts == [Profiles -> {None} \cup [manifest : Manifests, previous : Nat]]

TypeOK ==
    /\ stored \in Manifests
    /\ status \in Statuses
    /\ receipts \in Receipts
    /\ snapshot \in {None} \cup [stored : Manifests, status : Statuses, receipts : Receipts]
    /\ restores \in Nat
    /\ registering \subseteq Linked /\ late \subseteq Linked
    /\ members \subseteq Profiles
    /\ manifest \in [Profiles -> Seq(Body)]
    /\ rows \in [Profiles -> SUBSET Linked]
    /\ linking \in [Profiles -> {None} \cup [device : Linked, manifest : Manifests, put : BOOLEAN]]
    /\ journal \in [Profiles -> [Linked -> {"none", "pending", "published"}]]
    /\ recovery \in [Profiles -> {None} \cup [kit : Manifests, previous : Nat \cup {None},
                                              complete : BOOLEAN]]
    /\ exported \in [Profiles -> Nat]
    /\ saved \in [Profiles -> Nat]
    /\ kits \subseteq Manifests
    /\ behind \in [Profiles -> BOOLEAN]

\* What is listed was linked or restored, nothing is listed as both active and
\* revoked, and no manifest older than the one a profile comes back with lists
\* that profile.
Sound(m) ==
    /\ Last(m).active \cap Last(m).revoked = {}
    /\ \A x \in Linked \cap Listed(m) : \E q \in Profiles : x \in rows[q]
    /\ \A q \in Profiles \cap Listed(m) :
          manifest[q] # <<>> /\ (Resumable(q) => Len(m) >= Len(manifest[q]))

ManifestsSound ==
    /\ Sound(stored)
    /\ \A p \in Profiles : manifest[p] # <<>> => Sound(manifest[p])
    /\ \A k \in kits : Sound(k)
    /\ \A p \in Profiles : linking[p] # None => Sound(linking[p].manifest)
    /\ snapshot # None => Sound(snapshot.stored)

\* A recovery that is not complete waits with the manifest its kit led to.
RecoveringSound ==
    \A p \in Profiles : Resumable(p) =>
        /\ recovery[p].kit \in kits
        /\ manifest[p] = Append(recovery[p].kit, [active |-> {p}, revoked |-> Listed(recovery[p].kit)])

\* A recovery in a relay's tables: whom it shut out, how new the relay's
\* manifest is since, and what it answered.
ReceiptSound(p, r, s, st) ==
    /\ manifest[p] # <<>>
    /\ Front(r.manifest) \in kits
    /\ Len(s) >= Len(r.manifest)
    /\ \A q \in Profiles : q \in Listed(Front(r.manifest)) => st[q] # "active"
    /\ behind[p] <=> r.previous < Len(recovery[p].kit)

ReceiptsSound ==
    /\ \A p \in Profiles : receipts[p] # None => ReceiptSound(p, receipts[p], stored, status)
    /\ snapshot # None =>
          \A p \in Profiles : snapshot.receipts[p] # None =>
              /\ ReceiptSound(p, snapshot.receipts[p], snapshot.stored, snapshot.status)
              /\ receipts[p] = snapshot.receipts[p]

\* The two tables of a relay are in step, in the snapshot too, but for what was
\* inserted late.
InStep(s, st) == \A c \in Last(s).revoked : st[c] = "active" => c \in late
TablesInStep == InStep(stored, status) /\ (snapshot # None => InStep(snapshot.stored, snapshot.status))

\* A kit that was exported or confirmed is of an older manifest or of this one.
KitOf(p, n) ==
    n # 0 => n <= Len(manifest[p]) /\ (n = Len(manifest[p]) => manifest[p] \in kits)
KitsSound == \A p \in Profiles : KitOf(p, exported[p]) /\ KitOf(p, saved[p])

RecoveryInv ==
    /\ TypeOK /\ ManifestsSound /\ RecoveringSound /\ ReceiptsSound /\ TablesInStep
    /\ WarningTruthful /\ KitsSound
================================================================================
