------------------------------- MODULE Groups -------------------------------
(***************************************************************************)
(* The members of one conversation while devices are revoked, added and    *)
(* removed (arveil-app lib.rs and devices.rs, arveil-core mls/policy.rs,   *)
(* client.rs and device_store.rs, relay store.go).  There is no election:  *)
(* every member decides by itself which leaf may commit, the lowest one it *)
(* does not know to be revoked, and what it knows comes from the manifests *)
(* it accepted, from the relay or from the group, in whatever order they   *)
(* reach it.  The device that holds an identity's root revokes; a journal  *)
(* carries the revocation to the relay and into the group across failed    *)
(* passes.                                                                 *)
(*                                                                         *)
(* Mail is delivered once and in the order it was put (module Delivery);   *)
(* one device holds each root, so the manifests of an identity are a line. *)
(***************************************************************************)
EXTENDS Integers, Sequences, FiniteSets

CONSTANTS Device,
          Identity,
          Owner,        \* Owner[d]: whose device d is
          Admin,        \* the devices that hold a root, at most one of an identity
          First,        \* the first members, in the order of their leaves
          NoDevice,     \* a blank leaf
          MaxManifest,  \* bound: manifests of one identity
          MaxEpoch,     \* bound: commits a member may be behind
          MaxStops      \* bound: passes cut short

ASSUME GroupsAssumption ==
    /\ IsFiniteSet(Device) /\ NoDevice \notin Device
    /\ Owner \in [Device -> Identity]
    /\ Admin \subseteq Device
    /\ \A a, b \in Admin : Owner[a] = Owner[b] => a = b
    /\ First \in Seq(Device) /\ First # <<>>
    /\ \A i, j \in DOMAIN First : First[i] = First[j] => i = j
    /\ MaxManifest \in Nat /\ MaxEpoch \in Nat /\ MaxStops \in Nat

Leaf == 1 .. Cardinality(Device)
Founders == {First[i] : i \in DOMAIN First}

VARIABLES signed,    \* signed[i][n]: the devices manifest n of identity i revokes
          relay,     \* relay[i]: the newest manifest the relay holds
          known,     \* known[d][i]: the newest manifest of i that d accepted
          rows,      \* rows[d]: the devices d has a route of in this conversation
          marked,    \* marked[d]: the routes of d that are marked revoked
          journal,   \* journal[d]: the devices d revoked, in order
          announced, \* announced[d]: those whose notice is queued for the group
          told,      \* told[d]: those whose publication the relay confirmed
          group,     \* group[d]: the commits d's MLS state has applied
          outbox,    \* outbox[d]: messages and the recipients left
          mail,      \* mail[d]: what waits in d's mailbox
          pass,      \* pass[d]: the sync or revocation that runs on d
          claimed,   \* claimed[d]: the newcomer whose key package an add of d holds
          stops

manifests == <<signed, relay>>
tables == <<known, rows, marked>>
record == <<journal, announced, told>>
vars == <<manifests, tables, record, group, outbox, mail, pass, claimed, stops>>
-----------------------------------------------------------------------------
(* The tree of a group: which device holds which leaf.  A commit carries    *)
(* the tree it leads to; a removed device leaves a blank, an added one      *)
(* takes the lowest blank.                                                  *)

Tree(s) == s[Len(s)].tree
Members(t) == {t[i] : i \in Leaf} \ {NoDevice}
LeafOf(t, d) == CHOOSE i \in Leaf : t[i] = d
Blank(t) == CHOOSE i \in Leaf : t[i] = NoDevice /\ \A j \in 1 .. (i - 1) : t[j] # NoDevice

Removal(s, d, x) ==
    Append(s, [by |-> d, out |-> {x},
               tree |-> [Tree(s) EXCEPT ![LeafOf(Tree(s), x)] = NoDevice]])
Addition(s, d, c) ==
    Append(s, [by |-> d, out |-> {}, tree |-> [Tree(s) EXCEPT ![Blank(Tree(s))] = c]])

RevokedBy(i, n) == IF n = 0 THEN {} ELSE signed[i][n]
Signed(i) == RevokedBy(i, Len(signed[i]))
\* Whom the relay refuses: their handshakes, and mail to them.
Refused == UNION {RevokedBy(i, relay[i]) : i \in Identity}

\* identity_devices: the root's device knows all it linked, another only itself.
OwnRows(d) == IF d \in Admin THEN {x \in Device : Owner[x] = Owner[d]} ELSE {d}

\* device_revoked: a marked route, or an own device that the newest manifest
\* of this identity revokes (its row is marked when the manifest is stored).
KnownRevoked(d) == marked[d] \cup (OwnRows(d) \cap RevokedBy(Owner[d], known[d][Owner[d]]))

\* committer_leaf: the lowest leaf d does not know to be revoked.
IAmCommitter(d, t) ==
    /\ d \in Members(t) \ KnownRevoked(d)
    /\ \A i \in 1 .. (LeafOf(t, d) - 1) : t[i] \in KnownRevoked(d) \cup {NoDevice}

\* As a bug would have it: the committer answers for itself.
PermitsAny(d, t, by, out) ==
    d = by \/ \A i \in 1 .. (LeafOf(t, by) - 1) : t[i] # NoDevice => t[i] \in out

\* PolicyRules, asked by d of a commit: every leaf below the committer is known
\* to be revoked and goes with this very commit.
Permits(d, t, by, out) ==
    \A i \in 1 .. (LeafOf(t, by) - 1) :
        t[i] # NoDevice => t[i] \in KnownRevoked(d) /\ t[i] \in out
-----------------------------------------------------------------------------
Idle == [at |-> "idle", task |-> "sync", k |-> 0, todo |-> {}]

Start == << [by |-> First[1], out |-> {},
             tree |-> [i \in Leaf |-> IF i \in DOMAIN First THEN First[i] ELSE NoDevice]] >>

Init ==
    /\ signed = [i \in Identity |-> << {} >>]
    /\ relay = [i \in Identity |-> 1]
    /\ known = [d \in Device |-> [i \in Identity |->
                   IF i = Owner[d] \/ (d \in Founders /\ \E x \in Founders : Owner[x] = i) THEN 1 ELSE 0]]
    /\ rows = [d \in Device |-> IF d \in Founders THEN Founders \ {d} ELSE {}]
    /\ marked = [d \in Device |-> {}]
    /\ journal = [d \in Device |-> <<>>]
    /\ announced = [d \in Device |-> {}] /\ told = [d \in Device |-> {}]
    /\ group = [d \in Device |-> IF d \in Founders THEN Start ELSE <<>>]
    /\ outbox = [d \in Device |-> <<>>] /\ mail = [d \in Device |-> <<>>]
    /\ pass = [d \in Device |-> Idle]
    /\ claimed = [d \in Device |-> {}]
    /\ stops = 0

Stop == stops < MaxStops /\ stops' = stops + 1
Finish(d) == pass' = [pass EXCEPT ![d] = Idle]

\* Where a pass goes next; a stage with nothing to do is passed over.  A sync
\* puts what is pending before it reads; the puts that end a pass are Put's.
Owed(d) == {journal[d][k] : k \in DOMAIN journal[d]} \ told[d]
Refreshing(d) == [Idle EXCEPT !.at = "refresh", !.todo = {Owner[d]} \cup {Owner[x] : x \in rows[d]}]
Putting(d, task) ==
    IF task = "revoke" THEN Idle
    ELSE IF outbox[d] = <<>> THEN Refreshing(d)
    ELSE [Idle EXCEPT !.at = "pending", !.k = Len(outbox[d])]
Connecting(d, task) ==
    IF d \in Refused THEN Idle
    ELSE IF Owed(d) = {} THEN Putting(d, task) ELSE [Idle EXCEPT !.at = "publish", !.task = task]
Ending(d) ==
    IF journal[d] = <<>> THEN Idle ELSE [Idle EXCEPT !.at = "again", !.k = 1]

\* enqueue_for_all: a copy for every routed device not marked revoked; the
\* copies are queued in random order, so the order is chosen when they are put.
Fan(d, message, peers) ==
    IF peers \ marked[d] = {} THEN <<>> ELSE << [message |-> message, to |-> peers \ marked[d]] >>
-----------------------------------------------------------------------------
(* The root's device signs.                                                 *)

\* RevokeDevice: sign the next manifest, mark and journal in one unit; a
\* device already revoked is not signed for again.  The work is then prepared.
RevokeDevice(d, x) ==
    /\ pass[d].at = "idle"
    /\ d \in Admin /\ x # d /\ Owner[x] = Owner[d]
    /\ x \notin Signed(Owner[d]) => Len(signed[Owner[d]]) < MaxManifest
    /\ IF x \in Signed(Owner[d])
       THEN UNCHANGED <<signed, known, journal>>
       ELSE /\ signed' = [signed EXCEPT ![Owner[d]] = Append(@, Signed(Owner[d]) \cup {x})]
            /\ known' = [known EXCEPT ![d][Owner[d]] = @ + 1]
            /\ journal' = [journal EXCEPT ![d] = Append(@, x)]
    /\ marked' = [marked EXCEPT ![d] = @ \cup ({x} \cap rows[d])]
    /\ pass' = [pass EXCEPT ![d] = [at |-> "prepare", task |-> "revoke", k |-> 1, todo |-> {}]]
    /\ UNCHANGED <<relay, rows, announced, told, group, outbox, mail, claimed, stops>>

\* Linking a device signs a manifest too, and puts it on the relay (Linking).
LinkDevice(d) ==
    /\ d \in Admin
    /\ Len(signed[Owner[d]]) < MaxManifest
    /\ signed' = [signed EXCEPT ![Owner[d]] = Append(@, Signed(Owner[d]))]
    /\ known' = [known EXCEPT ![d][Owner[d]] = @ + 1]
    /\ UNCHANGED <<relay, rows, marked, record, group, outbox, mail, pass, claimed, stops>>

PutLinked(d) ==
    /\ d \in Admin \ Refused
    /\ relay[Owner[d]] < known[d][Owner[d]]
    /\ relay' = [relay EXCEPT ![Owner[d]] = known[d][Owner[d]]]
    /\ UNCHANGED <<signed, tables, record, group, outbox, mail, pass, claimed, stops>>
-----------------------------------------------------------------------------
(* A pass of sync, and of a revocation: prepare, connect, publish the       *)
(* manifest, put what is pending; sync then refreshes the manifests of      *)
(* everyone it knows, processes a page of mail, prepares again and puts.    *)

Sync(d) ==
    /\ pass[d].at = "idle"
    /\ pass' = [pass EXCEPT ![d] = IF journal[d] = <<>> THEN Connecting(d, "sync")
                                   ELSE [at |-> "prepare", task |-> "sync", k |-> 1, todo |-> {}]]
    /\ UNCHANGED <<manifests, tables, record, group, outbox, mail, claimed, stops>>

\* One entry of the journal: the notice once, the removal once this device is
\* the committer, both in one unit.  A removal its own policy refuses ends the
\* command.
Prepare(d) ==
    /\ pass[d].at \in {"prepare", "again"} /\ pass[d].k <= Len(journal[d])
    /\ LET r == journal[d][pass[d].k]
           t == Tree(group[d])
           remove == r \in Members(t) /\ IAmCommitter(d, t)
           notice == [kind |-> "manifest", on |-> group[d], id |-> Owner[d], n |-> known[d][Owner[d]]]
           commit == [kind |-> "commit", on |-> group[d], next |-> Removal(group[d], d, r)]
           next == pass' = [pass EXCEPT ![d].k = @ + 1]
       IN  \/ /\ group[d] = <<>> \/ (r \in announced[d] /\ ~remove)
              /\ next
              /\ UNCHANGED <<group, outbox, announced>>
           \/ /\ group[d] # <<>> /\ remove /\ ~Permits(d, t, d, {r})
              /\ Finish(d)
              /\ UNCHANGED <<group, outbox, announced>>
           \/ /\ group[d] # <<>> /\ (r \notin announced[d] \/ remove)
              /\ remove => Permits(d, t, d, {r})
              /\ outbox' = [outbox EXCEPT ![d] = @
                               \o (IF r \in announced[d] THEN <<>> ELSE Fan(d, notice, rows[d]))
                               \o (IF remove THEN Fan(d, commit, rows[d]) ELSE <<>>)]
              /\ group' = [group EXCEPT ![d] = IF remove THEN Removal(@, d, r) ELSE @]
              /\ announced' = [announced EXCEPT ![d] = @ \cup {r}]
              /\ next
    /\ UNCHANGED <<manifests, tables, journal, told, mail, claimed, stops>>

\* The journal is done: connect, or end with what the second look queued.
Prepared(d) ==
    /\ pass[d].at \in {"prepare", "again"} /\ pass[d].k > Len(journal[d])
    /\ pass' = [pass EXCEPT ![d] = IF @.at = "prepare" THEN Connecting(d, @.task) ELSE Idle]
    /\ UNCHANGED <<manifests, tables, record, group, outbox, mail, claimed, stops>>

\* devices::publish: the newest local manifest, for the revocations not yet
\* confirmed.  The relay refuses one behind its own.  The answer may be lost.
Publish(d) ==
    /\ pass[d].at = "publish"
    /\ known[d][Owner[d]] >= relay[Owner[d]]
    /\ relay' = [relay EXCEPT ![Owner[d]] = known[d][Owner[d]]]
    /\ \/ /\ told' = [told EXCEPT ![d] = @ \cup Owed(d)]
          /\ pass' = [pass EXCEPT ![d] = Putting(d, @.task)]
          /\ UNCHANGED stops
       \/ Stop /\ Finish(d) /\ UNCHANGED told
    /\ UNCHANGED <<signed, tables, journal, announced, group, outbox, mail, claimed>>

\* publish_pending puts one copy; one for a refused mailbox is undeliverable.
\* Every command that sends puts all that is pending, over a connection the
\* relay does not end when its device is revoked: a put can come at any time.
Put(d) ==
    /\ outbox[d] # <<>>
    /\ \E x \in Head(outbox[d]).to :
          LET batch == Head(outbox[d])
              last == batch.to = {x}
          IN  /\ outbox' = [outbox EXCEPT ![d] =
                               IF last THEN Tail(@) ELSE << [batch EXCEPT !.to = @ \ {x}] >> \o Tail(@)]
              /\ mail' = IF x \in Refused THEN mail ELSE [mail EXCEPT ![x] = Append(@, batch.message)]
              /\ pass' = [pass EXCEPT ![d].k =
                             IF last /\ pass[d].at = "pending" /\ @ > 0 THEN @ - 1 ELSE @]
    /\ UNCHANGED <<manifests, tables, record, group, claimed, stops>>

\* What was pending when the pass looked has been put.
PutAll(d) ==
    /\ pass[d].at = "pending" /\ pass[d].k = 0
    /\ pass' = [pass EXCEPT ![d] = Refreshing(d)]
    /\ UNCHANGED <<manifests, tables, record, group, outbox, mail, claimed, stops>>

\* accept_manifest: nothing behind what is known.  Whether or not it is new,
\* the rows it revokes are marked.
Accept(d, i, n) ==
    /\ known' = [known EXCEPT ![d][i] = n]
    /\ marked' = [marked EXCEPT ![d] = @ \cup (RevokedBy(i, n) \cap rows[d])]

\* refresh_manifests, one identity at a time; an older one is reported only.
Refresh(d) ==
    /\ pass[d].at = "refresh"
    /\ \E i \in pass[d].todo :
          /\ IF relay[i] >= known[d][i] THEN Accept(d, i, relay[i]) ELSE UNCHANGED <<known, marked>>
          /\ pass' = [pass EXCEPT ![d].todo = @ \ {i}]
    /\ UNCHANGED <<manifests, rows, record, group, outbox, mail, claimed, stops>>

Fetch(d) ==
    /\ pass[d].at = "refresh" /\ pass[d].todo = {}
    /\ pass' = [pass EXCEPT ![d] = IF mail[d] = <<>> THEN Ending(d)
                                   ELSE [Idle EXCEPT !.at = "receive", !.k = Len(mail[d])]]
    /\ UNCHANGED <<manifests, tables, record, group, outbox, mail, claimed, stops>>

\* handle_mls: a message of an epoch on this member's line is readable, a
\* commit applies to the epoch this member is in and only under its policy, a
\* manifest is believed under a root known here and never backwards.
OnLine(s, t) == Len(s) <= Len(t) /\ SubSeq(t, 1, Len(s)) = s
Processable(d, m) ==
    CASE m.kind = "welcome" -> TRUE
      [] m.kind = "commit" -> /\ group[d] = m.on
                              /\ Permits(d, Tree(m.on), m.next[Len(m.next)].by, m.next[Len(m.next)].out)
      [] m.kind = "roster" -> group[d] # <<>> /\ OnLine(m.on, group[d])
      [] m.kind = "manifest" -> /\ group[d] # <<>> /\ OnLine(m.on, group[d])
                                /\ m.id \in {Owner[x] : x \in rows[d] \cup {d}}
                                /\ m.n >= known[d][m.id]

\* One envelope of the page; the first that cannot be processed ends the page.
Receive(d) ==
    /\ pass[d].at = "receive"
    /\ LET m == Head(mail[d])
       IN  \/ /\ Processable(d, m)
              /\ mail' = [mail EXCEPT ![d] = Tail(@)]
              /\ pass' = [pass EXCEPT ![d] = IF @.k = 1 THEN Ending(d) ELSE [@ EXCEPT !.k = pass[d].k - 1]]
              /\ group' = [group EXCEPT ![d] = CASE m.kind = "welcome" -> m.on
                                                 [] m.kind = "commit" -> m.next
                                                 [] OTHER -> @]
              /\ rows' = [rows EXCEPT ![d] = IF m.kind = "roster" THEN @ \cup (m.devices \ {d}) ELSE @]
              /\ IF m.kind = "manifest" THEN Accept(d, m.id, m.n) ELSE UNCHANGED <<known, marked>>
           \/ /\ ~Processable(d, m)
              /\ pass' = [pass EXCEPT ![d] = Ending(d)]
              /\ UNCHANGED <<mail, group, rows, known, marked>>
    /\ UNCHANGED <<manifests, record, outbox, claimed, stops>>

\* A request fails or the process dies: what is durable stays.
PassStops(d) ==
    /\ pass[d].at # "idle"
    /\ Stop
    /\ Finish(d)
    /\ UNCHANGED <<manifests, tables, record, group, outbox, mail, claimed>>
-----------------------------------------------------------------------------
(* Commands that run beside a pass: add and remove.  Each waits for the     *)
(* relay first and then commits one unit; prepare does not wait, so nothing *)
(* of the same device comes between its steps.                              *)

Mine(d) == pass[d].at \notin {"prepare", "again"} /\ group[d] # <<>>

\* connect and claim_key_package: only of a device its identity's newest
\* manifest lists.  One add at a time (bound).
Claim(d, c) ==
    /\ d \notin Refused /\ Mine(d)
    /\ c \notin Members(Tree(group[d])) \cup Refused
    /\ \A e \in Device : claimed[e] = {}
    /\ claimed' = [claimed EXCEPT ![d] = {c}]
    /\ UNCHANGED <<manifests, tables, record, group, outbox, mail, pass, stops>>

\* The policy refuses the add, the group has changed, or the command dies.
AddStops(d) ==
    /\ claimed[d] # {}
    /\ claimed' = [claimed EXCEPT ![d] = {}]
    /\ UNCHANGED <<manifests, tables, record, group, outbox, mail, pass, stops>>

AddCommit(d, c) ==
    /\ Mine(d) /\ c \in claimed[d] \ Members(Tree(group[d]))
    /\ Permits(d, Tree(group[d]), d, {})
    /\ Len(group[d]) < MaxEpoch
    /\ LET next == Addition(group[d], d, c)
           all == rows[d] \cup {c}
       IN  /\ group' = [group EXCEPT ![d] = next]
           /\ rows' = [rows EXCEPT ![d] = all]
           /\ outbox' = [outbox EXCEPT ![d] = @
                            \o Fan(d, [kind |-> "commit", on |-> group[d], next |-> next], rows[d])
                            \o << [message |-> [kind |-> "welcome", on |-> next], to |-> {c}] >>
                            \o Fan(d, [kind |-> "roster", on |-> next, devices |-> all \cup {d}], all)]
    /\ claimed' = [claimed EXCEPT ![d] = @ \ {c}]
    /\ UNCHANGED <<manifests, known, marked, record, mail, pass, stops>>

\* As a bug would have it: any member may be removed.
RemoveCommitAny(d, x) ==
    /\ d \notin Refused /\ Mine(d)
    /\ x \in (rows[d] \cap Members(Tree(group[d]))) \ {d}
    /\ Permits(d, Tree(group[d]), d, {x})
    /\ Len(group[d]) < MaxEpoch
    /\ LET next == Removal(group[d], d, x)
       IN  /\ group' = [group EXCEPT ![d] = next]
           /\ outbox' = [outbox EXCEPT ![d] = @
                            \o Fan(d, [kind |-> "commit", on |-> group[d], next |-> next], rows[d])]
    /\ UNCHANGED <<manifests, tables, record, mail, pass, claimed, stops>>

\* chat remove: only of a device this one knows to be revoked.
RemoveCommit(d, x) ==
    /\ d \notin Refused /\ Mine(d)
    /\ x \in rows[d] \cap marked[d] \cap Members(Tree(group[d]))
    /\ Permits(d, Tree(group[d]), d, {x})
    /\ Len(group[d]) < MaxEpoch
    /\ LET next == Removal(group[d], d, x)
       IN  /\ group' = [group EXCEPT ![d] = next]
           /\ outbox' = [outbox EXCEPT ![d] = @
                            \o Fan(d, [kind |-> "commit", on |-> group[d], next |-> next], rows[d])]
    /\ UNCHANGED <<manifests, tables, record, mail, pass, claimed, stops>>
-----------------------------------------------------------------------------
PassStep(d) ==
    \/ Sync(d) \/ Prepare(d) \/ Prepared(d) \/ Publish(d) \/ Put(d) \/ PutAll(d)
    \/ Refresh(d) \/ Fetch(d) \/ Receive(d)

Next ==
    \E d \in Device :
       \/ PassStep(d) \/ PassStops(d)
       \/ LinkDevice(d) \/ PutLinked(d) \/ AddStops(d)
       \/ \E x \in Device : \/ RevokeDevice(d, x) \/ Claim(d, x)
                            \/ AddCommit(d, x) \/ RemoveCommit(d, x)

Spec == Init /\ [][Next]_vars
-----------------------------------------------------------------------------
\* Every member keeps to one line of epochs unless a committer was revoked: two
\* members whose states took different commits at the same epoch did so because
\* at least one of the two committers is a device its own root revoked.  The
\* committer is a function of what each member knows (mls/policy.rs), and
\* nobody sequences commits.
ForkOnlyAfterRevocation ==
    \A d, e \in Device : \A k \in 2 .. Len(group[d]) :
        /\ k <= Len(group[e])
        /\ SubSeq(group[d], 1, k - 1) = SubSeq(group[e], 1, k - 1)
        /\ group[d][k] # group[e][k]
        => \E x \in {group[d][k].by, group[e][k].by} : x \in Signed(Owner[x])

\* No member ever loses a leaf that its own identity's root did not revoke,
\* whoever committed the removal and whichever manifests reached it when.
RemovedWasRevoked ==
    \A d \in Device : \A k \in DOMAIN group[d] : \A x \in group[d][k].out : x \in Signed(Owner[x])

=============================================================================
