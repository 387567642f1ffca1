------------------------------- MODULE Requests -------------------------------
(***************************************************************************)
(* Contact cards and conversation requests on one device (arveil-app       *)
(* requests.rs, contacts.rs and lib.rs, arveil-core card_store.rs and      *)
(* client.rs).  A card shown in person carries a secret, good once and     *)
(* briefly.  Whoever scans it starts a conversation whose first messages   *)
(* are a welcome, the roster and a hello with the secret.  A conversation  *)
(* of somebody this person did not choose waits for an answer.  A secret   *)
(* counts once a sync has bound its sender to a credential the relay       *)
(* vouches for, with the network in between: the person may answer, and    *)
(* the process may die, while the sync holds what it read.  A card shared  *)
(* as a link only labels the request it opens: it stands with no card.     *)
(***************************************************************************)
EXTENDS Naturals, FiniteSets

CONSTANTS People,  \* the others, each with one device
          Known,   \* those of them this person may save as contacts by hand
          Me,      \* this person, whose other devices may start conversations too
          Chats,   \* conversations they may start
          Shared,  \* those whose roster lists another device of this person
          Codes,   \* cards this device may show in person
          None

ASSUME RequestsAssumption ==
    /\ Known \subseteq People /\ Shared \subseteq Chats
    /\ Me \notin People /\ None \notin People \cup Codes \cup {Me}

VARIABLES card,      \* card[c]: the row of contact_cards
          starter,   \* starter[g]: who started the conversation
          carried,   \* carried[g]: the card whose secret its hello carries
          arrived,   \* arrived[g]: how many of its three messages were processed
          request,   \* request[g]: "joined" is a row without a request
          from,      \* from[g]: request_from
          use,       \* use[g]: request_card
          met,       \* the rows of contacts
          accepted,  \* those this person chose
          verified,  \* verified[p]: whether, and how
          gone,      \* people whose device their manifest revoked
          work,      \* the requests a sync has read and not settled yet
          syncing,   \* TRUE: a sync is past its messages
          answered,  \* history: answered[g]: the person's answer
          spent,     \* history: spent[c]: conversations a code counted for
          chose,     \* history: people this person chose or let scan a code
          scanned    \* history: people whose code this person scanned

cards == <<card, spent>>
mail == <<starter, carried, arrived, gone>>
requests == <<request, from, use>>
contacts == <<met, accepted, verified>>
pass == <<work, syncing>>
history == <<answered, chose, scanned>>
vars == <<cards, mail, requests, contacts, pass, history>>

Init ==
    /\ card = [c \in Codes |-> "none"] /\ spent = [c \in Codes |-> {}]
    /\ starter = [g \in Chats |-> None] /\ carried = [g \in Chats |-> None]
    /\ arrived = [g \in Chats |-> 0] /\ gone = {}
    /\ request = [g \in Chats |-> "none"]
    /\ from = [g \in Chats |-> None] /\ use = [g \in Chats |-> "none"]
    /\ met = {} /\ accepted = {} /\ verified = [p \in People |-> "no"]
    /\ work = {} /\ syncing = FALSE
    /\ answered = [g \in Chats |-> "no"] /\ chose = {} /\ scanned = {}
-----------------------------------------------------------------------------
(* Cards: offer_card, CloseCard, the clock.                                *)

OfferCard(c) ==
    /\ card[c] = "none"
    /\ card' = [card EXCEPT ![c] = "open"]
    /\ UNCHANGED <<spent, mail, requests, contacts, pass, history>>

\* Mutant: a code is good as often as a link is.
ValidAgain(c) == card[c] \in {"open", "used"}

\* card_redeem: once, and only while the code is open.
Valid(c) == card[c] = "open"

\* The screen with the code was closed, or its time is over.
CloseCard(c) ==
    /\ Valid(c)
    /\ card' = [card EXCEPT ![c] = "closed"]
    /\ UNCHANGED <<spent, mail, requests, contacts, pass, history>>
-----------------------------------------------------------------------------
(* The others.                                                             *)

\* start_with on their device: with no code, or with one on this screen.
StartChat(p, g, c) ==
    /\ starter[g] = None /\ p \notin gone
    /\ p = Me => g \in Shared
    /\ c \in Codes => card[c] = "open"
    /\ starter' = [starter EXCEPT ![g] = p]
    /\ carried' = [carried EXCEPT ![g] = c]
    /\ chose' = IF c # None THEN chose \cup {p} ELSE chose
    /\ UNCHANGED <<cards, arrived, gone, requests, contacts, pass, answered, scanned>>

\* Their newest manifest revokes the device they started from.
LoseDevice(p) ==
    /\ gone' = gone \cup {p}
    /\ UNCHANGED <<cards, starter, carried, arrived, requests, contacts, pass, history>>
-----------------------------------------------------------------------------
(* Messages, each in its receive unit, before a sync settles.              *)

Next3(g, n) == ~syncing /\ starter[g] # None /\ arrived[g] = n - 1
Arrive(g) == arrived' = [arrived EXCEPT ![g] = @ + 1]

\* What arrives for a declined conversation is dropped.
Drop(g) ==
    /\ ~syncing /\ arrived[g] \in {1, 2} /\ request[g] = "declined"
    /\ Arrive(g)
    /\ UNCHANGED <<cards, starter, carried, gone, requests, contacts, pass, history>>

Welcome(g) ==
    /\ Next3(g, 1)
    /\ Arrive(g)
    /\ request' = [request EXCEPT ![g] = "pending"]
    /\ UNCHANGED <<cards, starter, carried, gone, from, use, contacts, pass, history>>

\* Mutant: having met somebody is taken for having chosen them.
JoinsMet(g) == starter[g] \in met \cup {Me} \/ g \in Shared

\* classify: this person's own conversation, one that another device of theirs
\* is in, or a chosen contact's is joined without asking.
Joins(g) == starter[g] = Me \/ g \in Shared \/ starter[g] \in accepted

\* The roster names its sender's route, a contact's unless it is this person's
\* own.  classify leaves alone what was answered, and what an earlier roster
\* named the starter of: a later roster of the conversation changes nothing.
Roster(g) ==
    /\ Next3(g, 2) /\ request[g] # "declined"
    /\ Arrive(g)
    /\ met' = met \cup ({starter[g]} \ {Me})
    /\ IF request[g] = "pending" /\ from[g] = None
       THEN /\ from' = [from EXCEPT ![g] = starter[g]]
            /\ request' = IF Joins(g) THEN [request EXCEPT ![g] = "joined"] ELSE request
       ELSE UNCHANGED <<from, request>>
    /\ UNCHANGED <<cards, starter, carried, gone, use, accepted, verified, pass, history>>

\* receive_hello: which card it used, and the card spent; not for one's own.
Hello(g) ==
    /\ Next3(g, 3) /\ request[g] # "declined"
    /\ Arrive(g)
    /\ LET c == carried[g] IN
       IF starter[g] # Me /\ c # None /\ Valid(c)
       THEN /\ card' = [card EXCEPT ![c] = "used"]
            /\ spent' = [spent EXCEPT ![c] = @ \cup {g}]
            /\ use' = [use EXCEPT ![g] = "in-person-pending"]
       ELSE use' = [use EXCEPT ![g] = "none"] /\ UNCHANGED cards
    /\ UNCHANGED <<starter, carried, gone, request, from, contacts, pass, history>>
-----------------------------------------------------------------------------
(* settle_in_person, at the end of a sync.                                 *)

Read(g) == [chat |-> g, from |-> from[g], declined |-> request[g] = "declined"]

SettleBegin ==
    /\ ~syncing
    /\ syncing' = TRUE
    /\ work' = {Read(g) : g \in {h \in Chats : use[h] = "in-person-pending"}}
    /\ UNCHANGED <<cards, mail, requests, contacts, history>>

\* Mutant: the request forgets the code before its sender is verified.
BindCardFirst(r, n) ==
    LET p == r.from
        g == r.chat IN
    /\ accepted' = accepted \cup {p}
    /\ use' = IF n >= 2 THEN [use EXCEPT ![g] = "in-person"] ELSE use
    /\ verified' = IF n >= 3 THEN [verified EXCEPT ![p] = "in-person"] ELSE verified
    /\ request' = IF n = 4 /\ ~r.declined THEN [request EXCEPT ![g] = "joined"] ELSE request
    /\ UNCHANGED <<met, from>>

\* The statements after the credential was checked, each on its own: `n` of
\* the four took place, fewer only if the process died.
Bind(r, n) ==
    LET p == r.from
        g == r.chat IN
    /\ accepted' = accepted \cup {p}
    /\ verified' = IF n >= 2 THEN [verified EXCEPT ![p] = "in-person"] ELSE verified
    /\ use' = IF n >= 3 THEN [use EXCEPT ![g] = "in-person"] ELSE use
    /\ request' = IF n = 4 /\ ~r.declined THEN [request EXCEPT ![g] = "joined"] ELSE request
    /\ UNCHANGED <<met, from>>

\* No device of theirs binds: the code counts as no card.
Unbind(r) ==
    /\ use' = [use EXCEPT ![r.chat] = "none"]
    /\ UNCHANGED <<request, from, contacts>>

Settle(r) ==
    /\ r \in work
    /\ work' = work \ {r}
    /\ IF r.from = None THEN UNCHANGED <<requests, contacts>>
       ELSE IF r.from \in gone THEN Unbind(r) ELSE Bind(r, 4)
    /\ UNCHANGED <<cards, mail, syncing, history>>

\* The process dies between two statements.
SettleTorn(r, n) ==
    /\ r \in work /\ r.from \notin gone \cup {None}
    /\ Bind(r, n)
    /\ work' = {} /\ syncing' = FALSE
    /\ UNCHANGED <<cards, mail, history>>

\* The network fails, the process dies, or there is nothing left to settle.
SettleEnd ==
    /\ syncing
    /\ work' = {} /\ syncing' = FALSE
    /\ UNCHANGED <<cards, mail, requests, contacts, history>>
-----------------------------------------------------------------------------
(* The person, at any time: other commands run while a sync waits.         *)

\* answer(): accepting chooses the sender the roster named, if it has come.
Answer(g, accept) ==
    /\ request[g] = "pending"
    /\ IF accept /\ from[g] # None
       THEN accepted' = accepted \cup {from[g]} /\ chose' = chose \cup {from[g]}
       ELSE UNCHANGED <<accepted, chose>>
    /\ request' = [request EXCEPT ![g] = IF accept THEN "joined" ELSE "declined"]
    /\ answered' = [answered EXCEPT ![g] = IF accept THEN "yes" ELSE "declined"]
    /\ UNCHANGED <<cards, mail, from, use, met, verified, pass, scanned>>

\* contacts::save and start_from_card: saving a route is choosing its owner;
\* comparing numbers or scanning their screen verifies them too.
SaveContact(p, how) ==
    /\ met' = met \cup {p}
    /\ accepted' = accepted \cup {p}
    /\ verified' = IF how = "no" THEN verified ELSE [verified EXCEPT ![p] = how]
    /\ chose' = chose \cup {p}
    /\ scanned' = IF how = "in-person" THEN scanned \cup {p} ELSE scanned
    /\ UNCHANGED <<cards, mail, requests, pass, answered>>
-----------------------------------------------------------------------------
Next ==
    \/ \E c \in Codes : OfferCard(c) \/ CloseCard(c)
    \/ \E p \in Known, how \in {"no", "comparison", "in-person"} : SaveContact(p, how)
    \/ \E p \in People : LoseDevice(p)
    \/ \E p \in People \cup {Me}, g \in Chats, c \in Codes \cup {None} : StartChat(p, g, c)
    \/ \E g \in Chats : \/ Welcome(g) \/ Roster(g) \/ Hello(g) \/ Drop(g)
                        \/ \E accept \in BOOLEAN : Answer(g, accept)
    \/ SettleBegin \/ SettleEnd
    \/ \E r \in work : Settle(r) \/ \E n \in 1..3 : SettleTorn(r, n)

Spec == Init /\ [][Next]_vars

\* The client syncs again and again, and some of its requests get through.
FairSpec ==
    /\ Spec
    /\ WF_vars(SettleBegin)
    /\ \A g \in Chats : SF_vars(\E r \in work : r.chat = g /\ Settle(r))
-----------------------------------------------------------------------------
\* Somebody shown as verified in person was scanned by this person, or started
\* a conversation with a code from this screen, and that code counted for no
\* other conversation (card_redeem, settle_in_person, start_from_card).
VerifiedTruthful ==
    \A p \in People : verified[p] = "in-person" =>
        \/ p \in scanned
        \/ \E g \in Chats, c \in Codes : starter[g] = p /\ spent[c] = {g}

\* A conversation is joined only if the person accepted it, or its starter is
\* somebody the person chose or let scan a code, or the person is in it already
\* with another device, whatever a sync had read before the person answered;
\* and one the person declined only for a code that bound to its sender
\* (classify, answer, settle_in_person).
JoinedByChoice ==
    /\ accepted \subseteq chose
    /\ \A g \in Chats : request[g] = "joined" =>
          /\ answered[g] = "yes" \/ starter[g] \in chose \cup {Me} \/ g \in Shared
          /\ answered[g] = "declined" => use[g] = "in-person"

\* Whoever used a code shown in person, and whose roster came before the
\* request was answered, is verified in the end, through failed syncs and
\* crashes between any two statements, unless their device was revoked
\* (requests_in_person_pending, settle_in_person).
EventuallyVerified ==
    \A p \in People :
        (\E g \in Chats : use[g] = "in-person-pending" /\ from[g] = p)
            ~> verified[p] = "in-person" \/ p \in gone
=============================================================================
