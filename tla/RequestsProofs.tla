---------------------------- MODULE RequestsProofs ----------------------------
(***************************************************************************)
(* That nobody is shown as verified, and no conversation joined, without   *)
(* this person's doing, for any number of people, conversations and codes; *)
(* and, on the state of Groups, that nobody leaves a conversation or parts *)
(* from its line without a revocation.                                     *)
(***************************************************************************)
EXTENDS Requests, FiniteSetTheorems, SequenceTheorems, WellFoundedInduction, TLAPS

Uses == {"none", "in-person-pending", "in-person"}
Work == [chat : Chats, from : People \cup {Me, None}, declined : BOOLEAN]

RequestsTypeOK ==
    /\ card \in [Codes -> {"none", "open", "used", "closed"}]
    /\ spent \in [Codes -> SUBSET Chats]
    /\ starter \in [Chats -> People \cup {Me, None}]
    /\ carried \in [Chats -> Codes \cup {None}]
    /\ arrived \in [Chats -> 0..3]
    /\ request \in [Chats -> {"none", "pending", "joined", "declined"}]
    /\ from \in [Chats -> People \cup {Me, None}]
    /\ use \in [Chats -> Uses]
    /\ accepted \subseteq People \cup {Me}
    /\ verified \in [People -> {"no", "comparison", "in-person"}]
    /\ gone \subseteq People
    /\ work \subseteq Work
    /\ answered \in [Chats -> {"no", "yes", "declined"}]
    /\ chose \subseteq People \cup {Me} /\ scanned \subseteq People

\* Nothing is known of a conversation before its first message, and its roster
\* names the one who started it.
ChatsSound ==
    \A g \in Chats :
        /\ starter[g] = None => carried[g] = None /\ arrived[g] = 0
        /\ arrived[g] = 0 => from[g] = None /\ request[g] = "none"
        /\ arrived[g] < 3 => use[g] = "none" /\ \A c \in Codes : g \notin spent[c]
        /\ from[g] \in {None, starter[g]}

\* A code that is still open has counted for nothing.
CodesSound == \A c \in Codes : card[c] \in {"none", "open"} => spent[c] = {}

\* Whoever's code is being settled, or was read to be settled by a sync that
\* waits for the relay, scanned this screen, and the code counted only there.
Backed(g) == carried[g] \in Codes /\ spent[carried[g]] = {g}
PendingSound == \A g \in Chats : use[g] = "in-person-pending" => Backed(g)
WorkSound ==
    \A r \in work : r.from # None => Backed(r.chat) /\ r.from = starter[r.chat]

\* A request that waits was not answered, and what a sync read it alone settles.
TurnsSound ==
    /\ \A g \in Chats : request[g] \in {"none", "pending"} => answered[g] = "no"
    /\ work # {} => syncing
    /\ \A r \in work : use[r.chat] = "in-person-pending"
    /\ \A r, q \in work : r.chat = q.chat => r = q

\* A code on this screen is read by somebody this person lets read it.
LetScan == \A g \in Chats : carried[g] \in Codes => starter[g] \in chose

RequestsInv ==
    /\ RequestsTypeOK
    /\ ChatsSound /\ CodesSound /\ PendingSound /\ WorkSound /\ LetScan /\ TurnsSound
    /\ VerifiedTruthful /\ JoinedByChoice
-----------------------------------------------------------------------------
LEMMA InitSound == Init => RequestsInv
BY RequestsAssumption DEF Init, RequestsInv, RequestsTypeOK, Uses, ChatsSound, CodesSound,
   PendingSound, WorkSound, LetScan, TurnsSound, VerifiedTruthful, JoinedByChoice

LEMMA VerifiedUntouched ==
    ASSUME VerifiedTruthful,
           verified' = verified, scanned' = scanned, starter' = starter, spent' = spent
    PROVE  VerifiedTruthful'
BY Zenon DEF VerifiedTruthful

LEMMA OfferCardKeeps ==
    ASSUME RequestsInv, NEW c \in Codes, OfferCard(c)
    PROVE  RequestsInv'
<1> USE RequestsAssumption
    DEF RequestsInv, OfferCard,
       cards, mail, requests, contacts, pass, history
<1>1. RequestsTypeOK'
  BY DEF RequestsTypeOK, Uses, Work
<1>2. ChatsSound'
  BY DEF ChatsSound, RequestsTypeOK
<1>3. CodesSound'
  BY DEF CodesSound, RequestsTypeOK
<1>4. PendingSound'
  BY DEF PendingSound, Backed, RequestsTypeOK, ChatsSound, CodesSound
<1>5. WorkSound'
  BY DEF WorkSound, Backed, RequestsTypeOK, Work, ChatsSound, CodesSound, PendingSound
<1>6. LetScan'
  BY DEF LetScan, RequestsTypeOK, ChatsSound
<1>7. VerifiedTruthful'
  <2>1. verified' = verified /\ scanned' = scanned /\ starter' = starter /\ spent' = spent
    OBVIOUS
  <2> QED BY <2>1, VerifiedUntouched
<1>8. JoinedByChoice'
  BY DEF JoinedByChoice, RequestsTypeOK, Work, ChatsSound, WorkSound, Backed, LetScan, TurnsSound
<1>9. TurnsSound'
  BY DEF TurnsSound, RequestsTypeOK, Work, ChatsSound
<1> QED BY <1>1, <1>2, <1>3, <1>4, <1>5, <1>6, <1>7, <1>8, <1>9

LEMMA CloseCardKeeps ==
    ASSUME RequestsInv, NEW c \in Codes, CloseCard(c)
    PROVE  RequestsInv'
<1> USE RequestsAssumption
    DEF RequestsInv, CloseCard, Valid,
       cards, mail, requests, contacts, pass, history
<1>1. RequestsTypeOK'
  BY DEF RequestsTypeOK, Uses, Work
<1>2. ChatsSound'
  BY DEF ChatsSound, RequestsTypeOK
<1>3. CodesSound'
  BY DEF CodesSound, RequestsTypeOK
<1>4. PendingSound'
  BY DEF PendingSound, Backed, RequestsTypeOK, ChatsSound, CodesSound
<1>5. WorkSound'
  BY DEF WorkSound, Backed, RequestsTypeOK, Work, ChatsSound, CodesSound, PendingSound
<1>6. LetScan'
  BY DEF LetScan, RequestsTypeOK, ChatsSound
<1>7. VerifiedTruthful'
  <2>1. verified' = verified /\ scanned' = scanned /\ starter' = starter /\ spent' = spent
    OBVIOUS
  <2> QED BY <2>1, VerifiedUntouched
<1>8. JoinedByChoice'
  BY DEF JoinedByChoice, RequestsTypeOK, Work, ChatsSound, WorkSound, Backed, LetScan, TurnsSound
<1>9. TurnsSound'
  BY DEF TurnsSound, RequestsTypeOK, Work, ChatsSound
<1> QED BY <1>1, <1>2, <1>3, <1>4, <1>5, <1>6, <1>7, <1>8, <1>9

LEMMA StartChatKeeps ==
    ASSUME RequestsInv, NEW p \in People \cup {Me}, NEW g \in Chats, NEW c \in Codes \cup {None},
           StartChat(p, g, c)
    PROVE  RequestsInv'
<1> USE RequestsAssumption
    DEF RequestsInv, StartChat,
       cards, mail, requests, contacts, pass, history
<1>1. RequestsTypeOK'
  BY DEF RequestsTypeOK, Uses, Work
<1>2. ChatsSound'
  BY DEF ChatsSound, RequestsTypeOK
<1>3. CodesSound'
  BY DEF CodesSound, RequestsTypeOK
<1>4. PendingSound'
  BY DEF PendingSound, Backed, RequestsTypeOK, ChatsSound, CodesSound
<1>5. WorkSound'
  BY DEF WorkSound, Backed, RequestsTypeOK, Work, ChatsSound, CodesSound, PendingSound
<1>6. LetScan'
  BY DEF LetScan, RequestsTypeOK, ChatsSound
<1>7. VerifiedTruthful'
  <2> SUFFICES ASSUME NEW q \in People, verified'[q] = "in-person", q \notin scanned'
               PROVE  \E h \in Chats, k \in Codes : starter'[h] = q /\ spent'[k] = {h}
    BY DEF VerifiedTruthful
  <2>1. PICK h \in Chats, k \in Codes : starter[h] = q /\ spent[k] = {h}
    BY Zenon DEF VerifiedTruthful
  <2>2. starter'[h] = q
    BY <2>1 DEF RequestsTypeOK
  <2> QED BY <2>1, <2>2
<1>8. JoinedByChoice'
  BY DEF JoinedByChoice, RequestsTypeOK, Work, ChatsSound, WorkSound, Backed, LetScan, TurnsSound
<1>9. TurnsSound'
  BY DEF TurnsSound, RequestsTypeOK, Work, ChatsSound
<1> QED BY <1>1, <1>2, <1>3, <1>4, <1>5, <1>6, <1>7, <1>8, <1>9

LEMMA LoseDeviceKeeps ==
    ASSUME RequestsInv, NEW p \in People, LoseDevice(p)
    PROVE  RequestsInv'
<1> USE RequestsAssumption
    DEF RequestsInv, LoseDevice,
       cards, mail, requests, contacts, pass, history
<1>1. RequestsTypeOK'
  BY DEF RequestsTypeOK, Uses, Work
<1>2. ChatsSound'
  BY DEF ChatsSound, RequestsTypeOK
<1>3. CodesSound'
  BY DEF CodesSound, RequestsTypeOK
<1>4. PendingSound'
  BY DEF PendingSound, Backed, RequestsTypeOK, ChatsSound, CodesSound
<1>5. WorkSound'
  BY DEF WorkSound, Backed, RequestsTypeOK, Work, ChatsSound, CodesSound, PendingSound
<1>6. LetScan'
  BY DEF LetScan, RequestsTypeOK, ChatsSound
<1>7. VerifiedTruthful'
  <2>1. verified' = verified /\ scanned' = scanned /\ starter' = starter /\ spent' = spent
    OBVIOUS
  <2> QED BY <2>1, VerifiedUntouched
<1>8. JoinedByChoice'
  BY DEF JoinedByChoice, RequestsTypeOK, Work, ChatsSound, WorkSound, Backed, LetScan, TurnsSound
<1>9. TurnsSound'
  BY DEF TurnsSound, RequestsTypeOK, Work, ChatsSound
<1> QED BY <1>1, <1>2, <1>3, <1>4, <1>5, <1>6, <1>7, <1>8, <1>9

LEMMA DropKeeps ==
    ASSUME RequestsInv, NEW g \in Chats, Drop(g)
    PROVE  RequestsInv'
<1> USE RequestsAssumption
    DEF RequestsInv, Drop, Arrive,
       cards, mail, requests, contacts, pass, history
<1>1. RequestsTypeOK'
  BY DEF RequestsTypeOK, Uses, Work
<1>2. ChatsSound'
  BY DEF ChatsSound, RequestsTypeOK
<1>3. CodesSound'
  BY DEF CodesSound, RequestsTypeOK
<1>4. PendingSound'
  BY DEF PendingSound, Backed, RequestsTypeOK, ChatsSound, CodesSound
<1>5. WorkSound'
  BY DEF WorkSound, Backed, RequestsTypeOK, Work, ChatsSound, CodesSound, PendingSound
<1>6. LetScan'
  BY DEF LetScan, RequestsTypeOK, ChatsSound
<1>7. VerifiedTruthful'
  <2>1. verified' = verified /\ scanned' = scanned /\ starter' = starter /\ spent' = spent
    OBVIOUS
  <2> QED BY <2>1, VerifiedUntouched
<1>8. JoinedByChoice'
  BY DEF JoinedByChoice, RequestsTypeOK, Work, ChatsSound, WorkSound, Backed, LetScan, TurnsSound
<1>9. TurnsSound'
  BY DEF TurnsSound, RequestsTypeOK, Work, ChatsSound
<1> QED BY <1>1, <1>2, <1>3, <1>4, <1>5, <1>6, <1>7, <1>8, <1>9

LEMMA WelcomeKeeps ==
    ASSUME RequestsInv, NEW g \in Chats, Welcome(g)
    PROVE  RequestsInv'
<1> USE RequestsAssumption
    DEF RequestsInv, Welcome, Next3, Arrive,
       cards, mail, requests, contacts, pass, history
<1>1. RequestsTypeOK'
  BY DEF RequestsTypeOK, Uses, Work
<1>2. ChatsSound'
  BY DEF ChatsSound, RequestsTypeOK
<1>3. CodesSound'
  BY DEF CodesSound, RequestsTypeOK
<1>4. PendingSound'
  BY DEF PendingSound, Backed, RequestsTypeOK, ChatsSound, CodesSound
<1>5. WorkSound'
  BY DEF WorkSound, Backed, RequestsTypeOK, Work, ChatsSound, CodesSound, PendingSound
<1>6. LetScan'
  BY DEF LetScan, RequestsTypeOK, ChatsSound
<1>7. VerifiedTruthful'
  <2>1. verified' = verified /\ scanned' = scanned /\ starter' = starter /\ spent' = spent
    OBVIOUS
  <2> QED BY <2>1, VerifiedUntouched
<1>8. JoinedByChoice'
  BY DEF JoinedByChoice, RequestsTypeOK, Work, ChatsSound, WorkSound, Backed, LetScan, TurnsSound
<1>9. TurnsSound'
  BY DEF TurnsSound, RequestsTypeOK, Work, ChatsSound
<1> QED BY <1>1, <1>2, <1>3, <1>4, <1>5, <1>6, <1>7, <1>8, <1>9

LEMMA RosterKeeps ==
    ASSUME RequestsInv, NEW g \in Chats, Roster(g)
    PROVE  RequestsInv'
<1> USE RequestsAssumption
    DEF RequestsInv, Roster, Joins, Next3, Arrive,
       cards, mail, requests, contacts, pass, history
<1>1. RequestsTypeOK'
  BY DEF RequestsTypeOK, Uses, Work
<1>2. ChatsSound'
  BY DEF ChatsSound, RequestsTypeOK
<1>3. CodesSound'
  BY DEF CodesSound, RequestsTypeOK
<1>4. PendingSound'
  BY DEF PendingSound, Backed, RequestsTypeOK, ChatsSound, CodesSound
<1>5. WorkSound'
  BY DEF WorkSound, Backed, RequestsTypeOK, Work, ChatsSound, CodesSound, PendingSound
<1>6. LetScan'
  BY DEF LetScan, RequestsTypeOK, ChatsSound
<1>7. VerifiedTruthful'
  <2>1. verified' = verified /\ scanned' = scanned /\ starter' = starter /\ spent' = spent
    OBVIOUS
  <2> QED BY <2>1, VerifiedUntouched
<1>8. JoinedByChoice'
  BY DEF JoinedByChoice, RequestsTypeOK, Work, ChatsSound, WorkSound, Backed, LetScan, TurnsSound
<1>9. TurnsSound'
  BY DEF TurnsSound, RequestsTypeOK, Work, ChatsSound
<1> QED BY <1>1, <1>2, <1>3, <1>4, <1>5, <1>6, <1>7, <1>8, <1>9

LEMMA HelloKeeps ==
    ASSUME RequestsInv, NEW g \in Chats, Hello(g)
    PROVE  RequestsInv'
<1> USE RequestsAssumption
    DEF RequestsInv, Hello, Next3, Arrive,
       cards, mail, requests, contacts, pass, history
<1>0. ASSUME NEW k \in Codes, spent[k] # {}
      PROVE  spent'[k] = spent[k]
  <2>1. ~Valid(k)
    BY <1>0 DEF CodesSound, Valid
  <2> QED BY <2>1 DEF RequestsTypeOK, Valid
<1>1. RequestsTypeOK'
  BY DEF RequestsTypeOK, Uses, Work, Valid
<1>2. ChatsSound'
  BY DEF ChatsSound, RequestsTypeOK, Valid
<1>3. CodesSound'
  BY DEF CodesSound, RequestsTypeOK, Valid
<1>4. PendingSound'
  <2> SUFFICES ASSUME NEW h \in Chats, use'[h] = "in-person-pending"
               PROVE  Backed(h)'
    BY DEF PendingSound
  <2>1. CASE h # g
    <3>1. Backed(h)
      BY <2>1 DEF PendingSound, RequestsTypeOK, Valid
    <3> QED BY <3>1, <1>0 DEF Backed, Valid
  <2>2. CASE h = g
    <3>1. starter[g] # Me /\ carried[g] \in Codes /\ Valid(carried[g])
      BY <2>2 DEF RequestsTypeOK, ChatsSound, Valid
    <3>2. spent[carried[g]] = {}
      BY <3>1 DEF CodesSound, Valid
    <3>3. spent'[carried[g]] = {g}
      BY <3>1, <3>2 DEF RequestsTypeOK, Valid
    <3> QED BY <2>2, <3>1, <3>3 DEF Backed, Valid
  <2> QED BY <2>1, <2>2
<1>5. WorkSound'
  <2> SUFFICES ASSUME NEW r \in work, r.from # None
               PROVE  Backed(r.chat)' /\ r.from = starter'[r.chat]
    BY DEF WorkSound, Valid
  <2>1. Backed(r.chat) /\ r.from = starter[r.chat]
    BY DEF WorkSound
  <2> QED BY <2>1, <1>0 DEF Backed, Valid
<1>6. LetScan'
  BY DEF LetScan, RequestsTypeOK, ChatsSound, Valid
<1>7. VerifiedTruthful'
  <2> SUFFICES ASSUME NEW q \in People, verified'[q] = "in-person", q \notin scanned'
               PROVE  \E h \in Chats, k \in Codes : starter'[h] = q /\ spent'[k] = {h}
    BY DEF VerifiedTruthful
  <2>1. PICK h \in Chats, k \in Codes : starter[h] = q /\ spent[k] = {h}
    BY Zenon DEF VerifiedTruthful, Valid
  <2>2. spent'[k] = {h}
    BY <2>1, <1>0
  <2> QED BY <2>1, <2>2 DEF Valid
<1>8. JoinedByChoice'
  BY DEF JoinedByChoice, RequestsTypeOK, Work, ChatsSound, WorkSound, Backed, LetScan, Valid, TurnsSound
<1>9. TurnsSound'
  BY DEF TurnsSound, RequestsTypeOK, Work, ChatsSound, Valid
<1> QED BY <1>1, <1>2, <1>3, <1>4, <1>5, <1>6, <1>7, <1>8, <1>9

LEMMA SettleBeginKeeps ==
    ASSUME RequestsInv, SettleBegin
    PROVE  RequestsInv'
<1> USE RequestsAssumption
    DEF RequestsInv, SettleBegin, Read,
       cards, mail, requests, contacts, pass, history
<1>1. RequestsTypeOK'
  <2>1. \A g \in Chats : Read(g) \in Work
    BY DEF Work, RequestsTypeOK
  <2>2. work' \subseteq Work
    BY <2>1
  <2> QED BY <2>2 DEF RequestsTypeOK
<1>2. ChatsSound'
  BY DEF ChatsSound, RequestsTypeOK
<1>3. CodesSound'
  BY DEF CodesSound, RequestsTypeOK
<1>4. PendingSound'
  BY DEF PendingSound, Backed, RequestsTypeOK, ChatsSound, CodesSound
<1>5. WorkSound'
  BY DEF WorkSound, Backed, RequestsTypeOK, Work, ChatsSound, CodesSound, PendingSound
<1>6. LetScan'
  BY DEF LetScan, RequestsTypeOK, ChatsSound
<1>7. VerifiedTruthful'
  <2>1. verified' = verified /\ scanned' = scanned /\ starter' = starter /\ spent' = spent
    OBVIOUS
  <2> QED BY <2>1, VerifiedUntouched
<1>8. JoinedByChoice'
  BY DEF JoinedByChoice, RequestsTypeOK, Work, ChatsSound, WorkSound, Backed, LetScan, TurnsSound
<1>9. TurnsSound'
  BY DEF TurnsSound, RequestsTypeOK, Work, ChatsSound
<1> QED BY <1>1, <1>2, <1>3, <1>4, <1>5, <1>6, <1>7, <1>8, <1>9

LEMMA SettleKeeps ==
    ASSUME RequestsInv, NEW r \in work, Settle(r)
    PROVE  RequestsInv'
<1> USE RequestsAssumption
    DEF RequestsInv, Settle, Bind, Unbind,
       cards, mail, requests, contacts, pass, history
<1>1. RequestsTypeOK'
  BY DEF RequestsTypeOK, Uses, Work
<1>2. ChatsSound'
  BY DEF ChatsSound, RequestsTypeOK, Work, WorkSound, Backed
<1>3. CodesSound'
  BY DEF CodesSound, RequestsTypeOK
<1>4. PendingSound'
  BY DEF PendingSound, Backed, RequestsTypeOK, ChatsSound, CodesSound
<1>5. WorkSound'
  BY DEF WorkSound, Backed, RequestsTypeOK, Work, ChatsSound, CodesSound, PendingSound
<1>6. LetScan'
  BY DEF LetScan, RequestsTypeOK, ChatsSound
<1>7. VerifiedTruthful'
  <2> SUFFICES ASSUME NEW q \in People, verified'[q] = "in-person", q \notin scanned'
               PROVE  \E h \in Chats, k \in Codes : starter'[h] = q /\ spent'[k] = {h}
    BY DEF VerifiedTruthful
  <2>1. CASE verified[q] = "in-person"
    BY <2>1, Zenon DEF VerifiedTruthful
  <2>2. CASE verified[q] # "in-person"
    <3>1. q = r.from /\ r.from # None
      BY <2>2 DEF RequestsTypeOK
    <3>2. r.chat \in Chats /\ Backed(r.chat) /\ q = starter[r.chat]
      BY <3>1 DEF RequestsTypeOK, Work, WorkSound
    <3> QED BY <3>2 DEF Backed
  <2> QED BY <2>1, <2>2
<1>8. JoinedByChoice'
  BY DEF JoinedByChoice, RequestsTypeOK, Work, ChatsSound, WorkSound, Backed, LetScan, TurnsSound
<1>9. TurnsSound'
  BY DEF TurnsSound, RequestsTypeOK, Work, ChatsSound
<1> QED BY <1>1, <1>2, <1>3, <1>4, <1>5, <1>6, <1>7, <1>8, <1>9

LEMMA SettleTornKeeps ==
    ASSUME RequestsInv, NEW r \in work, NEW n \in 1..3, SettleTorn(r, n)
    PROVE  RequestsInv'
<1> USE RequestsAssumption
    DEF RequestsInv, SettleTorn, Bind,
       cards, mail, requests, contacts, pass, history
<1>1. RequestsTypeOK'
  BY DEF RequestsTypeOK, Uses, Work
<1>2. ChatsSound'
  BY DEF ChatsSound, RequestsTypeOK, Work, WorkSound, Backed
<1>3. CodesSound'
  BY DEF CodesSound, RequestsTypeOK
<1>4. PendingSound'
  BY DEF PendingSound, Backed, RequestsTypeOK, ChatsSound, CodesSound
<1>5. WorkSound'
  BY DEF WorkSound, Backed, RequestsTypeOK, Work, ChatsSound, CodesSound, PendingSound
<1>6. LetScan'
  BY DEF LetScan, RequestsTypeOK, ChatsSound
<1>7. VerifiedTruthful'
  <2> SUFFICES ASSUME NEW q \in People, verified'[q] = "in-person", q \notin scanned'
               PROVE  \E h \in Chats, k \in Codes : starter'[h] = q /\ spent'[k] = {h}
    BY DEF VerifiedTruthful
  <2>1. CASE verified[q] = "in-person"
    BY <2>1, Zenon DEF VerifiedTruthful
  <2>2. CASE verified[q] # "in-person"
    <3>1. q = r.from /\ r.from # None
      BY <2>2 DEF RequestsTypeOK
    <3>2. r.chat \in Chats /\ Backed(r.chat) /\ q = starter[r.chat]
      BY <3>1 DEF RequestsTypeOK, Work, WorkSound
    <3> QED BY <3>2 DEF Backed
  <2> QED BY <2>1, <2>2
<1>8. JoinedByChoice'
  BY DEF JoinedByChoice, RequestsTypeOK, Work, ChatsSound, WorkSound, Backed, LetScan, TurnsSound
<1>9. TurnsSound'
  BY DEF TurnsSound, RequestsTypeOK, Work, ChatsSound
<1> QED BY <1>1, <1>2, <1>3, <1>4, <1>5, <1>6, <1>7, <1>8, <1>9

LEMMA SettleEndKeeps ==
    ASSUME RequestsInv, SettleEnd
    PROVE  RequestsInv'
<1> USE RequestsAssumption
    DEF RequestsInv, SettleEnd,
       cards, mail, requests, contacts, pass, history
<1>1. RequestsTypeOK'
  BY DEF RequestsTypeOK, Uses, Work
<1>2. ChatsSound'
  BY DEF ChatsSound, RequestsTypeOK
<1>3. CodesSound'
  BY DEF CodesSound, RequestsTypeOK
<1>4. PendingSound'
  BY DEF PendingSound, Backed, RequestsTypeOK, ChatsSound, CodesSound
<1>5. WorkSound'
  BY DEF WorkSound, Backed, RequestsTypeOK, Work, ChatsSound, CodesSound, PendingSound
<1>6. LetScan'
  BY DEF LetScan, RequestsTypeOK, ChatsSound
<1>7. VerifiedTruthful'
  <2>1. verified' = verified /\ scanned' = scanned /\ starter' = starter /\ spent' = spent
    OBVIOUS
  <2> QED BY <2>1, VerifiedUntouched
<1>8. JoinedByChoice'
  BY DEF JoinedByChoice, RequestsTypeOK, Work, ChatsSound, WorkSound, Backed, LetScan, TurnsSound
<1>9. TurnsSound'
  BY DEF TurnsSound, RequestsTypeOK, Work, ChatsSound
<1> QED BY <1>1, <1>2, <1>3, <1>4, <1>5, <1>6, <1>7, <1>8, <1>9

LEMMA AnswerKeeps ==
    ASSUME RequestsInv, NEW g \in Chats, NEW accept \in BOOLEAN, Answer(g, accept)
    PROVE  RequestsInv'
<1> USE RequestsAssumption
    DEF RequestsInv, Answer,
       cards, mail, requests, contacts, pass, history
<1>1. RequestsTypeOK'
  BY DEF RequestsTypeOK, Uses, Work
<1>2. ChatsSound'
  BY DEF ChatsSound, RequestsTypeOK
<1>3. CodesSound'
  BY DEF CodesSound, RequestsTypeOK
<1>4. PendingSound'
  BY DEF PendingSound, Backed, RequestsTypeOK, ChatsSound, CodesSound
<1>5. WorkSound'
  BY DEF WorkSound, Backed, RequestsTypeOK, Work, ChatsSound, CodesSound, PendingSound
<1>6. LetScan'
  BY DEF LetScan, RequestsTypeOK, ChatsSound
<1>7. VerifiedTruthful'
  <2>1. verified' = verified /\ scanned' = scanned /\ starter' = starter /\ spent' = spent
    OBVIOUS
  <2> QED BY <2>1, VerifiedUntouched
<1>8. JoinedByChoice'
  BY DEF JoinedByChoice, RequestsTypeOK, Work, ChatsSound, WorkSound, Backed, LetScan, TurnsSound
<1>9. TurnsSound'
  BY DEF TurnsSound, RequestsTypeOK, Work, ChatsSound
<1> QED BY <1>1, <1>2, <1>3, <1>4, <1>5, <1>6, <1>7, <1>8, <1>9

LEMMA SaveContactKeeps ==
    ASSUME RequestsInv, NEW p \in Known, NEW how \in {"no", "comparison", "in-person"},
           SaveContact(p, how)
    PROVE  RequestsInv'
<1> USE RequestsAssumption
    DEF RequestsInv, SaveContact,
       cards, mail, requests, contacts, pass, history
<1>1. RequestsTypeOK'
  BY DEF RequestsTypeOK, Uses, Work
<1>2. ChatsSound'
  BY DEF ChatsSound, RequestsTypeOK
<1>3. CodesSound'
  BY DEF CodesSound, RequestsTypeOK
<1>4. PendingSound'
  BY DEF PendingSound, Backed, RequestsTypeOK, ChatsSound, CodesSound
<1>5. WorkSound'
  BY DEF WorkSound, Backed, RequestsTypeOK, Work, ChatsSound, CodesSound, PendingSound
<1>6. LetScan'
  BY DEF LetScan, RequestsTypeOK, ChatsSound
<1>7. VerifiedTruthful'
  <2> SUFFICES ASSUME NEW q \in People, verified'[q] = "in-person", q \notin scanned'
               PROVE  \E h \in Chats, k \in Codes : starter'[h] = q /\ spent'[k] = {h}
    BY DEF VerifiedTruthful
  <2>1. verified[q] = "in-person" /\ q \notin scanned
    BY DEF RequestsTypeOK
  <2> QED BY <2>1, Zenon DEF VerifiedTruthful
<1>8. JoinedByChoice'
  BY DEF JoinedByChoice, RequestsTypeOK, Work, ChatsSound, WorkSound, Backed, LetScan, TurnsSound
<1>9. TurnsSound'
  BY DEF TurnsSound, RequestsTypeOK, Work, ChatsSound
<1> QED BY <1>1, <1>2, <1>3, <1>4, <1>5, <1>6, <1>7, <1>8, <1>9

LEMMA StepSound == RequestsInv /\ [Next]_vars => RequestsInv'
<1> SUFFICES ASSUME RequestsInv, [Next]_vars PROVE RequestsInv'
  OBVIOUS
<1>1. CASE UNCHANGED vars
  <2>1. RequestsTypeOK' /\ ChatsSound' /\ CodesSound'
    BY <1>1 DEF RequestsInv, RequestsTypeOK, ChatsSound, CodesSound,
       vars, cards, mail, requests, contacts, pass, history
  <2>2. PendingSound' /\ WorkSound' /\ LetScan' /\ TurnsSound' /\ JoinedByChoice'
    BY <1>1 DEF RequestsInv, PendingSound, WorkSound, Backed, LetScan, TurnsSound, JoinedByChoice,
       vars, cards, mail, requests, contacts, pass, history
  <2>3. VerifiedTruthful'
    BY <1>1, VerifiedUntouched DEF RequestsInv, vars, cards, mail, contacts, history
  <2> QED BY <2>1, <2>2, <2>3 DEF RequestsInv
<1>2. ASSUME NEW c \in Codes, OfferCard(c) \/ CloseCard(c)
      PROVE  RequestsInv'
  BY <1>2, OfferCardKeeps, CloseCardKeeps
<1>3. ASSUME NEW p \in Known, NEW how \in {"no", "comparison", "in-person"}, SaveContact(p, how)
      PROVE  RequestsInv'
  BY <1>3, SaveContactKeeps
<1>4. ASSUME NEW p \in People, LoseDevice(p)
      PROVE  RequestsInv'
  BY <1>4, LoseDeviceKeeps
<1>5. ASSUME NEW p \in People \cup {Me}, NEW g \in Chats, NEW c \in Codes \cup {None}, StartChat(p, g, c)
      PROVE  RequestsInv'
  BY <1>5, StartChatKeeps
<1>6. ASSUME NEW g \in Chats, Welcome(g) \/ Roster(g) \/ Hello(g) \/ Drop(g)
      PROVE  RequestsInv'
  BY <1>6, WelcomeKeeps, RosterKeeps, HelloKeeps, DropKeeps
<1>7. ASSUME NEW g \in Chats, NEW accept \in BOOLEAN, Answer(g, accept)
      PROVE  RequestsInv'
  BY <1>7, AnswerKeeps
<1>8. ASSUME SettleBegin \/ SettleEnd
      PROVE  RequestsInv'
  BY <1>8, SettleBeginKeeps, SettleEndKeeps
<1>9. ASSUME NEW r \in work, Settle(r)
      PROVE  RequestsInv'
  BY <1>9, SettleKeeps
<1>10. ASSUME NEW r \in work, NEW n \in 1..3, SettleTorn(r, n)
       PROVE  RequestsInv'
  BY <1>10, SettleTornKeeps
<1> QED BY <1>1, <1>2, <1>3, <1>4, <1>5, <1>6, <1>7, <1>8, <1>9, <1>10 DEF Next

\* The invariant behind both results, for any people, conversations and codes:
\* what a sync read before it waited for the relay stays backed by the code it
\* read (requests.rs settle_in_person).
THEOREM InvariantHolds == Spec => []RequestsInv
<1> QED BY InitSound, StepSound, PTL DEF Spec

\* Nobody is shown as verified in person without a scan by or of this person,
\* whatever interleaves with a settlement (card_redeem, settle_in_person).
THEOREM VerifiedTruthfulHolds == Spec => []VerifiedTruthful
<1>1. RequestsInv => VerifiedTruthful
  BY DEF RequestsInv
<1> QED BY <1>1, InvariantHolds, PTL

\* No conversation is joined without this person's choice, of it or of its
\* starter (classify, answer, settle_in_person).
THEOREM JoinedByChoiceHolds == Spec => []JoinedByChoice
<1>1. RequestsInv => JoinedByChoice
  BY DEF RequestsInv
<1> QED BY <1>1, InvariantHolds, PTL

-----------------------------------------------------------------------------
(* The members of a conversation, with their own state (Groups): whoever     *)
(* loses a leaf was revoked, for any devices, identities and first members,  *)
(* any number of manifests, epochs and passes cut short.                     *)

HIDE RequestsAssumption

CONSTANTS Device, Identity, Owner, Admin, First, NoDevice, MaxManifest, MaxEpoch, MaxStops

VARIABLES signed, relay, known, rows, marked, journal, announced, told, group, outbox, boxes,
          stage, claimed, stops

G == INSTANCE GroupsInvariant WITH mail <- boxes, pass <- stage

\* What Groups assumes of its constants, as far as the proof needs it.
GroupConstants ==
    /\ IsFiniteSet(Device) /\ NoDevice \notin Device
    /\ Owner \in [Device -> Identity]
    /\ Admin \subseteq Device
    /\ First \in Seq(Device) /\ First # <<>>
    /\ \A i, j \in DOMAIN First : First[i] = First[j] => i = j

-----------------------------------------------------------------------------
(* Trees.                                                                    *)

LEMMA Leaves ==
    ASSUME GroupConstants
    PROVE  /\ Cardinality(Device) \in Nat
           /\ G!Leaf = 1 .. Cardinality(Device) /\ G!Leaf \subseteq Nat
  <1>1. Cardinality(Device) \in Nat
    BY FS_CardinalityType DEF GroupConstants
  <1>2. G!Cardinality(Device) = Cardinality(Device)
    BY DEF G!Cardinality, Cardinality
  <1> QED BY <1>1, <1>2 DEF G!Leaf

LEMMA LeastLeaf ==
    ASSUME NEW S \in SUBSET Nat, S # {}
    PROVE  \E i \in S : \A j \in S : i <= j
  <1>1. PICK i \in S : \A j \in S : ~(<<j, i>> \in OpToRel(<, Nat))
    BY NatLessThanWellFounded, WFMin
  <1>2. \A j \in S : ~(j < i)
    BY <1>1 DEF OpToRel
  <1> QED BY <1>2

\* The lowest blank leaf is one: there are as many leaves as devices, and a
\* newcomer has none.
LEMMA BlankIs ==
    ASSUME GroupConstants, NEW t \in [G!Leaf -> Device \cup {NoDevice}], G!Tidy(t),
           NEW c \in Device, c \notin G!Members(t)
    PROVE  G!Blank(t) \in G!Leaf /\ t[G!Blank(t)] = NoDevice
  <1> DEFINE S == {i \in G!Leaf : t[i] = NoDevice}
  <1>1. S # {}
    <2> SUFFICES ASSUME S = {} PROVE FALSE
      OBVIOUS
    <2>1. t \in [G!Leaf -> Device \ {c}]
      BY DEF G!Members
    <2>2. /\ IsFiniteSet(Device \ {c})
          /\ Cardinality(Device \ {c}) = Cardinality(Device) - 1
      BY FS_RemoveElement DEF GroupConstants
    <2>3. IsFiniteSet(G!Leaf) /\ Cardinality(G!Leaf) = Cardinality(Device)
      <3> DEFINE n == Cardinality(Device)
      <3>1. n \in Nat /\ G!Leaf = 1 .. n
        BY Leaves
      <3> HIDE DEF n
      <3>2. IsFiniteSet(1 .. n) /\ Cardinality(1 .. n) = IF 1 > n THEN 0 ELSE n - 1 + 1
        BY <3>1, FS_Interval
      <3>3. Cardinality(1 .. n) = n
        BY <3>1, <3>2
      <3> QED BY <3>1, <3>2, <3>3 DEF n
    <2>4. Cardinality(Device \ {c}) < Cardinality(G!Leaf)
      BY <2>2, <2>3, Leaves
    <2>5. \E i, j \in G!Leaf : i # j /\ t[i] = t[j]
      BY <2>1, <2>2, <2>3, <2>4, FS_PigeonHole
    <2> QED BY <2>1, <2>5 DEF G!Tidy, GroupConstants
  <1>2. S \subseteq Nat
    BY Leaves
  <1>3. PICK i \in S : \A j \in S : i <= j
    BY <1>1, <1>2, LeastLeaf
  <1>5. i \in G!Leaf /\ t[i] = NoDevice
    OBVIOUS
  <1>6. \A j \in 1 .. (i - 1) : t[j] # NoDevice
    <2> DEFINE n == Cardinality(Device)
    <2>1. n \in Nat /\ G!Leaf = 1 .. n
      BY Leaves
    <2> HIDE DEF n
    <2> TAKE j \in 1 .. (i - 1)
    <2>2. i \in 1 .. n
      BY <2>1, <1>5
    <2>3. j \in G!Leaf /\ ~(i <= j)
      BY <2>1, <2>2
    <2> QED BY <2>3, <1>3
  <1> QED BY <1>5, <1>6 DEF G!Blank

LEMMA LeafIs ==
    ASSUME NEW t, NEW d \in G!Members(t)
    PROVE  G!LeafOf(t, d) \in G!Leaf /\ t[G!LeafOf(t, d)] = d
  BY DEF G!Members, G!LeafOf

\* Two who were both to commit on one tree are one, or one is revoked.
LEMMA OneLeads ==
    ASSUME GroupConstants, NEW R, R \subseteq Device, NEW t, NEW a, NEW b,
           G!Led(R, t, a), G!Led(R, t, b), a \notin R, b \notin R
    PROVE  a = b
  <1>1. a \in G!Members(t) /\ b \in G!Members(t) /\ NoDevice \notin {a, b}
    BY DEF G!Led, G!Members
  <1>2. /\ G!LeafOf(t, a) \in G!Leaf /\ t[G!LeafOf(t, a)] = a
        /\ G!LeafOf(t, b) \in G!Leaf /\ t[G!LeafOf(t, b)] = b
    BY <1>1, LeafIs
  <1>3. ~(G!LeafOf(t, a) < G!LeafOf(t, b))
    BY <1>1, <1>2 DEF G!Led
  <1>4. ~(G!LeafOf(t, b) < G!LeafOf(t, a))
    BY <1>1, <1>2 DEF G!Led
  <1>5. G!LeafOf(t, a) \in Nat /\ G!LeafOf(t, b) \in Nat
    BY <1>2, Leaves
  <1>6. G!LeafOf(t, a) = G!LeafOf(t, b)
    BY <1>3, <1>4, <1>5
  <1> QED BY <1>2, <1>6

-----------------------------------------------------------------------------
(* Histories: what holds of one holds when more devices are revoked, and a   *)
(* removal and an addition by the one to commit keep it.                     *)

LEMMA GrowProper ==
    ASSUME NEW R, NEW Q, R \subseteq Q, NEW s, G!Proper(R, s)
    PROVE  G!Proper(Q, s)
  <1>1. \A t, d : G!Led(R, t, d) => G!Led(Q, t, d)
    BY DEF G!Led
  <1> QED BY <1>1 DEF G!Proper

LEMMA GrowLine ==
    ASSUME NEW R, NEW Q, R \subseteq Q, NEW s, NEW d, G!Line(R, s, d)
    PROVE  G!Line(Q, s, d)
  BY GrowProper DEF G!Line

LEMMA GrowGenuine ==
    ASSUME NEW R, NEW Q, R \subseteq Q, NEW line, NEW more,
           \A i \in Identity : /\ Len(line[i]) \in Nat /\ Len(more[i]) \in Nat
                               /\ Len(line[i]) <= Len(more[i]),
           NEW m \in G!Message, NEW x, G!Genuine(R, line, m, x)
    PROVE  G!Genuine(Q, more, m, x)
  <1>1. m.kind = "welcome" => G!Proper(Q, m.on) /\ x \in G!Members(G!Tree(m.on))
    BY GrowProper DEF G!Genuine
  <1>2. m.kind = "commit" => /\ m.on # <<>> /\ G!Proper(Q, m.next)
                             /\ G!Members(G!Tree(m.on)) \subseteq G!Members(G!Tree(m.next)) \cup Q
    BY GrowProper DEF G!Genuine
  <1>3. ASSUME m.kind = "manifest" PROVE m.n <= Len(more[m.id])
    <2>1. m.id \in Identity /\ m.n \in Nat
      BY <1>3 DEF G!Message
    <2>2. m.n <= Len(line[m.id])
      BY <1>3 DEF G!Genuine
    <2> QED BY <2>1, <2>2
  <1> QED BY <1>1, <1>2, <1>3 DEF G!Genuine

LEMMA TreeOf ==
    ASSUME NEW s \in Seq(G!Entry), Len(s) >= 1
    PROVE  /\ G!Tree(s) \in [G!Leaf -> Device \cup {NoDevice}]
           /\ Len(s) \in Nat /\ G!Tree(s) = s[Len(s)].tree
  <1>1. Len(s) \in 1 .. Len(s)
    BY LenProperties
  <1>2. s[Len(s)] \in G!Entry
    BY <1>1, ElementOfSeq
  <1> QED BY <1>2, LenProperties DEF G!Entry, G!Tree

LEMMA ExtendProper ==
    ASSUME NEW R, NEW s \in Seq(G!Entry), G!Proper(R, s), NEW e \in G!Entry,
           G!Led(R, G!Tree(s), e.by), G!Tidy(e.tree), e.out \subseteq R
    PROVE  /\ Append(s, e) \in Seq(G!Entry) /\ G!Proper(R, Append(s, e))
           /\ G!Tree(Append(s, e)) = e.tree
  <1> DEFINE h == Append(s, e)
  <1>1. /\ Len(s) \in Nat /\ Len(s) >= 1
        /\ h \in Seq(G!Entry) /\ Len(h) = Len(s) + 1
        /\ \A k \in 1 .. Len(s) : h[k] = s[k]
        /\ h[Len(s) + 1] = e
    BY AppendProperties, LenProperties DEF G!Proper
  <1>2. G!Tree(h) = e.tree
    BY <1>1 DEF G!Tree
  <1> HIDE DEF h
  <1>3. ASSUME NEW k \in 1 .. Len(h) PROVE G!Tidy(h[k].tree) /\ h[k].out \subseteq R
    <2>1. k = Len(s) + 1 \/ k \in 1 .. Len(s)
      BY <1>1
    <2> QED BY <2>1, <1>1 DEF G!Proper
  <1>4. ASSUME NEW k \in 2 .. Len(h) PROVE G!Led(R, h[k - 1].tree, h[k].by)
    <2>1. CASE k = Len(s) + 1
      <3>1. k - 1 = Len(s) /\ Len(s) \in 1 .. Len(s)
        BY <2>1, <1>1
      <3>2. h[k - 1] = s[Len(s)] /\ h[k] = e
        BY <2>1, <3>1, <1>1
      <3> QED BY <3>2 DEF G!Tree
    <2>2. CASE k \in 2 .. Len(s)
      <3>1. k \in 1 .. Len(s) /\ k - 1 \in 1 .. Len(s)
        BY <2>2, <1>1
      <3>2. h[k - 1] = s[k - 1] /\ h[k] = s[k]
        BY <3>1, <1>1
      <3> QED BY <2>2, <3>2 DEF G!Proper
    <2> QED BY <2>1, <2>2, <1>1
  <1>5. G!Proper(R, h)
    BY <1>1, <1>3, <1>4 DEF G!Proper
  <1> QED BY <1>1, <1>2, <1>5 DEF h

LEMMA RemovalProper ==
    ASSUME GroupConstants, NEW R, R \subseteq Device, NEW s \in Seq(G!Entry), G!Proper(R, s),
           NEW d \in Device, G!Led(R, G!Tree(s), d), NEW x \in R, x \in G!Members(G!Tree(s))
    PROVE  /\ G!Removal(s, d, x) \in Seq(G!Entry) /\ G!Proper(R, G!Removal(s, d, x))
           /\ G!Removal(s, d, x) # <<>>
           /\ G!Members(G!Tree(s)) \subseteq G!Members(G!Tree(G!Removal(s, d, x))) \cup R
  <1> DEFINE t == G!Tree(s)
             u == [t EXCEPT ![G!LeafOf(t, x)] = NoDevice]
             e == [by |-> d, out |-> {x}, tree |-> u]
  <1>1. t \in [G!Leaf -> Device \cup {NoDevice}] /\ G!Tidy(t)
    BY TreeOf, LenProperties DEF G!Proper
  <1>2. G!LeafOf(t, x) \in G!Leaf /\ t[G!LeafOf(t, x)] = x
    BY LeafIs
  <1>3. u \in [G!Leaf -> Device \cup {NoDevice}] /\ G!Tidy(u)
    BY <1>1 DEF G!Tidy
  <1>4. G!Members(t) \subseteq G!Members(u) \cup {x}
    BY <1>1, <1>2 DEF G!Members
  <1>5. e \in G!Entry /\ e.by = d /\ e.out = {x} /\ e.tree = u
    BY <1>3 DEF G!Entry
  <1>6. G!Removal(s, d, x) = Append(s, e)
    BY DEF G!Removal
  <1> HIDE DEF u, e
  <1>7. Append(s, e) \in Seq(G!Entry) /\ G!Proper(R, Append(s, e)) /\ G!Tree(Append(s, e)) = u
    BY <1>3, <1>5, ExtendProper
  <1>8. Append(s, e) # <<>>
    BY <1>5, AppendProperties
  <1> QED BY <1>4, <1>6, <1>7, <1>8

LEMMA AdditionProper ==
    ASSUME GroupConstants, NEW R, NEW s \in Seq(G!Entry), G!Proper(R, s),
           NEW d \in Device, G!Led(R, G!Tree(s), d), NEW c \in Device, c \notin G!Members(G!Tree(s))
    PROVE  /\ G!Addition(s, d, c) \in Seq(G!Entry) /\ G!Proper(R, G!Addition(s, d, c))
           /\ G!Addition(s, d, c) # <<>>
           /\ G!Members(G!Tree(s)) \cup {c} \subseteq G!Members(G!Tree(G!Addition(s, d, c)))
  <1> DEFINE t == G!Tree(s)
             b == G!Blank(t)
             u == [t EXCEPT ![b] = c]
             e == [by |-> d, out |-> {}, tree |-> u]
  <1>1. t \in [G!Leaf -> Device \cup {NoDevice}] /\ G!Tidy(t)
    BY TreeOf, LenProperties DEF G!Proper
  <1>2. b \in G!Leaf /\ t[b] = NoDevice
    BY <1>1, BlankIs
  <1> HIDE DEF b
  <1>3. u \in [G!Leaf -> Device \cup {NoDevice}] /\ G!Tidy(u)
    BY <1>1, <1>2 DEF G!Tidy, G!Members, GroupConstants
  <1>4. G!Members(t) \cup {c} \subseteq G!Members(u)
    BY <1>1, <1>2 DEF G!Members, GroupConstants
  <1>5. e \in G!Entry /\ e.by = d /\ e.out = {} /\ e.tree = u
    BY <1>3 DEF G!Entry
  <1>6. G!Addition(s, d, c) = Append(s, e)
    BY DEF G!Addition, b
  <1> HIDE DEF u, e
  <1>7. Append(s, e) \in Seq(G!Entry) /\ G!Proper(R, Append(s, e)) /\ G!Tree(Append(s, e)) = u
    BY <1>3, <1>5, ExtendProper
  <1>8. Append(s, e) # <<>>
    BY <1>5, AppendProperties
  <1> QED BY <1>4, <1>6, <1>7, <1>8

-----------------------------------------------------------------------------
(* Revocation: what is known anywhere is signed, and signed for good.        *)

LEMMA RevokedIs ==
    ASSUME GroupConstants, G!TypeOK, G!LineInv
    PROVE  /\ \A i \in Identity : G!Signed(i) = signed[i][Len(signed[i])]
           /\ G!Revoked = {x \in Device : x \in signed[Owner[x]][Len(signed[Owner[x]])]}
  <1>1. ASSUME NEW i \in Identity PROVE G!Signed(i) = signed[i][Len(signed[i])]
    <2>1. signed[i] \in Seq(SUBSET Device) /\ Len(signed[i]) >= 1
      BY DEF G!TypeOK, G!LineInv
    <2>2. Len(signed[i]) # 0
      BY <2>1, LenProperties
    <2> QED BY <2>2 DEF G!Signed, G!RevokedBy
  <1>2. \A x \in Device : Owner[x] \in Identity
    BY DEF GroupConstants
  <1> QED BY <1>1, <1>2 DEF G!Revoked

LEMMA SignedIsRevoked ==
    ASSUME GroupConstants, G!TypeOK, G!LineInv, NEW i \in Identity, NEW n \in Nat, n <= Len(signed[i])
    PROVE  G!RevokedBy(i, n) \subseteq G!Revoked
  <1> SUFFICES ASSUME NEW x \in G!RevokedBy(i, n) PROVE x \in G!Revoked
    OBVIOUS
  <1>1. n # 0 /\ x \in signed[i][n]
    BY DEF G!RevokedBy
  <1>2. signed[i] \in Seq(SUBSET Device)
    BY DEF G!TypeOK
  <1>3. n \in 1 .. Len(signed[i])
    BY <1>1, <1>2, LenProperties
  <1>4. x \in Device
    BY <1>1, <1>2, <1>3, ElementOfSeq
  <1>5. Owner[x] = i /\ x \in signed[i][Len(signed[i])]
    BY <1>1, <1>3 DEF G!LineInv
  <1> QED BY <1>4, <1>5, RevokedIs

LEMMA KnownIsRevoked ==
    ASSUME GroupConstants, G!GroupsInv, NEW d \in Device
    PROVE  G!KnownRevoked(d) \subseteq G!Revoked
  <1>1. Owner[d] \in Identity
    BY DEF GroupConstants
  <1>2. known[d][Owner[d]] \in Nat /\ known[d][Owner[d]] <= Len(signed[Owner[d]])
    BY <1>1 DEF G!GroupsInv, G!TypeOK, G!LineInv
  <1>3. G!RevokedBy(Owner[d], known[d][Owner[d]]) \subseteq G!Revoked
    BY <1>1, <1>2, SignedIsRevoked DEF G!GroupsInv
  <1>4. marked[d] \subseteq G!Revoked
    BY DEF G!GroupsInv, G!TableInv
  <1> QED BY <1>3, <1>4 DEF G!KnownRevoked

\* Whom its own policy lets commit was to commit.
LEMMA MayLead ==
    ASSUME GroupConstants, G!GroupsInv, NEW d \in Device, group[d] # <<>>, NEW taken,
           G!Permits(d, G!Tree(group[d]), d, taken)
    PROVE  G!Led(G!Revoked, G!Tree(group[d]), d)
  <1> DEFINE t == G!Tree(group[d])
  <1>1. d \in G!Members(t) \cup G!Revoked
    BY DEF G!GroupsInv, G!GroupInv, G!Line
  <1> HIDE DEF t
  <1> SUFFICES ASSUME d \in G!Members(t) PROVE G!Led(G!Revoked, t, d)
    BY <1>1 DEF G!Led, t
  <1> SUFFICES ASSUME NEW i \in G!Leaf, i < G!LeafOf(t, d) PROVE t[i] \in G!Revoked \cup {NoDevice}
    BY DEF G!Led
  <1>2. G!LeafOf(t, d) \in Nat /\ i \in Nat /\ i >= 1
    BY LeafIs, Leaves
  <1>3. i \in 1 .. (G!LeafOf(t, d) - 1)
    BY <1>2
  <1>4. t[i] # NoDevice => t[i] \in G!KnownRevoked(d)
    BY <1>3 DEF G!Permits, t
  <1> QED BY <1>4, KnownIsRevoked

-----------------------------------------------------------------------------
(* Queues.                                                                   *)

LEMMA FanSound ==
    ASSUME NEW d \in Device, NEW m \in G!Message, NEW peers \in SUBSET Device,
           NEW R, NEW line, \A x \in peers : G!Genuine(R, line, m, x)
    PROVE  G!Fan(d, m, peers) \in Seq(G!Batch) /\ G!Queued(R, line, G!Fan(d, m, peers))
  <1> DEFINE b == [message |-> m, to |-> peers \ marked[d]]
  <1>1. b \in G!Batch /\ b.message = m /\ b.to \subseteq peers
    BY DEF G!Batch
  <1>2. G!Fan(d, m, peers) \in {<<>>, <<b>>}
    BY DEF G!Fan
  <1> HIDE DEF b
  <1>3. <<>> \in Seq(G!Batch) /\ <<b>> \in Seq(G!Batch) /\ Len(<<b>>) = 1 /\ <<b>>[1] = b
    BY <1>1
  <1>4. G!Queued(R, line, <<>>)
    BY DEF G!Queued
  <1>5. G!Queued(R, line, <<b>>)
    BY <1>1, <1>3 DEF G!Queued
  <1> QED BY <1>2, <1>3, <1>4, <1>5

LEMMA QueuedBoth ==
    ASSUME NEW R, NEW line, NEW q \in Seq(G!Batch), NEW z \in Seq(G!Batch),
           G!Queued(R, line, q), G!Queued(R, line, z)
    PROVE  q \o z \in Seq(G!Batch) /\ G!Queued(R, line, q \o z)
  <1> DEFINE c == q \o z
  <1>1. /\ c \in Seq(G!Batch)
        /\ Len(c) = Len(q) + Len(z) /\ Len(q) \in Nat /\ Len(z) \in Nat
        /\ \A i \in 1 .. Len(q) + Len(z) : c[i] = IF i <= Len(q) THEN q[i] ELSE z[i - Len(q)]
    BY ConcatProperties, LenProperties
  <1> HIDE DEF c
  <1>2. ASSUME NEW k \in 1 .. Len(c), NEW x \in c[k].to PROVE G!Genuine(R, line, c[k].message, x)
    <2>1. CASE k <= Len(q)
      <3>1. k \in 1 .. Len(q) /\ c[k] = q[k]
        BY <1>1, <2>1
      <3> QED BY <1>2, <3>1 DEF G!Queued
    <2>2. CASE ~(k <= Len(q))
      <3>1. k - Len(q) \in 1 .. Len(z) /\ c[k] = z[k - Len(q)]
        BY <1>1, <2>2
      <3> QED BY <1>2, <3>1 DEF G!Queued
    <2> QED BY <2>1, <2>2
  <1>3. G!Queued(R, line, c)
    BY <1>2 DEF G!Queued
  <1> QED BY <1>1, <1>3 DEF c

\* The head of an outbox without one of its recipients, and without the head.
LEMMA QueuedLess ==
    ASSUME NEW R, NEW line, NEW q \in Seq(G!Batch), q # <<>>, G!Queued(R, line, q), NEW x
    PROVE  /\ Tail(q) \in Seq(G!Batch) /\ G!Queued(R, line, Tail(q))
           /\ Head(q) \in G!Batch /\ \A y \in Head(q).to : G!Genuine(R, line, Head(q).message, y)
           /\ << [Head(q) EXCEPT !.to = @ \ {x}] >> \o Tail(q) \in Seq(G!Batch)
           /\ G!Queued(R, line, << [Head(q) EXCEPT !.to = @ \ {x}] >> \o Tail(q))
  <1>1. /\ Head(q) \in G!Batch /\ Tail(q) \in Seq(G!Batch) /\ Len(Tail(q)) = Len(q) - 1
        /\ \A i \in 1 .. Len(Tail(q)) : Tail(q)[i] = q[i + 1]
        /\ Head(q) = q[1] /\ Len(q) \in Nat /\ Len(q) >= 1
    BY HeadTailProperties, LenProperties, EmptySeq
  <1>2. \A y \in Head(q).to : G!Genuine(R, line, Head(q).message, y)
    <2>1. 1 \in 1 .. Len(q)
      BY <1>1
    <2> QED BY <1>1, <2>1 DEF G!Queued
  <1>3. G!Queued(R, line, Tail(q))
    <2> SUFFICES ASSUME NEW k \in 1 .. Len(Tail(q)), NEW y \in Tail(q)[k].to
                 PROVE  G!Genuine(R, line, Tail(q)[k].message, y)
      BY DEF G!Queued
    <2>1. k + 1 \in 1 .. Len(q) /\ Tail(q)[k] = q[k + 1]
      BY <1>1
    <2> QED BY <2>1 DEF G!Queued
  <1> DEFINE h == Head(q)
             b == [h EXCEPT !.to = @ \ {x}]
  <1> HIDE DEF h
  <1>4. b \in G!Batch /\ b.message = h.message /\ b.to \subseteq h.to
    BY <1>1 DEF G!Batch, h
  <1> HIDE DEF b
  <1>5. <<b>> \in Seq(G!Batch) /\ Len(<<b>>) = 1 /\ <<b>>[1] = b
    BY <1>4
  <1>6. G!Queued(R, line, <<b>>)
    BY <1>2, <1>4, <1>5 DEF G!Queued, h
  <1>7. <<b>> \o Tail(q) \in Seq(G!Batch) /\ G!Queued(R, line, <<b>> \o Tail(q))
    BY <1>1, <1>3, <1>5, <1>6, QueuedBoth
  <1> QED BY <1>1, <1>2, <1>3, <1>7 DEF b, h

LEMMA ReceivedMore ==
    ASSUME NEW R, NEW line, NEW q \in Seq(G!Message), NEW x, G!Received(R, line, q, x),
           NEW m \in G!Message, G!Genuine(R, line, m, x)
    PROVE  /\ Append(q, m) \in Seq(G!Message) /\ G!Received(R, line, Append(q, m), x)
           /\ Len(q) \in Nat /\ Len(Append(q, m)) = Len(q) + 1
  <1>1. /\ Append(q, m) \in Seq(G!Message) /\ Len(Append(q, m)) = Len(q) + 1 /\ Len(q) \in Nat
        /\ \A k \in 1 .. Len(q) : Append(q, m)[k] = q[k]
        /\ Append(q, m)[Len(q) + 1] = m
    BY AppendProperties, LenProperties
  <1>2. \A k \in 1 .. Len(q) + 1 : k \in 1 .. Len(q) \/ k = Len(q) + 1
    BY <1>1
  <1> QED BY <1>1, <1>2 DEF G!Received

LEMMA ReceivedLess ==
    ASSUME NEW R, NEW line, NEW q \in Seq(G!Message), NEW x, G!Received(R, line, q, x), Len(q) >= 1
    PROVE  /\ Head(q) \in G!Message /\ G!Genuine(R, line, Head(q), x)
           /\ Tail(q) \in Seq(G!Message) /\ G!Received(R, line, Tail(q), x)
           /\ Len(q) \in Nat /\ Len(Tail(q)) = Len(q) - 1
  <1>1. /\ Head(q) \in G!Message /\ Tail(q) \in Seq(G!Message) /\ Len(Tail(q)) = Len(q) - 1
        /\ \A i \in 1 .. Len(Tail(q)) : Tail(q)[i] = q[i + 1]
        /\ Head(q) = q[1] /\ Len(q) \in Nat
    BY HeadTailProperties, LenProperties, EmptySeq
  <1>2. 1 \in 1 .. Len(q)
    BY <1>1
  <1>3. \A k \in 1 .. Len(Tail(q)) : k + 1 \in 1 .. Len(q)
    BY <1>1
  <1> QED BY <1>1, <1>2, <1>3 DEF G!Received

-----------------------------------------------------------------------------
(* What a step leaves alone.                                                 *)

LEMMA RevokedKeeps == ASSUME UNCHANGED signed PROVE G!Revoked' = G!Revoked
  BY DEF G!Revoked, G!Signed, G!RevokedBy

LEMMA LineKeeps == ASSUME G!LineInv, UNCHANGED <<signed, relay, known>> PROVE G!LineInv'
  BY DEF G!LineInv

LEMMA TableKeeps == ASSUME G!TableInv, UNCHANGED <<signed, marked, journal>> PROVE G!TableInv'
  BY RevokedKeeps DEF G!TableInv

LEMMA GroupKeeps == ASSUME G!GroupInv, UNCHANGED <<signed, group>> PROVE G!GroupInv'
  BY RevokedKeeps DEF G!GroupInv

LEMMA MailKeeps == ASSUME G!MailInv, UNCHANGED <<signed, boxes, outbox>> PROVE G!MailInv'
  BY RevokedKeeps DEF G!MailInv

\* Where a pass may go from anywhere.
LEMMA Stages ==
    ASSUME GroupConstants, G!TypeOK, NEW d \in Device, NEW task \in {"sync", "revoke"}, NEW q
    PROVE  /\ G!Idle \in G!Pass /\ G!Placed(G!Idle, q)
           /\ G!Refreshing(d) \in G!Pass /\ G!Placed(G!Refreshing(d), q)
           /\ G!Putting(d, task) \in G!Pass /\ G!Placed(G!Putting(d, task), q)
           /\ G!Connecting(d, task) \in G!Pass /\ G!Placed(G!Connecting(d, task), q)
           /\ G!Ending(d) \in G!Pass /\ G!Placed(G!Ending(d), q)
  <1>1. G!Idle \in G!Pass /\ G!Placed(G!Idle, q)
    BY DEF G!Idle, G!Pass, G!Placed
  <1>2. G!Refreshing(d) \in G!Pass /\ G!Placed(G!Refreshing(d), q)
    <2> DEFINE T == {Owner[d]} \cup {Owner[x] : x \in rows[d]}
    <2>1. T \subseteq Identity
      <3>1. \A x \in Device : Owner[x] \in Identity
        BY DEF GroupConstants
      <3>2. rows[d] \subseteq Device
        BY DEF G!TypeOK
      <3> QED BY <3>1, <3>2
    <2>2. G!Refreshing(d) = [G!Idle EXCEPT !.at = "refresh", !.todo = T]
      BY DEF G!Refreshing
    <2> HIDE DEF T
    <2>3. G!Refreshing(d) = [at |-> "refresh", task |-> "sync", k |-> 0, todo |-> T]
      BY <2>2 DEF G!Idle
    <2> QED BY <2>1, <2>3 DEF G!Pass, G!Placed
  <1>3. G!Putting(d, task) \in G!Pass /\ G!Placed(G!Putting(d, task), q)
    <2> DEFINE p == [G!Idle EXCEPT !.at = "pending", !.k = Len(outbox[d])]
    <2>1. Len(outbox[d]) \in Nat
      BY LenProperties DEF G!TypeOK
    <2>2. p \in G!Pass /\ G!Placed(p, q)
      BY <2>1 DEF G!Idle, G!Pass, G!Placed
    <2>3. G!Putting(d, task) \in {G!Idle, G!Refreshing(d), p}
      BY DEF G!Putting
    <2> HIDE DEF p
    <2> QED BY <1>1, <1>2, <2>2, <2>3
  <1>4. G!Connecting(d, task) \in G!Pass /\ G!Placed(G!Connecting(d, task), q)
    <2> DEFINE p == [G!Idle EXCEPT !.at = "publish", !.task = task]
    <2>1. p \in G!Pass /\ G!Placed(p, q)
      BY DEF G!Idle, G!Pass, G!Placed
    <2>2. G!Connecting(d, task) \in {G!Idle, G!Putting(d, task), p}
      BY DEF G!Connecting
    <2> HIDE DEF p
    <2> QED BY <1>1, <1>3, <2>1, <2>2
  <1>5. G!Ending(d) \in G!Pass /\ G!Placed(G!Ending(d), q)
    <2> DEFINE p == [at |-> "again", task |-> "sync", k |-> 1, todo |-> {}]
    <2>1. p \in G!Pass /\ G!Placed(p, q)
      BY DEF G!Pass, G!Placed
    <2>2. G!Ending(d) \in {G!Idle, p}
      BY DEF G!Ending, G!Idle
    <2> HIDE DEF p
    <2> QED BY <1>1, <2>1, <2>2
  <1> QED BY <1>1, <1>2, <1>3, <1>4, <1>5

\* A pass that moves while the mailboxes of others lose nothing.
LEMMA PassMoves ==
    ASSUME G!TypeOK, G!PassInv, NEW d \in Device, NEW p \in G!Pass, G!Placed(p, boxes'[d]),
           stage' = [stage EXCEPT ![d] = p],
           \A e \in Device \ {d} : /\ Len(boxes[e]) \in Nat /\ Len(boxes'[e]) \in Nat
                                   /\ Len(boxes[e]) <= Len(boxes'[e])
    PROVE  stage' \in [Device -> G!Pass] /\ G!PassInv'
  <1>1. stage' \in [Device -> G!Pass]
    BY DEF G!TypeOK
  <1>2. ASSUME NEW e \in Device PROVE G!Placed(stage'[e], boxes'[e])
    <2>1. CASE e = d
      BY <2>1 DEF G!TypeOK
    <2>2. CASE e # d
      <3>1. stage'[e] = stage[e] /\ G!Placed(stage[e], boxes[e]) /\ stage[e] \in G!Pass
        BY <2>2 DEF G!TypeOK, G!PassInv
      <3>2. stage[e].k \in Nat
        BY <3>1 DEF G!Pass
      <3>3. stage[e].k \in 1 .. Len(boxes[e]) => stage[e].k \in 1 .. Len(boxes'[e])
        BY <2>2, <3>2
      <3> QED BY <3>1, <3>3 DEF G!Placed
    <2> QED BY <2>1, <2>2
  <1> QED BY <1>1, <1>2 DEF G!PassInv

\* A step that moves one pass and at most what no invariant reads.
LEMMA PassAlone ==
    ASSUME G!GroupsInv, NEW d \in Device, NEW p \in G!Pass, G!Placed(p, boxes[d]),
           stage' = [stage EXCEPT ![d] = p],
           UNCHANGED <<signed, relay, known, rows, marked, journal, group, outbox, boxes, claimed>>
    PROVE  G!GroupsInv'
  <1>1. \A e \in Device : Len(boxes[e]) \in Nat
    BY LenProperties DEF G!GroupsInv, G!TypeOK
  <1>2. stage' \in [Device -> G!Pass] /\ G!PassInv'
    <2>1. G!Placed(p, boxes'[d])
      OBVIOUS
    <2>2. \A e \in Device \ {d} : /\ Len(boxes[e]) \in Nat /\ Len(boxes'[e]) \in Nat
                                  /\ Len(boxes[e]) <= Len(boxes'[e])
      BY <1>1
    <2>3. G!TypeOK /\ G!PassInv
      BY DEF G!GroupsInv
    <2> QED BY <2>1, <2>2, <2>3, PassMoves
  <1>3. G!TypeOK'
    BY <1>2 DEF G!GroupsInv, G!TypeOK
  <1>4. G!LineInv' /\ G!TableInv' /\ G!GroupInv' /\ G!MailInv'
    BY LineKeeps, TableKeeps, GroupKeeps, MailKeeps DEF G!GroupsInv
  <1> QED BY <1>2, <1>3, <1>4 DEF G!GroupsInv

LEMMA QuietKeeps ==
    ASSUME G!GroupsInv,
           UNCHANGED <<signed, relay, known, rows, marked, journal, group, outbox, boxes, stage, claimed>>
    PROVE  G!GroupsInv'
  <1>1. G!TypeOK' /\ G!PassInv'
    BY DEF G!GroupsInv, G!TypeOK, G!PassInv
  <1>2. G!LineInv' /\ G!TableInv' /\ G!GroupInv' /\ G!MailInv'
    BY LineKeeps, TableKeeps, GroupKeeps, MailKeeps DEF G!GroupsInv
  <1> QED BY <1>1, <1>2 DEF G!GroupsInv

-----------------------------------------------------------------------------
(* The root's device signs.                                                  *)

LEMMA SignedOwn ==
    ASSUME GroupConstants, G!GroupsInv, NEW o \in Identity
    PROVE  G!Signed(o) \subseteq Device /\ \A y \in G!Signed(o) : Owner[y] = o
  <1>1. G!TypeOK /\ G!LineInv
    BY DEF G!GroupsInv
  <1>2. signed[o] \in Seq(SUBSET Device) /\ Len(signed[o]) >= 1
    BY <1>1 DEF G!TypeOK, G!LineInv
  <1>3. Len(signed[o]) \in 1 .. Len(signed[o])
    BY <1>2, LenProperties
  <1>4. G!Signed(o) = signed[o][Len(signed[o])]
    BY <1>1, RevokedIs
  <1>5. G!Signed(o) \subseteq Device
    BY <1>2, <1>3, <1>4, ElementOfSeq
  <1> QED BY <1>1, <1>3, <1>4, <1>5 DEF G!LineInv

\* One manifest more, that revokes no fewer.
LEMMA SignKeeps ==
    ASSUME GroupConstants, G!GroupsInv, NEW d \in Device, NEW S \in SUBSET Device,
           G!Signed(Owner[d]) \subseteq S, \A x \in S : Owner[x] = Owner[d],
           signed' = [signed EXCEPT ![Owner[d]] = Append(@, S)],
           known' = [known EXCEPT ![d][Owner[d]] = @ + 1],
           relay' = relay
    PROVE  /\ signed' \in [Identity -> Seq(SUBSET Device)] /\ known' \in [Device -> [Identity -> Nat]]
           /\ G!LineInv'
           /\ G!Revoked \subseteq G!Revoked' /\ S \subseteq G!Revoked'
           /\ \A i \in Identity : /\ Len(signed[i]) \in Nat /\ Len(signed'[i]) \in Nat
                                  /\ Len(signed[i]) <= Len(signed'[i])
  <1> DEFINE o == Owner[d]
  <1>1. o \in Identity /\ signed \in [Identity -> Seq(SUBSET Device)]
    BY DEF GroupConstants, G!GroupsInv, G!TypeOK
  <1>2. /\ signed[o] \in Seq(SUBSET Device) /\ Len(signed[o]) \in Nat /\ Len(signed[o]) >= 1
        /\ signed[o][Len(signed[o])] \subseteq S
    BY <1>1, RevokedIs, LenProperties DEF G!GroupsInv, G!LineInv
  <1>3. /\ signed' \in [Identity -> Seq(SUBSET Device)]
        /\ Len(signed'[o]) = Len(signed[o]) + 1 /\ signed'[o][Len(signed[o]) + 1] = S
        /\ \A n \in 1 .. Len(signed[o]) : signed'[o][n] = signed[o][n]
        /\ \A i \in Identity : i # o => signed'[i] = signed[i]
    BY <1>1, <1>2, AppendProperties
  <1>4. \A i \in Identity : /\ Len(signed[i]) \in Nat /\ Len(signed'[i]) \in Nat
                            /\ Len(signed[i]) <= Len(signed'[i])
    <2> TAKE i \in Identity
    <2>1. Len(signed[i]) \in Nat /\ Len(signed'[i]) \in Nat
      BY <1>1, <1>3, LenProperties
    <2> QED BY <2>1, <1>2, <1>3
  <1>5. known' \in [Device -> [Identity -> Nat]]
    <2> DEFINE row == [known[d] EXCEPT ![o] = @ + 1]
    <2>1. known \in [Device -> [Identity -> Nat]] /\ known[d] \in [Identity -> Nat]
      BY DEF G!GroupsInv, G!TypeOK
    <2>2. row \in [Identity -> Nat]
      BY <2>1, <1>1
    <2>3. known' = [known EXCEPT ![d] = row]
      BY <2>1
    <2> HIDE DEF row
    <2> QED BY <2>1, <2>2, <2>3
  <1>6. ASSUME NEW e \in Device, NEW i \in Identity PROVE known'[e][i] <= Len(signed'[i])
    <2>1. known[e][i] \in Nat /\ known[e][i] <= Len(signed[i])
      BY DEF G!GroupsInv, G!TypeOK, G!LineInv
    <2>2. CASE e = d /\ i = o
      <3>1. known'[e][i] = known[e][i] + 1
        BY <2>2, <1>1 DEF G!GroupsInv, G!TypeOK
      <3> QED BY <2>1, <2>2, <3>1, <1>2, <1>3
    <2>3. CASE ~(e = d /\ i = o)
      <3>1. known'[e][i] = known[e][i]
        BY <2>3, <1>1 DEF G!GroupsInv, G!TypeOK
      <3> QED BY <2>1, <3>1, <1>4
    <2> QED BY <2>2, <2>3
  <1>7. ASSUME NEW i \in Identity
        PROVE  /\ Len(signed'[i]) >= 1 /\ relay'[i] <= Len(signed'[i])
               /\ \A n \in 1 .. Len(signed'[i]) : \A x \in signed'[i][n] :
                     Owner[x] = i /\ x \in signed'[i][Len(signed'[i])]
    <2>1. /\ Len(signed[i]) >= 1 /\ relay[i] <= Len(signed[i]) /\ relay[i] \in Nat
          /\ \A n \in 1 .. Len(signed[i]) : \A x \in signed[i][n] :
                Owner[x] = i /\ x \in signed[i][Len(signed[i])]
      BY DEF G!GroupsInv, G!TypeOK, G!LineInv
    <2>2. Len(signed'[i]) >= 1 /\ relay'[i] <= Len(signed'[i])
      BY <2>1, <1>4
    <2>3. CASE i # o
      BY <2>1, <2>2, <2>3, <1>3
    <2>4. CASE i = o
      <3> SUFFICES ASSUME NEW n \in 1 .. Len(signed'[o]), NEW x \in signed'[o][n]
                   PROVE  Owner[x] = o /\ x \in S
        BY <2>2, <2>4, <1>3
      <3>1. n \in 1 .. Len(signed[o]) \/ n = Len(signed[o]) + 1
        BY <1>2, <1>3
      <3> QED BY <3>1, <2>1, <2>4, <1>2, <1>3
    <2> QED BY <2>2, <2>3, <2>4
  <1>8. G!LineInv'
    BY <1>6, <1>7 DEF G!LineInv
  <1>9. \A i \in Identity : G!Signed(i)' = signed'[i][Len(signed'[i])]
    <2> TAKE i \in Identity
    <2>1. Len(signed'[i]) # 0
      BY <1>4, <1>7
    <2> QED BY <2>1 DEF G!Signed, G!RevokedBy
  <1>10. \A x \in Device : Owner[x] \in Identity
    BY DEF GroupConstants
  <1>11. G!Revoked' = {x \in Device : x \in signed'[Owner[x]][Len(signed'[Owner[x]])]}
    BY <1>9, <1>10 DEF G!Revoked
  <1>12. S \subseteq G!Revoked'
    BY <1>3, <1>11
  <1>13. G!Revoked \subseteq G!Revoked'
    <2> SUFFICES ASSUME NEW x \in G!Revoked PROVE x \in G!Revoked'
      OBVIOUS
    <2>1. x \in Device /\ x \in signed[Owner[x]][Len(signed[Owner[x]])]
      BY RevokedIs DEF G!GroupsInv
    <2>2. CASE Owner[x] = o
      BY <2>1, <2>2, <1>2, <1>12
    <2>3. CASE Owner[x] # o
      BY <2>1, <2>3, <1>3, <1>10, <1>11
    <2> QED BY <2>2, <2>3
  <1> QED BY <1>3, <1>4, <1>5, <1>8, <1>12, <1>13

\* What was sound stays sound when more is signed.
LEMMA GrowKeeps ==
    ASSUME G!GroupsInv, G!Revoked \subseteq G!Revoked',
           \A i \in Identity : /\ Len(signed[i]) \in Nat /\ Len(signed'[i]) \in Nat
                               /\ Len(signed[i]) <= Len(signed'[i]),
           UNCHANGED <<group, outbox, boxes>>
    PROVE  G!GroupInv' /\ G!MailInv'
  <1>1. G!GroupInv'
    BY GrowLine DEF G!GroupsInv, G!GroupInv
  <1>2. ASSUME NEW d \in Device, NEW k \in 1 .. Len(boxes[d])
        PROVE  G!Genuine(G!Revoked', signed', boxes[d][k], d)
    <2>1. boxes[d][k] \in G!Message
      BY ElementOfSeq DEF G!GroupsInv, G!TypeOK
    <2>2. G!Genuine(G!Revoked, signed, boxes[d][k], d)
      BY DEF G!GroupsInv, G!MailInv, G!Received
    <2> QED BY <2>1, <2>2, GrowGenuine
  <1>3. ASSUME NEW d \in Device, NEW k \in 1 .. Len(outbox[d]), NEW x \in outbox[d][k].to
        PROVE  G!Genuine(G!Revoked', signed', outbox[d][k].message, x)
    <2>1. outbox[d][k] \in G!Batch
      BY ElementOfSeq DEF G!GroupsInv, G!TypeOK
    <2>2. outbox[d][k].message \in G!Message
      BY <2>1 DEF G!Batch
    <2>3. G!Genuine(G!Revoked, signed, outbox[d][k].message, x)
      BY DEF G!GroupsInv, G!MailInv, G!Queued
    <2> QED BY <2>2, <2>3, GrowGenuine
  <1>4. G!MailInv'
    BY <1>2, <1>3 DEF G!MailInv, G!Received, G!Queued
  <1> QED BY <1>1, <1>4

LEMMA RevokeKeeps ==
    ASSUME GroupConstants, G!GroupsInv, NEW d \in Device, NEW x \in Device, G!RevokeDevice(d, x)
    PROVE  G!GroupsInv'
  <1> DEFINE o == Owner[d]
             p == [at |-> "prepare", task |-> "revoke", k |-> 1, todo |-> {}]
  <1>1. o \in Identity /\ Owner[x] = o
    BY DEF GroupConstants, G!RevokeDevice
  <1>2. /\ stage' = [stage EXCEPT ![d] = p]
        /\ marked' = [marked EXCEPT ![d] = @ \cup ({x} \cap rows[d])]
        /\ UNCHANGED <<relay, rows, group, outbox, boxes, claimed>>
    BY DEF G!RevokeDevice
  <1>3. p \in G!Pass /\ G!Placed(p, boxes'[d])
    BY DEF G!Pass, G!Placed
  <1> HIDE DEF p
  <1>4. \A e \in Device : Len(boxes[e]) \in Nat
    BY LenProperties DEF G!GroupsInv, G!TypeOK
  <1>5. stage' \in [Device -> G!Pass] /\ G!PassInv'
    <2>1. \A e \in Device \ {d} : /\ Len(boxes[e]) \in Nat /\ Len(boxes'[e]) \in Nat
                                  /\ Len(boxes[e]) <= Len(boxes'[e])
      BY <1>2, <1>4
    <2>2. G!TypeOK /\ G!PassInv
      BY DEF G!GroupsInv
    <2> QED BY <1>2, <1>3, <2>1, <2>2, PassMoves
  <1>6. marked' \in [Device -> SUBSET Device]
    BY <1>2 DEF G!GroupsInv, G!TypeOK
  <1>7. /\ signed' \in [Identity -> Seq(SUBSET Device)] /\ known' \in [Device -> [Identity -> Nat]]
        /\ journal' \in [Device -> Seq(Device)]
        /\ G!LineInv'
        /\ G!Revoked \subseteq G!Revoked' /\ x \in G!Revoked'
        /\ \A i \in Identity : /\ Len(signed[i]) \in Nat /\ Len(signed'[i]) \in Nat
                               /\ Len(signed[i]) <= Len(signed'[i])
        /\ \A e \in Device : \A k \in 1 .. Len(journal'[e]) : journal'[e][k] \in G!Revoked'
    <2>1. CASE x \in G!Signed(o)
      <3>1. UNCHANGED <<signed, known, journal>>
        BY <2>1 DEF G!RevokeDevice
      <3>2. G!Revoked' = G!Revoked /\ x \in G!Revoked
        BY <3>1, <2>1, <1>1, RevokedKeeps DEF G!Revoked
      <3>3. \A i \in Identity : Len(signed[i]) \in Nat
        BY LenProperties DEF G!GroupsInv, G!TypeOK
      <3>4. G!LineInv'
        BY <3>1, <1>2, LineKeeps DEF G!GroupsInv
      <3>5. \A i \in Identity : /\ Len(signed[i]) \in Nat /\ Len(signed'[i]) \in Nat
                                /\ Len(signed[i]) <= Len(signed'[i])
        BY <3>1, <3>3
      <3> QED BY <3>1, <3>2, <3>4, <3>5 DEF G!GroupsInv, G!TypeOK, G!TableInv
    <2>2. CASE x \notin G!Signed(o)
      <3> DEFINE S == G!Signed(o) \cup {x}
      <3>1. /\ signed' = [signed EXCEPT ![o] = Append(@, S)]
            /\ known' = [known EXCEPT ![d][o] = @ + 1]
            /\ journal' = [journal EXCEPT ![d] = Append(@, x)]
        BY <2>2 DEF G!RevokeDevice
      <3>2. S \subseteq Device /\ \A y \in S : Owner[y] = o
        BY <1>1, SignedOwn
      <3>3. G!Signed(o) \subseteq S /\ x \in S
        OBVIOUS
      <3> HIDE DEF S
      <3>4. /\ signed' \in [Identity -> Seq(SUBSET Device)] /\ known' \in [Device -> [Identity -> Nat]]
            /\ G!LineInv'
            /\ G!Revoked \subseteq G!Revoked' /\ S \subseteq G!Revoked'
            /\ \A i \in Identity : /\ Len(signed[i]) \in Nat /\ Len(signed'[i]) \in Nat
                                   /\ Len(signed[i]) <= Len(signed'[i])
        BY <3>1, <3>2, <3>3, <1>2, SignKeeps
      <3>5. journal[d] \in Seq(Device) /\ journal \in [Device -> Seq(Device)]
        BY DEF G!GroupsInv, G!TypeOK
      <3>6. /\ journal' \in [Device -> Seq(Device)] /\ Len(journal[d]) \in Nat
            /\ Len(journal'[d]) = Len(journal[d]) + 1 /\ journal'[d][Len(journal[d]) + 1] = x
            /\ \A k \in 1 .. Len(journal[d]) : journal'[d][k] = journal[d][k]
            /\ \A e \in Device : e # d => journal'[e] = journal[e]
        BY <3>1, <3>5, AppendProperties, LenProperties
      <3>7. ASSUME NEW e \in Device, NEW k \in 1 .. Len(journal'[e])
            PROVE  journal'[e][k] \in G!Revoked'
        <4>1. CASE e # d
          BY <4>1, <3>4, <3>6 DEF G!GroupsInv, G!TableInv
        <4>2. CASE e = d
          <5>1. k \in 1 .. Len(journal[d]) \/ k = Len(journal[d]) + 1
            BY <4>2, <3>6
          <5> QED BY <5>1, <4>2, <3>3, <3>4, <3>6 DEF G!GroupsInv, G!TableInv
        <4> QED BY <4>1, <4>2
      <3> QED BY <3>3, <3>4, <3>6, <3>7
    <2> QED BY <2>1, <2>2
  <1>8. G!TypeOK'
    BY <1>2, <1>5, <1>6, <1>7 DEF G!GroupsInv, G!TypeOK
  <1>9. G!TableInv'
    <2>1. \A e \in Device : marked'[e] \subseteq marked[e] \cup {x}
      BY <1>2 DEF G!GroupsInv, G!TypeOK
    <2> QED BY <2>1, <1>7 DEF G!GroupsInv, G!TableInv
  <1>10. G!GroupInv' /\ G!MailInv'
    BY <1>2, <1>7, GrowKeeps
  <1> QED BY <1>5, <1>7, <1>8, <1>9, <1>10 DEF G!GroupsInv

LEMMA LinkKeeps ==
    ASSUME GroupConstants, G!GroupsInv, NEW d \in Device, G!LinkDevice(d)
    PROVE  G!GroupsInv'
  <1> DEFINE o == Owner[d]
             S == G!Signed(o)
  <1>1. o \in Identity
    BY DEF GroupConstants
  <1>2. /\ signed' = [signed EXCEPT ![o] = Append(@, S)]
        /\ known' = [known EXCEPT ![d][o] = @ + 1]
        /\ UNCHANGED <<relay, rows, marked, journal, group, outbox, boxes, stage, claimed>>
    BY DEF G!LinkDevice, G!record
  <1>3. S \subseteq Device /\ \A y \in S : Owner[y] = o
    BY <1>1, SignedOwn
  <1>4. G!Signed(o) \subseteq S
    OBVIOUS
  <1> HIDE DEF S
  <1>5. /\ signed' \in [Identity -> Seq(SUBSET Device)] /\ known' \in [Device -> [Identity -> Nat]]
        /\ G!LineInv'
        /\ G!Revoked \subseteq G!Revoked'
        /\ \A i \in Identity : /\ Len(signed[i]) \in Nat /\ Len(signed'[i]) \in Nat
                               /\ Len(signed[i]) <= Len(signed'[i])
    BY <1>2, <1>3, <1>4, SignKeeps
  <1>6. G!TypeOK' /\ G!TableInv' /\ G!PassInv'
    BY <1>2, <1>5 DEF G!GroupsInv, G!TypeOK, G!TableInv, G!PassInv
  <1>7. G!GroupInv' /\ G!MailInv'
    BY <1>2, <1>5, GrowKeeps
  <1> QED BY <1>5, <1>6, <1>7 DEF G!GroupsInv

\* A manifest d holds goes to the relay.
LEMMA RelayKeeps ==
    ASSUME GroupConstants, G!GroupsInv, NEW d \in Device,
           relay' = [relay EXCEPT ![Owner[d]] = known[d][Owner[d]]],
           UNCHANGED <<signed, known>>
    PROVE  relay' \in [Identity -> Nat] /\ G!LineInv'
  <1>1. Owner[d] \in Identity
    BY DEF GroupConstants
  <1>2. known[d][Owner[d]] \in Nat /\ known[d][Owner[d]] <= Len(signed[Owner[d]])
    BY <1>1 DEF G!GroupsInv, G!TypeOK, G!LineInv
  <1>3. relay' \in [Identity -> Nat] /\ \A i \in Identity : relay'[i] <= Len(signed[i])
    BY <1>1, <1>2 DEF G!GroupsInv, G!TypeOK, G!LineInv
  <1> QED BY <1>3 DEF G!GroupsInv, G!LineInv

LEMMA PutLinkedKeeps ==
    ASSUME GroupConstants, G!GroupsInv, NEW d \in Device, G!PutLinked(d)
    PROVE  G!GroupsInv'
  <1>1. /\ relay' = [relay EXCEPT ![Owner[d]] = known[d][Owner[d]]]
        /\ UNCHANGED <<signed, known, rows, marked, journal, group, outbox, boxes, stage, claimed>>
    BY DEF G!PutLinked, G!tables, G!record
  <1>2. relay' \in [Identity -> Nat] /\ G!LineInv'
    BY <1>1, RelayKeeps
  <1>3. G!TypeOK' /\ G!PassInv'
    BY <1>1, <1>2 DEF G!GroupsInv, G!TypeOK, G!PassInv
  <1>4. G!TableInv' /\ G!GroupInv' /\ G!MailInv'
    BY <1>1, TableKeeps, GroupKeeps, MailKeeps DEF G!GroupsInv
  <1> QED BY <1>2, <1>3, <1>4 DEF G!GroupsInv

-----------------------------------------------------------------------------
(* The pass.                                                                 *)

LEMMA PublishKeeps ==
    ASSUME GroupConstants, G!GroupsInv, NEW d \in Device, G!Publish(d)
    PROVE  G!GroupsInv'
  <1>1. /\ relay' = [relay EXCEPT ![Owner[d]] = known[d][Owner[d]]]
        /\ UNCHANGED <<signed, known, rows, marked, journal, group, outbox, boxes, claimed>>
        /\ stage' \in {[stage EXCEPT ![d] = G!Putting(d, stage[d].task)], [stage EXCEPT ![d] = G!Idle]}
    BY DEF G!Publish, G!tables, G!Finish
  <1>2. relay' \in [Identity -> Nat] /\ G!LineInv'
    BY <1>1, RelayKeeps
  <1>3. PICK p \in {G!Idle, G!Putting(d, stage[d].task)} : stage' = [stage EXCEPT ![d] = p]
    BY <1>1
  <1>4. stage[d].task \in {"sync", "revoke"}
    BY DEF G!GroupsInv, G!TypeOK, G!Pass
  <1>5. p \in G!Pass /\ G!Placed(p, boxes'[d])
    BY <1>3, <1>4, Stages DEF G!GroupsInv
  <1>6. \A e \in Device : Len(boxes[e]) \in Nat
    BY LenProperties DEF G!GroupsInv, G!TypeOK
  <1>7. stage' \in [Device -> G!Pass] /\ G!PassInv'
    <2>1. \A e \in Device \ {d} : /\ Len(boxes[e]) \in Nat /\ Len(boxes'[e]) \in Nat
                                  /\ Len(boxes[e]) <= Len(boxes'[e])
      BY <1>1, <1>6
    <2>2. G!TypeOK /\ G!PassInv
      BY DEF G!GroupsInv
    <2> QED BY <1>3, <1>5, <2>1, <2>2, PassMoves
  <1>8. G!TypeOK'
    BY <1>1, <1>2, <1>7 DEF G!GroupsInv, G!TypeOK
  <1>9. G!TableInv' /\ G!GroupInv' /\ G!MailInv'
    BY <1>1, TableKeeps, GroupKeeps, MailKeeps DEF G!GroupsInv
  <1> QED BY <1>2, <1>7, <1>8, <1>9 DEF G!GroupsInv

\* The steps of a pass that only move it.
LEMMA MovesKeep ==
    ASSUME GroupConstants, G!GroupsInv, NEW d \in Device,
           G!Sync(d) \/ G!Prepared(d) \/ G!PutAll(d) \/ G!Fetch(d) \/ G!PassStops(d)
    PROVE  G!GroupsInv'
  <1> DEFINE same == UNCHANGED <<signed, relay, known, rows, marked, journal, group, outbox, boxes, claimed>>
  <1>1. stage[d].task \in {"sync", "revoke"} /\ G!TypeOK
    BY DEF G!GroupsInv, G!TypeOK, G!Pass
  <1>2. /\ G!Idle \in G!Pass /\ G!Placed(G!Idle, boxes[d])
        /\ G!Refreshing(d) \in G!Pass /\ G!Placed(G!Refreshing(d), boxes[d])
        /\ G!Ending(d) \in G!Pass /\ G!Placed(G!Ending(d), boxes[d])
        /\ \A task \in {"sync", "revoke"} :
              G!Connecting(d, task) \in G!Pass /\ G!Placed(G!Connecting(d, task), boxes[d])
    BY <1>1, Stages
  <1>3. CASE G!Sync(d)
    <2> DEFINE first == [at |-> "prepare", task |-> "sync", k |-> 1, todo |-> {}]
               p == IF journal[d] = <<>> THEN G!Connecting(d, "sync") ELSE first
    <2>1. same /\ stage' = [stage EXCEPT ![d] = p]
      BY <1>3 DEF G!Sync, G!manifests, G!tables, G!record
    <2>2. first \in G!Pass /\ G!Placed(first, boxes[d])
      BY DEF G!Pass, G!Placed
    <2> HIDE DEF first
    <2>3. p \in G!Pass /\ G!Placed(p, boxes[d])
      BY <1>2, <2>2
    <2> HIDE DEF p
    <2> QED BY <2>1, <2>3, PassAlone
  <1>4. CASE G!Prepared(d)
    <2> DEFINE p == IF stage[d].at = "prepare" THEN G!Connecting(d, stage[d].task) ELSE G!Idle
    <2>1. same /\ stage' = [stage EXCEPT ![d] = p]
      BY <1>4 DEF G!Prepared, G!manifests, G!tables, G!record
    <2>2. p \in G!Pass /\ G!Placed(p, boxes[d])
      BY <1>1, <1>2
    <2> HIDE DEF p
    <2> QED BY <2>1, <2>2, PassAlone
  <1>5. CASE G!PutAll(d)
    <2>1. same /\ stage' = [stage EXCEPT ![d] = G!Refreshing(d)]
      BY <1>5 DEF G!PutAll, G!manifests, G!tables, G!record
    <2> QED BY <1>2, <2>1, PassAlone
  <1>6. CASE G!Fetch(d)
    <2> DEFINE n == Len(boxes[d])
               page == [G!Idle EXCEPT !.at = "receive", !.k = n]
               p == IF boxes[d] = <<>> THEN G!Ending(d) ELSE page
    <2>1. same /\ stage' = [stage EXCEPT ![d] = p]
      BY <1>6 DEF G!Fetch, G!manifests, G!tables, G!record
    <2>2. Len(boxes[d]) \in Nat /\ (boxes[d] # <<>> => Len(boxes[d]) >= 1)
      BY <1>1, LenProperties, EmptySeq DEF G!TypeOK
    <2>3. boxes[d] # <<>> => page \in G!Pass /\ G!Placed(page, boxes[d])
      <3>1. n = Len(boxes[d]) /\ n \in Nat
        BY <2>2
      <3> HIDE DEF n
      <3>2. page \in G!Pass /\ page.at = "receive" /\ page.k = n
        BY <3>1 DEF G!Idle, G!Pass
      <3> HIDE DEF page
      <3> QED BY <2>2, <3>1, <3>2 DEF G!Placed
    <2> HIDE DEF page
    <2>4. p \in G!Pass /\ G!Placed(p, boxes[d])
      BY <1>2, <2>3
    <2> HIDE DEF p
    <2> QED BY <2>1, <2>4, PassAlone
  <1>7. CASE G!PassStops(d)
    <2>1. same /\ stage' = [stage EXCEPT ![d] = G!Idle]
      BY <1>7 DEF G!PassStops, G!Finish, G!manifests, G!tables, G!record
    <2> QED BY <1>2, <2>1, PassAlone
  <1> QED BY <1>3, <1>4, <1>5, <1>6, <1>7

\* A commit of d: its own state, and the message for the others.
LEMMA CommitSound ==
    ASSUME GroupConstants, G!GroupsInv, NEW d \in Device, group[d] # <<>>,
           NEW h \in Seq(G!Entry), G!Proper(G!Revoked, h), h # <<>>,
           G!Members(G!Tree(group[d])) \subseteq G!Members(G!Tree(h)) \cup G!Revoked
    PROVE  /\ G!Line(G!Revoked, h, d)
           /\ [kind |-> "commit", on |-> group[d], next |-> h] \in G!Message
           /\ \A x : G!Genuine(G!Revoked, signed, [kind |-> "commit", on |-> group[d], next |-> h], x)
  <1>1. group[d] \in Seq(G!Entry) /\ d \in G!Members(G!Tree(group[d])) \cup G!Revoked
    BY DEF G!GroupsInv, G!TypeOK, G!GroupInv, G!Line
  <1>2. G!Line(G!Revoked, h, d)
    BY <1>1 DEF G!Line
  <1> DEFINE m == [kind |-> "commit", on |-> group[d], next |-> h]
  <1>3. m \in G!Message /\ m.kind = "commit" /\ m.on = group[d] /\ m.next = h
    BY <1>1 DEF G!Message
  <1> HIDE DEF m
  <1>4. \A x : G!Genuine(G!Revoked, signed, m, x)
    BY <1>3 DEF G!Genuine
  <1> QED BY <1>2, <1>3, <1>4 DEF m

LEMMA GroupMoves ==
    ASSUME G!GroupsInv, NEW d \in Device, NEW h \in Seq(G!Entry), G!Line(G!Revoked, h, d),
           group' = [group EXCEPT ![d] = h], UNCHANGED signed
    PROVE  group' \in [Device -> Seq(G!Entry)] /\ G!GroupInv'
  <1>1. group' \in [Device -> Seq(G!Entry)]
    BY DEF G!GroupsInv, G!TypeOK
  <1>2. \A e \in Device : G!Line(G!Revoked, group'[e], e)
    BY DEF G!GroupsInv, G!TypeOK, G!GroupInv
  <1> QED BY <1>1, <1>2, RevokedKeeps DEF G!GroupInv

LEMMA OutboxMoves ==
    ASSUME G!GroupsInv, NEW d \in Device, NEW q \in Seq(G!Batch), G!Queued(G!Revoked, signed, q),
           outbox' = [outbox EXCEPT ![d] = q], UNCHANGED <<signed, boxes>>
    PROVE  outbox' \in [Device -> Seq(G!Batch)] /\ G!MailInv'
  <1>1. outbox' \in [Device -> Seq(G!Batch)]
    BY DEF G!GroupsInv, G!TypeOK
  <1>2. \A e \in Device : G!Queued(G!Revoked, signed, outbox'[e])
    BY DEF G!GroupsInv, G!TypeOK, G!MailInv
  <1> QED BY <1>1, <1>2, RevokedKeeps DEF G!GroupsInv, G!MailInv

LEMMA EmptyQueued ==
    ASSUME NEW R, NEW line PROVE <<>> \in Seq(G!Batch) /\ G!Queued(R, line, <<>>)
  BY DEF G!Queued

LEMMA PrepareKeeps ==
    ASSUME GroupConstants, G!GroupsInv, NEW d \in Device, G!Prepare(d)
    PROVE  G!GroupsInv'
  <1> DEFINE r == journal[d][stage[d].k]
             t == G!Tree(group[d])
             remove == r \in G!Members(t) /\ G!IAmCommitter(d, t)
             notice == [kind |-> "manifest", on |-> group[d], id |-> Owner[d], n |-> known[d][Owner[d]]]
             commit == [kind |-> "commit", on |-> group[d], next |-> G!Removal(group[d], d, r)]
             p == [stage[d] EXCEPT !.k = @ + 1]
             qn == IF r \in announced[d] THEN <<>> ELSE G!Fan(d, notice, rows[d])
             qc == IF remove THEN G!Fan(d, commit, rows[d]) ELSE <<>>
             h == IF remove THEN G!Removal(group[d], d, r) ELSE group[d]
  <1>1. /\ stage[d].at \in {"prepare", "again"} /\ stage[d].k <= Len(journal[d])
        /\ UNCHANGED <<signed, relay, known, rows, marked, journal, boxes, claimed>>
    BY DEF G!Prepare, G!manifests, G!tables
  <1>2. \/ /\ stage' = [stage EXCEPT ![d] = p] \/ stage' = [stage EXCEPT ![d] = G!Idle]
           /\ UNCHANGED <<group, outbox>>
        \/ /\ group[d] # <<>> /\ (remove => G!Permits(d, t, d, {r}))
           /\ outbox' = [outbox EXCEPT ![d] = @ \o qn \o qc]
           /\ group' = [group EXCEPT ![d] = h]
           /\ stage' = [stage EXCEPT ![d] = p]
    BY DEF G!Prepare, G!Finish
  <1> HIDE DEF qn, qc, h
  <1>3. stage[d] \in G!Pass /\ stage[d].k \in Nat /\ stage[d].k >= 1 /\ G!TypeOK /\ G!PassInv
    BY <1>1 DEF G!GroupsInv, G!TypeOK, G!Pass, G!PassInv, G!Placed
  <1>4. p \in G!Pass /\ G!Placed(p, boxes[d])
    <2>1. p \in G!Pass /\ p.at = stage[d].at /\ p.k = stage[d].k + 1
      BY <1>3 DEF G!Pass
    <2> HIDE DEF p
    <2> QED BY <2>1, <1>1, <1>3 DEF G!Placed
  <1> HIDE DEF p
  <1>5. G!Idle \in G!Pass /\ G!Placed(G!Idle, boxes[d])
    BY <1>3, Stages
  <1>6. CASE /\ stage' = [stage EXCEPT ![d] = p] \/ stage' = [stage EXCEPT ![d] = G!Idle]
             /\ UNCHANGED <<group, outbox>>
    BY <1>1, <1>4, <1>5, <1>6, PassAlone
  <1>7. CASE /\ group[d] # <<>> /\ (remove => G!Permits(d, t, d, {r}))
             /\ outbox' = [outbox EXCEPT ![d] = @ \o qn \o qc]
             /\ group' = [group EXCEPT ![d] = h]
             /\ stage' = [stage EXCEPT ![d] = p]
    <2>1. r \in G!Revoked /\ G!Revoked \subseteq Device
      <3>1. Len(journal[d]) \in Nat
        BY <1>3, LenProperties DEF G!TypeOK
      <3>2. stage[d].k \in 1 .. Len(journal[d])
        BY <1>1, <1>3, <3>1
      <3> QED BY <3>2 DEF G!GroupsInv, G!TableInv, G!Revoked
    <2>2. group[d] \in Seq(G!Entry) /\ G!Line(G!Revoked, group[d], d) /\ rows[d] \in SUBSET Device
      BY DEF G!GroupsInv, G!TypeOK, G!GroupInv
    <2>3. /\ h \in Seq(G!Entry) /\ G!Line(G!Revoked, h, d)
          /\ remove => /\ commit \in G!Message
                       /\ \A x : G!Genuine(G!Revoked, signed, commit, x)
      <3>1. CASE remove
        <4> DEFINE z == G!Removal(group[d], d, r)
        <4>1. G!Led(G!Revoked, t, d)
          BY <1>7, <3>1, MayLead
        <4>2. G!Proper(G!Revoked, group[d])
          BY <1>7, <2>2 DEF G!Line
        <4>3. /\ z \in Seq(G!Entry) /\ G!Proper(G!Revoked, z) /\ z # <<>>
              /\ G!Members(G!Tree(group[d])) \subseteq G!Members(G!Tree(z)) \cup G!Revoked
          BY <2>1, <2>2, <3>1, <4>1, <4>2, RemovalProper
        <4>4. commit = [kind |-> "commit", on |-> group[d], next |-> z] /\ h = z
          BY <3>1 DEF h
        <4> HIDE DEF z, commit
        <4>5. /\ G!Line(G!Revoked, z, d) /\ commit \in G!Message
              /\ \A x : G!Genuine(G!Revoked, signed, commit, x)
          BY <1>7, <4>3, <4>4, CommitSound
        <4> QED BY <4>3, <4>4, <4>5
      <3>2. CASE ~remove
        BY <3>2, <2>2 DEF h
      <3> QED BY <3>1, <3>2
    <2>4. qc \in Seq(G!Batch) /\ G!Queued(G!Revoked, signed, qc)
      BY <2>2, <2>3, FanSound, EmptyQueued DEF qc
    <2>5. qn \in Seq(G!Batch) /\ G!Queued(G!Revoked, signed, qn)
      <3>1. Owner[d] \in Identity
        BY DEF GroupConstants
      <3>2. known[d][Owner[d]] \in Nat /\ known[d][Owner[d]] <= Len(signed[Owner[d]])
        BY <3>1 DEF G!GroupsInv, G!TypeOK, G!LineInv
      <3>3. notice \in G!Message /\ notice.kind = "manifest" /\ notice.id = Owner[d]
            /\ notice.n = known[d][Owner[d]]
        BY <2>2, <3>1, <3>2 DEF G!Message
      <3> HIDE DEF notice
      <3>4. \A x : G!Genuine(G!Revoked, signed, notice, x)
        BY <3>2, <3>3 DEF G!Genuine
      <3> QED BY <2>2, <3>3, <3>4, FanSound, EmptyQueued DEF qn
    <2>6. outbox[d] \in Seq(G!Batch) /\ G!Queued(G!Revoked, signed, outbox[d])
      BY DEF G!GroupsInv, G!TypeOK, G!MailInv
    <2>7. outbox[d] \o qn \in Seq(G!Batch) /\ G!Queued(G!Revoked, signed, outbox[d] \o qn)
      BY <2>5, <2>6, QueuedBoth
    <2>8. outbox[d] \o qn \o qc \in Seq(G!Batch) /\ G!Queued(G!Revoked, signed, outbox[d] \o qn \o qc)
      BY <2>4, <2>7, QueuedBoth
    <2>9. outbox' \in [Device -> Seq(G!Batch)] /\ G!MailInv'
      BY <1>1, <1>7, <2>8, OutboxMoves
    <2>10. group' \in [Device -> Seq(G!Entry)] /\ G!GroupInv'
      BY <1>1, <1>7, <2>3, GroupMoves
    <2>11. stage' \in [Device -> G!Pass] /\ G!PassInv'
      <3>1. \A e \in Device : Len(boxes[e]) \in Nat
        BY <1>3, LenProperties DEF G!TypeOK
      <3>2. G!Placed(p, boxes'[d])
        BY <1>1, <1>4
      <3>3. \A e \in Device \ {d} : /\ Len(boxes[e]) \in Nat /\ Len(boxes'[e]) \in Nat
                                    /\ Len(boxes[e]) <= Len(boxes'[e])
        BY <1>1, <3>1
      <3> QED BY <1>3, <1>4, <1>7, <3>2, <3>3, PassMoves
    <2>12. G!TypeOK'
      BY <1>1, <1>3, <2>9, <2>10, <2>11 DEF G!TypeOK
    <2>13. G!LineInv' /\ G!TableInv'
      BY <1>1, LineKeeps, TableKeeps DEF G!GroupsInv
    <2> QED BY <2>9, <2>10, <2>11, <2>12, <2>13 DEF G!GroupsInv
  <1> QED BY <1>2, <1>6, <1>7

LEMMA PutKeeps ==
    ASSUME GroupConstants, G!GroupsInv, NEW d \in Device, G!Put(d)
    PROVE  G!GroupsInv'
  <1> DEFINE b == Head(outbox[d])
  <1>1. PICK x \in b.to :
           LET last == b.to = {x}
           IN  /\ outbox' = [outbox EXCEPT ![d] =
                                IF last THEN Tail(@) ELSE << [b EXCEPT !.to = @ \ {x}] >> \o Tail(@)]
               /\ boxes' = IF x \in G!Refused THEN boxes
                           ELSE [boxes EXCEPT ![x] = Append(@, b.message)]
               /\ stage' = [stage EXCEPT ![d].k =
                               IF last /\ stage[d].at = "pending" /\ @ > 0 THEN @ - 1 ELSE @]
    BY DEF G!Put
  <1>2. outbox[d] # <<>> /\ UNCHANGED <<signed, relay, known, rows, marked, journal, group, claimed>>
    BY DEF G!Put, G!manifests, G!tables, G!record
  <1>3. G!TypeOK /\ G!PassInv /\ G!MailInv
    BY DEF G!GroupsInv
  <1>4. /\ outbox[d] \in Seq(G!Batch) /\ G!Queued(G!Revoked, signed, outbox[d])
        /\ outbox \in [Device -> Seq(G!Batch)] /\ boxes \in [Device -> Seq(G!Message)]
    BY <1>3 DEF G!TypeOK, G!MailInv
  <1>5. /\ Tail(outbox[d]) \in Seq(G!Batch) /\ G!Queued(G!Revoked, signed, Tail(outbox[d]))
        /\ b \in G!Batch /\ \A y \in b.to : G!Genuine(G!Revoked, signed, b.message, y)
        /\ << [b EXCEPT !.to = @ \ {x}] >> \o Tail(outbox[d]) \in Seq(G!Batch)
        /\ G!Queued(G!Revoked, signed, << [b EXCEPT !.to = @ \ {x}] >> \o Tail(outbox[d]))
    BY <1>2, <1>4, QueuedLess
  <1>6. b.message \in G!Message /\ x \in Device /\ G!Genuine(G!Revoked, signed, b.message, x)
    BY <1>5 DEF G!Batch
  <1> DEFINE q == IF b.to = {x} THEN Tail(outbox[d])
                  ELSE << [b EXCEPT !.to = @ \ {x}] >> \o Tail(outbox[d])
  <1>7. q \in Seq(G!Batch) /\ G!Queued(G!Revoked, signed, q)
    BY <1>5
  <1>8. outbox' = [outbox EXCEPT ![d] = q]
    BY <1>1
  <1> HIDE DEF q
  <1>9. outbox' \in [Device -> Seq(G!Batch)] /\ \A e \in Device : G!Queued(G!Revoked, signed, outbox'[e])
    BY <1>3, <1>4, <1>7, <1>8 DEF G!MailInv
  <1>10. /\ boxes' \in [Device -> Seq(G!Message)]
         /\ \A e \in Device : /\ G!Received(G!Revoked, signed, boxes'[e], e)
                              /\ Len(boxes[e]) \in Nat /\ Len(boxes'[e]) \in Nat
                              /\ Len(boxes[e]) <= Len(boxes'[e])
    <2>1. \A e \in Device : Len(boxes[e]) \in Nat /\ G!Received(G!Revoked, signed, boxes[e], e)
      BY <1>3, <1>4, LenProperties DEF G!MailInv
    <2>2. CASE x \in G!Refused
      BY <1>1, <1>4, <2>1, <2>2
    <2>3. CASE x \notin G!Refused
      <3> DEFINE z == Append(boxes[x], b.message)
      <3>1. boxes' = [boxes EXCEPT ![x] = z]
        BY <1>1, <2>3
      <3>2. /\ z \in Seq(G!Message) /\ G!Received(G!Revoked, signed, z, x)
            /\ Len(boxes[x]) \in Nat /\ Len(z) = Len(boxes[x]) + 1
        BY <1>4, <1>6, <2>1, ReceivedMore
      <3> HIDE DEF z
      <3>3. boxes' \in [Device -> Seq(G!Message)] /\ boxes'[x] = z
            /\ \A e \in Device : e # x => boxes'[e] = boxes[e]
        BY <1>4, <1>6, <3>1, <3>2
      <3> QED BY <2>1, <3>2, <3>3
    <2> QED BY <2>2, <2>3
  <1>11. G!MailInv'
    BY <1>2, <1>9, <1>10, RevokedKeeps DEF G!MailInv
  <1> DEFINE n == IF b.to = {x} /\ stage[d].at = "pending" /\ stage[d].k > 0
                  THEN stage[d].k - 1 ELSE stage[d].k
             p == [stage[d] EXCEPT !.k = n]
  <1>12. stage[d] \in G!Pass /\ stage[d].k \in Nat /\ G!Placed(stage[d], boxes[d])
         /\ stage \in [Device -> G!Pass]
    BY <1>3 DEF G!TypeOK, G!Pass, G!PassInv
  <1>13. n \in Nat /\ (stage[d].at # "pending" => n = stage[d].k)
    BY <1>12
  <1>14. stage' = [stage EXCEPT ![d] = p]
    BY <1>1, <1>12
  <1> HIDE DEF n
  <1>15. p \in G!Pass /\ p.at = stage[d].at /\ p.k = n
    BY <1>12, <1>13 DEF G!Pass
  <1> HIDE DEF p
  <1>16. G!Placed(p, boxes'[d])
    <2>1. Len(boxes[d]) \in Nat /\ Len(boxes'[d]) \in Nat /\ Len(boxes[d]) <= Len(boxes'[d])
      BY <1>10
    <2> QED BY <1>12, <1>13, <1>15, <2>1 DEF G!Placed
  <1>17. stage' \in [Device -> G!Pass] /\ G!PassInv'
    BY <1>3, <1>10, <1>14, <1>15, <1>16, PassMoves
  <1>18. G!TypeOK'
    BY <1>2, <1>3, <1>9, <1>10, <1>17 DEF G!TypeOK
  <1>19. G!LineInv' /\ G!TableInv' /\ G!GroupInv'
    BY <1>2, LineKeeps, TableKeeps, GroupKeeps DEF G!GroupsInv
  <1> QED BY <1>11, <1>17, <1>18, <1>19 DEF G!GroupsInv

\* d takes manifest n of i, and marks the rows it revokes.
LEMMA AcceptKeeps ==
    ASSUME GroupConstants, G!GroupsInv, NEW d \in Device, NEW i \in Identity, NEW n \in Nat,
           n <= Len(signed[i]), G!Accept(d, i, n), UNCHANGED <<signed, relay, journal>>
    PROVE  /\ known' \in [Device -> [Identity -> Nat]] /\ marked' \in [Device -> SUBSET Device]
           /\ G!LineInv' /\ G!TableInv'
  <1> DEFINE row == [known[d] EXCEPT ![i] = n]
             s == marked[d] \cup (G!RevokedBy(i, n) \cap rows[d])
  <1>1. G!TypeOK /\ G!LineInv /\ G!TableInv
    BY DEF G!GroupsInv
  <1>2. known \in [Device -> [Identity -> Nat]] /\ known[d] \in [Identity -> Nat]
    BY <1>1 DEF G!TypeOK
  <1>3. row \in [Identity -> Nat] /\ \A j \in Identity : row[j] <= Len(signed[j])
    BY <1>1, <1>2 DEF G!LineInv
  <1>4. known' = [known EXCEPT ![d] = row]
    BY <1>2 DEF G!Accept
  <1> HIDE DEF row
  <1>5. /\ known' \in [Device -> [Identity -> Nat]]
        /\ \A e \in Device : \A j \in Identity : known'[e][j] <= Len(signed[j])
    BY <1>1, <1>2, <1>3, <1>4 DEF G!LineInv
  <1>6. G!LineInv'
    BY <1>1, <1>5 DEF G!LineInv
  <1>7. s \subseteq G!Revoked /\ s \in SUBSET Device
    <2>1. G!RevokedBy(i, n) \subseteq G!Revoked
      BY <1>1, SignedIsRevoked
    <2> QED BY <1>1, <2>1 DEF G!TableInv, G!TypeOK
  <1>8. marked' = [marked EXCEPT ![d] = s]
    BY DEF G!Accept
  <1> HIDE DEF s
  <1>9. /\ marked' \in [Device -> SUBSET Device]
        /\ \A e \in Device : marked'[e] \subseteq G!Revoked
    BY <1>1, <1>7, <1>8 DEF G!TypeOK, G!TableInv
  <1>10. G!TableInv'
    BY <1>1, <1>9, RevokedKeeps DEF G!TableInv
  <1> QED BY <1>5, <1>6, <1>9, <1>10

LEMMA RefreshKeeps ==
    ASSUME GroupConstants, G!GroupsInv, NEW d \in Device, G!Refresh(d)
    PROVE  G!GroupsInv'
  <1>1. /\ stage[d].at = "refresh"
        /\ UNCHANGED <<signed, relay, rows, journal, group, outbox, boxes, claimed>>
    BY DEF G!Refresh, G!manifests, G!record
  <1>2. PICK i \in stage[d].todo :
           /\ IF relay[i] >= known[d][i] THEN G!Accept(d, i, relay[i]) ELSE UNCHANGED <<known, marked>>
           /\ stage' = [stage EXCEPT ![d].todo = @ \ {i}]
    BY DEF G!Refresh
  <1>3. G!TypeOK /\ G!LineInv /\ G!PassInv
    BY DEF G!GroupsInv
  <1>4. stage[d] \in G!Pass /\ stage \in [Device -> G!Pass]
    BY <1>3 DEF G!TypeOK
  <1>5. i \in Identity
    BY <1>2, <1>4 DEF G!Pass
  <1>6. relay[i] \in Nat /\ relay[i] <= Len(signed[i])
    BY <1>3, <1>5 DEF G!TypeOK, G!LineInv
  <1>7. /\ known' \in [Device -> [Identity -> Nat]] /\ marked' \in [Device -> SUBSET Device]
        /\ G!LineInv' /\ G!TableInv'
    <2>1. CASE G!Accept(d, i, relay[i])
      BY <1>1, <1>5, <1>6, <2>1, AcceptKeeps
    <2>2. CASE UNCHANGED <<known, marked>>
      <3>1. known' \in [Device -> [Identity -> Nat]] /\ marked' \in [Device -> SUBSET Device]
        BY <1>3, <2>2 DEF G!TypeOK
      <3>2. G!LineInv' /\ G!TableInv'
        BY <1>1, <2>2, LineKeeps, TableKeeps DEF G!GroupsInv
      <3> QED BY <3>1, <3>2
    <2> QED BY <1>2, <2>1, <2>2
  <1> DEFINE p == [stage[d] EXCEPT !.todo = @ \ {i}]
  <1>8. stage' = [stage EXCEPT ![d] = p]
    BY <1>2, <1>4
  <1>9. p \in G!Pass /\ p.at = "refresh"
    BY <1>1, <1>4 DEF G!Pass
  <1> HIDE DEF p
  <1>10. G!Placed(p, boxes'[d])
    BY <1>9 DEF G!Placed
  <1>11. \A e \in Device \ {d} : /\ Len(boxes[e]) \in Nat /\ Len(boxes'[e]) \in Nat
                                 /\ Len(boxes[e]) <= Len(boxes'[e])
    <2>1. \A e \in Device : Len(boxes[e]) \in Nat
      BY <1>3, LenProperties DEF G!TypeOK
    <2> QED BY <2>1, <1>1
  <1>12. stage' \in [Device -> G!Pass] /\ G!PassInv'
    BY <1>3, <1>8, <1>9, <1>10, <1>11, PassMoves
  <1>13. G!TypeOK'
    BY <1>1, <1>3, <1>7, <1>12 DEF G!TypeOK
  <1>14. G!GroupInv' /\ G!MailInv'
    BY <1>1, GroupKeeps, MailKeeps DEF G!GroupsInv
  <1> QED BY <1>7, <1>12, <1>13, <1>14 DEF G!GroupsInv

LEMMA ReceiveKeeps ==
    ASSUME GroupConstants, G!GroupsInv, NEW d \in Device, G!Receive(d)
    PROVE  G!GroupsInv'
  <1> DEFINE m == Head(boxes[d])
             z == Tail(boxes[d])
  <1>1. stage[d].at = "receive" /\ UNCHANGED <<signed, relay, journal, outbox, claimed>>
    BY DEF G!Receive, G!manifests, G!record
  <1>2. G!TypeOK /\ G!LineInv /\ G!TableInv /\ G!PassInv /\ G!GroupInv /\ G!MailInv
    BY DEF G!GroupsInv
  <1>3. /\ stage[d] \in G!Pass /\ stage \in [Device -> G!Pass] /\ stage[d].k \in Nat
        /\ stage[d].k \in 1 .. Len(boxes[d])
    BY <1>1, <1>2 DEF G!TypeOK, G!Pass, G!PassInv, G!Placed
  <1>4. /\ boxes \in [Device -> Seq(G!Message)] /\ boxes[d] \in Seq(G!Message)
        /\ G!Received(G!Revoked, signed, boxes[d], d) /\ Len(boxes[d]) \in Nat
    BY <1>2, LenProperties DEF G!TypeOK, G!MailInv
  <1>5. Len(boxes[d]) >= 1
    BY <1>3, <1>4
  <1>6. /\ m \in G!Message /\ G!Genuine(G!Revoked, signed, m, d)
        /\ z \in Seq(G!Message) /\ G!Received(G!Revoked, signed, z, d)
        /\ Len(z) = Len(boxes[d]) - 1
    BY <1>4, <1>5, ReceivedLess
  <1>7. /\ G!Ending(d) \in G!Pass
        /\ \A w : G!Placed(G!Ending(d), w)
    BY <1>2, Stages
  <1>8. \A e \in Device : Len(boxes[e]) \in Nat
    BY <1>2, LenProperties DEF G!TypeOK
  <1>9. CASE /\ stage' = [stage EXCEPT ![d] = G!Ending(d)]
             /\ UNCHANGED <<boxes, group, rows, known, marked>>
    BY <1>1, <1>7, <1>9, PassAlone
  <1>10. CASE /\ G!Processable(d, m)
              /\ boxes' = [boxes EXCEPT ![d] = z]
              /\ stage' = [stage EXCEPT ![d] = IF @.k = 1 THEN G!Ending(d) ELSE [@ EXCEPT !.k = stage[d].k - 1]]
              /\ group' = [group EXCEPT ![d] = CASE m.kind = "welcome" -> m.on
                                                 [] m.kind = "commit" -> m.next
                                                 [] OTHER -> @]
              /\ rows' = [rows EXCEPT ![d] = IF m.kind = "roster" THEN @ \cup (m.devices \ {d}) ELSE @]
              /\ IF m.kind = "manifest" THEN G!Accept(d, m.id, m.n) ELSE UNCHANGED <<known, marked>>
    <2> HIDE DEF m, z
    <2>1. \/ m.kind = "welcome" /\ m.on \in Seq(G!Entry)
          \/ m.kind = "commit" /\ m.next \in Seq(G!Entry)
          \/ m.kind = "roster" /\ m.devices \in SUBSET Device
          \/ m.kind = "manifest" /\ m.id \in Identity /\ m.n \in Nat
      BY <1>6 DEF G!Message
    <2>2. boxes' \in [Device -> Seq(G!Message)] /\ boxes'[d] = z
          /\ \A e \in Device : e # d => boxes'[e] = boxes[e]
      BY <1>4, <1>6, <1>10
    <2>3. G!MailInv'
      <3>1. \A e \in Device : G!Received(G!Revoked, signed, boxes'[e], e)
        BY <1>2, <1>6, <2>2 DEF G!MailInv
      <3> QED BY <1>1, <1>2, <3>1, RevokedKeeps DEF G!MailInv
    <2>4. stage' \in [Device -> G!Pass] /\ G!PassInv'
      <3> DEFINE less == [stage[d] EXCEPT !.k = @ - 1]
                 p == IF stage[d].k = 1 THEN G!Ending(d) ELSE less
      <3>1. stage' = [stage EXCEPT ![d] = p]
        BY <1>3, <1>10
      <3>2. stage[d].k # 1 => less \in G!Pass /\ less.at = "receive" /\ less.k = stage[d].k - 1
        <4> SUFFICES ASSUME stage[d].k # 1
                     PROVE  less \in G!Pass /\ less.at = "receive" /\ less.k = stage[d].k - 1
          OBVIOUS
        <4>1. stage[d].k - 1 \in Nat
          BY <1>3, <1>4
        <4> QED BY <1>1, <1>3, <4>1 DEF G!Pass
      <3> HIDE DEF less
      <3>3. stage[d].k # 1 => stage[d].k - 1 \in 1 .. Len(z)
        BY <1>3, <1>4, <1>6
      <3>4. p \in G!Pass /\ G!Placed(p, boxes'[d])
        BY <1>7, <2>2, <3>2, <3>3 DEF G!Placed
      <3> HIDE DEF p
      <3>5. \A e \in Device \ {d} : /\ Len(boxes[e]) \in Nat /\ Len(boxes'[e]) \in Nat
                                    /\ Len(boxes[e]) <= Len(boxes'[e])
        BY <1>8, <2>2
      <3> QED BY <1>2, <3>1, <3>4, <3>5, PassMoves
    <2>5. group' \in [Device -> Seq(G!Entry)] /\ G!GroupInv'
      <3>1. group[d] \in Seq(G!Entry) /\ G!Line(G!Revoked, group[d], d)
        BY <1>2 DEF G!TypeOK, G!GroupInv
      <3>2. PICK h \in Seq(G!Entry) : G!Line(G!Revoked, h, d) /\ group' = [group EXCEPT ![d] = h]
        <4>1. CASE m.kind = "welcome"
          <5>1. group' = [group EXCEPT ![d] = m.on] /\ m.on \in Seq(G!Entry)
            BY <1>10, <2>1, <4>1
          <5>2. G!Line(G!Revoked, m.on, d)
            BY <1>6, <4>1 DEF G!Genuine, G!Line
          <5> QED BY <5>1, <5>2
        <4>2. CASE m.kind = "commit"
          <5>1. group' = [group EXCEPT ![d] = m.next] /\ m.next \in Seq(G!Entry)
            BY <1>10, <2>1, <4>2
          <5>2. group[d] = m.on
            BY <1>10, <4>2 DEF G!Processable
          <5>3. /\ G!Proper(G!Revoked, m.next)
                /\ G!Members(G!Tree(group[d])) \subseteq G!Members(G!Tree(m.next)) \cup G!Revoked
            BY <1>6, <4>2, <5>2 DEF G!Genuine
          <5>4. group[d] # <<>>
            BY <1>6, <4>2, <5>2 DEF G!Genuine
          <5>5. G!Line(G!Revoked, m.next, d)
            BY <3>1, <5>3, <5>4 DEF G!Line
          <5> QED BY <5>1, <5>5
        <4>3. CASE m.kind \notin {"welcome", "commit"}
          <5>1. group' = [group EXCEPT ![d] = group[d]]
            BY <1>10, <4>3
          <5> QED BY <3>1, <5>1
        <4> QED BY <4>1, <4>2, <4>3
      <3> QED BY <1>1, <3>2, GroupMoves
    <2>6. rows' \in [Device -> SUBSET Device]
      <3> DEFINE s == IF m.kind = "roster" THEN rows[d] \cup (m.devices \ {d}) ELSE rows[d]
      <3>1. s \in SUBSET Device
        BY <1>2, <2>1 DEF G!TypeOK
      <3>2. rows' = [rows EXCEPT ![d] = s]
        BY <1>10
      <3> HIDE DEF s
      <3> QED BY <1>2, <3>1, <3>2 DEF G!TypeOK
    <2>7. /\ known' \in [Device -> [Identity -> Nat]] /\ marked' \in [Device -> SUBSET Device]
          /\ G!LineInv' /\ G!TableInv'
      <3>1. CASE m.kind = "manifest"
        <4>1. m.id \in Identity /\ m.n \in Nat /\ m.n <= Len(signed[m.id]) /\ G!Accept(d, m.id, m.n)
          BY <1>6, <1>10, <2>1, <3>1 DEF G!Genuine
        <4> QED BY <1>1, <4>1, AcceptKeeps
      <3>2. CASE m.kind # "manifest"
        <4>1. UNCHANGED <<known, marked>>
          BY <1>10, <3>2
        <4>2. known' \in [Device -> [Identity -> Nat]] /\ marked' \in [Device -> SUBSET Device]
          BY <1>2, <4>1 DEF G!TypeOK
        <4>3. G!LineInv' /\ G!TableInv'
          BY <1>1, <1>2, <4>1, LineKeeps, TableKeeps
        <4> QED BY <4>2, <4>3
      <3> QED BY <3>1, <3>2
    <2>8. G!TypeOK'
      BY <1>1, <1>2, <2>2, <2>4, <2>5, <2>6, <2>7 DEF G!TypeOK
    <2> QED BY <2>3, <2>4, <2>5, <2>7, <2>8 DEF G!GroupsInv
  <1> QED BY <1>9, <1>10 DEF G!Receive

-----------------------------------------------------------------------------
(* Adding and removing beside a pass.                                        *)

LEMMA ClaimKeeps ==
    ASSUME G!GroupsInv, NEW d \in Device,
           G!AddStops(d) \/ \E c \in Device : G!Claim(d, c)
    PROVE  G!GroupsInv'
  <1>1. /\ UNCHANGED <<signed, relay, known, rows, marked, journal, group, outbox, boxes, stage>>
        /\ \E s \in SUBSET Device : claimed' = [claimed EXCEPT ![d] = s]
    BY DEF G!AddStops, G!Claim, G!manifests, G!tables, G!record
  <1>2. G!TypeOK' /\ G!PassInv'
    BY <1>1 DEF G!GroupsInv, G!TypeOK, G!PassInv
  <1>3. G!LineInv' /\ G!TableInv' /\ G!GroupInv' /\ G!MailInv'
    BY <1>1, LineKeeps, TableKeeps, GroupKeeps, MailKeeps DEF G!GroupsInv
  <1> QED BY <1>2, <1>3 DEF G!GroupsInv

LEMMA RemoveKeeps ==
    ASSUME GroupConstants, G!GroupsInv, NEW d \in Device, NEW x \in Device, G!RemoveCommit(d, x)
    PROVE  G!GroupsInv'
  <1> DEFINE z == G!Removal(group[d], d, x)
             commit == [kind |-> "commit", on |-> group[d], next |-> z]
  <1>1. /\ group[d] # <<>> /\ x \in marked[d] /\ x \in G!Members(G!Tree(group[d]))
        /\ G!Permits(d, G!Tree(group[d]), d, {x})
        /\ group' = [group EXCEPT ![d] = z]
        /\ outbox' = [outbox EXCEPT ![d] = @ \o G!Fan(d, commit, rows[d])]
        /\ UNCHANGED <<signed, relay, known, rows, marked, journal, boxes, stage, claimed>>
    BY DEF G!RemoveCommit, G!Mine, G!manifests, G!tables, G!record
  <1>2. x \in G!Revoked /\ G!Revoked \subseteq Device
    BY <1>1 DEF G!GroupsInv, G!TableInv, G!Revoked
  <1>3. group[d] \in Seq(G!Entry) /\ G!Proper(G!Revoked, group[d]) /\ rows[d] \in SUBSET Device
    BY <1>1 DEF G!GroupsInv, G!TypeOK, G!GroupInv, G!Line
  <1>4. G!Led(G!Revoked, G!Tree(group[d]), d)
    BY <1>1, MayLead
  <1>5. /\ z \in Seq(G!Entry) /\ G!Proper(G!Revoked, z) /\ z # <<>>
        /\ G!Members(G!Tree(group[d])) \subseteq G!Members(G!Tree(z)) \cup G!Revoked
    BY <1>1, <1>2, <1>3, <1>4, RemovalProper
  <1> HIDE DEF z
  <1>6. /\ G!Line(G!Revoked, z, d) /\ commit \in G!Message
        /\ \A y : G!Genuine(G!Revoked, signed, commit, y)
    BY <1>1, <1>5, CommitSound
  <1> HIDE DEF commit
  <1>7. /\ G!Fan(d, commit, rows[d]) \in Seq(G!Batch)
        /\ G!Queued(G!Revoked, signed, G!Fan(d, commit, rows[d]))
    BY <1>3, <1>6, FanSound
  <1>8. outbox[d] \in Seq(G!Batch) /\ G!Queued(G!Revoked, signed, outbox[d])
    BY DEF G!GroupsInv, G!TypeOK, G!MailInv
  <1>9. /\ outbox[d] \o G!Fan(d, commit, rows[d]) \in Seq(G!Batch)
        /\ G!Queued(G!Revoked, signed, outbox[d] \o G!Fan(d, commit, rows[d]))
    BY <1>7, <1>8, QueuedBoth
  <1>10. outbox' \in [Device -> Seq(G!Batch)] /\ G!MailInv'
    BY <1>1, <1>9, OutboxMoves
  <1>11. group' \in [Device -> Seq(G!Entry)] /\ G!GroupInv'
    BY <1>1, <1>5, <1>6, GroupMoves
  <1>12. G!TypeOK' /\ G!PassInv'
    BY <1>1, <1>10, <1>11 DEF G!GroupsInv, G!TypeOK, G!PassInv
  <1>13. G!LineInv' /\ G!TableInv'
    BY <1>1, LineKeeps, TableKeeps DEF G!GroupsInv
  <1> QED BY <1>10, <1>11, <1>12, <1>13 DEF G!GroupsInv

LEMMA AddKeeps ==
    ASSUME GroupConstants, G!GroupsInv, NEW d \in Device, NEW c \in Device, G!AddCommit(d, c)
    PROVE  G!GroupsInv'
  <1> DEFINE z == G!Addition(group[d], d, c)
             all == rows[d] \cup {c}
             commit == [kind |-> "commit", on |-> group[d], next |-> z]
             welcome == [kind |-> "welcome", on |-> z]
             roster == [kind |-> "roster", on |-> z, devices |-> all \cup {d}]
             qc == G!Fan(d, commit, rows[d])
             qw == << [message |-> welcome, to |-> {c}] >>
             qr == G!Fan(d, roster, all)
  <1>1. /\ group[d] # <<>> /\ c \notin G!Members(G!Tree(group[d]))
        /\ G!Permits(d, G!Tree(group[d]), d, {})
        /\ group' = [group EXCEPT ![d] = z]
        /\ rows' = [rows EXCEPT ![d] = all]
        /\ outbox' = [outbox EXCEPT ![d] = @ \o qc \o qw \o qr]
        /\ claimed' = [claimed EXCEPT ![d] = @ \ {c}]
        /\ UNCHANGED <<signed, relay, known, marked, journal, boxes, stage>>
    BY DEF G!AddCommit, G!Mine, G!manifests, G!record
  <1> HIDE DEF qc, qw, qr
  <1>2. /\ group[d] \in Seq(G!Entry) /\ G!Proper(G!Revoked, group[d])
        /\ rows[d] \in SUBSET Device /\ all \in SUBSET Device /\ G!TypeOK
    BY <1>1 DEF G!GroupsInv, G!TypeOK, G!GroupInv, G!Line
  <1>3. G!Led(G!Revoked, G!Tree(group[d]), d)
    BY <1>1, MayLead
  <1>4. /\ z \in Seq(G!Entry) /\ G!Proper(G!Revoked, z) /\ z # <<>>
        /\ G!Members(G!Tree(group[d])) \cup {c} \subseteq G!Members(G!Tree(z))
    BY <1>1, <1>2, <1>3, AdditionProper
  <1> HIDE DEF z, all
  <1>5. /\ G!Line(G!Revoked, z, d) /\ commit \in G!Message
        /\ \A y : G!Genuine(G!Revoked, signed, commit, y)
    <2>1. G!Members(G!Tree(group[d])) \subseteq G!Members(G!Tree(z)) \cup G!Revoked
      BY <1>4
    <2> QED BY <1>1, <1>4, <2>1, CommitSound
  <1>6. welcome \in G!Message /\ welcome.kind = "welcome" /\ welcome.on = z
    BY <1>4 DEF G!Message
  <1>7. roster \in G!Message /\ roster.kind = "roster"
    BY <1>2, <1>4 DEF G!Message
  <1> HIDE DEF commit, welcome, roster
  <1>8. qc \in Seq(G!Batch) /\ G!Queued(G!Revoked, signed, qc)
    BY <1>2, <1>5, FanSound DEF qc
  <1>9. qw \in Seq(G!Batch) /\ G!Queued(G!Revoked, signed, qw)
    <2> DEFINE b == [message |-> welcome, to |-> {c}]
    <2>1. b \in G!Batch /\ b.message = welcome /\ b.to = {c}
      BY <1>6 DEF G!Batch
    <2>2. qw = <<b>>
      BY DEF qw
    <2> HIDE DEF b
    <2>3. qw \in Seq(G!Batch) /\ Len(qw) = 1 /\ qw[1] = b
      BY <2>1, <2>2
    <2>4. G!Genuine(G!Revoked, signed, welcome, c)
      BY <1>4, <1>6 DEF G!Genuine
    <2> QED BY <2>1, <2>3, <2>4 DEF G!Queued
  <1>10. qr \in Seq(G!Batch) /\ G!Queued(G!Revoked, signed, qr)
    <2>1. \A y : G!Genuine(G!Revoked, signed, roster, y)
      BY <1>7 DEF G!Genuine
    <2> QED BY <1>2, <1>7, <2>1, FanSound DEF qr
  <1>11. outbox[d] \in Seq(G!Batch) /\ G!Queued(G!Revoked, signed, outbox[d])
    BY DEF G!GroupsInv, G!TypeOK, G!MailInv
  <1>12. outbox[d] \o qc \in Seq(G!Batch) /\ G!Queued(G!Revoked, signed, outbox[d] \o qc)
    BY <1>8, <1>11, QueuedBoth
  <1>13. outbox[d] \o qc \o qw \in Seq(G!Batch) /\ G!Queued(G!Revoked, signed, outbox[d] \o qc \o qw)
    BY <1>9, <1>12, QueuedBoth
  <1>14. /\ outbox[d] \o qc \o qw \o qr \in Seq(G!Batch)
         /\ G!Queued(G!Revoked, signed, outbox[d] \o qc \o qw \o qr)
    BY <1>10, <1>13, QueuedBoth
  <1>15. outbox' \in [Device -> Seq(G!Batch)] /\ G!MailInv'
    BY <1>1, <1>14, OutboxMoves
  <1>16. group' \in [Device -> Seq(G!Entry)] /\ G!GroupInv'
    BY <1>1, <1>4, <1>5, GroupMoves
  <1>17. rows' \in [Device -> SUBSET Device] /\ claimed' \in [Device -> SUBSET Device]
    BY <1>1, <1>2 DEF G!TypeOK
  <1>18. G!TypeOK' /\ G!PassInv'
    BY <1>1, <1>15, <1>16, <1>17 DEF G!GroupsInv, G!TypeOK, G!PassInv
  <1>19. G!LineInv' /\ G!TableInv'
    BY <1>1, LineKeeps, TableKeeps DEF G!GroupsInv
  <1> QED BY <1>15, <1>16, <1>18, <1>19 DEF G!GroupsInv

-----------------------------------------------------------------------------
LEMMA FirstFits == ASSUME GroupConstants PROVE \A i \in DOMAIN First : i \in G!Leaf /\ First[i] \in Device
  <1> DEFINE n == Len(First)
             c == Cardinality(Device)
  <1>1. n \in Nat /\ First \in [1 .. n -> Device] /\ DOMAIN First = 1 .. n /\ n >= 1
    BY LenProperties, EmptySeq DEF GroupConstants
  <1>2. c \in Nat /\ G!Leaf = 1 .. c
    BY Leaves
  <1> HIDE DEF n
  <1>3. First \in Injection(1 .. n, Device)
    BY <1>1 DEF Injection, IsInjective, GroupConstants
  <1>4. Cardinality(1 .. n) <= c
    BY <1>3, FS_Injection DEF GroupConstants
  <1> HIDE DEF c
  <1>5. Cardinality(1 .. n) = n
    <2>1. Cardinality(1 .. n) = IF 1 > n THEN 0 ELSE n - 1 + 1
      BY <1>1, FS_Interval
    <2> QED BY <1>1, <2>1
  <1>6. \A i \in 1 .. n : i \in 1 .. c
    BY <1>1, <1>2, <1>4, <1>5
  <1> QED BY <1>1, <1>2, <1>6

LEMMA GroupsInit == ASSUME GroupConstants, G!Init PROVE G!GroupsInv
  <1>1. G!TypeOK
    <2>1. << {} >> \in Seq(SUBSET Device)
      OBVIOUS
    <2>2. G!Start \in Seq(G!Entry)
      <3> DEFINE t == [i \in G!Leaf |-> IF i \in DOMAIN First THEN First[i] ELSE NoDevice]
                 b == [by |-> First[1], out |-> {}, tree |-> t]
      <3>1. t \in [G!Leaf -> Device \cup {NoDevice}]
        BY FirstFits
      <3>2. First[1] \in Device
        BY LenProperties, EmptySeq DEF GroupConstants
      <3>3. G!Start = <<b>>
        BY DEF G!Start
      <3> HIDE DEF t
      <3>4. b \in G!Entry
        BY <3>1, <3>2 DEF G!Entry
      <3> HIDE DEF b
      <3> QED BY <3>3, <3>4
    <2>3. <<>> \in Seq(Device) /\ <<>> \in Seq(G!Entry) /\ <<>> \in Seq(G!Batch) /\ <<>> \in Seq(G!Message)
      OBVIOUS
    <2>4. \A d \in G!Founders : d \in Device
      BY FirstFits DEF G!Founders
    <2>5. G!Idle \in G!Pass
      BY DEF G!Idle, G!Pass
    <2>6. /\ signed \in [Identity -> Seq(SUBSET Device)] /\ relay \in [Identity -> Nat]
      BY <2>1 DEF G!Init
    <2>7. known \in [Device -> [Identity -> Nat]]
      BY DEF G!Init
    <2>8. rows \in [Device -> SUBSET Device] /\ marked \in [Device -> SUBSET Device]
          /\ claimed \in [Device -> SUBSET Device]
      BY <2>4 DEF G!Init
    <2>9. group \in [Device -> Seq(G!Entry)]
      BY <2>2, <2>3 DEF G!Init
    <2>10. /\ journal \in [Device -> Seq(Device)] /\ outbox \in [Device -> Seq(G!Batch)]
           /\ boxes \in [Device -> Seq(G!Message)] /\ stage \in [Device -> G!Pass]
      BY <2>3, <2>5 DEF G!Init
    <2> QED BY <2>6, <2>7, <2>8, <2>9, <2>10 DEF G!TypeOK
  <1>2. G!LineInv
    <2>1. \A i \in Identity : signed[i] = << {} >> /\ relay[i] = 1
      BY DEF G!Init
    <2>2. Len(<< {} >>) = 1 /\ << {} >>[1] = {}
      OBVIOUS
    <2>3. \A d \in Device : \A i \in Identity : known[d][i] \in {0, 1}
      BY DEF G!Init
    <2>4. \A i \in Identity : /\ Len(signed[i]) >= 1 /\ relay[i] <= Len(signed[i])
                              /\ \A k \in 1 .. Len(signed[i]) : signed[i][k] = {}
      <3> TAKE i \in Identity
      <3>1. Len(signed[i]) = 1 /\ signed[i][1] = {} /\ relay[i] = 1
        BY <2>1, <2>2
      <3> QED BY <3>1
    <2>5. \A d \in Device : \A i \in Identity : known[d][i] <= Len(signed[i])
      <3> TAKE d \in Device
      <3> TAKE i \in Identity
      <3>1. Len(signed[i]) = 1 /\ known[d][i] \in {0, 1}
        BY <2>1, <2>2, <2>3
      <3> QED BY <3>1
    <2> QED BY <2>4, <2>5 DEF G!LineInv
  <1>3. G!TableInv
    BY DEF G!Init, G!TableInv
  <1>4. G!PassInv
    BY DEF G!Init, G!PassInv, G!Placed, G!Idle
  <1>5. G!GroupInv
    <2> SUFFICES ASSUME NEW d \in Device, group[d] # <<>>
                 PROVE  G!Proper(G!Revoked, group[d]) /\ d \in G!Members(G!Tree(group[d]))
      BY DEF G!GroupInv, G!Line
    <2>1. group[d] = G!Start /\ d \in G!Founders
      BY DEF G!Init
    <2> DEFINE t == [i \in G!Leaf |-> IF i \in DOMAIN First THEN First[i] ELSE NoDevice]
               b == [by |-> First[1], out |-> {}, tree |-> t]
    <2>2. G!Start = <<b>>
      BY DEF G!Start
    <2>3. Len(<<b>>) = 1 /\ <<b>>[1] = b /\ b.out = {} /\ b.tree = t
      OBVIOUS
    <2>4. G!Tidy(t)
      BY FirstFits DEF G!Tidy, GroupConstants
    <2>5. d \in G!Members(t)
      <3>1. PICK i \in DOMAIN First : d = First[i]
        BY <2>1 DEF G!Founders
      <3>2. i \in G!Leaf /\ t[i] = d
        BY <3>1, FirstFits
      <3> QED BY <3>2 DEF G!Members, GroupConstants
    <2> HIDE DEF t, b
    <2>6. G!Proper(G!Revoked, <<b>>)
      BY <2>3, <2>4 DEF G!Proper
    <2>7. G!Tree(<<b>>) = t
      BY <2>3 DEF G!Tree
    <2> QED BY <2>1, <2>2, <2>5, <2>6, <2>7
  <1>6. G!MailInv
    BY DEF G!Init, G!MailInv, G!Received, G!Queued
  <1> QED BY <1>1, <1>2, <1>3, <1>4, <1>5, <1>6 DEF G!GroupsInv

LEMMA GroupsStep == ASSUME GroupConstants, G!GroupsInv, [G!Next]_G!vars PROVE G!GroupsInv'
  <1>1. CASE UNCHANGED G!vars
    <2>1. UNCHANGED <<signed, relay, known, rows, marked, journal, group, outbox, boxes, stage, claimed>>
      BY <1>1 DEF G!vars, G!manifests, G!tables, G!record
    <2> QED BY <2>1, QuietKeeps
  <1>2. CASE G!Next
    <2>1. PICK d \in Device :
             \/ G!PassStep(d) \/ G!PassStops(d)
             \/ G!LinkDevice(d) \/ G!PutLinked(d) \/ G!AddStops(d)
             \/ \E x \in Device : \/ G!RevokeDevice(d, x) \/ G!Claim(d, x)
                                  \/ G!AddCommit(d, x) \/ G!RemoveCommit(d, x)
      BY <1>2 DEF G!Next
    <2>2. CASE G!PassStep(d)
      BY <2>2, MovesKeep, PrepareKeeps, PublishKeeps, PutKeeps, RefreshKeeps, ReceiveKeeps DEF G!PassStep
    <2>3. CASE G!PassStops(d)
      BY <2>3, MovesKeep
    <2>4. CASE G!LinkDevice(d) \/ G!PutLinked(d)
      BY <2>4, LinkKeeps, PutLinkedKeeps
    <2>5. CASE G!AddStops(d) \/ \E x \in Device : G!Claim(d, x)
      BY <2>5, ClaimKeeps
    <2>6. CASE \E x \in Device : G!RevokeDevice(d, x) \/ G!AddCommit(d, x) \/ G!RemoveCommit(d, x)
      BY <2>6, RevokeKeeps, AddKeeps, RemoveKeeps
    <2> QED BY <2>1, <2>2, <2>3, <2>4, <2>5, <2>6
  <1> QED BY <1>1, <1>2

\* In whatever order manifests, commits and welcomes reach the members, what
\* anyone holds for revoked was revoked by its own root, and every history a
\* member has, or is sent, was led by the lowest leaf not revoked or by a device
\* that is revoked itself (mls/policy.rs, devices.rs, handle_mls).
THEOREM GroupsInvariance == ASSUME GroupConstants PROVE G!Spec => []G!GroupsInv
  BY GroupsInit, GroupsStep, PTL DEF G!Spec

LEMMA RemovedHolds == ASSUME GroupConstants, G!GroupsInv PROVE G!RemovedWasRevoked
  <1> SUFFICES ASSUME NEW d \in Device, NEW k \in DOMAIN group[d], NEW x \in group[d][k].out
               PROVE  x \in G!Signed(Owner[x])
    BY DEF G!RemovedWasRevoked
  <1>1. group[d] \in Seq(G!Entry) /\ G!Line(G!Revoked, group[d], d)
    BY DEF G!GroupsInv, G!TypeOK, G!GroupInv
  <1>2. k \in 1 .. Len(group[d]) /\ Len(group[d]) \in Nat
    BY <1>1, LenProperties
  <1>3. group[d] # <<>>
    BY <1>2
  <1>4. group[d][k].out \subseteq G!Revoked
    BY <1>1, <1>2, <1>3 DEF G!Line, G!Proper
  <1> QED BY <1>4 DEF G!Revoked

\* Nobody loses a leaf its own root did not revoke, whoever committed the
\* removal and whichever manifests reached it when, for any number of devices,
\* identities, manifests and epochs.
THEOREM RemovedWereRevoked == ASSUME GroupConstants PROVE G!Spec => []G!RemovedWasRevoked
  BY GroupsInvariance, RemovedHolds, PTL

LEMMA RivalHolds == ASSUME GroupConstants, G!GroupsInv PROVE G!RivalWasRevoked
  <1> SUFFICES ASSUME NEW d \in Device, NEW e \in Device, NEW k \in 2 .. Len(group[d]),
                      k <= Len(group[e]),
                      SubSeq(group[d], 1, k - 1) = SubSeq(group[e], 1, k - 1),
                      group[d][k].by # group[e][k].by,
                      group[d][k].by \notin G!Revoked, group[e][k].by \notin G!Revoked
               PROVE  FALSE
    BY DEF G!RivalWasRevoked, G!Revoked
  <1>1. /\ group[d] \in Seq(G!Entry) /\ G!Line(G!Revoked, group[d], d)
        /\ group[e] \in Seq(G!Entry) /\ G!Line(G!Revoked, group[e], e)
    BY DEF G!GroupsInv, G!TypeOK, G!GroupInv
  <1>2. Len(group[d]) \in Nat /\ Len(group[e]) \in Nat
    BY <1>1, LenProperties
  <1>3. k \in 2 .. Len(group[e]) /\ k - 1 \in 1 .. (k - 1)
    BY <1>2
  <1>4. group[d] # <<>> /\ group[e] # <<>>
    BY <1>2, <1>3
  <1>5. /\ G!Led(G!Revoked, group[d][k - 1].tree, group[d][k].by)
        /\ G!Led(G!Revoked, group[e][k - 1].tree, group[e][k].by)
    BY <1>1, <1>3, <1>4 DEF G!Line, G!Proper
  <1>6. group[d][k - 1] = group[e][k - 1]
    <2>1. ASSUME NEW a \in {d, e} PROVE SubSeq(group[a], 1, k - 1)[k - 1] = group[a][k - 1]
      <3>1. \A i \in 1 .. (k - 1) : group[a][i] \in G!Entry
        <4> TAKE i \in 1 .. (k - 1)
        <4>1. i \in 1 .. Len(group[a])
          BY <1>2, <1>3
        <4> QED BY <1>1, <4>1, ElementOfSeq
      <3> QED BY <3>1, <1>2, <1>3, SubSeqProperties
    <2> QED BY <2>1
  <1>7. G!Revoked \subseteq Device
    BY DEF G!Revoked
  <1> QED BY <1>5, <1>6, <1>7, OneLeads

\* Two members whose states took commits of two committers at one epoch of one
\* line: one of the two was revoked.  So members part ways unrevoked only if a
\* single device commits twice at one epoch.
THEOREM RivalsWereRevoked == ASSUME GroupConstants PROVE G!Spec => []G!RivalWasRevoked
  BY GroupsInvariance, RivalHolds, PTL

-----------------------------------------------------------------------------
(* One line until someone is revoked.                                        *)

LEMMA OnLinePoints ==
    ASSUME NEW s \in Seq(G!Entry), NEW t \in Seq(G!Entry)
    PROVE  G!OnLine(s, t) <=> Len(s) <= Len(t) /\ \A k \in 1 .. Len(s) : s[k] = t[k]
  <1>1. Len(s) \in Nat /\ Len(t) \in Nat
    BY LenProperties
  <1> SUFFICES ASSUME Len(s) <= Len(t)
               PROVE  SubSeq(t, 1, Len(s)) = s <=> \A k \in 1 .. Len(s) : s[k] = t[k]
    BY DEF G!OnLine
  <1> DEFINE b == SubSeq(t, 1, Len(s))
  <1>2. \A i \in 1 .. Len(s) : t[i] \in G!Entry
    BY <1>1, ElementOfSeq
  <1>3. b \in Seq(G!Entry) /\ Len(b) = Len(s) /\ \A i \in 1 .. Len(s) : b[i] = t[i]
    <2>1. /\ b \in Seq(G!Entry)
          /\ Len(b) = IF 1 <= Len(s) THEN Len(s) - 1 + 1 ELSE 0
          /\ \A i \in 1 .. Len(s) - 1 + 1 : b[i] = t[1 + i - 1]
      BY <1>1, <1>2, SubSeqProperties
    <2> HIDE DEF b
    <2> QED BY <1>1, <2>1
  <1> HIDE DEF b
  <1>4. (\A k \in 1 .. Len(s) : s[k] = t[k]) => b = s
    BY <1>3, SeqEqual
  <1> QED BY <1>3, <1>4 DEF b

LEMMA OnLineExtends ==
    ASSUME NEW s \in Seq(G!Entry), NEW t \in Seq(G!Entry), NEW e \in G!Entry, G!OnLine(s, t)
    PROVE  G!OnLine(s, Append(t, e))
  <1>1. Len(s) \in Nat /\ Len(t) \in Nat
    BY LenProperties
  <1>2. /\ Append(t, e) \in Seq(G!Entry) /\ Len(Append(t, e)) = Len(t) + 1
        /\ \A k \in 1 .. Len(t) : Append(t, e)[k] = t[k]
    BY AppendProperties
  <1>3. Len(s) <= Len(t) /\ \A k \in 1 .. Len(s) : s[k] = t[k]
    BY OnLinePoints
  <1>4. Len(s) <= Len(Append(t, e)) /\ \A k \in 1 .. Len(s) : s[k] = Append(t, e)[k]
    BY <1>1, <1>2, <1>3
  <1> QED BY <1>2, <1>4, OnLinePoints

LEMMA OnLineSelf == ASSUME NEW s \in Seq(G!Entry) PROVE G!OnLine(s, s)
  <1>1. Len(s) <= Len(s)
    BY LenProperties
  <1> QED BY <1>1, OnLinePoints

LEMMA BehindExtends ==
    ASSUME NEW s \in Seq(G!Entry), NEW e \in G!Entry, NEW m \in G!Message, NEW x, G!Behind(s, m, x)
    PROVE  G!Behind(Append(s, e), m, x)
  <1>1. /\ m.kind = "welcome" => m.on \in Seq(G!Entry)
        /\ m.kind = "commit" => m.next \in Seq(G!Entry)
    BY DEF G!Message
  <1> QED BY <1>1, OnLineExtends DEF G!Behind

\* An element of two queues put together is of one of them.
LEMMA OfEither ==
    ASSUME NEW q \in Seq(G!Batch), NEW z \in Seq(G!Batch), NEW s,
           G!TrailsAll(s, q), G!TrailsAll(s, z)
    PROVE  q \o z \in Seq(G!Batch) /\ G!TrailsAll(s, q \o z)
  <1> DEFINE c == q \o z
  <1>1. /\ c \in Seq(G!Batch)
        /\ Len(c) = Len(q) + Len(z) /\ Len(q) \in Nat /\ Len(z) \in Nat
        /\ \A i \in 1 .. Len(q) + Len(z) : c[i] = IF i <= Len(q) THEN q[i] ELSE z[i - Len(q)]
    BY ConcatProperties, LenProperties
  <1> HIDE DEF c
  <1>2. ASSUME NEW k \in 1 .. Len(c), NEW x \in c[k].to PROVE G!Behind(s, c[k].message, x)
    <2>1. CASE k <= Len(q)
      <3>1. k \in 1 .. Len(q) /\ c[k] = q[k]
        BY <1>1, <2>1
      <3> QED BY <1>2, <3>1 DEF G!TrailsAll
    <2>2. CASE ~(k <= Len(q))
      <3>1. k - Len(q) \in 1 .. Len(z) /\ c[k] = z[k - Len(q)]
        BY <1>1, <2>2
      <3> QED BY <1>2, <3>1 DEF G!TrailsAll
    <2> QED BY <2>1, <2>2
  <1>3. G!TrailsAll(s, c)
    BY <1>2 DEF G!TrailsAll
  <1> QED BY <1>1, <1>3 DEF c

\* A queue of one batch, or of none.
LEMMA OneBatch ==
    ASSUME NEW b \in G!Batch, NEW s, \A x \in b.to : G!Behind(s, b.message, x)
    PROVE  /\ <<b>> \in Seq(G!Batch) /\ G!TrailsAll(s, <<b>>)
           /\ <<>> \in Seq(G!Batch) /\ G!TrailsAll(s, <<>>)
  <1>1. <<b>> \in Seq(G!Batch) /\ Len(<<b>>) = 1 /\ <<b>>[1] = b
    OBVIOUS
  <1> QED BY <1>1 DEF G!TrailsAll

LEMMA FanTrails ==
    ASSUME NEW d \in Device, NEW m \in G!Message, NEW peers \in SUBSET Device, NEW s,
           \A x \in peers : G!Behind(s, m, x)
    PROVE  G!Fan(d, m, peers) \in Seq(G!Batch) /\ G!TrailsAll(s, G!Fan(d, m, peers))
  <1> DEFINE b == [message |-> m, to |-> peers \ marked[d]]
  <1>1. b \in G!Batch /\ b.message = m /\ b.to \subseteq peers
    BY DEF G!Batch
  <1>2. G!Fan(d, m, peers) \in {<<>>, <<b>>}
    BY DEF G!Fan
  <1> HIDE DEF b
  <1> QED BY <1>1, <1>2, OneBatch

LEMMA FounderIs == ASSUME GroupConstants PROVE G!Founder \in Device /\ 1 \in G!Leaf /\ G!Founder # NoDevice
  <1>1. 1 \in DOMAIN First
    BY LenProperties, EmptySeq DEF GroupConstants
  <1> QED BY <1>1, FirstFits DEF G!Founder, GroupConstants

LEMMA FounderInit == ASSUME GroupConstants, G!Init PROVE G!FounderInv
  <1> DEFINE f == G!Founder
             t == [i \in G!Leaf |-> IF i \in DOMAIN First THEN First[i] ELSE NoDevice]
             b == [by |-> First[1], out |-> {}, tree |-> t]
  <1>1. f \in Device /\ 1 \in G!Leaf /\ 1 \in DOMAIN First /\ f = First[1]
    BY FounderIs, LenProperties, EmptySeq DEF GroupConstants, G!Founder
  <1>2. t[1] = f
    BY <1>1
  <1>3. G!Start = <<b>> /\ b.tree = t
    BY DEF G!Start
  <1> HIDE DEF t
  <1>4. Len(<<b>>) = 1 /\ <<b>>[1] = b /\ <<b>> # <<>>
    OBVIOUS
  <1> HIDE DEF b
  <1>5. f \in G!Founders
    BY <1>1 DEF G!Founders
  <1> HIDE DEF f
  <1>6. group[f] = G!Start /\ \A d \in Device : group[d] \in {<<>>, G!Start}
    BY <1>1, <1>5 DEF G!Init
  <1>7. \A k \in 1 .. Len(group[f]) : group[f][k].tree[1] = f
    BY <1>2, <1>3, <1>4, <1>6
  <1>8. \A d \in Device : G!OnLine(group[d], group[f])
    <2>1. G!GroupsInv
      BY GroupsInit
    <2>2. group[f] \in Seq(G!Entry) /\ <<>> \in Seq(G!Entry) /\ Len(<<>>) = 0
      BY <1>1, <2>1 DEF G!GroupsInv, G!TypeOK
    <2>3. G!OnLine(<<>>, group[f])
      <3>1. Len(<<>>) <= Len(group[f])
        BY <2>2, LenProperties
      <3>2. \A k \in 1 .. Len(<<>>) : <<>>[k] = group[f][k]
        BY <2>2
      <3> QED BY <2>2, <3>1, <3>2, OnLinePoints
    <2> QED BY <2>2, <2>3, <1>6, OnLineSelf
  <1>9. \A d \in Device : G!Trails(group[f], boxes[d], d) /\ G!TrailsAll(group[f], outbox[d])
    BY DEF G!Init, G!Trails, G!TrailsAll
  <1> QED BY <1>3, <1>4, <1>6, <1>7, <1>8, <1>9 DEF G!FounderInv, f

\* Until someone is revoked the founder alone may commit.
LEMMA FounderLeads ==
    ASSUME GroupConstants, G!GroupsInv, G!FounderInv, G!Revoked = {}, NEW d \in Device, group[d] # <<>>,
           G!Permits(d, G!Tree(group[d]), d, {})
    PROVE  d = G!Founder /\ G!Tree(group[d])[1] = d
  <1> DEFINE f == G!Founder
             t == G!Tree(group[d])
  <1>1. f \in Device /\ 1 \in G!Leaf /\ f # NoDevice
    BY FounderIs
  <1>2. /\ group[d] \in Seq(G!Entry) /\ group[f] \in Seq(G!Entry) /\ G!Proper(G!Revoked, group[d])
    BY <1>1 DEF G!GroupsInv, G!TypeOK, G!GroupInv, G!Line
  <1>3. Len(group[d]) \in Nat /\ Len(group[d]) >= 1 /\ Len(group[f]) \in Nat
    BY <1>2, LenProperties DEF G!Proper
  <1>4. Len(group[d]) <= Len(group[f]) /\ group[d][Len(group[d])] = group[f][Len(group[d])]
    <2>1. Len(group[d]) <= Len(group[f]) /\ \A k \in 1 .. Len(group[d]) : group[d][k] = group[f][k]
      BY <1>2, OnLinePoints DEF G!FounderInv
    <2>2. Len(group[d]) \in 1 .. Len(group[d])
      BY <1>3
    <2> QED BY <2>1, <2>2
  <1>5. t[1] = f
    <2>1. Len(group[d]) \in 1 .. Len(group[f])
      BY <1>3, <1>4
    <2> QED BY <1>4, <2>1 DEF G!FounderInv, G!Tree
  <1>6. G!Led(G!Revoked, t, d)
    BY MayLead
  <1> HIDE DEF t, f
  <1>7. d \in G!Members(t) /\ \A i \in G!Leaf : i < G!LeafOf(t, d) => t[i] = NoDevice
    BY <1>6 DEF G!Led
  <1>8. G!LeafOf(t, d) \in Nat /\ G!LeafOf(t, d) >= 1 /\ t[G!LeafOf(t, d)] = d
    BY <1>7, LeafIs, Leaves
  <1>9. ~(1 < G!LeafOf(t, d))
    BY <1>1, <1>5, <1>7
  <1>10. G!LeafOf(t, d) = 1
    BY <1>8, <1>9
  <1> QED BY <1>5, <1>8, <1>10 DEF t, f

\* What leaves the queues alone, and the histories, keeps the line.
LEMMA FounderQuiet ==
    ASSUME G!FounderInv, G!Revoked \subseteq G!Revoked', UNCHANGED <<group, outbox, boxes>>
    PROVE  G!FounderInv'
  <1>1. G!Revoked' = {} => G!Revoked = {}
    OBVIOUS
  <1> QED BY <1>1 DEF G!FounderInv

LEMMA FounderAdd ==
    ASSUME GroupConstants, G!GroupsInv, G!FounderInv, NEW d \in Device, NEW c \in Device,
           G!AddCommit(d, c)
    PROVE  G!FounderInv'
  <1> DEFINE f == G!Founder
             t == G!Tree(group[d])
             u == [t EXCEPT ![G!Blank(t)] = c]
             e == [by |-> d, out |-> {}, tree |-> u]
             z == G!Addition(group[d], d, c)
             all == rows[d] \cup {c}
             commit == [kind |-> "commit", on |-> group[d], next |-> z]
             welcome == [kind |-> "welcome", on |-> z]
             roster == [kind |-> "roster", on |-> z, devices |-> all \cup {d}]
             qc == G!Fan(d, commit, rows[d])
             b == [message |-> welcome, to |-> {c}]
             qr == G!Fan(d, roster, all)
  <1>1. /\ group[d] # <<>> /\ c \notin G!Members(t)
        /\ G!Permits(d, t, d, {})
        /\ group' = [group EXCEPT ![d] = z]
        /\ outbox' = [outbox EXCEPT ![d] = @ \o qc \o <<b>> \o qr]
        /\ UNCHANGED <<signed, boxes>>
    BY DEF G!AddCommit, G!Mine, G!manifests, G!record
  <1> HIDE DEF qc, qr
  <1> SUFFICES ASSUME G!Revoked = {} PROVE G!FounderInv'
    BY <1>1, RevokedKeeps DEF G!FounderInv
  <1>2. d = f /\ t[1] = f /\ 1 \in G!Leaf /\ f # NoDevice /\ f \in Device
    BY <1>1, FounderLeads, FounderIs
  <1>3. /\ group[d] \in Seq(G!Entry) /\ G!Proper(G!Revoked, group[d]) /\ G!TypeOK
        /\ rows[d] \in SUBSET Device /\ all \in SUBSET Device
    BY <1>1 DEF G!GroupsInv, G!TypeOK, G!GroupInv, G!Line
  <1>4. t \in [G!Leaf -> Device \cup {NoDevice}] /\ G!Tidy(t) /\ Len(group[d]) \in Nat /\ Len(group[d]) >= 1
    BY <1>3, TreeOf, LenProperties DEF G!Proper
  <1>5. G!Blank(t) \in G!Leaf /\ t[G!Blank(t)] = NoDevice
    BY <1>1, <1>4, BlankIs
  <1>6. u \in [G!Leaf -> Device \cup {NoDevice}] /\ u[1] = f
    BY <1>2, <1>4, <1>5
  <1>7. c # f
    BY <1>1, <1>2 DEF G!Members
  <1>8. z = Append(group[d], e)
    BY DEF G!Addition
  <1> HIDE DEF t, u
  <1>9. e \in G!Entry /\ e.tree = u
    BY <1>6 DEF G!Entry
  <1> HIDE DEF z, e, all, f
  <1>10. /\ z \in Seq(G!Entry) /\ Len(z) = Len(group[d]) + 1 /\ z # <<>>
         /\ \A k \in 1 .. Len(group[d]) : z[k] = group[d][k]
         /\ z[Len(group[d]) + 1] = e
    BY <1>3, <1>8, <1>9, AppendProperties
  <1>11. commit \in G!Message /\ \A x : G!Behind(z, commit, x)
    <2>1. commit \in G!Message /\ commit.kind = "commit" /\ commit.on = group[d] /\ commit.next = z
      BY <1>3, <1>10 DEF G!Message
    <2> HIDE DEF commit
    <2> QED BY <1>10, <2>1, OnLineSelf DEF G!Behind
  <1>12. welcome \in G!Message /\ G!Behind(z, welcome, c)
    <2>1. welcome \in G!Message /\ welcome.kind = "welcome" /\ welcome.on = z
      BY <1>10 DEF G!Message
    <2> HIDE DEF welcome
    <2> QED BY <1>7, <1>10, <2>1, OnLineSelf DEF G!Behind, f
  <1>13. roster \in G!Message /\ \A x : G!Behind(z, roster, x)
    <2>1. roster \in G!Message /\ roster.kind = "roster"
      BY <1>3, <1>10 DEF G!Message
    <2> HIDE DEF roster
    <2> QED BY <2>1 DEF G!Behind
  <1> HIDE DEF commit, welcome, roster
  <1>14. qc \in Seq(G!Batch) /\ G!TrailsAll(z, qc)
    BY <1>3, <1>11, FanTrails DEF qc
  <1>15. qr \in Seq(G!Batch) /\ G!TrailsAll(z, qr)
    BY <1>3, <1>13, FanTrails DEF qr
  <1>16. <<b>> \in Seq(G!Batch) /\ G!TrailsAll(z, <<b>>)
    <2>1. b \in G!Batch /\ b.message = welcome /\ b.to = {c}
      BY <1>12 DEF G!Batch
    <2> HIDE DEF b
    <2> QED BY <1>12, <2>1, OneBatch
  <1> HIDE DEF b
  <1>17. ASSUME NEW a \in Device
         PROVE  /\ G!OnLine(group[a], z) /\ G!Trails(z, boxes[a], a)
                /\ outbox[a] \in Seq(G!Batch) /\ G!TrailsAll(z, outbox[a])
    <2>1. /\ group[a] \in Seq(G!Entry) /\ boxes[a] \in Seq(G!Message) /\ outbox[a] \in Seq(G!Batch)
          /\ G!OnLine(group[a], group[d]) /\ G!Trails(group[d], boxes[a], a)
          /\ G!TrailsAll(group[d], outbox[a])
      BY <1>2, <1>3 DEF G!TypeOK, G!FounderInv, f
    <2>2. G!OnLine(group[a], z)
      BY <1>3, <1>8, <1>9, <2>1, OnLineExtends
    <2>3. G!Trails(z, boxes[a], a)
      <3> SUFFICES ASSUME NEW k \in 1 .. Len(boxes[a]) PROVE G!Behind(z, boxes[a][k], a)
        BY DEF G!Trails
      <3>1. boxes[a][k] \in G!Message /\ G!Behind(group[d], boxes[a][k], a)
        BY <2>1, ElementOfSeq DEF G!Trails
      <3> QED BY <1>3, <1>8, <1>9, <3>1, BehindExtends
    <2>4. G!TrailsAll(z, outbox[a])
      <3> SUFFICES ASSUME NEW k \in 1 .. Len(outbox[a]), NEW x \in outbox[a][k].to
                   PROVE  G!Behind(z, outbox[a][k].message, x)
        BY DEF G!TrailsAll
      <3>1. outbox[a][k] \in G!Batch /\ G!Behind(group[d], outbox[a][k].message, x)
        BY <2>1, ElementOfSeq DEF G!TrailsAll
      <3>2. outbox[a][k].message \in G!Message
        BY <3>1 DEF G!Batch
      <3> QED BY <1>3, <1>8, <1>9, <3>1, <3>2, BehindExtends
    <2> QED BY <2>1, <2>2, <2>3, <2>4
  <1>18. G!TrailsAll(z, outbox[d] \o qc \o <<b>> \o qr)
    <2>1. outbox[d] \o qc \in Seq(G!Batch) /\ G!TrailsAll(z, outbox[d] \o qc)
      BY <1>14, <1>17, OfEither
    <2>2. outbox[d] \o qc \o <<b>> \in Seq(G!Batch) /\ G!TrailsAll(z, outbox[d] \o qc \o <<b>>)
      BY <1>16, <2>1, OfEither
    <2> QED BY <1>15, <2>2, OfEither
  <1>19. /\ group'[f] = z /\ \A a \in Device : a # f => group'[a] = group[a]
         /\ outbox'[f] = outbox[f] \o qc \o <<b>> \o qr
         /\ \A a \in Device : a # f => outbox'[a] = outbox[a]
    BY <1>1, <1>2, <1>3 DEF G!TypeOK
  <1>20. \A k \in 1 .. Len(z) : z[k].tree[1] = f
    <2> TAKE k \in 1 .. Len(z)
    <2>1. k \in 1 .. Len(group[d]) \/ k = Len(group[d]) + 1
      BY <1>4, <1>10
    <2>2. \A j \in 1 .. Len(group[d]) : group[d][j].tree[1] = f
      BY <1>2 DEF G!FounderInv, f
    <2> QED BY <1>6, <1>9, <1>10, <2>1, <2>2
  <1>21. \A a \in Device : /\ G!OnLine(group'[a], z) /\ G!Trails(z, boxes'[a], a)
                           /\ G!TrailsAll(z, outbox'[a])
    BY <1>1, <1>2, <1>10, <1>17, <1>18, <1>19, OnLineSelf
  <1> QED BY <1>10, <1>19, <1>20, <1>21 DEF G!FounderInv, f

LEMMA FounderPut ==
    ASSUME GroupConstants, G!GroupsInv, G!FounderInv, NEW d \in Device, G!Put(d)
    PROVE  G!FounderInv'
  <1> DEFINE b == Head(outbox[d])
             s == group[G!Founder]
  <1>1. PICK x \in b.to :
           /\ outbox' = [outbox EXCEPT ![d] =
                            IF b.to = {x} THEN Tail(@) ELSE << [b EXCEPT !.to = @ \ {x}] >> \o Tail(@)]
           /\ boxes' = IF x \in G!Refused THEN boxes ELSE [boxes EXCEPT ![x] = Append(@, b.message)]
    BY DEF G!Put
  <1>2. outbox[d] # <<>> /\ UNCHANGED <<signed, group>>
    BY DEF G!Put, G!manifests, G!tables, G!record
  <1> SUFFICES ASSUME G!Revoked = {} PROVE G!FounderInv'
    BY <1>2, RevokedKeeps DEF G!FounderInv
  <1>3. /\ outbox \in [Device -> Seq(G!Batch)] /\ boxes \in [Device -> Seq(G!Message)]
        /\ \A a \in Device : G!Trails(s, boxes[a], a) /\ G!TrailsAll(s, outbox[a])
    BY DEF G!GroupsInv, G!TypeOK, G!FounderInv
  <1>4. /\ b \in G!Batch /\ Tail(outbox[d]) \in Seq(G!Batch)
        /\ \A y \in b.to : G!Behind(s, b.message, y)
        /\ G!TrailsAll(s, Tail(outbox[d]))
    <2>1. /\ outbox[d] \in Seq(G!Batch) /\ b \in G!Batch /\ Tail(outbox[d]) \in Seq(G!Batch)
          /\ Len(Tail(outbox[d])) = Len(outbox[d]) - 1 /\ b = outbox[d][1]
          /\ \A i \in 1 .. Len(Tail(outbox[d])) : Tail(outbox[d])[i] = outbox[d][i + 1]
          /\ Len(outbox[d]) \in Nat /\ Len(outbox[d]) >= 1
      BY <1>2, <1>3, HeadTailProperties, LenProperties, EmptySeq
    <2>2. 1 \in 1 .. Len(outbox[d]) /\ \A i \in 1 .. Len(Tail(outbox[d])) : i + 1 \in 1 .. Len(outbox[d])
      BY <2>1
    <2> HIDE DEF b, s
    <2> QED BY <1>3, <2>1, <2>2 DEF G!TrailsAll
  <1> HIDE DEF b, s
  <1> DEFINE less == [b EXCEPT !.to = @ \ {x}]
             q == IF b.to = {x} THEN Tail(outbox[d]) ELSE <<less>> \o Tail(outbox[d])
  <1>5. less \in G!Batch /\ less.message = b.message /\ less.to \subseteq b.to
    BY <1>4 DEF G!Batch
  <1>6. outbox' = [outbox EXCEPT ![d] = q]
    BY <1>1
  <1> HIDE DEF less
  <1>7. <<less>> \in Seq(G!Batch) /\ G!TrailsAll(s, <<less>>)
    BY <1>4, <1>5, OneBatch
  <1>8. G!TrailsAll(s, q)
    BY <1>4, <1>7, OfEither
  <1> HIDE DEF q
  <1>9. \A a \in Device : G!TrailsAll(s, outbox'[a])
    BY <1>3, <1>6, <1>8
  <1>10. \A a \in Device : G!Trails(s, boxes'[a], a)
    <2>1. CASE x \in G!Refused
      BY <1>1, <1>3, <2>1
    <2>2. CASE x \notin G!Refused
      <3>1. x \in Device /\ b.message \in G!Message
        BY <1>4 DEF G!Batch
      <3> DEFINE z == Append(boxes[x], b.message)
      <3>2. /\ Len(boxes[x]) \in Nat /\ Len(z) = Len(boxes[x]) + 1
            /\ \A k \in 1 .. Len(boxes[x]) : z[k] = boxes[x][k]
            /\ z[Len(boxes[x]) + 1] = b.message
        BY <1>3, <3>1, AppendProperties, LenProperties
      <3>3. boxes' = [boxes EXCEPT ![x] = z]
        BY <1>1, <2>2
      <3> HIDE DEF z
      <3>4. \A k \in 1 .. Len(z) : k \in 1 .. Len(boxes[x]) \/ k = Len(boxes[x]) + 1
        BY <3>2
      <3>5. G!Trails(s, z, x)
        BY <1>3, <1>4, <3>1, <3>2, <3>4 DEF G!Trails
      <3> QED BY <1>3, <3>1, <3>3, <3>5
    <2> QED BY <2>1, <2>2
  <1>11. s' = s
    BY <1>2 DEF s, G!Founder
  <1> QED BY <1>2, <1>9, <1>10, <1>11 DEF G!FounderInv, s, G!Founder

LEMMA FounderReceive ==
    ASSUME GroupConstants, G!GroupsInv, G!FounderInv, NEW d \in Device, G!Receive(d)
    PROVE  G!FounderInv'
  <1> DEFINE m == Head(boxes[d])
             f == G!Founder
  <1>1. UNCHANGED <<signed, outbox>>
    BY DEF G!Receive, G!manifests, G!record
  <1> SUFFICES ASSUME G!Revoked = {} PROVE G!FounderInv'
    BY <1>1, RevokedKeeps DEF G!FounderInv
  <1>2. CASE UNCHANGED <<boxes, group>>
    BY <1>1, <1>2, RevokedKeeps, FounderQuiet
  <1>3. CASE /\ G!Processable(d, m)
             /\ boxes' = [boxes EXCEPT ![d] = Tail(@)]
             /\ group' = [group EXCEPT ![d] = CASE m.kind = "welcome" -> m.on
                                                [] m.kind = "commit" -> m.next
                                                [] OTHER -> @]
    <2>1. f \in Device /\ stage[d].at = "receive"
      BY FounderIs DEF G!Receive
    <2>2. /\ boxes[d] \in Seq(G!Message) /\ boxes \in [Device -> Seq(G!Message)]
          /\ group \in [Device -> Seq(G!Entry)] /\ stage[d].k \in 1 .. Len(boxes[d])
      BY <2>1 DEF G!GroupsInv, G!TypeOK, G!PassInv, G!Placed
    <2>3. Len(boxes[d]) \in Nat /\ boxes[d] # <<>>
      BY <2>2, LenProperties, EmptySeq
    <2>4. /\ m \in G!Message /\ m = boxes[d][1] /\ Len(boxes[d]) >= 1
          /\ Len(Tail(boxes[d])) = Len(boxes[d]) - 1
          /\ \A i \in 1 .. Len(Tail(boxes[d])) : Tail(boxes[d])[i] = boxes[d][i + 1]
      BY <2>2, <2>3, HeadTailProperties, LenProperties, EmptySeq
    <2>5. /\ 1 \in 1 .. Len(boxes[d])
          /\ \A i \in 1 .. Len(Tail(boxes[d])) : i + 1 \in 1 .. Len(boxes[d])
      BY <2>3, <2>4
    <2> HIDE DEF m
    <2>6. G!Behind(group[f], m, d) /\ G!Trails(group[f], Tail(boxes[d]), d)
      BY <2>4, <2>5 DEF G!FounderInv, G!Trails
    <2>7. \A a \in Device : G!Trails(group[f], boxes'[a], a)
      BY <1>3, <2>2, <2>6 DEF G!FounderInv
    <2>8. group'[f] = group[f] /\ \A a \in Device : G!OnLine(group'[a], group[f])
      <3>1. \A a \in Device : G!OnLine(group[a], group[f])
        BY DEF G!FounderInv
      <3> HIDE DEF f
      <3>2. CASE m.kind = "welcome"
        <4>1. d # f /\ G!OnLine(m.on, group[f])
          BY <2>6, <3>2 DEF G!Behind, f
        <4>2. group' = [group EXCEPT ![d] = m.on]
          BY <1>3, <3>2
        <4> QED BY <2>1, <2>2, <3>1, <4>1, <4>2
      <3>3. CASE m.kind = "commit"
        <4>1. /\ group[d] = m.on /\ G!OnLine(m.next, group[f]) /\ Len(m.next) = Len(m.on) + 1
              /\ m.next \in Seq(G!Entry)
          BY <1>3, <2>4, <2>6, <3>3 DEF G!Processable, G!Behind, G!Message
        <4>2. Len(m.next) <= Len(group[f]) /\ Len(group[f]) \in Nat /\ Len(group[d]) \in Nat
          BY <2>1, <2>2, <4>1, LenProperties DEF G!OnLine
        <4>3. d # f
          BY <4>1, <4>2
        <4>4. group' = [group EXCEPT ![d] = m.next]
          BY <1>3, <3>3
        <4> QED BY <2>1, <2>2, <3>1, <4>1, <4>3, <4>4
      <3>4. CASE m.kind \notin {"welcome", "commit"}
        <4>1. group' = [group EXCEPT ![d] = group[d]]
          BY <1>3, <3>4
        <4> QED BY <2>1, <2>2, <3>1, <4>1
      <3> QED BY <3>2, <3>3, <3>4
    <2> QED BY <1>1, <2>7, <2>8 DEF G!FounderInv
  <1> QED BY <1>2, <1>3 DEF G!Receive

LEMMA LinkGrows ==
    ASSUME GroupConstants, G!GroupsInv, NEW d \in Device, G!LinkDevice(d)
    PROVE  G!Revoked \subseteq G!Revoked'
  <1> DEFINE o == Owner[d]
             S == G!Signed(o)
  <1>1. o \in Identity
    BY DEF GroupConstants
  <1>2. /\ signed' = [signed EXCEPT ![o] = Append(@, S)]
        /\ known' = [known EXCEPT ![d][o] = @ + 1]
        /\ relay' = relay
    BY DEF G!LinkDevice
  <1>3. S \subseteq Device /\ \A y \in S : Owner[y] = o
    BY <1>1, SignedOwn
  <1>4. G!Signed(o) \subseteq S
    OBVIOUS
  <1> HIDE DEF S
  <1> QED BY <1>2, <1>3, <1>4, SignKeeps

LEMMA RevokeRevokes ==
    ASSUME GroupConstants, G!GroupsInv, NEW d \in Device, NEW x \in Device, G!RevokeDevice(d, x)
    PROVE  x \in G!Revoked'
  <1> DEFINE o == Owner[d]
             S == G!Signed(o) \cup {x}
  <1>1. o \in Identity /\ Owner[x] = o
    BY DEF GroupConstants, G!RevokeDevice
  <1>2. CASE x \in G!Signed(o)
    <2>1. UNCHANGED signed
      BY <1>2 DEF G!RevokeDevice
    <2> QED BY <2>1, <1>1, <1>2, RevokedKeeps DEF G!Revoked
  <1>3. CASE x \notin G!Signed(o)
    <2>1. /\ signed' = [signed EXCEPT ![o] = Append(@, S)]
          /\ known' = [known EXCEPT ![d][o] = @ + 1]
          /\ relay' = relay
      BY <1>3 DEF G!RevokeDevice
    <2>2. S \subseteq Device /\ (\A y \in S : Owner[y] = o) /\ G!Signed(o) \subseteq S /\ x \in S
      BY <1>1, SignedOwn
    <2> HIDE DEF S
    <2> QED BY <2>1, <2>2, SignKeeps
  <1> QED BY <1>2, <1>3

LEMMA FounderStep ==
    ASSUME GroupConstants, G!GroupsInv, G!FounderInv, [G!Next]_G!vars PROVE G!FounderInv'
  <1>1. CASE UNCHANGED G!vars
    <2>1. UNCHANGED <<signed, group, outbox, boxes>>
      BY <1>1 DEF G!vars, G!manifests
    <2> QED BY <2>1, RevokedKeeps, FounderQuiet
  <1>2. CASE G!Next
    <2>1. PICK d \in Device :
             \/ G!PassStep(d) \/ G!PassStops(d)
             \/ G!LinkDevice(d) \/ G!PutLinked(d) \/ G!AddStops(d)
             \/ \E x \in Device : \/ G!RevokeDevice(d, x) \/ G!Claim(d, x)
                                  \/ G!AddCommit(d, x) \/ G!RemoveCommit(d, x)
      BY <1>2 DEF G!Next
    <2>2. CASE G!Sync(d) \/ G!Prepared(d) \/ G!Publish(d) \/ G!PutAll(d) \/ G!Refresh(d) \/ G!Fetch(d)
               \/ G!PassStops(d) \/ G!PutLinked(d) \/ G!AddStops(d) \/ \E x \in Device : G!Claim(d, x)
      <3>1. UNCHANGED <<signed, group, outbox, boxes>>
        BY <2>2 DEF G!Sync, G!Prepared, G!Publish, G!PutAll, G!Refresh, G!Fetch, G!PassStops, G!PutLinked,
                    G!AddStops, G!Claim, G!manifests
      <3> QED BY <3>1, RevokedKeeps, FounderQuiet
    <2>3. CASE G!Put(d)
      BY <2>3, FounderPut
    <2>4. CASE G!Receive(d)
      BY <2>4, FounderReceive
    <2>5. CASE G!Prepare(d)
      <3>1. stage[d].at \in {"prepare", "again"} /\ stage[d].k <= Len(journal[d]) /\ UNCHANGED signed
        BY <2>5 DEF G!Prepare, G!manifests
      <3>2. stage[d].k \in 1 .. Len(journal[d])
        <4>1. stage[d].k \in Nat /\ stage[d].k >= 1 /\ journal[d] \in Seq(Device)
          BY <3>1 DEF G!GroupsInv, G!TypeOK, G!Pass, G!PassInv, G!Placed
        <4> QED BY <3>1, <4>1, LenProperties
      <3>3. G!Revoked # {}
        BY <3>2 DEF G!GroupsInv, G!TableInv
      <3> QED BY <3>1, <3>3, RevokedKeeps DEF G!FounderInv
    <2>6. CASE G!LinkDevice(d)
      <3>1. UNCHANGED <<group, outbox, boxes>>
        BY <2>6 DEF G!LinkDevice
      <3>2. G!Revoked \subseteq G!Revoked'
        BY <2>6, LinkGrows
      <3> QED BY <3>1, <3>2, FounderQuiet
    <2>7. ASSUME NEW x \in Device, G!RevokeDevice(d, x) PROVE G!FounderInv'
      <3>1. x \in G!Revoked'
        BY <2>7, RevokeRevokes
      <3> QED BY <3>1 DEF G!FounderInv
    <2>8. ASSUME NEW x \in Device, G!AddCommit(d, x) PROVE G!FounderInv'
      BY <2>8, FounderAdd
    <2>9. ASSUME NEW x \in Device, G!RemoveCommit(d, x) PROVE G!FounderInv'
      <3>1. x \in G!Revoked /\ UNCHANGED signed
        BY <2>9 DEF G!RemoveCommit, G!manifests, G!GroupsInv, G!TableInv
      <3> QED BY <3>1, RevokedKeeps DEF G!FounderInv
    <2> QED BY <2>1, <2>2, <2>3, <2>4, <2>5, <2>6, <2>7, <2>8, <2>9 DEF G!PassStep
  <1> QED BY <1>1, <1>2

LEMMA OneLineHolds == ASSUME GroupConstants, G!GroupsInv, G!FounderInv PROVE G!OneLineUntilRevoked
  <1> SUFFICES ASSUME \A x \in Device : x \notin G!Signed(Owner[x]), NEW d \in Device, NEW e \in Device
               PROVE  G!OnLine(group[d], group[e]) \/ G!OnLine(group[e], group[d])
    BY DEF G!OneLineUntilRevoked
  <1> DEFINE s == group[G!Founder]
  <1>1. G!Revoked = {}
    BY DEF G!Revoked
  <1>2. /\ group[d] \in Seq(G!Entry) /\ group[e] \in Seq(G!Entry) /\ s \in Seq(G!Entry)
        /\ G!OnLine(group[d], s) /\ G!OnLine(group[e], s)
    BY <1>1, FounderIs DEF G!GroupsInv, G!TypeOK, G!FounderInv
  <1> HIDE DEF s
  <1>3. Len(group[d]) \in Nat /\ Len(group[e]) \in Nat
    BY <1>2, LenProperties
  <1>4. /\ \A k \in 1 .. Len(group[d]) : group[d][k] = s[k]
        /\ \A k \in 1 .. Len(group[e]) : group[e][k] = s[k]
    BY <1>2, OnLinePoints
  <1>5. CASE Len(group[d]) <= Len(group[e])
    <2>1. \A k \in 1 .. Len(group[d]) : group[d][k] = group[e][k]
      BY <1>3, <1>4, <1>5
    <2> QED BY <1>2, <1>5, <2>1, OnLinePoints
  <1>6. CASE Len(group[e]) <= Len(group[d])
    <2>1. \A k \in 1 .. Len(group[e]) : group[e][k] = group[d][k]
      BY <1>3, <1>4, <1>6
    <2> QED BY <1>2, <1>6, <2>1, OnLinePoints
  <1> QED BY <1>3, <1>5, <1>6

\* Until someone is revoked no two members part ways, for any devices and any
\* number of epochs, whatever is delayed and whatever the stopped passes left.
THEOREM OneLineWhileUnrevoked == ASSUME GroupConstants PROVE G!Spec => []G!OneLineUntilRevoked
  <1>1. G!Init => G!GroupsInv /\ G!FounderInv
    BY GroupsInit, FounderInit
  <1>2. G!GroupsInv /\ G!FounderInv /\ [G!Next]_G!vars => (G!GroupsInv /\ G!FounderInv)'
    BY GroupsStep, FounderStep
  <1>3. G!GroupsInv /\ G!FounderInv => G!OneLineUntilRevoked
    BY OneLineHolds
  <1> QED BY <1>1, <1>2, <1>3, PTL DEF G!Spec
=============================================================================
