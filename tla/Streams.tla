------------------------------ MODULE Streams ------------------------------
(***************************************************************************)
(* The two streams a screen of the Flutter client follows on an open       *)
(* profile (arveil-flutter/src/api/profile.rs): the progress of its        *)
(* commands (arveil-app/src/lib.rs: Subscribers) and the relay's activity  *)
(* notices, for which a thread keeps a session open and reconnects it      *)
(* (arveil-app/src/watch.rs, carrier.rs).                                  *)
(*                                                                         *)
(* Either way a screen reserves a generation, asks for the stream, whose   *)
(* thread feeds it, and stops it on its way out, possibly after the next   *)
(* screen started its own.  The two streams have counters, threads and     *)
(* channels of their own, so a behaviour follows one of them throughout.   *)
(*                                                                         *)
(* A connection has one request in flight at most and is discarded with    *)
(* the first one that fails, so a frame is either the answer to it or      *)
(* unsolicited, and frame ids are left out.  Frames of a watching session  *)
(* are padded to one size below a fragment's.                              *)
(***************************************************************************)
EXTENDS Channel, Commands, FiniteSets

CONSTANTS Generations,   \* the generations that may be reserved: 1..n
          WatchCapacity, \* WATCH_CAPACITY
          Recordable,    \* the changes commands record
          ChangesMax,    \* how many they record at most
          Endpoints,     \* how many endpoints the credentials name
          FaultsMax      \* failures that are not the realm's refusal, of the profile or a connection

ASSUME StreamsAssumption ==
    /\ Generations \subseteq Nat \ {0} /\ WatchCapacity \in Nat \ {0}
    /\ Recordable \subseteq StateChange /\ ChangesMax \in Nat
    /\ Endpoints \in Nat \ {0} /\ FaultsMax \in Nat

VARIABLES following, \* "progress" or "activity"
          profile,   \* "open", "closed" or, once the last handle is dropped, "gone"
          counter,   \* self.watching or self.activity
          screen,    \* screen[g]: the screen that reserved g
          thread,    \* thread[g]: where the thread behind it is
          sequence,  \* Subscribers::sequence
          sub,       \* sub[g]: its progress channel, and how many events it heard of
          tried,     \* tried[g]: the endpoints tried in this attempt to connect
          last,      \* last[g]: the error of the latest one
          pending,   \* pending[g]: Connection::wake_pending
          asked,     \* asked[g]: the request the relay has not served
          wire,      \* wire[g]: frames on their way to the client
          served,    \* the generations whose session the relay still has
          hub,       \* the generation subscribed for the device, or 0
          woken,     \* its wake channel holds a notice
          mail,      \* the device's mailbox is not empty
          news,      \* mail came and neither a notice was shown nor the mail fetched
          revoked,   \* the device was revoked
          faults     \* failures so far

feed == <<sequence, sub>>
link == <<tried, last, pending, asked, wire>>
relay == <<served, hub, woken, mail, news, revoked>>
vars == <<following, profile, counter, screen, thread, feed, link, relay, faults>>

NoChannel == [live |-> FALSE, queue |-> <<>>, dropped |-> 0, heard |-> 0]
Connected == {"subscribing", "waiting", "pinging"}

Each(v) == [g \in Generations |-> v]

Init == /\ following \in {"progress", "activity"}
        /\ profile = "open"
        /\ counter = 0
        /\ screen = Each("none") /\ thread = Each("none")
        /\ sequence = 0 /\ sub = Each(NoChannel)
        /\ tried = Each(0) /\ last = Each(Transport("no endpoints"))
        /\ pending = Each(FALSE) /\ asked = Each("none") /\ wire = Each(<<>>)
        /\ served = {} /\ hub = 0 /\ woken = FALSE
        /\ mail = FALSE /\ news = FALSE /\ revoked = FALSE
        /\ faults = 0
-----------------------------------------------------------------------------
(* Generations. *)

\* start_watching, start_activity.
Reserve(stream) ==
    /\ following = stream
    /\ profile # "gone"
    /\ counter + 1 \in Generations
    /\ counter' = counter + 1
    /\ screen' = [screen EXCEPT ![counter + 1] = "shown"]
    /\ UNCHANGED <<following, profile, thread, feed, link, relay, faults>>

start_watching == Reserve("progress")
start_activity == Reserve("activity")

\* A screen stops its own generation; the exchange fails once another started.
Release(stream, g) ==
    /\ following = stream
    /\ screen[g] = "shown"
    /\ screen' = [screen EXCEPT ![g] = "left"]
    /\ counter' = IF counter = g THEN g + 1 ELSE counter
    /\ UNCHANGED <<following, profile, thread, feed, link, relay, faults>>

stop_watching(g) == Release("progress", g)
stop_activity(g) == Release("activity", g)

\* A closed profile keeps no session open in its name.
close ==
    /\ profile = "open"
    /\ profile' = "closed"
    /\ counter' = IF following = "activity" THEN counter + 1 ELSE counter
    /\ UNCHANGED <<following, screen, thread, feed, link, relay, faults>>

DropHandle ==
    /\ profile = "closed"
    /\ profile' = "gone"
    /\ UNCHANGED <<following, counter, screen, thread, feed, link, relay, faults>>
-----------------------------------------------------------------------------
(* Progress. *)

\* The thread holds the subscription and never the profile.
watch(g) ==
    /\ following = "progress"
    /\ profile # "gone"
    /\ screen[g] # "none" /\ thread[g] = "none"
    /\ thread' = [thread EXCEPT ![g] = IF counter = g THEN "feeding" ELSE "ended"]
    /\ sub' = IF counter = g
              THEN [sub EXCEPT ![g] = [NoChannel EXCEPT !.live = TRUE, !.heard = sequence]]
              ELSE sub
    /\ UNCHANGED <<following, profile, counter, screen, sequence, link, relay, faults>>

\* Mutant: an event that does not fit after its gap is not counted.
OfferedForgets(channel, number) ==
    LET gap == IF channel.dropped > 0 THEN <<[gap |-> channel.dropped]>> ELSE <<>>
        room == WatchCapacity - Len(channel.queue)
    IN  IF ~channel.live THEN channel
        ELSE IF room < Len(gap) THEN [channel EXCEPT !.dropped = @ + 1]
        ELSE IF room < Len(gap) + 1
             THEN [channel EXCEPT !.queue = @ \o gap, !.dropped = IF gap = <<>> THEN 1 ELSE 0]
        ELSE [channel EXCEPT !.queue = @ \o gap \o <<[number |-> number]>>, !.dropped = 0]

\* What publish does for one subscriber: what it missed is told before anything
\* newer, and what does not fit is counted.
Offered(channel, number) ==
    LET gap == IF channel.dropped > 0 THEN <<[gap |-> channel.dropped]>> ELSE <<>>
        room == WatchCapacity - Len(channel.queue)
    IN  IF ~channel.live THEN channel
        ELSE IF room < Len(gap) THEN [channel EXCEPT !.dropped = @ + 1]
        ELSE IF room < Len(gap) + 1
             THEN [channel EXCEPT !.queue = @ \o gap, !.dropped = 1]
        ELSE [channel EXCEPT !.queue = @ \o gap \o <<[number |-> number]>>, !.dropped = 0]

\* A running command records a change: project() tells some of them, and without
\* subscribers no number is spent.
record_change(change) ==
    /\ following = "progress"
    /\ profile = "open"
    /\ sequence < ChangesMax
    /\ change \in Told
    /\ \E g \in Generations : sub[g].live
    /\ sub' = [g \in Generations |-> Offered(sub[g], sequence)]
    /\ sequence' = sequence + 1
    /\ UNCHANGED <<following, profile, counter, screen, thread, link, relay, faults>>

\* The number of events an element of the channel stands for.
Weight(event) == IF "gap" \in DOMAIN event THEN event.gap ELSE 1

\* Every sender of the subscriptions went with the last handle and the worker.
Gone == profile = "gone"

\* The thread takes an event and delivers it, or finds none in time, and then
\* looks at the counter; senders that are gone or a newer generation end it,
\* which drops the subscription.
watch_with(g) ==
    LET heardNow == IF sub[g].queue = <<>> THEN sub[g]
                    ELSE [sub[g] EXCEPT !.queue = Tail(@), !.heard = @ + Weight(Head(sub[g].queue))]
        over == counter # g \/ (sub[g].queue = <<>> /\ Gone)
    IN  /\ thread[g] = "feeding"
        /\ thread' = [thread EXCEPT ![g] = IF over THEN "ended" ELSE "feeding"]
        /\ sub' = [sub EXCEPT ![g] = IF over THEN NoChannel ELSE heardNow]
        /\ UNCHANGED <<following, profile, counter, screen, sequence, link, relay, faults>>
-----------------------------------------------------------------------------
(* Activity: the thread of serve, run and the connection.  Every step of the *)
(* connection leaves the relay's side to the relay.                          *)

ClientOnly == UNCHANGED <<following, profile, counter, screen, feed, served, hub, woken, mail, revoked>>

\* The connection is dropped, with the frames on it.
Disconnect(g) == /\ asked' = [asked EXCEPT ![g] = "none"]
                 /\ wire' = [wire EXCEPT ![g] = <<>>]
                 /\ pending' = [pending EXCEPT ![g] = FALSE]

Current(g) == counter = g

\* A session or an attempt to connect is over with this error: refused
\* credentials (Ended::Refused) and a stream nobody wants (Ended::Stopped) end
\* the thread, anything else is reported and paused after.
Over(g, error) ==
    /\ Disconnect(g)
    /\ thread' = [thread EXCEPT ![g] = IF refused(error) THEN "refused"
                                       ELSE IF ~Current(g) THEN "ended" ELSE "paused"]

Fault == faults < FaultsMax /\ faults' = faults + 1

\* watch_activity: without credentials there is nothing to wait for.  A closed
\* profile has none, and an open one does not tell them when its queue is full
\* or its store fails; either ends the stream, and polling carries on.
watch_activity(g) ==
    /\ following = "activity"
    /\ profile # "gone"
    /\ screen[g] # "none" /\ thread[g] = "none"
    /\ \/ /\ thread' = [thread EXCEPT ![g] = IF profile = "open" THEN "opening" ELSE "ended"]
          /\ UNCHANGED faults
       \/ /\ profile = "open" /\ Fault
          /\ thread' = [thread EXCEPT ![g] = "untold"]
    /\ UNCHANGED <<link, news>>
    /\ ClientOnly

\* run counts the endpoints of one attempt.
NewAttempt(g) == /\ tried' = [tried EXCEPT ![g] = 0]
                 /\ last' = [last EXCEPT ![g] = Transport("no endpoints")]

\* What the device expects at an endpoint, and who may answer there: the realm,
\* or a relay with another key, another realm or another protocol version.
Device  == Initiator("device", "realm key", 1, "realm")
Realm   == Responder("realm key", 1, "realm")
Servers == {Responder(key, version, realm) : key \in {"realm key", "another key"},
                                             version \in 1..2,
                                             realm \in {"realm", "another realm"}}

\* Connection::open on the next endpoint.  A relay closes every handshake that
\* fails as a policy violation: one that is not meant for it, a revoked device's,
\* and one during which its own store failed.
OpenEndpoint(g) ==
    /\ thread[g] = "opening"
    /\ tried[g] < Endpoints
    /\ \/ /\ Established(Device, Realm) /\ ~revoked
          /\ thread' = [thread EXCEPT ![g] = "subscribing"]
          /\ asked' = [asked EXCEPT ![g] = "MailboxWatch"]
          /\ served' = served \cup {g}
          /\ NewAttempt(g)
          /\ UNCHANGED faults
       \/ \E there \in Servers, storeAnswers \in BOOLEAN :
          /\ ~Established(Device, there) \/ revoked \/ ~storeAnswers
          /\ IF there = Realm /\ storeAnswers THEN UNCHANGED faults ELSE Fault
          /\ tried' = [tried EXCEPT ![g] = @ + 1]
          /\ last' = [last EXCEPT ![g] = Transport("Policy")]
          /\ UNCHANGED <<thread, asked, served>>
       \/ /\ Fault
          /\ tried' = [tried EXCEPT ![g] = @ + 1]
          /\ last' = [last EXCEPT ![g] = Transport("connect")]
          /\ UNCHANGED <<thread, asked, served>>
    /\ UNCHANGED <<following, profile, counter, screen, feed, pending, wire,
                   hub, woken, mail, news, revoked>>

\* No endpoint answered: run returns the last error.
NoEndpoint(g) ==
    /\ thread[g] = "opening"
    /\ tried[g] = Endpoints
    /\ Over(g, last[g])
    /\ NewAttempt(g)
    /\ UNCHANGED <<news, faults>>
    /\ ClientOnly

\* Mutant: a notice between a request and its answer is read and forgotten.
ReadPastWakeup(g) ==
    /\ thread[g] \in {"subscribing", "pinging"}
    /\ wire[g] # <<>> /\ is_wakeup(Head(wire[g]))
    /\ wire' = [wire EXCEPT ![g] = Tail(@)]
    /\ UNCHANGED <<thread, tried, last, pending, asked, news, faults>>
    /\ ClientOnly

\* request_inner: a notice between a request and its answer is kept.
KeepWakeup(g) ==
    /\ thread[g] \in {"subscribing", "pinging"}
    /\ wire[g] # <<>> /\ is_wakeup(Head(wire[g]))
    /\ wire' = [wire EXCEPT ![g] = Tail(@)]
    /\ pending' = [pending EXCEPT ![g] = TRUE]
    /\ UNCHANGED <<thread, tried, last, asked, news, faults>>
    /\ ClientOnly

\* The answer: the session is listening.
Subscribed(g) ==
    /\ thread[g] = "subscribing"
    /\ wire[g] # <<>> /\ Head(wire[g]) = Answers["MailboxWatch"]
    /\ IF Current(g)
       THEN /\ thread' = [thread EXCEPT ![g] = "waiting"]
            /\ wire' = [wire EXCEPT ![g] = Tail(@)]
            /\ UNCHANGED <<asked, pending>>
       ELSE /\ thread' = [thread EXCEPT ![g] = "ended"]
            /\ Disconnect(g)
    /\ UNCHANGED <<tried, last, news, faults>>
    /\ ClientOnly

RefusedWatch(g) ==
    /\ thread[g] = "subscribing"
    /\ wire[g] # <<>> /\ Head(wire[g]) = "Error"
    /\ Over(g, Relay(403))
    /\ UNCHANGED <<tried, last, news, faults>>
    /\ ClientOnly

\* next_wakeup: a notice kept or read is reported to the screen.
next_wakeup(g) ==
    /\ thread[g] = "waiting"
    /\ pending[g] \/ (wire[g] # <<>> /\ is_wakeup(Head(wire[g])))
    /\ IF Current(g)
       THEN /\ news' = FALSE
            /\ pending' = [pending EXCEPT ![g] = FALSE]
            /\ wire' = [wire EXCEPT ![g] = IF pending[g] THEN @ ELSE Tail(@)]
            /\ UNCHANGED <<thread, asked>>
       ELSE /\ thread' = [thread EXCEPT ![g] = "ended"]
            /\ Disconnect(g)
            /\ UNCHANGED news
    /\ UNCHANGED <<tried, last, faults>>
    /\ ClientOnly

\* keepalive passed in silence.
KeepAlive(g) ==
    /\ thread[g] = "waiting"
    /\ ~pending[g] /\ wire[g] = <<>>
    /\ thread' = [thread EXCEPT ![g] = "pinging"]
    /\ asked' = [asked EXCEPT ![g] = "Ping"]
    /\ UNCHANGED <<tried, last, pending, wire, news, faults>>
    /\ ClientOnly

Ponged(g) ==
    /\ thread[g] = "pinging"
    /\ wire[g] # <<>> /\ Head(wire[g]) = Answers["Ping"]
    /\ thread' = [thread EXCEPT ![g] = "waiting"]
    /\ wire' = [wire EXCEPT ![g] = Tail(@)]
    /\ UNCHANGED <<tried, last, pending, asked, news, faults>>
    /\ ClientOnly

\* A request times out or the connection breaks; either discards it.
SessionFails(g) ==
    /\ thread[g] \in Connected
    /\ Fault
    /\ Over(g, Transport("closed"))
    /\ UNCHANGED <<tried, last, news>>
    /\ ClientOnly

\* The pause is over, however long it grew: try again.
Resume(g) ==
    /\ thread[g] = "paused"
    /\ thread' = [thread EXCEPT ![g] = "opening"]
    /\ UNCHANGED <<tried, last, pending, asked, wire, news, faults>>
    /\ ClientOnly

\* serve looks at stop a few times a second, also while a session waits.
StopCheck(g) ==
    /\ thread[g] \in Connected \cup {"opening", "paused"}
    /\ ~Current(g)
    /\ thread' = [thread EXCEPT ![g] = "ended"]
    /\ Disconnect(g)
    /\ NewAttempt(g)
    /\ UNCHANGED <<news, faults>>
    /\ ClientOnly
-----------------------------------------------------------------------------
(* The relay, as far as one device's sessions see it (server.go, watch.go;   *)
(* Notices has its races in full).                                           *)

RelayOnly == UNCHANGED <<following, profile, counter, screen, thread, feed,
                         tried, last, pending, faults>>

\* A request is served; a subscription replaces the device's previous one,
\* whose session is not told, and mail already waiting is announced.
Serve(g) ==
    /\ g \in served
    /\ asked[g] # "none"
    /\ asked' = [asked EXCEPT ![g] = "none"]
    /\ \/ /\ asked[g] = "MailboxWatch" /\ ~revoked
          /\ hub' = g
          /\ woken' = mail
          /\ wire' = [wire EXCEPT ![g] = Append(@, Answers["MailboxWatch"])]
       \/ /\ asked[g] = "MailboxWatch" /\ revoked
          /\ wire' = [wire EXCEPT ![g] = Append(@, "Error")]
          /\ UNCHANGED <<hub, woken>>
       \/ /\ asked[g] = "Ping"
          /\ wire' = [wire EXCEPT ![g] = Append(@, Answers["Ping"])]
          /\ UNCHANGED <<hub, woken>>
    /\ UNCHANGED <<served, mail, news, revoked>>
    /\ RelayOnly

\* deliver: the notice goes out, perhaps to a client that is gone.  A bound: one
\* unread notice on a connection, the next one waits in the wake channel.
Deliver ==
    /\ woken
    /\ Wakeup \notin ToSet(wire[hub])
    /\ woken' = FALSE
    /\ wire' = [wire EXCEPT ![hub] = IF thread[hub] \in Connected THEN Append(@, Wakeup) ELSE @]
    /\ UNCHANGED <<asked, served, hub, mail, news, revoked>>
    /\ RelayOnly

\* The relay finds the client of a session gone; its subscription goes with it.
SessionEnds(g) ==
    /\ g \in served
    /\ thread[g] \notin Connected
    /\ served' = served \ {g}
    /\ hub' = IF hub = g THEN 0 ELSE hub
    /\ woken' = (hub # g /\ woken)
    /\ UNCHANGED <<asked, wire, mail, news, revoked>>
    /\ RelayOnly

\* An envelope arrives: a notice only when the mailbox was empty.
Arrive ==
    /\ following = "activity"
    /\ ~mail
    /\ mail' = TRUE
    /\ news' = TRUE
    /\ woken' = (hub # 0)
    /\ UNCHANGED <<asked, wire, served, hub, revoked>>
    /\ RelayOnly

\* A sync of the device, started by a notice, the timer or the person.
Fetch ==
    /\ mail
    /\ mail' = FALSE
    /\ news' = FALSE
    /\ UNCHANGED <<asked, wire, served, hub, woken, revoked>>
    /\ RelayOnly

\* The device is revoked: its subscription ends, its session is left open and
\* its pings are answered.
Revoke ==
    /\ following = "activity"
    /\ ~revoked
    /\ revoked' = TRUE
    /\ hub' = 0
    /\ woken' = FALSE
    /\ UNCHANGED <<asked, wire, served, mail, news>>
    /\ RelayOnly
-----------------------------------------------------------------------------
Activity(g) ==
    \/ OpenEndpoint(g) \/ NoEndpoint(g) \/ KeepWakeup(g) \/ Subscribed(g) \/ RefusedWatch(g)
    \/ next_wakeup(g) \/ KeepAlive(g) \/ Ponged(g) \/ SessionFails(g) \/ Resume(g) \/ StopCheck(g)

Asked(g) == watch(g) \/ watch_activity(g)

Next ==
    \/ start_watching \/ start_activity \/ close \/ DropHandle
    \/ \E g \in Generations : \/ stop_watching(g) \/ stop_activity(g) \/ Asked(g)
                              \/ watch_with(g) \/ Activity(g) \/ Serve(g) \/ SessionEnds(g)
    \/ \E change \in Recordable : record_change(change)
    \/ Deliver \/ Arrive \/ Fetch \/ Revoke

Spec == Init /\ [][Next]_vars

\* Threads run, and so does the relay while it can be reached; nothing makes
\* mail arrive or be fetched, a person act, or a connection fail.
Fairness ==
    /\ WF_vars(Deliver)
    /\ \A g \in Generations :
         /\ WF_vars(Asked(g) \/ watch_with(g) \/ Activity(g))
         /\ WF_vars(Serve(g) \/ SessionEnds(g))
         /\ WF_vars(StopCheck(g))

FairSpec == Spec /\ Fairness
-----------------------------------------------------------------------------
(* A watcher never believes it saw everything when it did not: the numbers it *)
(* hears grow by one except across a gap, which says exactly how many events   *)
(* were dropped; and every event published since it subscribed was heard, is   *)
(* in its channel, is announced by a gap or is counted for the next one.       *)
(* place[i] is the number of the first event after the channel's first i       *)
(* elements: it starts at what was heard and ends at what was published.       *)
Accounted(channel, published) ==
    \E place \in [0..Len(channel.queue) -> 0..published] :
        /\ place[0] = channel.heard
        /\ place[Len(channel.queue)] + channel.dropped = published
        /\ \A i \in DOMAIN channel.queue :
              /\ place[i] = place[i - 1] + Weight(channel.queue[i])
              /\ "number" \in DOMAIN channel.queue[i] => channel.queue[i].number = place[i - 1]

GapAccounted == \A g \in Generations : sub[g].live => Accounted(sub[g], sequence)

\* A newer subscription of the device took this session's place at the relay:
\* the thread of an older generation subscribed after it.
Superseded(g) == thread[g] \in {"waiting", "pinging"} /\ hub # g

(* Mail that arrives while the screen follows activity comes to its notice,   *)
(* whatever the notice crosses on its way and however often the session is     *)
(* made again: unless the mail is fetched anyway, the screen leaves, the       *)
(* stream had no credentials to begin with, the relay turned the device away,  *)
(* or the session is not the one the relay tells.                              *)
EventuallyTold ==
    \A g \in Generations :
        news /\ Current(g) /\ screen[g] = "shown" /\ profile = "open"
            ~> \/ ~news \/ ~Current(g) \/ revoked
               \/ thread[g] \in {"untold", "refused"} \/ Superseded(g)

=============================================================================
