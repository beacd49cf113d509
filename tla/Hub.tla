--------------------------------- MODULE Hub ---------------------------------
(***************************************************************************)
(* The live feed: the hub (app/services/hub.py), the handler of one        *)
(* WebSocket (app/routers/ws.py) and the collector's broadcast.            *)
(*                                                                         *)
(* All run on one event loop and stop only where they await.  The hub's    *)
(* lock is never held across an await, so nobody ever waits for it: a      *)
(* registration and the snapshot sent right after it are one step, and so  *)
(* is the end of a broadcast with all the clients it drops.  A snapshot is *)
(* its number; a payload is a number and the filter applied to it, handed  *)
(* to the connection when send_json is called and drained later.           *)
(*                                                                         *)
(* A socket is one connection: a browser that reconnects is another one.   *)
(***************************************************************************)
EXTENDS Integers

CONSTANTS Sockets,      \* the connections
          Filters,      \* the filters a browser may ask for
          Unfiltered,   \* Filters(): what a client starts with
          MaxTicks      \* bound: the snapshots published

ASSUME HubAssumption == Unfiltered \in Filters /\ MaxTicks \in Nat

VARIABLES
    latest,     \* self.latest, 0 while there is none
    clients,    \* self.clients
    filter,     \* filter[s]: client.filters
    pc,         \* where the handler of each socket stands
    conn,       \* the connection: "open", "stuck" (nothing drains) or "lost"
    got,        \* the last snapshot handed to each connection, number 0 if none
    pub,        \* the broadcast: "idle" or "sending"
    waiting,    \* the targets whose send has not begun
    sending,    \* those whose send is awaited
    stale,      \* those whose send failed
    cache       \* the payload made for each filter, number 0 if none

sockets   == << clients, filter, pc, conn, got >>
broadcast == << pub, waiting, sending, stale, cache >>
vars      == << latest, sockets, broadcast >>

Snapshots == 0..MaxTicks
Payload == [number : Snapshots, filter : Filters]

Nothing == [number |-> 0, filter |-> Unfiltered]

TypeOK ==
    /\ latest \in Snapshots
    /\ clients \in SUBSET Sockets
    /\ filter \in [Sockets -> Filters]
    /\ pc \in [Sockets -> {"new", "first", "receive", "reply", "pong", "gone"}]
    /\ conn \in [Sockets -> {"open", "stuck", "lost"}]
    /\ got \in [Sockets -> Payload]
    /\ pub \in {"idle", "sending"}
    /\ waiting \in SUBSET Sockets
    /\ sending \in SUBSET Sockets
    /\ stale \in SUBSET Sockets
    /\ pub = "idle" => waiting = {} /\ sending = {} /\ stale = {}
    /\ cache \in [Filters -> Payload]

Init ==
    /\ latest = 0
    /\ clients = {}
    /\ filter = [s \in Sockets |-> Unfiltered]
    /\ pc = [s \in Sockets |-> "new"]
    /\ conn = [s \in Sockets |-> "open"]
    /\ got = [s \in Sockets |-> Nothing]
    /\ pub = "idle"
    /\ waiting = {} /\ sending = {} /\ stale = {}
    /\ cache = [f \in Filters |-> Nothing]

-----------------------------------------------------------------------------
\* The network.  A stuck connection may move again; a lost one is lost.

Drift(s, state) ==
    /\ pc[s] \notin {"new", "gone"} /\ conn[s] \notin {"lost", state}
    /\ conn' = [conn EXCEPT ![s] = state]
    /\ UNCHANGED << latest, clients, filter, pc, got, broadcast >>

-----------------------------------------------------------------------------
\* The handler of one socket.

Goto(s, where) == pc' = [pc EXCEPT ![s] = where]

\* Send s the latest snapshot through the filter f and await it at `where`; with
\* no snapshot yet, there is nothing to await.
Show(s, f, where) ==
    IF latest = 0
    THEN Goto(s, "receive") /\ UNCHANGED got
    ELSE /\ Goto(s, where)
         /\ got' = [got EXCEPT ![s] = [number |-> latest, filter |-> f]]

\* A mutant of Connect: a new client waits for the next broadcast.
ConnectUnshown(s) ==
    /\ pc[s] = "new"
    /\ clients' = clients \cup {s}
    /\ Goto(s, "receive")
    /\ UNCHANGED << latest, filter, conn, got, broadcast >>

\* The socket is accepted and registered, and shown what there is.
Connect(s) ==
    /\ pc[s] = "new"
    /\ clients' = clients \cup {s}
    /\ Show(s, filter[s], "first")
    /\ UNCHANGED << latest, filter, conn, broadcast >>

\* Turned away: a bad origin, or no credentials.
Reject(s) ==
    /\ pc[s] = "new"
    /\ Goto(s, "gone")
    /\ conn' = [conn EXCEPT ![s] = "lost"]
    /\ UNCHANGED << latest, clients, filter, got, broadcast >>

\* The browser sends a filter: it is bound and answered with a snapshot.
SetFilter(s, f) ==
    /\ pc[s] = "receive" /\ conn[s] # "lost"
    /\ filter' = [filter EXCEPT ![s] = f]
    /\ Show(s, f, "reply")
    /\ UNCHANGED << latest, clients, conn, broadcast >>

\* It sends a ping, answered with no timeout.
Ping(s) ==
    /\ pc[s] = "receive" /\ conn[s] # "lost"
    /\ Goto(s, "pong")
    /\ UNCHANGED << latest, clients, filter, conn, got, broadcast >>

\* What the handler awaits has drained.
Drained(s) ==
    /\ pc[s] \in {"first", "reply", "pong"} /\ conn[s] = "open"
    /\ Goto(s, "receive")
    /\ UNCHANGED << latest, clients, filter, conn, got, broadcast >>

\* A mutant of End: the handler forgets to unregister.
EndRegistered(s) ==
    /\ Goto(s, "gone")
    /\ conn' = [conn EXCEPT ![s] = "lost"]
    /\ UNCHANGED << latest, clients, filter, got, broadcast >>

\* The handler ends, whatever ended it: `finally` unregisters, the server closes.
End(s) ==
    /\ Goto(s, "gone")
    /\ clients' = clients \ {s}
    /\ conn' = [conn EXCEPT ![s] = "lost"]
    /\ UNCHANGED << latest, filter, got, broadcast >>

\* A mutant of HandlerFails: a receive never fails.
HandlerFailsAnswering(s) ==
    /\ \/ pc[s] \in {"first", "reply", "pong"} /\ conn[s] = "lost"
       \/ pc[s] \in {"first", "reply"} /\ conn[s] = "stuck"
    /\ End(s)

\* The connection is lost, or an answer is not drained within its five seconds.
HandlerFails(s) ==
    /\ \/ pc[s] \in {"first", "reply", "pong", "receive"} /\ conn[s] = "lost"
       \/ pc[s] \in {"first", "reply"} /\ conn[s] = "stuck"
    /\ End(s)

\* The message is no JSON object, or one too many in its five-second window.
HangUp(s) == pc[s] = "receive" /\ conn[s] # "lost" /\ End(s)

-----------------------------------------------------------------------------
\* The broadcast.

\* A mutant of Publish: the payloads of an earlier broadcast are kept.
PublishKeepsCache ==
    /\ pub = "idle" /\ latest < MaxTicks
    /\ latest' = latest + 1
    /\ IF clients = {}
       THEN UNCHANGED broadcast
       ELSE /\ pub' = "sending" /\ waiting' = clients
            /\ UNCHANGED << sending, stale, cache >>
    /\ UNCHANGED sockets

\* The snapshot becomes the latest, and the clients of this moment its targets.
Publish ==
    /\ pub = "idle" /\ latest < MaxTicks
    /\ latest' = latest + 1
    /\ IF clients = {}
       THEN UNCHANGED broadcast
       ELSE /\ pub' = "sending" /\ waiting' = clients
            /\ cache' = [f \in Filters |-> Nothing]
            /\ UNCHANGED << sending, stale >>
    /\ UNCHANGED sockets

\* A mutant of Cached: a payload made for one client serves all.
CachedForAll(f) ==
    IF \E g \in Filters : cache[g] # Nothing
    THEN cache[CHOOSE g \in Filters : cache[g] # Nothing]
    ELSE [number |-> latest, filter |-> f]

\* The payload for a filter: made once per broadcast.
Cached(f) ==
    IF cache[f] # Nothing THEN cache[f] ELSE [number |-> latest, filter |-> f]

\* The send to one target begins, through the filter it has by now.
BeginSend(s) ==
    /\ s \in waiting
    /\ waiting' = waiting \ {s} /\ sending' = sending \cup {s}
    /\ cache' = [cache EXCEPT ![filter[s]] = Cached(filter[s])]
    /\ got' = [got EXCEPT ![s] = Cached(filter[s])]
    /\ UNCHANGED << latest, clients, filter, pc, conn, pub, stale >>

SendOk(s) ==
    /\ s \in sending /\ conn[s] = "open"
    /\ sending' = sending \ {s}
    /\ UNCHANGED << latest, sockets, pub, waiting, stale, cache >>

\* A mutant of SendFails: no timeout, only a lost connection fails a send.
SendFailsIfLost(s) ==
    /\ s \in sending /\ conn[s] = "lost"
    /\ sending' = sending \ {s} /\ stale' = stale \cup {s}
    /\ UNCHANGED << latest, sockets, pub, waiting, cache >>

\* The connection is lost, or four seconds are over.
SendFails(s) ==
    /\ s \in sending /\ conn[s] # "open"
    /\ sending' = sending \ {s} /\ stale' = stale \cup {s}
    /\ UNCHANGED << latest, sockets, pub, waiting, cache >>

\* A mutant of Finish: the list of failures is not emptied.
FinishKeepsStale ==
    /\ pub = "sending" /\ waiting = {} /\ sending = {}
    /\ clients' = clients \ stale
    /\ pub' = "idle"
    /\ UNCHANGED << latest, filter, pc, conn, got, waiting, sending, stale, cache >>

\* Everybody is served or has failed: who has failed is unregistered.  Their
\* handlers are not told.
Finish ==
    /\ pub = "sending" /\ waiting = {} /\ sending = {}
    /\ clients' = clients \ stale
    /\ stale' = {} /\ pub' = "idle"
    /\ UNCHANGED << latest, filter, pc, conn, got, waiting, sending, cache >>

-----------------------------------------------------------------------------
Broadcast == Finish \/ \E s \in Sockets : BeginSend(s) \/ SendOk(s) \/ SendFails(s)

Next ==
    \/ Publish \/ Broadcast
    \/ \E s \in Sockets :
          \/ Connect(s) \/ Reject(s) \/ Ping(s) \/ Drained(s)
          \/ HandlerFails(s) \/ HangUp(s)
          \/ \E f \in Filters : SetFilter(s, f)
          \/ \E state \in {"open", "stuck", "lost"} : Drift(s, state)

Spec == Init /\ [][Next]_vars

\* The event loop gets round to every task that can go on, and timeouts expire.
Handler(s) == Drained(s) \/ HandlerFails(s)

HandlerRuns(s) == WF_vars(Handler(s))
BroadcastRuns  == WF_vars(Broadcast)

Fairness == BroadcastRuns /\ \A s \in Sockets : HandlerRuns(s)

FairSpec == Spec /\ Fairness

-----------------------------------------------------------------------------
(***************************************************************************)
(* Between two broadcasts every registered client has been handed the      *)
(* latest snapshot: nobody who registers while one is under way falls      *)
(* between its list of targets and the snapshot shown at registration, and *)
(* who could not be served is not registered any more (hub.py, 43-48 and   *)
(* 121-147; ws.py, 50-61).                                                 *)
(***************************************************************************)
NobodyMissed ==
    pub = "idle" => \A s \in clients : got[s].number = latest

(***************************************************************************)
(* At every moment, what a browser was handed last is filtered by the      *)
(* filter it asked for last, although broadcasts and answers overlap and   *)
(* payloads are shared (hub.py, 128-139; ws.py, 85-96).                    *)
(***************************************************************************)
FilterHonoured ==
    \A s \in Sockets : got[s].number > 0 => got[s].filter = filter[s]

(***************************************************************************)
(* No browser is handed an older snapshot after a newer one, by whichever  *)
(* of its handler and the broadcast (hub.py, 121-139; ws.py, 56-96).       *)
(***************************************************************************)
NeverBackwards ==
    [][\A s \in Sockets : got'[s].number >= got[s].number]_vars

(***************************************************************************)
(* Hub, handlers and broadcast together are a feed: broadcasts whose sends *)
(* overlap with registrations, filter changes, hang-ups and failed sends   *)
(* look to every browser like one publication after the other, each handed *)
(* to every registered client, through its own filter, before the next one *)
(* (hub.py, 43-53 and 121-147; ws.py, 50-102).                             *)
(***************************************************************************)
Feed == INSTANCE Feed WITH Numbers <- Snapshots,
            published <- latest, subscribers <- clients, asked <- filter,
            due <- waiting, shown <- got

ImplementsFeed == Feed!Spec

(***************************************************************************)
(* The hub never holds a client whose handler has ended, however it ended  *)
(* and whatever the broadcast was doing with it, nor one that was never    *)
(* accepted (hub.py, 43-53 and 144-147; ws.py, 37-50 and 97-102).          *)
(***************************************************************************)
NoGhosts == \A s \in clients : pc[s] \notin {"new", "gone"}

(***************************************************************************)
(* A broadcast ends: no browser, however slow, holds up the collector that *)
(* awaits it (hub.py, 139-144).                                            *)
(***************************************************************************)
BroadcastsEnd == pub = "sending" ~> pub = "idle"

(***************************************************************************)
(* A lost connection leaves the hub, even if nothing is ever published     *)
(* again (ws.py, 66-102).                                                  *)
(***************************************************************************)
LostAreDropped == \A s \in Sockets : conn[s] = "lost" ~> s \notin clients

(***************************************************************************)
(* hub.py, 3-4: "every connected browser receives the same snapshot": an   *)
(* open connection whose handler waits for messages has been handed the    *)
(* latest snapshot once its broadcast is over.                             *)
(***************************************************************************)
EveryConnectedBrowser ==
    pub = "idle" => \A s \in Sockets :
        pc[s] = "receive" /\ conn[s] = "open" => got[s].number = latest
=============================================================================
