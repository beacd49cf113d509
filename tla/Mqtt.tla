---------------------------------- MODULE Mqtt ----------------------------------
(***************************************************************************)
(* The MQTT bridge (app/services/mqtt_bridge.py): the event loop's thread  *)
(* starts, stops and rebinds it and publishes telemetry, and the thread of *)
(* each paho client connects, reconnects and runs the two callbacks.       *)
(*                                                                         *)
(* paho and the broker are external and modelled as the bridge uses them:  *)
(* a client has a queue its thread delivers, loop_stop joins the thread    *)
(* once the queue is out or the connection is lost, a session of a broker  *)
(* ends with the client's will unless the client disconnected, and the     *)
(* broker keeps the last status of each topic.  All clients of the bridge  *)
(* have one identifier, so that a new connection takes over the session:   *)
(* the instance name it is made of (mqtt_bridge.py, 66), which bind does   *)
(* not compare (38-46), stays what it is here.                             *)
(***************************************************************************)
EXTENDS Integers, Sequences

CONSTANTS Hosts,        \* the brokers, as host, port and credentials
          Off,          \* mqtt_host is empty: the bridge is disabled
          Topics,       \* the base topics
          MaxClients,   \* bound: the paho clients made, over all processes
          MaxQueue      \* bound: messages queued before telemetry is held back

Settings == [host : Hosts \cup {Off}, topic : Topics]

ASSUME MqttAssumption ==
    /\ Hosts # {} /\ Off \notin Hosts /\ Topics # {}
    /\ MaxClients \in Nat \ {0}
    /\ MaxQueue \in Nat

VARIABLES
    settings,   \* self.settings
    ok,         \* self.ok
    client,     \* self._client, 0 while it is None
    main,       \* where the event loop's thread is
    closing,    \* whether the stop under way is that of the shutdown
    last,       \* the clients made so far
    conn,       \* the paho client of each number
    session,    \* the client each broker has a session with, else 0
    status      \* the status retained by each broker for each base topic

bridge == << settings, ok, client, main, closing, last >>
vars   == << bridge, conn, session, status >>

Clients == 1..MaxClients
Bodies  == {"online", "offline", "data"}
Message == [topic : Topics, body : Bodies]

Conn == [host : Hosts, will : Topics,
         thread : {"none", "running", "stopping", "ended"},
         link : {"down", "dialing", "greeted", "telling", "up", "lost"},
         queue : Seq(Message)]

TypeOK ==
    /\ settings \in Settings
    /\ ok \in BOOLEAN
    /\ client \in 0..last
    /\ main \in {"idle", "start", "assign", "stop", "join", "ended"}
    /\ closing \in BOOLEAN
    /\ last \in 0..MaxClients
    /\ conn \in [Clients -> Conn]
    /\ session \in [Hosts -> 0..last]
    /\ status \in [Hosts -> [Topics -> {"none", "online", "offline"}]]

\* A client not made yet, or gone with its process.
Absent == [host |-> CHOOSE h \in Hosts : TRUE, will |-> CHOOSE t \in Topics : TRUE,
           thread |-> "none", link |-> "down", queue |-> << >>]

Init ==
    /\ settings \in Settings
    /\ ok = FALSE /\ client = 0
    /\ main = "start" /\ closing = FALSE
    /\ last = 0
    /\ conn = [n \in Clients |-> Absent]
    /\ session = [h \in Hosts |-> 0]
    /\ status = [h \in Hosts |-> [t \in Topics |-> "none"]]

-----------------------------------------------------------------------------
\* A connection the broker has accepted and that stands.
Connected == {"greeted", "telling", "up"}

\* _publish, and the paho call it makes: a client with no socket drops a message
\* of quality 0, one with a socket queues it. Here the socket comes with the
\* broker's answer.
Send(all, n, m) ==
    IF n # 0 /\ all[n].link \in Connected
    THEN [all EXCEPT ![n].queue = Append(@, m)]
    ELSE all

\* What a broker keeps of a message.
Keep(kept, h, m) == IF m.body = "data" THEN kept ELSE [kept EXCEPT ![h][m.topic] = m.body]

Offline(topic) == [topic |-> topic, body |-> "offline"]

-----------------------------------------------------------------------------
\* The event loop's thread.

\* A mutant of Bind: a new base topic is no change.
BindHostOnly(s) ==
    /\ main = "idle" /\ last < MaxClients
    /\ settings' = s
    /\ main' = IF s.host = settings.host THEN "idle" ELSE "stop"
    /\ UNCHANGED << ok, client, closing, last, conn, session, status >>

\* bind: the settings are taken first, and a change is followed by a stop.
Bind(s) ==
    /\ main = "idle" /\ last < MaxClients
    /\ settings' = s
    /\ main' = IF s = settings THEN "idle" ELSE "stop"
    /\ UNCHANGED << ok, client, closing, last, conn, session, status >>

\* The shutdown of the process.
Shutdown ==
    /\ main = "idle"
    /\ main' = "stop" /\ closing' = TRUE
    /\ UNCHANGED << settings, ok, client, last, conn, session, status >>

\* A mutant of Stop: the thread is told to end and not waited for.
StopNoJoin ==
    /\ main = "stop"
    /\ conn' = IF client = 0 THEN conn
               ELSE [Send(conn, client, Offline(settings.topic))
                        EXCEPT ![client].thread = "stopping"]
    /\ client' = 0 /\ ok' = FALSE
    /\ main' = IF closing THEN "ended" ELSE "start"
    /\ UNCHANGED << settings, closing, last, session, status >>

\* stop up to the join: "offline" goes out on the topic of the settings in force,
\* the new ones, and the thread is told to end.
Stop ==
    /\ main = "stop"
    /\ IF client = 0
       THEN /\ main' = IF closing THEN "ended" ELSE "start"
            /\ UNCHANGED conn
       ELSE /\ main' = "join"
            /\ conn' = [Send(conn, client, Offline(settings.topic))
                           EXCEPT ![client].thread = "stopping"]
    /\ UNCHANGED << settings, ok, client, closing, last, session, status >>

\* A mutant of Joined: the flag is left to the callback.
JoinedStillOk ==
    /\ main = "join" /\ conn[client].thread = "ended"
    /\ conn' = [conn EXCEPT ![client].link = "down", ![client].queue = << >>]
    /\ session' = IF conn[client].link \in Connected
                  THEN [session EXCEPT ![conn[client].host] = 0] ELSE session
    /\ client' = 0
    /\ main' = IF closing THEN "ended" ELSE "start"
    /\ UNCHANGED << settings, ok, closing, last, status >>

\* The thread has ended: the client disconnects, which no will follows.  loop_stop
\* and disconnect answer with codes; if one of them raised (101-102), the same would
\* be assigned here.
Joined ==
    /\ main = "join" /\ conn[client].thread = "ended"
    /\ conn' = [conn EXCEPT ![client].link = "down", ![client].queue = << >>]
    /\ session' = IF conn[client].link \in Connected
                  THEN [session EXCEPT ![conn[client].host] = 0] ELSE session
    /\ client' = 0 /\ ok' = FALSE
    /\ main' = IF closing THEN "ended" ELSE "start"
    /\ UNCHANGED << settings, closing, last, status >>

\* start with the bridge disabled.
StartOff ==
    /\ main = "start" /\ settings.host = Off
    /\ main' = "idle"
    /\ UNCHANGED << settings, ok, client, closing, last, conn, session, status >>

\* start: the client is made and its thread runs; self._client comes after.
Start ==
    /\ main = "start" /\ settings.host # Off
    /\ last' = last + 1
    /\ conn' = [conn EXCEPT ![last + 1] =
                   [host |-> settings.host, will |-> settings.topic,
                    thread |-> "running", link |-> "down", queue |-> << >>]]
    /\ main' = "assign"
    /\ UNCHANGED << settings, ok, client, closing, session, status >>

Assign ==
    /\ main = "assign"
    /\ client' = last /\ main' = "idle"
    /\ UNCHANGED << settings, ok, closing, last, conn, session, status >>

\* A mutant of StartFails: the client is assigned before it is started.
StartFailsAssigned ==
    /\ main = "start" /\ settings.host # Off
    /\ main' = "idle" /\ ok' = FALSE /\ client' = last + 1
    /\ UNCHANGED << settings, closing, last, conn, session, status >>

\* start fails before there is a thread: the bridge stays without a client.
StartFails ==
    /\ main = "start" /\ settings.host # Off
    /\ main' = "idle" /\ ok' = FALSE
    /\ UNCHANGED << settings, client, closing, last, conn, session, status >>

\* publish_snapshot and publish_alert.
Publish ==
    /\ main = "idle" /\ ok
    /\ client # 0 => Len(conn[client].queue) < MaxQueue
    /\ conn' = Send(conn, client, [topic |-> settings.topic, body |-> "data"])
    /\ UNCHANGED << bridge, session, status >>

-----------------------------------------------------------------------------
\* The thread of a client.

Alive(n) == conn[n].thread \in {"running", "stopping"}

\* It tries to connect, unless it has been told to end.
Dial(n) ==
    /\ conn[n].thread = "running" /\ conn[n].link = "down"
    /\ conn' = [conn EXCEPT ![n].link = "dialing"]
    /\ UNCHANGED << bridge, session, status >>

\* The broker accepts: a session it still had ends, with its will.
Accepted(n) ==
    LET h == conn[n].host
    IN  /\ Alive(n) /\ conn[n].link = "dialing"
        /\ conn' = [conn EXCEPT ![n].link = "greeted"]
        /\ session' = [session EXCEPT ![h] = n]
        /\ status' = IF session[h] = 0 THEN status
                     ELSE Keep(status, h, Offline(conn[session[h]].will))
        /\ UNCHANGED bridge

\* It refuses, and _on_connect has a reason other than 0; or it is not reached.
Refused(n) ==
    /\ Alive(n) /\ conn[n].link = "dialing"
    /\ conn' = [conn EXCEPT ![n].link = "down"]
    /\ ok' \in {ok, FALSE}
    /\ UNCHANGED << settings, client, main, closing, last, session, status >>

\* _on_connect: the flag is set, and then "online" goes out through self._client,
\* if it is assigned, on the topic of the settings in force by then.
OnConnect(n) ==
    /\ Alive(n) /\ conn[n].link = "greeted"
    /\ ok' = TRUE
    /\ conn' = [conn EXCEPT ![n].link = "telling"]
    /\ UNCHANGED << settings, client, main, closing, last, session, status >>

\* A mutant of Announce: it waits for a lock that a stop holds until its end.
AnnounceLocked(n) ==
    /\ Alive(n) /\ conn[n].link = "telling" /\ main # "join"
    /\ conn' = Send([conn EXCEPT ![n].link = "up"], client,
                    [topic |-> settings.topic, body |-> "online"])
    /\ UNCHANGED << bridge, session, status >>

Announce(n) ==
    /\ Alive(n) /\ conn[n].link = "telling"
    /\ conn' = Send([conn EXCEPT ![n].link = "up"], client,
                    [topic |-> settings.topic, body |-> "online"])
    /\ UNCHANGED << bridge, session, status >>

Deliver(n) ==
    /\ Alive(n) /\ conn[n].link \in {"greeted", "up"} /\ conn[n].queue # << >>
    /\ conn' = [conn EXCEPT ![n].queue = Tail(@)]
    /\ status' = Keep(status, conn[n].host, Head(conn[n].queue))
    /\ UNCHANGED << bridge, session >>

\* A mutant of OnDisconnect: the flag is left as it is.
OnDisconnectStillOk(n) ==
    /\ Alive(n) /\ conn[n].link = "lost"
    /\ conn' = [conn EXCEPT ![n].link = "down", ![n].queue = << >>]
    /\ UNCHANGED << bridge, session, status >>

\* The thread notices the loss; what was queued is gone.
OnDisconnect(n) ==
    /\ Alive(n) /\ conn[n].link = "lost"
    /\ conn' = [conn EXCEPT ![n].link = "down", ![n].queue = << >>]
    /\ ok' = FALSE
    /\ UNCHANGED << settings, client, main, closing, last, session, status >>

\* A thread told to end does so with its queue out, or with no connection.
Exit(n) ==
    /\ conn[n].thread = "stopping"
    /\ \/ conn[n].link = "down"
       \/ conn[n].link \in {"greeted", "up"} /\ conn[n].queue = << >>
    /\ conn' = [conn EXCEPT ![n].thread = "ended"]
    /\ UNCHANGED << bridge, session, status >>

-----------------------------------------------------------------------------
\* The network, the broker and the machine.

Lose(n) ==
    /\ conn[n].link \in {"greeted", "up"}
    /\ conn' = [conn EXCEPT ![n].link = "lost"]
    /\ UNCHANGED << bridge, session, status >>

\* The broker notices that the connection of its session is gone.
Expire(h) ==
    /\ session[h] # 0
    /\ conn[session[h]].host = h
    /\ conn[session[h]].link \notin Connected
    /\ session' = [session EXCEPT ![h] = 0]
    /\ status' = Keep(status, h, Offline(conn[session[h]].will))
    /\ UNCHANGED << bridge, conn >>

\* The process is killed and a new one starts: its connection breaks.
Reboot ==
    /\ last < MaxClients
    /\ conn' = [n \in Clients |->
                   [conn[n] EXCEPT !.thread = "none", !.link = "down", !.queue = << >>]]
    /\ settings' \in Settings
    /\ ok' = FALSE /\ client' = 0 /\ main' = "start" /\ closing' = FALSE
    /\ UNCHANGED << last, session, status >>

-----------------------------------------------------------------------------
Main == Stop \/ Joined \/ StartOff \/ Start \/ Assign \/ StartFails

Thread(n) ==
    \/ Accepted(n) \/ Refused(n) \/ OnConnect(n) \/ Announce(n)
    \/ Deliver(n) \/ OnDisconnect(n) \/ Exit(n)

Next ==
    \/ Main \/ Publish \/ Shutdown \/ Reboot
    \/ \E s \in Settings : Bind(s)
    \/ \E n \in Clients : Dial(n) \/ Thread(n) \/ Lose(n)
    \/ \E h \in Hosts : Expire(h)

Spec == Init /\ [][Next]_vars

\* Both threads get to run, dialing times out, a connection that delivers nothing
\* is lost to the keepalive.
MainRuns      == WF_vars(Main)
ThreadRuns(n) == WF_vars(Thread(n))

Fairness == MainRuns /\ \A n \in Clients : ThreadRuns(n)

FairSpec == Spec /\ Fairness

-----------------------------------------------------------------------------
\* The client the bridge is busy with: the one assigned or about to be.
Current == IF main = "assign" THEN last ELSE client

(***************************************************************************)
(* No thread outlives its client: at any time at most one thread can run   *)
(* the callbacks, that of the client the bridge holds or is about to       *)
(* (mqtt_bridge.py, 85-104).                                               *)
(***************************************************************************)
OneThread == \A n \in Clients : Alive(n) => n = Current

(***************************************************************************)
(* `ok`, which the snapshot shows and every publication asks, is never     *)
(* left over from an earlier client or connection: it says that the client *)
(* the bridge holds is connected, or was until a loss its thread has not   *)
(* noticed yet (mqtt_bridge.py, 93-116).                                   *)
(***************************************************************************)
OkIsConnected == ok => Current # 0 /\ conn[Current].link \in {"telling", "up", "lost"}

(***************************************************************************)
(* Between two calls the bridge runs with the settings in force: its       *)
(* client talks to their broker and has its will on their topic, and no    *)
(* telemetry is queued for any other topic (mqtt_bridge.py, 38-51 and      *)
(* 118-138).                                                               *)
(***************************************************************************)
RunsAsSet ==
    /\ main \in {"idle", "assign"} /\ Current # 0 =>
           /\ conn[Current].host = settings.host
           /\ conn[Current].will = settings.topic
    /\ \A n \in Clients : \A i \in DOMAIN conn[n].queue :
           conn[n].queue[i].body = "data" => conn[n].queue[i].topic = conn[n].will

(***************************************************************************)
(* Any stop ends, so that neither a change of settings nor the shutdown    *)
(* hangs the event loop: the thread that is joined gets through its        *)
(* callbacks, its queue or the loss of its connection (mqtt_bridge.py,     *)
(* 93-112 and 140-147).                                                    *)
(***************************************************************************)
StopsEnd ==
    \A n \in 0..MaxClients :
        main \in {"stop", "join"} /\ client = n ~> main \in {"idle", "ended"}

(***************************************************************************)
(* A lost connection shows in `ok` (mqtt_bridge.py, 114-116).              *)
(***************************************************************************)
LossIsNoticed == \A n \in Clients : conn[n].link = "lost" ~> ~ok \/ conn[n].link \in Connected

(***************************************************************************)
(* mqtt_bridge.py, 4: "{base}/status online / offline (last will)":        *)
(* between two calls, behind a status "online" a broker has a session      *)
(* whose end, if the bridge does not tell it, the last will tells on that  *)
(* topic.                                                                  *)
(***************************************************************************)
OnlineIsCovered ==
    main = "idle" =>
        \A h \in Hosts, t \in Topics :
            status[h][t] = "online" => session[h] # 0 /\ conn[session[h]].will = t
=============================================================================
