------------------------------- MODULE MqttProofs -------------------------------
(***************************************************************************)
(* What Mqtt promises of the two threads of the bridge, for any brokers,   *)
(* topics and number of clients: one thread, an honest flag, telemetry as  *)
(* set; a loss shows and a stop ends. The liveness theorems have two kinds *)
(* of hypotheses, both true of every behaviour of the specification and    *)
(* both beyond this prover: that a guard which is written out enables its  *)
(* action, and instances of induction in a temporal formula.               *)
(***************************************************************************)
EXTENDS Mqtt, TLAPS

\* Where the event loop's thread is tells whether there is a client, and that the
\* bound leaves room for the one about to be made.
Place ==
    /\ main \in {"start", "assign"} => client = 0
    /\ main = "assign" => last # 0
    /\ main = "join" => client # 0
    /\ main = "start" \/ (main \in {"stop", "join"} /\ ~closing) => last < MaxClients

\* Only the client the bridge is busy with has a connection of any kind.
OneLink == \A n \in Clients : conn[n].link # "down" => n = Current

IInv == TypeOK /\ Place /\ OneThread /\ OneLink /\ OkIsConnected /\ RunsAsSet

-----------------------------------------------------------------------------
(* Send appends to the queue of the one client and changes nothing else    *)
(* (_publish).                                                             *)
LEMMA SendFrame ==
    ASSUME NEW all \in [Clients -> Conn], NEW n \in 0..MaxClients, NEW m \in Message
    PROVE  /\ Send(all, n, m) \in [Clients -> Conn]
           /\ \A k \in Clients :
                 /\ Send(all, n, m)[k].host = all[k].host
                 /\ Send(all, n, m)[k].will = all[k].will
                 /\ Send(all, n, m)[k].thread = all[k].thread
                 /\ Send(all, n, m)[k].link = all[k].link
                 /\ \/ Send(all, n, m)[k].queue = all[k].queue
                    \/ k = n /\ Send(all, n, m)[k].queue = Append(all[k].queue, m)
<1> USE MqttAssumption
<1>1. CASE n # 0 /\ all[n].link \in Connected
  <2>1. n \in Clients
    BY <1>1 DEF Clients
  <2>2. Send(all, n, m) = [all EXCEPT ![n] = [all[n] EXCEPT !.queue = Append(@, m)]]
    BY <1>1 DEF Send
  <2>3. Append(all[n].queue, m) \in Seq(Message) /\ all[n] \in Conn
    BY <2>1 DEF Conn
  <2>4. [all[n] EXCEPT !.queue = Append(@, m)] \in Conn
    BY <2>3 DEF Conn
  <2>. QED  BY <2>1, <2>2, <2>3, <2>4 DEF Conn
<1>2. CASE ~(n # 0 /\ all[n].link \in Connected)
  BY <1>2 DEF Send
<1>. QED  BY <1>1, <1>2

(* The invariant holds in a new process (MqttBridge.__init__).             *)
LEMMA InitIInv == Init => IInv
<1> SUFFICES ASSUME Init PROVE IInv
  OBVIOUS
<1>1. Absent \in Conn
  <2>1. (CHOOSE h \in Hosts : TRUE) \in Hosts /\ (CHOOSE t \in Topics : TRUE) \in Topics
    BY MqttAssumption
  <2>. QED  BY <2>1 DEF Absent, Conn
<1>2. \A n \in Clients : conn[n] = Absent
  BY DEF Init
<1>3. TypeOK
  <2>1. conn \in [Clients -> Conn]
    BY <1>1 DEF Init
  <2>2. session \in [Hosts -> 0..last] /\ last \in 0..MaxClients /\ client \in 0..last
    BY MqttAssumption DEF Init
  <2>3. status \in [Hosts -> [Topics -> {"none", "online", "offline"}]]
    BY DEF Init
  <2>. QED  BY <2>1, <2>2, <2>3 DEF Init, TypeOK
<1>4. \A n \in Clients : /\ conn[n].thread = "none" /\ conn[n].link = "down"
                         /\ conn[n].queue = << >>
  <2>1. Absent.thread = "none" /\ Absent.link = "down" /\ Absent.queue = << >>
    BY DEF Absent
  <2>. QED  BY <1>2, <2>1
<1>5. Place /\ OneThread /\ OneLink /\ OkIsConnected
  BY <1>4, MqttAssumption DEF Init, Place, OneThread, OneLink, OkIsConnected, Alive, Current
<1>6. RunsAsSet
  BY <1>4 DEF Init, RunsAsSet
<1>. QED  BY <1>3, <1>5, <1>6 DEF IInv
-----------------------------------------------------------------------------
(* What the actions of the event loop's thread keep (mqtt_bridge.py,       *)
(* 38-104).                                                                *)
LEMMA MainStep ==
    ASSUME IInv, Main \/ Shutdown \/ Publish \/ \E s \in Settings : Bind(s)
    PROVE  IInv'
<1> USE MqttAssumption
<1>1. TypeOK /\ Place /\ OneThread /\ OneLink /\ OkIsConnected /\ RunsAsSet
  BY DEF IInv
<1>2. ASSUME NEW s \in Settings, Bind(s) PROVE IInv'
  <2>1. TypeOK'
    BY <1>1, <1>2 DEF TypeOK, Bind
  <2>2. (Place /\ OneThread /\ OneLink /\ OkIsConnected /\ RunsAsSet)'
    BY <1>1, <1>2 DEF Bind, Place, OneThread, OneLink, OkIsConnected, RunsAsSet, Alive, Current
  <2>. QED  BY <2>1, <2>2 DEF IInv
<1>3. CASE Shutdown
  <2>1. TypeOK'
    BY <1>1, <1>3 DEF TypeOK, Shutdown
  <2>2. (Place /\ OneThread /\ OneLink /\ OkIsConnected /\ RunsAsSet)'
    BY <1>1, <1>3 DEF Shutdown, Place, OneThread, OneLink, OkIsConnected, RunsAsSet, Alive, Current
  <2>. QED  BY <2>1, <2>2 DEF IInv
<1>4. CASE StartOff
  <2>1. TypeOK'
    BY <1>1, <1>4 DEF TypeOK, StartOff
  <2>2. (Place /\ OneThread /\ OneLink /\ OkIsConnected /\ RunsAsSet)'
    BY <1>1, <1>4 DEF StartOff, Place, OneThread, OneLink, OkIsConnected, RunsAsSet, Alive, Current
  <2>. QED  BY <2>1, <2>2 DEF IInv
<1>5. CASE StartFails
  <2>1. TypeOK'
    BY <1>1, <1>5 DEF TypeOK, StartFails
  <2>2. (Place /\ OneThread /\ OneLink /\ OkIsConnected /\ RunsAsSet)'
    BY <1>1, <1>5 DEF StartFails, Place, OneThread, OneLink, OkIsConnected, RunsAsSet, Alive, Current
  <2>. QED  BY <2>1, <2>2 DEF IInv
<1>6. CASE Assign
  <2>1. TypeOK'
    BY <1>1, <1>6 DEF TypeOK, Assign
  <2>2. (Place /\ OneThread /\ OneLink /\ OkIsConnected /\ RunsAsSet)'
    BY <1>1, <1>6 DEF Assign, Place, OneThread, OneLink, OkIsConnected, RunsAsSet, Alive, Current
  <2>. QED  BY <2>1, <2>2 DEF IInv
<1>7. CASE Stop /\ client = 0
  <2>1. TypeOK'
    BY <1>1, <1>7 DEF TypeOK, Stop
  <2>2. (Place /\ OneThread /\ OneLink /\ OkIsConnected /\ RunsAsSet)'
    BY <1>1, <1>7 DEF Stop, Place, OneThread, OneLink, OkIsConnected, RunsAsSet, Alive, Current
  <2>. QED  BY <2>1, <2>2 DEF IInv
<1>8. CASE Stop /\ client # 0
  <2> DEFINE sent == Send(conn, client, Offline(settings.topic))
  <2>1. client \in Clients /\ client \in 0..MaxClients
    BY <1>1, <1>8 DEF TypeOK, Clients
  <2>2. Offline(settings.topic) \in Message
    BY <1>1 DEF TypeOK, Settings, Message, Offline, Bodies
  <2>3. /\ sent \in [Clients -> Conn]
        /\ \A k \in Clients :
              /\ sent[k].host = conn[k].host /\ sent[k].will = conn[k].will
              /\ sent[k].link = conn[k].link /\ sent[k].thread = conn[k].thread
              /\ \/ sent[k].queue = conn[k].queue
                 \/ sent[k].queue = Append(conn[k].queue, Offline(settings.topic))
    BY <1>1, <2>1, <2>2, SendFrame DEF TypeOK
  <2> HIDE DEF sent
  <2>4. conn' = [sent EXCEPT ![client].thread = "stopping"]
    BY <1>8 DEF Stop, sent
  <2>5. /\ conn' \in [Clients -> Conn]
        /\ \A k \in Clients :
              /\ conn'[k].host = conn[k].host /\ conn'[k].will = conn[k].will
              /\ conn'[k].link = conn[k].link
              /\ k # client => conn'[k].thread = conn[k].thread
              /\ \/ conn'[k].queue = conn[k].queue
                 \/ conn'[k].queue = Append(conn[k].queue, Offline(settings.topic))
    BY <2>1, <2>3, <2>4 DEF Conn
  <2>6. TypeOK'
    BY <1>1, <1>8, <2>5 DEF TypeOK, Stop
  <2>7. (Place /\ OneLink /\ OkIsConnected)' /\ Current' = client /\ Current = client
    BY <1>1, <1>8, <2>1, <2>5 DEF Stop, Place, OneLink, OkIsConnected, Current
  <2>8. OneThread'
    BY <1>1, <2>5, <2>7 DEF OneThread, Alive
  <2>9. RunsAsSet'
    <3>1. SUFFICES ASSUME NEW n \in Clients, NEW i \in DOMAIN conn'[n].queue,
                          conn'[n].queue[i].body = "data"
                   PROVE  conn'[n].queue[i].topic = conn'[n].will
      BY <1>8 DEF Stop, RunsAsSet
    <3>2. conn[n].queue \in Seq(Message)
      BY <1>1 DEF TypeOK, Conn
    <3>3. CASE conn'[n].queue = conn[n].queue
      BY <1>1, <2>5, <3>1, <3>3 DEF RunsAsSet
    <3>4. CASE conn'[n].queue = Append(conn[n].queue, Offline(settings.topic))
      <4>1. i \in DOMAIN conn[n].queue /\ conn'[n].queue[i] = conn[n].queue[i]
        BY <3>1, <3>2, <3>4 DEF Offline
      <4>. QED  BY <1>1, <2>5, <3>1, <4>1 DEF RunsAsSet
    <3>. QED  BY <2>5, <3>3, <3>4
  <2>. QED  BY <2>6, <2>7, <2>8, <2>9 DEF IInv
<1>9. CASE Joined
  <2>1. client \in Clients /\ Current = client
    BY <1>1, <1>9 DEF Joined, TypeOK, Place, Clients, Current
  <2>2. /\ conn' \in [Clients -> Conn]
        /\ conn'[client].link = "down" /\ conn'[client].queue = << >>
        /\ conn'[client].thread = "ended"
        /\ \A k \in Clients \ {client} : conn'[k] = conn[k]
    <3> DEFINE gone == [conn[client] EXCEPT !.link = "down", !.queue = << >>]
    <3>1. conn \in [Clients -> Conn] /\ conn[client] \in Conn
      BY <1>1, <2>1 DEF TypeOK
    <3>2. /\ gone \in Conn /\ gone.link = "down" /\ gone.queue = << >>
          /\ gone.thread = conn[client].thread
      <4> DEFINE c == conn[client]
      <4> SUFFICES /\ gone \in Conn /\ gone.link = "down" /\ gone.queue = << >>
                   /\ gone.thread = c.thread
        OBVIOUS
      <4>1. c \in Conn /\ gone = [c EXCEPT !.link = "down", !.queue = << >>]
        BY <3>1
      <4>2. << >> \in Seq(Message)
        OBVIOUS
      <4> HIDE DEF c, gone
      <4>. QED  BY <4>1, <4>2 DEF Conn
    <3>3. conn' = [conn EXCEPT ![client] = gone] /\ conn[client].thread = "ended"
      BY <1>9 DEF Joined
    <3> HIDE DEF gone
    <3>. QED  BY <2>1, <3>1, <3>2, <3>3
  <2>3. session' \in [Hosts -> 0..last]
    <3>1. session \in [Hosts -> 0..last] /\ 0 \in 0..last
      BY <1>1 DEF TypeOK
    <3>2. session' = session \/ session' = [session EXCEPT ![conn[client].host] = 0]
      BY <1>9 DEF Joined
    <3>. QED  BY <3>1, <3>2
  <2>4. TypeOK'
    <3>1. client' \in 0..last' /\ last' \in 0..MaxClients /\ session' \in [Hosts -> 0..last']
      BY <1>1, <1>9, <2>3 DEF Joined, TypeOK
    <3>2. main' \in {"start", "ended"} /\ ok' = FALSE
      BY <1>9 DEF Joined
    <3>. QED  BY <1>1, <1>9, <2>2, <3>1, <3>2 DEF Joined, TypeOK
  <2>5. (Place /\ OkIsConnected)'
    BY <1>1, <1>9 DEF Joined, Place, OkIsConnected, TypeOK
  <2>6. (OneThread /\ OneLink)'
    BY <1>1, <2>1, <2>2 DEF OneThread, OneLink, Alive
  <2>7. RunsAsSet'
    BY <1>1, <1>9, <2>2 DEF Joined, RunsAsSet
  <2>. QED  BY <2>4, <2>5, <2>6, <2>7 DEF IInv
<1>10. CASE Start
  <2> DEFINE made == [host |-> settings.host, will |-> settings.topic,
                      thread |-> "running", link |-> "down", queue |-> << >>]
  <2>1. last + 1 \in Clients /\ last \in 0..MaxClients
    <3>1. last \in 0..MaxClients
      BY <1>1 DEF TypeOK
    <3>2. last < MaxClients
      BY <1>1, <1>10 DEF Place, Start
    <3>. QED  BY <3>1, <3>2 DEF Clients
  <2>2. made \in Conn
    <3>1. settings.host \in Hosts /\ settings.topic \in Topics
      BY <1>1, <1>10 DEF TypeOK, Settings, Start
    <3>2. << >> \in Seq(Message)
      OBVIOUS
    <3>. QED  BY <3>1, <3>2 DEF Conn
  <2> HIDE DEF made
  <2>3. conn' = [conn EXCEPT ![last + 1] = made]
    BY <1>10 DEF Start, made
  <2>4. /\ conn' \in [Clients -> Conn] /\ conn'[last + 1] = made
        /\ \A k \in Clients \ {last + 1} : conn'[k] = conn[k]
    BY <1>1, <2>1, <2>2, <2>3 DEF TypeOK
  <2>5. session \in [Hosts -> 0..(last + 1)]
    BY <1>1, <2>1 DEF TypeOK
  <2>6. TypeOK'
    BY <1>1, <1>10, <2>1, <2>4, <2>5 DEF TypeOK, Start, Clients
  <2>7. Current = 0 /\ Current' = last + 1
    BY <1>1, <1>10 DEF Place, Start, Current
  <2>8. (Place /\ OkIsConnected)'
    BY <1>1, <1>10, <2>1, <2>7 DEF Start, Place, OkIsConnected, Clients
  <2>9. (OneThread /\ OneLink)'
    <3>1. \A k \in Clients : k # 0
      BY DEF Clients
    <3>. QED  BY <1>1, <2>4, <2>7, <3>1 DEF OneThread, OneLink, Alive
  <2>10. RunsAsSet'
    <3>1. made.queue = << >> /\ made.host = settings.host /\ made.will = settings.topic
      BY DEF made
    <3>2. \A n \in Clients : \A i \in DOMAIN conn'[n].queue :
             conn'[n].queue[i].body = "data" => conn'[n].queue[i].topic = conn'[n].will
      BY <1>1, <2>4, <3>1 DEF RunsAsSet
    <3>. QED  BY <1>10, <2>4, <2>7, <3>1, <3>2 DEF Start, RunsAsSet
  <2>. QED  BY <2>6, <2>8, <2>9, <2>10 DEF IInv
<1>11. CASE Publish
  <2> DEFINE m == [topic |-> settings.topic, body |-> "data"]
  <2>1. client \in Clients /\ client \in 0..MaxClients /\ Current = client
    BY <1>1, <1>11 DEF TypeOK, Clients, Publish, OkIsConnected, Current
  <2>2. m \in Message
    BY <1>1 DEF TypeOK, Settings, Message, Bodies
  <2>3. conn' = Send(conn, client, m)
    BY <1>11 DEF Publish
  <2>4. /\ conn' \in [Clients -> Conn]
        /\ \A k \in Clients :
              /\ conn'[k].host = conn[k].host /\ conn'[k].will = conn[k].will
              /\ conn'[k].link = conn[k].link /\ conn'[k].thread = conn[k].thread
              /\ \/ conn'[k].queue = conn[k].queue
                 \/ k = client /\ conn'[k].queue = Append(conn[k].queue, m)
    BY <1>1, <2>1, <2>2, <2>3, SendFrame DEF TypeOK
  <2>5. TypeOK'
    BY <1>1, <1>11, <2>4 DEF TypeOK, Publish, bridge
  <2>6. (Place /\ OneThread /\ OneLink /\ OkIsConnected)'
    BY <1>1, <1>11, <2>1, <2>4
       DEF Publish, bridge, Place, OneThread, OneLink, OkIsConnected, Alive, Current
  <2>7. conn[client].host = settings.host /\ conn[client].will = settings.topic
    BY <1>1, <1>11, <2>1 DEF Publish, RunsAsSet, Clients
  <2>8. ASSUME NEW n \in Clients, NEW i \in DOMAIN conn'[n].queue,
               conn'[n].queue[i].body = "data"
        PROVE  conn'[n].queue[i].topic = conn'[n].will
    <3>1. conn[n].queue \in Seq(Message)
      BY <1>1 DEF TypeOK, Conn
    <3>2. CASE conn'[n].queue = conn[n].queue
      BY <1>1, <2>4, <2>8, <3>2 DEF RunsAsSet
    <3>3. CASE n = client /\ conn'[n].queue = Append(conn[n].queue, m)
      <4>1. \/ i \in DOMAIN conn[n].queue /\ conn'[n].queue[i] = conn[n].queue[i]
            \/ conn'[n].queue[i] = m
        BY <2>8, <3>1, <3>3
      <4>. QED  BY <1>1, <2>4, <2>7, <2>8, <3>3, <4>1 DEF RunsAsSet
    <3>. QED  BY <2>4, <3>2, <3>3
  <2>9. RunsAsSet'
    BY <1>11, <2>1, <2>4, <2>7, <2>8 DEF Publish, bridge, RunsAsSet, Current
  <2>. QED  BY <2>5, <2>6, <2>9 DEF IInv
<1>. QED  BY <1>2, <1>3, <1>4, <1>5, <1>6, <1>7, <1>8, <1>9, <1>10, <1>11 DEF Main
-----------------------------------------------------------------------------
\* All telemetry of a queue is for one topic.
Bound(q, t) == \A i \in DOMAIN q : q[i].body = "data" => q[i].topic = t

(* What is not telemetry may join any queue.                               *)
LEMMA QueueAppended ==
    ASSUME NEW q \in Seq(Message), NEW m \in Message, NEW t, m.body # "data", Bound(q, t)
    PROVE  Bound(Append(q, m), t)
<1>1. \A i \in DOMAIN Append(q, m) :
          Append(q, m)[i] = m \/ (i \in DOMAIN q /\ Append(q, m)[i] = q[i])
  OBVIOUS
<1>. QED  BY <1>1 DEF Bound

(* A change of one client keeps the invariant if it wakes no thread, opens *)
(* no connection of another client than the current, queues no stray       *)
(* telemetry and leaves the flag right.                                    *)
LEMMA OneClient ==
    ASSUME IInv, NEW n \in Clients,
           UNCHANGED << settings, client, main, closing, last >>,
           conn' \in [Clients -> Conn],
           \A k \in Clients \ {n} : conn'[k] = conn[k],
           conn'[n].host = conn[n].host, conn'[n].will = conn[n].will,
           conn'[n].thread \in {"running", "stopping"} => Alive(n),
           conn'[n].link # "down" => n = Current,
           Bound(conn'[n].queue, conn[n].will),
           ok' \in BOOLEAN, OkIsConnected',
           session' \in [Hosts -> 0..last],
           status' \in [Hosts -> [Topics -> {"none", "online", "offline"}]]
    PROVE  IInv'
<1>1. TypeOK'
  BY DEF IInv, TypeOK
<1>2. Place' /\ Current' = Current
  BY DEF IInv, Place, Current
<1>3. OneThread'
  BY <1>2 DEF IInv, OneThread, Alive
<1>4. OneLink'
  BY <1>2 DEF IInv, OneLink
<1>5. RunsAsSet'
  <2>1. \A k \in Clients : conn'[k].host = conn[k].host /\ conn'[k].will = conn[k].will
    OBVIOUS
  <2>2. Current # 0 => Current \in Clients
    BY MqttAssumption DEF IInv, TypeOK, Current, Clients
  <2>3. \A k \in Clients : \A i \in DOMAIN conn'[k].queue :
           conn'[k].queue[i].body = "data" => conn'[k].queue[i].topic = conn'[k].will
    BY <2>1 DEF IInv, RunsAsSet, Bound
  <2>. QED  BY <1>2, <2>1, <2>2, <2>3 DEF IInv, RunsAsSet
<1>. QED  BY <1>1, <1>2, <1>3, <1>4, <1>5 DEF IInv

(* A message leaves the statuses of a broker well typed.                   *)
LEMMA KeepType ==
    ASSUME NEW kept \in [Hosts -> [Topics -> {"none", "online", "offline"}]],
           NEW h \in Hosts, NEW m \in Message
    PROVE  Keep(kept, h, m) \in [Hosts -> [Topics -> {"none", "online", "offline"}]]
<1>1. CASE m.body = "data"
  BY <1>1 DEF Keep
<1>2. CASE m.body # "data"
  <2>1. m.body \in {"online", "offline"} /\ m.topic \in Topics
    BY <1>2 DEF Message, Bodies
  <2> DEFINE row == [kept[h] EXCEPT ![m.topic] = m.body]
  <2>2. row \in [Topics -> {"none", "online", "offline"}]
    BY <2>1
  <2>3. Keep(kept, h, m) = [kept EXCEPT ![h] = row]
    BY <1>2 DEF Keep
  <2> HIDE DEF row
  <2>. QED  BY <2>2, <2>3
<1>. QED  BY <1>1, <1>2

(* A client with a changed link or thread is well typed and the rest of it *)
(* as it was.                                                              *)
LEMMA Relinked ==
    ASSUME NEW c \in Conn,
           NEW l \in {"down", "dialing", "greeted", "telling", "up", "lost"}
    PROVE  LET d == [c EXCEPT !.link = l]
           IN  /\ d \in Conn /\ d.link = l
               /\ d.host = c.host /\ d.will = c.will
               /\ d.thread = c.thread /\ d.queue = c.queue
BY DEF Conn

LEMMA Closed ==
    ASSUME NEW c \in Conn
    PROVE  LET d == [c EXCEPT !.link = "down", !.queue = << >>]
           IN  /\ d \in Conn /\ d.link = "down"
               /\ d.host = c.host /\ d.will = c.will
               /\ d.thread = c.thread /\ d.queue = << >>
<1>1. << >> \in Seq(Message)
  OBVIOUS
<1>. QED  BY <1>1 DEF Conn

LEMMA Ended ==
    ASSUME NEW c \in Conn
    PROVE  LET d == [c EXCEPT !.thread = "ended"]
           IN  /\ d \in Conn /\ d.link = c.link
               /\ d.host = c.host /\ d.will = c.will
               /\ d.thread = "ended" /\ d.queue = c.queue
BY DEF Conn

(* What the threads of the clients, the network and the brokers keep.      *)
LEMMA ThreadStep ==
    ASSUME IInv, NEW n \in Clients, Dial(n) \/ Thread(n) \/ Lose(n)
    PROVE  IInv'
<1> USE MqttAssumption
<1>1. TypeOK /\ OneThread /\ OneLink /\ OkIsConnected /\ RunsAsSet
  BY DEF IInv
<1>2. /\ conn \in [Clients -> Conn] /\ conn[n] \in Conn
      /\ conn[n].host \in Hosts /\ conn[n].will \in Topics
      /\ conn[n].queue \in Seq(Message)
  BY <1>1 DEF TypeOK, Conn
<1>3. Alive(n) \/ conn[n].link # "down" => n = Current /\ n \in 1..last
  BY <1>1 DEF OneThread, OneLink, TypeOK, Current, Clients
<1>4. Bound(conn[n].queue, conn[n].will) /\ Bound(<< >>, conn[n].will)
  BY <1>1 DEF RunsAsSet, Bound
<1>5. /\ session \in [Hosts -> 0..last] /\ ok \in BOOLEAN
      /\ status \in [Hosts -> [Topics -> {"none", "online", "offline"}]]
  BY <1>1 DEF TypeOK
<1>. USE <1>2, <1>3, <1>4, <1>5
<1>6. CASE Dial(n)
  <2>1. conn' = [conn EXCEPT ![n] = [conn[n] EXCEPT !.link = "dialing"]]
    BY <1>6 DEF Dial
  <2>2. /\ UNCHANGED << settings, client, main, closing, last, ok, session, status >>
        /\ Alive(n) /\ conn[n].link = "down"
    BY <1>6 DEF Dial, bridge, Alive
  <2>3. /\ conn' \in [Clients -> Conn] /\ conn'[n].link = "dialing"
        /\ conn'[n].host = conn[n].host /\ conn'[n].will = conn[n].will
        /\ conn'[n].thread = conn[n].thread /\ conn'[n].queue = conn[n].queue
        /\ \A k \in Clients \ {n} : conn'[k] = conn[k]
    BY <2>1, Relinked
  <2>4. OkIsConnected'
    BY <1>1, <2>2, <2>3 DEF OkIsConnected, Current
  <2>. QED  BY <2>2, <2>3, <2>4, OneClient DEF Alive
<1>7. CASE Accepted(n)
  <2>1. conn' = [conn EXCEPT ![n] = [conn[n] EXCEPT !.link = "greeted"]]
    BY <1>7 DEF Accepted
  <2>2. /\ UNCHANGED << settings, client, main, closing, last, ok >>
        /\ Alive(n) /\ conn[n].link = "dialing"
    BY <1>7 DEF Accepted, bridge
  <2>3. /\ conn' \in [Clients -> Conn] /\ conn'[n].link = "greeted"
        /\ conn'[n].host = conn[n].host /\ conn'[n].will = conn[n].will
        /\ conn'[n].thread = conn[n].thread /\ conn'[n].queue = conn[n].queue
        /\ \A k \in Clients \ {n} : conn'[k] = conn[k]
    BY <2>1, Relinked
  <2>4. OkIsConnected'
    BY <1>1, <2>2, <2>3 DEF OkIsConnected, Current
  <2>5. session' \in [Hosts -> 0..last]
    <3>1. session' = [session EXCEPT ![conn[n].host] = n]
      BY <1>7 DEF Accepted
    <3>2. n \in 0..last
      BY <2>2, <1>1 DEF TypeOK
    <3>. QED  BY <3>1, <3>2
  <2>6. status' \in [Hosts -> [Topics -> {"none", "online", "offline"}]]
    <3> DEFINE ended == session[conn[n].host]
    <3>1. CASE ended = 0
      BY <1>7, <3>1 DEF Accepted
    <3>2. CASE ended # 0
      <4>1. ended \in Clients
        BY <3>2, <1>1 DEF TypeOK, Clients
      <4>2. Offline(conn[ended].will) \in Message
        BY <4>1 DEF Conn, Offline, Message, Bodies
      <4>3. status' = Keep(status, conn[n].host, Offline(conn[ended].will))
        BY <1>7, <3>2 DEF Accepted
      <4>. QED  BY <4>2, <4>3, KeepType
    <3>. QED  BY <3>1, <3>2
  <2>. QED  BY <2>2, <2>3, <2>4, <2>5, <2>6, OneClient DEF Alive
<1>8. CASE Refused(n)
  <2>1. conn' = [conn EXCEPT ![n] = [conn[n] EXCEPT !.link = "down"]]
    BY <1>8 DEF Refused
  <2>2. /\ UNCHANGED << settings, client, main, closing, last, session, status >>
        /\ ok' \in {ok, FALSE} /\ Alive(n) /\ conn[n].link = "dialing"
    BY <1>8 DEF Refused
  <2>3. /\ conn' \in [Clients -> Conn] /\ conn'[n].link = "down"
        /\ conn'[n].host = conn[n].host /\ conn'[n].will = conn[n].will
        /\ conn'[n].thread = conn[n].thread /\ conn'[n].queue = conn[n].queue
        /\ \A k \in Clients \ {n} : conn'[k] = conn[k]
    BY <2>1, Relinked
  <2>4. ~ok
    BY <1>1, <2>2 DEF OkIsConnected
  <2>5. ok' = FALSE
    BY <2>2, <2>4
  <2>6. OkIsConnected' /\ ok' \in BOOLEAN
    BY <2>5 DEF OkIsConnected
  <2>. QED  BY <2>2, <2>3, <2>6, OneClient DEF Alive
<1>9. CASE OnConnect(n)
  <2>1. conn' = [conn EXCEPT ![n] = [conn[n] EXCEPT !.link = "telling"]]
    BY <1>9 DEF OnConnect
  <2>2. /\ UNCHANGED << settings, client, main, closing, last, session, status >>
        /\ ok' = TRUE /\ Alive(n)
    BY <1>9 DEF OnConnect
  <2>3. /\ conn' \in [Clients -> Conn] /\ conn'[n].link = "telling"
        /\ conn'[n].host = conn[n].host /\ conn'[n].will = conn[n].will
        /\ conn'[n].thread = conn[n].thread /\ conn'[n].queue = conn[n].queue
        /\ \A k \in Clients \ {n} : conn'[k] = conn[k]
    BY <2>1, Relinked
  <2>4. OkIsConnected'
    BY <2>2, <2>3 DEF OkIsConnected, Current, Clients
  <2>. QED  BY <2>2, <2>3, <2>4, OneClient DEF Alive
<1>10. CASE Announce(n)
  <2> DEFINE m == [topic |-> settings.topic, body |-> "online"]
             up == [conn EXCEPT ![n].link = "up"]
  <2>1. /\ UNCHANGED << settings, client, main, closing, last, ok, session, status >>
        /\ conn[n].link = "telling" /\ Alive(n) /\ conn' = Send(up, client, m)
    BY <1>10 DEF Announce, bridge
  <2>2. /\ up \in [Clients -> Conn] /\ up[n].link = "up"
        /\ up[n].host = conn[n].host /\ up[n].will = conn[n].will
        /\ up[n].thread = conn[n].thread /\ up[n].queue = conn[n].queue
        /\ \A k \in Clients \ {n} : up[k] = conn[k]
    <3>1. up = [conn EXCEPT ![n] = [conn[n] EXCEPT !.link = "up"]]
      OBVIOUS
    <3>. QED  BY <3>1, Relinked
  <2>3. m \in Message /\ client \in 0..MaxClients
    BY <1>1 DEF TypeOK, Settings, Message, Bodies
  <2>4. client \in {0, n}
    BY <1>1, <2>1 DEF IInv, Place, Current
  <2> HIDE DEF m, up
  <2>5. /\ conn' \in [Clients -> Conn] /\ conn'[n].link = "up"
        /\ conn'[n].host = conn[n].host /\ conn'[n].will = conn[n].will
        /\ conn'[n].thread = conn[n].thread
        /\ conn'[n].queue = conn[n].queue \/ conn'[n].queue = Append(conn[n].queue, m)
    <3>. /\ Send(up, client, m) \in [Clients -> Conn]
         /\ Send(up, client, m)[n].host = up[n].host
         /\ Send(up, client, m)[n].will = up[n].will
         /\ Send(up, client, m)[n].thread = up[n].thread
         /\ Send(up, client, m)[n].link = up[n].link
         /\ \/ Send(up, client, m)[n].queue = up[n].queue
            \/ Send(up, client, m)[n].queue = Append(up[n].queue, m)
      BY <2>2, <2>3, SendFrame
    <3>. QED  BY <2>1, <2>2
  <2>6. \A k \in Clients \ {n} : conn'[k] = conn[k]
    <3>1. conn' = up \/ conn' = [up EXCEPT ![n].queue = Append(@, m)]
      BY <2>1, <2>4 DEF Send
    <3>. QED  BY <2>2, <3>1
  <2>7. OkIsConnected'
    BY <1>1, <2>1, <2>5 DEF OkIsConnected, Current
  <2>8. m.body = "online"
    BY DEF m
  <2>9. Bound(conn'[n].queue, conn[n].will)
    <3>1. CASE conn'[n].queue = conn[n].queue
      BY <1>4, <3>1
    <3>2. CASE conn'[n].queue = Append(conn[n].queue, m)
      BY <1>4, <2>3, <2>8, <3>2, QueueAppended
    <3>. QED  BY <2>5, <3>1, <3>2
  <2>. QED  BY <2>1, <2>5, <2>6, <2>7, <2>9, OneClient DEF Alive
<1>11. CASE Deliver(n)
  <2> DEFINE rest == Tail(conn[n].queue)
  <2>1. conn' = [conn EXCEPT ![n] = [conn[n] EXCEPT !.queue = rest]]
    BY <1>11 DEF Deliver
  <2>2. /\ UNCHANGED << settings, client, main, closing, last, ok, session >>
        /\ Alive(n) /\ conn[n].queue # << >>
    BY <1>11 DEF Deliver, bridge
  <2>3. rest \in Seq(Message) /\ Head(conn[n].queue) \in Message
    BY <2>2
  <2>4. Bound(rest, conn[n].will)
    <3>1. \A i \in DOMAIN rest : i + 1 \in DOMAIN conn[n].queue
                                 /\ rest[i] = conn[n].queue[i + 1]
      BY <2>2
    <3>. QED  BY <3>1 DEF Bound
  <2>5. status' \in [Hosts -> [Topics -> {"none", "online", "offline"}]]
    BY <1>11, <2>3, KeepType DEF Deliver
  <2> HIDE DEF rest
  <2>6. [conn[n] EXCEPT !.queue = rest] \in Conn
    BY <2>3 DEF Conn
  <2>7. /\ conn' \in [Clients -> Conn] /\ conn'[n].link = conn[n].link
        /\ conn'[n].host = conn[n].host /\ conn'[n].will = conn[n].will
        /\ conn'[n].thread = conn[n].thread /\ conn'[n].queue = rest
        /\ \A k \in Clients \ {n} : conn'[k] = conn[k]
    BY <2>1, <2>6 DEF Conn
  <2>8. OkIsConnected'
    BY <1>1, <2>2, <2>7 DEF OkIsConnected, Current
  <2>. QED  BY <2>2, <2>4, <2>5, <2>7, <2>8, OneClient DEF Alive
<1>12. CASE OnDisconnect(n)
  <2>1. conn' = [conn EXCEPT ![n] = [conn[n] EXCEPT !.link = "down", !.queue = << >>]]
    BY <1>12 DEF OnDisconnect
  <2>2. /\ UNCHANGED << settings, client, main, closing, last, session, status >>
        /\ ok' = FALSE /\ Alive(n)
    BY <1>12 DEF OnDisconnect
  <2>3. /\ conn' \in [Clients -> Conn] /\ conn'[n].link = "down"
        /\ conn'[n].host = conn[n].host /\ conn'[n].will = conn[n].will
        /\ conn'[n].thread = conn[n].thread /\ conn'[n].queue = << >>
        /\ \A k \in Clients \ {n} : conn'[k] = conn[k]
    BY <2>1, Closed
  <2>4. OkIsConnected'
    BY <2>2 DEF OkIsConnected
  <2>. QED  BY <2>2, <2>3, <2>4, OneClient DEF Alive
<1>13. CASE Exit(n)
  <2>1. conn' = [conn EXCEPT ![n] = [conn[n] EXCEPT !.thread = "ended"]]
    BY <1>13 DEF Exit
  <2>2. /\ UNCHANGED << settings, client, main, closing, last, ok, session, status >>
        /\ Alive(n)
    BY <1>13 DEF Exit, bridge, Alive
  <2>3. /\ conn' \in [Clients -> Conn] /\ conn'[n].link = conn[n].link
        /\ conn'[n].host = conn[n].host /\ conn'[n].will = conn[n].will
        /\ conn'[n].thread = "ended" /\ conn'[n].queue = conn[n].queue
        /\ \A k \in Clients \ {n} : conn'[k] = conn[k]
    BY <2>1, Ended
  <2>4. OkIsConnected'
    BY <1>1, <2>2, <2>3 DEF OkIsConnected, Current
  <2>. QED  BY <2>2, <2>3, <2>4, OneClient DEF Alive
<1>14. CASE Lose(n)
  <2>1. conn' = [conn EXCEPT ![n] = [conn[n] EXCEPT !.link = "lost"]]
    BY <1>14 DEF Lose
  <2>2. /\ UNCHANGED << settings, client, main, closing, last, ok, session, status >>
        /\ conn[n].link # "down"
    BY <1>14 DEF Lose, bridge
  <2>3. /\ conn' \in [Clients -> Conn] /\ conn'[n].link = "lost"
        /\ conn'[n].host = conn[n].host /\ conn'[n].will = conn[n].will
        /\ conn'[n].thread = conn[n].thread /\ conn'[n].queue = conn[n].queue
        /\ \A k \in Clients \ {n} : conn'[k] = conn[k]
    BY <2>1, Relinked
  <2>4. OkIsConnected'
    BY <1>1, <2>2, <2>3 DEF OkIsConnected, Current
  <2>. QED  BY <2>2, <2>3, <2>4, OneClient DEF Alive
<1>. QED  BY <1>6, <1>7, <1>8, <1>9, <1>10, <1>11, <1>12, <1>13, <1>14 DEF Thread

(* The end of a session and of a process.                                  *)
LEMMA WorldStep ==
    ASSUME IInv, Reboot \/ \E h \in Hosts : Expire(h)
    PROVE  IInv'
<1> USE MqttAssumption
<1>1. TypeOK /\ Place /\ OneThread /\ OneLink /\ OkIsConnected /\ RunsAsSet
  BY DEF IInv
<1>2. CASE Reboot
  <2>1. \A n \in Clients : conn[n] \in Conn
    BY <1>1 DEF TypeOK
  <2>2. << >> \in Seq(Message)
    OBVIOUS
  <2>3. \A n \in Clients :
           [conn[n] EXCEPT !.thread = "none", !.link = "down", !.queue = << >>] \in Conn
    BY <2>1, <2>2 DEF Conn
  <2>4. /\ conn' \in [Clients -> Conn]
        /\ \A n \in Clients : /\ conn'[n].thread = "none" /\ conn'[n].link = "down"
                              /\ conn'[n].queue = << >>
    BY <1>2, <2>1, <2>3 DEF Reboot, Conn
  <2>5. /\ ok' = FALSE /\ client' = 0 /\ main' = "start" /\ closing' = FALSE
        /\ settings' \in Settings /\ last < MaxClients
        /\ UNCHANGED << last, session, status >>
    BY <1>2 DEF Reboot
  <2>6. TypeOK'
    <3>1. last \in 0..MaxClients /\ 0 \in 0..last
      BY <1>1 DEF TypeOK
    <3>. QED  BY <1>1, <2>4, <2>5, <3>1 DEF TypeOK
  <2>7. (Place /\ OkIsConnected)'
    BY <2>5 DEF Place, OkIsConnected
  <2>8. (OneThread /\ OneLink)'
    BY <2>4 DEF OneThread, OneLink, Alive
  <2>9. RunsAsSet'
    BY <2>4, <2>5 DEF RunsAsSet
  <2>. QED  BY <2>6, <2>7, <2>8, <2>9 DEF IInv
<1>3. ASSUME NEW h \in Hosts, Expire(h) PROVE IInv'
  <2>1. session[h] \in Clients
    BY <1>1, <1>3 DEF TypeOK, Expire, Clients
  <2>2. Offline(conn[session[h]].will) \in Message
    BY <1>1, <2>1 DEF TypeOK, Conn, Offline, Message, Bodies
  <2>3. status' \in [Hosts -> [Topics -> {"none", "online", "offline"}]]
    BY <1>1, <1>3, <2>2, KeepType DEF TypeOK, Expire
  <2>4. session' \in [Hosts -> 0..last]
    BY <1>1, <1>3 DEF TypeOK, Expire
  <2>5. TypeOK'
    BY <1>1, <1>3, <2>3, <2>4 DEF TypeOK, Expire, bridge
  <2>6. (Place /\ OneThread /\ OneLink /\ OkIsConnected /\ RunsAsSet)'
    BY <1>1, <1>3
       DEF Expire, bridge, Place, OneThread, OneLink, OkIsConnected, RunsAsSet, Alive, Current
  <2>. QED  BY <2>5, <2>6 DEF IInv
<1>. QED  BY <1>2, <1>3

(* Every step keeps the invariant.                                         *)
LEMMA NextIInv == IInv /\ [Next]_vars => IInv'
<1>1. ASSUME IInv, Next PROVE IInv'
  BY <1>1, MainStep, ThreadStep, WorldStep DEF Next
<1>2. ASSUME IInv, UNCHANGED vars PROVE IInv'
  <2>1. TypeOK' /\ Place'
    BY <1>2 DEF IInv, TypeOK, Place, vars, bridge
  <2>2. (OneThread /\ OneLink /\ OkIsConnected /\ RunsAsSet)'
    BY <1>2 DEF IInv, OneThread, OneLink, OkIsConnected, RunsAsSet, Alive, Current, vars, bridge
  <2>. QED  BY <2>1, <2>2 DEF IInv
<1>. QED  BY <1>1, <1>2

LEMMA Invariance == Spec => []IInv
BY InitIInv, NextIInv, PTL DEF Spec

-----------------------------------------------------------------------------
(* The state of the bridge is well typed (mqtt_bridge.py, 32-36).          *)
THEOREM TypeCorrect == Spec => []TypeOK
<1>1. IInv => TypeOK
  BY DEF IInv
<1>. QED  BY <1>1, Invariance, PTL

(* No thread outlives its client (mqtt_bridge.py, 93-104).                 *)
THEOREM OneThreadRuns == Spec => []OneThread
<1>1. IInv => OneThread
  BY DEF IInv
<1>. QED  BY <1>1, Invariance, PTL

(* `ok` is that of the connection the bridge has (mqtt_bridge.py,          *)
(* 103-116).                                                               *)
THEOREM OkIsHonest == Spec => []OkIsConnected
<1>1. IInv => OkIsConnected
  BY DEF IInv
<1>. QED  BY <1>1, Invariance, PTL

(* The bridge runs with the settings in force (mqtt_bridge.py, 38-51).     *)
THEOREM SettingsTakeEffect == Spec => []RunsAsSet
<1>1. IInv => RunsAsSet
  BY DEF IInv
<1>. QED  BY <1>1, Invariance, PTL

-----------------------------------------------------------------------------
\* A loss is noticed.

\* A client with a connection, or one just lost, has its thread, and that thread
\* is told to end by the stop that waits for it.
Joining ==
    \A n \in Clients :
        /\ conn[n].link # "down" => conn[n].thread # "none"
        /\ n = Current => (main = "join" <=> conn[n].thread \in {"stopping", "ended"})

(* The invariant holds at first (mqtt_bridge.py, 32-36).                   *)
LEMMA InitJoining == Init => Joining
<1> SUFFICES ASSUME Init, NEW n \in Clients
             PROVE  conn[n].link = "down" /\ n # Current
  BY DEF Joining
<1>. QED  BY DEF Init, Absent, Current, Clients

(* The event loop's thread keeps it (mqtt_bridge.py, 53-104).              *)
LEMMA MainJoining ==
    ASSUME IInv, Joining, Main \/ Shutdown \/ Publish \/ \E s \in Settings : Bind(s)
    PROVE  Joining'
<1> USE MqttAssumption
<1>1. TypeOK /\ Place /\ OneLink
  BY DEF IInv
<1>2. CASE Shutdown \/ StartOff \/ StartFails \/ Assign \/ \E s \in Settings : Bind(s)
  BY <1>1, <1>2 DEF Joining, Place, Current, Shutdown, StartOff, StartFails, Assign, Bind
<1>3. CASE Publish
  <2>1. main = "idle" /\ UNCHANGED << main, client, last >> /\ client \in 0..MaxClients
    BY <1>1, <1>3 DEF Publish, bridge, TypeOK
  <2>2. [topic |-> settings.topic, body |-> "data"] \in Message
    BY <1>1 DEF TypeOK, Settings, Message, Bodies
  <2>3. \A n \in Clients : conn'[n].link = conn[n].link /\ conn'[n].thread = conn[n].thread
    BY <1>1, <1>3, <2>1, <2>2, SendFrame DEF Publish, TypeOK
  <2>. QED  BY <2>1, <2>3 DEF Joining, Current
<1>4. CASE Stop
  <2>1. CASE client = 0
    BY <1>1, <1>4, <2>1 DEF Stop, Joining, Current, Clients
  <2>2. CASE client # 0
    <3>1. client \in Clients /\ client \in 0..MaxClients
      BY <1>1, <2>2 DEF TypeOK, Clients
    <3> DEFINE sent == Send(conn, client, Offline(settings.topic))
    <3>2. Offline(settings.topic) \in Message
      BY <1>1 DEF TypeOK, Settings, Message, Offline, Bodies
    <3>3. /\ sent \in [Clients -> Conn]
          /\ \A n \in Clients : sent[n].link = conn[n].link /\ sent[n].thread = conn[n].thread
      BY <1>1, <3>1, <3>2, SendFrame DEF TypeOK
    <3> HIDE DEF sent
    <3>4. conn' = [sent EXCEPT ![client].thread = "stopping"] /\ main' = "join"
      BY <1>4, <2>2 DEF Stop, sent
    <3>5. /\ conn'[client].thread = "stopping" /\ Current' = client
          /\ \A n \in Clients : /\ conn'[n].link = conn[n].link
                                /\ conn'[n].thread \in {conn[n].thread, "stopping"}
      BY <1>4, <3>1, <3>3, <3>4 DEF Conn, Stop, Current
    <3>. QED  BY <3>4, <3>5 DEF Joining
  <2>. QED  BY <2>1, <2>2
<1>5. CASE Joined
  <2>1. Current' = 0
    BY <1>5 DEF Joined, Current
  <2>2. \A n \in Clients : conn'[n].link # "down" => conn'[n] = conn[n]
    BY <1>1, <1>5 DEF Joined, TypeOK, Conn
  <2>. QED  BY <2>1, <2>2 DEF Joining, Clients
<1>6. CASE Start
  <2>1. last + 1 \in Clients /\ Current' = last + 1 /\ main' = "assign"
    BY <1>1, <1>6 DEF TypeOK, Place, Start, Clients, Current
  <2>2. /\ conn'[last + 1].thread = "running"
        /\ \A n \in Clients \ {last + 1} : conn'[n] = conn[n]
    BY <1>1, <1>6, <2>1 DEF TypeOK, Start
  <2>. QED  BY <2>1, <2>2 DEF Joining
<1>. QED  BY <1>2, <1>3, <1>4, <1>5, <1>6 DEF Main

(* The thread of a client, the network, the broker and the machine keep it *)
(* (mqtt_bridge.py, 93-116).                                               *)
LEMMA ThreadJoining ==
    ASSUME IInv, Joining, NEW n \in Clients, Dial(n) \/ Thread(n) \/ Lose(n)
    PROVE  Joining'
<1>1. TypeOK
  BY DEF IInv
<1>2. Current' = Current /\ main' = main
  <2>1. UNCHANGED << client, main, last >>
    <3>1. CASE Dial(n) \/ Lose(n)
      BY <3>1 DEF Dial, Lose, bridge
    <3>2. CASE Accepted(n) \/ Announce(n) \/ Deliver(n) \/ Exit(n)
      BY <3>2 DEF Accepted, Announce, Deliver, Exit, bridge
    <3>3. CASE Refused(n) \/ OnConnect(n) \/ OnDisconnect(n)
      BY <3>3 DEF Refused, OnConnect, OnDisconnect
    <3>. QED  BY <3>1, <3>2, <3>3 DEF Thread
  <2>. QED  BY <2>1 DEF Current
<1>3. CASE Announce(n)
  <2> DEFINE m == [topic |-> settings.topic, body |-> "online"]
             up == [conn EXCEPT ![n].link = "up"]
  <2>1. m \in Message /\ client \in 0..MaxClients /\ conn' = Send(up, client, m)
    BY <1>1, <1>3, MqttAssumption DEF Announce, TypeOK, Settings, Message, Bodies
  <2>2. /\ up \in [Clients -> Conn] /\ up[n].thread = conn[n].thread
        /\ \A k \in Clients \ {n} : up[k] = conn[k]
    BY <1>1 DEF TypeOK, Conn
  <2> HIDE DEF m, up
  <2>3. \A k \in Clients : conn'[k].link = up[k].link /\ conn'[k].thread = up[k].thread
    BY <2>1, <2>2, SendFrame
  <2>4. \A k \in Clients : /\ conn'[k].thread = conn[k].thread
                           /\ k # n => conn'[k].link = conn[k].link
    BY <2>2, <2>3
  <2>5. conn[n].thread # "none"
    BY <1>3 DEF Announce, Alive
  <2>. QED  BY <1>2, <2>4, <2>5 DEF Joining
<1>4. CASE Exit(n)
  <2>1. /\ conn[n].thread = "stopping" /\ conn'[n].link = conn[n].link
        /\ conn'[n].thread = "ended"
        /\ \A k \in Clients \ {n} : conn'[k] = conn[k]
    BY <1>1, <1>4 DEF Exit, TypeOK, Conn
  <2>. QED  BY <1>2, <2>1 DEF Joining
<1>5. CASE ~Announce(n) /\ ~Exit(n)
  <2> DEFINE Same == /\ conn'[n].thread = conn[n].thread
                     /\ conn'[n].link # "down" => conn[n].link # "down" \/ Alive(n)
                     /\ \A k \in Clients \ {n} : conn'[k] = conn[k]
  <2>1. conn[n] \in Conn
    BY <1>1 DEF TypeOK
  <2>2. ASSUME Dial(n) \/ Lose(n) PROVE Same
    BY <1>1, <2>1, <2>2 DEF Dial, Lose, TypeOK, Conn, Alive
  <2>3. ASSUME Accepted(n) PROVE Same
    BY <1>1, <2>1, <2>3 DEF Accepted, TypeOK, Conn
  <2>4. ASSUME Refused(n) \/ OnConnect(n) PROVE Same
    BY <1>1, <2>1, <2>4 DEF Refused, OnConnect, TypeOK, Conn
  <2>5. ASSUME Deliver(n) \/ OnDisconnect(n) PROVE Same
    BY <1>1, <2>1, <2>5 DEF Deliver, OnDisconnect, TypeOK, Conn
  <2>6. Same
    BY <1>5, <2>2, <2>3, <2>4, <2>5 DEF Thread
  <2>. QED  BY <1>2, <2>6 DEF Joining, Alive
<1>. QED  BY <1>3, <1>4, <1>5

(* The invariant holds in every state (mqtt_bridge.py, 53-116).            *)
LEMMA JoiningInv == Spec => [](IInv /\ Joining)
<1>1. ASSUME IInv, Joining, Reboot PROVE Joining'
  <2>1. Current' = 0
    BY <1>1 DEF Reboot, Current
  <2>2. \A n \in Clients : conn'[n].link = "down"
    BY <1>1 DEF Reboot, IInv, TypeOK, Conn
  <2>. QED  BY <2>1, <2>2 DEF Joining, Clients
<1>2. ASSUME IInv, Joining, NEW h \in Hosts, Expire(h) PROVE Joining'
  BY <1>2 DEF Expire, bridge, Joining, Current
<1>3. ASSUME IInv, Joining, UNCHANGED vars PROVE Joining'
  BY <1>3 DEF vars, bridge, Joining, Current
<1>4. IInv /\ Joining /\ [Next]_vars => Joining'
  BY <1>1, <1>2, <1>3, MainJoining, ThreadJoining DEF Next
<1>. QED  BY <1>4, InitJoining, Invariance, PTL DEF Spec

\* What the prover cannot see: the event loop's thread gets on with a stop and a
\* start, returning from the join of a thread that has ended; a thread told to end
\* or that has lost its connection can do something about it.
MainReady ==
    \/ main \in {"stop", "start", "assign"}
    \/ main = "join" /\ conn[client].thread = "ended"

ThreadReady(n) ==
    \/ conn[n].thread = "stopping"
    \/ conn[n].thread = "running" /\ conn[n].link = "lost"

MainEnabled      == [](MainReady => ENABLED <<Main>>_vars)
ThreadEnabled(n) == [](ThreadReady(n) => ENABLED <<Thread(n)>>_vars)

ThreadsEnabled == MainEnabled /\ \A n \in Clients : ThreadEnabled(n)

(* Until its thread or the stop that joined it deals with it, a loss       *)
(* stands, unless the process ends (mqtt_bridge.py, 93-116).               *)
LEMMA LossStands ==
    ASSUME IInv, Joining, NEW n \in Clients, conn[n].link = "lost", [Next]_vars
    PROVE  \/ ~ok'
           \/ /\ conn'[n].link = "lost"
              /\ conn[n].thread = "ended" => conn'[n].thread = "ended"
              /\ Alive(n) => Alive(n)'
<1> DEFINE Goal == \/ ~ok'
                   \/ /\ conn'[n].link = "lost"
                      /\ conn[n].thread = "ended" => conn'[n].thread = "ended"
                      /\ Alive(n) => Alive(n)'
<1>1. TypeOK /\ Place /\ n = Current /\ conn[n] \in Conn
  BY DEF IInv, OneLink, TypeOK
<1>2. conn[n].thread \in {"running", "stopping", "ended"}
  BY <1>1 DEF Joining, Conn
<1>3. CASE Stop
  <2>1. client = n /\ main = "stop"
    BY <1>1, <1>3, MqttAssumption DEF Stop, Place, Current
  <2>2. Alive(n) /\ client \in 0..MaxClients /\ client # 0
    BY <1>1, <1>2, <2>1 DEF Joining, Alive, Clients
  <2> DEFINE sent == Send(conn, client, Offline(settings.topic))
  <2>3. Offline(settings.topic) \in Message
    BY <1>1 DEF TypeOK, Settings, Message, Offline, Bodies
  <2>4. sent \in [Clients -> Conn] /\ sent[n].link = conn[n].link
    BY <1>1, <2>2, <2>3, SendFrame DEF TypeOK
  <2> HIDE DEF sent
  <2>5. conn' = [sent EXCEPT ![client].thread = "stopping"]
    BY <1>3, <2>2 DEF Stop, sent
  <2>6. conn'[n].link = conn[n].link /\ conn'[n].thread = "stopping"
    BY <2>1, <2>4, <2>5 DEF Conn
  <2>. QED  BY <2>2, <2>6 DEF Alive
<1>4. CASE Publish
  <2>1. client \in 0..MaxClients /\ [topic |-> settings.topic, body |-> "data"] \in Message
    BY <1>1, MqttAssumption DEF TypeOK, Settings, Message, Bodies
  <2>2. conn'[n].link = conn[n].link /\ conn'[n].thread = conn[n].thread
    BY <1>1, <1>4, <2>1, SendFrame DEF Publish, TypeOK
  <2>. QED  BY <2>2 DEF Alive
<1>5. CASE Joined \/ Reboot
  BY <1>5 DEF Joined, Reboot
<1>6. ~Start
  BY <1>1 DEF Start, Place, Current, Clients
<1>7. CASE \/ Shutdown \/ StartOff \/ StartFails \/ Assign
           \/ \E s \in Settings : Bind(s)
           \/ \E h \in Hosts : Expire(h)
  <2>1. conn' = conn
    BY <1>7 DEF Shutdown, StartOff, StartFails, Assign, Bind, Expire
  <2>. QED  BY <2>1 DEF Alive
<1>8. ASSUME NEW k \in Clients, Dial(k) \/ Thread(k) \/ Lose(k) PROVE Goal
  <2>1. k = n
    <3>1. CASE Dial(k) \/ Thread(k)
      <4>1. Alive(k)
        BY <3>1 DEF Thread, Dial, Accepted, Refused, OnConnect, Announce, Deliver,
                    OnDisconnect, Exit, Alive
      <4>. QED  BY <1>1, <4>1 DEF IInv, OneThread
    <3>2. CASE Lose(k)
      BY <1>1, <3>2 DEF Lose, IInv, OneLink
    <3>. QED  BY <1>8, <3>1, <3>2
  <2>2. OnDisconnect(n)
    BY <1>8, <2>1 DEF Thread, Dial, Lose, Accepted, Refused, OnConnect, Announce, Deliver, Exit
  <2>. QED  BY <2>2 DEF OnDisconnect
<1>9. CASE UNCHANGED vars
  BY <1>9 DEF vars, Alive
<1>. QED  BY <1>3, <1>4, <1>5, <1>6, <1>7, <1>8, <1>9 DEF Next, Main

(***************************************************************************)
(* A lost connection shows in `ok`, also one that is lost while the bridge *)
(* is told to stop and waits for the thread (mqtt_bridge.py, 93-116).      *)
(***************************************************************************)
THEOREM LossShows == FairSpec /\ ThreadsEnabled => LossIsNoticed
<1> SUFFICES ASSUME NEW n \in Clients
             PROVE  FairSpec /\ ThreadsEnabled
                       => (conn[n].link = "lost" ~> ~ok \/ conn[n].link \in Connected)
  BY DEF LossIsNoticed
<1> DEFINE Lost    == conn[n].link = "lost"
           Noticed == ~ok
           Live    == Alive(n)
           Over    == conn[n].thread = "ended"
           Joins   == main = "join" /\ conn[client].thread = "ended"
           Back    == conn[n].link \in Connected
<1>1. FairSpec /\ ThreadsEnabled
         => Spec /\ MainRuns /\ ThreadRuns(n) /\ MainEnabled /\ ThreadEnabled(n)
  BY DEF FairSpec, Fairness, ThreadsEnabled
<1>2. IInv /\ Joining /\ Lost => Live \/ Over
  BY DEF IInv, TypeOK, Joining, Conn, Alive
<1>3. IInv /\ Joining /\ Lost /\ [Next]_vars
         => Noticed' \/ (Lost' /\ (Over => Over') /\ (Live => Live'))
  BY LossStands
<1>4. IInv /\ Joining /\ Lost /\ Over => Joins
  BY DEF IInv, OneLink, Joining, Current
<1>5. IInv /\ Joining /\ Lost /\ <<Thread(n)>>_vars => Noticed'
  BY DEF Thread, Accepted, Refused, OnConnect, Announce, Deliver, OnDisconnect, Exit
<1>6. Joins /\ <<Main>>_vars => Noticed'
  BY DEF Main, Stop, Joined, StartOff, Start, Assign, StartFails
<1>7. Joins => MainReady
  BY DEF MainReady
<1>8. Live /\ Lost => ThreadReady(n)
  BY DEF ThreadReady, Alive
<1> HIDE DEF Lost, Noticed, Live, Over, Joins, Back
<1>9. Spec /\ MainRuns /\ ThreadRuns(n) /\ MainEnabled /\ ThreadEnabled(n)
         => (Lost ~> Noticed \/ Back)
  BY <1>2, <1>3, <1>4, <1>5, <1>6, <1>7, <1>8, JoiningInv, PTL
     DEF Spec, MainRuns, ThreadRuns, MainEnabled, ThreadEnabled
<1>. QED  BY <1>1, <1>9 DEF Lost, Noticed, Back


-----------------------------------------------------------------------------
\* A stop ends.

\* The bridge waits for the thread of client n, which has been told to end.
Waits(n) == main = "join" /\ client = n /\ conn[n].thread = "stopping"

\* What is left for the thread: the way of its connection down, and its queue. An
\* announcement comes with one message more.
Way     == [down |-> 0, lost |-> 1, up |-> 2, telling |-> 3, greeted |-> 4, dialing |-> 5]
Work(n) == 2 * Way[conn[n].link] + Len(conn[n].queue)

(* The thread has a bounded amount of work left, and whatever it does, and *)
(* a loss of the connection, makes it less (mqtt_bridge.py, 93-116).       *)
LEMMA WorkStep ==
    ASSUME IInv, Joining, NEW n \in Clients, Waits(n), [Next]_vars
    PROVE  /\ Work(n) \in Nat
           /\ \/ Waits(n)' /\ Work(n)' \in Nat /\ Work(n)' <= Work(n)
              \/ main' = "join" /\ client' = n /\ conn'[n].thread = "ended"
              \/ main' = "start"
           /\ <<Thread(n)>>_vars => \/ Waits(n)' /\ Work(n)' < Work(n)
                                    \/ main' = "join" /\ client' = n /\ conn'[n].thread = "ended"
<1> DEFINE Less == Waits(n)' /\ Work(n)' \in Nat /\ Work(n)' < Work(n)
           Done == main' = "join" /\ client' = n /\ conn'[n].thread = "ended"
           Kept == Waits(n)' /\ Work(n)' = Work(n)
<1>1. TypeOK /\ conn[n] \in Conn /\ conn \in [Clients -> Conn] /\ Current = n
  BY DEF IInv, TypeOK, Waits, Current
<1>2. Len(conn[n].queue) \in Nat /\ Work(n) \in Nat
  BY <1>1 DEF Conn, Way, Work
<1>3. ASSUME conn' \in [Clients -> Conn], UNCHANGED << main, client >>,
             conn'[n].thread = "stopping", conn'[n].link \in DOMAIN Way,
             2 * Way[conn'[n].link] + Len(conn'[n].queue) < Work(n)
      PROVE  Less
  <2>1. Len(conn'[n].queue) \in Nat
    BY <1>3 DEF Conn
  <2>. QED  BY <1>3, <2>1 DEF Waits, Work, Way
<1>4. ASSUME Thread(n) \/ Lose(n) PROVE Less \/ Done
  <2>1. CASE Accepted(n) \/ Refused(n) \/ OnConnect(n) \/ Lose(n)
    <3>1. ASSUME NEW l \in {"down", "lost", "telling", "greeted"},
                 conn' = [conn EXCEPT ![n] = [conn[n] EXCEPT !.link = l]],
                 UNCHANGED << main, client >>, Way[l] < Way[conn[n].link]
          PROVE  Less
      <4> DEFINE d == [conn[n] EXCEPT !.link = l]
      <4>1. d \in Conn /\ d.link = l /\ d.thread = conn[n].thread /\ d.queue = conn[n].queue
        <5>1. l \in {"down", "dialing", "greeted", "telling", "up", "lost"}
          OBVIOUS
        <5>. QED  BY <1>1, <5>1, Relinked
      <4>2. conn' = [conn EXCEPT ![n] = d]
        BY <3>1
      <4> HIDE DEF d
      <4>3. /\ conn' \in [Clients -> Conn] /\ conn'[n].link = l
            /\ conn'[n].thread = conn[n].thread /\ conn'[n].queue = conn[n].queue
        BY <1>1, <4>1, <4>2
      <4>4. l \in DOMAIN Way /\ Way[l] \in Nat /\ Way[conn[n].link] \in Nat
        BY <1>1 DEF Conn, Way
      <4>. QED  BY <1>2, <1>3, <3>1, <4>3, <4>4 DEF Waits, Work
    <3>2. CASE Accepted(n)
      BY <3>1, <3>2 DEF Accepted, bridge, Way
    <3>3. CASE Refused(n)
      BY <3>1, <3>3 DEF Refused, Way
    <3>4. CASE OnConnect(n)
      BY <3>1, <3>4 DEF OnConnect, Way
    <3>5. CASE Lose(n)
      <4>1. Way["lost"] < Way[conn[n].link]
        BY <3>5 DEF Lose, Way
      <4>. QED  BY <3>1, <3>5, <4>1 DEF Lose, bridge
    <3>. QED  BY <2>1, <3>2, <3>3, <3>4, <3>5
  <2>2. CASE Announce(n)
    <3> DEFINE m == [topic |-> settings.topic, body |-> "online"]
               up == [conn EXCEPT ![n].link = "up"]
    <3>1. m \in Message /\ conn' = Send(up, n, m) /\ conn[n].link = "telling"
      BY <1>1, <2>2 DEF Announce, Waits, TypeOK, Settings, Message, Bodies
    <3>2. /\ up \in [Clients -> Conn] /\ up[n].link = "up"
          /\ up[n].thread = conn[n].thread /\ up[n].queue = conn[n].queue
      <4>1. up = [conn EXCEPT ![n] = [conn[n] EXCEPT !.link = "up"]]
        OBVIOUS
      <4>. QED  BY <1>1, <4>1, Relinked
    <3> HIDE DEF m, up
    <3>3. n \in 0..MaxClients
      BY MqttAssumption DEF Clients
    <3>4. /\ conn' \in [Clients -> Conn] /\ conn'[n].link = "up"
          /\ conn'[n].thread = conn[n].thread
          /\ \/ conn'[n].queue = conn[n].queue
             \/ conn'[n].queue = Append(conn[n].queue, m)
      <4>. /\ Send(up, n, m) \in [Clients -> Conn]
           /\ Send(up, n, m)[n].thread = up[n].thread
           /\ Send(up, n, m)[n].link = up[n].link
           /\ \/ Send(up, n, m)[n].queue = up[n].queue
              \/ Send(up, n, m)[n].queue = Append(up[n].queue, m)
        BY <3>1, <3>2, <3>3, SendFrame
      <4>. QED  BY <3>1, <3>2
    <3>5. Len(conn'[n].queue) <= Len(conn[n].queue) + 1
      BY <1>1, <1>2, <3>1, <3>4 DEF Conn
    <3>6. UNCHANGED << main, client >>
      BY <2>2 DEF Announce, bridge
    <3>7. Len(conn'[n].queue) \in Nat
      BY <3>4 DEF Conn
    <3>. QED  BY <1>2, <1>3, <3>1, <3>4, <3>5, <3>6, <3>7 DEF Waits, Work, Way
  <2>3. CASE Deliver(n)
    <3> DEFINE rest == Tail(conn[n].queue)
    <3>1. /\ conn' = [conn EXCEPT ![n] = [conn[n] EXCEPT !.queue = rest]]
          /\ conn[n].queue # << >> /\ UNCHANGED << main, client >>
      BY <2>3 DEF Deliver, bridge
    <3>2. conn[n].queue \in Seq(Message)
      BY <1>1 DEF Conn
    <3>3. rest \in Seq(Message) /\ Len(rest) = Len(conn[n].queue) - 1
      BY <3>1, <3>2
    <3> HIDE DEF rest
    <3>4. [conn[n] EXCEPT !.queue = rest] \in Conn
      BY <1>1, <3>3 DEF Conn
    <3>5. /\ conn' \in [Clients -> Conn] /\ conn'[n].link = conn[n].link
          /\ conn'[n].thread = conn[n].thread /\ conn'[n].queue = rest
      BY <1>1, <3>1, <3>4 DEF Conn
    <3>6. conn[n].link \in DOMAIN Way /\ Way[conn[n].link] \in Nat
      BY <1>1 DEF Conn, Way
    <3>. QED  BY <1>2, <1>3, <3>1, <3>3, <3>5, <3>6 DEF Waits, Work
  <2>4. CASE OnDisconnect(n)
    <3>1. /\ conn' = [conn EXCEPT ![n] = [conn[n] EXCEPT !.link = "down", !.queue = << >>]]
          /\ conn[n].link = "lost" /\ UNCHANGED << main, client >>
      BY <2>4 DEF OnDisconnect
    <3>2. /\ conn' \in [Clients -> Conn] /\ conn'[n].link = "down"
          /\ conn'[n].thread = conn[n].thread /\ conn'[n].queue = << >>
      BY <1>1, <3>1, Closed
    <3>. QED  BY <1>2, <1>3, <3>1, <3>2 DEF Waits, Work, Way
  <2>5. CASE Exit(n)
    BY <1>1, <2>5 DEF Exit, Waits, Conn, bridge
  <2>. QED  BY <1>4, <2>1, <2>2, <2>3, <2>4, <2>5 DEF Thread
<1>5. ASSUME NEW k \in Clients, Dial(k) \/ Thread(k) \/ Lose(k) PROVE Thread(n) \/ Lose(n)
  <2>1. k = n
    <3>1. CASE Dial(k) \/ Thread(k)
      <4>1. Alive(k)
        BY <3>1 DEF Thread, Dial, Accepted, Refused, OnConnect, Announce, Deliver,
                    OnDisconnect, Exit, Alive
      <4>. QED  BY <1>1, <4>1 DEF IInv, OneThread
    <3>2. CASE Lose(k)
      BY <1>1, <3>2 DEF Lose, IInv, OneLink
    <3>. QED  BY <1>5, <3>1, <3>2
  <2>. QED  BY <1>5, <2>1 DEF Dial, Waits
<1>6. /\ ~Main /\ ~Publish /\ ~Shutdown
      /\ \A s \in Settings : ~Bind(s)
  BY DEF Waits, Main, Stop, Joined, StartOff, Start, Assign, StartFails, Publish, Shutdown, Bind
<1>7. CASE Reboot
  BY <1>2, <1>4, <1>7 DEF Reboot
<1>8. ASSUME UNCHANGED vars \/ \E h \in Hosts : Expire(h) PROVE Kept
  BY <1>8 DEF Expire, vars, bridge, Waits, Work
<1>9. Kept \/ Less \/ Done \/ main' = "start"
  BY <1>4, <1>5, <1>6, <1>7, <1>8 DEF Next, Reboot
<1>. QED  BY <1>2, <1>4, <1>9


\* The event loop's thread starts a client, and the clients it can still make.
Trying == main \in {"start", "assign"}
Left   == MaxClients - last

(* A start comes to an idle bridge, makes one client more or is overtaken  *)
(* by the end of the process, behind which it begins again                 *)
(* (mqtt_bridge.py, 53-91).                                                *)
LEMMA StartStep ==
    ASSUME IInv, Trying, [Next]_vars
    PROVE  /\ Left \in Nat
           /\ (Trying' /\ Left' \in Nat /\ Left' <= Left) \/ main' = "idle"
           /\ main = "assign" => \/ main' = "assign" /\ Left' = Left
                                 \/ main' = "start" /\ Left' = Left
                                 \/ main' = "idle"
           /\ main = "start" => \/ main' = "start" /\ Left' = Left
                                \/ Trying' /\ Left' < Left
                                \/ main' = "idle"
           /\ <<Main>>_vars => \/ main' = "idle"
                               \/ main = "start" /\ Trying' /\ Left' < Left
<1> USE MqttAssumption DEF Trying, Left
<1>1. last \in 0..MaxClients /\ (main = "start" => last < MaxClients)
  BY DEF IInv, TypeOK, Place
<1>2. CASE Main
  BY <1>1, <1>2 DEF Main, Stop, Joined, StartOff, Start, Assign, StartFails
<1>3. ASSUME ~Main PROVE UNCHANGED last /\ (UNCHANGED main \/ main' = "start")
  <2>1. CASE \/ Publish \/ Shutdown \/ (\E s \in Settings : Bind(s)) \/ Reboot
             \/ (\E h \in Hosts : Expire(h)) \/ UNCHANGED vars
    BY <2>1 DEF Publish, Shutdown, Bind, Reboot, Expire, vars, bridge
  <2>2. ASSUME NEW n \in Clients, Dial(n) \/ Thread(n) \/ Lose(n)
        PROVE  UNCHANGED << last, main >>
    <3>1. CASE Dial(n) \/ Lose(n)
      BY <3>1 DEF Dial, Lose, bridge
    <3>2. CASE Accepted(n) \/ Announce(n) \/ Deliver(n) \/ Exit(n)
      BY <3>2 DEF Accepted, Announce, Deliver, Exit, bridge
    <3>3. CASE Refused(n) \/ OnConnect(n) \/ OnDisconnect(n)
      BY <3>3 DEF Refused, OnConnect, OnDisconnect
    <3>. QED  BY <2>2, <3>1, <3>2, <3>3 DEF Thread
  <2>. QED  BY <1>3, <2>1, <2>2 DEF Next
<1>. QED  BY <1>1, <1>2, <1>3

(* A stop keeps its client until it joins the thread, and then the thread  *)
(* it joins (mqtt_bridge.py, 93-104).                                      *)
LEMMA StopStep ==
    ASSUME IInv, Joining, NEW n \in 0..MaxClients, client = n, main = "stop", [Next]_vars
    PROVE  /\ \/ main' = "stop" /\ client' = n
              \/ main' = "join" /\ client' = n
              \/ main' \in {"start", "ended"}
           /\ <<Main>>_vars => main' # "stop"
           /\ n = 0 => main' # "join"
<1>1. CASE Main
  BY <1>1 DEF Main, Stop, Joined, StartOff, Start, Assign, StartFails
<1>2. ASSUME ~Main PROVE UNCHANGED << client, main >> \/ main' = "start"
  <2>1. CASE \/ Publish \/ Shutdown \/ (\E s \in Settings : Bind(s)) \/ Reboot
             \/ (\E h \in Hosts : Expire(h)) \/ UNCHANGED vars
    BY <2>1 DEF Publish, Shutdown, Bind, Reboot, Expire, vars, bridge
  <2>2. ASSUME NEW k \in Clients, Dial(k) \/ Thread(k) \/ Lose(k)
        PROVE  UNCHANGED << client, main >>
    <3>1. CASE Dial(k) \/ Lose(k)
      BY <3>1 DEF Dial, Lose, bridge
    <3>2. CASE Accepted(k) \/ Announce(k) \/ Deliver(k) \/ Exit(k)
      BY <3>2 DEF Accepted, Announce, Deliver, Exit, bridge
    <3>3. CASE Refused(k) \/ OnConnect(k) \/ OnDisconnect(k)
      BY <3>3 DEF Refused, OnConnect, OnDisconnect
    <3>. QED  BY <2>2, <3>1, <3>2, <3>3 DEF Thread
  <2>. QED  BY <1>2, <2>1, <2>2 DEF Next
<1>. QED  BY <1>1, <1>2

(* Behind the end of the thread joined, only the stop goes on.             *)
LEMMA JoinedStep ==
    ASSUME IInv, Joining, NEW n \in Clients, client = n, main = "join",
           conn[n].thread = "ended", [Next]_vars
    PROVE  /\ \/ main' = "join" /\ client' = n /\ conn'[n].thread = "ended"
              \/ main' \in {"start", "ended"}
           /\ <<Main>>_vars => main' # "join"
<1>1. CASE Main
  BY <1>1 DEF Main, Stop, Joined, StartOff, Start, Assign, StartFails
<1>2. ASSUME \/ Publish \/ Shutdown \/ (\E s \in Settings : Bind(s)) \/ Reboot
             \/ (\E h \in Hosts : Expire(h)) \/ UNCHANGED vars
      PROVE  \/ main' = "join" /\ client' = n /\ conn'[n].thread = "ended"
             \/ main' = "start"
  BY <1>2 DEF Publish, Shutdown, Bind, Reboot, Expire, vars, bridge
<1>3. ASSUME NEW k \in Clients, Dial(k) \/ Thread(k) PROVE FALSE
  <2>1. Alive(k)
    BY <1>3 DEF Thread, Dial, Accepted, Refused, OnConnect, Announce, Deliver,
                OnDisconnect, Exit, Alive
  <2>2. k = n
    BY <2>1 DEF IInv, OneThread, Current
  <2>. QED  BY <2>1, <2>2 DEF Alive
<1>4. ASSUME NEW k \in Clients, Lose(k)
      PROVE  main' = "join" /\ client' = n /\ conn'[n].thread = "ended"
  BY <1>4 DEF Lose, bridge, IInv, TypeOK, Conn
<1>. QED  BY <1>1, <1>2, <1>3, <1>4 DEF Next


\* What the prover cannot do, an induction in a temporal formula: work that only
\* becomes less comes to an end, and so do starts that use up the clients.
Shrinks(n, k)  == Waits(n) /\ Work(n) = k ~> (Waits(n) /\ Work(n) < k) \/ ~Waits(n)
WorkEnds(n)    == Waits(n) ~> ~Waits(n)
WorkRunsOut(n) ==
    [](Waits(n) => Work(n) \in Nat) /\ (\A k \in Nat : Shrinks(n, k)) => WorkEnds(n)

Fewer(k)       == Trying /\ Left = k ~> (Trying /\ Left < k) \/ ~Trying
StartsEnd      == Trying ~> ~Trying
StartsRunOut   == [](Trying => Left \in Nat) /\ (\A k \in Nat : Fewer(k)) => StartsEnd

Inductions == StartsRunOut /\ \A n \in Clients : WorkRunsOut(n)

(* The thread that is waited for gets on with its work.                    *)
LEMMA WorkGoesOn ==
    ASSUME NEW n \in Clients, NEW k \in Nat
    PROVE  FairSpec /\ ThreadsEnabled => Shrinks(n, k)
<1> DEFINE Busy == Waits(n)
           Now  == Work(n) = k
           Less == Work(n) < k
           Over == ~Waits(n)
<1>1. FairSpec /\ ThreadsEnabled => Spec /\ ThreadRuns(n) /\ ThreadEnabled(n)
  BY DEF FairSpec, Fairness, ThreadsEnabled
<1>2. Busy => ThreadReady(n)
  BY DEF Waits, ThreadReady
<1>3. IInv /\ Joining /\ Busy /\ Now /\ [Next]_vars
         => /\ (Busy' /\ Now') \/ (Busy' /\ Less') \/ Over'
            /\ <<Thread(n)>>_vars => (Busy' /\ Less') \/ Over'
  <2> SUFFICES ASSUME IInv, Joining, Busy, Now, [Next]_vars
               PROVE  /\ (Busy' /\ Now') \/ (Busy' /\ Less') \/ Over'
                      /\ <<Thread(n)>>_vars => (Busy' /\ Less') \/ Over'
    OBVIOUS
  <2>1. /\ \/ Waits(n)' /\ Work(n)' \in Nat /\ Work(n)' <= k
           \/ main' = "join" /\ client' = n /\ conn'[n].thread = "ended"
           \/ main' = "start"
        /\ <<Thread(n)>>_vars => \/ Waits(n)' /\ Work(n)' < k
                                 \/ main' = "join" /\ client' = n /\ conn'[n].thread = "ended"
    BY WorkStep
  <2>2. (conn'[n].thread = "ended" \/ main' = "start") => Over'
    BY DEF Waits
  <2>. QED  BY <2>1, <2>2
<1>4. Shrinks(n, k) <=> (Busy /\ Now ~> (Busy /\ Less) \/ Over)
  BY DEF Shrinks
<1> HIDE DEF Busy, Now, Less, Over
<1>5. Spec /\ ThreadRuns(n) /\ ThreadEnabled(n) => (Busy /\ Now ~> (Busy /\ Less) \/ Over)
  BY <1>2, <1>3, JoiningInv, PTL DEF Spec, ThreadRuns, ThreadEnabled
<1>. QED  BY <1>1, <1>4, <1>5, PTL

(* The event loop's thread gets on with a start.                           *)
LEMMA StartsGoOn ==
    ASSUME NEW k \in Nat
    PROVE  FairSpec /\ ThreadsEnabled => Fewer(k)
<1> DEFINE Busy == Trying
           Now  == Left = k
           Less == Left < k
           Over == ~Trying
           First == main = "start"
           Second == main = "assign"
<1>1. FairSpec /\ ThreadsEnabled => Spec /\ MainRuns /\ MainEnabled
  BY DEF FairSpec, Fairness, ThreadsEnabled
<1>2. (Busy => MainReady) /\ (Busy <=> First \/ Second) /\ (First => ~Second)
  BY DEF Trying, MainReady
<1>3. IInv /\ Joining /\ Busy /\ Now /\ [Next]_vars
         => /\ (Busy' /\ Now') \/ (Busy' /\ Less') \/ Over'
            /\ First => (First' /\ Now') \/ (Busy' /\ Less') \/ Over'
            /\ <<Main>>_vars => (First /\ Busy' /\ Less') \/ Over'
  <2> SUFFICES ASSUME IInv, Busy, Now, [Next]_vars
               PROVE  /\ (Busy' /\ Now') \/ (Busy' /\ Less') \/ Over'
                      /\ First => (First' /\ Now') \/ (Busy' /\ Less') \/ Over'
                      /\ <<Main>>_vars => (First /\ Busy' /\ Less') \/ Over'
    OBVIOUS
  <2>1. main' = "idle" => Over'
    BY DEF Trying
  <2>. QED  BY <2>1, StartStep
<1>4. Fewer(k) <=> (Busy /\ Now ~> (Busy /\ Less) \/ Over)
  BY DEF Fewer
<1> HIDE DEF Busy, Now, Less, Over, First, Second
<1>5. Spec /\ MainRuns /\ MainEnabled => (Busy /\ Now ~> (Busy /\ Less) \/ Over)
  BY <1>2, <1>3, JoiningInv, PTL DEF Spec, MainRuns, MainEnabled
<1>. QED  BY <1>1, <1>4, <1>5, PTL

(***************************************************************************)
(* The stop of any client ends, so that neither a change of settings nor   *)
(* the shutdown hangs the event loop: the thread that is joined gets       *)
(* through its callbacks, its queue or the loss of its connection, and the *)
(* start behind the stop comes to its end (mqtt_bridge.py, 53-112 and      *)
(* 140-147).                                                               *)
(***************************************************************************)
THEOREM StopsFinish == FairSpec /\ ThreadsEnabled /\ Inductions => StopsEnd
<1> SUFFICES ASSUME NEW n \in 0..MaxClients
             PROVE  FairSpec /\ ThreadsEnabled /\ Inductions
                       => (main \in {"stop", "join"} /\ client = n ~> main \in {"idle", "ended"})
  BY DEF StopsEnd
<1> USE MqttAssumption
<1> DEFINE Asked == main \in {"stop", "join"} /\ client = n
           Rest  == main \in {"idle", "ended"}
           Stop0 == main = "stop" /\ client = n
           Join0 == Waits(n)
           Join1 == main = "join" /\ client = n /\ conn[n].thread = "ended"
           Begun == Trying
           Ready == MainReady
           Wait  == ~Waits(n)
           Idle  == ~Trying
<1>1. FairSpec /\ ThreadsEnabled => Spec /\ MainRuns /\ MainEnabled
  BY DEF FairSpec, Fairness, ThreadsEnabled
<1>2. FairSpec /\ ThreadsEnabled /\ Inductions => StartsEnd
  <2>1. IInv => (Trying => Left \in Nat)
    BY DEF Trying, Left, IInv, TypeOK
  <2>2. Spec => [](Trying => Left \in Nat)
    BY <2>1, Invariance, PTL
  <2>. QED  BY <2>2, StartsGoOn DEF Inductions, StartsRunOut, FairSpec
<1>3. StartsEnd <=> (Begun ~> Idle)
  BY DEF StartsEnd
<1>4. IInv /\ Begun /\ [Next]_vars => Begun' \/ Rest'
  BY StartStep DEF Trying
<1>5. IInv /\ Joining /\ Asked => Stop0 \/ Join0 \/ Join1
  BY DEF IInv, Joining, Place, Clients, Waits, Current
<1>6. /\ Stop0 \/ Join1 => Ready
      /\ Idle <=> ~Begun
      /\ Wait <=> ~Join0
  BY DEF MainReady
<1>7. IInv /\ Joining /\ Stop0 /\ [Next]_vars
         => (Stop0' \/ Asked' \/ Begun' \/ Rest') /\ (<<Main>>_vars => ~Stop0')
  BY StopStep DEF Trying
<1>8. FairSpec /\ ThreadsEnabled /\ Inductions => (Join0 ~> Wait)
  <2>1. CASE n = 0
    <3>1. IInv => ~Join0
      BY <2>1 DEF IInv, Place, Waits
    <3> HIDE DEF Join0, Wait
    <3>. QED  BY <3>1, Invariance, PTL DEF FairSpec
  <2>2. CASE n \in Clients
    <3>1. IInv /\ Joining => (Waits(n) => Work(n) \in Nat)
      BY <2>2 DEF IInv, TypeOK, Conn, Waits, Work, Way
    <3>2. Spec => [](Waits(n) => Work(n) \in Nat)
      BY <3>1, JoiningInv, PTL
    <3>3. FairSpec /\ ThreadsEnabled /\ Inductions => WorkEnds(n)
      BY <2>2, <3>2, WorkGoesOn DEF Inductions, WorkRunsOut, FairSpec
    <3>. QED  BY <3>3 DEF WorkEnds
  <2>. QED  BY <2>1, <2>2 DEF Clients
<1>9. IInv /\ Joining /\ Join0 /\ [Next]_vars => Join0' \/ Join1' \/ Begun'
  <2> SUFFICES ASSUME IInv, Joining, Join0, [Next]_vars PROVE Join0' \/ Join1' \/ Begun'
    OBVIOUS
  <2>1. n \in Clients
    BY DEF IInv, Place, Waits, Clients
  <2>. QED  BY <2>1, WorkStep DEF Trying
<1>10. IInv /\ Joining /\ Join1 /\ [Next]_vars
         => (Join1' \/ Begun' \/ Rest') /\ (<<Main>>_vars => ~Join1')
  <2> SUFFICES ASSUME IInv, Joining, Join1, [Next]_vars
               PROVE  (Join1' \/ Begun' \/ Rest') /\ (<<Main>>_vars => ~Join1')
    OBVIOUS
  <2>1. n \in Clients
    BY DEF IInv, Place, Clients
  <2>. QED  BY <2>1, JoinedStep DEF Trying
<1> HIDE DEF Asked, Rest, Stop0, Join0, Join1, Begun, Ready, Wait, Idle
<1>11. FairSpec /\ ThreadsEnabled /\ Inductions => (Asked ~> Rest)
  BY <1>1, <1>2, <1>3, <1>4, <1>5, <1>6, <1>7, <1>8, <1>9, <1>10, JoiningInv, PTL
     DEF Spec, MainRuns, MainEnabled, Ready
<1>. QED  BY <1>11 DEF Asked, Rest
=============================================================================
