------------------------------ MODULE HubProofs ------------------------------
(***************************************************************************)
(* What TLAPS proves of Hub, for any sockets, filters and number of        *)
(* snapshots: the safety properties from one inductive invariant, that the *)
(* hub implements Feed, and the ends of broadcasts and lost connections.   *)
(* The liveness theorems have two kinds of hypotheses, both true of every  *)
(* behaviour of the specification and both beyond this prover: that a      *)
(* guard which is written out enables its action, and instances of         *)
(* induction in a temporal formula.                                        *)
(***************************************************************************)
EXTENDS Hub, FiniteSetTheorems, TLAPS

USE DEF Snapshots, Payload, Nothing

LEMMA InitTypeOK == Init => TypeOK
  BY HubAssumption DEF Init, TypeOK

LEMMA NextTypeOK == TypeOK /\ [Next]_vars => TypeOK'
<1> SUFFICES ASSUME TypeOK, [Next]_vars PROVE TypeOK'
  OBVIOUS
<1> USE HubAssumption DEF TypeOK, Goto, Show, End
<1>1. CASE Publish
  BY <1>1 DEF Publish, sockets, broadcast
<1>2. CASE Finish
  BY <1>2 DEF Finish
<1>3. ASSUME NEW s \in Sockets, BeginSend(s) PROVE TypeOK'
  BY <1>3 DEF BeginSend, Cached
<1>4. ASSUME NEW s \in Sockets, SendOk(s) \/ SendFails(s) PROVE TypeOK'
  BY <1>4 DEF SendOk, SendFails, sockets
<1>5. ASSUME NEW s \in Sockets, Connect(s) PROVE TypeOK'
  <2>1. CASE latest = 0
    BY <1>5, <2>1 DEF Connect, broadcast
  <2>2. CASE latest # 0
    <3>1. got' \in [Sockets -> Payload]
      BY <1>5, <2>2 DEF Connect
    <3> QED
      BY <1>5, <2>2, <3>1 DEF Connect, broadcast
  <2> QED
    BY <2>1, <2>2
<1>6. ASSUME NEW s \in Sockets, Reject(s) \/ Ping(s) \/ Drained(s) PROVE TypeOK'
  BY <1>6 DEF Reject, Ping, Drained, broadcast
<1>7. ASSUME NEW s \in Sockets, HandlerFails(s) \/ HangUp(s) PROVE TypeOK'
  BY <1>7 DEF HandlerFails, HangUp, broadcast
<1>8. ASSUME NEW s \in Sockets, NEW f \in Filters, SetFilter(s, f) PROVE TypeOK'
  <2>1. CASE latest = 0
    BY <1>8, <2>1 DEF SetFilter, broadcast
  <2>2. CASE latest # 0
    <3>1. got' \in [Sockets -> Payload]
      BY <1>8, <2>2 DEF SetFilter
    <3> QED
      BY <1>8, <2>2, <3>1 DEF SetFilter, broadcast
  <2> QED
    BY <2>1, <2>2
<1>9. ASSUME NEW s \in Sockets, NEW state \in {"open", "stuck", "lost"}, Drift(s, state)
      PROVE  TypeOK'
  BY <1>9 DEF Drift, broadcast
<1>10. CASE UNCHANGED vars
  BY <1>10 DEF vars, sockets, broadcast
<1> QED
  BY <1>1, <1>2, <1>3, <1>4, <1>5, <1>6, <1>7, <1>8, <1>9, <1>10 DEF Next, Broadcast

(***************************************************************************)
(* The state stays of its type, and nothing of a broadcast outlives it     *)
(* (hub.py, 31-41 and 121-147).                                            *)
(***************************************************************************)
THEOREM TypeCorrect == Spec => []TypeOK
  BY InitTypeOK, NextTypeOK, PTL DEF Spec

-----------------------------------------------------------------------------
\* Why nobody is missed: a client has the latest snapshot or is a target of the
\* broadcast that is bringing it, and the shared payloads are those of this
\* broadcast.
Inv ==
    /\ \A s \in clients : s \in waiting \/ got[s].number = latest
    /\ \A s \in Sockets : got[s].number <= latest
    /\ pub = "sending" => \A f \in Filters :
           cache[f] # Nothing => cache[f] = [number |-> latest, filter |-> f]
    /\ FilterHonoured
    /\ NoGhosts

LEMMA InitInv == Init => Inv
  BY HubAssumption DEF Init, Inv, FilterHonoured, NoGhosts

\* What Show leaves the connections with.
ShownTo(s, f) ==
    /\ \A u \in Sockets : u # s => got'[u] = got[u]
    /\ got'[s].number = latest
    /\ latest > 0 => got'[s].filter = f

LEMMA NextInv ==
  ASSUME TypeOK, TypeOK', Inv, [Next]_vars
  PROVE  Inv' /\ \A s \in Sockets : got'[s].number >= got[s].number
<1> USE HubAssumption DEF Inv, TypeOK, FilterHonoured, NoGhosts
<1> DEFINE Goal == Inv' /\ \A s \in Sockets : got'[s].number >= got[s].number
<1>0. \A s \in Sockets : got[s].number \in Nat /\ latest \in Nat
  OBVIOUS
<1>1. CASE Publish
  BY <1>0, <1>1 DEF Publish, sockets, broadcast
<1>2. CASE Finish
  BY <1>0, <1>2 DEF Finish
<1>3. ASSUME NEW s \in Sockets, BeginSend(s) PROVE Goal
  <2>1. pub = "sending" /\ filter[s] \in Filters
    BY <1>3 DEF BeginSend
  <2>2. Cached(filter[s]) = [number |-> latest, filter |-> filter[s]]
    BY <2>1 DEF Cached
  <2>3. /\ got' = [got EXCEPT ![s] = [number |-> latest, filter |-> filter[s]]]
        /\ cache' = [cache EXCEPT ![filter[s]] = [number |-> latest, filter |-> filter[s]]]
        /\ waiting' = waiting \ {s}
        /\ UNCHANGED << latest, clients, filter, pc, conn, pub, stale >>
    BY <1>3, <2>2 DEF BeginSend
  <2> QED
    BY <1>0, <2>1, <2>3
<1>4. ASSUME NEW s \in Sockets, SendOk(s) \/ SendFails(s) PROVE Goal
  BY <1>0, <1>4 DEF SendOk, SendFails, sockets
<1>5. ASSUME NEW s \in Sockets, Connect(s) PROVE Goal
  <2>1. /\ UNCHANGED << latest, filter, conn, broadcast >>
        /\ clients' = clients \cup {s}
        /\ pc' = [pc EXCEPT ![s] = IF latest = 0 THEN "receive" ELSE "first"]
    BY <1>5 DEF Connect, Show, Goto
  <2>2. ShownTo(s, filter[s])
    BY <1>0, <1>5 DEF Connect, Show, ShownTo
  <2>3. \A u \in Sockets : got'[u].number >= got[u].number /\ got'[u].number <= latest'
    BY <1>0, <2>1, <2>2 DEF ShownTo
  <2>4. \A u \in clients' : u \in waiting' \/ got'[u].number = latest'
    BY <1>0, <2>1, <2>2 DEF ShownTo, broadcast
  <2>5. FilterHonoured'
    BY <1>0, <2>1, <2>2 DEF ShownTo
  <2>6. NoGhosts'
    BY <2>1
  <2> QED
    BY <2>1, <2>3, <2>4, <2>5, <2>6 DEF broadcast
<1>6. ASSUME NEW s \in Sockets, Reject(s) \/ Ping(s) \/ Drained(s) PROVE Goal
  BY <1>0, <1>6 DEF Reject, Ping, Drained, Goto, broadcast
<1>7. ASSUME NEW s \in Sockets, HandlerFails(s) \/ HangUp(s) PROVE Goal
  BY <1>0, <1>7 DEF HandlerFails, HangUp, End, Goto, broadcast
<1>8. ASSUME NEW s \in Sockets, NEW f \in Filters, SetFilter(s, f) PROVE Goal
  <2>1. /\ UNCHANGED << latest, clients, conn, broadcast >>
        /\ filter' = [filter EXCEPT ![s] = f]
        /\ pc' = [pc EXCEPT ![s] = IF latest = 0 THEN "receive" ELSE "reply"]
    BY <1>8 DEF SetFilter, Show, Goto
  <2>2. ShownTo(s, f)
    BY <1>0, <1>8 DEF SetFilter, Show, ShownTo
  <2>3. \A u \in Sockets : got'[u].number >= got[u].number /\ got'[u].number <= latest'
    BY <1>0, <2>1, <2>2 DEF ShownTo
  <2>4. \A u \in clients' : u \in waiting' \/ got'[u].number = latest'
    BY <1>0, <2>1, <2>2 DEF ShownTo, broadcast
  <2>5. FilterHonoured'
    BY <1>0, <2>1, <2>2 DEF ShownTo
  <2>6. NoGhosts'
    BY <2>1
  <2> QED
    BY <2>1, <2>3, <2>4, <2>5, <2>6 DEF broadcast
<1>9. ASSUME NEW s \in Sockets, NEW state \in {"open", "stuck", "lost"}, Drift(s, state)
      PROVE  Goal
  BY <1>0, <1>9 DEF Drift, broadcast
<1>10. CASE UNCHANGED vars
  BY <1>0, <1>10 DEF vars, sockets, broadcast
<1> QED
  BY <1>1, <1>2, <1>3, <1>4, <1>5, <1>6, <1>7, <1>8, <1>9, <1>10 DEF Next, Broadcast

LEMMA Invariant == Spec => [](TypeOK /\ Inv)
<1>1. TypeOK /\ Inv /\ [Next]_vars => (TypeOK /\ Inv)'
  BY NextTypeOK, NextInv
<1> QED
  BY <1>1, InitTypeOK, InitInv, PTL DEF Spec

(***************************************************************************)
(* Between two broadcasts every registered client has been handed the      *)
(* latest snapshot (hub.py, 43-48 and 121-147; ws.py, 50-61).              *)
(***************************************************************************)
THEOREM NobodyIsMissed == Spec => []NobodyMissed
<1>1. TypeOK /\ Inv => NobodyMissed
  BY DEF TypeOK, Inv, NobodyMissed
<1> QED
  BY <1>1, Invariant, PTL

(***************************************************************************)
(* What a browser was handed last is filtered by the filter it asked for   *)
(* last (hub.py, 128-139; ws.py, 85-96).                                   *)
(***************************************************************************)
THEOREM FiltersAreHonoured == Spec => []FilterHonoured
<1>1. Inv => FilterHonoured
  BY DEF Inv
<1> QED
  BY <1>1, Invariant, PTL

(***************************************************************************)
(* The hub never holds a client whose handler has ended (hub.py, 43-53 and *)
(* 144-147; ws.py, 97-102).                                                *)
(***************************************************************************)
THEOREM GhostsAreGone == Spec => []NoGhosts
<1>1. Inv => NoGhosts
  BY DEF Inv
<1> QED
  BY <1>1, Invariant, PTL

(***************************************************************************)
(* No browser is handed an older snapshot after a newer one (hub.py,       *)
(* 121-139; ws.py, 56-96).                                                 *)
(***************************************************************************)
THEOREM NoneGoesBackwards == Spec => NeverBackwards
<1>1. TypeOK /\ TypeOK' /\ Inv /\ [Next]_vars
         => [\A s \in Sockets : got'[s].number >= got[s].number]_vars
  BY NextInv
<1> QED
  BY <1>1, Invariant, PTL DEF Spec, NeverBackwards

-----------------------------------------------------------------------------
\* Hub implements Feed.

LEMMA InitFeed == Init => Feed!Init
  BY DEF Init, Feed!Init

\* A payload handed to s through the filter f is what the feed shows.
LEMMA ShowsLatest ==
  ASSUME TypeOK, NEW s \in Sockets, NEW f \in Filters, NEW where, Show(s, f, where)
  PROVE  got' = Feed!ShownThrough(s, f)
  BY DEF Show, Feed!ShownThrough

LEMMA StepFeed ==
  ASSUME TypeOK, Inv, [Next]_vars
  PROVE  [Feed!Next]_(Feed!vars)
<1> USE DEF TypeOK
<1>1. CASE Publish
  <2>1. latest' \in Snapshots /\ latest' > latest
    BY <1>1, HubAssumption DEF Publish
  <2>2. waiting' = clients
    BY <1>1 DEF Publish, broadcast
  <2>3. \A s \in clients : got[s].number = latest
    BY <1>1 DEF Publish, Inv
  <2>4. Feed!Publish(latest')
    BY <1>1, <2>1, <2>2, <2>3 DEF Publish, sockets, Feed!Publish
  <2> QED
    BY <2>1, <2>4 DEF Feed!Next
<1>2. CASE Finish
  <2>1. Feed!Leave(stale)
    BY <1>2 DEF Finish, Feed!Leave
  <2> QED
    BY <2>1 DEF Feed!Next
<1>3. ASSUME NEW s \in Sockets, BeginSend(s) PROVE [Feed!Next]_(Feed!vars)
  <2>1. pub = "sending" /\ filter[s] \in Filters
    BY <1>3 DEF BeginSend
  <2>2. Cached(filter[s]) = [number |-> latest, filter |-> filter[s]]
    BY <2>1 DEF Cached, Inv
  <2>3. Feed!Show(s)
    BY <1>3, <2>2 DEF BeginSend, Feed!Show
  <2> QED
    BY <2>3 DEF Feed!Next
<1>4. ASSUME NEW s \in Sockets, SendOk(s) \/ SendFails(s) PROVE UNCHANGED Feed!vars
  BY <1>4 DEF SendOk, SendFails, sockets, Feed!vars
<1>5. ASSUME NEW s \in Sockets, Connect(s) PROVE [Feed!Next]_(Feed!vars)
  <2>1. Feed!Subscribe(s)
    BY <1>5, ShowsLatest DEF Connect, broadcast, Feed!Subscribe
  <2> QED
    BY <2>1 DEF Feed!Next
<1>6. ASSUME NEW s \in Sockets, Reject(s) \/ Ping(s) \/ Drained(s) PROVE UNCHANGED Feed!vars
  BY <1>6 DEF Reject, Ping, Drained, broadcast, Feed!vars
<1>7. ASSUME NEW s \in Sockets, HandlerFails(s) \/ HangUp(s) PROVE [Feed!Next]_(Feed!vars)
  <2>1. Feed!Leave({s})
    BY <1>7 DEF HandlerFails, HangUp, End, broadcast, Feed!Leave
  <2> QED
    BY <2>1 DEF Feed!Next
<1>8. ASSUME NEW s \in Sockets, NEW f \in Filters, SetFilter(s, f) PROVE [Feed!Next]_(Feed!vars)
  <2>1. Feed!Ask(s, f)
    BY <1>8, ShowsLatest DEF SetFilter, broadcast, Feed!Ask
  <2> QED
    BY <2>1 DEF Feed!Next
<1>9. ASSUME NEW s \in Sockets, NEW state \in {"open", "stuck", "lost"}, Drift(s, state)
      PROVE  UNCHANGED Feed!vars
  BY <1>9 DEF Drift, broadcast, Feed!vars
<1>10. CASE UNCHANGED vars
  BY <1>10 DEF vars, sockets, broadcast, Feed!vars
<1> QED
  BY <1>1, <1>2, <1>3, <1>4, <1>5, <1>6, <1>7, <1>8, <1>9, <1>10 DEF Next, Broadcast

(***************************************************************************)
(* To every browser, hub, handlers and broadcast are a feed: each          *)
(* publication is handed to every registered client, through its own       *)
(* filter, before the next one (hub.py, 43-53 and 121-147; ws.py, 50-102). *)
(***************************************************************************)
THEOREM RefinesFeed == Spec => ImplementsFeed
<1>1. TypeOK /\ Inv /\ [Next]_vars => [Feed!Next]_(Feed!vars)
  BY StepFeed
<1> QED
  BY <1>1, InitFeed, Invariant, PTL DEF Spec, ImplementsFeed, Feed!Spec

-----------------------------------------------------------------------------
\* A lost connection leaves the hub.

\* The guards of Drained and HandlerFails, written out.
HandlerReady(s) ==
    \/ pc[s] \in {"first", "reply", "pong"} /\ conn[s] \in {"open", "lost"}
    \/ pc[s] = "receive" /\ conn[s] = "lost"
    \/ pc[s] \in {"first", "reply"} /\ conn[s] = "stuck"

\* What the prover cannot see: an action whose guard holds is enabled.
HandlerEnabled(s) == [](HandlerReady(s) => ENABLED <<Handler(s)>>_vars)

HandlersEnabled == \A s \in Sockets : HandlerEnabled(s)

\* A connection that is lost stays lost, and only its handler's end changes where
\* the handler is.
LEMMA LostStep ==
  ASSUME NEW s \in Sockets, conn[s] = "lost", TypeOK, [Next]_vars
  PROVE  conn'[s] = "lost" /\ (<<Handler(s)>>_vars => s \notin clients')
<1> USE DEF TypeOK
<1>1. conn'[s] = "lost"
  BY DEF Next, Broadcast, Publish, Finish, BeginSend, SendOk, SendFails, Connect,
     Reject, Ping, Drained, HandlerFails, HangUp, End, SetFilter, Drift, vars, sockets
<1>2. <<Handler(s)>>_vars => s \notin clients'
  BY DEF Handler, Drained, HandlerFails, End
<1> QED
  BY <1>1, <1>2

(***************************************************************************)
(* A lost connection leaves the hub, though nothing is published again and *)
(* whatever the handler was doing, as long as the event loop gets round to *)
(* the handler (ws.py, 66-102).                                            *)
(***************************************************************************)
THEOREM LostOnesLeave == FairSpec /\ HandlersEnabled => LostAreDropped
<1> SUFFICES ASSUME NEW s \in Sockets
             PROVE  FairSpec /\ HandlersEnabled => (conn[s] = "lost" ~> s \notin clients)
  BY DEF LostAreDropped
<1> DEFINE Lost == conn[s] = "lost"
           Gone == s \notin clients
<1>1. FairSpec /\ HandlersEnabled => Spec /\ HandlerRuns(s) /\ HandlerEnabled(s)
  BY DEF FairSpec, Fairness, HandlersEnabled
<1>2. TypeOK /\ Inv /\ Lost /\ ~Gone => HandlerReady(s)
  BY DEF TypeOK, Inv, NoGhosts, HandlerReady
<1>3. TypeOK /\ Lost /\ [Next]_vars => Lost'
  BY LostStep
<1>4. TypeOK /\ Lost /\ [Next]_vars /\ <<Handler(s)>>_vars => Gone'
  BY LostStep
<1> HIDE DEF Lost, Gone
<1>5. Spec /\ HandlerRuns(s) /\ HandlerEnabled(s) => (Lost ~> Gone)
  BY <1>2, <1>3, <1>4, Invariant, PTL DEF Spec, HandlerRuns, HandlerEnabled
<1> QED
  BY <1>1, <1>5 DEF Lost, Gone

-----------------------------------------------------------------------------
\* A broadcast has an end.

\* A target is waiting or sending, not both.
LEMMA TargetsApart == Spec => [](waiting \cap sending = {})
<1>1. Init => waiting \cap sending = {}
  BY DEF Init
<1>2. TypeOK /\ waiting \cap sending = {} /\ [Next]_vars => (waiting \cap sending = {})'
  <2> SUFFICES ASSUME TypeOK, waiting \cap sending = {}, [Next]_vars
               PROVE  waiting' \cap sending' = {}
    OBVIOUS
  <2> QED
    BY DEF TypeOK, Next, Broadcast, Publish, Finish, BeginSend, SendOk, SendFails, Connect,
       Reject, Ping, Drained, HandlerFails, HangUp, End, SetFilter, Drift, vars, broadcast
<1> QED
  BY <1>1, <1>2, TypeCorrect, PTL DEF Spec

\* There are finitely many clients, and so finitely many targets.
Finite == IsFiniteSet(clients) /\ IsFiniteSet(waiting) /\ IsFiniteSet(sending)

LEMMA FiniteInv == Spec => []Finite
<1>1. Init => Finite
  BY FS_EmptySet DEF Init, Finite
<1>2. ASSUME Finite, NEW s \in Sockets
      PROVE  /\ IsFiniteSet(clients \cup {s}) /\ IsFiniteSet(clients \ {s})
             /\ IsFiniteSet(waiting \ {s})
             /\ IsFiniteSet(sending \cup {s}) /\ IsFiniteSet(sending \ {s})
  BY <1>2, FS_AddElement, FS_RemoveElement DEF Finite
<1>3. ASSUME Finite, [Next]_vars PROVE Finite'
  <2> USE <1>3 DEF Finite
  <2>1. CASE Publish
    BY <2>1 DEF Publish, sockets, broadcast
  <2>2. CASE Finish
    <3>1. IsFiniteSet(clients \ stale)
      BY FS_Difference
    <3> QED
      BY <2>2, <3>1 DEF Finish
  <2>3. ASSUME NEW s \in Sockets, BeginSend(s) \/ SendOk(s) \/ SendFails(s)
        PROVE  Finite'
    BY <1>2, <2>3 DEF BeginSend, SendOk, SendFails, sockets
  <2>4. ASSUME NEW s \in Sockets, Connect(s) \/ HandlerFails(s) \/ HangUp(s)
        PROVE  Finite'
    BY <1>2, <2>4 DEF Connect, HandlerFails, HangUp, End, broadcast
  <2>5. ASSUME NEW s \in Sockets,
               \/ Reject(s) \/ Ping(s) \/ Drained(s)
               \/ \E f \in Filters : SetFilter(s, f)
               \/ \E state \in {"open", "stuck", "lost"} : Drift(s, state)
        PROVE  Finite'
    BY <2>5 DEF Reject, Ping, Drained, SetFilter, Drift, broadcast
  <2>6. CASE UNCHANGED vars
    BY <2>6 DEF vars, sockets, broadcast
  <2> QED
    BY <2>1, <2>2, <2>3, <2>4, <2>5, <2>6 DEF Next, Broadcast
<1> QED
  BY <1>1, <1>3, PTL DEF Spec

\* What is left of the broadcast: a target counts twice until its send begins, and
\* once until it is over.
Sending == pub = "sending"
Targets == Cardinality(waiting) + Cardinality(waiting \cup sending)

\* No step makes it more, and one of the broadcast makes it less.
LEMMA TargetsStep ==
  ASSUME TypeOK, Finite, waiting \cap sending = {}, Sending, [Next]_vars
  PROVE  /\ Targets \in Nat
         /\ ~Sending' \/ (Targets' \in Nat /\ Targets' <= Targets)
         /\ <<Broadcast>>_vars => ~Sending' \/ Targets' < Targets
<1> DEFINE All == waiting \cup sending
<1>1. IsFiniteSet(waiting) /\ IsFiniteSet(All)
  BY FS_Union DEF Finite
<1>2. Cardinality(waiting) \in Nat /\ Cardinality(All) \in Nat
  BY <1>1, FS_CardinalityType
<1>3. CASE Broadcast
  <2>1. CASE Finish
    BY <1>2, <2>1 DEF Finish, Sending, Targets
  <2>2. ASSUME NEW s \in Sockets, BeginSend(s)
        PROVE  Targets' = Targets - 1 /\ Targets' \in Nat
    <3>1. waiting' = waiting \ {s} /\ All' = All /\ s \in waiting
      BY <2>2 DEF BeginSend
    <3>2. Cardinality(waiting') = Cardinality(waiting) - 1 /\ Cardinality(waiting') \in Nat
      BY <1>1, <3>1, FS_RemoveElement, FS_CardinalityType
    <3>3. Cardinality(waiting' \cup sending') = Cardinality(waiting \cup sending)
      BY <3>1
    <3>4. Targets' = Cardinality(waiting') + Cardinality(waiting' \cup sending')
      BY DEF Targets
    <3> QED
      BY <1>2, <3>2, <3>3, <3>4 DEF Targets
  <2>3. ASSUME NEW s \in Sockets, SendOk(s) \/ SendFails(s)
        PROVE  Targets' = Targets - 1 /\ Targets' \in Nat
    <3>1. waiting' = waiting /\ All' = All \ {s} /\ s \in All
      BY <2>3 DEF SendOk, SendFails
    <3>2. Cardinality(All') = Cardinality(All) - 1 /\ Cardinality(All') \in Nat
      BY <1>1, <3>1, FS_RemoveElement, FS_CardinalityType
    <3> QED
      BY <1>2, <3>1, <3>2 DEF Targets
  <2>4. CASE ~Finish
    <3>1. Targets' = Targets - 1 /\ Targets' \in Nat
      BY <1>3, <2>2, <2>3, <2>4 DEF Broadcast
    <3> QED
      BY <1>2, <3>1 DEF Targets
  <2> QED
    BY <2>1, <2>4
<1>4. CASE ~Broadcast
  <2>1. waiting' = waiting /\ sending' = sending
    BY <1>4 DEF Sending, Next, Publish, Connect, Reject, Ping, Drained, HandlerFails,
       HangUp, End, SetFilter, Drift, broadcast, vars
  <2> QED
    BY <1>2, <1>4, <2>1 DEF Targets
<1> QED
  BY <1>3, <1>4

\* What the prover cannot see: a broadcast under way can go on.
BroadcastEnabled == [](Sending => ENABLED <<Broadcast>>_vars)

\* What the prover cannot do, an induction in a temporal formula: targets that only
\* become fewer run out.
FewerTargets(k) == Sending /\ Targets = k ~> (Sending /\ Targets < k) \/ ~Sending
SendingEnds     == Sending ~> ~Sending
TargetsRunOut   ==
    [](Sending => Targets \in Nat) /\ (\A k \in Nat : FewerTargets(k)) => SendingEnds

\* A broadcast under way gets through with one target after the other.
LEMMA TargetsGo ==
  ASSUME NEW k \in Nat
  PROVE  FairSpec /\ BroadcastEnabled => FewerTargets(k)
<1> DEFINE Busy == Sending
           Now  == Targets = k
           Less == Targets < k
<1>1. TypeOK /\ Finite /\ waiting \cap sending = {} /\ Busy /\ Now /\ [Next]_vars
         => /\ ~Busy' \/ Now' \/ Less'
            /\ <<Broadcast>>_vars => ~Busy' \/ Less'
  BY TargetsStep
<1>2. FewerTargets(k) <=> (Busy /\ Now ~> (Busy /\ Less) \/ ~Busy)
  BY DEF FewerTargets
<1>3. BroadcastEnabled <=> [](Busy => ENABLED <<Broadcast>>_vars)
  BY DEF BroadcastEnabled
<1> HIDE DEF Busy, Now, Less
<1>4. Spec /\ BroadcastRuns /\ BroadcastEnabled
         => (Busy /\ Now ~> (Busy /\ Less) \/ ~Busy)
  BY <1>1, <1>3, TypeCorrect, FiniteInv, TargetsApart, PTL DEF Spec, BroadcastRuns
<1>5. FairSpec => Spec /\ BroadcastRuns
  BY DEF FairSpec, Fairness
<1> QED
  BY <1>2, <1>4, <1>5, PTL

(***************************************************************************)
(* A broadcast ends: no browser, however slow, and no registration or      *)
(* hang-up on the way holds up the collector that awaits it                *)
(* (hub.py, 139-144).                                                       *)
(***************************************************************************)
THEOREM BroadcastsFinish ==
  FairSpec /\ BroadcastEnabled /\ TargetsRunOut => BroadcastsEnd
<1> DEFINE Busy == Sending
           Idle == pub = "idle"
<1>1. TypeOK /\ Finite => (Sending => Targets \in Nat)
  <2> SUFFICES ASSUME Finite PROVE Targets \in Nat
    OBVIOUS
  <2>1. IsFiniteSet(waiting) /\ IsFiniteSet(waiting \cup sending)
    BY FS_Union DEF Finite
  <2>2. Cardinality(waiting) \in Nat /\ Cardinality(waiting \cup sending) \in Nat
    BY <2>1, FS_CardinalityType
  <2> QED
    BY <2>2 DEF Targets
<1>2. Spec => [](Sending => Targets \in Nat)
  BY <1>1, TypeCorrect, FiniteInv, PTL
<1>3. FairSpec /\ BroadcastEnabled /\ TargetsRunOut => SendingEnds
  BY <1>2, TargetsGo DEF TargetsRunOut, FairSpec
<1>4. SendingEnds <=> (Busy ~> ~Busy)
  BY DEF SendingEnds
<1>5. TypeOK => (~Busy <=> Idle)
  BY DEF TypeOK, Sending
<1>6. BroadcastsEnd <=> (Busy ~> Idle)
  BY DEF BroadcastsEnd, Sending
<1> HIDE DEF Busy, Idle
<1> QED
  BY <1>3, <1>4, <1>5, <1>6, TypeCorrect, PTL DEF FairSpec
=============================================================================
