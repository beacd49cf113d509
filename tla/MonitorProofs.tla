------------------------------ MODULE MonitorProofs ------------------------------
(***************************************************************************)
(* What TLAPS proves of Monitor, for any hosts, containers, pools, limits  *)
(* and answers: the light agrees with the alarms, what is held back was    *)
(* heard, and no unsure answer becomes advice.                             *)
(***************************************************************************)
EXTENDS Monitor, TLAPS

Limits == [Resources -> [warn : Int, crit : Int]]

-----------------------------------------------------------------------------
\* The worst of three levels is one of them, and none is worse.
LEMMA WorstOfThree ==
    ASSUME NEW a \in Statuses, NEW b \in Statuses, NEW c \in Statuses
    PROVE  /\ Worst({a, b, c}) \in {a, b, c}
           /\ \A m \in {a, b, c} : Rank[m] <= Rank[Worst({a, b, c})]
<1>1. \E l \in {a, b, c} : \A m \in {a, b, c} : Rank[m] <= Rank[l]
  BY DEF Statuses, Rank
<1> QED
  BY <1>1 DEF Worst

LEMMA LevelSays ==
    ASSUME NEW v \in Reading, NEW limit \in [warn : Int, crit : Int]
    PROVE  /\ Level(v, limit) \in Statuses
           /\ Level(v, limit) = "error" <=> v # None /\ v >= limit.crit
           /\ Level(v, limit) \in {"warning", "error"} <=> v # None /\ (v >= limit.crit \/ v >= limit.warn)
BY MonitorAssumption DEF Level, Statuses, Reading

\* A host's status tells whether it has an alarm, and whether a critical one.
LEMMA HostStatusSays ==
    ASSUME NEW at \in [Resources -> Reading], NEW limits \in Limits
    PROVE  /\ HostStatus(at, limits) \in Statuses
           /\ HostStatus(at, limits) = "error" <=> \E r \in Resources : at[r] # None /\ at[r] >= limits[r].crit
           /\ HostStatus(at, limits) \in {"warning", "error"} <=>
                 \E r \in Resources : at[r] # None /\ (at[r] >= limits[r].crit \/ at[r] >= limits[r].warn)
<1> DEFINE L(r) == Level(at[r], limits[r])
<1>1. \A r \in Resources : /\ L(r) \in Statuses
                           /\ L(r) = "error" <=> at[r] # None /\ at[r] >= limits[r].crit
                           /\ L(r) \in {"warning", "error"} <=>
                                 at[r] # None /\ (at[r] >= limits[r].crit \/ at[r] >= limits[r].warn)
  BY LevelSays DEF Limits
<1>2. HostStatus(at, limits) = Worst({L("cpu"), L("ram"), L("disk")})
  <2>1. {L(r) : r \in Resources} = {L("cpu"), L("ram"), L("disk")}
    BY DEF Resources
  <2> QED
    BY <2>1 DEF HostStatus
<1>3. "cpu" \in Resources /\ "ram" \in Resources /\ "disk" \in Resources
      /\ \A r \in Resources : r \in {"cpu", "ram", "disk"}
  BY DEF Resources
<1> HIDE DEF L
<1>4. /\ HostStatus(at, limits) \in {L("cpu"), L("ram"), L("disk")}
      /\ \A m \in {L("cpu"), L("ram"), L("disk")} : Rank[m] <= Rank[HostStatus(at, limits)]
  BY <1>1, <1>2, <1>3, WorstOfThree
<1>5. HostStatus(at, limits) \in Statuses
  BY <1>1, <1>3, <1>4
<1>6. HostStatus(at, limits) = "error" <=> \E r \in Resources : L(r) = "error"
  BY <1>1, <1>3, <1>4, <1>5 DEF Rank, Statuses
<1>7. HostStatus(at, limits) \in {"warning", "error"} <=> \E r \in Resources : L(r) \in {"warning", "error"}
  BY <1>1, <1>3, <1>4, <1>5 DEF Rank, Statuses
<1> QED
  BY <1>1, <1>5, <1>6, <1>7

\* A host all of whose readings are known is not unknown.
LEMMA KnownStatus ==
    ASSUME NEW at \in [Resources -> Int], NEW limits \in Limits
    PROVE  HostStatus(at, limits) # "unknown"
<1> DEFINE L(r) == Level(at[r], limits[r])
<1>1. \A r \in Resources : L(r) \in Statuses /\ L(r) # "unknown"
  <2> SUFFICES ASSUME NEW r \in Resources PROVE L(r) \in Statuses /\ L(r) # "unknown"
    OBVIOUS
  <2>1. at[r] \in Int /\ at[r] # None
    BY MonitorAssumption
  <2> QED
    BY <2>1 DEF Level, Statuses
<1>2. HostStatus(at, limits) = Worst({L("cpu"), L("ram"), L("disk")})
  <2>1. {L(r) : r \in Resources} = {L("cpu"), L("ram"), L("disk")}
    BY DEF Resources
  <2> QED
    BY <2>1 DEF HostStatus
<1>3. "cpu" \in Resources /\ "ram" \in Resources /\ "disk" \in Resources
  BY DEF Resources
<1> HIDE DEF L
<1>4. HostStatus(at, limits) \in {L("cpu"), L("ram"), L("disk")}
  BY <1>1, <1>2, <1>3, WorstOfThree
<1> QED
  BY <1>1, <1>3, <1>4

(***************************************************************************)
(* A host whose readings rise never looks better for it, whichever of its  *)
(* limits is the higher: the critical limit is looked at first, and the    *)
(* worst of the levels is the host's (status.py, 8-21; prometheus.py,      *)
(* 137-141 and 196-198; local_metrics.py, 53-63).                          *)
(***************************************************************************)
THEOREM RisingReadingsLookNoBetter ==
    ASSUME NEW at \in [Resources -> Int], NEW above \in [Resources -> Int], NEW limits \in Limits,
           \A r \in Resources : at[r] <= above[r]
    PROVE  Rank[HostStatus(at, limits)] <= Rank[HostStatus(above, limits)]
<1>1. at \in [Resources -> Reading] /\ above \in [Resources -> Reading]
  BY DEF Reading
<1>2. \A r \in Resources : /\ limits[r].warn \in Int /\ limits[r].crit \in Int
                           /\ at[r] \in Int /\ above[r] \in Int
                           /\ at[r] # None /\ above[r] # None
  BY MonitorAssumption DEF Limits
<1>3. ASSUME NEW r \in Resources
      PROVE  /\ at[r] >= limits[r].crit => above[r] >= limits[r].crit
             /\ at[r] >= limits[r].warn => above[r] >= limits[r].warn
  BY <1>2, <1>3
<1>4. HostStatus(at, limits) = "error" => HostStatus(above, limits) = "error"
  BY <1>1, <1>2, <1>3, HostStatusSays
<1>5. HostStatus(at, limits) \in {"warning", "error"}
        => HostStatus(above, limits) \in {"warning", "error"}
  BY <1>1, <1>2, <1>3, HostStatusSays
<1>6. /\ HostStatus(at, limits) \in Statuses \ {"unknown"}
      /\ HostStatus(above, limits) \in Statuses \ {"unknown"}
  BY <1>1, HostStatusSays, KnownStatus
<1> QED
  BY <1>4, <1>5, <1>6 DEF Rank, Statuses

\* Two readings that round to the same percent are at most one percent apart.
LEMMA SameWhole ==
    ASSUME NEW x \in Int, NEW y \in Int, Whole(x) = Whole(y)
    PROVE  x - y \in -10..10
<1>1. ASSUME NEW v \in Int
      PROVE  /\ Whole(v) \in Int
             /\ 10 * Whole(v) - 5 <= v /\ v <= 10 * Whole(v) + 5
  <2>1. v = 10 * (v \div 10) + (v % 10) /\ v % 10 \in 0..9 /\ v \div 10 \in Int
    OBVIOUS
  <2>2. (Whole(v) = v \div 10 /\ v % 10 <= 5) \/ (Whole(v) = (v \div 10) + 1 /\ v % 10 >= 5)
    <3>1. CASE v % 10 < 5 \/ (v % 10 = 5 /\ (v \div 10) % 2 = 0)
      BY <2>1, <3>1 DEF Whole
    <3>2. CASE ~(v % 10 < 5 \/ (v % 10 = 5 /\ (v \div 10) % 2 = 0))
      BY <2>1, <3>2 DEF Whole
    <3> QED
      BY <3>1, <3>2
  <2> DEFINE q == v \div 10
             m == v % 10
             w == Whole(v)
  <2>3. v = 10 * q + m /\ m \in 0..9 /\ q \in Int /\ ((w = q /\ m <= 5) \/ (w = q + 1 /\ m >= 5))
    BY <2>1, <2>2
  <2> HIDE DEF q, m, w
  <2>4. w \in Int /\ 10 * w - 5 <= v /\ v <= 10 * w + 5
    BY <2>3
  <2> QED
    BY <2>4 DEF w
<1> QED
  BY <1>1

-----------------------------------------------------------------------------
\* The hosts and pools of a snapshot carry the status their readings call for.
Judging(hosts, pools, limits) ==
    /\ \A h \in hosts : h.at \in [Resources -> Reading] /\ h.status = HostStatus(h.at, limits)
    /\ \A p \in pools : p.status = PoolStatus(p.health)

Readable(containers) == \A c \in containers : c.cpu \in Reading /\ c.ram \in Reading /\ c.severity \in Statuses

\* A host has an alarm if its status is bad, a critical one if it is an error.
LEMMA HostAlarmsSay ==
    ASSUME NEW hosts, NEW pools, NEW limits \in Limits, Judging(hosts, pools, limits)
    PROVE  /\ HostAlarms(hosts, limits) # {} <=> \E h \in hosts : h.status \in {"warning", "error"}
           /\ (\E a \in HostAlarms(hosts, limits) : a.severity = "critical") => \E h \in hosts : h.status = "error"
<1> DEFINE bad == {y \in hosts \X Resources :
                      y[1].at[y[2]] # None /\ (\/ y[1].at[y[2]] >= limits[y[2]].crit
                                               \/ y[1].at[y[2]] >= limits[y[2]].warn)}
<1>1. bad # {} <=> \E h \in hosts : \E r \in Resources :
          h.at[r] # None /\ (h.at[r] >= limits[r].crit \/ h.at[r] >= limits[r].warn)
  <2>1. ASSUME NEW y \in bad
        PROVE  \E h \in hosts : \E r \in Resources :
                  h.at[r] # None /\ (h.at[r] >= limits[r].crit \/ h.at[r] >= limits[r].warn)
    BY <2>1
  <2>2. ASSUME NEW h \in hosts, NEW r \in Resources,
               h.at[r] # None /\ (h.at[r] >= limits[r].crit \/ h.at[r] >= limits[r].warn)
        PROVE  << h, r >> \in bad
    BY <2>2
  <2> QED
    BY <2>1, <2>2
<1>2. ASSUME NEW h \in hosts
      PROVE  h.status \in {"warning", "error"} <=> \E r \in Resources :
                h.at[r] # None /\ (h.at[r] >= limits[r].crit \/ h.at[r] >= limits[r].warn)
  BY <1>2, HostStatusSays DEF Judging
<1>3. HostAlarms(hosts, limits) # {} <=> bad # {}
  BY DEF HostAlarms
<1>4. ASSUME NEW a \in HostAlarms(hosts, limits), a.severity = "critical"
      PROVE  \E h \in hosts : h.status = "error"
  <2>1. PICK x \in bad : a = Alarm(IF x[1].at[x[2]] >= limits[x[2]].crit THEN "critical" ELSE "warning",
                                   x[2], x[1].name, x[2], "at", x[1].at[x[2]])
    BY <1>4 DEF HostAlarms
  <2>2. x[1] \in hosts /\ x[2] \in Resources /\ x[1].at[x[2]] # None
    OBVIOUS
  <2>3. x[1].at[x[2]] >= limits[x[2]].crit
    BY <2>1, <1>4 DEF Alarm
  <2> QED
    BY <2>2, <2>3, HostStatusSays DEF Judging
<1> HIDE DEF bad
<1> QED
  BY <1>1, <1>2, <1>3, <1>4

LEMMA LightAgrees ==
    ASSUME NEW hosts, NEW containers, NEW pools, NEW limits \in Limits, Judging(hosts, pools, limits)
    PROVE  /\ Overall(hosts, containers, pools) = "ok" <=> ShownAlarms(hosts, containers, pools, limits) = {}
           /\ (\E a \in ShownAlarms(hosts, containers, pools, limits) : a.severity = "critical")
                 => Overall(hosts, containers, pools) = "error"
<1>1. StateAlarms(containers) # {} <=> \E c \in containers : c.severity \in {"warning", "error"}
  BY DEF StateAlarms, Down
<1>2. (\E a \in StateAlarms(containers) : a.severity = "critical") => Down(containers) # {}
  BY DEF StateAlarms, Alarm
<1>3. PoolAlarms(pools) # {} <=> \E p \in pools : p.status \in {"warning", "error"}
  BY DEF PoolAlarms
<1>4. /\ HostAlarms(hosts, limits) # {} <=> \E h \in hosts : h.status \in {"warning", "error"}
      /\ (\E a \in HostAlarms(hosts, limits) : a.severity = "critical") => \E h \in hosts : h.status = "error"
  BY HostAlarmsSay
<1>5. ShownAlarms(hosts, containers, pools, limits) =
          HostAlarms(hosts, limits) \cup StateAlarms(containers) \cup PoolAlarms(pools)
  BY DEF ShownAlarms
<1>6. Down(containers) # {} <=> \E c \in containers : c.severity = "error"
  BY DEF Down
<1>7. Overall(hosts, containers, pools) = "ok" <=>
        ~(\/ \E c \in containers : c.severity \in {"warning", "error"}
          \/ \E p \in pools : p.status \in {"warning", "error"}
          \/ \E h \in hosts : h.status \in {"warning", "error"})
  BY <1>6 DEF Overall
<1>8. Overall(hosts, containers, pools) = "ok" <=> ShownAlarms(hosts, containers, pools, limits) = {}
  BY <1>1, <1>3, <1>4, <1>5, <1>7
<1>9. Overall(hosts, containers, pools) = "error" <=>
        (\/ Down(containers) # {}
         \/ \E p \in pools : p.status \in {"warning", "error"}
         \/ \E h \in hosts : h.status = "error")
  BY DEF Overall
<1> QED
  BY <1>2, <1>3, <1>4, <1>5, <1>8, <1>9

-----------------------------------------------------------------------------
SnapFields == {"ok", "hosts", "usage", "containers", "pools", "overall", "shown"}

\* What the alerter can be told, and what a fingerprint says of it.
Told(a) == a.reading \in Int /\ a.title[2] = Whole(a.reading)

\* The alarms sent are such alarms, in a sequence.
HeardTold == \E S : heard \in Seq(S) /\ \A a \in S : Told(a)

IInv ==
    /\ TypeOK
    /\ promSet = alertSet
    /\ DOMAIN snap = SnapFields
    /\ pc \in {"listing", "evaluating"} => Judging(snap.hosts, snap.pools, alertSet.limits)
    /\ pc = "listing" => \A n \in DOMAIN snap.usage : snap.usage[n].cpu \in Reading /\ snap.usage[n].ram \in Reading
    /\ Seen
    /\ \A a \in todo : Told(a)
    /\ HeardTold
    /\ asks = [r \in Requests |-> asks[r]]
    /\ Judged

LEMMA LimitsOfSettings == \A s \in Settings : s.limits \in Limits
BY MonitorAssumption DEF Limits

LEMMA AlarmTold ==
    ASSUME NEW severity, NEW source, NEW host, NEW service, NEW text, NEW reading \in Int
    PROVE  Told(Alarm(severity, source, host, service, text, reading))
BY DEF Told, Alarm

\* Every alarm of readable sources has a reading that is a number.
LEMMA AlarmsTold ==
    ASSUME NEW hosts, NEW containers, NEW pools, NEW ok, NEW limits \in Limits,
           Judging(hosts, pools, limits), Readable(containers)
    PROVE  \A a \in Alarms(hosts, containers, pools, ok, limits) : Told(a)
<1>1. \A a \in HostAlarms(hosts, limits) : Told(a)
  <2> SUFFICES ASSUME NEW a \in HostAlarms(hosts, limits) PROVE Told(a)
    OBVIOUS
  <2>1. PICK x \in hosts \X Resources :
          /\ x[1].at[x[2]] # None
          /\ a = Alarm(IF x[1].at[x[2]] >= limits[x[2]].crit THEN "critical" ELSE "warning",
                       x[2], x[1].name, x[2], "at", x[1].at[x[2]])
    BY DEF HostAlarms
  <2>2. x[1].at[x[2]] \in Int
    BY <2>1 DEF Judging, Reading
  <2> QED
    BY <2>1, <2>2, AlarmTold
<1>2. \A a \in StateAlarms(containers) : Told(a)
  BY AlarmTold DEF StateAlarms
<1>3. \A a \in LoadAlarms(containers, limits) : Told(a)
  <2>1. \A c \in containers : (Busy(c, limits) => c.cpu \in Int) /\ (Full(c, limits) => c.ram \in Int)
    BY DEF Readable, Reading, Busy, Full
  <2> QED
    BY <2>1, AlarmTold DEF LoadAlarms
<1>4. \A a \in PoolAlarms(pools) : Told(a)
  BY AlarmTold DEF PoolAlarms
<1>5. \A a \in PrometheusAlarms(ok) : Told(a)
  BY AlarmTold DEF PrometheusAlarms
<1> QED
  BY <1>1, <1>2, <1>3, <1>4, <1>5 DEF Alarms, ShownAlarms

\* What the sources answer becomes a judged snapshot.
LEMMA ContainersReadable ==
    ASSUME NEW listed, NEW usage,
           \A n \in DOMAIN usage : usage[n].cpu \in Reading /\ usage[n].ram \in Reading
    PROVE  Readable(Containers(listed, usage))
<1>1. None \in Reading
  BY DEF Reading
<1> QED
  BY <1>1 DEF Readable, Containers, ContainerSeverity, Statuses

LEMMA UsageReadable ==
    ASSUME NEW rows \in UsageAnswers, NEW n \in DOMAIN Usage(rows)
    PROVE  Usage(rows)[n].cpu \in Reading /\ Usage(rows)[n].ram \in Reading
<1>1. n \in DOMAIN rows /\ rows[n] \in [cpu : Reading, used : Reading, limit : Reading]
  BY MonitorAssumption DEF Usage
<1>2. rows[n].used # None /\ rows[n].limit # None /\ ~(rows[n].limit <= 0)
        => (rows[n].used * 1000) \div rows[n].limit \in Int
  <2> SUFFICES ASSUME rows[n].used # None, rows[n].limit # None, ~(rows[n].limit <= 0)
               PROVE  (rows[n].used * 1000) \div rows[n].limit \in Int
    OBVIOUS
  <2> DEFINE u == rows[n].used
             m == rows[n].limit
  <2>1. u \in Int /\ m \in Int /\ m > 0
    BY <1>1 DEF Reading
  <2> HIDE DEF u, m
  <2>2. (u * 1000) \div m \in Int
    BY <2>1
  <2> QED
    BY <2>2 DEF u, m
<1> QED
  BY <1>1, <1>2 DEF Usage, Reading

LEMMA StatusesJudged ==
    ASSUME NEW hosts, NEW pools, NEW limits \in Limits, Judging(hosts, pools, limits)
    PROVE  (\A h \in hosts : h.status \in Statuses) /\ (\A p \in pools : p.status \in Statuses)
BY HostStatusSays DEF Judging, PoolStatus, Statuses

-----------------------------------------------------------------------------
LEMMA InitInv == Init => IInv
<1> SUFFICES ASSUME Init PROVE IInv
  OBVIOUS
<1>1. TypeOK
  BY MonitorAssumption DEF Init, TypeOK, Empty
<1>2. HeardTold
  <2>1. << >> \in Seq({})
    OBVIOUS
  <2> QED
    BY <2>1 DEF Init, HeardTold
<1>3. DOMAIN snap = SnapFields
  BY DEF Init, Empty, SnapFields
<1> QED
  BY <1>1, <1>2, <1>3 DEF Init, IInv, Seen, Judged

\* The sequence of the alarms sent stays one of such alarms.
LEMMA HeardGrows ==
    ASSUME HeardTold, NEW a, Told(a), heard' = Append(heard, a)
    PROVE  HeardTold' /\ heard' # heard
<1>1. PICK S : heard \in Seq(S) /\ \A b \in S : Told(b)
  BY DEF HeardTold
<1>2. heard' \in Seq(S \cup {a}) /\ heard' # heard
  <2>1. heard \in Seq(S \cup {a})
    BY <1>1
  <2>2. Append(heard, a) \in Seq(S \cup {a}) /\ Len(Append(heard, a)) = Len(heard) + 1 /\ Len(heard) \in Nat
    BY <2>1
  <2> QED
    BY <2>2
<1>3. \A b \in S \cup {a} : Told(b)'
  BY <1>1 DEF Told
<1> QED
  BY <1>2, <1>3 DEF HeardTold

LEMMA HeardShrinks ==
    ASSUME HeardTold, heard # << >>, heard' = Tail(heard)
    PROVE  HeardTold'
<1>1. PICK S : heard \in Seq(S) /\ \A b \in S : Told(b)
  BY DEF HeardTold
<1>2. heard' \in Seq(S)
  BY <1>1
<1> QED
  BY <1>1, <1>2 DEF HeardTold, Told

\* What a step of the loop leaves alone when it touches neither the requests nor
\* what was heard.
Same == heard' = heard /\ asks' = asks

LEMMA SameKept ==
    ASSUME IInv, Same
    PROVE  HeardTold' /\ Judged' /\ (asks = [r \in Requests |-> asks[r]])'
BY DEF IInv, Same, HeardTold, Told, Judged

\* A step of a request that leaves the loop alone and answers as it should.
LEMMA AskKeeps ==
    ASSUME IInv, NEW r \in Requests, NEW x, UNCHANGED << saved, tickVars >>, asks' = [asks EXCEPT ![r] = x],
           x = Nil \/ x.kind \in {"triage", "intent", "decided", "routed"},
           Judged'
    PROVE  IInv'
BY DEF IInv, TypeOK, tickVars, Judging, Seen, SeenAs, HeardTold, Told

LEMMA RequestKeeps ==
    ASSUME IInv, NEW r \in Requests, Request(r)
    PROVE  IInv'
<1>0. asks = [q \in Requests |-> asks[q]] /\ Judged
  BY DEF IInv
<1>1. ASSUME NEW body \in TriageBodies, AskTriage(r, body) PROVE IInv'
  <2>1. Judged'
    BY <1>0, <1>1 DEF AskTriage, Judged
  <2> QED
    BY <1>1, <2>1, AskKeeps DEF AskTriage
<1>2. ASSUME NEW body \in IntentBodies, AskIntent(r, body) PROVE IInv'
  <2>1. Judged'
    BY <1>0, <1>2 DEF AskIntent, Judged
  <2> QED
    BY <1>2, <2>1, AskKeeps DEF AskIntent
<1>3. ASSUME NEW answer \in Answers, Decide(r, answer) PROVE IInv'
  <2>1. PICK target \in Targets(asks[r].state) :
          asks' = [asks EXCEPT ![r] = [kind |-> "decided", answer |-> answer,
                                       is |-> Decision(asks[r].state, answer, target)]]
    BY <1>3 DEF Decide
  <2> DEFINE made == Decision(asks[r].state, answer, target)
  <2>2. /\ made.action # "human" =>
              answer.cause \in Causes \ {"unclear"} /\ answer.confidence >= ConfidenceMin
        /\ made.action \in {"restart_after_confirm", "human"} => made.review
    BY DEF Decision, Sure
  <2> HIDE DEF made
  <2>3. Judged'
    BY <1>0, <2>1, <2>2 DEF Judged, made
  <2> QED
    BY <1>3, <2>1, <2>3, AskKeeps DEF Decide
<1>4. ASSUME NEW answer \in Answers, Routed(r, answer) PROVE IInv'
  <2> DEFINE made == Route(answer, asks[r].names)
  <2>1. /\ made.container \in asks[r].names \cup {"none"}
        /\ made.endpoint # << >> \/ made.container # "none" => answer.confidence >= ConfidenceMin
    <3>1. answer.confidence < ConfidenceMin \/ answer.confidence >= ConfidenceMin
      BY MonitorAssumption DEF ConfidenceMin
    <3> QED
      BY <3>1 DEF Route, Named, Endpoint
  <2>2. asks' = [asks EXCEPT ![r] = [kind |-> "routed", answer |-> answer, names |-> asks[r].names, is |-> made]]
    BY <1>4 DEF Routed
  <2> HIDE DEF made
  <2>3. Judged'
    BY <1>0, <2>1, <2>2 DEF Judged
  <2> QED
    BY <1>4, <2>2, <2>3, AskKeeps DEF Routed
<1>5. ASSUME Close(r) PROVE IInv'
  <2>1. Judged'
    BY <1>0, <1>5 DEF Close, Judged
  <2> QED
    BY <1>5, <2>1, AskKeeps DEF Close
<1> QED
  BY <1>1, <1>2, <1>3, <1>4, <1>5 DEF Request

-----------------------------------------------------------------------------
LEMMA MeasureKeeps ==
    ASSUME IInv, NEW rows \in HostAnswers, NEW usage \in UsageAnswers, NEW pools \in PoolAnswers,
           Measure(rows, usage, pools)
    PROVE  IInv'
<1> DEFINE hosts == IF snap.ok THEN PrometheusHosts(rows, promSet.limits) ELSE {}
           used == IF snap.ok THEN Usage(usage) ELSE << >>
           found == Pools(pools.zpool, pools.info, pools.state)
<1>1. /\ pc = "hosts" /\ pc' = "listing" /\ snap' = [snap EXCEPT !.hosts = hosts, !.usage = used, !.pools = found]
      /\ saved' = saved /\ promSet' = promSet /\ alertSet' = alertSet /\ todo' = todo /\ heard' = heard
      /\ latest' = latest /\ ticks' = ticks /\ asks' = asks
  BY DEF Measure
<1>2. alertSet \in Settings /\ promSet = alertSet /\ promSet.limits \in Limits
  BY LimitsOfSettings DEF IInv, TypeOK
<1>3. Judging(hosts, found, alertSet.limits)
  BY <1>2, MonitorAssumption DEF Judging, PrometheusHosts, Pools
<1>4. \A n \in DOMAIN used : used[n].cpu \in Reading /\ used[n].ram \in Reading
  BY UsageReadable
<1> HIDE DEF hosts, used, found
<1>5. /\ DOMAIN snap' = SnapFields /\ snap'.hosts = hosts /\ snap'.usage = used /\ snap'.pools = found
      /\ snap'.overall = snap.overall /\ snap'.containers = snap.containers
  BY <1>1 DEF IInv, SnapFields
<1>6. TypeOK'
  BY <1>1, <1>2, <1>3, <1>5, StatusesJudged DEF IInv, TypeOK
<1>7. Same
  BY <1>1 DEF Same
<1> QED
  BY <1>1, <1>3, <1>4, <1>5, <1>6, <1>7, SameKept DEF IInv, Seen, Told

LEMMA ListKeeps ==
    ASSUME IInv, NEW listed \in Listings, NEW local \in LocalAnswers, List(listed, local)
    PROVE  IInv'
<1> DEFINE containers == Containers(listed, snap.usage)
           hosts == IF snap.hosts # {} THEN snap.hosts ELSE {LocalHost(local, alertSet.limits)}
           light == Overall(hosts, containers, snap.pools)
           shown == ShownAlarms(hosts, containers, snap.pools, alertSet.limits)
<1>1. /\ pc = "listing" /\ pc' = "evaluating"
      /\ snap' = [snap EXCEPT !.hosts = hosts, !.containers = containers, !.overall = light, !.shown = shown]
      /\ todo' = Alarms(hosts, containers, snap.pools, snap.ok, alertSet.limits)
      /\ saved' = saved /\ promSet' = promSet /\ alertSet' = alertSet /\ heard' = heard
      /\ latest' = latest /\ ticks' = ticks /\ asks' = asks
  BY DEF List
<1>2. alertSet \in Settings /\ alertSet.limits \in Limits
  BY LimitsOfSettings DEF IInv, TypeOK
<1>3. Judging(hosts, snap.pools, alertSet.limits)
  <2>1. Judging(snap.hosts, snap.pools, alertSet.limits)
    BY <1>1 DEF IInv
  <2>2. Judging({LocalHost(local, alertSet.limits)}, {}, alertSet.limits)
    BY <1>2, MonitorAssumption DEF Judging, LocalHost
  <2> QED
    BY <2>1, <2>2 DEF Judging
<1>4. Readable(containers)
  BY <1>1, ContainersReadable DEF IInv
<1>5. /\ light = "ok" <=> shown = {}
      /\ (\E a \in shown : a.severity = "critical") => light = "error"
  BY <1>2, <1>3, LightAgrees
<1>6. \A a \in Alarms(hosts, containers, snap.pools, snap.ok, alertSet.limits) : Told(a)
  BY <1>2, <1>3, <1>4, AlarmsTold
<1>7. hosts # {} /\ light \in {"ok", "warning", "error"}
  BY DEF Overall
<1> HIDE DEF containers, hosts, light, shown
<1>8. /\ DOMAIN snap' = SnapFields /\ snap'.hosts = hosts /\ snap'.containers = containers
      /\ snap'.overall = light /\ snap'.shown = shown /\ snap'.pools = snap.pools
  BY <1>1 DEF IInv, SnapFields
<1>9. TypeOK'
  BY <1>1, <1>2, <1>3, <1>4, <1>7, <1>8, StatusesJudged DEF IInv, TypeOK, Readable
<1>10. Same
  BY <1>1 DEF Same
<1>11. Seen'
  BY <1>5, <1>8 DEF Seen, SeenAs
<1>12. \A a \in todo' : Told(a)'
  BY <1>1, <1>6 DEF Told
<1> QED
  BY <1>1, <1>3, <1>8, <1>9, <1>10, <1>11, <1>12, SameKept DEF IInv

\* A step of the walk, which only takes alarms from the list.
LEMMA WalkKeeps ==
    ASSUME IInv, pc = "evaluating", todo' \subseteq todo, HeardTold',
           UNCHANGED << saved, promSet, alertSet, pc, snap, latest, ticks, asks >>
    PROVE  IInv'
BY DEF IInv, TypeOK, Judging, Seen, SeenAs, Told, Judged

LEMMA StepInv == IInv /\ [Next]_vars => IInv'
<1> SUFFICES ASSUME IInv, [Next]_vars PROVE IInv'
  OBVIOUS
<1>1. CASE UNCHANGED vars
  BY <1>1 DEF vars, tickVars, IInv, TypeOK, Judging, Seen, SeenAs, HeardTold, Told, Judged
<1>2. CASE Bind
  <2>1. Same
    BY <1>2 DEF Bind, Same
  <2>2. TypeOK'
    BY <1>2, MonitorAssumption DEF Bind, IInv, TypeOK
  <2> QED
    BY <1>2, <2>1, <2>2, SameKept DEF Bind, IInv, Seen, Told
<1>3. ASSUME NEW ok \in BOOLEAN, Ready(ok) PROVE IInv'
  <2>1. Same
    BY <1>3 DEF Ready, Same
  <2>2. /\ DOMAIN snap' = DOMAIN snap /\ snap'.hosts = snap.hosts /\ snap'.pools = snap.pools
        /\ snap'.overall = snap.overall /\ snap'.containers = snap.containers
    BY <1>3 DEF Ready, IInv, SnapFields
  <2>3. TypeOK'
    BY <1>3, <2>2 DEF Ready, IInv, TypeOK
  <2> QED
    BY <1>3, <2>1, <2>2, <2>3, SameKept DEF Ready, IInv, Seen, Told
<1>4. CASE Publish
  <2>1. Same
    BY <1>4 DEF Publish, Same
  <2>2. TypeOK'
    BY <1>4 DEF Publish, IInv, TypeOK, Empty
  <2>3. DOMAIN snap' = SnapFields
    BY <1>4 DEF Publish, Empty, SnapFields
  <2> QED
    BY <1>4, <2>1, <2>2, <2>3, SameKept DEF Publish, IInv, Seen, Told
<1>5. ASSUME NEW a \in todo, Fire(a) \/ HoldBack(a) \/ Pass(a) \/ Break(a) PROVE IInv'
  <2>1. Told(a) /\ HeardTold
    BY <1>5 DEF IInv
  <2>2. HeardTold'
    <3>1. CASE heard' = heard
      BY <2>1, <3>1 DEF HeardTold, Told
    <3>2. CASE heard' = Append(heard, a)
      BY <2>1, <3>2, HeardGrows
    <3> QED
      BY <1>5, <3>1, <3>2 DEF Fire, HoldBack, Pass, Break
  <2>3. /\ pc = "evaluating" /\ todo' \subseteq todo
        /\ UNCHANGED << saved, promSet, alertSet, pc, snap, latest, ticks, asks >>
    BY <1>5 DEF Fire, HoldBack, Pass, Break, Evaluating
  <2> QED
    BY <2>2, <2>3, WalkKeeps
<1>6. ASSUME NEW settings \in Settings, Save(settings) PROVE IInv'
  BY <1>6 DEF Save, tickVars, IInv, TypeOK, Judging, Seen, SeenAs, HeardTold, Told, Judged
<1>7. CASE Forget
  <2>1. HeardTold'
    BY <1>7, HeardShrinks DEF Forget, IInv
  <2> QED
    BY <1>7, <2>1 DEF Forget, IInv, TypeOK, Judging, Seen, SeenAs, Told, Judged
<1> QED
  BY <1>1, <1>2, <1>3, <1>4, <1>5, <1>6, <1>7, MeasureKeeps, ListKeeps, RequestKeeps DEF Next, Tick

\* An alarm the walk passes over in silence was heard before, within one percent.
LEMMA StepHeard == IInv /\ [Next]_vars => [HeardBefore]_vars
<1> SUFFICES ASSUME IInv, [Next]_vars, vars' # vars,
                    NEW a \in todo \ todo', pc' = pc, heard' = heard, Allowed(a)
             PROVE  \E i \in DOMAIN heard : Near(heard[i], a)
  BY DEF HeardBefore
<1>1. pc = "evaluating"
  BY DEF IInv, TypeOK
<1>2. PICK b \in todo : Fire(b) \/ HoldBack(b) \/ Pass(b) \/ Break(b)
  BY <1>1 DEF Next, Tick, Bind, Ready, Measure, List, Publish, Save, Forget, Request, AskTriage, AskIntent,
              Decide, Routed, Close, tickVars, vars
<1>3. heard' # Append(heard, b)
  BY HeardGrows DEF IInv
<1>4. b = a /\ Cooled(a)
  BY <1>2, <1>3 DEF Fire, HoldBack, Pass, Break, Evaluating
<1>5. PICK S : heard \in Seq(S) /\ \A h \in S : Told(h)
  BY DEF IInv, HeardTold
<1>6. PICK i \in DOMAIN heard : Fingerprint(heard[i]) = Fingerprint(a)
  BY <1>4 DEF Cooled
<1>7. Told(heard[i]) /\ Told(a)
  <2>1. heard[i] \in S
    BY <1>5, <1>6
  <2> QED
    BY <1>5, <2>1 DEF IInv
<1>8. /\ << heard[i].source, heard[i].host, heard[i].service >> = << a.source, a.host, a.service >>
      /\ heard[i].title = a.title
  BY <1>6 DEF Fingerprint
<1>9. Whole(heard[i].reading) = Whole(a.reading)
  BY <1>7, <1>8 DEF Told
<1>10. heard[i].reading - a.reading \in -10..10
  BY <1>7, <1>9, SameWhole DEF Told
<1> QED
  BY <1>8, <1>10 DEF Near

-----------------------------------------------------------------------------
\* Every value stays in its type, whatever the sources and Jev answer.
THEOREM TypeCorrect == Spec => []TypeOK
<1>1. IInv => TypeOK
  BY DEF IInv
<1> QED
  BY InitInv, StepInv, <1>1, PTL DEF Spec

\* The light and the alarms of a tick agree, and what is held back was heard.
THEOREM TroubleIsHeardAndSeen == Spec => HeardAndSeen
<1>1. IInv /\ [Next]_vars => [HeardBefore /\ Seen']_vars
  BY StepInv, StepHeard DEF IInv
<1> QED
  BY InitInv, StepInv, <1>1, PTL DEF Spec, HeardAndSeen

\* No unsure answer of Jev becomes advice.
THEOREM AdviceIsJudged == Spec => []Judged
<1>1. IInv => Judged
  BY DEF IInv
<1> QED
  BY InitInv, StepInv, <1>1, PTL DEF Spec
=============================================================================
