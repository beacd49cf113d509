--------------------------------- MODULE Monitor ---------------------------------
(***************************************************************************)
(* The readings on their way through a tick: from the sources to the       *)
(* snapshot and its summary, to the alarms and to the triage requests that *)
(* read the latest snapshot.  Collector has the stages and their failures, *)
(* Alerter the stores behind the cooldown; here, what is told.  Any answer *)
(* of any source may come at any time.                                     *)
(***************************************************************************)
EXTENDS Snapshot, Triage

CONSTANTS Settings,     \* what can be saved: limits by resource, the least severity told
          HostAnswers,  \* Prometheus's hosts: readings by instance
          LocalAnswers, \* psutil's readings
          Listings,     \* Docker's containers: name, status, health
          UsageAnswers, \* cAdvisor's rows by container name
          PoolAnswers,  \* zpool's pools and those of Prometheus's two metrics
          Requests,     \* triage requests
          TriageBodies, IntentBodies,
          Answers,      \* what Jev can answer
          Nil, MaxTicks \* how many ticks are looked at

Reading == Int \cup {None}

ASSUME MonitorAssumption ==
    /\ None \notin Int
    /\ \A s \in Settings : s.limits \in [Resources -> [warn : Int, crit : Int]]
    /\ \A rows \in HostAnswers : \A i \in DOMAIN rows : rows[i] \in [Resources -> Reading]
    /\ LocalAnswers \subseteq [Resources -> Reading]
    /\ \A rows \in UsageAnswers : \A n \in DOMAIN rows :
          rows[n] \in [cpu : Reading, used : Reading, limit : Reading]
    /\ \A answer \in Answers : answer.confidence \in Int
    /\ MaxTicks \in Nat

VARIABLES
    saved,      \* the settings of the store
    promSet,    \* Settings as the Prometheus client has them
    alertSet,   \* and the alerter
    pc,         \* the tick: "idle", "ready", "hosts", "listing", "evaluating"
    snap,       \* the snapshot in the making
    todo,       \* the alarms not evaluated yet
    heard,      \* the alarms sent and not older than the cooldown, oldest first
    latest,     \* the containers of hub.latest, none before the first
    ticks,
    asks        \* by request, Nil or what it has in hand

tickVars == << promSet, alertSet, pc, snap, todo, heard, latest, ticks >>
vars == << saved, tickVars, asks >>

Empty == [ok |-> FALSE, hosts |-> {}, usage |-> << >>, containers |-> {}, pools |-> {},
          overall |-> "ok", shown |-> {}]

TypeOK ==
    /\ saved \in Settings /\ promSet \in Settings /\ alertSet \in Settings
    /\ pc \in {"idle", "ready", "hosts", "listing", "evaluating"}
    /\ snap.overall \in {"ok", "warning", "error"}
    /\ \A h \in snap.hosts : h.status \in Statuses
    /\ pc = "evaluating" => snap.hosts # {}
    /\ \A c \in snap.containers \cup latest : c.severity \in Statuses
    /\ \A p \in snap.pools : p.status \in Statuses
    /\ pc # "evaluating" => todo = {}
    /\ ticks \in 0..MaxTicks
    /\ \A r \in Requests : asks[r] = Nil \/ asks[r].kind \in {"triage", "intent", "decided", "routed"}

Init ==
    /\ saved \in Settings /\ promSet = saved /\ alertSet = saved
    /\ pc = "idle" /\ snap = Empty /\ todo = {} /\ heard = << >> /\ latest = {} /\ ticks = 0
    /\ asks = [r \in Requests |-> Nil]

-----------------------------------------------------------------------------
\* The operator saves settings.
Save(settings) ==
    /\ saved' = settings
    /\ UNCHANGED << tickVars, asks >>

\* A mutant of Bind: only the alerter gets the settings.
BindAlerter ==
    /\ pc = "idle" /\ ticks < MaxTicks
    /\ alertSet' = saved
    /\ pc' = "ready" /\ ticks' = ticks + 1
    /\ UNCHANGED << saved, promSet, snap, todo, heard, latest, asks >>

\* A tick begins: every service gets the settings.
Bind ==
    /\ pc = "idle" /\ ticks < MaxTicks
    /\ promSet' = saved /\ alertSet' = saved
    /\ pc' = "ready" /\ ticks' = ticks + 1
    /\ UNCHANGED << saved, snap, todo, heard, latest, asks >>

Ready(ok) ==
    /\ pc = "ready"
    /\ snap' = [snap EXCEPT !.ok = ok]
    /\ pc' = "hosts"
    /\ UNCHANGED << saved, promSet, alertSet, todo, heard, latest, ticks, asks >>

\* Hosts and usage are asked of a Prometheus that is ready, pools in any case; a
\* source that fails has none.
Measure(rows, usage, pools) ==
    /\ pc = "hosts"
    /\ snap' = [snap EXCEPT !.hosts = IF snap.ok THEN PrometheusHosts(rows, promSet.limits) ELSE {},
                            !.usage = IF snap.ok THEN Usage(usage) ELSE << >>,
                            !.pools = Pools(pools.zpool, pools.info, pools.state)]
    /\ pc' = "listing"
    /\ UNCHANGED << saved, promSet, alertSet, todo, heard, latest, ticks, asks >>

\* The containers, the summary, and what the alerter makes of them.
List(listed, local) ==
    LET containers == Containers(listed, snap.usage)
        hosts == IF snap.hosts # {} THEN snap.hosts ELSE {LocalHost(local, alertSet.limits)}
    IN  /\ pc = "listing"
        /\ snap' = [snap EXCEPT !.hosts = hosts, !.containers = containers,
                                !.overall = Overall(hosts, containers, snap.pools),
                                !.shown = ShownAlarms(hosts, containers, snap.pools, alertSet.limits)]
        /\ todo' = Alarms(hosts, containers, snap.pools, snap.ok, alertSet.limits)
        /\ pc' = "evaluating"
        /\ UNCHANGED << saved, promSet, alertSet, heard, latest, ticks, asks >>

-----------------------------------------------------------------------------
Allowed(a) == alertSet.least = "critical" => a.severity = "critical"

Cooled(a) == \E i \in DOMAIN heard : Fingerprint(heard[i]) = Fingerprint(a)

\* Hosts first, then containers, pools and Prometheus.
Turn(a) ==
    IF a.source \in Resources THEN 1
    ELSE IF a.source \in {"container", "container_cpu", "container_ram"} THEN 2
    ELSE IF a.source = "zfs" THEN 3 ELSE 4

Evaluating(a) ==
    /\ pc = "evaluating" /\ a \in todo /\ \A b \in todo : Turn(a) <= Turn(b)
    /\ todo' = todo \ {a}

Fire(a) ==
    /\ Evaluating(a) /\ Allowed(a) /\ ~Cooled(a)
    /\ heard' = Append(heard, a)
    /\ UNCHANGED << saved, promSet, alertSet, pc, snap, latest, ticks, asks >>

HoldBack(a) ==
    /\ Evaluating(a) /\ Allowed(a) /\ Cooled(a)
    /\ UNCHANGED << saved, promSet, alertSet, pc, snap, heard, latest, ticks, asks >>

Pass(a) ==
    /\ Evaluating(a) /\ ~Allowed(a)
    /\ UNCHANGED << saved, promSet, alertSet, pc, snap, heard, latest, ticks, asks >>

\* The row of an alarm cannot be written: the rest of the walk is left.
Break(a) ==
    /\ pc = "evaluating" /\ a \in todo /\ (\A b \in todo : Turn(a) <= Turn(b))
    /\ Allowed(a) /\ ~Cooled(a)
    /\ heard' = Append(heard, a) /\ todo' = {}
    /\ UNCHANGED << saved, promSet, alertSet, pc, snap, latest, ticks, asks >>

\* A mutant of Publish: the walk is not waited for.
PublishEarly ==
    /\ pc = "evaluating"
    /\ latest' = snap.containers
    /\ snap' = Empty /\ pc' = "idle"
    /\ UNCHANGED << saved, promSet, alertSet, todo, heard, ticks, asks >>

Publish ==
    /\ pc = "evaluating" /\ todo = {}
    /\ latest' = snap.containers
    /\ snap' = Empty /\ pc' = "idle"
    /\ UNCHANGED << saved, promSet, alertSet, todo, heard, ticks, asks >>

\* The cooldown of the oldest alarm is over.
Forget ==
    /\ heard # << >> /\ heard' = Tail(heard)
    /\ UNCHANGED << saved, promSet, alertSet, pc, snap, todo, latest, ticks, asks >>

-----------------------------------------------------------------------------
\* A request takes what it needs of the latest snapshot before it awaits Jev.
AskTriage(r, body) ==
    /\ asks[r] = Nil
    /\ asks' = [asks EXCEPT ![r] = [kind |-> "triage", state |-> TriageState(body, latest)]]
    /\ UNCHANGED << saved, tickVars >>

AskIntent(r, body) ==
    /\ asks[r] = Nil
    /\ asks' = [asks EXCEPT ![r] = [kind |-> "intent", names |-> Offered(body, latest)]]
    /\ UNCHANGED << saved, tickVars >>

Decide(r, answer) ==
    /\ asks[r] # Nil /\ asks[r].kind = "triage"
    /\ \E target \in Targets(asks[r].state) :
          asks' = [asks EXCEPT ![r] = [kind |-> "decided", answer |-> answer,
                                       is |-> Decision(asks[r].state, answer, target)]]
    /\ UNCHANGED << saved, tickVars >>

Routed(r, answer) ==
    /\ asks[r] # Nil /\ asks[r].kind = "intent"
    /\ asks' = [asks EXCEPT ![r] = [kind |-> "routed", answer |-> answer, names |-> asks[r].names,
                                    is |-> Route(answer, asks[r].names)]]
    /\ UNCHANGED << saved, tickVars >>

\* The answer is read; or Jev does not answer, not in full, or there is no key.
Close(r) ==
    /\ asks[r] # Nil
    /\ asks' = [asks EXCEPT ![r] = Nil]
    /\ UNCHANGED << saved, tickVars >>

Tick ==
    \/ Bind \/ Publish
    \/ \E ok \in BOOLEAN : Ready(ok)
    \/ \E rows \in HostAnswers, usage \in UsageAnswers, pools \in PoolAnswers : Measure(rows, usage, pools)
    \/ \E listed \in Listings, local \in LocalAnswers : List(listed, local)
    \/ \E a \in todo : Fire(a) \/ HoldBack(a) \/ Pass(a) \/ Break(a)

Request(r) ==
    \/ \E body \in TriageBodies : AskTriage(r, body)
    \/ \E body \in IntentBodies : AskIntent(r, body)
    \/ \E answer \in Answers : Decide(r, answer) \/ Routed(r, answer)
    \/ Close(r)

Next ==
    \/ Tick
    \/ \E settings \in Settings : Save(settings)
    \/ Forget
    \/ \E r \in Requests : Request(r)

Spec == Init /\ [][Next]_vars

-----------------------------------------------------------------------------
\* The light of the dashboard and the alarms of the same tick say the same.
SeenAs(told) ==
    /\ told.overall = "ok" <=> told.shown = {}
    /\ (\E a \in told.shown : a.severity = "critical") => told.overall = "error"

Seen == pc = "evaluating" => SeenAs(snap)

\* The same trouble, within one percent.
Near(a, b) ==
    /\ << a.source, a.host, a.service >> = << b.source, b.host, b.service >>
    /\ a.reading - b.reading \in -10..10

\* An alarm that a tick passes over, though loud enough, was heard a short time ago.
HeardBefore ==
    \A a \in todo \ todo' :
        (pc' = pc /\ heard' = heard /\ Allowed(a)) => \E i \in DOMAIN heard : Near(heard[i], a)

(***************************************************************************)
(* A trouble is seen and heard.  The light of the dashboard, which         *)
(* collector.py sums up from statuses, is green exactly when the alerter,  *)
(* which compares the readings with the limits once more, has no alarm of  *)
(* a host, a state of a container or a pool, and red whenever one of them  *)
(* is critical, whatever limits are saved, in whatever order               *)
(* (settings_store.py:114, collector.py:216-228, alerter.py:94-251).  And  *)
(* an alarm the cooldown holds back was heard, of the same trouble with a  *)
(* reading within one percent (alerter.py:247): not necessarily with the   *)
(* same severity, nor by anybody, as it counts as heard once it was        *)
(* dispatched, even if every channel failed (alerter.py:284-289).          *)
(***************************************************************************)
HeardAndSeen == [][HeardBefore /\ Seen']_vars

(***************************************************************************)
(* No unsure answer of Jev becomes advice: a restart is shown only for a   *)
(* cause that is known and likely enough, and never without review; logs   *)
(* are offered of a container only that was offered to Jev when the        *)
(* request was made (jev_triage.py:258-299, 336-357), whatever Jev says    *)
(* and whatever snapshots are published while it thinks.                   *)
(***************************************************************************)
Judged ==
    \A r \in Requests : asks[r] # Nil =>
        /\ asks[r].kind = "decided" =>
             /\ asks[r].is.action \notin {"human"} =>
                   asks[r].answer.cause \in Causes \ {"unclear"} /\ asks[r].answer.confidence >= ConfidenceMin
             /\ asks[r].is.action \in {"restart_after_confirm", "human"} => asks[r].is.review
        /\ asks[r].kind = "routed" =>
             /\ asks[r].is.container \in asks[r].names \cup {"none"}
             /\ asks[r].is.endpoint # << >> \/ asks[r].is.container # "none"
                   => asks[r].answer.confidence >= ConfidenceMin
=============================================================================
