# RackWatch in TLA+

RackWatch (`src/`) is one asyncio process: a FastAPI application and a collector
loop that, every few seconds, reads metrics and containers, restarts failed
containers, fires alerts, mirrors a summary to MQTT and broadcasts a snapshot to
every connected browser. This directory models the parts of it that keep state
and interact, checks them with TLC on small instances, and proves their properties
for all instances with TLAPS.

Line numbers refer to the files under `src/`.

## 1. Inventory

| Component | State it keeps | Operations | Hard behaviour | What makes it correct |
|---|---|---|---|---|
| Auto-restarter `app/services/restarter.py` | `_last_restart`, `_seen_down_at`, `_hour_window`, in memory | `evaluate`, called once a tick; `recent_restarts` (a read) | two awaits per restarted container inside the walk, with a `now` read before it; failed audit writes; a new process forgets | delay, cooldown and hourly cap hold in the complete history; nothing the rules allow is withheld |
| Alerter `app/services/alerter.py` | `_last_sent`; rows of `alerts` and `webhook_deliveries` | `evaluate` (the loop), `fire` (loop, webhooks, test routes), `recent_alerts` | two stores of the cooldown, updated on both sides of awaits, by several tasks; failing database; crash between dispatch and commit | no alarm swallowed; none repeated early without a reason; a stuck one repeated as long as the loop goes on |
| WebSocket hub `hub.py` and endpoint `routers/ws.py` | `latest`, `clients`, each client's filter | register, unregister, `publish`; handshake, filter change, ping, disconnect | clients come, go, filter and stall while a broadcast is under way; timeouts | registered means up to date; own filter; nobody goes back in time; no broadcast hangs |
| MQTT bridge `mqtt_bridge.py` | `settings`, `ok`, `_client`; the paho client's queue; the broker's retained status | `bind`, `start`, `stop`, `publish_*`, `_on_connect`, `_on_disconnect` | two threads; a join from the event loop; last will; reconnects; topics that change | one thread; honest flag; telemetry where the settings say; no hang; "online" covered by a will |
| Collector loop `collector.py`, lifespan `main.py` | `_task`, `_last_cleanup`; the settings bound to the services | `start`, `stop`, `_run`, `tick` | a failure in any stage, or between them; waits without a timeout; cancellation at any await; order of the shutdown | while the loop lives the dashboard keeps moving, settings and retention take effect; nothing is closed before the loop has ended |
| Settings store `settings_store.py`, `config.py`, `schemas.py` | rows of `setting_overrides` | `save_overrides`, `load_overrides`, `merged` | saves that overlap, one read of which is outside the write lock; failures under the lock; coercion through text; values of the environment that no bound checks; limits saved one at a time | a save is whole or absent; what is read is the environment's value or a legal one saved; the lock is given up |
| Docker adapter `docker_ctl.py` | `_client`, `_fail_until`; the threads of the default pool | `ready`, list, start, stop, restart, exec, files, logs, inspect, `close` | threads that share the client without a lock; settings rebound under a call; calls that outlive their caller; a pool that can be held | an engine that is up is found again; protected containers untouched without force; every caller answered |
| REST API, webhooks, pages `routers/*.py` | none of their own; rows of `restarts`, `alerts.acked` | container actions with audit rows, settings, triage, acknowledgements, test alerts | run between the awaits of the loop; a failing database after the deed | the audit trail is true, and complete but for named cases |
| Snapshot: sources `prometheus.py`, `local_metrics.py`, `zfs.py`, levels `status.py`, summary `_summarize`, candidates `Alerter._from_host` | none | what a tick makes of the answers of its sources | thresholds applied in three places; warning and critical limits in any order; fingerprints of rounded readings | the light and the alarms agree; nothing is held back that was not heard |
| Triage `jev_triage.py` | none; a request holds what it took of the snapshot | `run_triage`, `run_intent` | an external model that may answer anything, late | no unsure answer becomes advice; names only from those offered |
| n8n proxy, Glances, security, i18n, browser client | none worth a model | requests, checks and formatting | an unreachable source yields an empty result | - |

How they interact. The loop calls, in order and in one task: `settings_store.merged`,
the binding of the settings to all services (no await in between), the readiness
and metrics calls, `docker.list_containers`, `restarter.evaluate`,
`alerter.evaluate`, `recent_alerts`, `mqtt.publish_snapshot`, `hub.publish`; every
hour `cleanup_old_records`; then it sleeps. Requests run in other tasks between any
two awaits of the loop and share `alerter`, `hub`, `docker` and the database with
it. The paho client runs the callbacks of the bridge in a thread of its own.

## 2. Plan

Done, in this order, the most important behaviour first:

1. `RestartPolicy` (abstract), `Restarter` (detailed), refinement and proofs.
2. `Alerter` with its proofs.
3. `Hub` (hub and endpoint) with its proofs; `Feed` (abstract), which it implements.
4. `Mqtt` (bridge, paho, brokers) with its proofs.
5. `Collector` (loop and lifespan, which composes the services by the order of a
   tick) with its proofs.

6. `Docker`: the adapter, its threads and the callers of every route, with proofs.
7. `AtomicSettings` (abstract), `Settings` (detailed), refinement and proofs.
8. `Snapshot` (pure operators), `Triage` (pure operators) and `Monitor`, which composes
   them by the order of a tick and the life of a request, with proofs.

What could still be added:

9. An abstract specification of the cooldown of alerts that `Alerter` implements.
10. The delivery of an alert over its channels (`alerter.py:280-390`): today a dispatch
   is one step with any outcome.
11. `Restarter`'s walk over the threads of `Docker`, as one composition: today the walk
   is one of `Docker`'s callers ("loop"), and `Restarter` sees its answers.

## 3. Modules

Constants are parameters with named assumptions; a module's `Next` has one action
per operation or per stretch of code between two awaits. Definitions called "a
mutant of" an action are variations with a plausible bug; no specification uses
them. They show that each property can fail.

### RestartPolicy, Restarter

`Restarter` keeps `settings`, `seenDown`, `lastRestart`, `hourWindow` (the three
dictionaries), the containers Docker has (`up`), the clock in seconds, the walk
(`pc`, `evalAt`, `healthy`, `todo`, `current`), and two history variables, `attempts`
and `lastUp`. `List` is the tick up to the list handed over (which may lack
containers: the engine may fail in the middle). `EvaluateDisabled` and
`EvaluateStart` are `evaluate` up to the walk; `SkipProtected`, `SkipWaiting`, `SkipCapped`
and `Issue` are the gates for one container, up to `await docker.restart`;
`Restarted` is what follows that await, `PersistOk` and `PersistFails` what follows
the audit write. `Reboot` loses the dictionaries. The deny- and allow-lists are the
set of names they protect.

`RestartPolicy` says what is promised with no memory at all: its rules are conditions on the
complete history. `Policy == INSTANCE RestartPolicy` in `Restarter` is the mapping:
same settings, the history variables.

### Alerter

Time is counted as AGES: `known` (the entry of `_last_sent`), `row` (the newest
row), `since` (the latest dispatch, a history variable) are the ages of one alarm's
fingerprint, up to `MaxAge`; this makes time unbounded and fairness checkable.
Tasks are the loop and the callers of `fire`. `Begin`, `SkipLow`, `SkipCooling`,
`Ask`, `Read`, `ReadFails`, `Resume`, `Judge`, `SendKnown` are `evaluate` and `_cooled` cut at their
awaits: `Resume` writes what was read into the memory (`alerter.py:86`), the session is closed across one more
await, and `Judge` decides by what was read (`alerter.py:90-92`). `Call` is a request that fires directly; `Sent`, `SaveOk`, `SaveFails`
are `fire`. `Purge` is the retention, which takes rows of the age `Retention`, whether a cooldown is longer or not;
`Reboot` is a new process. `LoopStops` is the end of the loop's task (`collector.py:105`), or a tick that waits for
ever. `rival`, a history variable, is the task that has dispatched the alarm the loop is looking up. A dispatch is one
step, and counts whether any channel delivered or not, as it does in `_last_sent` (`alerter.py:284-289`).

### Feed, Hub

Snapshots are numbers, filters names. `Publish`, `BeginSend`, `SendOk`, `SendFails`,
`Finish` are `Hub.publish`, whose sends run concurrently and share payloads in `cache`;
`Connect`, `Reject`, `SetFilter`, `Ping`, `Drained`, `HandlerFails`, `HangUp` are the handler in
`ws.py`. A connection is open, stuck (it does not drain) or lost. The rate limit is
a hang-up that may come at any message.

`Feed` is what subscribers may count on, with no broadcast, connection or cache in it: the next
publication comes only when everybody who subscribes has been shown this one, what is shown is the latest, through
the filter asked for last, and the feed itself shows a publication to each once. `Feed == INSTANCE Feed WITH ...` in
`Hub` is the mapping: `clients` are the subscribers, `filter` what was asked for, `got` what was shown, and
`waiting`, the targets whose send has not begun, are those due. The beginning of a send is the `Show`: that is when the
payload is chosen (`hub.py:128-137`); that it may fail later is a `Leave`.

### Mqtt

`Bind`, `Stop`, `Joined`, `Start`, `Assign`, `StartFails`, `Publish` are the event loop's thread,
cut where the other thread can run between: after the settings are taken, at the
join, before `self._client` is assigned. `OnConnect` and `Announce` are the two
halves of `_on_connect`, `OnDisconnect` the other callback. The paho client and
the broker are external: a queue of messages, a join that waits for the thread, a
session per broker that ends with the will unless the client disconnected, a
retained status per topic. All clients have one identifier, so a new connection
takes over the session of the one before. The identifier holds the instance name (`mqtt_bridge.py:66`), which
`bind` does not compare: a new name counts from the next client on, whose connection then takes nothing over. Names
do not change in the model. Nor does an error inside `stop` have a step: paho answers with codes there, and the
handler (`mqtt_bridge.py:101-104`) would leave the same `_client` and `ok`.

### Collector

`place` is the await the loop is at. A stage of a tick leads to the next whether it
succeeds or fails (`Stage`), because its failures are caught where they happen; what is caught nowhere in
a tick (the read of the settings, their binding, which may be half done, the local host and the making of the snapshot) fails the
tick as a whole (`TickFails`), the retention fails alone
(`RetentionFails`), the last read ends the task (`RefreshFails`). `Hang` is a wait for a thread of the default pool
that no timeout ends (`docker_ctl.py:75,79`): the place "stuck". `Cancelled` may hit any
await, that one too. `life` and `closed` follow the lifespan; `Aborted` is a shutdown that meets the error of
a dead task.

### Docker

Every call is a caller (`at`, `reply`, `row`) and a thread (`th`, `outcome`). A thread's steps are
its reads and writes of what is shared: `Deny` and `Allow` are the two reads of the settings in
`_guard`; `Look`, `Take`, `Make`, `Ping`, `Fail` are `_connect`, where `client` is set before it is
pinged and read again before it is returned; `Done` and `Error` are the use of the client, whose
answer may be lost. `Refuse` is what the event loop refuses without a thread, `Start` takes a call
from the pool's queue, `Return`, `Record`, `RecordFails` are what follows the await, with the audit row
of the API and the pages (webhooks write none), `Timeout` is the fifteen seconds of a command,
`Cancel` the end of the loop. The tick (`Tick`) calls again and again, the others once. `age` is the
time since a thread read the clock, as the back-off counts from there. All calls are about one
container, so the settings are the set of lists that stop it; `lenient` is a history variable: the
lists that let the container pass at some time of the call.

### AtomicSettings, Settings, SettingsText

`AtomicSettings` promises one map, which each save changes in one step or not at all: of each key a reader gets the value of
the environment (`Default`), which need not be one that may be saved, or a legal one (`Readable`).
`Settings` has the rows, SQLite's write lock and each save's way through `save_overrides`:
`Submit` or `Reject` (validation), `ReadFirst` (the row of the first key, outside any transaction), `Lock`
(the first write), `Commit`, `Fail`. A page posts every key it showed (`form`), an API client some. The mapping
`Atomic == INSTANCE AtomicSettings WITH values <- Merged, asked <- want` sees what a reader would.
`met` is a history variable of both: the keys that had the value asked for at some time of the save, since
the first key is not written if its row was found to hold what is wanted, even if another save changes it in
between. `SettingsText` says how text becomes a value and a value text; the proofs need of it only
that the text of a legal value means that value (`SettingsAssumption`, evaluated by TLC for the operators).

### Snapshot, Triage, Monitor

`Snapshot` has the levels, the hosts, containers and pools a tick makes of rows, `Overall` (the light), the
candidates of `Alerter.evaluate` and their fingerprints, with readings in tenths of a percent (the code keeps those of containers in hundredths,
`prometheus.py:164,186`; no property depends on the difference). `Triage` has
`decide_triage`, `decide_intent` and what they are given. `Monitor` runs them: `Bind`, `Ready`, `Measure`, `List` are the
tick up to the snapshot, `Fire`, `HoldBack`, `Pass`, `Break` the walk over its alarms, `Publish` the hub's
`latest`; `AskTriage` and `AskIntent` take what they need of `latest`, `Decide` and `Routed` judge an answer that comes any
time later, over snapshots published meanwhile. `Save` may change the limits at any await. The cooldown is a sequence of
what was heard, which `Forget` shortens at any time; "heard" is dispatched, even if no channel delivered; that a raised cooldown brings an old dispatch
back, and what webhooks fire, is `Alerter`'s. Candidates are a set: hosts that share a name, and the same reading,
are one alarm, as they are one fingerprint. `NaN`, which Prometheus can answer and every comparison fails for,
is not modelled.

## 4. Runs

| Run | Module, configuration | Expected | Shows |
|---|---|---|---|
| `restarter` | `MCRestarter` | pass | the restarter implements the policy, honours cooldown and cap, withholds nothing |
| `alerter` | `MCAlerter` | pass | silence is earned, early repeats have a named reason, a stuck alarm repeats while the loop goes on |
| `alert_stale_read` | `MCAlerterClaims`, `AlertStaleRead.cfg` | violation | the loop decides by what it saw before an await, and sends what a request has sent meanwhile |
| `hub` | `MCHub` | pass | registered clients are up to date, filtered as asked; hub, handlers and overlapping sends look like one publication after the other (`Feed`); broadcasts end |
| `hub_dropped` | `MCHub`, `HubDropped.cfg` | violation | a browser dropped after a slow send stays connected and hears nothing more |
| `mqtt` | `MCMqtt` | pass | one thread, honest flag, telemetry as set, every stop ends |
| `mqtt_online` | `MCMqtt`, `MqttOnline.cfg` | violation | a changed topic leaves "online" behind |
| `collector` | `MCCollector` | pass | while the loop lives snapshots keep coming, settings and retention take effect; a shutdown closes everything behind it, also one that waits for ever |
| `collector_dies` | `MCCollector`, `CollectorDies.cfg` | violation | one failing read ends the loop silently |
| `docker` | `MCDocker` | pass | protected containers untouched, a true audit, the engine found again, every caller answered |
| `settings` | `MCSettings` | pass | saves are atomic, what is saved is legal, the store stays writable |
| `monitor` | `MCMonitor` | pass | the light agrees with the alarms, held-back alarms were heard, no unsure advice |

What the four violations say about the code is in `PROJECT.json` under "findings", with
the line of the repository each contradicts.

Facts the models show that no run asserts, worth knowing to a maintainer:

- The window of the hourly cap lives in memory (`restarter.py:37-39`), so an hour that holds a reboot of
  RackWatch may hold more automatic restarts than the cap (`.env.example:53` speaks of a hard cap); `Reboot` of
  `Restarter` empties it.
- A restart is stamped with `now`, read before the walk (`restarter.py:53`): `LoopProtection` counts from
  that time, and two calls may be closer on the wall clock than the cooldown.
- A crash between the dispatch of an alert and the commit of its row makes the next process send it
  again (`Reboot` in `Alerter`; `NoRepeatWhileRemembered` speaks of what is remembered).
- `_guard` reads the settings twice: between the two, the tick may bind new ones, and a container stopped by the
  old allow-list and by the new denylist passes (`ProtectedUntouched` promises each list at some time of the call, not
  both at once; `MCBindings` has such settings).
- Webhooks restart without an audit row (`webhooks.py:47-71`); `models.py:47` speaks of every restart.
- Values of the environment have no bounds (`config.py:59-134`, but for two): a threshold over 100 or a cap of 0 runs as it
  is, and the settings page, which posts every key it shows, has each save refused until that value is changed
  (`MCSettings` has such a default).
- A cooldown from the environment may be longer than the retention: the purge then deletes a row a new process
  would read, and the alarm is sent again (`Purge` of `Alerter`).
- A tick that waits for a thread of a pool held by commands stands still with no error, until the process
  is shut down (`Hang` of `Collector`, `Hogged` of `Docker`).
- A save skips its first key if it found the wanted value there, though another save changes it before the
  commit.
- A pool in warning makes the light red (`collector.py:222-226`); an unreachable Prometheus and a container over
  its limits are alarms that do not show in the light (`ShownAlarms`).
- 94.6 and 95.0 percent share a title, and so a fingerprint: with limits of 90 and 95 the escalation to
  critical is silent until the cooldown of the warning is over. `HeardBefore` (in `HeardAndSeen`) says "the same trouble within one percent",
  not "the same severity".
- The target of triage is the service of the alert, which for a host is "cpu", "ram" or "disk"
  (`alerter.py:246`), though `docs/JEV_TRIAGE.md:24` calls it a container.

### Bounds

- `restarter`: two containers (one walks while the other waits), four settings the
  operator switches between, a clock of five seconds with an "hour" of two: windows
  fill, age and are pruned, and two containers are enough for one restart to
  delay another. The clock stops at `MaxTime`, so no liveness is asked of it.
- `alerter`: a warning and a critical alarm, one concurrent caller, two settings, ages up
  to 2 with cooldowns of 1 and 2, a retention of 1 (inside the longer cooldown), one failure or crash. One more of any of them
  only repeats the interleavings, since alarms do not share state but the walk.
- `hub`: two sockets, two filters, three snapshots: the third shows what becomes of a
  client dropped by the second.
- `mqtt`: two brokers, two topics and "off", two clients (one replaced by the other, or by
  that of a new process), telemetry held back behind one queued message. The status
  messages are not bounded by `MaxQueue`.
- `collector`: two settings, an "hour" of two laps, two failures or reboots in all.

- `docker`: the tick and two more callers, in five pairings: two actions racing for the client of a pool of two (one of
  them the walk's), a webhook, a forced action, a file, and two commands that can hold a pool of one. Settings are
  those under which either read stops the container. A back-off of two, one database failure. A third
  caller repeats the races, as every step of a thread meets one other's.
- `settings`: a page and an API client, a number with two legal values whose default is neither, a flag, texts that are
  legal, padded, malformed, out of bounds or for an unknown key. Two keys tell a whole save from half of one;
  two savers clash on a first insert.
- `monitor`: two ticks (the second meets what the first was heard of), settings with the limits in the right and in
  the wrong order, readings on both sides of each limit and of a rounding, two instances with one host name, a pool of
  each source, one request of triage with answers that are sure, just unsure, unknown, and naming a
  container that is gone.

Deadlock is checked where the system never stops (`alerter`, `collector`, `settings`); the clock of
`restarter`, the snapshots of `hub` and the clients of `mqtt` are bounded, and these
runs may end; `docker` ends with its process, `monitor` with its ticks.

### Fairness

Each condition has a name in its module (`LoopRuns`, `HandlerRuns(s)`, `ServeRuns(c)`, ...), and `FairSpec` is the
specification with all of them.

- `Alerter`, `Hub`, `Collector`: weak fairness of each task's next step. The event
  loop runs every task that is ready, and what the tasks await has a timeout (HTTP
  clients, the 4 s of a send, SQLite's busy timeout), with one exception: the loop's waits for a thread of the
  default pool. A browser is never assumed to drain, to answer or to close.
- That the loop lives is not assumed. In `Collector` it may die (`RefreshFails`) or wait for ever (`Hang`), in
  `Alerter` stop (`LoopStops`) at any tick; none of the three has fairness, and a loop that has stopped has no step its
  fairness could ask for. What must come while the loop goes on says so in the property (`Served`, `Running`).
- `Mqtt`: weak fairness of the event loop's thread and of each paho thread (connecting
  times out, a connection that delivers nothing is lost to the keepalive). Dialing
  again, a loss and the end of a session are not assumed.
- `Docker`: strong fairness of `Start` (the pool serves its queue in order: a call that finds a thread free again
  and again gets one), weak fairness of a thread's own steps, of what follows an await, of the clock and of the timeout of a command.
  An engine that is asked answers or times out in two seconds (`docker_ctl.py:65`), but a command may run
  for ever: its `Use` has no fairness, and `Hogged` names the case that such commands hold the whole pool. Strong fairness of `Done(Tick)`: a
  list is not spoiled every time. The engine comes and goes as it likes.
- `Settings`: weak fairness of a save's steps: each of its awaits ends, if only by SQLite's busy timeout (`database.py:66`).
- Failures of the database and crashes are bounded (`MaxFaults`, `MaxFailures`), as "only
  finitely often" in the liveness properties.

## 5. Proofs

TLAPS proves, for all values of the constants that meet the modules' assumptions (42 theorems are listed; every property
of the runs that must pass is stated by one):

| Module | Safety and refinement | Liveness |
|---|---|---|
| `RestarterProofs` | `TypeCorrect`, `MemoryCorrect`, `RefinesPolicy`, `Protected`, `WithholdsNothing` | - |
| `AlerterProofs` | `TypeCorrect`, `TimesCorrect`, `SilenceEarned`, `RememberedNotRepeated` | `StuckAlarmsAreTold` |
| `HubProofs` | `TypeCorrect`, `RefinesFeed`, `NobodyIsMissed`, `FiltersAreHonoured`, `GhostsAreGone`, `NoneGoesBackwards` | `BroadcastsFinish`, `LostOnesLeave` |
| `MqttProofs` | `TypeCorrect`, `OneThreadRuns`, `OkIsHonest`, `SettingsTakeEffect` | `LossShows`, `StopsFinish` |
| `CollectorProofs` | `TypeCorrect`, `ClosedAtRest` | `ShutdownFinishes`, `SnapshotsKeepComing`, `SavedSettingsBind`, `PurgesInTheEnd` |
| `DockerProofs` | `TypeCorrect`, `AuditIsTruthful`, `ProtectedAreUntouched` | `CallersAreAnswered`, `EngineIsFoundAgain` |
| `SettingsProofs` | `TypeCorrect`, `SavesAreAtomic` | `LockIsGivenUp` |
| `MonitorProofs` | `TypeCorrect`, `TroubleIsHeardAndSeen`, `AdviceIsJudged`, `RisingReadingsLookNoBetter` | - |

### Safety and refinement

- Restarter. `MemoryMatchesHistory` is the inductive invariant: `_last_restart` is the latest
  known attempt, the window a tail of the attempts whose missing part is too old
  at the current horizon, `_seen_down_at` never before the last healthy sighting.
  It is needed because the gates read the dictionaries while the policy speaks of
  the history: with it, a step that passes the gates (`Issue`) is a step the policy
  allows (`RefinesPolicy`), and a step that fails one is one the policy forbids
  (`WithholdsNothing`). `Protected` then follows from the abstract policy alone.
  Assumption worth noting: cooldowns are at most the time of the first boot, as
  clocks count from 1970 and the absent entry reads as 0.
- Alerter. `TimesAreReal` is inductive with the types: no store claims a dispatch
  younger than the latest one. Silence then is earned because each gate reads such a
  store. The repeats need that an alarm nobody else has dispatched while the loop looks it up (no `rival`) is judged by
  the row as it still stands, for which no row of it may be on its way.
- Hub. The invariant relates the clients still to be served in a broadcast, those being sent
  to and those that have failed to the number each has been handed; `cache` holds
  only payloads of the latest snapshot. From it follows the refinement: the cache gives a `BeginSend` what `Show` wants, and
  a `Publish` finds everybody served, because the collector awaits one broadcast before it publishes again.
- Mqtt. The invariant adds that a connection of any kind belongs to the client the bridge
  is busy with (`OneLink`), and where the event loop's thread must be for there to
  be one (`Place`).
- Collector. The lifespan closes only behind a cancelled task (`Order`).
- Docker. The invariant ties a thread's place to its caller's and to what `lenient` must hold there:
  behind `Allow` both lists have let the container pass. A row is only written with the outcome its thread
  brought, and an outcome of success only by the step that sets `acted`.
- Settings. What is stored is legal, so what is read is that or the environment's value. The mapped step of `Commit` is an `Apply`: every row the save writes means the value wanted, and
  the first one, if it is left, was found so, hence is in `met`. That rests on `First` being in the save's keys, which needs
  a least element (`FirstIn`, from the well-foundedness of the naturals).
- Monitor. The light and the candidates are two computations on the same readings: a host's status is at least
  "warning" exactly if some resource reaches one of its limits, and "error" exactly if one reaches the critical one, because
  `Level` and `HostAlarms` both look at the critical limit first. It holds for limits in any order, and needs that all
  services are bound to the same settings, which is why the invariant carries the settings of a tick.
  What is held back shares a fingerprint with something heard, so both round to the same percent and are within
  one of each other.

### Liveness

This prover has no rule for ENABLED, and cannot do induction inside a temporal formula. A liveness theorem therefore
reads `FairSpec /\ <hypotheses> => <property>`, where the hypotheses are of these two kinds only, each under a name of
its own and in front of the theorem:

- "A guard enables its action" (`LoopEnabled`, `HandlersEnabled`, `CallsEnabled`, `ThreadsEnabled`, ...): wherever
  a condition on the state holds, the action is enabled. The condition is written out, and each can be read
  off the guards of the action: every conjunct of the guard is in it, or is what the action's disjuncts divide between them, and
  the step taken changes something.
- "An induction" (`TargetsRunOut`, `LapsAddUp`, `FallingFailuresStop`, `WorkRunsOut`, `CallsEnd`, `CoolsDown`, ...): an
  instance, at one measure of the module, of a valid rule. Each is an implication that says that what falls with every
  lap, a natural number or a finite set, runs out; that a number that only falls, or rises under a bound, comes to rest; or (`AllEnd`) that
  what holds in the end of each of finitely many calls holds in the end of all. They are true of any behaviour whatever, so
  they restrict nothing; their premises, that the measure is of that kind and that each lap lowers it, are proved.

What is proved is all that depends on the code: the measures, that no step of anybody raises them, that
the fair step lowers them, that a guard stays up until its action is taken, and that each stage of a path leads to the
next. TLC checks the conclusions themselves on the small instances, without hypotheses.

- Hub. `Targets` counts the sends to begin and the sends to end; a registration on the way adds no target, a hang-up takes
  none away.
- Collector. `Here` and `There` walk a lap await by await; failures, being bounded, stop, and then each lap goes
  through or hangs; of a loop that died or hangs nothing is claimed but that a shutdown gets past one that hangs. A save between `Merge` and `Bind` is bound one lap later. A shutdown has five services to close.
- Mqtt. A thread that is joined has its queue, its callbacks and its connection to get through (`Work`), and a start
  behind the stop may fail and be tried again only as often as clients are left (`Left`).
- Alerter. `ToDo` is what an evaluation has left to do. A lasting alarm's age grows to `MaxAge` or it was sent; once aged
  and faults over, and if the loop goes on, the next evaluation reaches it, and no store lets it be skipped, by `TimesAreReal`.
- Docker. `Work` holds the places a thread has ahead of it, for all calls, so a full pool has a call that moves or is held by commands alone
  (`SomeoneMoves`); it frees, so the strong fairness of `Start` serves the queue. For the recovery the calls, each made once, are over in
  the end, and then the tick is alone with the client: it is refused while the back-off runs, dials when it
  has run, and is listed.
- Settings. The lock is held only where a save can commit or fail, and nobody else can take it away.

Only model-checked: that the hypotheses of the liveness theorems can be dropped (TLC checks the properties with none). There is no recursive
operator in the project.

## 6. Not modelled, and why

- HTTP calls to Prometheus, Glances, Telegram, WhatsApp, n8n: stateless requests whose
  failures yield empty results or a channel that did not deliver, which decides nothing in the modelled state.
  The log of deliveries is written and never read.
- The wording of alerts and of Jev's questions, pages, translations, rendering, `/metrics` gauges, the averages of the
  summary.
- What a path or a command in a container must look like (`docker_ctl.py:169-215`): a choice of `Start`.
- Acknowledging an alert (`api.py:113-124`) sets one column nothing else reads.
- Authentication, sessions, origins (`security.py`): stateless checks in front of the handlers; a refused
  handshake is `Hub`'s `Reject`.
- The n8n proxy (one request each) and the browser client (a socket of `Hub`; a reconnection is another socket).
- Items 9 to 11 of the plan.
