------------------------------- MODULE Collector -------------------------------
(***************************************************************************)
(* The collector's loop (app/services/collector.py) and the lifespan that  *)
(* starts it and shuts the process down (app/main.py): the order of a      *)
(* tick, the settings it runs under, what a failing dependency ends, the   *)
(* hourly retention, an await that never ends, and the cancellation of the *)
(* loop at any await.                                                      *)
(*                                                                         *)
(* What the restarter, the alerter, the bridge and the hub do in their     *)
(* stages is in their own modules.  Time is counted in laps of the loop.   *)
(***************************************************************************)
EXTENDS Integers, Sequences

CONSTANTS Settings,     \* what the operator may save
          Hour,         \* the laps of an hour
          MaxFailures   \* bound: failures of what a tick and the loop await or call

ASSUME CollectorAssumption ==
    /\ Hour \in Nat \ {0}
    /\ MaxFailures \in Nat

VARIABLES
    place,      \* the await the loop is at
    read,       \* the settings last read from the database
    bound,      \* the settings the services run under
    stored,     \* the settings in the database
    age,        \* laps since _last_cleanup
    expired,    \* whether rows are older than the retention
    beat,       \* changes with every new hub.latest
    cancelled,  \* whether the loop has been cancelled
    life,       \* where the lifespan is
    closed,     \* the services it has closed, counted along Closing
    failures    \* failures left

loop == << place, read, bound, age, beat >>
vars == << loop, stored, expired, cancelled, life, closed, failures >>

\* The awaits of a tick whose failures are caught where they happen, and those of
\* them that wait for a thread of the default pool (asyncio.to_thread).
Stages   == {"probe", "fetch", "list", "restart", "alert", "recent"}
Threaded == {"probe", "fetch", "list", "restart"}

\* "stuck" is an await that never ends, "dead" a task that has ended with an error.
Places ==
    Stages \cup {"merge", "bind", "send", "retention", "purge", "refresh", "sleep",
                "stuck", "cancelled", "dead"}

\* The services in the order the lifespan closes them; the first two at once.
Closing == << "mqtt and docker", "prom", "alerter", "n8n", "glances" >>
Lives   == {"serving", "closing", "ending", "aborted"}

TypeOK ==
    /\ place \in Places
    /\ read \in Settings /\ bound \in Settings /\ stored \in Settings
    /\ age \in 0..(Hour + 1)
    /\ expired \in BOOLEAN
    /\ beat \in 0..1
    /\ cancelled \in BOOLEAN
    /\ life \in Lives
    /\ closed \in 0..Len(Closing)
    /\ failures \in 0..MaxFailures

\* A process starts: _last_cleanup is 0, so the retention is due.
Init ==
    /\ stored \in Settings /\ read = stored /\ bound \in Settings
    /\ place = "merge" /\ age = Hour + 1 /\ beat = 0
    /\ expired \in BOOLEAN
    /\ cancelled = FALSE /\ life = "serving" /\ closed = 0
    /\ failures = MaxFailures

-----------------------------------------------------------------------------
\* The loop.

\* It runs on from an await, unless it has been cancelled.
At(p) == place = p /\ ~cancelled

\* What the loop awaits or calls fails.
Fails == failures > 0 /\ failures' = failures - 1

\* A mutant of Resume: _last_cleanup is set on every lap.
ResumeTouching ==
    /\ place' = IF age > Hour THEN "retention" ELSE "refresh"
    /\ age' = 0

\* A mutant of Resume: _last_cleanup waits for a cleanup that succeeds.
ResumeLater ==
    /\ place' = IF age > Hour THEN "retention" ELSE "refresh"
    /\ UNCHANGED age

\* Behind a tick, whether it failed or not: the retention, if it is due. The hour
\* counts from the attempt.
Resume ==
    IF age > Hour
    THEN place' = "retention" /\ age' = 0
    ELSE place' = "refresh" /\ UNCHANGED age

Merge ==
    /\ At("merge")
    /\ read' = stored /\ place' = "bind"
    /\ UNCHANGED << bound, age, beat, stored, expired, cancelled, life, closed, failures >>

\* A mutant of Bind: the services keep the settings they have.
BindNone ==
    /\ At("bind")
    /\ place' = "probe"
    /\ UNCHANGED << read, bound, age, beat, stored, expired, cancelled, life, closed, failures >>

\* All services take the settings read, without an await between them.
Bind ==
    /\ At("bind")
    /\ bound' = read /\ place' = "probe"
    /\ UNCHANGED << read, age, beat, stored, expired, cancelled, life, closed, failures >>

\* What no stage catches fails the tick as a whole: the read of the settings, the
\* binding of them (by the bridge, which comes last, or by one before it), and what
\* is between the list of containers and the restarter, the local host and the
\* making of the snapshot.
TickFails ==
    /\ \/ At("merge") /\ UNCHANGED bound
       \/ At("bind") /\ bound' \in {bound, read}
       \/ At("list") /\ UNCHANGED bound
    /\ Fails /\ Resume
    /\ UNCHANGED << read, beat, stored, expired, cancelled, life, closed >>

\* The default pool is held by commands that never end (Docker, Hogged), and the
\* thread the loop waits for never starts; asyncio.to_thread has no timeout.  A wait
\* that ends after all is one more slow await.
Hang ==
    /\ \E p \in Threaded : At(p)
    /\ place' = "stuck"
    /\ UNCHANGED << read, bound, age, beat, stored, expired, cancelled, life, closed, failures >>

\* Where a stage leads, whether what it awaits succeeds or fails.
After == [probe |-> "fetch", fetch |-> "list", list |-> "restart",
          restart |-> "alert", alert |-> "recent"]

\* A mutant of Stage: a failing alerter fails the tick.
StageRaises(p) ==
    /\ At(p)
    /\ \/ place' = After[p] /\ UNCHANGED age
       \/ p = "alert" /\ Resume
    /\ UNCHANGED << read, bound, beat, stored, expired, cancelled, life, closed, failures >>

Stage(p) ==
    /\ At(p)
    /\ place' = After[p]
    /\ UNCHANGED << read, bound, age, beat, stored, expired, cancelled, life, closed, failures >>

\* The last stage; the mirror to MQTT and the first part of hub.publish follow
\* without an await, and the broadcast is awaited.
Publish ==
    /\ At("recent")
    /\ beat' = 1 - beat /\ place' = "send"
    /\ UNCHANGED << read, bound, age, stored, expired, cancelled, life, closed, failures >>

\* The broadcast is over, or has failed, which ends the tick in the same way.
Sent ==
    /\ At("send")
    /\ Resume
    /\ UNCHANGED << read, bound, beat, stored, expired, cancelled, life, closed, failures >>

\* The retention reads the settings for its days.
Retention ==
    /\ At("retention")
    /\ place' = "purge"
    /\ UNCHANGED << read, bound, age, beat, stored, expired, cancelled, life, closed, failures >>

Purge ==
    /\ At("purge")
    /\ expired' = FALSE /\ place' = "refresh"
    /\ UNCHANGED << read, bound, age, beat, stored, cancelled, life, closed, failures >>

\* Nothing is deleted, and the loop goes on.
RetentionFails ==
    /\ \E p \in {"retention", "purge"} : At(p) /\ Fails
    /\ place' = "refresh"
    /\ UNCHANGED << read, bound, age, beat, stored, expired, cancelled, life, closed >>

Refresh ==
    /\ At("refresh")
    /\ place' = "sleep"
    /\ UNCHANGED << read, bound, age, beat, stored, expired, cancelled, life, closed, failures >>

\* Nothing catches this one: the task ends with the error.
RefreshFails ==
    /\ At("refresh") /\ Fails
    /\ place' = "dead"
    /\ UNCHANGED << read, bound, age, beat, stored, expired, cancelled, life, closed >>

Wake ==
    /\ At("sleep")
    /\ place' = "merge"
    /\ age' = age + 1
    /\ UNCHANGED << read, bound, beat, stored, expired, cancelled, life, closed, failures >>

\* A mutant of Cancelled: a tick takes its cancellation for a failure.
CancelledCaught ==
    /\ cancelled /\ place \notin {"cancelled", "dead"}
    /\ IF place \in Stages
       THEN Resume /\ cancelled' = FALSE
       ELSE place' = "cancelled" /\ UNCHANGED << age, cancelled >>
    /\ UNCHANGED << read, bound, beat, stored, expired, life, closed, failures >>

\* The await the loop is at, one that never ends too, raises CancelledError, which
\* no handler keeps.
Cancelled ==
    /\ cancelled /\ place \notin {"cancelled", "dead"}
    /\ place' = "cancelled"
    /\ UNCHANGED << read, bound, age, beat, stored, expired, cancelled, life, closed, failures >>

-----------------------------------------------------------------------------
\* The lifespan.

\* collector.stop up to its await.
Shutdown ==
    /\ life = "serving"
    /\ life' = "closing"
    /\ cancelled' = (place # "dead")
    /\ UNCHANGED << loop, stored, expired, closed, failures >>

\* A mutant of Stopped: the task is cancelled and not awaited.
StoppedAtOnce ==
    /\ life = "closing"
    /\ life' = "ending" /\ closed' = 1
    /\ UNCHANGED << loop, stored, expired, cancelled, failures >>

\* The task awaited has ended: the bridge is stopped and the Docker client closed.
Stopped ==
    /\ life = "closing" /\ place = "cancelled"
    /\ life' = "ending" /\ closed' = 1
    /\ UNCHANGED << loop, stored, expired, cancelled, failures >>

\* A task that died with an error raises it again in stop.
Aborted ==
    /\ life = "closing" /\ place = "dead"
    /\ life' = "aborted"
    /\ UNCHANGED << loop, stored, expired, cancelled, closed, failures >>

Close ==
    /\ life = "ending" /\ closed < Len(Closing)
    /\ closed' = closed + 1
    /\ UNCHANGED << loop, stored, expired, cancelled, life, failures >>

-----------------------------------------------------------------------------
\* The operator, the calendar and the machine.

Save(s) ==
    /\ life = "serving"
    /\ stored' = s
    /\ UNCHANGED << loop, expired, cancelled, life, closed, failures >>

Expire ==
    /\ expired' = TRUE
    /\ UNCHANGED << loop, stored, cancelled, life, closed, failures >>

\* A new process, after a shutdown or a crash; it takes one of the failures too.
Reboot ==
    /\ failures > 0
    /\ failures' = failures - 1
    /\ read' = stored /\ bound' \in Settings
    /\ place' = "merge" /\ age' = Hour + 1 /\ beat' = 0
    /\ cancelled' = FALSE /\ life' = "serving" /\ closed' = 0
    /\ UNCHANGED << stored, expired >>

-----------------------------------------------------------------------------
Loop ==
    \/ Merge \/ TickFails \/ Bind \/ Publish \/ Sent
    \/ \E p \in Stages \ {"recent"} : Stage(p)
    \/ Retention \/ Purge \/ RetentionFails
    \/ Refresh \/ RefreshFails \/ Wake
    \/ Cancelled

Lifespan == Stopped \/ Aborted \/ Close

Next ==
    \/ Loop \/ Lifespan \/ Hang \/ Shutdown \/ Expire \/ Reboot
    \/ \E s \in Settings : Save(s)

Spec == Init /\ [][Next]_vars

\* The event loop runs what is ready, and an await ends unless it is one of those
\* that Hang makes endless: httpx, the broadcast and the sleep have their times, and
\* the database answers or fails.  A stuck loop has no step to take but to be
\* cancelled.
LoopRuns     == WF_vars(Loop)
LifespanRuns == WF_vars(Lifespan)

Fairness == LoopRuns /\ LifespanRuns

FairSpec == Spec /\ Fairness

-----------------------------------------------------------------------------
\* The process serves, and its loop neither has ended nor waits for ever.
Served == life = "serving" /\ place \notin {"dead", "stuck"}

(***************************************************************************)
(* The dashboard keeps moving: whatever the stages of a tick run into, and *)
(* although a tick fails as a whole now and then, a new snapshot reaches   *)
(* the hub again and again for as long as the process serves and its loop  *)
(* lives. Two things end that: a failing read of the interval to sleep,    *)
(* and a wait for a thread of a pool that never-ending commands hold       *)
(* (collector.py, 84-106 and 117-211; docker_ctl.py, 75 and 79).           *)
(***************************************************************************)
KeepsServing == \A b \in 0..1 : Served /\ beat = b ~> beat # b \/ ~Served

(***************************************************************************)
(* Settings saved and left alone are those the services run under, sooner  *)
(* or later while its loop lives, although a save may fall between the     *)
(* read of the old ones and their binding, and the binding may fail        *)
(* (collector.py, 109-114).                                                *)
(***************************************************************************)
SettingsTakeEffect ==
    \A s \in Settings : Served /\ stored = s ~> bound = s \/ stored # s \/ ~Served

(***************************************************************************)
(* Rows past the retention are deleted in the end while the loop lives,    *)
(* although the hour is counted from an attempt that may have failed       *)
(* (collector.py, 94-103).                                                 *)
(***************************************************************************)
ExpiredArePurged == expired ~> ~expired \/ ~Served

(***************************************************************************)
(* The lifespan closes no service before the loop's task has ended, so     *)
(* that no step of a tick runs on services closed or being closed; what a  *)
(* cancelled step left to a thread may run on, and is not meant (main.py,  *)
(* 89-99; collector.py, 67-73).                                            *)
(***************************************************************************)
NothingAfterClose == closed > 0 => place = "cancelled"

(***************************************************************************)
(* A shutdown comes to its end wherever in the tick it finds the loop, at  *)
(* an await that never ends too, and closes everything, unless the loop    *)
(* had died before (main.py, 91-100; collector.py, 67-73).                 *)
(***************************************************************************)
ShutdownEnds ==
    life = "closing" /\ place # "dead" ~> closed = Len(Closing) \/ life = "serving"

(***************************************************************************)
(* docs/ARCHITECTURE.md, 39: "a sick dependency cannot stall the live      *)
(* LED": the loop lives while the process serves.                          *)
(***************************************************************************)
LoopLives == life = "serving" => place # "dead"
=============================================================================
