------------------------------- MODULE Alerter -------------------------------
(***************************************************************************)
(* The alerter (app/services/alerter.py): evaluate, which the collector's  *)
(* loop calls on every snapshot, and fire, which the webhook and the two   *)
(* test routes call too, at any time.                                      *)
(*                                                                         *)
(* An alarm stands for a fingerprint: a condition of one source, host,     *)
(* service and title.  The cooldown of an alarm is kept twice: in memory   *)
(* (_last_sent), written when the dispatch is over, and in the rows of     *)
(* `alerts`, written after one more await and read back by the first       *)
(* check of a new process.  Only the age of a time matters, so the state   *)
(* holds ages; they stop growing at MaxAge, which no cooldown exceeds.     *)
(***************************************************************************)
EXTENDS Integers

CONSTANTS Alarms,       \* the fingerprints
          Rank,           \* Rank[a]: the severity of an alarm, 1 (info) to 3 (critical)
          Callers,      \* the requests that may be inside fire at the same time
          Loop,         \* the collector's task
          Settings,     \* the settings an operator may save
          MaxAge,       \* ages are counted up to here
          Retention,    \* rows this old may be purged, inside a cooldown or not
          MaxFaults     \* bound: how many crashes and failures of the database

None == -1

Setting == [cooldown : 0..MaxAge, floor : 1..3]

ASSUME AlerterAssumption ==
    /\ MaxAge \in Nat
    /\ Retention \in Nat
    /\ MaxFaults \in Nat
    /\ Settings \subseteq Setting
    /\ Rank \in [Alarms -> 1..3]
    /\ Loop \notin Callers
    /\ None \notin Alarms \cup Callers

Tasks == Callers \cup {Loop}

VARIABLES
    present,    \* the alarms whose condition holds
    settings,   \* self.settings, bound at the start of the tick
    known,      \* the age of self._last_sent[a], None where there is no entry
    row,        \* the age of the newest row of `alerts` for a, None if there is none
    pc,         \* where each task stands
    at,         \* the alarm a task is busy with, else None
    todo,       \* the candidates the loop has not reached
    found,      \* the age of the row the loop has read, None if it read none
    stamp,      \* the age of the row a task is about to commit, 0 if there is none
    rival,      \* the task that has dispatched what the loop looks up, else None (history)
    since,      \* how long ago anyone last dispatched a, None if never (history)
    faults      \* crashes and failures of the database so far

tasks == << pc, at, todo, found, rival, stamp >>
vars  == << present, settings, known, row, tasks, since, faults >>

Age == 0..MaxAge
Ages == Age \cup {None}

\* Where a task stands; "judge" is between the memory's write and the verdict,
\* "stopped" where the loop has ended or waits for ever.
Places == {"idle", "walk", "query", "found", "judge", "send", "save", "stopped"}

TypeOK ==
    /\ present \in SUBSET Alarms
    /\ settings \in Settings
    /\ known \in [Alarms -> Ages]
    /\ row \in [Alarms -> Ages]
    /\ pc \in [Tasks -> Places]
    /\ \A t \in Callers : pc[t] \in {"idle", "send", "save"}
    /\ at \in [Tasks -> Alarms \cup {None}]
    /\ \A t \in Tasks : pc[t] \in {"idle", "walk", "stopped"} <=> at[t] = None
    /\ todo \in SUBSET Alarms
    /\ found \in Ages
    /\ rival \in Callers \cup {None}
    /\ stamp \in [Tasks -> Age]
    /\ since \in [Alarms -> Ages]
    /\ faults \in 0..MaxFaults

-----------------------------------------------------------------------------
Init ==
    /\ present \in SUBSET Alarms
    /\ settings \in Settings
    /\ known = [a \in Alarms |-> None]
    /\ row = [a \in Alarms |-> None]
    /\ pc = [t \in Tasks |-> "idle"]
    /\ at = [t \in Tasks |-> None]
    /\ todo = {} /\ found = None /\ rival = None
    /\ stamp = [t \in Tasks |-> 0]
    /\ since = [a \in Alarms |-> None]
    /\ faults = 0

-----------------------------------------------------------------------------
\* The world around the alerter.

\* A condition appears or goes away.
Change(a) ==
    /\ present' = IF a \in present THEN present \ {a} ELSE present \cup {a}
    /\ UNCHANGED << settings, known, row, tasks, since, faults >>

Older(x) == IF x = None THEN None ELSE IF x < MaxAge THEN x + 1 ELSE x

Advance ==
    /\ known' = [a \in Alarms |-> Older(known[a])]
    /\ row' = [a \in Alarms |-> Older(row[a])]
    /\ since' = [a \in Alarms |-> Older(since[a])]
    /\ found' = Older(found)
    /\ stamp' = [t \in Tasks |-> IF pc[t] = "save" THEN Older(stamp[t]) ELSE stamp[t]]
    /\ UNCHANGED << present, settings, pc, at, todo, rival, faults >>

Become(t, where, a) == pc' = [pc EXCEPT ![t] = where] /\ at' = [at EXCEPT ![t] = a]

\* The process stops anywhere and a new one starts: only the rows are left.
Reboot ==
    /\ faults < MaxFaults
    /\ faults' = faults + 1
    /\ settings' \in Settings
    /\ known' = [a \in Alarms |-> None]
    /\ pc' = [t \in Tasks |-> "idle"]
    /\ at' = [t \in Tasks |-> None]
    /\ todo' = {} /\ found' = None /\ rival' = None
    /\ stamp' = [t \in Tasks |-> 0]
    /\ UNCHANGED << present, row, since >>

\* The hourly retention: rows older than the retention go.  That is a day or more,
\* but a cooldown set in the environment may be longer still.  The loop runs it
\* between two ticks.
Purge(S) ==
    /\ pc[Loop] = "idle"
    /\ \A a \in S : row[a] # None /\ row[a] >= Retention
    /\ row' = [a \in Alarms |-> IF a \in S THEN None ELSE row[a]]
    /\ UNCHANGED << present, settings, known, tasks, since, faults >>

\* The loop never comes to another tick: the read before its sleep failed, which
\* ends the task (collector.py, 105), or a tick waits for ever for a thread of the
\* default pool before it reaches the alerter (Collector says when).
LoopStops ==
    /\ pc[Loop] = "idle"
    /\ Become(Loop, "stopped", None)
    /\ UNCHANGED << present, settings, known, row, todo, found, rival, stamp, since, faults >>

-----------------------------------------------------------------------------
\* evaluate: the walk over the candidates of a snapshot.  The code does not
\* await between all of them; that other tasks get in there only adds behaviours.

\* The tick binds the settings; evaluate turns the snapshot into candidates.
Begin ==
    /\ pc[Loop] = "idle"
    /\ settings' \in Settings
    /\ Become(Loop, "walk", None)
    /\ todo' = present
    /\ UNCHANGED << present, known, row, found, rival, stamp, since, faults >>

Reach(a) == pc[Loop] = "walk" /\ a \in todo /\ todo' = todo \ {a}

Allowed(a) == Rank[a] >= settings.floor

\* `last` is inside the cooldown.
Cooling(last) == last # None /\ last < settings.cooldown

\* Below the floor: the candidate is dropped, and stored nowhere.
SkipLow(a) ==
    /\ Reach(a) /\ ~Allowed(a)
    /\ UNCHANGED << present, settings, known, row, pc, at, found, rival, stamp, since, faults >>

\* A mutant of SkipCooling: the skip renews the cooldown.
SkipTouching(a) ==
    /\ Reach(a) /\ Allowed(a) /\ Cooling(known[a])
    /\ known' = [known EXCEPT ![a] = 0]
    /\ UNCHANGED << present, settings, row, pc, at, found, rival, stamp, since, faults >>

\* A mutant of SkipCooling: an entry silences the alarm whatever its age.
SkipAnyKnown(a) ==
    /\ Reach(a) /\ Allowed(a) /\ known[a] # None
    /\ UNCHANGED << present, settings, known, row, pc, at, found, rival, stamp, since, faults >>

\* The memory has the alarm, inside its cooldown or outside.
SkipCooling(a) ==
    /\ Reach(a) /\ Allowed(a) /\ Cooling(known[a])
    /\ UNCHANGED << present, settings, known, row, pc, at, found, rival, stamp, since, faults >>

\* A mutant of SendKnown: the memory is written before the dispatch.
SendMarkedEarly(a) ==
    /\ Reach(a) /\ Allowed(a) /\ known[a] # None /\ ~Cooling(known[a])
    /\ Become(Loop, "send", a)
    /\ known' = [known EXCEPT ![a] = 0]
    /\ UNCHANGED << present, settings, row, found, rival, stamp, since, faults >>

SendKnown(a) ==
    /\ Reach(a) /\ Allowed(a) /\ known[a] # None /\ ~Cooling(known[a])
    /\ Become(Loop, "send", a)
    /\ UNCHANGED << present, settings, known, row, found, rival, stamp, since, faults >>

\* The memory has no entry: the rows are asked, across an await.
Ask(a) ==
    /\ Reach(a) /\ Allowed(a) /\ known[a] = None
    /\ Become(Loop, "query", a)
    /\ UNCHANGED << present, settings, known, row, found, rival, stamp, since, faults >>

\* A mutant of Read: the rows are sorted the other way.
ReadOldest ==
    /\ pc[Loop] = "query"
    /\ pc' = [pc EXCEPT ![Loop] = "found"]
    /\ found' \in IF row[at[Loop]] = None THEN {None} ELSE row[at[Loop]]..MaxAge
    /\ UNCHANGED << present, settings, known, row, at, todo, rival, stamp, since, faults >>

\* The database answers with the newest row ...
Read ==
    /\ pc[Loop] = "query"
    /\ pc' = [pc EXCEPT ![Loop] = "found"]
    /\ found' = row[at[Loop]]
    /\ UNCHANGED << present, settings, known, row, at, todo, rival, stamp, since, faults >>

\* ... or with an error, which counts as no row.
ReadFails ==
    /\ pc[Loop] = "query"
    /\ faults < MaxFaults /\ faults' = faults + 1
    /\ pc' = [pc EXCEPT ![Loop] = "send"]
    /\ rival' = None
    /\ UNCHANGED << present, settings, known, row, at, todo, found, stamp, since >>

\* The loop resumes with what was read, and writes it into the memory over
\* whatever is there by now.
Resume ==
    /\ pc[Loop] = "found"
    /\ pc' = [pc EXCEPT ![Loop] = "judge"]
    /\ known' = IF found = None THEN known ELSE [known EXCEPT ![at[Loop]] = found]
    /\ UNCHANGED << present, settings, row, at, todo, found, rival, stamp, since, faults >>

\* The session is closed, well or not, across another await, and the loop decides
\* by the time it read, whatever the memory shows by now.
Judge ==
    /\ pc[Loop] = "judge"
    /\ IF Cooling(found) THEN Become(Loop, "walk", None)
                         ELSE Become(Loop, "send", at[Loop])
    /\ found' = None /\ rival' = None
    /\ UNCHANGED << present, settings, known, row, todo, stamp, since, faults >>

WalkEnd ==
    /\ pc[Loop] = "walk" /\ todo = {}
    /\ Become(Loop, "idle", None)
    /\ UNCHANGED << present, settings, known, row, todo, found, rival, stamp, since, faults >>

-----------------------------------------------------------------------------
\* fire.

LooksUp == pc[Loop] \in {"query", "found", "judge"}

\* A route calls it, with any alarm: neither the floor nor the cooldown is asked.
Call(t, a) ==
    /\ pc[t] = "idle"
    /\ Become(t, "send", a)
    /\ UNCHANGED << present, settings, known, row, todo, found, rival, stamp, since, faults >>

\* Every channel has answered or failed; the memory takes the time, whatever was
\* delivered, and the row is stamped with it.
Sent(t) ==
    /\ pc[t] = "send"
    /\ pc' = [pc EXCEPT ![t] = "save"]
    /\ known' = [known EXCEPT ![at[t]] = 0]
    /\ since' = [since EXCEPT ![at[t]] = 0]
    /\ stamp' = [stamp EXCEPT ![t] = 0]
    /\ rival' = IF LooksUp /\ t # Loop /\ at[t] = at[Loop] THEN t ELSE rival
    /\ UNCHANGED << present, settings, row, at, todo, found, faults >>

\* The newest row of the alarm of t once the row of t is committed.
WithRow(t) ==
    [row EXCEPT ![at[t]] = IF @ = None \/ stamp[t] < @ THEN stamp[t] ELSE @]

\* A mutant of SaveOk: the task keeps its alarm.
SaveStaysBusy(t) ==
    /\ pc[t] = "save"
    /\ row' = WithRow(t)
    /\ Become(t, IF t = Loop THEN "walk" ELSE "idle", at[t])
    /\ stamp' = [stamp EXCEPT ![t] = 0]
    /\ UNCHANGED << present, settings, known, todo, found, rival, since, faults >>

SaveOk(t) ==
    /\ pc[t] = "save"
    /\ row' = WithRow(t)
    /\ Become(t, IF t = Loop THEN "walk" ELSE "idle", None)
    /\ stamp' = [stamp EXCEPT ![t] = 0]
    /\ UNCHANGED << present, settings, known, todo, found, rival, since, faults >>

\* The commit or the refresh after it fails: the exception leaves fire, and the
\* loop drops the candidates it has not reached.
SaveFails(t) ==
    /\ pc[t] = "save"
    /\ faults < MaxFaults /\ faults' = faults + 1
    /\ row' \in {row, WithRow(t)}
    /\ Become(t, "idle", None)
    /\ todo' = IF t = Loop THEN {} ELSE todo
    /\ stamp' = [stamp EXCEPT ![t] = 0]
    /\ UNCHANGED << present, settings, known, found, rival, since >>

-----------------------------------------------------------------------------
Evaluate ==
    \/ Begin \/ Read \/ ReadFails \/ Resume \/ Judge \/ WalkEnd
    \/ \E a \in Alarms : SkipLow(a) \/ SkipCooling(a) \/ SendKnown(a) \/ Ask(a)

Fire(t) == Sent(t) \/ SaveOk(t) \/ SaveFails(t)

Next ==
    \/ Advance \/ Reboot \/ LoopStops
    \/ Evaluate
    \/ \E S \in SUBSET Alarms : Purge(S)
    \/ \E a \in Alarms : Change(a)
    \/ \E t \in Callers, a \in Alarms : Call(t, a)
    \/ \E t \in Tasks : Fire(t)

Spec == Init /\ [][Next]_vars

\* The clock runs, and the event loop gets round to every task that can go on.
\* That the loop has stopped is not excluded: then it has no step to take.
LoopStep == Evaluate \/ Fire(Loop)

ClockRuns   == WF_vars(Advance)
LoopRuns    == WF_vars(LoopStep)
CallRuns(t) == WF_vars(Fire(t))

Fairness == ClockRuns /\ LoopRuns /\ \A t \in Callers : CallRuns(t)

FairSpec == Spec /\ Fairness

-----------------------------------------------------------------------------
\* x tells of a dispatch of a: one as old as x, or one that is older than the
\* latest.
TellsOf(a, x) == x # None => since[a] # None /\ since[a] <= x

(***************************************************************************)
(* Every time the alerter keeps is that of a real dispatch: in the memory, *)
(* in the rows, in the row just read and in the row being written; an      *)
(* alarm whose row is being written is in the memory already, so that what *)
(* was read for an alarm the memory lacked is what the rows still say when *)
(* the loop comes to decide, unless another task has dispatched that alarm *)
(* meanwhile (alerter.py, 70-92 and 289-305).                              *)
(***************************************************************************)
TimesAreReal ==
    /\ \A a \in Alarms : TellsOf(a, known[a]) /\ TellsOf(a, row[a])
    /\ \A t \in Tasks : pc[t] = "save" => /\ TellsOf(at[t], stamp[t])
                                          /\ known[at[t]] # None
    /\ pc[Loop] \in {"found", "judge"} => TellsOf(at[Loop], found)
    /\ LooksUp /\ rival = None =>
          /\ \A t \in Callers : ~(pc[t] = "save" /\ at[t] = at[Loop])
          /\ pc[Loop] # "query" => found = row[at[Loop]]

\* The loop leaves a candidate that is above the floor alone.
Silenced(a) ==
    /\ Allowed(a)
    /\ \/ pc[Loop] = "walk" /\ pc'[Loop] = "walk" /\ a \in todo /\ a \notin todo'
       \/ pc[Loop] = "judge" /\ pc'[Loop] = "walk" /\ at[Loop] = a

(***************************************************************************)
(* The loop never swallows an alarm: one above the floor is left alone     *)
(* only if it really was dispatched inside the cooldown, by this process   *)
(* or by one before it, whatever was read late, written late or lost       *)
(* (alerter.py, 69-92 and 174-179).                                        *)
(***************************************************************************)
SilenceIsEarned == [][\A a \in Alarms : Silenced(a) => Cooling(since[a])]_vars

LoopSends(a) == pc[Loop] # "send" /\ pc'[Loop] = "send" /\ at'[Loop] = a

\* Where the loop looks for a, in the memory or, once that had nothing, in the
\* rows, there is the latest dispatch.
Remembered(a) == since[a] = (IF LooksUp THEN row[a] ELSE known[a])

(***************************************************************************)
(* The loop repeats an alarm inside its cooldown although it is remembered *)
(* where the loop looks only if the rows could not be read, or if another  *)
(* task dispatched it while the loop was looking (alerter.py, 69-92).      *)
(***************************************************************************)
NoRepeatWhileRemembered ==
    [][\A a \in Alarms :
          LoopSends(a) /\ Remembered(a) =>
              ~Cooling(since[a]) \/ pc[Loop] = "query" \/ rival # None]_vars

\* The loop goes on from tick to tick.
Running == pc[Loop] # "stopped"

(***************************************************************************)
(* A condition that lasts, above the floor, is told again and again while  *)
(* the loop goes on: no failed row, failed dispatch, crash, purge, late    *)
(* reader or other candidate silences it for good, as long as the database *)
(* fails and the process crashes only finitely often (alerter.py, 94-190   *)
(* and 253-306).  A loop that has stopped tells nothing until a restart:   *)
(* one failed read in collector.py, 105, is enough.                        *)
(***************************************************************************)
StuckAlarmsRepeat ==
    \A a \in Alarms :
        <>[](a \in present /\ Allowed(a) /\ Running) => []<>(since[a] = 0)
=============================================================================
