------------------------------ MODULE Restarter ------------------------------
(***************************************************************************)
(* The auto-restarter (app/services/restarter.py) as the collector's loop  *)
(* drives it (app/services/collector.py).                                  *)
(*                                                                         *)
(* A tick binds the settings, lists the containers and hands the list to   *)
(* Restarter.evaluate, which walks over the failed ones.  The walk stops   *)
(* twice per restarted container, at `await docker.restart` and at         *)
(* `await _persist`, and the clock, the containers and the operator go on  *)
(* meanwhile; `now` was read once, when the walk began.  What the object   *)
(* remembers is in memory only: a new process starts from nothing.         *)
(*                                                                         *)
(* The clock counts seconds.  The denylist and the allow-list, substring   *)
(* tests on the name, are abstracted to the set of names they protect.     *)
(***************************************************************************)
EXTENDS Integers, Sequences

CONSTANTS Containers,   \* the container names Docker may list
          Settings,     \* the settings an operator may save (a set of records)
          Hour,         \* 3600 in the code: the window of the cap
          BootTime,     \* the clock at the first start, seconds since the epoch
          MaxTime       \* bound: the clock stops here

Setting == [enabled : BOOLEAN, delay : Nat, cooldown : Nat, cap : Nat,
            protected : SUBSET Containers]

\* No entry in a dictionary of times (no clock reads it); no container awaited.
None == -1

ASSUME ConstantsAssumption ==
    /\ Hour \in Nat
    /\ BootTime \in Nat
    /\ MaxTime \in Nat
    /\ BootTime <= MaxTime
    /\ Settings \subseteq Setting
    /\ None \notin Containers
    \* The clock counts from 1970; a saved cooldown is at most a day, one in the
    \* environment unbounded, but taken to be shorter than those decades.  So a container
    \* with no entry in _last_restart, which reads as 0, is never cooling down.
    /\ \A s \in Settings : s.cooldown <= BootTime

VARIABLES
    clock,          \* time.time()
    down,           \* the containers that really are exited, dead or unhealthy
    settings,       \* self.settings, bound at the start of the tick
    seenDown,       \* self._seen_down_at, None where there is no entry
    lastRestart,    \* self._last_restart, 0 where there is no entry
    hourWindow,     \* self._hour_window
    pc,             \* where the collector's loop stands
    evalAt,         \* `now` of evaluate, 0 outside the walk
    healthy,        \* the names the list shows with a severity other than error
    todo,           \* the names it shows with error that the walk has not reached
    current,        \* the one whose restart or audit row is awaited, else None
    attempts,       \* when this process restarted each container (history)
    lastUp          \* when evaluate last saw each container healthy (history)

world  == << clock, down >>
memory == << seenDown, lastRestart, hourWindow >>
list   == << healthy, todo >>
ghost  == << attempts, lastUp >>
vars   == << world, settings, memory, pc, evalAt, list, current, ghost >>

Everywhere(v) == [c \in Containers |-> v]

TypeOK ==
    /\ clock \in BootTime..MaxTime
    /\ down \in SUBSET Containers
    /\ settings \in Settings
    /\ seenDown \in [Containers -> Nat \cup {None}]
    /\ lastRestart \in [Containers -> Nat]
    /\ hourWindow \in [Containers -> Seq(Nat)]
    /\ pc \in {"asleep", "awake", "listed", "walk", "restart", "persist"}
    /\ evalAt \in Nat
    /\ healthy \in SUBSET Containers
    /\ todo \in SUBSET Containers
    /\ current \in Containers \cup {None}
    /\ pc \in {"restart", "persist"} <=> current # None
    /\ attempts \in [Containers -> Seq(Nat)]
    /\ lastUp \in [Containers -> Nat]

-----------------------------------------------------------------------------
Init ==
    /\ clock = BootTime
    /\ down = {}
    /\ settings \in Settings
    /\ seenDown = Everywhere(None)
    /\ lastRestart = Everywhere(0)
    /\ hourWindow = Everywhere(<< >>)
    /\ pc = "awake" /\ evalAt = 0
    /\ healthy = {} /\ todo = {} /\ current = None
    /\ attempts = Everywhere(<< >>)
    /\ lastUp = Everywhere(0)

-----------------------------------------------------------------------------
\* The world around the restarter.

\* Time passes while the loop awaits something: between two awaits the walk takes
\* none.  The loop sleeps max(1, refresh_seconds): it may wake one second later,
\* and a longer sleep is a wake-up followed by more seconds.
Advance ==
    /\ clock < MaxTime
    /\ pc # "walk"
    /\ clock' = clock + 1
    /\ pc' = IF pc = "asleep" THEN "awake" ELSE pc
    /\ UNCHANGED << down, settings, memory, evalAt, list, current, ghost >>

\* A container exits, dies or turns unhealthy.
GoesDown(c) ==
    /\ c \notin down
    /\ down' = down \cup {c}
    /\ UNCHANGED << clock, settings, memory, pc, evalAt, list, current, ghost >>

\* It comes back without the restarter: Docker's own restart policy, or an
\* operator's click, which the restarter is not told of.
ComesUp(c) ==
    /\ c \in down
    /\ down' = down \ {c}
    /\ UNCHANGED << clock, settings, memory, pc, evalAt, list, current, ghost >>

\* The process stops anywhere, in the middle of an await too, and a second later
\* a new one starts: Restarter.__init__ runs again.  Nothing it knew is on disk.
Reboot ==
    /\ clock < MaxTime
    /\ clock' = clock + 1
    /\ settings' \in Settings
    /\ seenDown' = Everywhere(None)
    /\ lastRestart' = Everywhere(0)
    /\ hourWindow' = Everywhere(<< >>)
    /\ pc' = "awake" /\ evalAt' = 0
    /\ healthy' = {} /\ todo' = {} /\ current' = None
    /\ attempts' = Everywhere(<< >>)
    /\ UNCHANGED << down, lastUp >>

-----------------------------------------------------------------------------
\* The tick up to the call of evaluate: bind what the operator last saved, then
\* list.  A list may miss any container: the engine can fail in the middle of
\* it, and a partial or empty list is passed on as if it were complete.
List(listed) ==
    /\ pc = "awake"
    /\ settings' \in Settings
    /\ todo' = listed \cap down
    /\ healthy' = listed \ down
    /\ pc' = "listed"
    /\ UNCHANGED << world, memory, evalAt, current, ghost >>

NoteHealthy == lastUp' = [c \in Containers |-> IF c \in healthy THEN clock ELSE lastUp[c]]

\* A mutant of EvaluateDisabled: _seen_down_at is not cleared.
DisabledRemembers ==
    /\ pc = "listed" /\ ~settings.enabled
    /\ pc' = "asleep" /\ todo' = {} /\ healthy' = {}
    /\ NoteHealthy
    /\ UNCHANGED << world, settings, memory, evalAt, current, attempts >>

\* evaluate with the feature off.
EvaluateDisabled ==
    /\ pc = "listed" /\ ~settings.enabled
    /\ seenDown' = Everywhere(None)
    /\ pc' = "asleep" /\ todo' = {} /\ healthy' = {}
    /\ NoteHealthy
    /\ UNCHANGED << world, settings, lastRestart, hourWindow, evalAt, current,
                    attempts >>

\* The entries of containers listed as healthy go; those of containers the list
\* misses stay.
ForgetHealthy ==
    [c \in Containers |-> IF c \in healthy THEN None ELSE seenDown[c]]

\* evaluate with the feature on, up to the loop.
EvaluateStart ==
    /\ pc = "listed" /\ settings.enabled
    /\ evalAt' = clock
    /\ seenDown' = ForgetHealthy
    /\ pc' = "walk" /\ healthy' = {}
    /\ NoteHealthy
    /\ UNCHANGED << world, settings, lastRestart, hourWindow, todo, current,
                    attempts >>

-----------------------------------------------------------------------------
\* The loop.  The list is sorted by name; nothing here depends on the names, so
\* the walk takes the containers left in any order.

\* `first`, and _seen_down_at after its setdefault.
FirstSeen(c) == IF seenDown[c] = None THEN evalAt ELSE seenDown[c]
NoteDown(c)  == seenDown' = [seenDown EXCEPT ![c] = FirstSeen(c)]

Waited(c) == evalAt - FirstSeen(c) >= settings.delay
Cooled(c) == evalAt - lastRestart[c] >= settings.cooldown

\* How many entries _prune pops from the left of a window: all up to the first
\* that is not older than the cutoff.
PopCounts(w, cutoff) ==
    {k \in 0..Len(w) : /\ \A i \in 1..k : w[i] < cutoff
                       /\ k < Len(w) => w[k + 1] >= cutoff}

\* A mutant of Prune: an entry stays a second too long.
PruneLate(c, k) ==
    /\ k \in PopCounts(hourWindow[c], evalAt - Hour - 1)
    /\ hourWindow' = [hourWindow EXCEPT ![c] = SubSeq(@, k + 1, Len(@))]

\* _prune pops k entries of the window of c.
Prune(c, k) ==
    /\ k \in PopCounts(hourWindow[c], evalAt - Hour)
    /\ hourWindow' = [hourWindow EXCEPT ![c] = SubSeq(@, k + 1, Len(@))]

\* The loop reaches c, which is in the list with severity error.
Reach(c) == pc = "walk" /\ c \in todo /\ todo' = todo \ {c}

SkipProtected(c) ==
    /\ Reach(c)
    /\ c \in settings.protected
    /\ UNCHANGED << world, settings, memory, pc, evalAt, healthy, current, ghost >>

SkipWaiting(c) ==
    /\ Reach(c)
    /\ c \notin settings.protected
    /\ ~Waited(c) \/ ~Cooled(c)
    /\ NoteDown(c)
    /\ UNCHANGED << world, settings, lastRestart, hourWindow, pc, evalAt, healthy,
                    current, ghost >>

SkipCapped(c) ==
    /\ Reach(c)
    /\ c \notin settings.protected /\ Waited(c) /\ Cooled(c)
    /\ NoteDown(c)
    /\ \E k \in 0..Len(hourWindow[c]) :
           Prune(c, k) /\ Len(hourWindow[c]) - k >= settings.cap
    /\ UNCHANGED << world, settings, lastRestart, pc, evalAt, healthy, current,
                    ghost >>

\* The call of docker.restart: the attempt is made, and remembered nowhere yet.
Issue(c) ==
    /\ Reach(c)
    /\ c \notin settings.protected /\ Waited(c) /\ Cooled(c)
    /\ NoteDown(c)
    /\ \E k \in 0..Len(hourWindow[c]) :
           Prune(c, k) /\ Len(hourWindow[c]) - k < settings.cap
    /\ pc' = "restart" /\ current' = c
    /\ attempts' = [attempts EXCEPT ![c] = Append(@, evalAt)]
    /\ UNCHANGED << world, settings, lastRestart, evalAt, healthy, lastUp >>

\* A mutant of Restarted: only a restart that worked is remembered.
RestartedIfRunning ==
    /\ pc = "restart"
    /\ down' \in {down, down \ {current}, down \cup {current}}
    /\ IF current \in down'
       THEN UNCHANGED << lastRestart, hourWindow >>
       ELSE /\ lastRestart' = [lastRestart EXCEPT ![current] = evalAt]
            /\ hourWindow' = [hourWindow EXCEPT ![current] = Append(@, evalAt)]
    /\ pc' = "persist"
    /\ UNCHANGED << clock, settings, seenDown, evalAt, list, current, ghost >>

\* docker.restart returns: the container runs, or (the call failed) it is as it
\* was, or is left stopped.  Either way the attempt counts, at the time the walk
\* began.
Restarted ==
    /\ pc = "restart"
    /\ down' \in {down, down \ {current}, down \cup {current}}
    /\ lastRestart' = [lastRestart EXCEPT ![current] = evalAt]
    /\ hourWindow' = [hourWindow EXCEPT ![current] = Append(@, evalAt)]
    /\ pc' = "persist"
    /\ UNCHANGED << clock, settings, seenDown, evalAt, list, current, ghost >>

\* A mutant of PersistOk: the loop stays busy with the container.
PersistStaysBusy ==
    /\ pc = "persist"
    /\ pc' = "walk"
    /\ UNCHANGED << world, settings, memory, evalAt, list, current, ghost >>

\* The audit row is written; the walk goes on.  No code reads the rows back to
\* decide a restart: they are not part of this state.
PersistOk ==
    /\ pc = "persist"
    /\ pc' = "walk" /\ current' = None
    /\ UNCHANGED << world, settings, memory, evalAt, list, ghost >>

\* The row cannot be written: the exception leaves evaluate, the collector
\* swallows it, and the rest of the list is not walked in this tick.
PersistFails ==
    /\ pc = "persist"
    /\ pc' = "asleep" /\ evalAt' = 0 /\ todo' = {} /\ current' = None
    /\ UNCHANGED << world, settings, memory, healthy, ghost >>

EvaluateEnd ==
    /\ pc = "walk" /\ todo = {}
    /\ pc' = "asleep" /\ evalAt' = 0
    /\ UNCHANGED << world, settings, memory, list, current, ghost >>

-----------------------------------------------------------------------------
Next ==
    \/ Advance \/ Reboot
    \/ EvaluateDisabled \/ EvaluateStart \/ EvaluateEnd
    \/ Restarted \/ PersistOk \/ PersistFails
    \/ \E listed \in SUBSET Containers : List(listed)
    \/ \E c \in Containers :
          \/ GoesDown(c) \/ ComesUp(c)
          \/ SkipProtected(c) \/ SkipWaiting(c) \/ SkipCapped(c) \/ Issue(c)

Spec == Init /\ [][Next]_vars

-----------------------------------------------------------------------------
\* What the three dictionaries mean, in terms of the history of this process.

Walking == pc \in {"walk", "restart", "persist"}

\* The latest time anything can be stamped with.
Horizon == IF Walking THEN evalAt ELSE clock

\* The attempts the memory knows of: not the one whose restart is still awaited.
Known(c) == IF pc = "restart" /\ current = c THEN Len(attempts[c]) - 1
                                            ELSE Len(attempts[c])

LastIsLatest(c) ==
    lastRestart[c] = IF Known(c) = 0 THEN 0 ELSE attempts[c][Known(c)]

\* The window holds the latest attempts, and every one it lacks is too old.
WindowIsTail(c) ==
    LET popped == Known(c) - Len(hourWindow[c])
    IN  /\ popped >= 0
        /\ \A j \in 1..Len(hourWindow[c]) : hourWindow[c][j] = attempts[c][popped + j]
        /\ \A j \in 1..popped : attempts[c][j] < Horizon - Hour

HistoryInOrder(c) ==
    \A i, j \in DOMAIN attempts[c] :
        /\ i <= j => attempts[c][i] <= attempts[c][j]
        /\ attempts[c][i] <= Horizon

\* A container is noted as down no earlier than it was last seen healthy.
SeenDownAfterUp(c) ==
    /\ lastUp[c] <= Horizon
    /\ seenDown[c] # None => lastUp[c] <= seenDown[c]

(***************************************************************************)
(* The memory of the restarter agrees with the history of its attempts at  *)
(* every step, those between an await and the update that follows it       *)
(* included: _last_restart is the latest attempt, _hour_window all those   *)
(* that can still count, _seen_down_at never older than the last healthy   *)
(* sighting (restarter.py, 37-46, 55-58, 66 and 77-79).                    *)
(***************************************************************************)
MemoryMatchesHistory ==
    /\ Walking => /\ evalAt \in BootTime..clock
                  /\ settings.enabled
    /\ pc = "restart" => /\ attempts[current] # << >>
                         /\ attempts[current][Len(attempts[current])] = evalAt
    /\ \A c \in Containers :
          /\ LastIsLatest(c)
          /\ WindowIsTail(c)
          /\ HistoryInOrder(c)
          /\ SeenDownAfterUp(c)

-----------------------------------------------------------------------------
Policy == INSTANCE RestartPolicy WITH Time <- BootTime..MaxTime

(***************************************************************************)
(* The restarter implements the policy: each automatic restart of the loop *)
(* is of an eligible container, after the delay since it was last seen     *)
(* healthy, and one the complete history of this process's attempts        *)
(* allows; failed restarts, failed audit writes, walks cut short, lists    *)
(* that miss containers and settings that change do not get around it      *)
(* (restarter.py, 48-92).                                                  *)
(***************************************************************************)
ImplementsPolicy == Policy!Spec

(***************************************************************************)
(* The loop protection: in the complete history of the process, two        *)
(* attempts on a container are never closer than a cooldown the operator   *)
(* may have saved, and no rolling hour holds more of them than a cap the   *)
(* operator may have saved (restarter.py, 9-10 and 69-79).                 *)
(***************************************************************************)
LoopProtection == Policy!CooldownHonoured /\ Policy!CapHonoured

(***************************************************************************)
(* The gates never hold back a restart the rules allow: the loop passes    *)
(* over a failed container only because it is protected or has not waited  *)
(* since it was first seen down, or because the complete history of        *)
(* attempts forbids one now.  An entry the window kept for too long, or an *)
(* attempt remembered too late, would show here (restarter.py, 60-74).     *)
(***************************************************************************)
PassedOver(c) ==
    pc = "walk" /\ pc' = "walk" /\ c \in todo /\ c \notin todo'

NoRestartWithheld ==
    [][\A c \in Containers :
          PassedOver(c) =>
              \/ c \in settings.protected
              \/ ~Waited(c)
              \/ ~Policy!CooldownOver(attempts[c], evalAt)
              \/ ~Policy!BelowCap(attempts[c], evalAt)]_vars
=============================================================================
