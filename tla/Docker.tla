--------------------------------- MODULE Docker ---------------------------------
(***************************************************************************)
(* The Docker adapter (app/services/docker_ctl.py) and the callers that    *)
(* wait for it: the collector's loop, the REST API, the webhooks and the   *)
(* pages.  The adapter's calls block, so they run in the threads of one    *)
(* pool and share _client and _fail_until without a lock; the tick rebinds *)
(* the settings under them.  A thread's steps are the reads and writes of  *)
(* what is shared.  All calls are about one container.                     *)
(***************************************************************************)
EXTENDS Integers, FiniteSets

CONSTANTS Calls,        \* requests and restarts of the walk, each made at most once
          Tick,         \* the tick's own calls: ready, then the list
          Loads,        \* the size of the pool, and what the calls ask for
          Bindings,     \* what the settings the tick binds may be: the lists that stop the container
          Backoff,      \* how long a failed connection holds off the next
          MaxFailures   \* bound: failures of the database

Ops  == {"list", "act", "exec", "get", "put", "read"}
Vias == {"loop", "api", "ui", "hook"}
Lists == {"denylist", "allowlist"}

Requests == [op : Ops, via : Vias, force : BOOLEAN, own : BOOLEAN]
Listing  == [op |-> "list", via |-> "loop", force |-> FALSE, own |-> FALSE]

ASSUME DockerAssumption ==
    /\ Tick \notin Calls
    /\ Loads \subseteq [pool : Nat \ {0}, wants : [Calls -> Requests]]
    /\ Bindings \subseteq SUBSET Lists
    /\ Backoff \in Nat
    /\ MaxFailures \in Nat

VARIABLES
    client,     \* whether _client is set
    cooling,    \* the time to _fail_until
    engine,     \* whether the engine answers
    bound,      \* the lists that stop the container under the settings bound
    pool,       \* the number of threads
    req,        \* what each caller asks for
    at,         \* where the caller is
    reply,      \* what it was answered
    th,         \* where its thread is
    age,        \* the time since the thread read the clock
    outcome,    \* what the thread brought
    lenient,    \* the lists that let the container pass at some time of the call
    acted,      \* whether the engine did what the call asked for
    row,        \* its row of the audit table restarts
    failures,   \* failures of the database left
    serving     \* FALSE once the lifespan shuts down

shared  == << client, cooling, engine, bound, failures, serving >>
thread  == << th, age, outcome, lenient, acted >>
caller  == << at, reply, row >>
vars    == << shared, pool, req, thread, caller >>

Callers == Calls \cup {Tick}
Running == {"deny", "allow", "look", "take", "make", "ping", "fail", "hand", "use"}

TypeOK ==
    /\ client \in BOOLEAN /\ engine \in BOOLEAN /\ serving \in BOOLEAN
    /\ cooling \in 0..Backoff
    /\ bound \in Bindings /\ pool \in Nat \ {0}
    /\ req \in [Callers -> Requests]
    /\ at \in [Callers -> {"idle", "waiting", "recording", "answered", "cancelled"}]
    /\ reply \in [Callers -> {"none", "ok", "refused", "forbidden", "error"}]
    /\ th \in [Callers -> Running \cup {"none", "queued", "end"}]
    /\ age \in [Callers -> 0..Backoff]
    /\ outcome \in [Callers -> {"none", "ready", "ok", "failed"}]
    /\ lenient \in [Callers -> SUBSET Lists]
    /\ acted \in [Callers -> BOOLEAN]
    /\ row \in [Callers -> {"none", "success", "failure"}]
    /\ failures \in 0..MaxFailures

Init ==
    /\ client = FALSE /\ cooling = 0 /\ engine \in BOOLEAN /\ bound \in Bindings
    /\ \E load \in Loads :
          /\ pool = load.pool
          /\ req = [c \in Callers |-> IF c = Tick THEN Listing ELSE load.wants[c]]
    /\ at = [c \in Callers |-> "idle"] /\ reply = [c \in Callers |-> "none"]
    /\ th = [c \in Callers |-> "none"] /\ age = [c \in Callers |-> 0]
    /\ outcome = [c \in Callers |-> "none"] /\ lenient = [c \in Callers |-> {}]
    /\ acted = [c \in Callers |-> FALSE] /\ row = [c \in Callers |-> "none"]
    /\ failures = MaxFailures /\ serving = TRUE

-----------------------------------------------------------------------------
\* The caller, up to its await.

\* The loop awaits one call at a time.
Free(c) ==
    req[c].via = "loop" =>
        \A d \in Callers : req[d].via = "loop" => at[d] \in {"idle", "answered"}

\* Refused on the event loop, before any thread: an unconfirmed override, the
\* process's own container, the denylist for a command or a file.
Stopped(c) ==
    \/ req[c].op \in {"exec", "put"} /\ req[c].own
    \/ req[c].op \in {"exec", "get", "put"} /\ ~req[c].force /\ "denylist" \in bound

Refuse(c) ==
    /\ serving /\ at[c] = "idle"
    /\ Stopped(c) \/ (req[c].via = "api" /\ req[c].force)
    /\ at' = [at EXCEPT ![c] = "answered"]
    /\ reply' = [reply EXCEPT ![c] = "forbidden"]
    /\ UNCHANGED << shared, pool, req, thread, row >>

Call(c) ==
    /\ serving /\ at[c] = "idle" /\ Free(c)
    /\ ~Stopped(c)
    /\ at' = [at EXCEPT ![c] = "waiting"]
    /\ th' = [th EXCEPT ![c] = "queued"]
    /\ lenient' = [lenient EXCEPT ![c] = IF req[c].force THEN {} ELSE Lists \ bound]
    /\ UNCHANGED << shared, pool, req, age, outcome, acted, reply, row >>

-----------------------------------------------------------------------------
\* The thread.

Goes(c, place) == th' = [th EXCEPT ![c] = place] /\ UNCHANGED << outcome, lenient >>

Ends(c, result) ==
    /\ th' = [th EXCEPT ![c] = "end"]
    /\ outcome' = [outcome EXCEPT ![c] = result]
    /\ lenient' = [lenient EXCEPT ![c] = {}]

\* A thread takes the call; a command or a path that is not acceptable ends it.
Start(c) ==
    /\ th[c] = "queued"
    /\ Cardinality({d \in Callers : th[d] \in Running}) < pool
    /\ \/ Goes(c, IF req[c].op = "act" /\ ~req[c].force THEN "deny" ELSE "look")
       \/ req[c].op \in {"exec", "get", "put"} /\ Ends(c, "failed")
    /\ UNCHANGED << shared, pool, req, age, acted, caller >>

\* A mutant of Deny: a name on the allow-list is not looked up on the denylist.
DenyUnlessAllowed(c) ==
    /\ th[c] = "deny"
    /\ IF bound = Lists THEN Ends(c, "failed") ELSE Goes(c, "allow")
    /\ UNCHANGED << shared, pool, req, age, acted, caller >>

\* _guard reads the settings for the denylist, and again for the allow-list.
Deny(c) ==
    /\ th[c] = "deny"
    /\ IF "denylist" \in bound THEN Ends(c, "failed") ELSE Goes(c, "allow")
    /\ UNCHANGED << shared, pool, req, age, acted, caller >>

Allow(c) ==
    /\ th[c] = "allow"
    /\ IF "allowlist" \in bound THEN Ends(c, "failed") ELSE Goes(c, "look")
    /\ UNCHANGED << shared, pool, req, age, acted, caller >>

\* A mutant of Look: a call that comes too early starts the back-off again.
LookRenewing(c) ==
    /\ th[c] = "look"
    /\ IF client THEN Goes(c, "take") /\ UNCHANGED cooling
       ELSE IF cooling > 0 THEN Ends(c, "failed") /\ cooling' = Backoff
       ELSE Goes(c, "make") /\ UNCHANGED cooling
    /\ age' = [age EXCEPT ![c] = 0]
    /\ UNCHANGED << client, engine, bound, failures, serving, pool, req, acted, caller >>

\* _connect: is there a client, and if not, may one be made?
Look(c) ==
    /\ th[c] = "look"
    /\ IF client THEN Goes(c, "take")
       ELSE IF cooling > 0 THEN Ends(c, "failed")
       ELSE Goes(c, "make")
    /\ age' = [age EXCEPT ![c] = 0]
    /\ UNCHANGED << shared, pool, req, acted, caller >>

\* It reads _client once more to return it: by then it may be None.
Take(c) ==
    /\ th[c] \in {"take", "hand"}
    /\ IF client THEN Goes(c, "use") ELSE Ends(c, "failed")
    /\ age' = [age EXCEPT ![c] = 0]
    /\ UNCHANGED << shared, pool, req, acted, caller >>

Make(c) ==
    /\ th[c] = "make"
    /\ client' = TRUE /\ Goes(c, "ping")
    /\ UNCHANGED << cooling, engine, bound, failures, serving, pool, req, age, acted, caller >>

\* The ping goes to whatever _client is now; None has no ping.
Ping(c) ==
    /\ th[c] = "ping"
    /\ Goes(c, IF client /\ engine THEN "hand" ELSE "fail")
    /\ UNCHANGED << shared, pool, req, age, acted, caller >>

\* A mutant of Fail: the back-off is renewed by as much as the ping took.
FailLate(c) ==
    /\ th[c] = "fail"
    /\ client' = FALSE /\ cooling' = Backoff + age[c]
    /\ Ends(c, "failed") /\ age' = [age EXCEPT ![c] = 0]
    /\ UNCHANGED << engine, bound, failures, serving, pool, req, acted, caller >>

\* Whoever's client it is goes; the back-off counts from the clock read before.
Fail(c) ==
    /\ th[c] = "fail"
    /\ client' = FALSE /\ cooling' = Backoff - age[c]
    /\ Ends(c, "failed") /\ age' = [age EXCEPT ![c] = 0]
    /\ UNCHANGED << engine, bound, failures, serving, pool, req, acted, caller >>

\* ready() wants no more than the client.
Ready ==
    /\ th[Tick] = "use"
    /\ Ends(Tick, "ready")
    /\ UNCHANGED << shared, pool, req, age, acted, caller >>

Done(c) ==
    /\ th[c] = "use" /\ engine
    /\ Ends(c, "ok")
    /\ acted' = [acted EXCEPT ![c] = c # Tick]
    /\ UNCHANGED << shared, pool, req, age, caller >>

\* The engine is gone, the container unknown, or only the answer is lost. A failed
\* list drops the client; the others keep it.
Error(c) ==
    /\ th[c] = "use"
    /\ Ends(c, "failed")
    /\ \E did \in {FALSE, engine /\ c # Tick} : acted' = [acted EXCEPT ![c] = did]
    /\ client' = (client /\ c # Tick)
    /\ UNCHANGED << cooling, engine, bound, failures, serving, pool, req, age, caller >>

-----------------------------------------------------------------------------
\* The caller, behind its await.

\* Starts, stops and restarts have a row in restarts, but for the webhooks'.
Audited(c) == req[c].op = "act" /\ req[c].via # "hook"

Verdict(c) == IF outcome[c] = "ok" THEN "ok" ELSE "refused"

\* The thread's result is taken.
Taken(c) == th' = [th EXCEPT ![c] = "none"] /\ outcome' = [outcome EXCEPT ![c] = "none"]

\* A mutant of Return: an action that failed is answered before its row is written.
ReturnEarly(c) ==
    /\ at[c] = "waiting" /\ th[c] = "end" /\ c # Tick
    /\ IF Audited(c) /\ outcome[c] = "ok"
       THEN at' = [at EXCEPT ![c] = "recording"] /\ UNCHANGED << reply, th, outcome >>
       ELSE /\ at' = [at EXCEPT ![c] = "answered"] /\ Taken(c)
            /\ reply' = [reply EXCEPT ![c] = Verdict(c)]
    /\ UNCHANGED << shared, pool, req, age, lenient, acted, row >>

Return(c) ==
    /\ at[c] = "waiting" /\ th[c] = "end" /\ c # Tick
    /\ IF Audited(c)
       THEN at' = [at EXCEPT ![c] = "recording"] /\ UNCHANGED << reply, th, outcome >>
       ELSE /\ at' = [at EXCEPT ![c] = "answered"] /\ Taken(c)
            /\ reply' = [reply EXCEPT ![c] = Verdict(c)]
    /\ UNCHANGED << shared, pool, req, age, lenient, acted, row >>

\* The tick goes on with what it got, and calls again.
Listed ==
    /\ at[Tick] = "waiting" /\ th[Tick] = "end"
    /\ at' = [at EXCEPT ![Tick] = "idle"] /\ Taken(Tick)
    /\ UNCHANGED << shared, pool, req, age, lenient, acted, reply, row >>

\* The row is committed, then the caller is answered.
Record(c) ==
    /\ at[c] = "recording"
    /\ row' = [row EXCEPT ![c] = IF outcome[c] = "ok" THEN "success" ELSE "failure"]
    /\ at' = [at EXCEPT ![c] = "answered"]
    /\ reply' = [reply EXCEPT ![c] = Verdict(c)]
    /\ Taken(c)
    /\ UNCHANGED << shared, pool, req, age, lenient, acted >>

RecordFails(c) ==
    /\ at[c] = "recording" /\ failures > 0
    /\ failures' = failures - 1
    /\ at' = [at EXCEPT ![c] = "answered"]
    /\ reply' = [reply EXCEPT ![c] = "error"]
    /\ Taken(c)
    /\ UNCHANGED << client, cooling, engine, bound, serving, pool, req, age, lenient, acted, row >>

\* Nobody awaits the thread any more: one that has not begun never will, another
\* goes on to its end.
Abandoned(c) == th' = [th EXCEPT ![c] = IF @ = "queued" THEN "none" ELSE @]

\* A mutant of Timeout: a command that still waits for its thread is not timed.
TimeoutOfThread(c) ==
    /\ req[c].op = "exec" /\ at[c] = "waiting" /\ th[c] # "queued"
    /\ at' = [at EXCEPT ![c] = "answered"]
    /\ reply' = [reply EXCEPT ![c] = "refused"]
    /\ Abandoned(c)
    /\ UNCHANGED << shared, pool, req, age, outcome, lenient, acted, row >>

Timeout(c) ==
    /\ req[c].op = "exec" /\ at[c] = "waiting"
    /\ at' = [at EXCEPT ![c] = "answered"]
    /\ reply' = [reply EXCEPT ![c] = "refused"]
    /\ Abandoned(c)
    /\ UNCHANGED << shared, pool, req, age, outcome, lenient, acted, row >>

\* The loop is cancelled while it awaits a thread or a commit.
Cancel(c) ==
    /\ ~serving /\ req[c].via = "loop" /\ at[c] \in {"waiting", "recording"}
    /\ at' = [at EXCEPT ![c] = "cancelled"]
    /\ Abandoned(c)
    /\ UNCHANGED << shared, pool, req, age, outcome, lenient, acted, reply, row >>

-----------------------------------------------------------------------------
\* The tick, the lifespan, the engine and time.

Bind(lists) ==
    /\ serving /\ \A c \in Callers : Free(c)
    /\ bound # lists
    /\ bound' = lists
    /\ lenient' = [c \in Callers |-> IF th[c] \in {"queued", "deny", "allow"} /\ ~req[c].force
                                     THEN lenient[c] \cup (Lists \ lists)
                                     ELSE lenient[c]]
    /\ UNCHANGED << client, cooling, engine, failures, serving, pool, req, th, age, outcome, acted, caller >>

\* The server has answered its requests when the lifespan goes on.
Shutdown ==
    /\ serving
    /\ \A c \in Callers : req[c].via # "loop" => at[c] \in {"idle", "answered"}
    /\ serving' = FALSE
    /\ UNCHANGED << client, cooling, engine, bound, failures, pool, req, thread, caller >>

Close ==
    /\ ~serving /\ client
    /\ \A c \in Callers : at[c] \notin {"waiting", "recording"}
    /\ client' = FALSE
    /\ UNCHANGED << cooling, engine, bound, failures, serving, pool, req, thread, caller >>

Engine ==
    /\ engine' = ~engine
    /\ UNCHANGED << client, cooling, bound, failures, serving, pool, req, thread, caller >>

Dialling == {c \in Callers : th[c] \in {"make", "ping", "fail"}}

Elapse ==
    /\ cooling > 0 \/ \E c \in Dialling : age[c] < Backoff
    /\ cooling' = IF cooling > 0 THEN cooling - 1 ELSE 0
    /\ age' = [c \in Callers |-> IF c \in Dialling /\ age[c] < Backoff THEN age[c] + 1 ELSE age[c]]
    /\ UNCHANGED << client, engine, bound, failures, serving, pool, req, th, outcome, lenient, acted, caller >>

Ask(c)  == Refuse(c) \/ Call(c)
Dial(c) == Deny(c) \/ Allow(c) \/ Look(c) \/ Take(c) \/ Make(c) \/ Ping(c) \/ Fail(c)
Use(c)  == Done(c) \/ Error(c)
Behind(c) == Return(c) \/ Record(c) \/ RecordFails(c)

Next ==
    \/ \E c \in Callers : \/ Ask(c) \/ Start(c) \/ Dial(c) \/ Use(c)
                          \/ Behind(c) \/ Timeout(c) \/ Cancel(c)
    \/ Ready \/ Listed \/ Shutdown \/ Close \/ Engine \/ Elapse
    \/ \E lists \in Bindings : Bind(lists)

Spec == Init /\ [][Next]_vars

\* The pool serves its queue in order; the engine answers or times out in two
\* seconds, but a command may go on for ever; a list is not always spoiled by a
\* container that goes while it is made; the loop calls again.
Serve(c) == req[c].op # "exec" /\ Use(c)

StartRuns(c)   == SF_vars(Start(c))
DialRuns(c)    == WF_vars(Dial(c))
ServeRuns(c)   == WF_vars(Serve(c))
BehindRuns(c)  == WF_vars(Behind(c))
TimeoutRuns(c) == WF_vars(Timeout(c))
TickCalls      == WF_vars(Call(Tick))
TickListed     == WF_vars(Listed)
ListSucceeds   == SF_vars(Done(Tick))
ClockRuns      == WF_vars(Elapse)

Fairness ==
    /\ \A c \in Callers : /\ StartRuns(c) /\ DialRuns(c) /\ ServeRuns(c)
                          /\ BehindRuns(c) /\ TimeoutRuns(c)
    /\ TickCalls /\ TickListed /\ ListSucceeds /\ ClockRuns

FairSpec == Spec /\ Fairness

-----------------------------------------------------------------------------
(***************************************************************************)
(* What reaches the engine without force was let through by each list that *)
(* stands in its way, under settings bound while the call was under way    *)
(* (docker_ctl.py:308-313, 142-173).  Not by both under the same settings: *)
(* the tick may rebind them between the two reads.  A command or a file    *)
(* never reaches the process's own container.                              *)
(***************************************************************************)
ProtectedUntouched ==
    [][\A c \in Calls : acted'[c] /\ ~acted[c] =>
        /\ req[c].op = "act" /\ ~req[c].force => lenient[c] = Lists
        /\ req[c].op \in {"exec", "get", "put"} /\ ~req[c].force => "denylist" \in lenient[c]
        /\ req[c].op \in {"exec", "put"} => ~req[c].own]_vars

(***************************************************************************)
(* The audit trail is true and complete (api.py:265-285, pages.py:333-352, *)
(* models.py:47): a row of success means that the engine did it, the       *)
(* answer and the row agree, and what the engine did has no row only if a  *)
(* webhook asked, the database failed, or the walk was cancelled and its   *)
(* thread went on.  (A row of failure may stand for a restart whose answer *)
(* was lost.)                                                              *)
(***************************************************************************)
AuditTruthful ==
    \A c \in Calls : req[c].op = "act" =>
        /\ row[c] = "success" => acted[c]
        /\ Audited(c) /\ reply[c] \in {"ok", "refused", "error"} =>
              row[c] = (CASE reply[c] = "ok" -> "success" [] reply[c] = "refused" -> "failure"
                          [] OTHER -> "none")
        /\ acted[c] /\ row[c] = "none" =>
              \/ req[c].via = "hook"
              \/ reply[c] = "error"
              \/ at[c] \in {"waiting", "recording"}
              \/ at[c] = "cancelled" /\ req[c].via = "loop"

\* Commands that do not end hold every thread of the pool.
Hogged == Cardinality({c \in Callers : th[c] = "use" /\ req[c].op = "exec"}) = pool

(***************************************************************************)
(* An engine that stays up is found again: whatever the threads that share *)
(* _client did to each other, the tick gets its list again and again       *)
(* (docker_ctl.py:55-72, 112-114).                                         *)
(***************************************************************************)
Recovers == <>[](engine /\ serving /\ ~Hogged) => []<>(outcome[Tick] = "ok")

(***************************************************************************)
(* Every caller is answered: of a command after fifteen seconds, though it *)
(* never ends or never got a thread (docker_ctl.py:146-152), of the others *)
(* unless such commands hold the whole pool.                               *)
(***************************************************************************)
Waiting(c) == at[c] \in {"waiting", "recording"}

Answered ==
    \A c \in Callers : Waiting(c) ~> (~Waiting(c) \/ (Hogged /\ req[c].op # "exec"))
=============================================================================
