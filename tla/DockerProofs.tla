------------------------------ MODULE DockerProofs ------------------------------
(***************************************************************************)
(* Proofs about Docker, for any calls, pool, back-off and settings: what   *)
(* the gates and the audit promise, that every caller is answered and that *)
(* an engine that is up is found again. The liveness theorems have two     *)
(* kinds of hypotheses, both true of every behaviour of the specification  *)
(* and both beyond this prover: that a guard which is written out enables  *)
(* its action, and instances of induction in a temporal formula.           *)
(***************************************************************************)
EXTENDS Docker, FiniteSetTheorems, TLAPS

Steps(c) == Ask(c) \/ Start(c) \/ Dial(c) \/ Use(c) \/ Behind(c) \/ Timeout(c) \/ Cancel(c)

-----------------------------------------------------------------------------
\* What the gates of a call have established for the rest of it.
GateOk(c) ==
    /\ th[c] \in {"queued", "deny", "allow"} /\ ~req[c].force => Lists \ bound \subseteq lenient[c]
    /\ th[c] \in {"deny", "allow"} => req[c].op = "act" /\ ~req[c].force
    /\ th[c] = "allow" => "denylist" \in lenient[c]
    /\ th[c] \in Running \ {"deny", "allow"} /\ req[c].op = "act" /\ ~req[c].force => lenient[c] = Lists
    /\ th[c] \notin {"none", "end"} =>
          /\ req[c].op \in {"exec", "get", "put"} /\ ~req[c].force => "denylist" \in lenient[c]
          /\ req[c].op \in {"exec", "put"} => ~req[c].own

\* Where a caller is, and what its thread and its row must then look like.
TrailOk(c) ==
    /\ at[c] = "idle" => th[c] = "none" /\ ~acted[c]
    /\ at[c] # "answered" => reply[c] = "none" /\ row[c] = "none"
    /\ at[c] = "answered" /\ req[c].op = "act" => th[c] = "none"
    /\ at[c] = "cancelled" => req[c].via = "loop"
    /\ at[c] = "recording" => Audited(c) /\ th[c] = "end"
    /\ th[c] = "end" => outcome[c] \in {"ok", "failed"}
    /\ outcome[c] = "ok" => acted[c]

Truthful(c) == req[c].op = "act" =>
    /\ row[c] = "success" => acted[c]
    /\ Audited(c) /\ reply[c] \in {"ok", "refused", "error"} =>
          row[c] = (CASE reply[c] = "ok" -> "success" [] reply[c] = "refused" -> "failure"
                      [] OTHER -> "none")
    /\ acted[c] /\ row[c] = "none" =>
          \/ req[c].via = "hook"
          \/ reply[c] = "error"
          \/ at[c] \in {"waiting", "recording"}
          \/ at[c] = "cancelled" /\ req[c].via = "loop"

IInv == TypeOK /\ \A c \in Calls : GateOk(c) /\ TrailOk(c) /\ Truthful(c)

-----------------------------------------------------------------------------
LEMMA InitIInv == Init => IInv
<1> SUFFICES ASSUME Init PROVE IInv
  OBVIOUS
<1> USE DockerAssumption DEF Init, Callers, Lists, Running, Requests, Listing, Ops, Vias
<1>1. PICK load \in Loads : /\ pool = load.pool
                            /\ req = [c \in Callers |-> IF c = Tick THEN Listing ELSE load.wants[c]]
  OBVIOUS
<1>2. load.wants \in [Calls -> Requests] /\ load.pool \in Nat \ {0}
  OBVIOUS
<1>3. req \in [Callers -> Requests]
  BY <1>1, <1>2
<1>4. TypeOK
  <2>1. at \in [Callers -> {"idle"}] /\ reply \in [Callers -> {"none"}] /\ row \in [Callers -> {"none"}]
    BY <1>1
  <2>2. /\ th \in [Callers -> {"none"}] /\ age \in [Callers -> {0}] /\ outcome \in [Callers -> {"none"}]
        /\ lenient \in [Callers -> {{}}] /\ acted \in [Callers -> {FALSE}]
    BY <1>1
  <2>3. cooling \in 0..Backoff /\ failures \in 0..MaxFailures /\ 0 \in 0..Backoff
    OBVIOUS
  <2> HIDE DEF Init, Requests
  <2> QED
    BY <1>1, <1>2, <1>3, <2>1, <2>2, <2>3 DEF TypeOK, Init
<1>5. \A c \in Calls : GateOk(c) /\ TrailOk(c) /\ Truthful(c)
  BY DEF GateOk, TrailOk, Truthful, Audited
<1> QED
  BY <1>4, <1>5 DEF IInv

\* What a step of a thread does to the functions that describe it.
LEMMA GoesType ==
    ASSUME TypeOK, NEW c \in Callers, NEW place \in Running, Goes(c, place)
    PROVE  /\ th' \in [Callers -> Running \cup {"none", "queued", "end"}]
           /\ outcome' \in [Callers -> {"none", "ready", "ok", "failed"}]
           /\ lenient' \in [Callers -> SUBSET Lists]
BY DEF TypeOK, Goes

LEMMA EndsType ==
    ASSUME TypeOK, NEW c \in Callers, NEW result \in {"ready", "ok", "failed"}, Ends(c, result)
    PROVE  /\ th' \in [Callers -> Running \cup {"none", "queued", "end"}]
           /\ outcome' \in [Callers -> {"none", "ready", "ok", "failed"}]
           /\ lenient' \in [Callers -> SUBSET Lists]
BY DEF TypeOK, Ends

LEMMA DialType ==
    ASSUME TypeOK, NEW c \in Callers, Dial(c)
    PROVE  TypeOK'
<1> USE DEF shared, caller
<1>1. \A place \in {"allow", "look", "take", "make", "ping", "fail", "hand", "use"} : place \in Running
  BY DEF Running
<1>2. CASE Deny(c)
  BY <1>1, <1>2, GoesType, EndsType DEF Deny, TypeOK
<1>3. CASE Allow(c)
  BY <1>1, <1>3, GoesType, EndsType DEF Allow, TypeOK
<1>4. CASE Look(c)
  <2>1. age' \in [Callers -> 0..Backoff]
    BY <1>4, DockerAssumption DEF Look, TypeOK
  <2> QED
    BY <1>1, <1>4, <2>1, GoesType, EndsType DEF Look, TypeOK
<1>5. CASE Take(c)
  <2>1. age' \in [Callers -> 0..Backoff]
    BY <1>5, DockerAssumption DEF Take, TypeOK
  <2> QED
    BY <1>1, <1>5, <2>1, GoesType, EndsType DEF Take, TypeOK
<1>6. CASE Make(c)
  BY <1>1, <1>6, GoesType DEF Make, TypeOK
<1>7. CASE Ping(c)
  BY <1>1, <1>7, GoesType DEF Ping, TypeOK
<1>8. CASE Fail(c)
  <2>1. age' \in [Callers -> 0..Backoff] /\ cooling' \in 0..Backoff
    BY <1>8, DockerAssumption DEF Fail, TypeOK
  <2> QED
    BY <1>8, <2>1, EndsType DEF Fail, TypeOK
<1> QED
  BY <1>2, <1>3, <1>4, <1>5, <1>6, <1>7, <1>8 DEF Dial

LEMMA UseType ==
    ASSUME TypeOK, NEW c \in Callers, Start(c) \/ Use(c) \/ (c = Tick /\ Ready)
    PROVE  TypeOK'
<1> USE DEF shared, caller
<1>1. "deny" \in Running /\ "look" \in Running
  BY DEF Running
<1>2. CASE Start(c)
  BY <1>1, <1>2, GoesType, EndsType DEF Start, TypeOK
<1>3. CASE Done(c)
  <2>1. acted' \in [Callers -> BOOLEAN]
    BY <1>3 DEF Done, TypeOK
  <2> QED
    BY <1>3, <2>1, EndsType DEF Done, TypeOK
<1>4. CASE Error(c)
  <2>1. acted' \in [Callers -> BOOLEAN] /\ client' \in BOOLEAN
    <3>1. PICK did \in {FALSE, engine /\ c # Tick} : acted' = [acted EXCEPT ![c] = did]
      BY <1>4 DEF Error
    <3>2. did \in BOOLEAN
      BY Zenon DEF TypeOK
    <3>3. client' \in BOOLEAN
      BY <1>4, Zenon DEF Error, TypeOK
    <3> QED
      BY <3>1, <3>2, <3>3 DEF TypeOK
  <2>2. Ends(c, "failed") /\ UNCHANGED << cooling, engine, bound, failures, serving, pool, req, age, caller >>
    BY <1>4 DEF Error
  <2> QED
    BY <2>1, <2>2, EndsType DEF TypeOK
<1>5. CASE c = Tick /\ Ready
  BY <1>5, EndsType DEF Ready, TypeOK
<1> QED
  BY <1>2, <1>3, <1>4, <1>5 DEF Use

LEMMA TypeNext == TypeOK /\ [Next]_vars => TypeOK'
<1> SUFFICES ASSUME TypeOK, [Next]_vars PROVE TypeOK'
  OBVIOUS
<1> USE DockerAssumption DEF TypeOK, shared, thread, caller, Callers, Lists, Taken, Abandoned, Verdict
<1>1. ASSUME NEW c \in Callers, Ask(c) PROVE TypeOK'
  <2>1. CASE Refuse(c)
    BY <2>1 DEF Refuse
  <2>2. CASE Call(c)
    BY <2>2 DEF Call
  <2> QED
    BY <1>1, <2>1, <2>2 DEF Ask
<1>2. ASSUME NEW c \in Callers, Behind(c) PROVE TypeOK'
  <2>1. CASE Return(c)
    BY <2>1 DEF Return
  <2>2. CASE Record(c)
    BY <2>2 DEF Record
  <2>3. CASE RecordFails(c)
    BY <2>3 DEF RecordFails
  <2> QED
    BY <1>2, <2>1, <2>2, <2>3 DEF Behind
<1>3. ASSUME NEW c \in Callers, Timeout(c) \/ Cancel(c) PROVE TypeOK'
  BY <1>3 DEF Timeout, Cancel
<1>4. CASE Listed \/ Shutdown \/ Close \/ Engine
  BY <1>4 DEF Listed, Shutdown, Close, Engine
<1>5. CASE Elapse
  <2>1. cooling' \in 0..Backoff
    BY <1>5 DEF Elapse
  <2>2. age' \in [Callers -> 0..Backoff]
    BY <1>5 DEF Elapse
  <2> QED
    BY <1>5, <2>1, <2>2 DEF Elapse
<1>6. ASSUME NEW lists \in Bindings, Bind(lists) PROVE TypeOK'
  BY <1>6 DEF Bind
<1>7. CASE UNCHANGED vars
  BY <1>7 DEF vars
<1>8. Tick \in Callers
  OBVIOUS
<1> QED
  BY <1>1, <1>2, <1>3, <1>4, <1>5, <1>6, <1>7, <1>8, DialType, UseType DEF Next

-----------------------------------------------------------------------------
Same(c) ==
    /\ req'[c] = req[c] /\ at'[c] = at[c] /\ reply'[c] = reply[c] /\ row'[c] = row[c]
    /\ th'[c] = th[c] /\ outcome'[c] = outcome[c] /\ acted'[c] = acted[c]

\* A step of one caller leaves the others as they were.
LEMMA OthersSame ==
    ASSUME TypeOK, NEW d \in Callers, Steps(d), NEW c \in Callers, c # d
    PROVE  Same(c) /\ lenient'[c] = lenient[c] /\ bound' = bound
<1> USE DEF TypeOK, Same, shared, thread, caller, Goes, Ends, Taken, Abandoned
<1>1. CASE Ask(d) \/ Start(d)
  BY <1>1 DEF Ask, Refuse, Call, Start
<1>2. CASE Dial(d)
  BY <1>2 DEF Dial, Deny, Allow, Look, Take, Make, Ping, Fail
<1>3. CASE Use(d)
  BY <1>3 DEF Use, Done, Error
<1>4. CASE Behind(d) \/ Timeout(d) \/ Cancel(d)
  BY <1>4 DEF Behind, Return, Record, RecordFails, Timeout, Cancel
<1> QED
  BY <1>1, <1>2, <1>3, <1>4 DEF Steps

(***************************************************************************)
(* The gates: the denylist is read for every call without force, the       *)
(* allow-list for an action (docker_ctl.py:142-173, 308-318).              *)
(***************************************************************************)
LEMMA GateStep ==
    ASSUME TypeOK, NEW c \in Calls, GateOk(c), Steps(c)
    PROVE  GateOk(c)'
<1> USE DEF TypeOK, GateOk, shared, thread, caller, Callers, Running, Lists
<1>1. CASE Refuse(c)
  BY <1>1 DEF Refuse
<1>2. CASE Call(c)
  BY <1>2 DEF Call, Stopped
<1>3. CASE Start(c)
  BY <1>3 DEF Start, Goes, Ends
<1>4. CASE Deny(c) \/ Allow(c)
  BY <1>4 DEF Deny, Allow, Goes, Ends
<1>5. CASE Look(c) \/ Take(c) \/ Make(c) \/ Ping(c) \/ Fail(c)
  BY <1>5 DEF Look, Take, Make, Ping, Fail, Goes, Ends
<1>6. CASE Use(c)
  BY <1>6 DEF Use, Done, Error, Ends
<1>7. CASE Behind(c) \/ Timeout(c) \/ Cancel(c)
  BY <1>7 DEF Behind, Return, Record, RecordFails, Timeout, Cancel, Taken, Abandoned
<1> QED
  BY <1>1, <1>2, <1>3, <1>4, <1>5, <1>6, <1>7 DEF Steps, Ask, Dial

(***************************************************************************)
(* The trail: a row is written behind the thread's end, and says what the  *)
(* thread brought (api.py:265-285).                                        *)
(***************************************************************************)
LEMMA TrailStep ==
    ASSUME TypeOK, Tick \notin Calls, NEW c \in Calls, TrailOk(c), Truthful(c), Steps(c)
    PROVE  TrailOk(c)' /\ Truthful(c)'
<1> USE DEF TypeOK, TrailOk, Truthful, Audited, shared, thread, caller, Callers, Running
<1>1. CASE Refuse(c)
  BY <1>1 DEF Refuse
<1>2. CASE Call(c)
  BY <1>2 DEF Call
<1>3. CASE Start(c)
  BY <1>3 DEF Start, Goes, Ends
<1>4. CASE Dial(c)
  BY <1>4 DEF Dial, Deny, Allow, Look, Take, Make, Ping, Fail, Goes, Ends
<1>5. CASE Use(c)
  BY <1>5 DEF Use, Done, Error, Ends
<1>6. CASE Return(c)
  BY <1>6 DEF Return, Taken, Verdict
<1>7. CASE Record(c)
  BY <1>7 DEF Record, Taken, Verdict
<1>8. CASE RecordFails(c)
  BY <1>8 DEF RecordFails, Taken
<1>9. CASE Timeout(c) \/ Cancel(c)
  BY <1>9 DEF Timeout, Cancel, Abandoned
<1> QED
  BY <1>1, <1>2, <1>3, <1>4, <1>5, <1>6, <1>7, <1>8, <1>9 DEF Steps, Ask, Behind

\* The steps of no call leave every call where it was.
LEMMA EnvironmentStep ==
    ASSUME TypeOK, Tick \notin Calls, NEW c \in Calls, GateOk(c), TrailOk(c), Truthful(c),
           Ready \/ Listed \/ Shutdown \/ Close \/ Engine \/ Elapse
              \/ (\E lists \in Bindings : Bind(lists)) \/ UNCHANGED vars
    PROVE  GateOk(c)' /\ TrailOk(c)' /\ Truthful(c)'
<1> USE DEF TypeOK, Callers, shared, thread, caller
<1>1. Same(c)
  BY DEF Same, Ready, Listed, Shutdown, Close, Engine, Elapse, Bind, Ends, Taken, vars
<1>2. /\ Lists \ bound \subseteq lenient[c] => Lists \ bound' \subseteq lenient'[c]
         \/ th[c] \notin {"queued", "deny", "allow"} \/ req[c].force
      /\ lenient[c] \subseteq lenient'[c] /\ lenient'[c] \subseteq Lists
  BY DEF Ready, Listed, Shutdown, Close, Engine, Elapse, Bind, Ends, Taken, vars, Lists
<1> QED
  BY <1>1, <1>2 DEF Same, GateOk, TrailOk, Truthful, Audited, Lists, Running

LEMMA NextIInv == IInv /\ [Next]_vars => IInv'
<1> SUFFICES ASSUME IInv, [Next]_vars PROVE IInv'
  OBVIOUS
<1>1. TypeOK /\ TypeOK'
  BY TypeNext DEF IInv
<1>2. Tick \notin Calls
  BY DockerAssumption
<1>3. ASSUME NEW c \in Calls PROVE GateOk(c)' /\ TrailOk(c)' /\ Truthful(c)'
  <2>1. CASE Steps(c)
    BY <1>1, <1>2, <2>1, GateStep, TrailStep DEF IInv
  <2>2. ASSUME NEW d \in Callers, d # c, Steps(d) PROVE GateOk(c)' /\ TrailOk(c)' /\ Truthful(c)'
    <3>1. Same(c) /\ lenient'[c] = lenient[c] /\ bound' = bound
      BY <1>1, <2>2, OthersSame DEF Callers
    <3> QED
      BY <3>1 DEF IInv, Same, GateOk, TrailOk, Truthful, Audited
  <2>3. CASE Ready \/ Listed \/ Shutdown \/ Close \/ Engine \/ Elapse
                \/ (\E lists \in Bindings : Bind(lists)) \/ UNCHANGED vars
    BY <1>1, <1>2, <2>3, EnvironmentStep DEF IInv
  <2> QED
    BY <2>1, <2>2, <2>3 DEF Next, Steps, Callers
<1> QED
  BY <1>1, <1>3 DEF IInv

LEMMA Invariance == Spec => []IInv
BY InitIInv, NextIInv, PTL DEF Spec

-----------------------------------------------------------------------------
(* The types of the adapter's state, its callers and its threads. *)
THEOREM TypeCorrect == Spec => []TypeOK
<1>1. IInv => TypeOK
  BY DEF IInv
<1> QED
  BY <1>1, Invariance, PTL

(***************************************************************************)
(* The audit trail is true and complete, for any number of calls and any   *)
(* failures (api.py:265-285, pages.py:333-352).                            *)
(***************************************************************************)
THEOREM AuditIsTruthful == Spec => []AuditTruthful
<1>1. IInv => AuditTruthful
  BY DEF IInv, Truthful, AuditTruthful
<1> QED
  BY <1>1, Invariance, PTL

(***************************************************************************)
(* No call without force reaches the engine past a list that stopped the   *)
(* container all along (docker_ctl.py:308-313).                            *)
(***************************************************************************)
THEOREM ProtectedAreUntouched == Spec => ProtectedUntouched
<1>1. IInv /\ [Next]_vars =>
        [\A c \in Calls : acted'[c] /\ ~acted[c] =>
            /\ req[c].op = "act" /\ ~req[c].force => lenient[c] = Lists
            /\ req[c].op \in {"exec", "get", "put"} /\ ~req[c].force => "denylist" \in lenient[c]
            /\ req[c].op \in {"exec", "put"} => ~req[c].own]_vars
  <2> SUFFICES ASSUME IInv, Next, NEW c \in Calls, acted'[c] /\ ~acted[c]
               PROVE  /\ req[c].op = "act" /\ ~req[c].force => lenient[c] = Lists
                      /\ req[c].op \in {"exec", "get", "put"} /\ ~req[c].force => "denylist" \in lenient[c]
                      /\ req[c].op \in {"exec", "put"} => ~req[c].own
    OBVIOUS
  <2>1. th[c] = "use"
    <3>1. TypeOK /\ c \in Callers
      BY DEF IInv, Callers
    <3>2. ~Same(c)
      BY DEF Same
    <3>3. Steps(c)
      <4>1. ASSUME NEW d \in Callers, Steps(d), d # c PROVE FALSE
        BY <3>1, <3>2, <4>1, OthersSame
      <4>2. ~(Ready \/ Listed \/ Shutdown \/ Close \/ Engine \/ Elapse \/ \E lists \in Bindings : Bind(lists))
        BY DEF Ready, Listed, Shutdown, Close, Engine, Elapse, Bind, thread
      <4> QED
        BY <4>1, <4>2 DEF Next, Steps
    <3> QED
      BY <3>1, <3>3 DEF Steps, Ask, Refuse, Call, Start, Dial, Deny, Allow, Look, Take, Make, Ping, Fail,
         Use, Done, Error, Behind, Return, Record, RecordFails, Timeout, Cancel, thread
  <2> QED
    BY <2>1 DEF IInv, GateOk, Running
<1> QED
  BY <1>1, Invariance, PTL DEF Spec, ProtectedUntouched

-----------------------------------------------------------------------------
\* Every caller is answered.

\* The threads at work, and those of them that may go on for ever.
Busy == {d \in Callers : th[d] \in Running}
Hogs == {d \in Callers : th[d] = "use" /\ req[d].op = "exec"}
Full == Cardinality(Busy) = pool

\* An idle caller has no thread, one that waits for its thread has one, and only an
\* action whose thread has ended waits for its row; the pool has no more threads than its size.
WaitOk(c) ==
    /\ at[c] = "idle" => th[c] = "none"
    /\ at[c] = "waiting" => th[c] # "none"
    /\ at[c] = "recording" => th[c] = "end" /\ req[c].op = "act" /\ c # Tick
PoolOk == Cardinality(Busy) <= pool

Other == Ready \/ Listed \/ Shutdown \/ Close \/ Engine \/ Elapse
            \/ (\E lists \in Bindings : Bind(lists)) \/ UNCHANGED vars

\* Every step is one of a caller or of none.
LEMMA WhoSteps ==
    ASSUME [Next]_vars
    PROVE  Other \/ \E d \in Callers : Steps(d)
BY DEF Next, Other, Steps

LEMMA WaitStep ==
    ASSUME TypeOK, NEW c \in Callers, WaitOk(c), [Next]_vars
    PROVE  WaitOk(c)'
<1> USE DEF TypeOK, WaitOk, shared, thread, caller, Running
<1>1. CASE Other
  BY <1>1 DEF Other, Ready, Listed, Shutdown, Close, Engine, Elapse, Bind, Ends, Taken, vars
<1>2. ASSUME NEW d \in Callers, d # c, Steps(d)
      PROVE  WaitOk(c)'
  BY <1>2, OthersSame DEF Same
<1>3. CASE Ask(c) \/ Start(c)
  BY <1>3 DEF Ask, Refuse, Call, Start, Goes, Ends
<1>4. CASE Dial(c) \/ Use(c)
  BY <1>4 DEF Dial, Deny, Allow, Look, Take, Make, Ping, Fail, Use, Done, Error, Goes, Ends
<1>5. CASE Behind(c)
  BY <1>5 DEF Behind, Return, Record, RecordFails, Taken, Audited
<1>6. CASE Timeout(c) \/ Cancel(c)
  BY <1>6 DEF Timeout, Cancel, Abandoned
<1> QED
  BY <1>1, <1>2, <1>3, <1>4, <1>5, <1>6, WhoSteps DEF Steps

\* A thread begins only where the pool has one to spare; no other step sets one to
\* work.
LEMMA BusyStep ==
    ASSUME TypeOK, [Next]_vars
    PROVE  \/ Busy' \subseteq Busy
           \/ \E d \in Callers : Cardinality(Busy) < pool /\ Busy' \subseteq Busy \cup {d}
<1> USE DEF TypeOK, Busy, Running, shared, thread, caller, Goes, Ends
<1>1. CASE Other
  BY <1>1 DEF Other, Ready, Listed, Shutdown, Close, Engine, Elapse, Bind, Taken, vars
<1>2. ASSUME NEW d \in Callers, Steps(d), ~Start(d)
      PROVE  Busy' \subseteq Busy
  <2>1. ASSUME NEW e \in Callers, e # d PROVE th'[e] = th[e]
    BY <1>2, <2>1, OthersSame DEF Same
  <2>2. th'[d] \in Running => th[d] \in Running
    <3>1. CASE Ask(d)
      BY <3>1 DEF Ask, Refuse, Call
    <3>2. CASE Dial(d) \/ Use(d)
      BY <3>2 DEF Dial, Deny, Allow, Look, Take, Make, Ping, Fail, Use, Done, Error
    <3>3. CASE Behind(d) \/ Timeout(d) \/ Cancel(d)
      BY <3>3 DEF Behind, Return, Record, RecordFails, Timeout, Cancel, Taken, Abandoned
    <3> QED
      BY <1>2, <3>1, <3>2, <3>3 DEF Steps
  <2> QED
    BY <2>1, <2>2
<1>3. ASSUME NEW d \in Callers, Start(d)
      PROVE  Cardinality(Busy) < pool /\ Busy' \subseteq Busy \cup {d}
  <2>1. \A e \in Callers : e # d => th'[e] = th[e]
    BY <1>3 DEF Start
  <2> QED
    BY <1>3, <2>1 DEF Start
<1> QED
  BY <1>1, <1>2, <1>3, WhoSteps

LEMMA PoolStep ==
    ASSUME TypeOK, IsFiniteSet(Calls), PoolOk, [Next]_vars
    PROVE  PoolOk'
<1>1. IsFiniteSet(Busy) /\ Cardinality(Busy) \in Nat /\ pool \in Nat
  <2>1. IsFiniteSet(Callers)
    BY FS_AddElement DEF Callers
  <2> QED
    BY <2>1, FS_Subset, FS_CardinalityType DEF Busy, TypeOK
<1>2. pool' = pool
  BY DEF Next, Ask, Refuse, Call, Start, Dial, Deny, Allow, Look, Take, Make, Ping, Fail, Use, Done,
     Error, Behind, Return, Record, RecordFails, Timeout, Cancel, Ready, Listed, Shutdown, Close,
     Engine, Elapse, Bind, vars
<1>3. CASE Busy' \subseteq Busy
  <2>1. Cardinality(Busy') <= Cardinality(Busy) /\ Cardinality(Busy') \in Nat
    BY <1>1, <1>3, FS_Subset, FS_CardinalityType
  <2> HIDE DEF Busy
  <2> QED
    BY <1>1, <1>2, <2>1 DEF PoolOk
<1>4. ASSUME NEW d \in Callers, Cardinality(Busy) < pool, Busy' \subseteq Busy \cup {d}
      PROVE  PoolOk'
  <2> HIDE DEF Busy
  <2>1. IsFiniteSet(Busy \cup {d}) /\ Cardinality(Busy \cup {d}) <= Cardinality(Busy) + 1
    <3>1. /\ IsFiniteSet(Busy \cup {d})
          /\ Cardinality(Busy \cup {d})
               = IF d \in Busy THEN Cardinality(Busy) ELSE Cardinality(Busy) + 1
      BY <1>1, FS_AddElement
    <3> QED
      BY <1>1, <3>1
  <2>2. Cardinality(Busy') <= Cardinality(Busy \cup {d}) /\ Cardinality(Busy') \in Nat
    BY <1>4, <2>1, FS_Subset, FS_CardinalityType
  <2> QED
    BY <1>1, <1>2, <1>4, <2>1, <2>2, FS_CardinalityType DEF PoolOk
<1> QED
  BY <1>3, <1>4, BusyStep

WaitInv == TypeOK /\ PoolOk /\ \A c \in Callers : WaitOk(c)

LEMMA WaitInvariant ==
    ASSUME IsFiniteSet(Calls)
    PROVE  Spec => []WaitInv
<1>1. Init => WaitInv
  <2> SUFFICES ASSUME Init PROVE PoolOk /\ \A c \in Callers : WaitOk(c)
    BY InitIInv DEF IInv, WaitInv
  <2>1. Busy = {} /\ pool \in Nat
    BY InitIInv DEF Init, Busy, Running, IInv, TypeOK
  <2>2. PoolOk
    BY <2>1, FS_EmptySet DEF PoolOk
  <2>3. \A c \in Callers : at[c] = "idle" /\ th[c] = "none"
    BY DEF Init
  <2> QED
    BY <2>2, <2>3 DEF WaitOk
<1>2. WaitInv /\ [Next]_vars => WaitInv'
  BY TypeNext, PoolStep, WaitStep DEF WaitInv
<1> QED
  BY <1>1, <1>2, PTL DEF Spec

\* What the prover cannot see: what enables an action.  A call in the queue may
\* start where the pool has a thread to spare; the threads and their callers may
\* go on from wherever they are.
StartEnabled(c) ==
    [](th[c] = "queued" /\ Cardinality(Busy) < pool => ENABLED <<Start(c)>>_vars)
DialEnabled(c) ==
    [](th[c] \in Running \ {"use"} => ENABLED <<Dial(c)>>_vars)
ServeEnabled(c) ==
    [](th[c] = "use" /\ req[c].op # "exec" => ENABLED <<Serve(c)>>_vars)
BehindEnabled(c) ==
    []((at[c] = "waiting" /\ th[c] = "end" /\ c # Tick) \/ at[c] = "recording"
          => ENABLED <<Behind(c)>>_vars)
TimeoutEnabled(c) ==
    [](req[c].op = "exec" /\ at[c] = "waiting" => ENABLED <<Timeout(c)>>_vars)
ListedEnabled ==
    [](at[Tick] = "waiting" /\ th[Tick] = "end" => ENABLED <<Listed>>_vars)

CallEnabled(c) ==
    /\ StartEnabled(c) /\ DialEnabled(c) /\ ServeEnabled(c)
    /\ BehindEnabled(c) /\ TimeoutEnabled(c)
CallsEnabled == ListedEnabled /\ \A c \in Callers : CallEnabled(c)

\* Where a thread goes from each place, and how many places are ahead of it: a
\* command at the engine need not come back.
Ahead == [deny |-> {"allow", "end"}, allow |-> {"look", "end"}, look |-> {"take", "make", "end"},
          make |-> {"ping"}, ping |-> {"hand", "fail"}, fail |-> {"end"},
          take |-> {"use", "end"}, hand |-> {"use", "end"}, use |-> {"end"}]
Far   == [deny |-> 7, allow |-> 6, look |-> 5, make |-> 4, ping |-> 3, fail |-> 2,
          take |-> 2, hand |-> 2, use |-> 1]

Moving(d) == th[d] \in Running /\ ~(th[d] = "use" /\ req[d].op = "exec")
Left(d)   == IF Moving(d) THEN Far[th[d]] ELSE 0
Work      == {w \in Callers \X (1..7) : w[2] <= Left(w[1])}

\* What is asked for, and the pool, stay.
LEMMA ReqSame ==
    ASSUME [Next]_vars
    PROVE  req' = req /\ pool' = pool
BY DEF Next, Ask, Refuse, Call, Start, Dial, Deny, Allow, Look, Take, Make, Ping, Fail, Use, Done,
   Error, Behind, Return, Record, RecordFails, Timeout, Cancel, Ready, Listed, Shutdown, Close,
   Engine, Elapse, Bind, vars

\* A thread at work stays where it is or goes ahead.
LEMMA ThreadStep ==
    ASSUME TypeOK, NEW c \in Callers, WaitOk(c), th[c] \in Running, [Next]_vars
    PROVE  /\ th'[c] = th[c] \/ th'[c] \in Ahead[th[c]]
           /\ Dial(c) => th'[c] \in Ahead[th[c]]
           /\ Serve(c) => th'[c] = "end"
<1> USE DEF TypeOK, WaitOk, Running, shared, thread, caller
<1>1. ASSUME Dial(c) PROVE th'[c] \in Ahead[th[c]]
  BY <1>1 DEF Dial, Deny, Allow, Look, Take, Make, Ping, Fail, Goes, Ends, Ahead
<1>2. ASSUME Use(c) PROVE th'[c] = "end" /\ "end" \in Ahead[th[c]]
  BY <1>2 DEF Use, Done, Error, Ends, Ahead
<1>3. ASSUME Other PROVE th'[c] = th[c] \/ th'[c] \in Ahead[th[c]]
  <2>1. CASE c = Tick /\ Ready
    BY <2>1 DEF Ready, Ends, Ahead
  <2>2. CASE ~(c = Tick /\ Ready)
    BY <1>3, <2>2 DEF Other, Ready, Listed, Shutdown, Close, Engine, Elapse, Bind, Ends, Taken, vars
  <2> QED
    BY <2>1, <2>2
<1>4. ASSUME NEW d \in Callers, d # c, Steps(d)
      PROVE  th'[c] = th[c]
  BY <1>4, OthersSame DEF Same
<1>5. ASSUME Ask(c) \/ Start(c) \/ Behind(c) \/ Timeout(c) \/ Cancel(c)
      PROVE  th'[c] = th[c]
  BY <1>5 DEF Ask, Refuse, Call, Start, Behind, Return, Record, RecordFails, Timeout, Cancel,
              Abandoned
<1>6. ASSUME Steps(c) PROVE th'[c] = th[c] \/ th'[c] \in Ahead[th[c]]
  BY <1>1, <1>2, <1>5, <1>6 DEF Steps
<1>7. Other \/ Steps(c) \/ \E d \in Callers : d # c /\ Steps(d)
  BY WhoSteps
<1> HIDE DEF TypeOK, WaitOk
<1> QED
  BY <1>1, <1>2, <1>3, <1>4, <1>6, <1>7 DEF Serve

\* Nobody takes a call out of the queue but a thread, or its caller as it leaves.
LEMMA QueueStep ==
    ASSUME TypeOK, NEW c \in Callers, WaitOk(c), [Next]_vars,
           at[c] = "waiting", th[c] = "queued", at'[c] \in {"waiting", "recording"}
    PROVE  /\ th'[c] \in {"queued", "end"} \cup Running
           /\ Start(c) => th'[c] # "queued"
<1> USE DEF TypeOK, WaitOk, Running, shared, thread, caller
<1>1. ASSUME Start(c) PROVE th'[c] \in {"end", "deny", "look"}
  BY <1>1 DEF Start, Goes, Ends
<1>2. CASE Other
  BY <1>1, <1>2 DEF Other, Ready, Listed, Shutdown, Close, Engine, Elapse, Bind, Ends, Taken, vars
<1>3. ASSUME NEW d \in Callers, d # c, Steps(d)
      PROVE  th'[c] = th[c]
  BY <1>3, OthersSame DEF Same
<1>4. ASSUME Steps(c), ~Start(c) PROVE FALSE
  BY <1>4 DEF Steps, Ask, Refuse, Call, Dial, Deny, Allow, Look, Take, Make, Ping, Fail, Use, Done,
              Error, Behind, Return, Record, RecordFails, Timeout, Cancel, Abandoned
<1> QED
  BY <1>1, <1>2, <1>3, <1>4, WhoSteps

\* What is answered is answered: a caller whose thread has ended goes on, one whose
\* row is due is answered behind it.
LEMMA EndStep ==
    ASSUME TypeOK, NEW c \in Callers, WaitOk(c), [Next]_vars,
           at[c] \in {"waiting", "recording"}, th[c] = "end"
    PROVE  /\ \/ at'[c] = at[c] /\ th'[c] = "end"
              \/ at[c] = "waiting" /\ at'[c] = "recording"
              \/ at'[c] \notin {"waiting", "recording"}
           /\ Behind(c) => at'[c] # at[c]
           /\ c = Tick /\ Listed => at'[c] = "idle"
<1> USE DEF TypeOK, WaitOk, Running, shared, thread, caller
<1>1. ASSUME Behind(c) PROVE \/ at'[c] = "answered"
                             \/ at[c] = "waiting" /\ at'[c] = "recording"
  BY <1>1 DEF Behind, Return, Record, RecordFails
<1>2. ASSUME c = Tick, Listed PROVE at'[c] = "idle"
  BY <1>2 DEF Listed
<1>3. CASE Other
  <2>1. (c = Tick /\ Listed) \/ (at'[c] = at[c] /\ th'[c] = "end")
    BY <1>3 DEF Other, Ready, Listed, Shutdown, Close, Engine, Elapse, Bind, Ends, Taken, vars
  <2> QED
    BY <1>1, <1>2, <2>1
<1>4. ASSUME NEW d \in Callers, d # c, Steps(d)
      PROVE  th'[c] = th[c] /\ at'[c] = at[c]
  BY <1>4, OthersSame DEF Same
<1>5. ASSUME Steps(c), ~Behind(c) PROVE at'[c] \in {"answered", "cancelled"}
  BY <1>5 DEF Steps, Ask, Refuse, Call, Start, Dial, Deny, Allow, Look, Take, Make, Ping, Fail, Use,
              Done, Error, Timeout, Cancel
<1> QED
  BY <1>1, <1>2, <1>3, <1>4, <1>5, WhoSteps

\* What is ahead of a thread becomes less as it goes.
LEMMA LeftStep ==
    ASSUME TypeOK, TypeOK', NEW c \in Callers, WaitOk(c), th[c] \in Running, [Next]_vars
    PROVE  /\ Left(c) \in 0..7 /\ Left(c)' \in 0..7 /\ Left(c)' <= Left(c)
           /\ Moving(c) => Left(c) \in 1..7
           /\ Moving(c) /\ th'[c] # th[c] => Left(c)' < Left(c)
<1>1. th'[c] = th[c] \/ th'[c] \in Ahead[th[c]]
  BY ThreadStep
<1>2. req'[c] = req[c]
  BY ReqSame
<1>3. CASE th'[c] = th[c]
  BY <1>2, <1>3 DEF Left, Moving, Far, Running
<1>4. CASE th'[c] \in Ahead[th[c]]
  <2>1. th[c] = "use" => th'[c] = "end"
    BY <1>4 DEF Ahead
  <2>2. th[c] # "use" => th'[c] = "end" \/ (th'[c] \in Running /\ Far[th'[c]] < Far[th[c]])
    BY <1>4 DEF Ahead, Far, Running
  <2>3. th[c] # "use" => Moving(c) /\ Left(c) = Far[th[c]] /\ Far[th[c]] \in 2..7
    BY DEF Moving, Left, Far, Running
  <2>4. th[c] = "use" => Left(c) = IF Moving(c) THEN 1 ELSE 0
    BY DEF Left, Far
  <2>5. \/ Left(c)' = 0
        \/ th'[c] \in Running /\ Left(c)' = Far[th'[c]]
    BY DEF Left, Moving
  <2>6. th'[c] = "end" => Left(c)' = 0
    BY DEF Left, Moving, Running
  <2>7. th'[c] \in Running => Far[th'[c]] \in 1..7
    BY DEF Far, Running
  <2> QED
    BY <2>1, <2>2, <2>3, <2>4, <2>5, <2>6, <2>7
<1> QED
  BY <1>1, <1>3, <1>4

\* While the pool is full no call starts, and what work there is becomes less with
\* every step of a thread.
LEMMA WorkStep ==
    ASSUME WaitInv, WaitInv', Full, [Next]_vars
    PROVE  /\ Work' \subseteq Work
           /\ \A d \in Callers : Moving(d) =>
                 /\ (Moving(d)' /\ th'[d] = th[d]) \/ Work' # Work
                 /\ Dial(d) \/ Serve(d) => Work' # Work
<1>1. TypeOK /\ TypeOK' /\ \A c \in Callers : WaitOk(c)
  BY DEF WaitInv
<1>2. Busy' \subseteq Busy
  BY <1>1, BusyStep DEF Full, TypeOK
<1>3. ASSUME NEW c \in Callers PROVE Left(c) \in 0..7 /\ Left(c)' \in 0..7 /\ Left(c)' <= Left(c)
  <2>1. CASE th[c] \in Running
    BY <1>1, <2>1, LeftStep
  <2>2. CASE th[c] \notin Running
    <3>1. th'[c] \notin Running
      BY <1>2, <2>2 DEF Busy
    <3> QED
      BY <2>2, <3>1 DEF Left, Moving
  <2> QED
    BY <2>1, <2>2
<1>4. Work' \subseteq Work
  BY <1>3 DEF Work
<1>5. ASSUME NEW d \in Callers, Moving(d)
      PROVE  /\ (Moving(d)' /\ th'[d] = th[d]) \/ Work' # Work
             /\ Dial(d) \/ Serve(d) => Work' # Work
  <2>1. th[d] \in Running
    BY <1>5 DEF Moving
  <2>2. ASSUME th'[d] # th[d] PROVE Work' # Work
    <3>1. Left(d) \in 1..7 /\ Left(d)' \in 0..7 /\ Left(d)' < Left(d)
      BY <1>1, <1>5, <2>1, <2>2, LeftStep
    <3>2. <<d, Left(d)>> \in Work /\ <<d, Left(d)>> \notin Work'
      BY <3>1 DEF Work
    <3> QED
      BY <3>2
  <2>3. th'[d] = th[d] => Moving(d)'
    BY <1>5, ReqSame DEF Moving
  <2>4. Dial(d) \/ Serve(d) => th'[d] # th[d]
    <3>1. th[d] \notin Ahead[th[d]] /\ th[d] # "end"
      BY <2>1 DEF Ahead, Running
    <3> QED
      BY <1>1, <2>1, <3>1, ThreadStep
  <2> QED
    BY <2>2, <2>3, <2>4
<1> QED
  BY <1>4, <1>5

\* A full pool has a thread that moves, unless commands hold all of it.
LEMMA SomeoneMoves ==
    ASSUME WaitInv, IsFiniteSet(Calls), Full
    PROVE  Hogged \/ \E d \in Callers : Moving(d)
<1> SUFFICES ASSUME \A d \in Callers : ~Moving(d) PROVE Hogged
  OBVIOUS
<1>1. Busy = {c \in Callers : th[c] = "use" /\ req[c].op = "exec"}
  BY DEF Busy, Moving, Running
<1> QED
  BY <1>1 DEF Hogged, Full

\* What the prover cannot do, an induction in a temporal formula: of the work left,
\* with any thread that moves to make it less.
Less(W)     == Work # W /\ Work \subseteq W
Lap(d, W)   == Full /\ Work = W /\ Moving(d) ~> ~Full \/ Hogged \/ Less(W)
PoolFrees   == Full ~> ~Full \/ Hogged
SomeoneGoes == [](Full => Work \in SUBSET (Callers \X (1..7))
                          /\ (Hogged \/ \E d \in Callers : Moving(d)))
LapsEnd     == \A d \in Callers, W \in SUBSET (Callers \X (1..7)) : Lap(d, W)
WorkRunsOut == IsFiniteSet(Calls) /\ SomeoneGoes /\ LapsEnd => PoolFrees

\* The thread that moves gets on, or another does (docker_ctl.py, 55-72).
LEMMA LapEnds ==
    ASSUME IsFiniteSet(Calls), NEW d \in Callers, NEW W \in SUBSET (Callers \X (1..7))
    PROVE  FairSpec /\ CallEnabled(d) => Lap(d, W)
<1> DEFINE Filled  == Full
           Open   == ~Full
           Kept   == Work = W
           Moves   == Moving(d)
           AtUse   == th[d] = "use"
           MayDial == th[d] \in Running \ {"use"}
           MayServe == th[d] = "use" /\ req[d].op # "exec"
           Held    == Hogged
           Fewer   == Less(W)
<1>1. WaitInv /\ WaitInv' /\ Filled /\ Kept /\ Moves /\ [Next]_vars
         => /\ (Filled' /\ Kept' /\ Moves' /\ (AtUse' <=> AtUse)) \/ Open' \/ Fewer'
            /\ <<Dial(d)>>_vars \/ <<Serve(d)>>_vars => Open' \/ Fewer'
  <2> SUFFICES ASSUME WaitInv, WaitInv', Full, Work = W, Moving(d), [Next]_vars
               PROVE  /\ (Full' /\ Work' = W /\ Moving(d)' /\ (AtUse' <=> AtUse)) \/ Open' \/ Fewer'
                      /\ <<Dial(d)>>_vars \/ <<Serve(d)>>_vars => Open' \/ Fewer'
    OBVIOUS
  <2>1. /\ Work' \subseteq Work
        /\ (Moving(d)' /\ th'[d] = th[d]) \/ Work' # Work
        /\ Dial(d) \/ Serve(d) => Work' # Work
    BY WorkStep
  <2> HIDE DEF Full, Work, Moving
  <2> QED
    BY <2>1 DEF Less
<1>2. /\ Moves /\ AtUse => MayServe
      /\ Moves /\ ~AtUse => MayDial
      /\ Open <=> ~Filled
  BY DEF Moving
<1>3. /\ DialEnabled(d) <=> [](MayDial => ENABLED <<Dial(d)>>_vars)
      /\ ServeEnabled(d) <=> [](MayServe => ENABLED <<Serve(d)>>_vars)
  BY DEF DialEnabled, ServeEnabled
<1>4. Lap(d, W) <=> (Filled /\ Kept /\ Moves ~> Open \/ Held \/ Fewer)
  BY DEF Lap
<1>5. FairSpec => DialRuns(d) /\ ServeRuns(d)
  BY DEF FairSpec, Fairness
<1>6. FairSpec => []WaitInv /\ [][Next]_vars
  BY WaitInvariant DEF FairSpec, Spec
<1>7. CallEnabled(d) => DialEnabled(d) /\ ServeEnabled(d)
  BY DEF CallEnabled
<1> HIDE DEF Filled, Open, Kept, Moves, AtUse, MayDial, MayServe, Held, Fewer
<1>8. FairSpec /\ CallEnabled(d) => (Filled /\ Kept /\ Moves ~> Open \/ Held \/ Fewer)
  BY <1>1, <1>2, <1>3, <1>5, <1>6, <1>7, PTL DEF DialRuns, ServeRuns
<1> QED
  BY <1>4, <1>8

\* So the pool is not full for ever, unless commands hold all of it.
LEMMA PoolIsFreed ==
    ASSUME IsFiniteSet(Calls)
    PROVE  FairSpec /\ CallsEnabled /\ WorkRunsOut => PoolFrees
<1>1. WaitInv => (Full => /\ Work \in SUBSET (Callers \X (1..7))
                          /\ Hogged \/ \E d \in Callers : Moving(d))
  BY SomeoneMoves DEF Work
<1>2. FairSpec => SomeoneGoes
  BY <1>1, WaitInvariant, PTL DEF FairSpec, SomeoneGoes
<1>3. FairSpec /\ CallsEnabled => LapsEnd
  BY LapEnds DEF CallsEnabled, LapsEnd
<1> QED
  BY <1>2, <1>3 DEF WorkRunsOut

\* A thread goes on from wherever it is, but for a command at the engine
\* (docker_ctl.py, 55-72 and 112-114).
GoesTo(c, p) == th[c] = p /\ Moving(c) ~> th[c] \in Ahead[p]

LEMMA GoesOn ==
    ASSUME IsFiniteSet(Calls), NEW c \in Callers, NEW p \in Running
    PROVE  FairSpec /\ CallEnabled(c) => GoesTo(c, p)
<1> DEFINE Here     == th[c] = p
           There    == th[c] \in Ahead[p]
           Moves    == Moving(c)
           MayDial  == th[c] \in Running \ {"use"}
           MayServe == th[c] = "use" /\ req[c].op # "exec"
<1>1. WaitInv /\ Here /\ Moves /\ [Next]_vars
         => /\ (Here' /\ Moves') \/ There'
            /\ <<Dial(c)>>_vars \/ <<Serve(c)>>_vars => There'
  <2> SUFFICES ASSUME WaitInv, Here, Moves, [Next]_vars
               PROVE  /\ (Here' /\ Moves') \/ There'
                      /\ <<Dial(c)>>_vars \/ <<Serve(c)>>_vars => There'
    OBVIOUS
  <2>1. /\ th'[c] = p \/ th'[c] \in Ahead[p]
        /\ Dial(c) => th'[c] \in Ahead[p]
        /\ Serve(c) => th'[c] = "end"
    BY ThreadStep DEF WaitInv
  <2>2. Serve(c) => "end" \in Ahead[p]
    <3>1. Serve(c) => p = "use"
      BY DEF Serve, Use, Done, Error
    <3> QED
      BY <3>1 DEF Ahead
  <2>3. th'[c] = p => Moves'
    BY ReqSame DEF Moving
  <2> QED
    BY <2>1, <2>2, <2>3
<1>2. Here /\ Moves => MayDial \/ MayServe
  BY DEF Moving
<1>3. Here => (MayDial <=> p # "use") /\ (Moves => (MayServe <=> p = "use"))
  BY DEF Moving
<1>4. /\ DialEnabled(c) <=> [](MayDial => ENABLED <<Dial(c)>>_vars)
      /\ ServeEnabled(c) <=> [](MayServe => ENABLED <<Serve(c)>>_vars)
  BY DEF DialEnabled, ServeEnabled
<1>5. GoesTo(c, p) <=> (Here /\ Moves ~> There)
  BY DEF GoesTo
<1>6. FairSpec => DialRuns(c) /\ ServeRuns(c)
  BY DEF FairSpec, Fairness
<1>7. FairSpec => []WaitInv /\ [][Next]_vars
  BY WaitInvariant DEF FairSpec, Spec
<1>8. CallEnabled(c) => DialEnabled(c) /\ ServeEnabled(c)
  BY DEF CallEnabled
<1> HIDE DEF Here, There, Moves, MayDial, MayServe
<1>9. CASE p # "use"
  <2>1. Here /\ Moves => MayDial
    BY <1>3, <1>9
  <2>2. FairSpec /\ CallEnabled(c) => (Here /\ Moves ~> There)
    BY <1>1, <1>4, <1>6, <1>7, <1>8, <2>1, PTL DEF DialRuns
  <2> QED
    BY <1>5, <2>2
<1>10. CASE p = "use"
  <2>1. Here /\ Moves => MayServe
    BY <1>3, <1>10
  <2>2. FairSpec /\ CallEnabled(c) => (Here /\ Moves ~> There)
    BY <1>1, <1>4, <1>6, <1>7, <1>8, <2>1, PTL DEF ServeRuns
  <2> QED
    BY <1>5, <2>2
<1> QED
  BY <1>9, <1>10

\* Hence it comes to its end.
Comes(c) == th[c] \in Running /\ req[c].op # "exec" ~> th[c] = "end"

LEMMA ComesToItsEnd ==
    ASSUME IsFiniteSet(Calls), NEW c \in Callers
    PROVE  FairSpec /\ CallEnabled(c) => Comes(c)
<1> DEFINE De == th[c] = "deny"  Al == th[c] = "allow"  Lo == th[c] = "look"
           Ta == th[c] = "take"  Ma == th[c] = "make"   Pi == th[c] = "ping"
           Fa == th[c] = "fail"  Ha == th[c] = "hand"   Us == th[c] = "use"
           En == th[c] = "end"   Pl == req[c].op # "exec"
           Run == th[c] \in Running
           Moves == Moving(c)
           To(p) == th[c] \in Ahead[p]
<1>1. /\ Run <=> De \/ Al \/ Lo \/ Ta \/ Ma \/ Pi \/ Fa \/ Ha \/ Us
      /\ Run /\ Pl => Moves
  BY DEF Running, Moving
<1>2. [Next]_vars => (Pl' <=> Pl)
  BY ReqSame
<1>3. /\ To("deny") <=> Al \/ En
      /\ To("allow") <=> Lo \/ En
      /\ To("look") <=> Ta \/ Ma \/ En
      /\ To("make") <=> Pi
      /\ To("ping") <=> Ha \/ Fa
      /\ To("fail") <=> En
      /\ To("take") <=> Us \/ En
      /\ To("hand") <=> Us \/ En
      /\ To("use") <=> En
  BY DEF Ahead
<1>4. FairSpec /\ CallEnabled(c) =>
         /\ GoesTo(c, "deny") /\ GoesTo(c, "allow") /\ GoesTo(c, "look") /\ GoesTo(c, "take")
         /\ GoesTo(c, "make") /\ GoesTo(c, "ping") /\ GoesTo(c, "fail") /\ GoesTo(c, "hand")
         /\ GoesTo(c, "use")
  BY GoesOn DEF Running
<1>5. /\ GoesTo(c, "deny") <=> (De /\ Moves ~> To("deny"))
      /\ GoesTo(c, "allow") <=> (Al /\ Moves ~> To("allow"))
      /\ GoesTo(c, "look") <=> (Lo /\ Moves ~> To("look"))
      /\ GoesTo(c, "take") <=> (Ta /\ Moves ~> To("take"))
      /\ GoesTo(c, "make") <=> (Ma /\ Moves ~> To("make"))
      /\ GoesTo(c, "ping") <=> (Pi /\ Moves ~> To("ping"))
      /\ GoesTo(c, "fail") <=> (Fa /\ Moves ~> To("fail"))
      /\ GoesTo(c, "hand") <=> (Ha /\ Moves ~> To("hand"))
      /\ GoesTo(c, "use") <=> (Us /\ Moves ~> To("use"))
  BY DEF GoesTo
<1>6. Comes(c) <=> (Run /\ Pl ~> En)
  BY DEF Comes
<1>7. FairSpec => [][Next]_vars
  BY DEF FairSpec, Spec
<1> HIDE DEF De, Al, Lo, Ta, Ma, Pi, Fa, Ha, Us, En, Pl, Run, Moves, To
<1>8. FairSpec /\ CallEnabled(c) => (Run /\ Pl ~> En)
  BY <1>1, <1>2, <1>3, <1>4, <1>5, <1>7, PTL
<1> QED
  BY <1>6, <1>8

\* A call leaves the queue, unless commands hold every thread
\* (docker_ctl.py, 142-152).
Starts(c) == at[c] = "waiting" /\ th[c] = "queued" ~>
                at[c] # "waiting" \/ th[c] # "queued" \/ Hogged

LEMMA LeavesTheQueue ==
    ASSUME IsFiniteSet(Calls), NEW c \in Callers
    PROVE  FairSpec /\ CallsEnabled /\ WorkRunsOut => Starts(c)
<1> DEFINE Queue  == at[c] = "waiting" /\ th[c] = "queued"
           Gone   == at[c] # "waiting" \/ th[c] # "queued" \/ Hogged
           Held   == Hogged
           Filled == Full
           Open   == ~Full
           May    == th[c] = "queued" /\ Cardinality(Busy) < pool
<1>1. WaitInv /\ Queue /\ Open => May
  <2>1. ASSUME WaitInv, Open PROVE Cardinality(Busy) < pool
    <3>1. IsFiniteSet(Busy) /\ Cardinality(Busy) \in Nat
      BY FS_AddElement, FS_Subset, FS_CardinalityType DEF Busy, Callers
    <3> QED
      BY <2>1, <3>1 DEF WaitInv, PoolOk, Full, TypeOK
  <2> QED
    BY <2>1
<1>2. WaitInv /\ Queue /\ <<Start(c)>>_vars => Gone'
  BY QueueStep DEF WaitInv, Next
<1>3. /\ Gone <=> ~Queue \/ Held
      /\ Open <=> ~Filled
  OBVIOUS
<1>4. PoolFrees <=> (Filled ~> Open \/ Held)
  BY DEF PoolFrees
<1>5. StartEnabled(c) <=> [](May => ENABLED <<Start(c)>>_vars)
  BY DEF StartEnabled
<1>6. Starts(c) <=> (Queue ~> Gone)
  BY DEF Starts
<1>7. FairSpec => StartRuns(c) /\ []WaitInv /\ [][Next]_vars
  BY WaitInvariant DEF FairSpec, Spec, Fairness
<1>8. FairSpec /\ CallsEnabled /\ WorkRunsOut => PoolFrees /\ StartEnabled(c)
  BY PoolIsFreed DEF CallsEnabled, CallEnabled
<1> HIDE DEF Queue, Gone, Held, Filled, Open, May
<1>9. FairSpec /\ CallsEnabled /\ WorkRunsOut => (Queue ~> Gone)
  BY <1>1, <1>2, <1>3, <1>4, <1>5, <1>7, <1>8, PTL DEF StartRuns
<1> QED
  BY <1>6, <1>9

\* A caller whose thread has ended is answered, behind its row if it has one
\* (api.py, 265-285).
Closes(c) == Waiting(c) /\ th[c] = "end" ~> ~Waiting(c)

LEMMA GetsItsAnswer ==
    ASSUME IsFiniteSet(Calls), NEW c \in Callers
    PROVE  FairSpec /\ CallsEnabled => Closes(c)
<1> DEFINE Wait == at[c] = "waiting" /\ th[c] = "end"
           Rec  == at[c] = "recording" /\ th[c] = "end"
           All  == Waiting(c) /\ th[c] = "end"
           Out  == ~Waiting(c)
           May  == (at[c] = "waiting" /\ th[c] = "end" /\ c # Tick) \/ at[c] = "recording"
           Tock == at[Tick] = "waiting" /\ th[Tick] = "end"
<1>1. WaitInv /\ Wait /\ [Next]_vars
         => /\ Wait' \/ Rec' \/ Out'
            /\ <<Behind(c)>>_vars => Rec' \/ Out'
            /\ c = Tick /\ <<Listed>>_vars => Out'
  <2> SUFFICES ASSUME WaitInv, WaitInv', Wait, [Next]_vars
               PROVE  /\ Wait' \/ Rec' \/ Out'
                      /\ <<Behind(c)>>_vars => Rec' \/ Out'
                      /\ c = Tick /\ <<Listed>>_vars => Out'
    BY TypeNext, PoolStep, WaitStep DEF WaitInv
  <2> QED
    BY EndStep DEF WaitInv, WaitOk, Waiting
<1>2. WaitInv /\ Rec /\ [Next]_vars
         => /\ Rec' \/ Out'
            /\ <<Behind(c)>>_vars => Out'
  BY EndStep DEF WaitInv, Waiting
<1>3. /\ All <=> Wait \/ Rec
      /\ Rec => May
  BY DEF Waiting
<1>4. BehindEnabled(c) <=> [](May => ENABLED <<Behind(c)>>_vars)
  BY DEF BehindEnabled
<1>5. ListedEnabled <=> [](Tock => ENABLED <<Listed>>_vars)
  BY DEF ListedEnabled
<1>6. Closes(c) <=> (All ~> Out)
  BY DEF Closes
<1>7. FairSpec => BehindRuns(c) /\ TickListed /\ []WaitInv /\ [][Next]_vars
  BY WaitInvariant DEF FairSpec, Spec, Fairness
<1>8. CallsEnabled => ListedEnabled /\ BehindEnabled(c)
  BY DEF CallsEnabled, CallEnabled
<1>9. CASE c # Tick
  <2>1. Wait => May
    BY <1>9
  <2> HIDE DEF Wait, Rec, All, Out, May, Tock
  <2>2. FairSpec /\ CallsEnabled => (All ~> Out)
    BY <1>1, <1>2, <1>3, <1>4, <1>7, <1>8, <2>1, PTL DEF BehindRuns
  <2> QED
    BY <1>6, <2>2
<1>10. CASE c = Tick
  <2>1. Wait => Tock
    BY <1>10
  <2>2. WaitInv /\ Wait /\ [Next]_vars
           => (Wait' \/ Rec' \/ Out') /\ (<<Listed>>_vars => Out')
    BY <1>1, <1>10
  <2> HIDE DEF Wait, Rec, All, Out, May, Tock
  <2>3. FairSpec /\ CallsEnabled => (All ~> Out)
    BY <1>2, <1>3, <1>4, <1>5, <1>7, <1>8, <2>1, <2>2, PTL DEF BehindRuns, TickListed
  <2> QED
    BY <1>6, <2>3
<1> QED
  BY <1>9, <1>10

(***************************************************************************)
(* Every caller is answered, for any number of calls and any pool: a       *)
(* command by its timeout, whatever its thread does; the others because    *)
(* they leave the queue, their threads end and their rows are written or   *)
(* fail, unless commands hold the whole pool (docker_ctl.py, 55-72 and     *)
(* 142-152).                                                               *)
(***************************************************************************)
THEOREM CallersAreAnswered ==
    ASSUME IsFiniteSet(Calls)
    PROVE  FairSpec /\ CallsEnabled /\ WorkRunsOut => Answered
<1> SUFFICES ASSUME NEW c \in Callers
             PROVE  FairSpec /\ CallsEnabled /\ WorkRunsOut
                      => (Waiting(c) ~> (~Waiting(c) \/ (Hogged /\ req[c].op # "exec")))
  BY DEF Answered
<1> DEFINE Wait  == Waiting(c)
           Goal == ~Waiting(c) \/ (Hogged /\ req[c].op # "exec")
           Held  == Hogged
           At    == at[c] = "waiting"
           Queue == at[c] = "waiting" /\ th[c] = "queued"
           Moved == at[c] # "waiting" \/ th[c] # "queued" \/ Hogged
           Run   == th[c] \in Running
           Plain == req[c].op # "exec"
           RunsP == th[c] \in Running /\ req[c].op # "exec"
           End   == th[c] = "end"
           WaitE == Waiting(c) /\ th[c] = "end"
           Out   == ~Waiting(c)
           Timed == req[c].op = "exec" /\ at[c] = "waiting"
<1>1. WaitInv => (Wait => Queue \/ Run \/ End)
  BY DEF WaitInv, WaitOk, TypeOK, Waiting
<1>2. WaitInv /\ Wait /\ ~Plain => Timed
  BY DEF WaitInv, WaitOk, Waiting
<1>3. WaitInv /\ Timed /\ <<Timeout(c)>>_vars => Out'
  BY DEF WaitInv, TypeOK, Timeout, Waiting
<1>4. [Next]_vars => (Plain' <=> Plain)
  BY ReqSame
<1>5. /\ Goal <=> Out \/ (Held /\ Plain)
      /\ Out <=> ~Wait
      /\ Moved => ~Queue \/ Held
      /\ RunsP <=> Run /\ Plain
      /\ WaitE <=> Wait /\ End
  OBVIOUS
<1>6. /\ Starts(c) <=> (Queue ~> Moved)
      /\ Comes(c) <=> (RunsP ~> End)
      /\ Closes(c) <=> (WaitE ~> Out)
  BY DEF Starts, Comes, Closes
<1>7. TimeoutEnabled(c) <=> [](Timed => ENABLED <<Timeout(c)>>_vars)
  BY DEF TimeoutEnabled
<1>8. FairSpec /\ CallsEnabled /\ WorkRunsOut
         => Starts(c) /\ Comes(c) /\ Closes(c) /\ TimeoutEnabled(c)
  BY LeavesTheQueue, ComesToItsEnd, GetsItsAnswer DEF CallsEnabled, CallEnabled
<1>9. FairSpec => TimeoutRuns(c) /\ []WaitInv /\ [][Next]_vars
  BY WaitInvariant DEF FairSpec, Spec, Fairness
<1> HIDE DEF Wait, Goal, Held, At, Queue, Moved, Run, Plain, RunsP, End, WaitE, Out, Timed
<1>10. FairSpec /\ CallsEnabled /\ WorkRunsOut => (Wait ~> Goal)
  BY <1>1, <1>2, <1>3, <1>4, <1>5, <1>6, <1>7, <1>8, <1>9, PTL DEF TimeoutRuns
<1> QED
  BY <1>10 DEF Wait, Goal

-----------------------------------------------------------------------------
\* An engine that stays up is found again.

\* The engine is up, the process serves, and the pool is not held for ever.
Up == engine /\ serving /\ ~Hogged

\* The tick asks for the list, and calls again once it has it; only the end of the
\* serving cancels a caller.
TickOk ==
    /\ req[Tick] = Listing
    /\ at[Tick] \in {"idle", "waiting", "cancelled"}
    /\ \A c \in Callers : at[c] = "cancelled" => ~serving
TickInv == WaitInv /\ TickOk

LEMMA TickOkStep ==
    ASSUME TypeOK, TickOk, [Next]_vars
    PROVE  TickOk'
<1> USE DEF TypeOK, TickOk, Listing, shared, thread, caller
<1>1. CASE Other
  <2>1. /\ req' = req
        /\ at' = at \/ Listed
        /\ serving' = serving \/ serving' = FALSE
    BY <1>1 DEF Other, Ready, Listed, Shutdown, Close, Engine, Elapse, Bind, vars
  <2>2. Listed => at' = [at EXCEPT ![Tick] = "idle"]
    BY DEF Listed
  <2> QED
    BY <2>1, <2>2 DEF Callers
<1>2. ASSUME NEW d \in Callers, Steps(d)
      PROVE  TickOk'
  <2>1. serving' = serving /\ req' = req
    BY <1>2 DEF Steps, Ask, Refuse, Call, Start, Dial, Deny, Allow, Look, Take, Make, Ping, Fail, Use,
                Done, Error, Behind, Return, Record, RecordFails, Timeout, Cancel
  <2>2. \A c \in Callers : c # d => at'[c] = at[c]
    BY <1>2, OthersSame DEF Same
  <2>3. at'[d] = "cancelled" => ~serving
    BY <1>2 DEF Steps, Ask, Refuse, Call, Start, Dial, Deny, Allow, Look, Take, Make, Ping, Fail, Use,
                Done, Error, Behind, Return, Record, RecordFails, Timeout, Cancel
  <2>4. d = Tick => at'[Tick] \in {"idle", "waiting", "cancelled"}
    BY <1>2 DEF Steps, Ask, Refuse, Call, Start, Dial, Deny, Allow, Look, Take, Make, Ping, Fail, Use,
                Done, Error, Behind, Return, Record, RecordFails, Timeout, Cancel, Stopped, Audited
  <2> QED
    BY <2>1, <2>2, <2>3, <2>4 DEF Callers
<1> QED
  BY <1>1, <1>2, WhoSteps

LEMMA TickInvariant ==
    ASSUME IsFiniteSet(Calls)
    PROVE  Spec => []TickInv
<1>1. Init => TickOk
  <2> SUFFICES ASSUME Init PROVE TickOk
    OBVIOUS
  <2>1. req[Tick] = Listing
    BY DEF Init, Callers
  <2> QED
    BY <2>1 DEF Init, TickOk, Callers
<1>2. TypeOK /\ TickOk /\ [Next]_vars => TickOk'
  BY TickOkStep
<1>3. WaitInv => TypeOK
  BY DEF WaitInv
<1> QED
  BY <1>1, <1>2, <1>3, WaitInvariant, PTL DEF Spec, TickInv

\* What a call has before it, whoever waits for it: it is made at most once.
AtRank == [idle |-> 12, waiting |-> 2, recording |-> 1, answered |-> 0, cancelled |-> 0]
ThRank == [none |-> 0, queued |-> 9, end |-> 1, deny |-> 8, allow |-> 7, look |-> 6, make |-> 5,
           ping |-> 4, fail |-> 3, take |-> 3, hand |-> 3, use |-> 2]
Rest(c) == AtRank[at[c]] + ThRank[th[c]]
ToCome  == {w \in Calls \X (1..12) : w[2] <= Rest(w[1])}

Rests(c) == at'[c] = at[c] /\ th'[c] = th[c]

\* Each step of a call leaves it less before it.
LEMMA RestStep ==
    ASSUME TypeOK, TypeOK', NEW c \in Callers, WaitOk(c), WaitOk(c)', c # Tick, [Next]_vars
    PROVE  /\ Rest(c) \in 0..12 /\ Rest(c)' \in 0..12
           /\ Rests(c) \/ Rest(c)' < Rest(c)
           /\ Steps(c) => ~Rests(c)
<1>1. /\ at[c] \in DOMAIN AtRank /\ at'[c] \in DOMAIN AtRank
      /\ th[c] \in DOMAIN ThRank /\ th'[c] \in DOMAIN ThRank
  BY DEF TypeOK, AtRank, ThRank, Running
<1>2. Rest(c) \in 0..12 /\ Rest(c)' \in 0..12
  <2>1. /\ at[c] = "idle" => th[c] = "none"
        /\ at'[c] = "idle" => th'[c] = "none"
    BY DEF WaitOk
  <2> QED
    BY <1>1, <2>1 DEF Rest, AtRank, ThRank
<1>3. ASSUME Other PROVE Rests(c)
  BY <1>3 DEF Other, TypeOK, Ready, Listed, Shutdown, Close, Engine, Elapse, Bind, Ends, Taken, vars,
              thread, caller, Rests
<1>4. ASSUME NEW d \in Callers, d # c, Steps(d) PROVE Rests(c)
  BY <1>4, OthersSame DEF Same, Rests
<1>5. ASSUME Steps(c) PROVE Rest(c)' < Rest(c)
  <2> USE DEF TypeOK, Rest, AtRank, ThRank, thread, caller
  <2>1. CASE Ask(c)
    <3>1. at[c] = "idle" /\ th[c] = "none"
      BY <2>1 DEF Ask, Refuse, Call, WaitOk
    <3>2. \/ at'[c] = "waiting" /\ th'[c] = "queued"
          \/ at'[c] = "answered" /\ th'[c] = th[c]
      BY <2>1 DEF Ask, Refuse, Call
    <3> QED
      BY <3>1, <3>2
  <2>2. CASE Start(c)
    <3>1. th[c] = "queued" /\ th'[c] \in {"deny", "look", "end"} /\ at' = at
      BY <2>2 DEF Start, Goes, Ends
    <3> QED
      BY <1>1, <3>1
  <2>3. CASE Dial(c) \/ Use(c)
    <3>1. at' = at /\ th[c] \in Running
      BY <2>3 DEF Dial, Deny, Allow, Look, Take, Make, Ping, Fail, Use, Done, Error, Running
    <3>2. th'[c] \in Ahead[th[c]]
      <4>1. Use(c) => th[c] = "use" /\ th'[c] = "end"
        BY DEF Use, Done, Error, Ends
      <4>2. "end" \in Ahead["use"]
        BY DEF Ahead
      <4> QED
        BY <2>3, <3>1, <4>1, <4>2, ThreadStep
    <3> QED
      BY <1>1, <3>1, <3>2 DEF Ahead, Running
  <2>4. CASE Behind(c)
    <3>1. th[c] = "end" /\ at[c] \in {"waiting", "recording"}
      BY <2>4 DEF Behind, Return, Record, RecordFails, WaitOk
    <3>2. \/ at[c] = "waiting" /\ at'[c] = "recording" /\ th'[c] = "end"
          \/ at'[c] = "answered" /\ th'[c] = "none"
      BY <2>4, <3>1 DEF Behind, Return, Record, RecordFails, Taken
    <3> QED
      BY <3>1, <3>2
  <2>5. CASE Timeout(c) \/ Cancel(c)
    <3>1. /\ at[c] \in {"waiting", "recording"} /\ at'[c] \in {"answered", "cancelled"}
          /\ th'[c] \in {"none", th[c]}
      BY <2>5 DEF Timeout, Cancel, Abandoned
    <3> QED
      BY <1>1, <3>1
  <2> QED
    BY <1>5, <2>1, <2>2, <2>3, <2>4, <2>5 DEF Steps
<1>6. Rest(c)' < Rest(c) => ~Rests(c)
  BY <1>2 DEF Rests, Rest
<1> QED
  BY <1>2, <1>3, <1>4, <1>5, <1>6, WhoSteps

\* So what is to come of all calls becomes less, and a step that leaves it as it is
\* is none of theirs.
ToComeSame == ToCome' = ToCome

LEMMA ToComeStep ==
    ASSUME WaitInv, WaitInv', [Next]_vars
    PROVE  /\ ToCome' \subseteq ToCome
           /\ ToComeSame => /\ \A c \in Calls : Rests(c)
                            /\ Steps(Tick) \/ Other
<1>1. ASSUME NEW c \in Calls
      PROVE  /\ Rest(c) \in 0..12 /\ Rest(c)' \in 0..12
             /\ Rests(c) \/ Rest(c)' < Rest(c)
             /\ Steps(c) => ~Rests(c)
  BY RestStep, DockerAssumption DEF WaitInv, Callers
<1>2. ToCome' \subseteq ToCome
  <2>1. \A c \in Calls : Rest(c)' <= Rest(c)
    BY <1>1 DEF Rests, Rest
  <2> QED
    BY <1>1, <2>1 DEF ToCome
<1>3. ASSUME ToComeSame, NEW c \in Calls PROVE Rests(c)
  <2> SUFFICES ASSUME Rest(c)' < Rest(c) PROVE FALSE
    BY <1>1
  <2>1. Rest(c) \in 1..12
    BY <1>1
  <2>2. <<c, Rest(c)>> \in ToCome /\ <<c, Rest(c)>> \notin ToCome'
    BY <1>1, <2>1 DEF ToCome
  <2> QED
    BY <1>3, <2>2 DEF ToComeSame
<1>4. ToComeSame => Steps(Tick) \/ Other
  BY <1>1, <1>3, WhoSteps DEF Callers
<1> QED
  BY <1>2, <1>3, <1>4

\* What the prover cannot see: the tick may call where the loop awaits nothing, a
\* list may succeed while the engine is up, and the back-off may run.
NoneWaits  == \A c \in Calls : ~Waiting(c)
TickEnabled ==
    [](serving /\ at[Tick] = "idle" /\ NoneWaits => ENABLED <<Call(Tick)>>_vars)
DoneEnabled == [](th[Tick] = "use" /\ engine => ENABLED <<Done(Tick)>>_vars)
ClockEnabled == [](cooling > 0 => ENABLED <<Elapse>>_vars)
LoopEnabled  == TickEnabled /\ DoneEnabled /\ ClockEnabled

\* What the prover cannot do, inductions in temporal formulas: over the steps the
\* calls have left, over the calls, and over the time of the back-off.
Fades     == [](ToCome \in SUBSET (Calls \X (1..12))) /\ [][ToCome' \subseteq ToCome]_vars
Settles   == <>[][ToComeSame]_vars
CallsEnd  == IsFiniteSet(Calls) /\ Fades => Settles

AllDone   == (\A c \in Calls : <>[]~Waiting(c)) => <>[]NoneWaits
AllEnd    == IsFiniteSet(Calls) => AllDone

Cools(k)  == cooling = k ~> cooling = k - 1
Warm      == <>(cooling = 0)
CoolsDown == []([](cooling \in 0..Backoff) /\ (\A k \in 1..Backoff : Cools(k)) => Warm)

RecoveryInductions == WorkRunsOut /\ CallsEnd /\ AllEnd /\ CoolsDown
RecoveryEnabled    == CallsEnabled /\ LoopEnabled

\* Every call is over in the end.
LEMMA CallsSettle ==
    ASSUME IsFiniteSet(Calls)
    PROVE  FairSpec /\ CallsEnd => Settles
<1>1. WaitInv /\ WaitInv' /\ [Next]_vars => [ToCome' \subseteq ToCome]_vars
  BY ToComeStep
<1>2. ToCome \in SUBSET (Calls \X (1..12))
  BY DEF ToCome
<1>3. FairSpec => Fades
  BY <1>1, <1>2, WaitInvariant, PTL DEF FairSpec, Spec, Fades
<1> QED
  BY <1>3 DEF CallsEnd

LEMMA NobodyWaits ==
    ASSUME IsFiniteSet(Calls)
    PROVE  FairSpec /\ CallsEnabled /\ WorkRunsOut /\ CallsEnd /\ AllEnd /\ <>[]Up => <>[]NoneWaits
<1>1. ASSUME NEW c \in Calls
      PROVE  FairSpec /\ CallsEnabled /\ WorkRunsOut /\ CallsEnd /\ <>[]Up => <>[]~Waiting(c)
  <2> DEFINE Wait  == Waiting(c)
             Out   == ~Waiting(c)
             Goal == ~Waiting(c) \/ (Hogged /\ req[c].op # "exec")
             Serves == Up
  <2>1. c \in Callers
    BY DEF Callers
  <2>2. WaitInv /\ WaitInv' /\ [Next]_vars /\ [ToComeSame]_vars => (Wait' <=> Wait)
    <3> SUFFICES ASSUME WaitInv, WaitInv', [Next]_vars, [ToComeSame]_vars PROVE Wait' <=> Wait
      OBVIOUS
    <3>1. CASE ToComeSame
      BY <3>1, ToComeStep DEF Rests, Waiting
    <3>2. CASE UNCHANGED vars
      BY <3>2 DEF vars, caller, Waiting
    <3> QED
      BY <3>1, <3>2
  <2>3. (Out <=> ~Wait) /\ (Goal /\ Serves => Out)
    BY DEF Up
  <2>4. Answered => (Wait ~> Goal)
    BY <2>1 DEF Answered
  <2>5. FairSpec /\ CallsEnabled /\ WorkRunsOut => (Wait ~> Goal)
    BY <2>4, CallersAreAnswered
  <2>6. FairSpec /\ CallsEnd => Settles /\ []WaitInv /\ [][Next]_vars
    BY CallsSettle, WaitInvariant DEF FairSpec, Spec
  <2> HIDE DEF Wait, Out, Goal, Serves
  <2>7. FairSpec /\ CallsEnabled /\ WorkRunsOut /\ CallsEnd /\ <>[]Serves => <>[]Out
    BY <2>2, <2>3, <2>5, <2>6, PTL DEF Settles
  <2> QED
    BY <2>7 DEF Out, Serves
<1> QED
  BY <1>1 DEF AllEnd, AllDone

\* From some time on nothing stands in the way of the tick.
Calm ==
    /\ []TickInv /\ [][Next]_vars
    /\ [][ToComeSame]_vars /\ []Up /\ []NoneWaits
    /\ Starts(Tick) /\ Comes(Tick) /\ Closes(Tick)
    /\ TickCalls /\ ListSucceeds /\ ClockRuns
    /\ LoopEnabled

LEMMA QuietStep ==
    ASSUME TickInv, TickInv', [Next]_vars, [ToComeSame]_vars
    PROVE  Steps(Tick) \/ Other
<1>1. CASE ToComeSame
  BY <1>1, ToComeStep DEF TickInv
<1>2. CASE UNCHANGED vars
  BY <1>2 DEF Other
<1> QED
  BY <1>1, <1>2

\* The client is there for the tick's ping, and stays until its list: the others no
\* longer take it away.
Sound == th[Tick] # "fail" /\ (th[Tick] \in {"take", "ping", "hand"} => client)

LEMMA SoundStep ==
    ASSUME TickInv, TickInv', [Next]_vars, [ToComeSame]_vars, Up, Up', Sound
    PROVE  /\ Sound'
           /\ cooling' = cooling \/ (cooling > 0 /\ cooling' = cooling - 1)
           /\ cooling = 0 /\ th[Tick] \in {"look", "take", "make", "ping", "hand"}
                 => th'[Tick] \notin {"end", "fail"}
<1>0. Tick \in Callers /\ TypeOK /\ WaitOk(Tick)
  BY DEF Callers, TickInv, WaitInv
<1> USE <1>0 DEF TypeOK, Sound, Up, shared, thread, caller
<1>1. CASE Other
  <2>1. ~Shutdown /\ ~Close /\ ~Engine
    BY DEF Shutdown, Close, Engine
  <2>2. CASE Ready \/ Listed
    BY <2>2 DEF Ready, Listed, Ends, Taken
  <2>3. CASE Elapse
    BY <2>3, DockerAssumption DEF Elapse
  <2>4. CASE (\E lists \in Bindings : Bind(lists)) \/ UNCHANGED vars
    BY <2>4 DEF Bind, vars
  <2> QED
    BY <1>1, <2>1, <2>2, <2>3, <2>4 DEF Other
<1>2. CASE Ask(Tick) \/ Start(Tick) \/ Timeout(Tick) \/ Cancel(Tick)
  <2>1. th'[Tick] \notin {"fail", "take", "ping", "hand"} \/ th'[Tick] = th[Tick]
    BY <1>2 DEF Ask, Refuse, Call, Start, Timeout, Cancel, Abandoned, Goes, Ends
  <2>2. client' = client /\ cooling' = cooling
    BY <1>2 DEF Ask, Refuse, Call, Start, Timeout, Cancel
  <2>3. th'[Tick] = "end" => th[Tick] \in {"queued", "end"}
    BY <1>2 DEF Ask, Refuse, Call, Start, Timeout, Cancel, Abandoned, Goes, Ends
  <2> QED
    BY <2>1, <2>2, <2>3
<1>3. CASE Behind(Tick)
  BY <1>3 DEF Behind, Return, Record, RecordFails, WaitOk
<1>4. CASE Use(Tick)
  BY <1>4 DEF Use, Done, Error, Ends
<1>5. CASE Dial(Tick)
  <2>1. ~Fail(Tick)
    BY DEF Fail
  <2>2. CASE Deny(Tick) \/ Allow(Tick) \/ Look(Tick) \/ Take(Tick)
    BY <2>2 DEF Deny, Allow, Look, Take, Goes, Ends
  <2>3. CASE Make(Tick) \/ Ping(Tick)
    BY <2>3 DEF Make, Ping, Goes
  <2> QED
    BY <1>5, <2>1, <2>2, <2>3 DEF Dial
<1> QED
  BY <1>1, <1>2, <1>3, <1>4, <1>5, QuietStep DEF Steps

\* What the tick does between two of its calls.
LEMMA TickStep ==
    ASSUME TickInv, TickInv', [Next]_vars, Up'
    PROVE  /\ at[Tick] = "idle" =>
                 /\ \/ at'[Tick] = "idle"
                    \/ at'[Tick] = "waiting" /\ th'[Tick] = "queued"
                 /\ Call(Tick) => at'[Tick] = "waiting" /\ th'[Tick] = "queued"
           /\ at[Tick] = "waiting" /\ th[Tick] = "queued" =>
                 \/ at'[Tick] = "waiting" /\ th'[Tick] = "queued"
                 \/ th'[Tick] = "look"
<1>0. Tick \in Callers /\ TypeOK /\ WaitOk(Tick) /\ WaitOk(Tick)'
  BY DEF Callers, TickInv, WaitInv
<1>1. req[Tick] = Listing /\ at'[Tick] \in {"idle", "waiting"} /\ serving'
  BY <1>0 DEF TickInv, TickOk, Up
<1> USE <1>0, <1>1 DEF TypeOK, shared, thread, caller, Listing
<1>2. ASSUME at[Tick] = "idle"
      PROVE  /\ \/ at'[Tick] = "idle"
                \/ at'[Tick] = "waiting" /\ th'[Tick] = "queued"
             /\ Call(Tick) => at'[Tick] = "waiting" /\ th'[Tick] = "queued"
  <2>1. CASE Other
    BY <1>2, <2>1 DEF Other, Ready, Listed, Shutdown, Close, Engine, Elapse, Bind, Ends, vars, Call
  <2>2. ASSUME NEW d \in Callers, d # Tick, Steps(d) PROVE at'[Tick] = "idle"
    BY <1>2, <2>2, OthersSame DEF Same
  <2>3. Call(Tick) => at'[Tick] = "waiting" /\ th'[Tick] = "queued"
    BY DEF Call
  <2>4. ASSUME Steps(Tick), ~Call(Tick) PROVE at'[Tick] = "idle"
    BY <1>2, <2>4 DEF Steps, Ask, Refuse, Start, Dial, Deny, Allow, Look, Take, Make, Ping, Fail, Use,
       Done, Error, Behind, Return, Record, RecordFails, Timeout, Cancel
  <2> QED
    BY <2>1, <2>2, <2>3, <2>4, WhoSteps
<1>3. ASSUME at[Tick] = "waiting", th[Tick] = "queued"
      PROVE  \/ at'[Tick] = "waiting" /\ th'[Tick] = "queued"
             \/ th'[Tick] = "look"
  <2>1. CASE Other
    BY <1>3, <2>1 DEF Other, Ready, Listed, Shutdown, Close, Engine, Elapse, Bind, Ends, vars
  <2>2. ASSUME NEW d \in Callers, d # Tick, Steps(d)
        PROVE  at'[Tick] = "waiting" /\ th'[Tick] = "queued"
    BY <1>3, <2>2, OthersSame DEF Same
  <2>3. CASE Start(Tick)
    BY <1>3, <2>3 DEF Start, Goes, Ends
  <2>4. ASSUME Steps(Tick), ~Start(Tick) PROVE FALSE
    BY <1>3, <2>4 DEF Steps, Ask, Refuse, Call, Dial, Deny, Allow, Look, Take, Make, Ping, Fail, Use,
       Done, Error, Behind, Return, Record, RecordFails, Timeout, Cancel
  <2> QED
    BY <2>1, <2>2, <2>3, <2>4, WhoSteps
<1> QED
  BY <1>2, <1>3

\* The tick calls, starts, ends and calls again.
LEMMA LooksAgain == Calm => []<>(th[Tick] = "look")
<1> DEFINE Idle  == at[Tick] = "idle"
           Queue == at[Tick] = "waiting" /\ th[Tick] = "queued"
           Moved == at[Tick] # "waiting" \/ th[Tick] # "queued" \/ Hogged
           RunsP == th[Tick] \in Running /\ req[Tick].op # "exec"
           End   == th[Tick] = "end"
           WaitE == Waiting(Tick) /\ th[Tick] = "end"
           Out   == ~Waiting(Tick)
           Seen  == th[Tick] = "look"
           UpNow == Up
           Nobody == NoneWaits
           May   == serving /\ at[Tick] = "idle" /\ NoneWaits
<1>1. TickInv /\ UpNow => /\ Idle \/ Queue \/ RunsP \/ WaitE
                          /\ Out <=> Idle
                          /\ End => WaitE
                          /\ Moved => ~Queue
                          /\ Idle /\ Nobody => May
  <2> SUFFICES ASSUME TickInv, Up
               PROVE  /\ Idle \/ Queue \/ RunsP \/ WaitE
                      /\ Out <=> Idle
                      /\ End => WaitE
                      /\ Moved => ~Queue
                      /\ Idle /\ Nobody => May
    OBVIOUS
  <2>1. /\ Tick \in Callers /\ TypeOK /\ WaitOk(Tick)
        /\ req[Tick].op = "list" /\ at[Tick] \in {"idle", "waiting"} /\ serving /\ ~Hogged
    BY DEF Callers, TickInv, WaitInv, TickOk, Listing, Up
  <2>2. th[Tick] \in Running \cup {"none", "queued", "end"}
    BY <2>1 DEF TypeOK
  <2> QED
    BY <2>1, <2>2 DEF WaitOk, Waiting
<1>2. TickInv /\ TickInv' /\ UpNow' /\ [Next]_vars
         => /\ Idle => (Idle' \/ Queue') /\ (<<Call(Tick)>>_vars => Queue')
            /\ Queue => Queue' \/ Seen'
  BY TickStep
<1>3. /\ Starts(Tick) <=> (Queue ~> Moved)
      /\ Comes(Tick) <=> (RunsP ~> End)
      /\ Closes(Tick) <=> (WaitE ~> Out)
  BY DEF Starts, Comes, Closes
<1>4. TickEnabled <=> [](May => ENABLED <<Call(Tick)>>_vars)
  BY DEF TickEnabled
<1>5. Calm => /\ []TickInv /\ [][Next]_vars /\ []UpNow /\ []Nobody
              /\ Starts(Tick) /\ Comes(Tick) /\ Closes(Tick) /\ TickCalls /\ TickEnabled
  BY DEF Calm, LoopEnabled
<1> HIDE DEF Idle, Queue, Moved, RunsP, End, WaitE, Out, Seen, UpNow, Nobody, May
<1>6. Calm => []<>Seen
  BY <1>1, <1>2, <1>3, <1>4, <1>5, PTL DEF TickCalls
<1> QED
  BY <1>6 DEF Seen

\* So it is sound from some time on, and the back-off runs out.
LEMMA SoundInTheEnd == Calm => <>[]Sound
<1>1. TickInv /\ TickInv' /\ [Next]_vars /\ [ToComeSame]_vars /\ Up /\ Up' /\ Sound => Sound'
  BY SoundStep
<1>2. th[Tick] = "look" => Sound
  BY DEF Sound
<1> DEFINE Seen == th[Tick] = "look"
<1>3. Seen => Sound
  BY <1>2
<1>4. Calm => []<>Seen
  BY LooksAgain
<1> HIDE DEF Seen
<1> QED
  BY <1>1, <1>3, <1>4, PTL DEF Calm

LEMMA BackoffRuns ==
    ASSUME NEW k \in 1..Backoff
    PROVE  Calm /\ []Sound => Cools(k)
<1> DEFINE Here == cooling = k
           Lower == cooling = k - 1
           Warmer == cooling > 0
<1>1. TickInv /\ TickInv' /\ [Next]_vars /\ [ToComeSame]_vars /\ Up /\ Up' /\ Sound /\ Here
         => /\ Here' \/ Lower'
            /\ <<Elapse>>_vars => Lower'
  <2> SUFFICES ASSUME TickInv, TickInv', [Next]_vars, [ToComeSame]_vars, Up, Up', Sound, Here
               PROVE  /\ Here' \/ Lower'
                      /\ <<Elapse>>_vars => Lower'
    OBVIOUS
  <2>1. cooling' = cooling \/ (cooling > 0 /\ cooling' = cooling - 1)
    BY SoundStep
  <2>2. Elapse => cooling' = cooling - 1
    BY DEF Elapse
  <2> QED
    BY <2>1, <2>2
<1>2. Here => Warmer
  OBVIOUS
<1>3. ClockEnabled <=> [](Warmer => ENABLED <<Elapse>>_vars)
  BY DEF ClockEnabled
<1>4. Cools(k) <=> (Here ~> Lower)
  BY DEF Cools
<1>5. Calm => /\ []TickInv /\ [][Next]_vars /\ [][ToComeSame]_vars /\ []Up
              /\ ClockRuns /\ ClockEnabled
  BY DEF Calm, LoopEnabled
<1> HIDE DEF Here, Lower, Warmer
<1>6. Calm /\ []Sound => (Here ~> Lower)
  BY <1>1, <1>2, <1>3, <1>5, PTL DEF ClockRuns
<1> QED
  BY <1>4, <1>6

LEMMA BackoffRunsOut == Calm /\ CoolsDown => <>[](Sound /\ cooling = 0)
<1> DEFINE Zero == cooling = 0
           Typed == cooling \in 0..Backoff
           Laps == \A k \in 1..Backoff : Cools(k)
<1>1. Calm /\ []Sound => Laps
  BY BackoffRuns
<1>2. TickInv => Typed
  BY DEF TickInv, WaitInv, TypeOK
<1>3. TickInv /\ TickInv' /\ [Next]_vars /\ [ToComeSame]_vars /\ Up /\ Up' /\ Sound /\ Zero => Zero'
  BY SoundStep
<1>4. CoolsDown <=> []([]Typed /\ Laps => Warm)
  BY DEF CoolsDown
<1>5. Warm <=> <>Zero
  BY DEF Warm
<1>6. Calm => []TickInv /\ [][Next]_vars /\ [][ToComeSame]_vars /\ []Up
  BY DEF Calm
<1> HIDE DEF Zero, Typed, Laps
<1>7. Calm => []Calm
  BY PTL DEF Calm, Starts, Comes, Closes, TickCalls, ListSucceeds, ClockRuns, LoopEnabled,
             TickEnabled, DoneEnabled, ClockEnabled
<1>8. Calm /\ CoolsDown => <>[](Sound /\ Zero)
  BY <1>1, <1>2, <1>3, <1>4, <1>5, <1>6, <1>7, SoundInTheEnd, PTL
<1> QED
  BY <1>8 DEF Zero

\* Then each call of the tick gets to the engine.
Dials == /\ GoesTo(Tick, "look") /\ GoesTo(Tick, "take") /\ GoesTo(Tick, "make")
         /\ GoesTo(Tick, "ping") /\ GoesTo(Tick, "hand")

LEMMA TickDials ==
    ASSUME IsFiniteSet(Calls)
    PROVE  FairSpec /\ CallsEnabled => Dials
<1>1. /\ Tick \in Callers
      /\ "look" \in Running /\ "take" \in Running /\ "make" \in Running
      /\ "ping" \in Running /\ "hand" \in Running
  BY DEF Callers, Running
<1>2. CallsEnabled => CallEnabled(Tick)
  BY <1>1 DEF CallsEnabled
<1> QED
  BY <1>1, <1>2, GoesOn DEF Dials

LEMMA ReachesTheEngine == Calm /\ Dials /\ CoolsDown => []<>(th[Tick] = "use")
<1> DEFINE Lo == th[Tick] = "look"  Ta == th[Tick] = "take"  Ma == th[Tick] = "make"
           Pi == th[Tick] = "ping"  Ha == th[Tick] = "hand"  Us == th[Tick] = "use"
           Bad == th[Tick] \in {"end", "fail"}
           Cold == Sound /\ cooling = 0
           Moves == Moving(Tick)
           To(p) == th[Tick] \in Ahead[p]
<1>1. TickInv /\ TickInv' /\ [Next]_vars /\ [ToComeSame]_vars /\ Up /\ Up' /\ Cold
         => (Lo \/ Ta \/ Ma \/ Pi \/ Ha => ~Bad')
  BY SoundStep
<1>2. /\ To("look") => Ta \/ Ma \/ Bad
      /\ To("make") => Pi
      /\ To("ping") => Ha \/ Bad
      /\ To("take") => Us \/ Bad
      /\ To("hand") => Us \/ Bad
      /\ Bad => ~(Lo \/ Ta \/ Ma \/ Pi \/ Ha)
  BY DEF Ahead
<1>3. TickInv => (Lo \/ Ta \/ Ma \/ Pi \/ Ha => Moves)
  BY DEF TickInv, TickOk, Listing, Moving, Running
<1>4. /\ GoesTo(Tick, "look") <=> (Lo /\ Moves ~> To("look"))
      /\ GoesTo(Tick, "take") <=> (Ta /\ Moves ~> To("take"))
      /\ GoesTo(Tick, "make") <=> (Ma /\ Moves ~> To("make"))
      /\ GoesTo(Tick, "ping") <=> (Pi /\ Moves ~> To("ping"))
      /\ GoesTo(Tick, "hand") <=> (Ha /\ Moves ~> To("hand"))
  BY DEF GoesTo
<1>5. TickInv /\ TickInv' /\ [Next]_vars
         => /\ Lo => Lo' \/ Ta' \/ Ma' \/ Bad'
            /\ Ta => Ta' \/ Us' \/ Bad'
            /\ Ma => Ma' \/ Pi'
            /\ Pi => Pi' \/ Ha' \/ Bad'
            /\ Ha => Ha' \/ Us' \/ Bad'
  <2> SUFFICES ASSUME TickInv, TickInv', [Next]_vars, Lo \/ Ta \/ Ma \/ Pi \/ Ha
               PROVE  /\ Lo => Lo' \/ Ta' \/ Ma' \/ Bad'
                      /\ Ta => Ta' \/ Us' \/ Bad'
                      /\ Ma => Ma' \/ Pi'
                      /\ Pi => Pi' \/ Ha' \/ Bad'
                      /\ Ha => Ha' \/ Us' \/ Bad'
    OBVIOUS
  <2>1. th'[Tick] = th[Tick] \/ th'[Tick] \in Ahead[th[Tick]]
    BY ThreadStep DEF TickInv, WaitInv, Running, Callers
  <2> QED
    BY <2>1 DEF Ahead
<1>6. Calm => []<>Lo
  BY LooksAgain
<1>7. Calm /\ CoolsDown => <>[]Cold
  BY BackoffRunsOut
<1>8. Calm => []TickInv /\ [][Next]_vars /\ [][ToComeSame]_vars /\ []Up
  BY DEF Calm
<1> HIDE DEF Lo, Ta, Ma, Pi, Ha, Us, Bad, Cold, Moves, To
<1>9. Calm /\ Dials /\ CoolsDown => []<>Us
  BY <1>1, <1>2, <1>3, <1>4, <1>5, <1>6, <1>7, <1>8, PTL DEF Dials
<1> QED
  BY <1>9 DEF Us

(***************************************************************************)
(* An engine that stays up is found again: the tick gets its list again    *)
(* and again, whatever the calls beside it did to the client they share    *)
(* (docker_ctl.py, 55-72 and 112-114).                                     *)
(***************************************************************************)
THEOREM EngineIsFoundAgain ==
    ASSUME IsFiniteSet(Calls)
    PROVE  FairSpec /\ RecoveryEnabled /\ RecoveryInductions => Recovers
<1> DEFINE Serves == Up
           Used   == th[Tick] = "use"
           Got == outcome[Tick] = "ok"
           May    == th[Tick] = "use" /\ engine
           Nobody == NoneWaits
<1>1. TickInv /\ <<Done(Tick)>>_vars => Got'
  BY DEF TickInv, WaitInv, TypeOK, Done, Ends, Callers
<1>2. Used /\ Serves => May
  BY DEF Up
<1>3. DoneEnabled <=> [](May => ENABLED <<Done(Tick)>>_vars)
  BY DEF DoneEnabled
<1>4. FairSpec /\ RecoveryEnabled /\ RecoveryInductions
         => /\ []TickInv /\ [][Next]_vars /\ Settles
            /\ Starts(Tick) /\ Comes(Tick) /\ Closes(Tick)
            /\ TickCalls /\ ListSucceeds /\ ClockRuns /\ LoopEnabled
            /\ CoolsDown /\ Dials
  <2>1. FairSpec => []TickInv /\ [][Next]_vars
    BY TickInvariant DEF FairSpec, Spec
  <2>2. FairSpec /\ RecoveryInductions => Settles /\ CoolsDown
    BY CallsSettle DEF RecoveryInductions
  <2>3. Tick \in Callers
    BY DEF Callers
  <2>4. FairSpec /\ RecoveryEnabled /\ RecoveryInductions
           => Starts(Tick) /\ Comes(Tick) /\ Closes(Tick)
    BY <2>3, LeavesTheQueue, ComesToItsEnd, GetsItsAnswer
       DEF RecoveryEnabled, RecoveryInductions, CallsEnabled
  <2>5. FairSpec => TickCalls /\ ListSucceeds /\ ClockRuns
    BY DEF FairSpec, Fairness
  <2>6. FairSpec /\ RecoveryEnabled => Dials
    BY TickDials DEF RecoveryEnabled
  <2> QED
    BY <2>1, <2>2, <2>4, <2>5, <2>6 DEF RecoveryEnabled
<1>5. FairSpec /\ RecoveryEnabled /\ RecoveryInductions /\ <>[]Serves => <>[]Nobody
  BY NobodyWaits DEF RecoveryEnabled, RecoveryInductions
<1>6. Calm /\ Dials /\ CoolsDown => []<>Used
  BY ReachesTheEngine
<1>7. Calm <=> /\ []TickInv /\ [][Next]_vars
               /\ [][ToComeSame]_vars /\ []Serves /\ []Nobody
               /\ Starts(Tick) /\ Comes(Tick) /\ Closes(Tick)
               /\ TickCalls /\ ListSucceeds /\ ClockRuns
               /\ LoopEnabled
  BY DEF Calm
<1> HIDE DEF Serves, Used, Got, May, Nobody
<1>8. FairSpec /\ RecoveryEnabled /\ RecoveryInductions => (<>[]Serves => <>(Calm /\ Dials /\ CoolsDown))
  BY <1>4, <1>5, <1>7, PTL
     DEF Settles, Starts, Comes, Closes, TickCalls, ListSucceeds, ClockRuns, LoopEnabled,
         TickEnabled, DoneEnabled, ClockEnabled, Dials, GoesTo, CoolsDown
<1>9. FairSpec /\ RecoveryEnabled /\ RecoveryInductions => (<>[]Serves => []<>Got)
  BY <1>1, <1>2, <1>3, <1>4, <1>6, <1>8, PTL DEF ListSucceeds, LoopEnabled
<1> QED
  BY <1>9 DEF Serves, Got, Recovers, Up
=============================================================================
