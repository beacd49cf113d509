----------------------------- MODULE CollectorProofs -----------------------------
(***************************************************************************)
(* What Collector promises for any settings, any number of laps to the     *)
(* hour and any number of failures: nothing is closed before the loop has  *)
(* ended, a loop that lives keeps serving, settings and retention take     *)
(* effect, and a shutdown ends. The liveness theorems have two kinds of    *)
(* hypotheses, both true of every behaviour of the specification and both  *)
(* beyond this prover: that a guard which is written out enables its       *)
(* action, and instances of induction in a temporal formula.               *)
(***************************************************************************)
EXTENDS Collector, TLAPS

\* The retention attempted, the laps count from it.
Attempted == place \in {"retention", "purge", "refresh", "sleep"} => age <= Hour

\* The lifespan closes services only behind the end of the task.
Order ==
    /\ closed > 0 => life = "ending"
    /\ life = "ending" => place = "cancelled"

IInv == TypeOK /\ Attempted /\ Order

LEMMA FiveToClose == Len(Closing) = 5
BY DEF Closing

LEMMA InitIInv == Init => IInv
<1> SUFFICES ASSUME Init PROVE IInv
  OBVIOUS
<1>1. age \in 0..(Hour + 1) /\ beat \in 0..1 /\ failures \in 0..MaxFailures
  BY CollectorAssumption DEF Init
<1>2. closed \in 0..Len(Closing)
  BY FiveToClose DEF Init
<1>3. place \in Places /\ life \in Lives /\ cancelled \in BOOLEAN
  BY DEF Init, Places, Lives
<1>. QED  BY <1>1, <1>2, <1>3 DEF Init, IInv, TypeOK, Attempted, Order

(* Behind a tick the loop is at the retention or at its last read, and the *)
(* laps are within the hour (collector.py, 94-96).                         *)
LEMMA ResumeOk ==
    ASSUME IInv, Resume
    PROVE  place' \in {"retention", "refresh"} /\ age' \in 0..Hour
BY CollectorAssumption DEF IInv, TypeOK, Resume

(* What a step of the loop keeps (collector.py, 84-106).                   *)
LEMMA LoopStep ==
    ASSUME IInv, Loop
    PROVE  IInv'
<1> USE CollectorAssumption DEF IInv, TypeOK, Attempted, Order, Places, Stages, Lives, At
<1>1. CASE Merge
  BY <1>1 DEF Merge
<1>2. CASE TickFails
  BY <1>2, ResumeOk DEF TickFails, Fails
<1>3. CASE Bind
  BY <1>3 DEF Bind
<1>4. CASE Publish
  BY <1>4 DEF Publish
<1>5. CASE Sent
  BY <1>5, ResumeOk DEF Sent
<1>6. ASSUME NEW p \in Stages \ {"recent"}, Stage(p) PROVE IInv'
  <2>1. After[p] \in Stages
    BY DEF After
  <2>. QED  BY <1>6, <2>1 DEF Stage
<1>7. CASE Retention
  BY <1>7 DEF Retention
<1>8. CASE Purge
  BY <1>8 DEF Purge
<1>9. CASE RetentionFails
  BY <1>9 DEF RetentionFails, Fails
<1>10. CASE Refresh
  BY <1>10 DEF Refresh
<1>11. CASE RefreshFails
  BY <1>11 DEF RefreshFails, Fails
<1>12. CASE Wake
  BY <1>12 DEF Wake
<1>13. CASE Cancelled
  BY <1>13 DEF Cancelled
<1>. QED  BY <1>1, <1>2, <1>3, <1>4, <1>5, <1>6, <1>7, <1>8, <1>9, <1>10, <1>11, <1>12, <1>13
             DEF Loop

(* What the lifespan, the operator and the machine keep.                   *)
LEMMA OtherStep ==
    ASSUME IInv, \/ Lifespan \/ Hang \/ Shutdown \/ Expire \/ Reboot
                 \/ \E s \in Settings : Save(s)
    PROVE  IInv'
<1> USE CollectorAssumption DEF IInv, TypeOK, Attempted, Order, Places, Stages, Lives, loop
<1>1. CASE Stopped
  BY <1>1, FiveToClose DEF Stopped
<1>2. CASE Aborted
  BY <1>2 DEF Aborted
<1>3. CASE Close
  BY <1>3, FiveToClose DEF Close
<1>4. CASE Shutdown
  BY <1>4 DEF Shutdown
<1>5. CASE Expire
  BY <1>5 DEF Expire
<1>6. CASE Reboot
  <2>1. age' \in 0..(Hour + 1) /\ beat' \in 0..1 /\ failures' \in 0..MaxFailures
    BY <1>6 DEF Reboot
  <2>2. closed' \in 0..Len(Closing) /\ closed' = 0
    BY <1>6, FiveToClose DEF Reboot
  <2>3. place' = "merge" /\ life' = "serving" /\ cancelled' = FALSE
    BY <1>6 DEF Reboot
  <2>4. read' \in Settings /\ bound' \in Settings /\ stored' \in Settings /\ expired' \in BOOLEAN
    BY <1>6 DEF Reboot
  <2>5. place' \in Places /\ life' \in Lives /\ cancelled' \in BOOLEAN
    BY <2>3
  <2>6. TypeOK'
    BY <2>1, <2>2, <2>4, <2>5
  <2>7. Attempted' /\ Order'
    BY <2>2, <2>3
  <2>. QED  BY <2>6, <2>7
<1>7. ASSUME NEW s \in Settings, Save(s) PROVE IInv'
  BY <1>7 DEF Save
<1>8. CASE Hang
  <2>1. /\ place \in Threaded /\ place' = "stuck"
        /\ UNCHANGED << read, bound, age, beat, stored, expired, cancelled, life, closed, failures >>
    BY <1>8 DEF Hang, At
  <2>2. closed' > 0 => FALSE
    BY <2>1, FiveToClose DEF Threaded
  <2>3. life' # "ending"
    BY <2>1 DEF Threaded
  <2>. QED  BY <2>1, <2>2, <2>3
<1>. QED  BY <1>1, <1>2, <1>3, <1>4, <1>5, <1>6, <1>7, <1>8 DEF Lifespan

LEMMA NextIInv == IInv /\ [Next]_vars => IInv'
<1>1. ASSUME IInv, Next PROVE IInv'
  BY <1>1, LoopStep, OtherStep DEF Next
<1>2. ASSUME IInv, UNCHANGED vars PROVE IInv'
  BY <1>2 DEF IInv, TypeOK, Attempted, Order, vars, loop
<1>. QED  BY <1>1, <1>2

LEMMA Invariance == Spec => []IInv
BY InitIInv, NextIInv, PTL DEF Spec

(* The state of the loop and of the lifespan is well typed, and the laps   *)
(* since the last attempt at the retention never pass the hour by more     *)
(* than one (collector.py, 94-103).                                        *)
THEOREM TypeCorrect == Spec => []TypeOK
<1>1. IInv => TypeOK
  BY DEF IInv
<1>. QED  BY <1>1, Invariance, PTL

(* No service is closed before the task of the loop has ended (main.py,    *)
(* 89-99).                                                                 *)
THEOREM ClosedAtRest == Spec => []NothingAfterClose
<1>1. IInv => NothingAfterClose
  BY DEF IInv, Order, NothingAfterClose
<1>. QED  BY <1>1, Invariance, PTL

-----------------------------------------------------------------------------
\* A shutdown comes to its end.

\* The loop is cancelled exactly while the lifespan is past its serving, unless
\* it had died before.
Told == /\ life = "serving" => ~cancelled
        /\ life = "closing" => cancelled \/ place = "dead"
        /\ place = "cancelled" => cancelled

LEMMA ToldInv == Spec => [](IInv /\ Told)
<1>1. Init => Told
  BY DEF Init, Told
<1>2. ASSUME IInv, Told, Loop PROVE Told'
  <2>1. UNCHANGED << cancelled, life >> /\ place # "dead"
    BY <1>2 DEF Loop, Merge, TickFails, Bind, Publish, Sent, Stage, Retention, Purge,
                RetentionFails, Refresh, RefreshFails, Wake, Cancelled, At, Stages
  <2>2. ASSUME ~Cancelled PROVE ~cancelled /\ place' # "cancelled"
    <3>1. ~cancelled
      BY <1>2, <2>2 DEF Loop, Merge, TickFails, Bind, Publish, Sent, Stage, Retention, Purge,
                        RetentionFails, Refresh, RefreshFails, Wake, At
    <3>2. ASSUME NEW p \in Stages \ {"recent"}, Stage(p) PROVE place' # "cancelled"
      BY <3>2 DEF Stage, Stages, After
    <3>3. CASE Merge \/ TickFails \/ Bind \/ Publish \/ Sent
      BY <3>1, <3>3 DEF Merge, TickFails, Bind, Publish, Sent, Resume
    <3>4. CASE \/ Retention \/ Purge \/ RetentionFails \/ Refresh \/ RefreshFails \/ Wake
      BY <3>1, <3>4 DEF Retention, Purge, RetentionFails, Refresh, RefreshFails, Wake
    <3>. QED  BY <1>2, <2>2, <3>1, <3>2, <3>3, <3>4 DEF Loop
  <2>. QED  BY <1>2, <2>1, <2>2 DEF Told, Cancelled
<1>3. ASSUME IInv, Told, \/ Lifespan \/ Expire \/ Reboot
                         \/ (\E s \in Settings : Save(s)) \/ UNCHANGED vars
      PROVE  Told'
  BY <1>3 DEF Told, Lifespan, Stopped, Aborted, Close, Expire, Reboot, Save, vars, loop
<1>a. ASSUME Told, Hang PROVE Told'
  <2>1. UNCHANGED << cancelled, life >> /\ place' = "stuck" /\ place # "dead"
    BY <1>a DEF Hang, At, Threaded
  <2>. QED  BY <1>a, <2>1 DEF Told
<1>4. ASSUME Shutdown PROVE Told'
  <2>1. place' = place /\ life' = "closing" /\ (place # "dead" => cancelled')
    BY <1>4 DEF Shutdown, loop
  <2>. QED  BY <2>1 DEF Told
<1>5. IInv /\ Told /\ [Next]_vars => Told'
  BY <1>2, <1>3, <1>4, <1>a DEF Next
<1>. QED  BY <1>1, <1>5, Invariance, PTL DEF Spec

\* What the prover cannot see: a loop that has not ended gets on from the await it
\* is at, from one that never ends once it is cancelled, and the lifespan gets on once
\* the task has ended.
LoopReady   == place \notin {"cancelled", "dead"} /\ (place = "stuck" => cancelled)
LoopEnabled == [](LoopReady => ENABLED <<Loop>>_vars)

LifespanReady ==
    \/ life = "closing" /\ place = "cancelled"
    \/ life = "ending" /\ closed < Len(Closing)

LifespanEnabled == [](LifespanReady => ENABLED <<Lifespan>>_vars)

\* The stages of a shutdown: the loop has yet to take its cancellation, the
\* lifespan has yet to take note, or n services are closed.
Pending   == life = "closing" /\ cancelled /\ place \notin {"cancelled", "dead"}
Ended     == life = "closing" /\ place = "cancelled"
Closed(n) == life = "ending" /\ closed = n

(* A cancelled loop ends with its next step (collector.py, 67-73).         *)
LEMMA PendingStep ==
    ASSUME IInv, Told, Pending, [Next]_vars
    PROVE  /\ Pending' \/ Ended' \/ (life = "serving")'
           /\ <<Loop>>_vars => Ended'
<1> USE DEF Pending, Ended
<1>1. Loop => Ended'
  BY DEF Loop, Merge, TickFails, Bind, Publish, Sent, Stage, Retention, Purge,
         RetentionFails, Refresh, RefreshFails, Wake, Cancelled, At
<1>2. CASE \/ Lifespan \/ Hang \/ Shutdown \/ Expire \/ Reboot
           \/ (\E s \in Settings : Save(s)) \/ UNCHANGED vars
  BY <1>1, <1>2 DEF Lifespan, Stopped, Aborted, Close, Hang, At, Shutdown, Expire, Reboot, Save,
                    vars, loop
<1>. QED  BY <1>1, <1>2 DEF Next

(* Behind the end of the task the lifespan closes one service after the    *)
(* other (main.py, 91-100).                                                *)
LEMMA ClosingStep ==
    ASSUME IInv, Ended \/ life = "ending", [Next]_vars
    PROVE  /\ ~Loop
           /\ Ended => Ended' \/ Closed(1)' \/ (life = "serving")'
           /\ Ended /\ <<Lifespan>>_vars => Closed(1)'
           /\ \A n \in 1..4 : Closed(n) =>
                 /\ Closed(n)' \/ Closed(n + 1)' \/ (life = "serving")'
                 /\ <<Lifespan>>_vars => Closed(n + 1)'
<1> USE DEF Ended, Closed
<1>1. place = "cancelled" /\ closed \in 0..5
  BY FiveToClose DEF IInv, Order, TypeOK
<1>2. ~Loop
  BY <1>1 DEF Loop, Merge, TickFails, Bind, Publish, Sent, Stage, Retention, Purge,
         RetentionFails, Refresh, RefreshFails, Wake, Cancelled, At, Stages
<1>3. CASE Lifespan
  BY <1>1, <1>2, <1>3, FiveToClose DEF Lifespan, Stopped, Aborted, Close, loop
<1>4. CASE \/ Hang \/ Shutdown \/ Expire \/ Reboot
           \/ (\E s \in Settings : Save(s)) \/ UNCHANGED vars
  <2>1. \/ UNCHANGED << place, life, closed >>
        \/ life' = "serving"
    BY <1>1, <1>4 DEF Hang, At, Threaded, Shutdown, Expire, Reboot, Save, vars, loop
  <2>2. ~<<Lifespan>>_vars \/ Lifespan
    OBVIOUS
  <2>. QED  BY <1>2, <1>3, <2>1, <2>2
<1>. QED  BY <1>2, <1>3, <1>4 DEF Next

(***************************************************************************)
(* A shutdown comes to its end wherever in the tick it finds the loop, and *)
(* closes everything, unless the loop had died before (main.py, 91-100;    *)
(* collector.py, 67-73).                                                   *)
(***************************************************************************)
THEOREM ShutdownFinishes == FairSpec /\ LoopEnabled /\ LifespanEnabled => ShutdownEnds
<1> DEFINE C1 == Closed(1)
           C2 == Closed(2)
           C3 == Closed(3)
           C4 == Closed(4)
           All == closed = Len(Closing)
           Again == life = "serving"
           Asked == life = "closing" /\ place # "dead"
           Going == LoopReady
<1>1. IInv /\ Told /\ Asked => Pending \/ Ended
  BY DEF Told, Pending, Ended
<1>2. Pending => Going
  BY DEF Pending, LoopReady
<1>3. Ended \/ C1 \/ C2 \/ C3 \/ C4 => LifespanReady
  BY FiveToClose DEF Ended, Closed, LifespanReady
<1>4. IInv /\ Told /\ Pending /\ [Next]_vars
         => (Pending' \/ Ended' \/ Again') /\ (<<Loop>>_vars => Ended')
  BY PendingStep
<1>5. IInv /\ Ended /\ [Next]_vars
         => (Ended' \/ C1' \/ Again') /\ (<<Lifespan>>_vars => C1')
  BY ClosingStep
<1>6. IInv /\ C1 /\ [Next]_vars => (C1' \/ C2' \/ Again') /\ (<<Lifespan>>_vars => C2')
  BY ClosingStep DEF Closed
<1>7. IInv /\ C2 /\ [Next]_vars => (C2' \/ C3' \/ Again') /\ (<<Lifespan>>_vars => C3')
  BY ClosingStep DEF Closed
<1>8. IInv /\ C3 /\ [Next]_vars => (C3' \/ C4' \/ Again') /\ (<<Lifespan>>_vars => C4')
  BY ClosingStep DEF Closed
<1>9. IInv /\ C4 /\ [Next]_vars => (C4' \/ All' \/ Again') /\ (<<Lifespan>>_vars => All')
  BY ClosingStep, FiveToClose DEF Closed
<1>10. LoopEnabled <=> [](Going => ENABLED <<Loop>>_vars)
  BY DEF LoopEnabled
<1> HIDE DEF C1, C2, C3, C4, All, Again, Asked, Going
<1>11. FairSpec /\ LoopEnabled /\ LifespanEnabled => (Asked ~> All \/ Again)
  BY <1>1, <1>2, <1>3, <1>4, <1>5, <1>6, <1>7, <1>8, <1>9, <1>10, ToldInv, PTL
     DEF FairSpec, Spec, Fairness, LoopRuns, LifespanRuns, LifespanEnabled
<1>. QED  BY <1>11 DEF ShutdownEnds, All, Again, Asked

-----------------------------------------------------------------------------
\* The loop goes round for as long as the process serves.

\* What the prover cannot do, an induction in a temporal formula: a number that
\* only falls stays what it is in the end.
NoFailure      == failures' = failures
FailuresStop   == <>[][NoFailure]_vars
FailuresFall   == [](failures \in Nat) /\ [][failures' <= failures]_vars
FallingFailuresStop == FailuresFall => FailuresStop

(* The failures left only become fewer.                                    *)
LEMMA Falling == Spec => FailuresFall
<1>1. IInv => failures \in Nat
  BY CollectorAssumption DEF IInv, TypeOK
<1>2. ASSUME IInv, [Next]_vars PROVE [failures' <= failures]_vars
  <2> USE <1>1, <1>2
  <2>1. CASE Loop
    <3>1. CASE TickFails \/ RetentionFails \/ RefreshFails
      BY <3>1 DEF TickFails, RetentionFails, RefreshFails, Fails
    <3>2. CASE ~(TickFails \/ RetentionFails \/ RefreshFails)
      BY <2>1, <3>2 DEF Loop, Merge, Bind, Publish, Sent, Stage, Retention, Purge, Refresh,
                        Wake, Cancelled
    <3>. QED  BY <3>1, <3>2
  <2>2. CASE Lifespan \/ Hang \/ Shutdown \/ Expire \/ Reboot \/ \E s \in Settings : Save(s)
    BY <2>2 DEF Lifespan, Stopped, Aborted, Close, Hang, Shutdown, Expire, Reboot, Save
  <2>. QED  BY <1>2, <2>1, <2>2 DEF Next
<1>. QED  BY <1>1, <1>2, Invariance, PTL DEF Spec, FailuresFall

\* The loop at an await, in a process that serves, and where it goes from there
\* when the database does not fail.
Here(p) == life = "serving" /\ place = p
Ahead == [merge |-> {"bind"}, bind |-> {"probe"}, probe |-> {"fetch"}, fetch |-> {"list"},
          list |-> {"restart"}, restart |-> {"alert"}, alert |-> {"recent"},
          recent |-> {"send"}, send |-> {"retention", "refresh"},
          retention |-> {"purge"}, purge |-> {"refresh"}, refresh |-> {"sleep"},
          sleep |-> {"merge"}]
There(p) == life = "serving" /\ place \in Ahead[p]

(* The loop stays at an await or goes where the tick leads, and only the   *)
(* shutdown keeps it from that (collector.py, 84-106 and 153-211).         *)
LEMMA HereStep ==
    ASSUME IInv, Told, NEW p \in DOMAIN Ahead, Here(p), [Next]_vars, [NoFailure]_vars
    PROVE  /\ Here(p)' \/ There(p)' \/ ~Served'
           /\ <<Loop>>_vars => There(p)'
<1> USE DEF Here, There, Told, Served
<1>1. ~cancelled
  OBVIOUS
<1>2. Loop => There(p)'
  <2>1. ASSUME Loop PROVE failures' = failures /\ failures \in Nat
    BY <2>1, CollectorAssumption
       DEF NoFailure, IInv, TypeOK, vars, Loop, Merge, Bind, Publish, Sent, Stage, Retention,
           Purge, Refresh, Wake, Cancelled, TickFails, RetentionFails, RefreshFails, Fails
  <2>2. ASSUME Loop PROVE ~TickFails /\ ~RetentionFails /\ ~RefreshFails
    BY <2>1, <2>2 DEF TickFails, RetentionFails, RefreshFails, Fails
  <2>3. CASE Merge \/ Bind \/ Publish
    BY <2>3 DEF Merge, Bind, Publish, At, Ahead
  <2>4. CASE Sent
    BY <2>4 DEF Sent, Resume, At, Ahead
  <2>5. ASSUME NEW q \in Stages \ {"recent"}, Stage(q) PROVE There(p)'
    BY <2>5 DEF Stage, Stages, After, At, Ahead
  <2>6. CASE Retention \/ Purge \/ Refresh \/ Wake
    BY <2>6 DEF Retention, Purge, Refresh, Wake, At, Ahead
  <2>. QED  BY <1>1, <2>2, <2>3, <2>4, <2>5, <2>6 DEF Loop, Cancelled
<1>3. CASE \/ Lifespan \/ Hang \/ Shutdown \/ Expire
           \/ (\E s \in Settings : Save(s)) \/ UNCHANGED vars
  BY <1>2, <1>3 DEF Lifespan, Stopped, Aborted, Close, Hang, Shutdown, Expire, Save, vars, loop
<1>4. ~Reboot
  BY CollectorAssumption DEF Reboot, NoFailure, IInv, TypeOK, vars
<1>. QED  BY <1>2, <1>3, <1>4 DEF Next

\* Between two failures.
Calm == [](IInv /\ Told) /\ [][Next]_vars /\ [][NoFailure]_vars /\ LoopRuns /\ LoopEnabled

\* From an await the loop goes on.
Goes(p) == Here(p) ~> There(p) \/ ~Served

(* The loop leaves every await of a tick, unless it is one that never ends *)
(* (collector.py, 84-106 and 109-211).                                     *)
LEMMA Moves ==
    ASSUME NEW p \in DOMAIN Ahead
    PROVE  Calm => Goes(p)
<1> DEFINE A == Here(p)
           B == There(p)
           Off == ~Served
           Going == LoopReady
<1>1. IInv /\ Told /\ A /\ [Next]_vars /\ [NoFailure]_vars
         => (A' \/ B' \/ Off') /\ (<<Loop>>_vars => B')
  BY HereStep
<1>2. A => Going
  BY DEF Here, Ahead, LoopReady
<1>3. LoopEnabled <=> [](Going => ENABLED <<Loop>>_vars)
  BY DEF LoopEnabled
<1> HIDE DEF A, B, Off, Going
<1>4. Calm => (A ~> B \/ Off)
  BY <1>1, <1>2, <1>3, PTL DEF Calm, LoopRuns
<1>. QED  BY <1>4 DEF Goes, A, B, Off

(* The loop has no other await, and where it goes from each it is again at *)
(* one of them (collector.py, 84-106 and 109-211).                         *)
LEMMA Everywhere ==
    /\ IInv /\ Told /\ Served => \E p \in DOMAIN Ahead : Here(p)
    /\ \A p \in DOMAIN Ahead : There(p) <=> \E q \in Ahead[p] : Here(q)
BY DEF IInv, TypeOK, Told, Served, Here, There, Ahead, Places, Stages

(* For as long as the process serves between two failures, the loop passes *)
(* each await of a tick again and again (collector.py, 84-106).            *)
LEMMA GoesRound ==
    Calm => /\ []<>(Here("recent") \/ ~Served)
            /\ []<>(Here("send") \/ ~Served)
            /\ []<>(Here("sleep") \/ ~Served)
            /\ []<>(Here("merge") \/ ~Served)
<1> DEFINE Me == Here("merge")    Bi == Here("bind")     Pr == Here("probe")
           Fe == Here("fetch")    Li == Here("list")     Re == Here("restart")
           Al == Here("alert")    Rc == Here("recent")   Se == Here("send")
           Rt == Here("retention") Pu == Here("purge")   Rf == Here("refresh")
           Sl == Here("sleep")    Off == ~Served
           On == Served
<1>1. IInv /\ Told /\ On
         => Me \/ Bi \/ Pr \/ Fe \/ Li \/ Re \/ Al \/ Rc \/ Se \/ Rt \/ Pu \/ Rf \/ Sl
  BY Everywhere DEF Ahead
<1>2. Off => ~On
  BY DEF Served
<1>3. /\ There("merge") <=> Bi
      /\ There("bind") <=> Pr
      /\ There("probe") <=> Fe
      /\ There("fetch") <=> Li
      /\ There("list") <=> Re
      /\ There("restart") <=> Al
      /\ There("alert") <=> Rc
      /\ There("recent") <=> Se
      /\ There("send") <=> Rt \/ Rf
      /\ There("retention") <=> Pu
      /\ There("purge") <=> Rf
      /\ There("refresh") <=> Sl
      /\ There("sleep") <=> Me
  BY DEF There, Here, Ahead
<1>4. \A p \in {"merge", "bind", "probe", "fetch", "list", "restart", "alert", "recent",
                "send", "retention", "purge", "refresh", "sleep"} : p \in DOMAIN Ahead
  BY DEF Ahead
<1>5. Calm => /\ Goes("merge") /\ Goes("bind") /\ Goes("probe") /\ Goes("fetch")
              /\ Goes("list") /\ Goes("restart") /\ Goes("alert") /\ Goes("recent")
              /\ Goes("send") /\ Goes("retention") /\ Goes("purge") /\ Goes("refresh")
              /\ Goes("sleep")
  BY Moves, <1>4
<1>6. /\ Goes("merge") <=> (Me ~> There("merge") \/ Off)
      /\ Goes("bind") <=> (Bi ~> There("bind") \/ Off)
      /\ Goes("probe") <=> (Pr ~> There("probe") \/ Off)
      /\ Goes("fetch") <=> (Fe ~> There("fetch") \/ Off)
      /\ Goes("list") <=> (Li ~> There("list") \/ Off)
      /\ Goes("restart") <=> (Re ~> There("restart") \/ Off)
      /\ Goes("alert") <=> (Al ~> There("alert") \/ Off)
      /\ Goes("recent") <=> (Rc ~> There("recent") \/ Off)
      /\ Goes("send") <=> (Se ~> There("send") \/ Off)
      /\ Goes("retention") <=> (Rt ~> There("retention") \/ Off)
      /\ Goes("purge") <=> (Pu ~> There("purge") \/ Off)
      /\ Goes("refresh") <=> (Rf ~> There("refresh") \/ Off)
      /\ Goes("sleep") <=> (Sl ~> There("sleep") \/ Off)
  BY DEF Goes
<1> HIDE DEF Me, Bi, Pr, Fe, Li, Re, Al, Rc, Se, Rt, Pu, Rf, Sl, Off, On
<1>7. Calm => /\ []<>(Rc \/ ~On) /\ []<>(Se \/ ~On)
              /\ []<>(Sl \/ ~On) /\ []<>(Me \/ ~On)
  BY <1>1, <1>2, <1>3, <1>5, <1>6, PTL DEF Calm
<1>. QED  BY <1>7 DEF Rc, Se, Sl, Me, On

(* What holds of every stretch without a failure holds of the run from the *)
(* last failure on.                                                        *)
LEMMA CalmInTheEnd == FairSpec /\ LoopEnabled /\ FallingFailuresStop => <>Calm
BY ToldInv, Falling, PTL
   DEF FairSpec, Spec, Fairness, LoopRuns, LoopEnabled, FallingFailuresStop, FailuresStop, Calm

(* Without a failure, nobody but the loop itself moves the loop, but for   *)
(* the wait that never ends.                                               *)
LEMMA OnlyTheLoop ==
    ASSUME IInv, [Next]_vars, [NoFailure]_vars
    PROVE  Loop \/ UNCHANGED loop \/ Hang
<1>1. ~Reboot
  BY CollectorAssumption DEF Reboot, NoFailure, IInv, TypeOK, vars
<1>2. CASE \/ Lifespan \/ Shutdown \/ Expire
           \/ (\E s \in Settings : Save(s)) \/ UNCHANGED vars
  BY <1>2 DEF Lifespan, Stopped, Aborted, Close, Shutdown, Expire, Save, vars
<1>. QED  BY <1>1, <1>2 DEF Next

(* A wait that never ends is the end of the service, and takes none of the *)
(* time of the loop.                                                       *)
LEMMA HangStep == ASSUME Hang PROVE ~Served' /\ UNCHANGED << read, bound, age, expired, stored >>
BY DEF Hang, Served

(* At its last stage the loop renews the snapshot as it goes on            *)
(* (collector.py, 199-211).                                                *)
LEMMA RecentStep ==
    ASSUME IInv, Told, Here("recent"), [Next]_vars, [NoFailure]_vars
    PROVE  Here("recent")' \/ beat' # beat \/ ~Served'
<1> USE DEF Here, Served, Told
<1>1. CASE Loop
  <2>1. Publish
    BY <1>1 DEF Loop, Merge, TickFails, Bind, Sent, Stage, Retention, Purge,
                RetentionFails, Refresh, RefreshFails, Wake, Cancelled, At
  <2>. QED  BY <2>1 DEF Publish, IInv, TypeOK
<1>2. CASE UNCHANGED loop
  BY <1>2 DEF loop
<1>. QED  BY <1>1, <1>2, OnlyTheLoop, HangStep

(***************************************************************************)
(* The dashboard keeps moving: whatever the stages of a tick run into, a   *)
(* new snapshot reaches the hub again and again for as long as the process *)
(* serves and its loop neither has died nor waits for a thread that never  *)
(* comes, which are hypotheses on the behaviour and not a fairness         *)
(* (collector.py, 84-106 and 117-211; docker_ctl.py, 75 and 79).           *)
(***************************************************************************)
THEOREM SnapshotsKeepComing == FairSpec /\ LoopEnabled /\ FallingFailuresStop => KeepsServing
<1> SUFFICES ASSUME NEW b \in 0..1
             PROVE  FairSpec /\ LoopEnabled /\ FallingFailuresStop
                       => (Served /\ beat = b ~> beat # b \/ ~Served)
  BY DEF KeepsServing
<1> DEFINE Same == beat = b
           On   == Served
           Last == Here("recent")
           Past == There("recent")
           Off  == ~Served
           Changed == beat # b
<1>1. IInv /\ Told /\ Last /\ Same /\ [Next]_vars /\ [NoFailure]_vars
         => Last' \/ ~Same' \/ ~On'
  BY RecentStep
<1>2. (Past => ~Last) /\ (Off => ~On) /\ (Changed <=> ~Same)
  BY DEF Here, There, Ahead, Served
<1>3. Calm => Goes("recent")
  BY Moves DEF Ahead
<1>4. Goes("recent") <=> (Last ~> Past \/ Off)
  BY DEF Goes
<1> HIDE DEF Same, On, Last, Past, Off, Changed
<1>5. Calm => []<>(~Same \/ ~On)
  <2>1. Calm => []<>(Last \/ ~On)
    BY GoesRound DEF Last, On
  <2>. QED  BY <1>1, <1>2, <1>3, <1>4, <2>1, PTL DEF Calm
<1>6. FairSpec /\ LoopEnabled /\ FallingFailuresStop => (On /\ Same ~> Changed \/ ~On)
  BY <1>2, <1>5, CalmInTheEnd, PTL
<1>. QED  BY <1>6 DEF Same, On, Changed

(* The settings a tick reads are those stored (collector.py, 109-110).     *)
LEMMA MergeStep ==
    ASSUME IInv, Told, Here("merge"), [Next]_vars, [NoFailure]_vars
    PROVE  Here("merge")' \/ (Here("bind")' /\ read' = stored /\ stored' = stored) \/ ~Served'
<1> USE DEF Here, Served, Told
<1>1. CASE Loop
  <2>1. ~TickFails
    BY CollectorAssumption DEF TickFails, Fails, NoFailure, IInv, TypeOK, vars
  <2>2. Merge
    BY <1>1, <2>1 DEF Loop, Bind, Publish, Sent, Stage, Stages, Retention, Purge,
                RetentionFails, Refresh, RefreshFails, Wake, Cancelled, At
  <2>. QED  BY <2>2 DEF Merge, At
<1>2. CASE UNCHANGED loop
  BY <1>2 DEF loop
<1>. QED  BY <1>1, <1>2, OnlyTheLoop, HangStep

(* And those it has read the services run under behind the next await      *)
(* (collector.py, 111-114).                                                *)
LEMMA BindStep ==
    ASSUME IInv, Told, Here("bind"), [Next]_vars, [NoFailure]_vars
    PROVE  (Here("bind")' /\ read' = read) \/ bound' = read \/ ~Served'
<1> USE DEF Here, Served, Told
<1>1. CASE Loop
  <2>1. ~TickFails
    BY CollectorAssumption DEF TickFails, Fails, NoFailure, IInv, TypeOK, vars
  <2>2. Bind
    BY <1>1, <2>1 DEF Loop, Merge, Publish, Sent, Stage, Stages, Retention, Purge,
                RetentionFails, Refresh, RefreshFails, Wake, Cancelled, At
  <2>. QED  BY <2>2 DEF Bind
<1>2. CASE UNCHANGED loop
  BY <1>2 DEF loop
<1>. QED  BY <1>1, <1>2, OnlyTheLoop, HangStep

(***************************************************************************)
(* Settings saved and left alone are those the services run under in the   *)
(* end while the loop lives, also when the save falls between the read of  *)
(* the old ones and their binding (collector.py, 109-114).                 *)
(***************************************************************************)
THEOREM SavedSettingsBind == FairSpec /\ LoopEnabled /\ FallingFailuresStop => SettingsTakeEffect
<1> SUFFICES ASSUME NEW s \in Settings
             PROVE  FairSpec /\ LoopEnabled /\ FallingFailuresStop
                       => (Served /\ stored = s ~> bound = s \/ stored # s \/ ~Served)
  BY DEF SettingsTakeEffect
<1> DEFINE On    == Served
           Off   == ~Served
           Same  == stored = s
           Other == stored # s
           Done  == bound = s
           Top   == Here("merge")
           Below == There("merge")
           Bind0 == Here("bind")
           Bind1 == There("bind")
           Fresh == read = s
<1>1. IInv /\ Told /\ Top /\ Same /\ [Next]_vars /\ [NoFailure]_vars
         => Top' \/ (Bind0' /\ Fresh') \/ ~Same' \/ ~On'
  BY MergeStep
<1>2. IInv /\ Told /\ Bind0 /\ Fresh /\ [Next]_vars /\ [NoFailure]_vars
         => (Bind0' /\ Fresh') \/ Done' \/ ~On'
  BY BindStep
<1>3. /\ Below => ~Top
      /\ Bind1 => ~Bind0
      /\ Off => ~On
      /\ Other <=> ~Same
  BY DEF Here, There, Ahead, Served
<1>4. Calm => Goes("merge") /\ Goes("bind")
  BY Moves DEF Ahead
<1>5. /\ Goes("merge") <=> (Top ~> Below \/ Off)
      /\ Goes("bind") <=> (Bind0 ~> Bind1 \/ Off)
  BY DEF Goes
<1> HIDE DEF On, Off, Same, Other, Done, Top, Below, Bind0, Bind1, Fresh
<1>6. Calm => []<>(Done \/ ~Same \/ ~On)
  <2>1. Calm => []<>(Top \/ ~On)
    BY GoesRound DEF Top, On
  <2>. QED  BY <1>1, <1>2, <1>3, <1>4, <1>5, <2>1, PTL DEF Calm
<1>7. FairSpec /\ LoopEnabled /\ FallingFailuresStop => (On /\ Same ~> Done \/ Other \/ ~On)
  BY <1>3, <1>6, CalmInTheEnd, PTL
<1>. QED  BY <1>7 DEF On, Same, Done, Other

-----------------------------------------------------------------------------
\* The rows past the retention.

\* What the prover cannot do, an induction in a temporal formula: lap by lap an
\* hour comes about.
HourOver  == age > Hour
Lap(k)    == Served /\ age = k ~> age = k + 1 \/ HourOver \/ ~Served
HoursPass == Served ~> HourOver \/ ~Served
LapsAddUp == []TypeOK /\ (\A k \in 0..Hour : Lap(k)) => HoursPass

(* Laps are counted one by one, and the count starts over only behind an   *)
(* hour (collector.py, 94-96 and 104-106).                                 *)
LEMMA AgeStep ==
    ASSUME IInv, Told, Served, age <= Hour, [Next]_vars
    PROVE  /\ age' = age \/ age' = age + 1 \/ HourOver' \/ ~Served'
           /\ Here("sleep") /\ [NoFailure]_vars
                 => Here("sleep")' \/ age' = age + 1 \/ ~Served'
<1> USE CollectorAssumption DEF HourOver, IInv, TypeOK
<1>1. CASE Loop
  <2>1. ~HourOver
    OBVIOUS
  <2>2. CASE Wake
    BY <2>2 DEF Wake
  <2>3. CASE Sent \/ TickFails
    BY <2>1, <2>3 DEF Sent, TickFails, Resume, At, Here
  <2>4. ASSUME ~Wake, ~Sent, ~TickFails PROVE age' = age
    BY <1>1, <2>4 DEF Loop, Merge, Bind, Publish, Stage, Retention, Purge,
                RetentionFails, Refresh, RefreshFails, Cancelled
  <2>5. ASSUME ~Wake, Here("sleep") PROVE FALSE
    BY <1>1, <2>5 DEF Here, Told, Loop, Merge, TickFails, Bind, Publish, Sent, Stage, Stages,
                Retention, Purge, RetentionFails, Refresh, RefreshFails, Cancelled, At
  <2>. QED  BY <2>2, <2>3, <2>4, <2>5
<1>2. CASE Reboot
  <2>1. HourOver'
    BY <1>2 DEF Reboot
  <2>2. ~[NoFailure]_vars
    BY <1>2 DEF Reboot, NoFailure, vars
  <2>. QED  BY <2>1, <2>2
<1>3. CASE Hang
  BY <1>3, HangStep
<1>4. CASE \/ Lifespan \/ Shutdown \/ Expire
           \/ (\E s \in Settings : Save(s)) \/ UNCHANGED vars
  <2>1. UNCHANGED loop
    BY <1>4 DEF Lifespan, Stopped, Aborted, Close, Shutdown, Expire, Save, vars
  <2>2. Here("sleep") => Here("sleep")' \/ ~Served'
    BY <2>1 DEF Here, Served, loop
  <2>. QED  BY <2>1, <2>2 DEF loop
<1>. QED  BY <1>1, <1>2, <1>3, <1>4 DEF Next

(* While the process serves, the laps go on (collector.py, 84-106).        *)
LEMMA LapsGoOn ==
    ASSUME NEW k \in 0..Hour
    PROVE  FairSpec /\ LoopEnabled /\ FallingFailuresStop => Lap(k)
<1> DEFINE On   == Served
           Old  == age = k
           More == age = k + 1
           Over == HourOver
           Nap  == Here("sleep")
           Woke == There("sleep")
           Off  == ~Served
<1>1. IInv /\ Told /\ On /\ Old /\ [Next]_vars
         => /\ Old' \/ More' \/ Over' \/ ~On'
            /\ Nap /\ [NoFailure]_vars => Nap' \/ More' \/ ~On'
  BY AgeStep
<1>2. (Woke => ~Nap) /\ (Off => ~On)
  BY DEF Here, There, Ahead, Served
<1>3. Calm => Goes("sleep")
  BY Moves DEF Ahead
<1>4. Goes("sleep") <=> (Nap ~> Woke \/ Off)
  BY DEF Goes
<1>5. Lap(k) <=> (On /\ Old ~> More \/ Over \/ ~On)
  BY DEF Lap
<1> HIDE DEF On, Old, More, Over, Nap, Woke, Off
<1>6. Calm => (On /\ Old ~> More \/ Over \/ ~On)
  <2>1. Calm => []<>(Nap \/ ~On)
    BY GoesRound DEF Nap, On
  <2>. QED  BY <1>1, <1>2, <1>3, <1>4, <2>1, PTL DEF Calm
<1>. QED  BY <1>1, <1>5, <1>6, CalmInTheEnd, ToldInv, PTL DEF FairSpec, Spec

(* An hour that is over stays so until the retention is attempted, behind  *)
(* the tick (collector.py, 94-103).                                        *)
LEMMA HourStep ==
    ASSUME IInv, Told, Served, HourOver, [Next]_vars, [NoFailure]_vars
    PROVE  /\ HourOver' \/ Here("send")
           /\ Here("send") => \/ Here("send")' /\ HourOver'
                              \/ Here("retention")' \/ ~Served'
<1> USE CollectorAssumption DEF HourOver, IInv, TypeOK
<1>1. CASE Loop
  <2>1. ~TickFails
    BY DEF TickFails, Fails, NoFailure, vars
  <2>2. CASE Sent
    BY <2>2 DEF Sent, Resume, Here, Served, Told, At
  <2>3. CASE Wake
    BY <2>3 DEF Wake, At, Here
  <2>4. ASSUME ~Sent, ~Wake PROVE age' = age
    BY <1>1, <2>1, <2>4 DEF Loop, Merge, Bind, Publish, Stage, Retention, Purge,
                RetentionFails, Refresh, RefreshFails, Cancelled
  <2>5. ASSUME ~Sent, Here("send") PROVE FALSE
    BY <1>1, <2>5 DEF Here, Told, Loop, Merge, TickFails, Bind, Publish, Stage, Stages,
                Retention, Purge, RetentionFails, Refresh, RefreshFails, Wake, Cancelled, At
  <2>. QED  BY <2>2, <2>3, <2>4, <2>5
<1>2. CASE UNCHANGED loop
  BY <1>2 DEF loop, Here, Served
<1>. QED  BY <1>1, <1>2, OnlyTheLoop, HangStep

(* The retention leads to the purge, and the purge purges (collector.py,   *)
(* 97-103).                                                                *)
LEMMA PurgeStep ==
    ASSUME IInv, Told, [Next]_vars, [NoFailure]_vars
    PROVE  Here("purge") => Here("purge")' \/ ~expired' \/ ~Served'
<1> SUFFICES ASSUME Here("purge")
             PROVE  Here("purge")' \/ ~expired' \/ ~Served'
  OBVIOUS
<1> USE DEF Here, Served, Told
<1>1. CASE Loop
  <2>1. ~RetentionFails
    BY CollectorAssumption DEF RetentionFails, Fails, NoFailure, IInv, TypeOK, vars
  <2>2. Purge
    BY <1>1, <2>1 DEF Loop, Merge, TickFails, Bind, Publish, Sent, Stage, Stages, Retention,
                Refresh, RefreshFails, Wake, Cancelled, At
  <2>. QED  BY <2>2 DEF Purge
<1>2. CASE UNCHANGED loop
  BY <1>2 DEF loop
<1>. QED  BY <1>1, <1>2, OnlyTheLoop, HangStep

(***************************************************************************)
(* Rows past the retention are deleted in the end while the loop lives: a  *)
(* cleanup that fails is followed by another an hour later (collector.py,  *)
(* 94-103).                                                                *)
(***************************************************************************)
THEOREM PurgesInTheEnd ==
    FairSpec /\ LoopEnabled /\ FallingFailuresStop /\ LapsAddUp => ExpiredArePurged
<1> DEFINE On    == Served
           Over  == HourOver
           Rows  == expired
           Clean == ~expired
           Send  == Here("send")
           Sent1 == There("send")
           Ret   == Here("retention")
           Ret1  == There("retention")
           Pur   == Here("purge")
           Pur1  == There("purge")
           Off   == ~Served
<1>1. IInv /\ Told /\ On /\ Over /\ [Next]_vars /\ [NoFailure]_vars
         => (Over' \/ Send) /\ (Send => (Send' /\ Over') \/ Ret' \/ ~On')
  BY HourStep
<1>2. IInv /\ Told /\ Pur /\ [Next]_vars /\ [NoFailure]_vars => Pur' \/ Clean' \/ ~On'
  BY PurgeStep
<1>3. /\ Sent1 => ~Send
      /\ Ret1 <=> Pur
      /\ Pur1 => ~Pur
      /\ Off => ~On
      /\ Clean <=> ~Rows
  BY DEF Here, There, Ahead, Served
<1>4. Calm => Goes("send") /\ Goes("retention") /\ Goes("purge")
  BY Moves DEF Ahead
<1>5. /\ Goes("send") <=> (Send ~> Sent1 \/ Off)
      /\ Goes("retention") <=> (Ret ~> Ret1 \/ Off)
      /\ Goes("purge") <=> (Pur ~> Pur1 \/ Off)
  BY DEF Goes
<1>6. FairSpec /\ LoopEnabled /\ FallingFailuresStop /\ LapsAddUp => HoursPass
  BY LapsGoOn, TypeCorrect DEF LapsAddUp, FairSpec
<1>7. HoursPass <=> (On ~> Over \/ ~On)
  BY DEF HoursPass
<1>8. Calm => []<>(Send \/ ~On)
  BY GoesRound
<1> HIDE DEF On, Over, Rows, Clean, Send, Sent1, Ret, Ret1, Pur, Pur1, Off
<1>9. Calm /\ HoursPass => []<>(Clean \/ ~On)
  BY <1>1, <1>2, <1>3, <1>4, <1>5, <1>7, <1>8, PTL DEF Calm
<1>10. FairSpec /\ LoopEnabled /\ FallingFailuresStop /\ LapsAddUp => (Rows ~> Clean \/ ~On)
  BY <1>6, <1>7, <1>9, CalmInTheEnd, PTL
<1>. QED  BY <1>10 DEF ExpiredArePurged, Rows, Clean, On
=============================================================================
