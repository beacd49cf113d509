---------------------------- MODULE AlerterProofs ----------------------------
(***************************************************************************)
(* What TLAPS proves of Alerter, for any alarms, callers, settings and     *)
(* bounds: type correctness, that every time kept is that of a real        *)
(* dispatch, from these that silence is earned and that nothing remembered *)
(* is repeated, and that a lasting alarm is told again and again while the *)
(* loop goes on. The liveness theorem has two kinds of hypotheses, both    *)
(* true of every behaviour of the specification and both beyond this       *)
(* prover: that a guard which is written out enables its action, and       *)
(* instances of induction in a temporal formula.                           *)
(***************************************************************************)
EXTENDS Alerter, FiniteSetTheorems, TLAPS

USE DEF None, Age, Ages

\* Growing older keeps an age an age, and the order of two ages.
LEMMA OlderAge ==
  ASSUME NEW x \in Ages, NEW y \in Ages
  PROVE  /\ Older(x) \in Ages
         /\ Older(x) = None <=> x = None
         /\ (x # None /\ y # None /\ x <= y) => Older(x) <= Older(y)
  BY AlerterAssumption DEF Older

LEMMA OlderAgeNat == ASSUME NEW x \in Age PROVE Older(x) \in Age
  BY AlerterAssumption DEF Older

-----------------------------------------------------------------------------
\* Type correctness.

LEMMA PlacesAre == {"idle", "walk", "query", "found", "judge", "send", "save", "stopped"} \subseteq Places
  BY DEF Places

LEMMA InitTypeOK == Init => TypeOK
  BY AlerterAssumption, PlacesAre DEF Init, TypeOK, Tasks

LEMMA NextTypeOK == TypeOK /\ [Next]_vars => TypeOK'
<1> SUFFICES ASSUME TypeOK, [Next]_vars PROVE TypeOK'
  OBVIOUS
<1> USE AlerterAssumption, PlacesAre DEF TypeOK, Tasks, Become
<1>1. CASE Advance
  BY <1>1, OlderAge, OlderAgeNat DEF Advance
<1>2. CASE Reboot
  BY <1>2 DEF Reboot
<1>3. CASE Begin
  BY <1>3 DEF Begin
<1>4. CASE Read
  BY <1>4 DEF Read
<1>5. CASE ReadFails
  BY <1>5 DEF ReadFails
<1>6. CASE Resume
  BY <1>6 DEF Resume
<1>7. CASE WalkEnd
  BY <1>7 DEF WalkEnd
<1>8. ASSUME NEW a \in Alarms, SkipLow(a) \/ SkipCooling(a) PROVE TypeOK'
  BY <1>8 DEF SkipLow, SkipCooling, Reach
<1>9. ASSUME NEW a \in Alarms, SendKnown(a) \/ Ask(a) PROVE TypeOK'
  BY <1>9 DEF SendKnown, Ask, Reach
<1>10. ASSUME NEW S \in SUBSET Alarms, Purge(S) PROVE TypeOK'
  BY <1>10 DEF Purge, tasks
<1>11. ASSUME NEW a \in Alarms, Change(a) PROVE TypeOK'
  BY <1>11 DEF Change, tasks
<1>12. ASSUME NEW t \in Callers, NEW a \in Alarms, Call(t, a) PROVE TypeOK'
  BY <1>12 DEF Call
<1>13. ASSUME NEW t \in Tasks, Sent(t) PROVE TypeOK'
  BY <1>13 DEF Sent
<1>14. ASSUME NEW t \in Tasks, SaveOk(t) PROVE TypeOK'
  <2>1. WithRow(t) \in [Alarms -> Ages]
    BY <1>14 DEF SaveOk, WithRow
  <2> QED
    BY <1>14, <2>1 DEF SaveOk
<1>15. ASSUME NEW t \in Tasks, SaveFails(t) PROVE TypeOK'
  <2>1. WithRow(t) \in [Alarms -> Ages]
    BY <1>15 DEF SaveFails, WithRow
  <2> QED
    BY <1>15, <2>1 DEF SaveFails
<1>16. CASE Judge
  BY <1>16 DEF Judge
<1>17. CASE LoopStops
  BY <1>17 DEF LoopStops
<1>18. CASE UNCHANGED vars
  BY <1>18 DEF vars, tasks
<1> QED
  BY <1>1, <1>2, <1>3, <1>4, <1>5, <1>6, <1>7, <1>8, <1>9, <1>10, <1>11, <1>12,
     <1>13, <1>14, <1>15, <1>16, <1>17, <1>18 DEF Next, Evaluate, Fire

(***************************************************************************)
(* The state stays of its type (alerter.py, 46-55).                        *)
(***************************************************************************)
THEOREM TypeCorrect == Spec => []TypeOK
  BY InitTypeOK, NextTypeOK, PTL DEF Spec

-----------------------------------------------------------------------------
\* The times kept are real.

\* What the loop has in hand while it looks an alarm up.
InHand == pc[Loop] \in {"found", "judge"} => TellsOf(at[Loop], found)
Still  == LooksUp /\ rival = None =>
             /\ \A t \in Callers : ~(pc[t] = "save" /\ at[t] = at[Loop])
             /\ pc[Loop] # "query" => found = row[at[Loop]]

LEMMA NextTimes ==
  ASSUME TypeOK, TypeOK', TimesAreReal, [Next]_vars
  PROVE  TimesAreReal'
<1> DEFINE Kept    == \A a \in Alarms : TellsOf(a, known[a]) /\ TellsOf(a, row[a])
           Written == \A t \in Tasks : pc[t] = "save" => /\ TellsOf(at[t], stamp[t])
                                                         /\ known[at[t]] # None
<1>0. /\ TimesAreReal <=> Kept /\ Written /\ InHand /\ Still
      /\ TimesAreReal' <=> Kept' /\ Written' /\ InHand' /\ Still'
  BY DEF TimesAreReal, InHand, Still
<1> USE DEF TypeOK, TellsOf, Places
<1>a. Loop \in Tasks /\ \A t \in Callers : t \in Tasks /\ t # Loop
  BY AlerterAssumption DEF Tasks
<1>b. Kept /\ Written /\ InHand /\ Still
  BY <1>0
<1>1. CASE Advance
  <2>1. ASSUME NEW a \in Alarms, NEW x \in Ages, TellsOf(a, x)
        PROVE  Older(x) # None => /\ since'[a] # None /\ since'[a] <= Older(x)
    <3>1. since[a] \in Ages /\ since'[a] = Older(since[a])
      BY <1>1 DEF Advance
    <3> QED
      BY <2>1, <3>1, OlderAge
  <2>2. \A a \in Alarms : /\ known[a] \in Ages /\ known'[a] = Older(known[a])
                          /\ row[a] \in Ages /\ row'[a] = Older(row[a])
    BY <1>1 DEF Advance
  <2>3. \A t \in Tasks : pc[t] = "save" => stamp[t] \in Ages /\ stamp'[t] = Older(stamp[t])
    BY <1>1 DEF Advance
  <2>4. pc' = pc /\ at' = at /\ rival' = rival /\ found \in Ages /\ found' = Older(found)
    BY <1>1 DEF Advance
  <2>5. \A t \in Tasks : pc[t] \in {"save", "query", "found", "judge"} => at[t] \in Alarms
    OBVIOUS
  <2>6. Kept'
    BY <1>b, <2>1, <2>2
  <2>7. Written'
    BY <1>b, <2>1, <2>2, <2>3, <2>4, <2>5, OlderAge
  <2>8. InHand'
    BY <1>a, <1>b, <2>1, <2>4, <2>5, OlderAge DEF InHand
  <2>9. Still'
    BY <1>a, <1>b, <2>2, <2>4, <2>5 DEF Still, LooksUp
  <2> QED
    BY <1>0, <2>6, <2>7, <2>8, <2>9
<1>2. CASE Reboot
  BY <1>0, <1>a, <1>b, <1>2 DEF Reboot, InHand, Still, LooksUp
<1>3. CASE Begin \/ WalkEnd \/ LoopStops
  BY <1>0, <1>a, <1>b, <1>3 DEF Begin, WalkEnd, LoopStops, Become, InHand, Still, LooksUp
<1>4. CASE Read
  BY <1>0, <1>a, <1>b, <1>4 DEF Read, InHand, Still, LooksUp
<1>5. CASE ReadFails
  BY <1>0, <1>a, <1>b, <1>5 DEF ReadFails, InHand, Still, LooksUp
<1>6. CASE Resume
  <2>1. /\ at[Loop] \in Alarms /\ pc[Loop] = "found" /\ pc'[Loop] = "judge"
        /\ \A t \in Callers : pc'[t] = pc[t]
        /\ at' = at /\ since' = since /\ row' = row /\ stamp' = stamp
        /\ found' = found /\ rival' = rival
    BY <1>a, <1>6 DEF Resume
  <2>2. \A a \in Alarms : known'[a] = known[a] \/ (a = at[Loop] /\ known'[a] = found /\ found # None)
    BY <1>6 DEF Resume
  <2>3. Kept'
    BY <1>b, <2>1, <2>2 DEF InHand
  <2>4. \A t \in Tasks : pc'[t] = "save" => t \in Callers /\ pc[t] = "save"
    BY <2>1 DEF Tasks
  <2>5. Written'
    BY <1>a, <1>b, <2>1, <2>2, <2>4
  <2>6. InHand' /\ Still'
    BY <1>b, <2>1 DEF InHand, Still, LooksUp
  <2> QED
    BY <1>0, <2>3, <2>5, <2>6
<1>7. CASE Judge
  BY <1>0, <1>a, <1>b, <1>7 DEF Judge, Become, InHand, Still, LooksUp
<1>8. ASSUME NEW a \in Alarms, SkipLow(a) \/ SkipCooling(a) PROVE TimesAreReal'
  BY <1>0, <1>b, <1>8 DEF SkipLow, SkipCooling, InHand, Still, LooksUp
<1>9. ASSUME NEW a \in Alarms, SendKnown(a) \/ Ask(a) PROVE TimesAreReal'
  <2>1. Kept' /\ Written' /\ InHand'
    BY <1>a, <1>b, <1>9 DEF SendKnown, Ask, Become, InHand
  <2>2. Still'
    BY <1>a, <1>b, <1>9 DEF SendKnown, Ask, Become, Still, LooksUp
  <2> QED
    BY <1>0, <2>1, <2>2
<1>10. ASSUME NEW S \in SUBSET Alarms, Purge(S) PROVE TimesAreReal'
  BY <1>0, <1>a, <1>b, <1>10 DEF Purge, tasks, InHand, Still, LooksUp
<1>11. ASSUME NEW a \in Alarms, Change(a) PROVE TimesAreReal'
  BY <1>0, <1>b, <1>11 DEF Change, tasks, InHand, Still, LooksUp
<1>12. ASSUME NEW t \in Callers, NEW a \in Alarms, Call(t, a) PROVE TimesAreReal'
  <2>1. /\ known' = known /\ row' = row /\ since' = since /\ stamp' = stamp
        /\ found' = found /\ rival' = rival /\ pc'[t] = "send"
        /\ \A u \in Tasks : u # t => pc'[u] = pc[u] /\ at'[u] = at[u]
    BY <1>12 DEF Call, Become
  <2>2. Kept' /\ Written'
    BY <1>b, <2>1
  <2>3. InHand' /\ Still'
    BY <1>a, <1>b, <2>1 DEF InHand, Still, LooksUp
  <2> QED
    BY <1>0, <2>2, <2>3
<1>13. ASSUME NEW t \in Tasks, Sent(t) PROVE TimesAreReal'
  <2>1. /\ pc[t] = "send" /\ at[t] \in Alarms /\ at' = at /\ row' = row /\ found' = found
        /\ \A u \in Tasks : u # t => pc'[u] = pc[u] /\ stamp'[u] = stamp[u]
        /\ pc'[t] = "save" /\ stamp'[t] = 0
        /\ \A a \in Alarms : a # at[t] => known'[a] = known[a] /\ since'[a] = since[a]
        /\ known'[at[t]] = 0 /\ since'[at[t]] = 0
        /\ rival' = IF LooksUp /\ t # Loop /\ at[t] = at[Loop] THEN t ELSE rival
    BY <1>13 DEF Sent
  <2>2. Kept'
    BY <1>b, <2>1, AlerterAssumption
  <2>3. Written'
    BY <1>b, <2>1, AlerterAssumption
  <2>4. InHand'
    BY <1>a, <1>b, <2>1, AlerterAssumption DEF InHand
  <2>5. Still'
    <3>1. SUFFICES ASSUME LooksUp', rival' = None
                   PROVE  /\ \A u \in Callers : ~(pc'[u] = "save" /\ at'[u] = at'[Loop])
                          /\ pc'[Loop] # "query" => found' = row'[at'[Loop]]
      BY DEF Still
    <3>2. t # Loop /\ t \in Callers /\ t # None /\ pc'[Loop] = pc[Loop] /\ LooksUp
      BY <1>a, <2>1, <3>1, AlerterAssumption DEF LooksUp, Tasks
    <3>3. rival = None /\ at[t] # at[Loop]
      BY <2>1, <3>1, <3>2
    <3> QED
      BY <1>a, <1>b, <2>1, <3>2, <3>3 DEF Still
  <2> QED
    BY <1>0, <2>2, <2>3, <2>4, <2>5
<1>14. ASSUME NEW t \in Tasks, SaveOk(t) \/ SaveFails(t) PROVE TimesAreReal'
  <2>1. /\ pc[t] = "save" /\ at[t] \in Alarms /\ known' = known /\ since' = since
        /\ found' = found /\ rival' = rival
        /\ \A u \in Tasks : u # t => stamp'[u] = stamp[u]
        /\ pc'[t] \in {"walk", "idle"} /\ \A u \in Tasks : u # t => pc'[u] = pc[u] /\ at'[u] = at[u]
    BY <1>14 DEF SaveOk, SaveFails, Become
  <2>2. \A a \in Alarms : row'[a] = row[a] \/ (a = at[t] /\ row'[a] = stamp[t])
    BY <1>14 DEF SaveOk, SaveFails, WithRow
  <2>3. Kept'
    BY <1>b, <2>1, <2>2
  <2>4. Written'
    BY <1>b, <2>1
  <2>5. InHand'
    BY <1>a, <1>b, <2>1 DEF InHand
  <2>6. Still'
    <3>1. SUFFICES ASSUME LooksUp', rival' = None
                   PROVE  /\ \A u \in Callers : ~(pc'[u] = "save" /\ at'[u] = at'[Loop])
                          /\ pc'[Loop] # "query" => found' = row'[at'[Loop]]
      BY DEF Still
    <3>2. t # Loop /\ t \in Callers /\ pc'[Loop] = pc[Loop] /\ at'[Loop] = at[Loop]
          /\ LooksUp /\ rival = None /\ at[Loop] \in Alarms
      BY <1>a, <2>1, <3>1 DEF LooksUp, Tasks
    <3>3. /\ \A u \in Callers : ~(pc[u] = "save" /\ at[u] = at[Loop])
          /\ pc[Loop] # "query" => found = row[at[Loop]]
      BY <1>b, <3>2 DEF Still
    <3>4. row'[at[Loop]] = row[at[Loop]]
      BY <2>1, <2>2, <3>2, <3>3
    <3>5. \A u \in Callers : ~(pc'[u] = "save" /\ at'[u] = at'[Loop])
      BY <1>a, <2>1, <3>2, <3>3
    <3> QED
      BY <2>1, <3>2, <3>3, <3>4, <3>5
  <2> QED
    BY <1>0, <2>3, <2>4, <2>5, <2>6
<1>15. CASE UNCHANGED vars
  BY <1>0, <1>b, <1>15 DEF vars, tasks, InHand, Still, LooksUp
<1> QED
  BY <1>1, <1>2, <1>3, <1>4, <1>5, <1>6, <1>7, <1>8, <1>9, <1>10, <1>11, <1>12,
     <1>13, <1>14, <1>15 DEF Next, Evaluate, Fire

(***************************************************************************)
(* Every time the alerter keeps is that of a real dispatch, in every state *)
(* of every behaviour (alerter.py, 70-88 and 289-305).                     *)
(***************************************************************************)
THEOREM TimesCorrect == Spec => []TimesAreReal
<1>1. Init => TimesAreReal
  BY AlerterAssumption DEF Init, TimesAreReal, TellsOf, Tasks, LooksUp
<1>2. TypeOK /\ TimesAreReal /\ [Next]_vars => (TypeOK /\ TimesAreReal)'
  BY NextTypeOK, NextTimes
<1> QED
  BY <1>1, <1>2, InitTypeOK, PTL DEF Spec

-----------------------------------------------------------------------------
\* What the loop does with a candidate.

LEMMA SilencedStep ==
  ASSUME TypeOK, TimesAreReal, [Next]_vars, NEW a \in Alarms, Silenced(a)
  PROVE  Cooling(since[a])
<1>1. /\ settings.cooldown \in 0..MaxAge /\ Loop \in Tasks /\ Allowed(a)
      /\ known[a] \in Ages /\ since[a] \in Ages /\ found \in Ages
      /\ \A t \in Callers : t # Loop
  BY AlerterAssumption DEF TypeOK, Setting, Tasks, Silenced
<1>2. SkipCooling(a) \/ (Judge /\ at[Loop] = a /\ pc[Loop] = "judge" /\ Cooling(found))
  <2>1. CASE Evaluate
    BY <1>1, <2>1 DEF TypeOK, Silenced, Evaluate, Begin, Read, ReadFails, Resume,
       Judge, WalkEnd, SkipLow, SkipCooling, SendKnown, Ask, Reach, Become
  <2>2. CASE ~Evaluate
    BY <1>1, <2>2 DEF TypeOK, Silenced, Next, Advance, Reboot, LoopStops, Purge, Change, Call,
       Fire, Sent, SaveOk, SaveFails, Become, vars, tasks
  <2> QED
    BY <2>1, <2>2
<1>3. CASE SkipCooling(a)
  BY <1>1, <1>3, AlerterAssumption DEF SkipCooling, Cooling, TimesAreReal, TellsOf
<1>4. CASE Judge /\ at[Loop] = a /\ pc[Loop] = "judge" /\ Cooling(found)
  BY <1>1, <1>4, AlerterAssumption DEF Cooling, TimesAreReal, TellsOf
<1> QED
  BY <1>2, <1>3, <1>4

(***************************************************************************)
(* An alarm above the floor is left alone only if it really was dispatched *)
(* inside the cooldown (alerter.py, 69-92 and 174-179).                    *)
(***************************************************************************)
THEOREM SilenceEarned == Spec => SilenceIsEarned
<1> DEFINE Step == \A a \in Alarms : Silenced(a) => Cooling(since[a])
<1>1. Spec => [](TypeOK /\ TimesAreReal)
  BY TypeCorrect, TimesCorrect, PTL
<1>2. TypeOK /\ TimesAreReal /\ [Next]_vars => [Step]_vars
  BY SilencedStep
<1> QED
  BY <1>1, <1>2, PTL DEF Spec, SilenceIsEarned

LEMMA SendingStep ==
  ASSUME TypeOK, TimesAreReal, [Next]_vars, NEW a \in Alarms,
         LoopSends(a), Remembered(a)
  PROVE  ~Cooling(since[a]) \/ pc[Loop] = "query" \/ rival # None
<1>1. Loop \in Tasks /\ \A t \in Callers : t # Loop
  BY AlerterAssumption DEF Tasks
<1>2. \/ SendKnown(a)
      \/ pc[Loop] = "query"
      \/ Judge /\ at[Loop] = a /\ pc[Loop] = "judge" /\ ~Cooling(found)
  <2>1. CASE Evaluate
    BY <1>1, <2>1 DEF TypeOK, LoopSends, Evaluate, Begin, Read, ReadFails, Resume,
       Judge, WalkEnd, SkipLow, SkipCooling, SendKnown, Ask, Reach, Become
  <2>2. CASE ~Evaluate
    BY <1>1, <2>2 DEF TypeOK, LoopSends, Next, Advance, Reboot, LoopStops, Purge, Change, Call,
       Fire, Sent, SaveOk, SaveFails, Become, vars, tasks
  <2> QED
    BY <2>1, <2>2
<1>3. CASE SendKnown(a)
  BY <1>3 DEF SendKnown, Reach, Remembered, LooksUp
<1>4. CASE Judge /\ at[Loop] = a /\ pc[Loop] = "judge" /\ ~Cooling(found)
  BY <1>4 DEF Remembered, TimesAreReal, LooksUp
<1> QED
  BY <1>2, <1>3, <1>4

(***************************************************************************)
(* The loop repeats inside its cooldown, although it is remembered where   *)
(* the loop looks, only an alarm that could not be read or that another    *)
(* task dispatched meanwhile (alerter.py, 69-92).                          *)
(***************************************************************************)
THEOREM RememberedNotRepeated == Spec => NoRepeatWhileRemembered
<1> DEFINE Step == \A a \in Alarms :
          LoopSends(a) /\ Remembered(a) =>
              ~Cooling(since[a]) \/ pc[Loop] = "query" \/ rival # None
<1>1. Spec => [](TypeOK /\ TimesAreReal)
  BY TypeCorrect, TimesCorrect, PTL
<1>2. TypeOK /\ TimesAreReal /\ [Next]_vars => [Step]_vars
  BY SendingStep
<1> QED
  BY <1>1, <1>2, PTL DEF Spec, NoRepeatWhileRemembered


-----------------------------------------------------------------------------
\* A stuck alarm is told again and again.

\* The loop is busy with a snapshot, and what is left of it: a candidate not yet
\* reached counts for the at most six steps it takes.
Out   == pc[Loop] \notin {"idle", "stopped"}
Stage == [walk |-> 0, save |-> 1, send |-> 2, judge |-> 3, found |-> 4, query |-> 5]
ToDo  == 6 * Cardinality(todo) + Stage[pc[Loop]]

\* Only the loop and the end of the process move the loop.
LEMMA OthersStep ==
  ASSUME TypeOK, [Next]_vars, ~LoopStep, ~Reboot, Out \/ Running'
  PROVE  pc'[Loop] = pc[Loop] /\ at'[Loop] = at[Loop] /\ todo' = todo
<1>1. Loop \in Tasks /\ \A t \in Callers : t \in Tasks /\ t # Loop
  BY AlerterAssumption DEF Tasks
<1>2. CASE \/ Advance \/ (\E S \in SUBSET Alarms : Purge(S))
           \/ (\E a \in Alarms : Change(a)) \/ UNCHANGED vars
  BY <1>2 DEF Advance, Purge, Change, vars, tasks
<1>3. ASSUME NEW t \in Callers, \/ \E a \in Alarms : Call(t, a)
                                \/ Fire(t)
      PROVE  pc'[Loop] = pc[Loop] /\ at'[Loop] = at[Loop] /\ todo' = todo
  BY <1>1, <1>3 DEF TypeOK, Call, Fire, Sent, SaveOk, SaveFails, Become
<1>4. ~LoopStops
  BY <1>1 DEF TypeOK, LoopStops, Become, Out, Running
<1> QED
  BY <1>2, <1>3, <1>4 DEF Next, LoopStep, Tasks

\* Every step of the loop leaves less to do, also one that fails, and nobody else
\* gives it more.
LEMMA ToDoStep ==
  ASSUME TypeOK, IsFiniteSet(Alarms), Out, [Next]_vars
  PROVE  /\ ToDo \in Nat
         /\ ~Out' \/ (ToDo' \in Nat /\ ToDo' <= ToDo)
         /\ <<LoopStep>>_vars => ~Out' \/ ToDo' < ToDo
<1>1. /\ Loop \in Tasks /\ pc[Loop] \in DOMAIN Stage
      /\ todo \in SUBSET Alarms /\ at[Loop] \in Alarms \cup {None}
  BY DEF TypeOK, Out, Tasks, Stage, Places
<1>2. IsFiniteSet(todo) /\ Cardinality(todo) \in Nat
  BY <1>1, FS_Subset, FS_CardinalityType
<1>3. ToDo \in Nat
  BY <1>1, <1>2 DEF ToDo, Stage
<1>4. CASE LoopStep
  <2>1. ASSUME NEW b \in todo, todo' = todo \ {b}, pc'[Loop] \in {"walk", "send", "query"},
               pc[Loop] = "walk"
        PROVE  ToDo' \in Nat /\ ToDo' < ToDo
    <3>1. Cardinality(todo') = Cardinality(todo) - 1 /\ Cardinality(todo') \in Nat
      BY <1>2, <2>1, FS_RemoveElement, FS_CardinalityType
    <3> QED
      BY <1>2, <2>1, <3>1 DEF ToDo, Stage
  <2>2. ASSUME NEW b \in Alarms, SkipLow(b) \/ SkipCooling(b) \/ SendKnown(b) \/ Ask(b)
        PROVE  ToDo' \in Nat /\ ToDo' < ToDo
    <3>1. b \in todo /\ todo' = todo \ {b} /\ pc[Loop] = "walk"
      BY <2>2 DEF SkipLow, SkipCooling, SendKnown, Ask, Reach
    <3>2. pc'[Loop] \in {"walk", "send", "query"}
      BY <1>1, <2>2, <3>1
         DEF TypeOK, SkipLow, SkipCooling, SendKnown, Ask, Become
    <3> QED
      BY <2>1, <3>1, <3>2
  <2>3. ASSUME todo' = todo, pc'[Loop] \in DOMAIN Stage, Stage[pc'[Loop]] < Stage[pc[Loop]]
        PROVE  ToDo' \in Nat /\ ToDo' < ToDo
    BY <1>1, <1>2, <2>3 DEF ToDo, Stage
  <2>4. ASSUME Read \/ ReadFails \/ Resume \/ Judge
        PROVE  ToDo' \in Nat /\ ToDo' < ToDo
    <3>1. todo' = todo
      BY <2>4 DEF Read, ReadFails, Resume, Judge
    <3>2. pc'[Loop] \in DOMAIN Stage /\ Stage[pc'[Loop]] < Stage[pc[Loop]]
      BY <1>1, <2>4 DEF TypeOK, Read, ReadFails, Resume, Judge, Become, Stage
    <3> QED
      BY <2>3, <3>1, <3>2
  <2>5. ASSUME Sent(Loop) \/ SaveOk(Loop)
        PROVE  ToDo' \in Nat /\ ToDo' < ToDo
    <3>1. todo' = todo
      BY <2>5 DEF Sent, SaveOk
    <3>2. pc'[Loop] \in DOMAIN Stage /\ Stage[pc'[Loop]] < Stage[pc[Loop]]
      BY <1>1, <2>5 DEF TypeOK, Sent, SaveOk, Become, Stage
    <3> QED
      BY <2>3, <3>1, <3>2
  <2>6. ASSUME Begin \/ WalkEnd \/ SaveFails(Loop)
        PROVE  ~Out'
    BY <1>1, <2>6 DEF TypeOK, Begin, WalkEnd, SaveFails, Become, Out
  <2>7. ~Out' \/ (ToDo' \in Nat /\ ToDo' < ToDo)
    BY <1>4, <2>2, <2>4, <2>5, <2>6 DEF LoopStep, Evaluate, Fire
  <2> QED
    BY <1>3, <2>7
<1>5. CASE Reboot /\ ~LoopStep
  BY <1>1, <1>3, <1>5 DEF Reboot, Out
<1>6. CASE ~Reboot /\ ~LoopStep
  BY <1>3, <1>6, OthersStep DEF ToDo, Out
<1> QED
  BY <1>4, <1>5, <1>6

\* What the prover cannot see: what enables an action.  A loop that has not stopped
\* always has a step to take, and an age that can grow may grow.
LoopEnabled     == [](Running => ENABLED <<LoopStep>>_vars)
ClockEnabled(a) == [](since[a] \in Age /\ since[a] < MaxAge => ENABLED <<Advance>>_vars)

\* What the prover cannot do, an induction in a temporal formula: of what there
\* is to do, of the ages below MaxAge, of the faults left.
Fresh(a)  == since[a] = 0
Mature(a) == since[a] \in {None, MaxAge}

Lap(k)         == Out /\ ToDo = k ~> ~Out \/ (Out /\ ToDo < k)
EvaluationEnds == Out ~> ~Out
LapsAddUp      == [](Out => ToDo \in Nat) /\ (\A k \in Nat : Lap(k)) => EvaluationEnds

Grows(a, k)  == since[a] = k ~> since[a] = k + 1 \/ Fresh(a) \/ Mature(a)
GrowsUp(a)   == []<>(Fresh(a) \/ Mature(a))
AgesAddUp(a) == []TypeOK /\ (\A k \in Age : Grows(a, k)) => GrowsUp(a)

NoFault           == faults' = faults
FaultsRise        == [](faults \in 0..MaxFaults) /\ [][faults' >= faults]_vars
FaultsStop        == <>[][NoFault]_vars
RisingFaultsStop  == FaultsRise => FaultsStop

Inductions(a) == LapsAddUp /\ AgesAddUp(a) /\ RisingFaultsStop
Enabled(a)    == LoopEnabled /\ ClockEnabled(a)

\* The faults so far only become more.
LEMMA Rising == Spec => FaultsRise
<1>1. TypeOK => faults \in 0..MaxFaults
  BY DEF TypeOK
<1>2. ASSUME TypeOK, [Next]_vars PROVE [faults' >= faults]_vars
  <2>1. faults \in Nat
    BY <1>2, AlerterAssumption DEF TypeOK
  <2>2. CASE Reboot \/ ReadFails \/ \E t \in Tasks : SaveFails(t)
    BY <2>1, <2>2 DEF Reboot, ReadFails, SaveFails
  <2>3. CASE ~(Reboot \/ ReadFails \/ \E t \in Tasks : SaveFails(t))
    <3>1. faults' = faults
      BY <1>2, <2>3 DEF Next, Evaluate, Fire, Advance, LoopStops, Begin, Read, Resume, Judge, WalkEnd, SkipLow,
         SkipCooling, SendKnown, Ask, Purge, Change, Call, Sent, SaveOk, vars, Tasks
    <3> QED
      BY <2>1, <3>1
  <2> QED
    BY <2>2, <2>3
<1> QED
  BY <1>1, <1>2, TypeCorrect, PTL DEF Spec, FaultsRise

\* Whatever the loop is at, it gets on with it (alerter.py, 57-190).
LEMMA LapEnds ==
  ASSUME IsFiniteSet(Alarms), NEW k \in Nat
  PROVE  FairSpec /\ LoopEnabled => Lap(k)
<1> DEFINE Busy == Out
           Here == ToDo = k
           Less == Out /\ ToDo < k
           Idle == ~Out
           Live == Running
<1>1. TypeOK /\ Busy /\ Here /\ [Next]_vars
         => /\ (Busy' /\ Here') \/ Less' \/ Idle'
            /\ <<LoopStep>>_vars => Less' \/ Idle'
  <2> SUFFICES ASSUME TypeOK, Out, ToDo = k, [Next]_vars
               PROVE  /\ (Out' /\ ToDo' = k) \/ (Out' /\ ToDo' < k) \/ ~Out'
                      /\ <<LoopStep>>_vars => (Out' /\ ToDo' < k) \/ ~Out'
    OBVIOUS
  <2>1. /\ ~Out' \/ (ToDo' \in Nat /\ ToDo' <= ToDo)
        /\ <<LoopStep>>_vars => ~Out' \/ ToDo' < ToDo
    BY ToDoStep
  <2> HIDE DEF Out, ToDo
  <2> QED
    BY <2>1
<1>2. Lap(k) <=> (Busy /\ Here ~> Idle \/ Less)
  BY DEF Lap
<1>a. Busy => Live
  BY DEF Out, Running
<1>b. LoopEnabled <=> [](Live => ENABLED <<LoopStep>>_vars)
  BY DEF LoopEnabled
<1> HIDE DEF Busy, Here, Less, Idle, Live
<1>3. FairSpec /\ LoopEnabled => (Busy /\ Here ~> Idle \/ Less)
  BY <1>1, <1>a, <1>b, TypeCorrect, PTL DEF FairSpec, Spec, Fairness, LoopRuns
<1> QED
  BY <1>2, <1>3

\* Hence every evaluation ends.
LEMMA EveryEvaluationEnds ==
  ASSUME IsFiniteSet(Alarms)
  PROVE  FairSpec /\ LoopEnabled /\ LapsAddUp => EvaluationEnds
<1>1. TypeOK /\ [Next]_vars => (Out => ToDo \in Nat)
  BY ToDoStep
<1>2. FairSpec => [](Out => ToDo \in Nat)
  BY <1>1, TypeCorrect, PTL DEF FairSpec, Spec
<1>3. FairSpec /\ LoopEnabled => \A k \in Nat : Lap(k)
  BY LapEnds
<1> QED
  BY <1>2, <1>3 DEF LapsAddUp

\* The clock ages a dispatch until another makes it fresh.
LEMMA AgeStep ==
  ASSUME TypeOK, NEW a \in Alarms, [Next]_vars
  PROVE  /\ \/ since'[a] = since[a]
            \/ since'[a] = Older(since[a])
            \/ Fresh(a)'
         /\ Advance => since'[a] = Older(since[a])
<1>1. CASE Advance
  BY <1>1 DEF Advance
<1>2. CASE \E t \in Tasks : Sent(t)
  BY <1>2 DEF Sent, Fresh, TypeOK, Advance, Tasks
<1>3. ASSUME ~Advance, ~\E t \in Tasks : Sent(t)
      PROVE  since' = since
  BY <1>3 DEF Next, Evaluate, Fire, Reboot, LoopStops, Begin, Read, ReadFails, Resume, Judge, WalkEnd, SkipLow,
     SkipCooling, SendKnown, Ask, Purge, Change, Call, SaveOk, SaveFails, vars, Tasks
<1> QED
  BY <1>1, <1>2, <1>3

\* An age that neither is fresh nor has grown up grows.
LEMMA AgeGrows ==
  ASSUME NEW a \in Alarms, NEW k \in Age
  PROVE  FairSpec /\ ClockEnabled(a) => Grows(a, k)
<1> DEFINE Here  == since[a] = k
           More == since[a] = k + 1
           New   == Fresh(a)
           Old   == Mature(a)
           Young == since[a] \in Age /\ since[a] < MaxAge
<1>1. TypeOK /\ Here /\ [Next]_vars
         => /\ Here' \/ More' \/ New' \/ Old
            /\ <<Advance>>_vars => More' \/ Old
  <2> SUFFICES ASSUME TypeOK, Here, [Next]_vars
               PROVE  /\ Here' \/ More' \/ New' \/ Old
                      /\ <<Advance>>_vars => More' \/ Old
    OBVIOUS
  <2>1. Older(k) = k + 1 \/ Old
    BY AlerterAssumption DEF Older, Mature
  <2> QED
    BY <2>1, AgeStep
<1>2. Here => Young \/ Old
  BY AlerterAssumption DEF Mature
<1>3. Grows(a, k) <=> (Here ~> More \/ New \/ Old)
  BY DEF Grows
<1>4. ClockEnabled(a) <=> [](Young => ENABLED <<Advance>>_vars)
  BY DEF ClockEnabled
<1> HIDE DEF Here, More, New, Old, Young
<1>5. FairSpec /\ ClockEnabled(a) => (Here ~> More \/ New \/ Old)
  BY <1>1, <1>2, <1>4, TypeCorrect, PTL DEF FairSpec, Spec, Fairness, ClockRuns
<1> QED
  BY <1>3, <1>5

\* Hence every alarm is fresh or mature again and again.
LEMMA AgesPass ==
  ASSUME NEW a \in Alarms
  PROVE  FairSpec /\ ClockEnabled(a) /\ AgesAddUp(a) => GrowsUp(a)
<1>1. FairSpec /\ ClockEnabled(a) => \A k \in Age : Grows(a, k)
  BY AgeGrows
<1>2. FairSpec => []TypeOK
  BY TypeCorrect DEF FairSpec
<1> QED
  BY <1>1, <1>2 DEF AgesAddUp

\* A mature alarm stays so until somebody dispatches it.
LEMMA MatureStep ==
  ASSUME TypeOK, NEW a \in Alarms, Mature(a), [Next]_vars
  PROVE  Mature(a)' \/ Fresh(a)'
BY AgeStep, AlerterAssumption DEF Mature, Older

\* The alarm is among the candidates the loop is to reach, and: it is its turn.
Due(a)  == Out /\ a \in todo
Turn(a) == Out /\ at[Loop] = a /\ pc[Loop] \in {"query", "found", "judge", "send"}

\* Without a fault, only the loop moves the loop.
LEMMA OnlyLoop ==
  ASSUME TypeOK, [Next]_vars, NoFault, ~LoopStep, Out \/ Running'
  PROVE  /\ pc'[Loop] = pc[Loop]
         /\ at'[Loop] = at[Loop]
         /\ todo' = todo
<1>1. ~Reboot
  BY AlerterAssumption DEF Reboot, NoFault, TypeOK
<1> QED
  BY <1>1, OthersStep

\* A new evaluation has every alarm whose condition holds (alerter.py, 94-168).
LEMMA IdleStep ==
  ASSUME TypeOK, [Next]_vars, NoFault, NEW a \in present, ~Out, Running'
  PROVE  /\ ~Out' \/ Due(a)'
         /\ <<LoopStep>>_vars => Due(a)'
<1>1. Loop \in Tasks
  BY DEF Tasks
<1>2. CASE LoopStep
  <2>1. Begin
    BY <1>2 DEF Out, LoopStep, Evaluate, Fire, Read, ReadFails, Resume, Judge, WalkEnd,
       SkipLow, SkipCooling, SendKnown, Ask, Reach, Sent, SaveOk, SaveFails
  <2> QED
    BY <1>1, <2>1 DEF TypeOK, Begin, Become, Due, Out
<1>3. CASE ~LoopStep
  BY <1>3, OnlyLoop DEF Out
<1> QED
  BY <1>2, <1>3

\* A mature alarm above the floor is not skipped: it gets its turn
\* (alerter.py, 69-92 and 170-182).
LEMMA DueStep ==
  ASSUME TypeOK, TimesAreReal, [Next]_vars, NoFault, NEW a \in Alarms,
         Allowed(a), Mature(a), Due(a)
  PROVE  Due(a)' \/ Turn(a)'
<1>1. /\ Loop \in Tasks /\ pc[Loop] # "idle" /\ a \in todo
      /\ settings.cooldown \in 0..MaxAge
  BY AlerterAssumption DEF TypeOK, Tasks, Due, Out, Setting
<1>2. ~Silenced(a)
  BY <1>1, SilencedStep, AlerterAssumption DEF Cooling, Mature
<1>3. ~ReadFails /\ ~SaveFails(Loop)
  BY AlerterAssumption DEF ReadFails, SaveFails, NoFault, TypeOK
<1>4. CASE Read \/ Resume \/ Judge \/ Sent(Loop) \/ SaveOk(Loop)
  BY <1>1, <1>4 DEF TypeOK, Read, Resume, Judge, Sent, SaveOk, Become, Due, Out
<1>5. ASSUME NEW b \in Alarms, SkipLow(b) \/ SkipCooling(b) \/ SendKnown(b) \/ Ask(b)
      PROVE  Due(a)' \/ Turn(a)'
  <2>1. /\ pc[Loop] = "walk" /\ todo' = todo \ {b}
        /\ pc'[Loop] \in {"walk", "send", "query"}
        /\ pc'[Loop] # "walk" => at'[Loop] = b
    BY <1>1, <1>5 DEF TypeOK, SkipLow, SkipCooling, SendKnown, Ask, Reach, Become
  <2>2. CASE a = b
    BY <1>1, <1>2, <2>1, <2>2 DEF Silenced, Turn, Out
  <2>3. CASE a # b
    BY <1>1, <2>1, <2>3 DEF Due, Out
  <2> QED
    BY <2>2, <2>3
<1>6. CASE LoopStep
  BY <1>1, <1>3, <1>4, <1>5, <1>6 DEF LoopStep, Evaluate, Fire, Begin, WalkEnd
<1>7. CASE ~LoopStep
  BY <1>1, <1>7, OnlyLoop DEF Due, Out
<1> QED
  BY <1>6, <1>7

\* When its turn has come, it is dispatched (alerter.py, 69-92 and 253-287).
LEMMA TurnStep ==
  ASSUME TypeOK, TimesAreReal, [Next]_vars, NoFault, NEW a \in Alarms,
         Allowed(a), Mature(a), Turn(a)
  PROVE  Turn(a)' \/ Fresh(a)'
<1>1. /\ Loop \in Tasks /\ at[Loop] = a
      /\ pc[Loop] \in {"query", "found", "judge", "send"}
      /\ settings.cooldown \in 0..MaxAge
  BY AlerterAssumption DEF TypeOK, Tasks, Turn, Setting
<1>2. ~Silenced(a)
  BY <1>1, SilencedStep, AlerterAssumption DEF Cooling, Mature
<1>3. ~ReadFails
  BY AlerterAssumption DEF ReadFails, NoFault, TypeOK
<1>4. CASE Read \/ Resume
  BY <1>1, <1>4 DEF TypeOK, Read, Resume, Turn, Out
<1>5. CASE Judge
  <2>1. pc[Loop] = "judge" /\ (pc'[Loop] = "walk" \/ (pc'[Loop] = "send" /\ at'[Loop] = a))
    BY <1>1, <1>5 DEF TypeOK, Judge, Become
  <2> QED
    BY <1>1, <1>2, <2>1 DEF Silenced, Turn, Out
<1>6. CASE Sent(Loop)
  BY <1>1, <1>6 DEF TypeOK, Sent, Fresh
<1>7. CASE LoopStep
  BY <1>1, <1>3, <1>4, <1>5, <1>6, <1>7
     DEF LoopStep, Evaluate, Fire, Begin, WalkEnd, SkipLow, SkipCooling, SendKnown, Ask, Reach,
         SaveOk, SaveFails
<1>8. CASE ~LoopStep
  BY <1>1, <1>8, OnlyLoop DEF Turn, Out
<1> QED
  BY <1>7, <1>8

(***************************************************************************)
(* A condition that lasts, above the floor, is told again and again while  *)
(* the loop goes on from tick to tick: its cooldown passes, the evaluation *)
(* under way ends, and in the next one it gets its turn (alerter.py,       *)
(* 94-190 and 253-306).  That the loop goes on is a hypothesis on the      *)
(* behaviour, not a fairness: collector.py, 105, can end it for good.      *)
(***************************************************************************)
THEOREM StuckAlarmsAreTold ==
  ASSUME IsFiniteSet(Alarms)
  PROVE  FairSpec /\ (\A a \in Alarms : Enabled(a) /\ Inductions(a)) => StuckAlarmsRepeat
<1> SUFFICES ASSUME NEW a \in Alarms
             PROVE  FairSpec /\ Enabled(a) /\ Inductions(a)
                      => (<>[](a \in present /\ Allowed(a) /\ Running) => []<>(since[a] = 0))
  BY DEF StuckAlarmsRepeat
<1> DEFINE Stuck == a \in present /\ Allowed(a) /\ Running
           Live  == Running
           New   == since[a] = 0
           Old   == Mature(a)
           Busy  == Out
           Idle  == ~Out
           Awaits == Due(a)
           Now   == Turn(a)
<1>1. TypeOK /\ Stuck /\ Stuck' /\ Idle /\ [Next]_vars /\ [NoFault]_vars
         => (Idle' \/ Awaits') /\ (<<LoopStep>>_vars => Awaits')
  <2> SUFFICES ASSUME TypeOK, a \in present, ~Out, Running', [Next]_vars, [NoFault]_vars
               PROVE  (~Out' \/ Due(a)') /\ (<<LoopStep>>_vars => Due(a)')
    OBVIOUS
  <2>1. NoFault
    BY DEF NoFault, vars
  <2> QED
    BY <2>1, IdleStep
<1>2. TypeOK /\ TimesAreReal /\ Stuck /\ Old /\ Awaits /\ [Next]_vars /\ [NoFault]_vars
         => Awaits' \/ Now'
  BY DueStep DEF NoFault, vars
<1>3. TypeOK /\ TimesAreReal /\ Stuck /\ Old /\ Now /\ [Next]_vars /\ [NoFault]_vars
         => Now' \/ New'
  BY TurnStep DEF NoFault, vars, Fresh
<1>4. TypeOK /\ Old /\ [Next]_vars => Old' \/ New'
  BY MatureStep DEF Fresh
<1>5. /\ Stuck => Live
      /\ Awaits => Busy
      /\ Now => Busy
      /\ Idle <=> ~Busy
  BY DEF Due, Turn
<1>a. LoopEnabled <=> [](Live => ENABLED <<LoopStep>>_vars)
  BY DEF LoopEnabled
<1>6. EvaluationEnds <=> (Busy ~> Idle)
  BY DEF EvaluationEnds
<1>7. GrowsUp(a) <=> []<>(New \/ Old)
  BY DEF GrowsUp, Fresh
<1>8. FairSpec /\ Enabled(a) /\ Inductions(a) => EvaluationEnds /\ GrowsUp(a)
  BY EveryEvaluationEnds, AgesPass DEF Enabled, Inductions
<1>9. FairSpec /\ Inductions(a) => FaultsStop
  BY Rising DEF FairSpec, Inductions, RisingFaultsStop
<1> HIDE DEF Stuck, Live, New, Old, Busy, Idle, Awaits, Now
<1>10. FairSpec /\ LoopEnabled /\ EvaluationEnds /\ GrowsUp(a) /\ FaultsStop
         => (<>[]Stuck => []<>New)
  BY <1>1, <1>2, <1>3, <1>4, <1>5, <1>6, <1>7, <1>a, TypeCorrect, TimesCorrect, PTL
     DEF FairSpec, Spec, Fairness, LoopRuns, FaultsStop
<1>11. FairSpec /\ Enabled(a) /\ Inductions(a) => (<>[]Stuck => []<>New)
  BY <1>8, <1>9, <1>10 DEF Enabled
<1> QED
  BY <1>11 DEF Stuck, New
=============================================================================
