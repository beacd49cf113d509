--------------------------- MODULE RestarterProofs ---------------------------
(***************************************************************************)
(* What TLAPS proves of Restarter, for any containers, settings, length of *)
(* the hour and bounds: type correctness, the agreement of the memory with *)
(* the history, and that the loop implements RestartPolicy.                *)
(***************************************************************************)
EXTENDS Restarter, TLAPS

USE DEF None

-----------------------------------------------------------------------------
\* What popping the left of a window leaves behind.
LEMMA PruneWindow ==
  ASSUME TypeOK, NEW c \in Containers, NEW k \in 0..Len(hourWindow[c]), Prune(c, k)
  PROVE  /\ hourWindow' \in [Containers -> Seq(Nat)]
         /\ Len(hourWindow'[c]) = Len(hourWindow[c]) - k
         /\ \A j \in 1..(Len(hourWindow[c]) - k) : hourWindow'[c][j] = hourWindow[c][k + j]
         /\ \A i \in 1..k : hourWindow[c][i] < evalAt - Hour
         /\ k < Len(hourWindow[c]) => hourWindow[c][k + 1] >= evalAt - Hour
         /\ \A d \in Containers : d # c => hourWindow'[d] = hourWindow[d]
<1> DEFINE w == hourWindow[c]
<1>1. w \in Seq(Nat) /\ hourWindow \in [Containers -> Seq(Nat)]
  BY DEF TypeOK
<1>2. hourWindow' = [hourWindow EXCEPT ![c] = SubSeq(w, k + 1, Len(w))]
  BY DEF Prune
<1>3. /\ SubSeq(w, k + 1, Len(w)) \in Seq(Nat)
      /\ Len(SubSeq(w, k + 1, Len(w))) = Len(w) - k
      /\ \A j \in 1..(Len(w) - k) : SubSeq(w, k + 1, Len(w))[j] = w[k + j]
  BY <1>1
<1>4. /\ \A i \in 1..k : w[i] < evalAt - Hour
      /\ k < Len(w) => w[k + 1] >= evalAt - Hour
  BY DEF Prune, PopCounts
<1> HIDE DEF w
<1>5. hourWindow'[c] = SubSeq(w, k + 1, Len(w))
  BY <1>1, <1>2
<1> QED
  BY <1>1, <1>2, <1>3, <1>4, <1>5 DEF w

-----------------------------------------------------------------------------
\* Type correctness.

LEMMA InitTypeOK == Init => TypeOK
  BY ConstantsAssumption DEF Init, TypeOK, Everywhere

LEMMA NextTypeOK == TypeOK /\ [Next]_vars => TypeOK'
<1> SUFFICES ASSUME TypeOK, [Next]_vars PROVE TypeOK'
  OBVIOUS
<1> USE ConstantsAssumption DEF TypeOK, Setting
<1>1. CASE Advance
  BY <1>1 DEF Advance, memory, list, ghost
<1>2. CASE Reboot
  BY <1>2 DEF Reboot, Everywhere
<1>3. CASE EvaluateDisabled
  BY <1>3 DEF EvaluateDisabled, NoteHealthy, Everywhere, world
<1>4. CASE EvaluateStart
  <2>1. seenDown' \in [Containers -> Nat \cup {None}]
    BY <1>4 DEF EvaluateStart, ForgetHealthy
  <2>2. lastUp' \in [Containers -> Nat]
    BY <1>4 DEF EvaluateStart, NoteHealthy
  <2> QED
    BY <1>4, <2>1, <2>2 DEF EvaluateStart, world
<1>5. CASE EvaluateEnd
  BY <1>5 DEF EvaluateEnd, world, memory, list, ghost
<1>6. CASE Restarted
  <2>1. hourWindow' \in [Containers -> Seq(Nat)]
    BY <1>6 DEF Restarted
  <2>2. lastRestart' \in [Containers -> Nat]
    BY <1>6 DEF Restarted
  <2> QED
    BY <1>6, <2>1, <2>2 DEF Restarted, list, ghost
<1>7. CASE PersistOk
  BY <1>7 DEF PersistOk, world, memory, list, ghost
<1>8. CASE PersistFails
  BY <1>8 DEF PersistFails, world, memory, ghost
<1>9. ASSUME NEW listed \in SUBSET Containers, List(listed) PROVE TypeOK'
  BY <1>9 DEF List, world, memory, ghost
<1>10. ASSUME NEW c \in Containers, GoesDown(c) \/ ComesUp(c) PROVE TypeOK'
  BY <1>10 DEF GoesDown, ComesUp, memory, list, ghost
<1>11. ASSUME NEW c \in Containers, SkipProtected(c) PROVE TypeOK'
  BY <1>11 DEF SkipProtected, Reach, world, memory, ghost
<1>12. ASSUME NEW c \in Containers, SkipWaiting(c) PROVE TypeOK'
  BY <1>12 DEF SkipWaiting, Reach, NoteDown, FirstSeen, world, ghost
<1>13. ASSUME NEW c \in Containers, SkipCapped(c) PROVE TypeOK'
  <2>1. hourWindow' \in [Containers -> Seq(Nat)]
    BY <1>13, PruneWindow DEF SkipCapped
  <2> QED
    BY <1>13, <2>1 DEF SkipCapped, Reach, NoteDown, FirstSeen, world, ghost
<1>14. ASSUME NEW c \in Containers, Issue(c) PROVE TypeOK'
  <2>1. hourWindow' \in [Containers -> Seq(Nat)]
    BY <1>14, PruneWindow DEF Issue
  <2>2. attempts' \in [Containers -> Seq(Nat)]
    BY <1>14 DEF Issue
  <2>3. seenDown' \in [Containers -> Nat \cup {None}]
    BY <1>14 DEF Issue, NoteDown, FirstSeen
  <2> QED
    BY <1>14, <2>1, <2>2, <2>3 DEF Issue, Reach, world
<1>15. CASE UNCHANGED vars
  BY <1>15 DEF vars, world, memory, list, ghost
<1> QED
  BY <1>1, <1>2, <1>3, <1>4, <1>5, <1>6, <1>7, <1>8, <1>9, <1>10, <1>11, <1>12,
     <1>13, <1>14, <1>15 DEF Next

(***************************************************************************)
(* The state stays of its type (restarter.py, 33-39).                      *)
(***************************************************************************)
THEOREM TypeCorrect == Spec => []TypeOK
  BY InitTypeOK, NextTypeOK, PTL DEF Spec

-----------------------------------------------------------------------------
\* The memory agrees with the history.

Histories(c) == LastIsLatest(c) /\ WindowIsTail(c) /\ HistoryInOrder(c)

\* A step that touches neither the history nor the memory of it, and lets no
\* time run backwards, keeps them in agreement.
LEMMA FrameHistories ==
  ASSUME TypeOK, TypeOK', NEW c \in Containers, Histories(c),
         attempts' = attempts, lastRestart' = lastRestart, hourWindow' = hourWindow,
         pc' = "restart" <=> pc = "restart", pc = "restart" => current' = current,
         Horizon <= Horizon'
  PROVE  Histories(c)'
<1>1. Known(c)' = Known(c) /\ Known(c) \in Int
  BY DEF Known, TypeOK
<1>2. Horizon \in Int /\ Horizon' \in Int /\ Hour \in Int
  BY ConstantsAssumption DEF TypeOK, Horizon
<1>3. attempts[c] \in Seq(Nat) /\ hourWindow[c] \in Seq(Nat)
  BY DEF TypeOK
<1>4. LastIsLatest(c)'
  BY <1>1 DEF Histories, LastIsLatest
<1>5. WindowIsTail(c)'
  <2> DEFINE popped == Known(c) - Len(hourWindow[c])
  <2>1. /\ popped >= 0
        /\ \A j \in 1..Len(hourWindow[c]) : hourWindow[c][j] = attempts[c][popped + j]
        /\ \A j \in 1..popped : attempts[c][j] < Horizon - Hour
    BY DEF Histories, WindowIsTail
  <2>2. Len(hourWindow[c]) \in Nat /\ Len(attempts[c]) \in Nat
    BY <1>3
  <2>3. popped \in Int /\ popped <= Len(attempts[c])
    <3>1. Known(c) = Len(attempts[c]) \/ Known(c) = Len(attempts[c]) - 1
      BY <2>2 DEF Known
    <3> QED
      BY <2>2, <3>1
  <2>4. ASSUME NEW j \in 1..popped PROVE attempts[c][j] < Horizon' - Hour
    <3>1. j \in 1..Len(attempts[c])
      BY <2>2, <2>3
    <3>2. attempts[c][j] \in Nat
      BY <1>3, <3>1
    <3> QED
      BY <1>2, <2>1, <3>2
  <2>5. /\ Known(c)' = Known(c)
        /\ hourWindow' = hourWindow /\ attempts' = attempts
    BY <1>1
  <2> HIDE DEF popped
  <2>6. /\ popped >= 0
        /\ \A j \in 1..Len(hourWindow'[c]) : hourWindow'[c][j] = attempts'[c][popped + j]
        /\ \A j \in 1..popped : attempts'[c][j] < Horizon' - Hour
    BY <2>1, <2>4, <2>5
  <2>7. popped = Known(c)' - Len(hourWindow'[c])
    BY <2>5 DEF popped
  <2> QED
    BY <2>6, <2>7 DEF WindowIsTail
<1>6. HistoryInOrder(c)'
  <2>1. \A i \in DOMAIN attempts[c] : attempts[c][i] \in Nat
    BY <1>3
  <2> QED
    BY <1>2, <2>1 DEF Histories, HistoryInOrder
<1> QED
  BY <1>4, <1>5, <1>6 DEF Histories

\* Pruning one window in the walk leaves every window a tail of the history.
LEMMA PruneKeepsTail ==
  ASSUME TypeOK, pc = "walk", NEW c \in Containers, NEW d \in Containers,
         WindowIsTail(d), NEW k \in 0..Len(hourWindow[c]), Prune(c, k)
  PROVE  LET popped == Len(attempts[d]) - Len(hourWindow'[d])
         IN  /\ popped >= 0
             /\ \A j \in 1..Len(hourWindow'[d]) :
                    hourWindow'[d][j] = attempts[d][popped + j]
             /\ \A j \in 1..popped : attempts[d][j] < evalAt - Hour
<1>1. Known(d) = Len(attempts[d]) /\ Horizon = evalAt
  BY DEF Known, Horizon, Walking, TypeOK
<1>2. /\ attempts[d] \in Seq(Nat) /\ hourWindow[d] \in Seq(Nat)
      /\ hourWindow'[d] \in Seq(Nat)
      /\ Len(attempts[d]) \in Nat /\ Len(hourWindow[d]) \in Nat
  <2>1. attempts[d] \in Seq(Nat) /\ hourWindow[d] \in Seq(Nat)
    BY DEF TypeOK
  <2>2. hourWindow' \in [Containers -> Seq(Nat)]
    BY PruneWindow
  <2> QED
    BY <2>1, <2>2
<1>3. CASE d # c
  BY <1>1, <1>2, <1>3, PruneWindow DEF WindowIsTail
<1>4. CASE d = c
  <2> DEFINE w == hourWindow[c]
             h == attempts[c]
             p == Len(h) - Len(w)
  <2>1. /\ p >= 0
        /\ \A j \in 1..Len(w) : w[j] = h[p + j]
        /\ \A j \in 1..p : h[j] < evalAt - Hour
    BY <1>1, <1>4 DEF WindowIsTail
  <2>2. /\ Len(hourWindow'[c]) = Len(w) - k
        /\ \A j \in 1..(Len(w) - k) : hourWindow'[c][j] = w[k + j]
        /\ \A i \in 1..k : w[i] < evalAt - Hour
    BY PruneWindow
  <2>3. Len(w) \in Nat /\ Len(h) \in Nat /\ k \in 0..Len(w)
    BY <1>2, <1>4
  <2> HIDE DEF w, h
  <2>4. ASSUME NEW j \in 1..(Len(w) - k) PROVE hourWindow'[c][j] = h[p + k + j]
    <3>1. k + j \in 1..Len(w) /\ p + (k + j) = p + k + j
      BY <2>3
    <3> QED
      BY <2>1, <2>2, <3>1
  <2>5. ASSUME NEW j \in 1..(p + k) PROVE h[j] < evalAt - Hour
    <3>1. CASE j <= p
      BY <2>1, <2>3, <3>1
    <3>2. CASE j > p
      <4>1. j - p \in 1..k /\ j - p \in 1..Len(w) /\ p + (j - p) = j
        BY <2>1, <2>3, <3>2
      <4>2. w[j - p] = h[p + (j - p)] /\ w[j - p] < evalAt - Hour
        BY <2>1, <2>2, <4>1
      <4> QED
        BY <4>1, <4>2
    <3> QED
      BY <3>1, <3>2, <2>1, <2>3
  <2>6. Len(h) - Len(hourWindow'[c]) = p + k
    BY <2>2, <2>3
  <2>7. p + k >= 0
    BY <2>1, <2>3
  <2> QED
    BY <1>4, <2>2, <2>4, <2>5, <2>6, <2>7 DEF h
<1> QED
  BY <1>3, <1>4

\* The three histories of a container after a step of the walk that prunes the
\* window of one of them and makes no attempt.
LEMMA PruneHistories ==
  ASSUME TypeOK, TypeOK', pc = "walk", pc' = "walk", evalAt' = evalAt,
         attempts' = attempts, lastRestart' = lastRestart,
         NEW c \in Containers, NEW d \in Containers, Histories(d),
         NEW k \in 0..Len(hourWindow[c]), Prune(c, k)
  PROVE  Histories(d)'
<1>1. /\ Known(d) = Len(attempts[d]) /\ Known(d)' = Len(attempts'[d])
      /\ Horizon = evalAt /\ Horizon' = evalAt
  BY DEF Known, Horizon, Walking
<1>2. LastIsLatest(d)'
  BY <1>1 DEF Histories, LastIsLatest
<1>3. WindowIsTail(d)'
  BY <1>1, PruneKeepsTail DEF Histories, WindowIsTail
<1>4. HistoryInOrder(d)'
  BY <1>1 DEF Histories, HistoryInOrder
<1> QED
  BY <1>2, <1>3, <1>4 DEF Histories

\* Making an attempt: the history grows by one, the memory does not know yet.
LEMMA IssueHistories ==
  ASSUME TypeOK, TypeOK', NEW c \in Containers, NEW d \in Containers,
         Histories(d), Issue(c)
  PROVE  Histories(d)'
<1>1. /\ pc = "walk" /\ pc' = "restart" /\ current' = c /\ evalAt' = evalAt
      /\ lastRestart' = lastRestart
      /\ attempts' = [attempts EXCEPT ![c] = Append(@, evalAt)]
  BY DEF Issue, Reach
<1>2. PICK k \in 0..Len(hourWindow[c]) : Prune(c, k)
  BY DEF Issue
<1>3. /\ attempts[d] \in Seq(Nat) /\ attempts[c] \in Seq(Nat) /\ evalAt \in Nat
      /\ Len(attempts[d]) \in Nat
      /\ hourWindow'[d] \in Seq(Nat) /\ Len(hourWindow'[d]) \in Nat
  <2>1. attempts[d] \in Seq(Nat) /\ attempts[c] \in Seq(Nat) /\ evalAt \in Nat
    BY DEF TypeOK
  <2>2. hourWindow'[d] \in Seq(Nat)
    BY DEF TypeOK
  <2> QED
    BY <2>1, <2>2
<1>4. Horizon = evalAt /\ Horizon' = evalAt /\ Known(d) = Len(attempts[d])
  BY <1>1 DEF Horizon, Walking, Known
<1>5. /\ d # c => attempts'[d] = attempts[d]
      /\ d = c => attempts'[d] = Append(attempts[d], evalAt)
  BY <1>1, <1>3 DEF TypeOK
<1>6. /\ \A i \in 1..Len(attempts[d]) : attempts'[d][i] = attempts[d][i]
      /\ d = c => /\ Len(attempts'[d]) = Len(attempts[d]) + 1
                  /\ attempts'[d][Len(attempts[d]) + 1] = evalAt
      /\ d # c => Len(attempts'[d]) = Len(attempts[d])
  <2>1. CASE d = c
    <3> DEFINE h == attempts[d]
    <3>1. h \in Seq(Nat) /\ attempts'[d] = Append(h, evalAt)
      BY <1>3, <1>5, <2>1
    <3> HIDE DEF h
    <3>2. /\ Len(Append(h, evalAt)) = Len(h) + 1
          /\ Append(h, evalAt)[Len(h) + 1] = evalAt
          /\ \A i \in 1..Len(h) : Append(h, evalAt)[i] = h[i]
      BY <1>3, <3>1
    <3> QED
      BY <2>1, <3>1, <3>2 DEF h
  <2>2. CASE d # c
    BY <1>5, <2>2
  <2> QED
    BY <2>1, <2>2
<1>7. Known(d)' = Len(attempts[d])
  BY <1>1, <1>3, <1>6 DEF Known
<1>8. LastIsLatest(d)'
  BY <1>1, <1>3, <1>4, <1>6, <1>7 DEF Histories, LastIsLatest
<1>9. WindowIsTail(d)'
  <2> DEFINE popped == Len(attempts[d]) - Len(hourWindow'[d])
  <2>1. /\ popped >= 0
        /\ \A j \in 1..Len(hourWindow'[d]) : hourWindow'[d][j] = attempts[d][popped + j]
        /\ \A j \in 1..popped : attempts[d][j] < evalAt - Hour
    BY <1>1, <1>2, PruneKeepsTail DEF Histories
  <2>2. /\ \A j \in 1..Len(hourWindow'[d]) : popped + j \in 1..Len(attempts[d])
        /\ \A j \in 1..popped : j \in 1..Len(attempts[d])
    <3> DEFINE n == Len(attempts[d])
               m == Len(hourWindow'[d])
    <3>1. n \in Nat /\ m \in Nat /\ popped = n - m /\ popped >= 0
      BY <1>3, <2>1
    <3> HIDE DEF n, m, popped
    <3>2. /\ \A j \in 1..m : popped + j \in 1..n
          /\ \A j \in 1..popped : j \in 1..n
      BY <3>1
    <3> QED
      BY <3>2 DEF n, m
  <2>4. popped = Known(d)' - Len(hourWindow'[d])
    BY <1>7
  <2> HIDE DEF popped
  <2>5. /\ popped >= 0
        /\ \A j \in 1..Len(hourWindow'[d]) : hourWindow'[d][j] = attempts'[d][popped + j]
        /\ \A j \in 1..popped : attempts'[d][j] < Horizon' - Hour
    BY <1>4, <1>6, <2>1, <2>2
  <2> QED
    BY <2>4, <2>5 DEF WindowIsTail
<1>10. HistoryInOrder(d)'
  <2>1. \A i, j \in 1..Len(attempts[d]) :
           /\ i <= j => attempts[d][i] <= attempts[d][j]
           /\ attempts[d][i] <= evalAt
    BY <1>3, <1>4 DEF Histories, HistoryInOrder
  <2>2. CASE d # c
    <3>1. DOMAIN attempts'[d] = 1..Len(attempts[d])
      BY <1>3, <1>5, <2>2
    <3> QED
      BY <1>4, <1>6, <2>1, <3>1 DEF HistoryInOrder
  <2>3. CASE d = c
    <3>1. DOMAIN attempts'[d] = 1..(Len(attempts[d]) + 1)
      BY <1>3, <1>5, <2>3
    <3>2. \A i \in DOMAIN attempts'[d] :
             i \in 1..Len(attempts[d]) \/ i = Len(attempts[d]) + 1
      BY <1>3, <3>1
    <3>3. ASSUME NEW i \in DOMAIN attempts'[d], NEW j \in DOMAIN attempts'[d]
          PROVE  /\ i <= j => attempts'[d][i] <= attempts'[d][j]
                 /\ attempts'[d][i] <= evalAt
      <4>1. /\ attempts'[d][Len(attempts[d]) + 1] = evalAt
            /\ \A n \in 1..Len(attempts[d]) : attempts'[d][n] = attempts[d][n]
            /\ evalAt <= evalAt
        BY <1>3, <1>6, <2>3
      <4>2. CASE j \in 1..Len(attempts[d])
        <5> DEFINE n == Len(attempts[d])
        <5>1. n \in Nat /\ i \in 1..(n + 1) /\ j \in 1..n
          BY <1>3, <3>1, <4>2
        <5> HIDE DEF n
        <5>2. i <= j => i \in 1..n
          BY <5>1
        <5> QED
          BY <2>1, <3>2, <4>1, <4>2, <5>1, <5>2 DEF n
      <4>3. CASE j = Len(attempts[d]) + 1
        BY <2>1, <3>2, <4>1, <4>3
      <4> QED
        BY <3>2, <4>2, <4>3
    <3> QED
      BY <1>4, <3>3 DEF HistoryInOrder
  <2> QED
    BY <2>2, <2>3
<1> QED
  BY <1>8, <1>9, <1>10 DEF Histories

\* The await returns: the memory learns of the attempt.
LEMMA RestartedHistories ==
  ASSUME TypeOK, TypeOK', NEW d \in Containers, Histories(d), Restarted,
         attempts[current] # << >>,
         attempts[current][Len(attempts[current])] = evalAt
  PROVE  Histories(d)'
<1>1. /\ pc = "restart" /\ pc' = "persist" /\ evalAt' = evalAt
      /\ lastRestart' = [lastRestart EXCEPT ![current] = evalAt]
      /\ hourWindow' = [hourWindow EXCEPT ![current] = Append(@, evalAt)]
      /\ attempts' = attempts
      /\ current \in Containers
  BY DEF Restarted, TypeOK, ghost
<1>2. Horizon = evalAt /\ Horizon' = evalAt /\ Known(d)' = Len(attempts[d])
  BY <1>1 DEF Horizon, Walking, Known
<1>3. /\ attempts[d] \in Seq(Nat) /\ hourWindow[d] \in Seq(Nat) /\ evalAt \in Nat
      /\ Len(attempts[d]) \in Nat /\ Len(hourWindow[d]) \in Nat
  <2>1. attempts[d] \in Seq(Nat) /\ hourWindow[d] \in Seq(Nat) /\ evalAt \in Nat
    BY DEF TypeOK
  <2> QED
    BY <2>1
<1>4. HistoryInOrder(d)'
  BY <1>1, <1>2 DEF Histories, HistoryInOrder
<1>5. CASE d # current
  <2>1. /\ Known(d) = Len(attempts[d])
        /\ lastRestart'[d] = lastRestart[d] /\ hourWindow'[d] = hourWindow[d]
    BY <1>1, <1>5 DEF Known, TypeOK
  <2>2. LastIsLatest(d)'
    BY <1>1, <1>2, <2>1 DEF Histories, LastIsLatest
  <2>3. WindowIsTail(d)'
    BY <1>1, <1>2, <2>1 DEF Histories, WindowIsTail
  <2> QED
    BY <1>4, <2>2, <2>3 DEF Histories
<1>6. CASE d = current
  <2>1. /\ Known(d) = Len(attempts[d]) - 1
        /\ Len(attempts[d]) > 0
        /\ lastRestart'[d] = evalAt
        /\ hourWindow'[d] = Append(hourWindow[d], evalAt)
    <3>1. Known(d) = Len(attempts[d]) - 1 /\ Len(attempts[d]) > 0
      BY <1>1, <1>3, <1>6 DEF Known
    <3>2. lastRestart'[d] = evalAt /\ hourWindow'[d] = Append(hourWindow[d], evalAt)
      BY <1>1, <1>6 DEF TypeOK
    <3> QED
      BY <3>1, <3>2
  <2>2. LastIsLatest(d)'
    BY <1>1, <1>2, <1>3, <1>6, <2>1 DEF LastIsLatest
  <2>3. WindowIsTail(d)'
    <3> DEFINE popped == Len(attempts[d]) - 1 - Len(hourWindow[d])
    <3>1. /\ popped >= 0
          /\ \A j \in 1..Len(hourWindow[d]) : hourWindow[d][j] = attempts[d][popped + j]
          /\ \A j \in 1..popped : attempts[d][j] < evalAt - Hour
      BY <1>2, <2>1 DEF Histories, WindowIsTail
    <3>2. /\ Len(hourWindow'[d]) = Len(hourWindow[d]) + 1
          /\ \A j \in 1..Len(hourWindow[d]) : hourWindow'[d][j] = hourWindow[d][j]
          /\ hourWindow'[d][Len(hourWindow[d]) + 1] = evalAt
      BY <1>3, <2>1
    <3>3. popped = Known(d)' - Len(hourWindow'[d])
      BY <1>2, <1>3, <3>2
    <3>4. attempts[d][popped + (Len(hourWindow[d]) + 1)] = evalAt
      <4> DEFINE n == Len(attempts[d])
                 m == Len(hourWindow[d])
      <4>1. n \in Nat /\ m \in Nat /\ popped = n - 1 - m
        BY <1>3
      <4> HIDE DEF n, m, popped
      <4>2. popped + (m + 1) = n
        BY <4>1
      <4> QED
        BY <1>6, <4>2 DEF n, m
    <3>5. \A j \in 1..Len(hourWindow'[d]) :
             j \in 1..Len(hourWindow[d]) \/ j = Len(hourWindow[d]) + 1
      BY <1>3, <3>2
    <3> HIDE DEF popped
    <3>6. /\ popped >= 0
          /\ \A j \in 1..Len(hourWindow'[d]) : hourWindow'[d][j] = attempts'[d][popped + j]
          /\ \A j \in 1..popped : attempts'[d][j] < Horizon' - Hour
      BY <1>1, <1>2, <3>1, <3>2, <3>4, <3>5
    <3> QED
      BY <3>3, <3>6 DEF WindowIsTail
  <2> QED
    BY <1>4, <2>2, <2>3 DEF Histories
<1> QED
  BY <1>5, <1>6

LEMMA InitMemory == Init => MemoryMatchesHistory
<1> SUFFICES ASSUME Init PROVE MemoryMatchesHistory
  OBVIOUS
<1>1. /\ ~Walking /\ pc = "awake" /\ Horizon = BootTime /\ BootTime \in Nat
      /\ \A c \in Containers : Known(c) = 0
  BY ConstantsAssumption DEF Init, Everywhere, Walking, Horizon, Known
<1> QED
  BY <1>1 DEF Init, Everywhere, MemoryMatchesHistory, LastIsLatest, WindowIsTail,
              HistoryInOrder, SeenDownAfterUp

\* No step lets the latest stamp run backwards.
LEMMA HorizonGrows ==
  ASSUME TypeOK, TypeOK', MemoryMatchesHistory, [Next]_vars
  PROVE  /\ Horizon \in Int /\ Horizon' \in Int /\ Horizon <= Horizon'
         /\ Horizon <= clock /\ clock <= clock' /\ clock \in Nat
<1>0. clock \in Nat /\ clock' \in Nat /\ evalAt \in Nat /\ evalAt' \in Nat
  BY ConstantsAssumption DEF TypeOK
<1>1. Walking => evalAt <= clock
  BY <1>0, ConstantsAssumption DEF MemoryMatchesHistory
<1>2. clock <= clock'
  BY <1>0 DEF Next, Advance, Reboot, EvaluateDisabled, EvaluateStart, EvaluateEnd,
     Restarted, PersistOk, PersistFails, List, GoesDown, ComesUp, SkipProtected,
     SkipWaiting, SkipCapped, Issue, vars, world
<1>3. Walking' => \/ evalAt' = evalAt /\ Walking
                  \/ evalAt' = clock /\ ~Walking
  BY DEF Walking, Next, Advance, Reboot, EvaluateDisabled, EvaluateStart, EvaluateEnd,
     Restarted, PersistOk, PersistFails, List, GoesDown, ComesUp, SkipProtected,
     SkipWaiting, SkipCapped, Issue, Reach, vars
<1>4. Horizon = (IF Walking THEN evalAt ELSE clock) /\ Horizon' = IF Walking' THEN evalAt' ELSE clock'
  BY DEF Horizon
<1> QED
  BY <1>0, <1>1, <1>2, <1>3, <1>4

\* A step that sees nobody healthy keeps the sightings in order.
LEMMA FrameSightings ==
  ASSUME TypeOK, TypeOK', NEW c \in Containers, SeenDownAfterUp(c),
         lastUp' = lastUp, seenDown' = seenDown,
         Horizon \in Int, Horizon' \in Int, Horizon <= Horizon'
  PROVE  SeenDownAfterUp(c)'
<1>1. lastUp[c] \in Nat /\ lastUp'[c] = lastUp[c] /\ seenDown'[c] = seenDown[c]
  BY DEF TypeOK
<1> QED
  BY <1>1 DEF SeenDownAfterUp

\* Neither does a step of the walk that notes a container as down.
LEMMA NoteDownSightings ==
  ASSUME TypeOK, TypeOK', Walking, Walking', evalAt' = evalAt, lastUp' = lastUp,
         NEW c \in Containers, NEW d \in Containers, SeenDownAfterUp(d), NoteDown(c)
  PROVE  SeenDownAfterUp(d)'
<1>1. /\ lastUp'[d] = lastUp[d] /\ lastUp[d] \in Nat
      /\ Horizon = evalAt /\ Horizon' = evalAt /\ evalAt \in Nat
  BY DEF TypeOK, Horizon
<1>2. seenDown'[d] = seenDown[d] \/ (seenDown[d] = None /\ seenDown'[d] = evalAt)
  BY DEF NoteDown, FirstSeen, TypeOK
<1> QED
  BY <1>1, <1>2 DEF SeenDownAfterUp

LEMMA NextMemory ==
  ASSUME TypeOK, TypeOK', MemoryMatchesHistory, [Next]_vars
  PROVE  MemoryMatchesHistory'
<1>1. /\ Horizon \in Int /\ Horizon' \in Int /\ Horizon <= Horizon'
      /\ Horizon <= clock /\ clock <= clock' /\ clock \in Nat
  BY HorizonGrows
<1>2. \A c \in Containers : Histories(c) /\ SeenDownAfterUp(c)
  BY DEF MemoryMatchesHistory, Histories
<1>3. /\ Walking => evalAt \in BootTime..clock /\ settings.enabled
      /\ pc = "restart" => /\ attempts[current] # << >>
                           /\ attempts[current][Len(attempts[current])] = evalAt
  BY DEF MemoryMatchesHistory
<1>4. SUFFICES /\ Walking' => evalAt' \in BootTime..clock' /\ settings'.enabled
               /\ pc' = "restart" =>
                     /\ attempts'[current'] # << >>
                     /\ attempts'[current'][Len(attempts'[current'])] = evalAt'
               /\ \A d \in Containers : Histories(d)' /\ SeenDownAfterUp(d)'
  BY DEF MemoryMatchesHistory, Histories
\* The walk began no later than now, under settings that enable it.
<1>5. Walking' => evalAt' \in BootTime..clock' /\ settings'.enabled
  <2>1. /\ clock \in BootTime..MaxTime /\ BootTime \in Nat /\ MaxTime \in Nat
        /\ clock' \in BootTime..MaxTime
    BY ConstantsAssumption DEF TypeOK
  <2>2. Walking' => \/ Walking /\ evalAt' = evalAt /\ settings' = settings
                    \/ evalAt' = clock /\ settings' = settings /\ settings.enabled
    BY DEF Walking, Next, Advance, Reboot, EvaluateDisabled, EvaluateStart,
       EvaluateEnd, Restarted, PersistOk, PersistFails, List, GoesDown, ComesUp,
       SkipProtected, SkipWaiting, SkipCapped, Issue, Reach, vars
  <2> QED
    BY <1>1, <1>3, <2>1, <2>2
\* A restart is awaited for the latest attempt.
<1>6. pc' = "restart" => /\ attempts'[current'] # << >>
                         /\ attempts'[current'][Len(attempts'[current'])] = evalAt'
  <2>1. CASE \E c \in Containers : Issue(c)
    <3>1. PICK c \in Containers : Issue(c)
      BY <2>1
    <3>2. /\ attempts[c] \in Seq(Nat) /\ evalAt \in Nat
          /\ current' = c /\ evalAt' = evalAt
          /\ attempts'[c] = Append(attempts[c], evalAt)
      BY <3>1 DEF Issue, TypeOK
    <3> QED
      BY <3>2
  <2>2. CASE ~\E c \in Containers : Issue(c)
    <3>1. pc' = "restart" => /\ pc = "restart" /\ attempts' = attempts
                             /\ current' = current /\ evalAt' = evalAt
      BY <2>2 DEF Next, Advance, Reboot, EvaluateDisabled, EvaluateStart,
         EvaluateEnd, Restarted, PersistOk, PersistFails, List, GoesDown, ComesUp,
         SkipProtected, SkipWaiting, SkipCapped, Reach, vars, ghost
    <3> QED
      BY <1>3, <3>1
  <2> QED
    BY <2>1, <2>2
<1>7. ASSUME NEW d \in Containers PROVE Histories(d)' /\ SeenDownAfterUp(d)'
  <2>0. Histories(d) /\ SeenDownAfterUp(d)
    BY <1>2
  \* The steps that change no dictionary.
  <2>1. CASE \/ Advance \/ PersistOk \/ PersistFails \/ EvaluateEnd
             \/ \E listed \in SUBSET Containers : List(listed)
             \/ \E c \in Containers : GoesDown(c) \/ ComesUp(c) \/ SkipProtected(c)
             \/ UNCHANGED vars
    <3>1. /\ attempts' = attempts /\ lastUp' = lastUp /\ seenDown' = seenDown
          /\ lastRestart' = lastRestart /\ hourWindow' = hourWindow
          /\ pc' = "restart" <=> pc = "restart"
          /\ pc = "restart" => current' = current
      BY <2>1 DEF Advance, PersistOk, PersistFails, EvaluateEnd, List, GoesDown,
         ComesUp, SkipProtected, Reach, vars, memory, ghost, list
    <3>2. Histories(d)'
      BY <1>1, <2>0, <3>1, FrameHistories
    <3> QED
      BY <1>1, <2>0, <3>1, <3>2, FrameSightings
  <2>2. CASE Reboot
    <3>1. /\ attempts'[d] = << >> /\ seenDown'[d] = None /\ hourWindow'[d] = << >>
          /\ lastRestart'[d] = 0 /\ pc' = "awake" /\ lastUp' = lastUp
          /\ lastUp[d] \in Nat
      BY <2>2 DEF Reboot, Everywhere, TypeOK
    <3>2. Known(d)' = 0
      BY <3>1 DEF Known
    <3>3. Histories(d)'
      BY <3>1, <3>2 DEF Histories, LastIsLatest, WindowIsTail, HistoryInOrder
    <3> QED
      BY <1>1, <2>0, <3>1, <3>3 DEF SeenDownAfterUp
  <2>3. CASE EvaluateDisabled \/ EvaluateStart
    <3>1. /\ attempts' = attempts /\ lastRestart' = lastRestart
          /\ hourWindow' = hourWindow /\ pc = "listed" /\ pc' # "restart"
          /\ lastUp' = [c \in Containers |-> IF c \in healthy THEN clock ELSE lastUp[c]]
          /\ clock' = clock
      BY <2>3 DEF EvaluateDisabled, EvaluateStart, NoteHealthy, world
    <3>2. Histories(d)'
      BY <1>1, <2>0, <3>1, FrameHistories
    <3>3. Horizon' = clock
      BY <2>3, <3>1 DEF EvaluateDisabled, EvaluateStart, Horizon, Walking
    <3>4. \/ seenDown'[d] = None
          \/ d \notin healthy /\ seenDown'[d] = seenDown[d]
      BY <2>3 DEF EvaluateDisabled, EvaluateStart, ForgetHealthy, Everywhere
    <3>5. lastUp[d] \in Nat /\ lastUp'[d] = IF d \in healthy THEN clock ELSE lastUp[d]
      BY <3>1 DEF TypeOK
    <3> QED
      BY <1>1, <2>0, <3>2, <3>3, <3>4, <3>5 DEF SeenDownAfterUp
  <2>4. CASE Restarted
    <3>1. Histories(d)'
      BY <1>3, <2>0, <2>4, RestartedHistories DEF Restarted
    <3>2. lastUp' = lastUp /\ seenDown' = seenDown
      BY <2>4 DEF Restarted, ghost
    <3> QED
      BY <1>1, <2>0, <3>1, <3>2, FrameSightings
  <2>5. ASSUME NEW c \in Containers, SkipWaiting(c)
        PROVE  Histories(d)' /\ SeenDownAfterUp(d)'
    <3>1. /\ attempts' = attempts /\ lastRestart' = lastRestart
          /\ hourWindow' = hourWindow /\ pc = "walk" /\ pc' = "walk"
          /\ lastUp' = lastUp /\ evalAt' = evalAt /\ NoteDown(c)
      BY <2>5 DEF SkipWaiting, Reach, ghost
    <3>2. Histories(d)'
      BY <1>1, <2>0, <3>1, FrameHistories
    <3> QED
      BY <2>0, <3>1, <3>2, NoteDownSightings DEF Walking
  <2>6. ASSUME NEW c \in Containers, SkipCapped(c)
        PROVE  Histories(d)' /\ SeenDownAfterUp(d)'
    <3>1. /\ attempts' = attempts /\ lastRestart' = lastRestart
          /\ pc = "walk" /\ pc' = "walk"
          /\ lastUp' = lastUp /\ evalAt' = evalAt /\ NoteDown(c)
      BY <2>6 DEF SkipCapped, Reach, ghost
    <3>2. PICK k \in 0..Len(hourWindow[c]) : Prune(c, k)
      BY <2>6 DEF SkipCapped
    <3>3. Histories(d)'
      BY <2>0, <3>1, <3>2, PruneHistories
    <3> QED
      BY <2>0, <3>1, <3>3, NoteDownSightings DEF Walking
  <2>7. ASSUME NEW c \in Containers, Issue(c)
        PROVE  Histories(d)' /\ SeenDownAfterUp(d)'
    <3>1. /\ pc = "walk" /\ pc' = "restart"
          /\ lastUp' = lastUp /\ evalAt' = evalAt /\ NoteDown(c)
      BY <2>7 DEF Issue, Reach
    <3>2. Histories(d)'
      BY <2>0, <2>7, IssueHistories
    <3> QED
      BY <2>0, <3>1, <3>2, NoteDownSightings DEF Walking
  <2> QED
    BY <2>1, <2>2, <2>3, <2>4, <2>5, <2>6, <2>7 DEF Next
<1> QED
  BY <1>5, <1>6, <1>7

(***************************************************************************)
(* The memory of the restarter agrees with the history of its attempts, in *)
(* every state of every behaviour (restarter.py, 37-46, 55-58, 66, 77-79). *)
(* With TypeOK it is inductive as it stands.                               *)
(***************************************************************************)
THEOREM MemoryCorrect == Spec => []MemoryMatchesHistory
<1>1. TypeOK /\ MemoryMatchesHistory /\ [Next]_vars => (TypeOK /\ MemoryMatchesHistory)'
  BY NextTypeOK, NextMemory
<1> QED
  BY <1>1, InitTypeOK, InitMemory, PTL DEF Spec
-----------------------------------------------------------------------------
(***************************************************************************)
(* The restarter implements RestartPolicy, and its gates hold back nothing *)
(* the policy allows: both follow from the agreement of the memory with    *)
(* the history.                                                            *)
(***************************************************************************)

\* What is true of a container when the walk reaches it.
LEMMA AtTheWalk ==
  ASSUME TypeOK, MemoryMatchesHistory, pc = "walk", NEW c \in Containers
  PROVE  /\ evalAt \in Nat /\ evalAt >= BootTime /\ settings \in Setting /\ settings.enabled
         /\ settings.delay \in Nat /\ settings.cooldown \in Nat /\ settings.cap \in Nat
         /\ attempts[c] \in Seq(Nat) /\ Len(attempts[c]) \in Nat
         /\ lastUp[c] \in Nat /\ FirstSeen(c) \in Nat /\ lastUp[c] <= FirstSeen(c)
         /\ lastRestart[c] \in Nat
         /\ attempts[c] = << >> => lastRestart[c] = 0
         /\ attempts[c] # << >> => lastRestart[c] = attempts[c][Len(attempts[c])]
         /\ WindowIsTail(c)
<1>1. /\ Walking /\ Horizon = evalAt /\ Known(c) = Len(attempts[c])
  BY DEF Walking, Horizon, Known
<1>2. evalAt \in BootTime..clock /\ settings.enabled
  BY <1>1 DEF MemoryMatchesHistory
<1>3. settings \in Setting
  BY ConstantsAssumption DEF TypeOK
<1>4. attempts[c] \in Seq(Nat) /\ lastUp[c] \in Nat /\ lastRestart[c] \in Nat
      /\ seenDown[c] \in Nat \cup {None} /\ evalAt \in Nat
  BY DEF TypeOK
<1>5. SeenDownAfterUp(c) /\ LastIsLatest(c) /\ WindowIsTail(c)
  BY DEF MemoryMatchesHistory
<1>6. FirstSeen(c) \in Nat /\ lastUp[c] <= FirstSeen(c)
  BY <1>1, <1>4, <1>5 DEF FirstSeen, SeenDownAfterUp
<1>7. /\ Len(attempts[c]) \in Nat
      /\ attempts[c] = << >> <=> Len(attempts[c]) = 0
  BY <1>4
<1>8. evalAt >= BootTime
  BY <1>2, <1>4, ConstantsAssumption DEF TypeOK
<1> QED
  BY <1>1, <1>2, <1>3, <1>4, <1>5, <1>6, <1>7, <1>8 DEF LastIsLatest, Setting

\* Passing the cap test means that the history is below the cap.
LEMMA CapTestSound ==
  ASSUME TypeOK, MemoryMatchesHistory, pc = "walk", NEW c \in Containers,
         NEW k \in 0..Len(hourWindow[c]), Prune(c, k),
         Len(hourWindow[c]) - k < settings.cap
  PROVE  Policy!BelowCap(attempts[c], evalAt)
<1> DEFINE h == attempts[c]
           n == Len(attempts[c])
           m == Len(hourWindow'[c])
           cap == settings.cap
<1>1. /\ n \in Nat /\ cap \in Nat /\ evalAt \in Nat /\ Hour \in Nat
      /\ h \in Seq(Nat)
  BY AtTheWalk, ConstantsAssumption
<1>2. m \in Nat /\ m < cap
  <2>1. hourWindow' \in [Containers -> Seq(Nat)] /\ m = Len(hourWindow[c]) - k
    BY PruneWindow
  <2>2. hourWindow'[c] \in Seq(Nat)
    BY <2>1
  <2> QED
    BY <2>1, <2>2
<1>3. n - m >= 0 /\ \A j \in 1..(n - m) : h[j] < evalAt - Hour
  BY AtTheWalk, PruneKeepsTail
<1>4. \A j \in 1..n : h[j] \in Nat
  BY <1>1
<1> HIDE DEF h, n, m, cap
<1>5. cap > 0
  BY <1>1, <1>2
<1>6. ASSUME n >= cap PROVE evalAt - h[n - cap + 1] > Hour
  <2>1. n - cap + 1 \in 1..(n - m) /\ n - cap + 1 \in 1..n
    BY <1>1, <1>2, <1>3, <1>5, <1>6
  <2>2. h[n - cap + 1] < evalAt - Hour /\ h[n - cap + 1] \in Nat
    BY <1>3, <1>4, <2>1
  <2> QED
    BY <1>1, <2>2
<1> QED
  BY <1>5, <1>6 DEF Policy!BelowCap, h, n, cap

\* Failing the cap test means that the history is at the cap.
LEMMA CapTestComplete ==
  ASSUME TypeOK, MemoryMatchesHistory, pc = "walk", NEW c \in Containers,
         NEW k \in 0..Len(hourWindow[c]), Prune(c, k),
         Len(hourWindow[c]) - k >= settings.cap
  PROVE  ~Policy!BelowCap(attempts[c], evalAt)
<1> DEFINE h == attempts[c]
           w == hourWindow[c]
           n == Len(attempts[c])
           m == Len(hourWindow[c])
           cap == settings.cap
<1>1. /\ n \in Nat /\ cap \in Nat /\ evalAt \in Nat /\ Hour \in Nat
      /\ h \in Seq(Nat)
  BY AtTheWalk, ConstantsAssumption
<1>2. m \in Nat
  <2>1. w \in Seq(Nat)
    BY DEF TypeOK
  <2> QED
    BY <2>1
<1>3. n - m >= 0 /\ \A j \in 1..m : w[j] = h[n - m + j]
  <2>1. Known(c) = n
    BY DEF Known
  <2> QED
    BY <2>1, AtTheWalk DEF WindowIsTail
<1>4. k < m => w[k + 1] >= evalAt - Hour
  BY PruneWindow
<1>5. \A i, j \in 1..n : i <= j => h[i] <= h[j]
  BY <1>1 DEF MemoryMatchesHistory, HistoryInOrder
<1>6. \A j \in 1..n : h[j] \in Nat
  BY <1>1
<1>7. k \in 0..m /\ m - k >= cap
  OBVIOUS
<1> HIDE DEF h, w, n, m, cap
<1>8. ASSUME cap > 0 PROVE n >= cap /\ ~(evalAt - h[n - cap + 1] > Hour)
  <2>1. k + 1 \in 1..m /\ n >= cap
    BY <1>1, <1>2, <1>3, <1>7, <1>8
  <2>2. /\ n - m + (k + 1) \in 1..n /\ n - cap + 1 \in 1..n
        /\ n - m + (k + 1) <= n - cap + 1
    BY <1>1, <1>2, <1>3, <1>7, <1>8
  <2>3. w[k + 1] = h[n - m + (k + 1)] /\ w[k + 1] >= evalAt - Hour
    BY <1>2, <1>3, <1>4, <1>7, <2>1
  <2>4. /\ h[n - m + (k + 1)] <= h[n - cap + 1]
        /\ h[n - m + (k + 1)] \in Nat /\ h[n - cap + 1] \in Nat
    BY <1>5, <1>6, <2>2
  <2> QED
    BY <1>1, <2>1, <2>3, <2>4
<1> QED
  BY <1>1, <1>8 DEF Policy!BelowCap, h, n, cap

-----------------------------------------------------------------------------
\* The refinement.

LEMMA IssueIsRestart ==
  ASSUME TypeOK, MemoryMatchesHistory, NEW c \in Containers, Issue(c)
  PROVE  Policy!Restart(c, evalAt)
<1>1. /\ pc = "walk" /\ c \notin settings.protected /\ Waited(c) /\ Cooled(c)
      /\ attempts' = [attempts EXCEPT ![c] = Append(@, evalAt)]
      /\ UNCHANGED << settings, lastUp >>
  BY DEF Issue, Reach
<1>2. PICK k \in 0..Len(hourWindow[c]) :
          Prune(c, k) /\ Len(hourWindow[c]) - k < settings.cap
  BY DEF Issue
<1>3. Policy!BelowCap(attempts[c], evalAt)
  BY <1>1, <1>2, CapTestSound
<1>4. /\ evalAt \in Nat /\ settings.enabled
      /\ settings.delay \in Nat /\ settings.cooldown \in Nat
      /\ lastUp[c] \in Nat /\ FirstSeen(c) \in Nat /\ lastUp[c] <= FirstSeen(c)
      /\ attempts[c] # << >> => lastRestart[c] = attempts[c][Len(attempts[c])]
  BY <1>1, AtTheWalk
<1>5. Policy!DelayOver(c, evalAt)
  BY <1>1, <1>4 DEF Waited, Policy!DelayOver
<1>6. Policy!CooldownOver(attempts[c], evalAt)
  BY <1>1, <1>4 DEF Cooled, Policy!CooldownOver
<1> QED
  BY <1>1, <1>3, <1>4, <1>5, <1>6 DEF Policy!Restart

LEMMA InitRefines == Init => Policy!Init
  BY DEF Init, Policy!Init, Everywhere

LEMMA NextRefines ==
  ASSUME TypeOK, TypeOK', MemoryMatchesHistory, [Next]_vars
  PROVE  [Policy!Next]_Policy!vars
<1>1. CASE \/ Advance \/ EvaluateEnd \/ Restarted \/ PersistOk \/ PersistFails
           \/ \E c \in Containers :
                 \/ GoesDown(c) \/ ComesUp(c) \/ SkipProtected(c) \/ SkipWaiting(c)
                 \/ SkipCapped(c)
           \/ UNCHANGED vars
  BY <1>1 DEF Advance, EvaluateEnd, Restarted, PersistOk, PersistFails, GoesDown,
     ComesUp, SkipProtected, SkipWaiting, SkipCapped, ghost, vars, Policy!vars
<1>2. CASE \E listed \in SUBSET Containers : List(listed)
  BY <1>2 DEF List, ghost, TypeOK, Policy!Bind, Policy!Next
<1>3. CASE Reboot
  BY <1>3 DEF Reboot, Everywhere, Policy!Forget, Policy!Next
<1>4. CASE EvaluateDisabled \/ EvaluateStart
  <2>1. clock \in BootTime..MaxTime /\ healthy \in SUBSET Containers
    BY DEF TypeOK
  <2>2. \A c \in Containers : lastUp[c] <= clock
    <3>1. Horizon = clock
      BY <1>4 DEF EvaluateDisabled, EvaluateStart, Horizon, Walking
    <3> QED
      BY <3>1 DEF MemoryMatchesHistory, SeenDownAfterUp
  <2>3. Policy!NoteHealthy(healthy, clock)
    BY <1>4, <2>2 DEF EvaluateDisabled, EvaluateStart, NoteHealthy, Policy!NoteHealthy
  <2> QED
    BY <2>1, <2>3 DEF Policy!Next
<1>5. ASSUME NEW c \in Containers, Issue(c) PROVE Policy!Next
  <2>1. evalAt \in BootTime..MaxTime
    <3>1. evalAt \in BootTime..clock /\ clock \in BootTime..MaxTime
      BY <1>5 DEF MemoryMatchesHistory, Walking, Issue, Reach, TypeOK
    <3> QED
      BY <3>1, ConstantsAssumption
  <2>2. Policy!Restart(c, evalAt)
    BY <1>5, IssueIsRestart
  <2> QED
    BY <2>1, <2>2 DEF Policy!Next
<1> QED
  BY <1>1, <1>2, <1>3, <1>4, <1>5 DEF Next

(***************************************************************************)
(* Every restart of the loop obeys the policy on the complete history of   *)
(* this process's attempts, whatever fails, whatever a list misses and     *)
(* however the settings change (restarter.py, 48-92).                      *)
(***************************************************************************)
THEOREM RefinesPolicy == Spec => ImplementsPolicy
<1>1. Spec => [](TypeOK /\ MemoryMatchesHistory)
  BY TypeCorrect, MemoryCorrect, PTL
<1>2. TypeOK /\ TypeOK' /\ MemoryMatchesHistory /\ [Next]_vars
         => [Policy!Next]_Policy!vars
  BY NextRefines
<1> QED
  BY <1>1, <1>2, InitRefines, PTL DEF Spec, ImplementsPolicy, Policy!Spec

-----------------------------------------------------------------------------
\* The loop protection, from the policy alone.

LEMMA PolicyProtects ==
  ASSUME TypeOK, LoopProtection, [Policy!Next]_Policy!vars
  PROVE  LoopProtection'
<1> USE DEF LoopProtection, Policy!CooldownHonoured, Policy!CapHonoured
<1>1. CASE attempts' = attempts
  BY <1>1
<1>2. CASE Policy!Forget
  BY <1>2 DEF Policy!Forget
<1>3. ASSUME NEW at \in BootTime..MaxTime, NEW c \in Containers, Policy!Restart(c, at)
      PROVE  LoopProtection'
  <2> DEFINE h == attempts[c]
             g == attempts'[c]
             n == Len(attempts[c])
  <2>1. /\ h \in Seq(Nat) /\ attempts' = [attempts EXCEPT ![c] = Append(h, at)]
        /\ settings \in Settings
    BY <1>3 DEF TypeOK, Policy!Restart
  <2>2. /\ n \in Nat /\ at \in Int
        /\ settings.cooldown \in Nat /\ settings.cap \in Nat
    BY <2>1, ConstantsAssumption DEF Setting
  <2>3. /\ g = Append(h, at)
        /\ \A d \in Containers : d # c => attempts'[d] = attempts[d]
    BY <2>1 DEF TypeOK
  <2>4. /\ DOMAIN g = 1..(n + 1) /\ DOMAIN h = 1..n
        /\ g[n + 1] = at /\ \A i \in 1..n : g[i] = h[i]
        /\ h # << >> <=> n > 0
    BY <2>1, <2>3
  <2>5. /\ n > 0 => at - h[n] >= settings.cooldown
        /\ settings.cap > 0
        /\ n >= settings.cap => at - h[n - settings.cap + 1] > Hour
    BY <1>3, <2>4 DEF Policy!Restart, Policy!CooldownOver, Policy!BelowCap
  <2>6. \A i \in 1..n :
           /\ i > 1 => \E s \in Settings : h[i] - h[i - 1] >= s.cooldown
           /\ \E s \in Settings : s.cap > 0 /\ (i > s.cap => h[i] - h[i - s.cap] > Hour)
    BY <2>4
  <2>7. \A s \in Settings : s.cap \in Nat
    BY ConstantsAssumption DEF Setting
  <2> HIDE DEF h, g, n
  <2>8. ASSUME NEW i \in 1..n
        PROVE  /\ i > 1 => \E s \in Settings : g[i] - g[i - 1] >= s.cooldown
               /\ \E s \in Settings : s.cap > 0 /\ (i > s.cap => g[i] - g[i - s.cap] > Hour)
    <3>1. g[i] = h[i] /\ (i > 1 => g[i - 1] = h[i - 1])
      BY <2>2, <2>4
    <3>2. PICK s \in Settings : s.cap > 0 /\ (i > s.cap => h[i] - h[i - s.cap] > Hour)
      BY <2>6
    <3>3. i > s.cap => i - s.cap \in 1..n
      BY <2>2, <2>7, <3>2
    <3> QED
      BY <2>4, <2>6, <3>1, <3>2, <3>3
  <2>9. /\ n + 1 > 1 => g[n + 1] - g[(n + 1) - 1] >= settings.cooldown
        /\ settings.cap > 0
        /\ n + 1 > settings.cap => g[n + 1] - g[(n + 1) - settings.cap] > Hour
    <3>1. n > 0 => g[(n + 1) - 1] = h[n]
      BY <2>2, <2>4
    <3>2. n >= settings.cap =>
             /\ n - settings.cap + 1 \in 1..n
             /\ (n + 1) - settings.cap = n - settings.cap + 1
      BY <2>2, <2>5
    <3> QED
      BY <2>2, <2>4, <2>5, <3>1, <3>2
  <2>10. \A i \in DOMAIN g :
            /\ i > 1 => \E s \in Settings : g[i] - g[i - 1] >= s.cooldown
            /\ \E s \in Settings : s.cap > 0 /\ (i > s.cap => g[i] - g[i - s.cap] > Hour)
    <3> SUFFICES ASSUME NEW i \in DOMAIN g
                 PROVE  /\ i > 1 => \E s \in Settings : g[i] - g[i - 1] >= s.cooldown
                        /\ \E s \in Settings :
                              s.cap > 0 /\ (i > s.cap => g[i] - g[i - s.cap] > Hour)
      OBVIOUS
    <3>1. i \in 1..n \/ i = n + 1
      BY <2>2, <2>4
    <3>2. CASE i \in 1..n
      BY <2>8, <3>2
    <3>3. CASE i = n + 1
      <4>1. /\ i > 1 => g[i] - g[i - 1] >= settings.cooldown
            /\ settings.cap > 0
            /\ i > settings.cap => g[i] - g[i - settings.cap] > Hour
        BY <2>9, <3>3, Zenon
      <4> QED
        BY <2>1, <4>1
    <3> QED
      BY <3>1, <3>2, <3>3
  <2> QED
    BY <2>3, <2>10 DEF g
<1> QED
  BY <1>1, <1>2, <1>3 DEF Policy!Next, Policy!Bind, Policy!NoteHealthy, Policy!vars

(***************************************************************************)
(* Cooldown and cap hold of the complete history of the process, at every  *)
(* step (restarter.py, 9-10 and 69-79).                                    *)
(***************************************************************************)
THEOREM Protected == Spec => []LoopProtection
<1>1. Spec => [](TypeOK /\ MemoryMatchesHistory)
  BY TypeCorrect, MemoryCorrect, PTL
<1>2. Init => LoopProtection
  BY DEF Init, Everywhere, LoopProtection, Policy!CooldownHonoured, Policy!CapHonoured
<1>3. TypeOK /\ TypeOK' /\ MemoryMatchesHistory /\ LoopProtection /\ [Next]_vars
         => LoopProtection'
  BY NextRefines, PolicyProtects
<1> QED
  BY <1>1, <1>2, <1>3, PTL DEF Spec

-----------------------------------------------------------------------------
\* Nothing is withheld.

Withheld(c) ==
    /\ PassedOver(c)
    /\ c \notin settings.protected
    /\ Waited(c)
    /\ Policy!CooldownOver(attempts[c], evalAt)
    /\ Policy!BelowCap(attempts[c], evalAt)

LEMMA NothingWithheld ==
  ASSUME TypeOK, MemoryMatchesHistory, [Next]_vars, NEW c \in Containers
  PROVE  ~Withheld(c)
<1> SUFFICES ASSUME Withheld(c) PROVE FALSE
  OBVIOUS
<1>1. /\ pc = "walk" /\ pc' = "walk" /\ c \in todo /\ c \notin todo'
      /\ c \notin settings.protected /\ Waited(c)
      /\ Policy!CooldownOver(attempts[c], evalAt)
      /\ Policy!BelowCap(attempts[c], evalAt)
  BY DEF Withheld, PassedOver
<1>2. SkipProtected(c) \/ SkipWaiting(c) \/ SkipCapped(c)
  BY <1>1 DEF Next, Advance, Reboot, EvaluateDisabled, EvaluateStart, EvaluateEnd,
     Restarted, PersistOk, PersistFails, List, GoesDown, ComesUp, SkipProtected,
     SkipWaiting, SkipCapped, Issue, Reach, vars, list
<1>3. CASE SkipProtected(c)
  BY <1>1, <1>3 DEF SkipProtected
<1>4. CASE SkipWaiting(c)
  <2>1. ~Cooled(c)
    BY <1>1, <1>4 DEF SkipWaiting
  <2>2. /\ evalAt \in Nat /\ evalAt >= BootTime /\ lastRestart[c] \in Nat
        /\ settings.cooldown \in Nat
        /\ attempts[c] = << >> => lastRestart[c] = 0
        /\ attempts[c] # << >> => lastRestart[c] = attempts[c][Len(attempts[c])]
    BY <1>1, AtTheWalk
  <2>3. evalAt - lastRestart[c] < settings.cooldown
    BY <2>1, <2>2 DEF Cooled
  <2>4. settings.cooldown <= BootTime /\ BootTime \in Nat
    BY ConstantsAssumption DEF TypeOK
  <2>5. CASE attempts[c] = << >>
    BY <2>2, <2>3, <2>4, <2>5
  <2>6. CASE attempts[c] # << >>
    BY <1>1, <2>2, <2>3, <2>6 DEF Policy!CooldownOver
  <2> QED
    BY <2>5, <2>6
<1>5. CASE SkipCapped(c)
  <2>1. PICK k \in 0..Len(hourWindow[c]) :
            Prune(c, k) /\ Len(hourWindow[c]) - k >= settings.cap
    BY <1>5 DEF SkipCapped
  <2> QED
    BY <1>1, <2>1, CapTestComplete
<1> QED
  BY <1>2, <1>3, <1>4, <1>5

(***************************************************************************)
(* The loop passes over a failed container only when it is protected, has  *)
(* not waited, or the complete history forbids a restart now               *)
(* (restarter.py, 60-74).                                                  *)
(***************************************************************************)
THEOREM WithholdsNothing == Spec => NoRestartWithheld
<1> DEFINE Step == \A c \in Containers :
          PassedOver(c) =>
              \/ c \in settings.protected
              \/ ~Waited(c)
              \/ ~Policy!CooldownOver(attempts[c], evalAt)
              \/ ~Policy!BelowCap(attempts[c], evalAt)
<1>1. Spec => [](TypeOK /\ MemoryMatchesHistory)
  BY TypeCorrect, MemoryCorrect, PTL
<1>2. TypeOK /\ MemoryMatchesHistory /\ [Next]_vars => [Step]_vars
  BY NothingWithheld DEF Withheld
<1> QED
  BY <1>1, <1>2, PTL DEF Spec, NoRestartWithheld
=============================================================================
