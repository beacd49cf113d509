----------------------------- MODULE SettingsProofs -----------------------------
(***************************************************************************)
(* Settings implements AtomicSettings, for any keys, values, texts and     *)
(* savers: every step of the store is a step of the promise, or a stutter. *)
(* And the store stays writable, if a save with the lock is enabled to go  *)
(* on, which its guard says and this prover cannot see.                    *)
(***************************************************************************)
EXTENDS Settings, TLAPS, WellFoundedInduction

\* The row s wants for its first key.
FirstRow(s) == Written[First(want[s])][want[s][First(want[s])]]

\* What the promise has seen of a save that is under way: every key that is as the
\* save wants it, and the first one if the save has found it so.
SeenMet(s) ==
    /\ place[s] = "idle" <=> want[s] = Nothing
    /\ place[s] = "idle" => met[s] = {}
    /\ met[s] \subseteq DOMAIN want[s]
    /\ \A k \in DOMAIN want[s] : Value(stored, k) = want[s][k] => k \in met[s]
    /\ place[s] \in {"writing", "locked"} /\ found[s] = FirstRow(s) => First(want[s]) \in met[s]

IInv == TypeOK /\ \A s \in Savers : SeenMet(s)

-----------------------------------------------------------------------------
\* The first of some numbered keys is one of them.
LEMMA FirstIn ==
    ASSUME NEW change \in Clean, change # Nothing
    PROVE  First(change) \in DOMAIN change /\ DOMAIN change \subseteq Keys
<1>1. DOMAIN change \subseteq Keys /\ change \in [DOMAIN change -> LegalValues]
  BY DEF Clean
<1>2. DOMAIN change # {}
  BY <1>1 DEF Nothing
<1>3. \E k \in DOMAIN change : \A j \in DOMAIN change : k <= j
  <2>1. DOMAIN change \subseteq Nat
    BY <1>1, SettingsAssumption
  <2> DEFINE Less == {ss \in Nat \X Nat : ss[1] < ss[2]}
  <2>2. IsWellFoundedOn(Less, Nat)
    BY NatLessThanWellFounded DEF OpToRel
  <2>3. PICK k \in DOMAIN change : \A j \in DOMAIN change : ~ (<<j, k>> \in Less)
    <3> HIDE DEF Less
    <3> QED
      BY <1>2, <2>1, <2>2, WFMin
  <2>4. ASSUME NEW j \in DOMAIN change PROVE k <= j
    <3>1. j \in Nat /\ k \in Nat
      BY <2>1
    <3>2. j < k => << j, k >> \in Less
      BY <3>1
    <3> HIDE DEF Less
    <3> QED
      BY <3>1, <3>2, <2>3
  <2> QED
    BY <2>4
<1> QED
  BY <1>1, <1>3 DEF First

\* What is read of legal rows is legal, or the value of the environment.
LEMMA ReadLegal ==
    ASSUME TypeOK
    PROVE  Merged \in [Keys -> Values] /\ \A k \in Keys : Value(stored, k) \in Readable(k) /\ Merged[k] = Value(stored, k)
<1>1. ASSUME NEW k \in Keys PROVE Value(stored, k) \in Readable(k)
  BY <1>1 DEF TypeOK, Value, Readable
<1> QED
  BY <1>1 DEF Merged, Values

LEMMA CleanChange ==
    ASSUME NEW change \in Clean
    PROVE  /\ DOMAIN change \subseteq Keys /\ change = [k \in DOMAIN change |-> change[k]]
           /\ \A k \in DOMAIN change : change[k] \in Legal[k]
BY DEF Clean

LEMMA NothingClean == Nothing \in Clean /\ DOMAIN Nothing = {}
<1>1. Nothing \in [{} -> LegalValues]
  BY DEF Nothing
<1> QED
  BY <1>1 DEF Clean, Nothing

\* The rows a save leaves are legal and give each of its keys the value it wants,
\* except a first key that it found as it wanted it.
LEMMA RowsLegal ==
    ASSUME TypeOK, NEW s \in Savers, want[s] # Nothing
    PROVE  /\ Rows(s) \in [Keys -> Texts \cup {Absent}]
           /\ \A k \in Keys : Rows(s)[k] = Absent \/ Coerced[k][Rows(s)[k]] \in Legal[k]
           /\ \A k \in Keys : Value(Rows(s), k) =
                 IF k \in DOMAIN want[s] /\ ~(k = First(want[s]) /\ found[s] = FirstRow(s))
                 THEN want[s][k] ELSE Value(stored, k)
<1>1. want[s] \in Clean
  BY DEF TypeOK
<1>2. DOMAIN want[s] \subseteq Keys /\ First(want[s]) \in DOMAIN want[s]
  BY <1>1, FirstIn
<1>3. ASSUME NEW k \in DOMAIN want[s]
      PROVE  /\ k \in Keys /\ want[s][k] \in Legal[k] /\ Written[k][want[s][k]] \in Texts
             /\ Written[k][want[s][k]] # Absent
             /\ Coerced[k][Written[k][want[s][k]]] = want[s][k]
  BY <1>1, <1>2, CleanChange, SettingsAssumption
<1>4. ASSUME NEW k \in Keys
      PROVE  /\ Rows(s)[k] \in Texts \cup {Absent}
             /\ Rows(s)[k] = Absent \/ Coerced[k][Rows(s)[k]] \in Legal[k]
             /\ Value(Rows(s), k) =
                 IF k \in DOMAIN want[s] /\ ~(k = First(want[s]) /\ found[s] = FirstRow(s))
                 THEN want[s][k] ELSE Value(stored, k)
  <2>1. CASE k \in DOMAIN want[s] /\ ~(k = First(want[s]) /\ found[s] = FirstRow(s))
    <3>1. Rows(s)[k] = Written[k][want[s][k]]
      BY <1>4, <2>1 DEF Rows, FirstRow
    <3> QED
      BY <3>1, <2>1, <1>3 DEF Value
  <2>2. CASE ~(k \in DOMAIN want[s] /\ ~(k = First(want[s]) /\ found[s] = FirstRow(s)))
    <3>1. Rows(s)[k] = stored[k]
      BY <1>4, <2>2 DEF Rows, FirstRow
    <3> QED
      BY <3>1, <2>2, <1>4 DEF TypeOK, Value
  <2> QED
    BY <2>1, <2>2
<1> QED
  BY <1>4 DEF Rows

-----------------------------------------------------------------------------
LEMMA InitInv == Init => IInv
<1> SUFFICES ASSUME Init PROVE IInv
  OBVIOUS
<1> USE NothingClean
<1>1. \A k \in Keys : Merged[k] = Default[k] /\ Default[k] \in Readable(k)
  BY DEF Init, Merged, Value, Readable
<1>2. Merged \in [Keys -> Values]
  BY <1>1 DEF Merged, Values
<1> QED
  BY <1>1, <1>2, SettingsAssumption DEF Init, IInv, TypeOK, SeenMet

\* What each kind of step keeps.
LEMMA StepInv == IInv /\ [Next]_vars => IInv'
<1> SUFFICES ASSUME IInv, [Next]_vars PROVE IInv'
  OBVIOUS
<1> USE NothingClean
<1>0. TypeOK /\ \A s \in Savers : SeenMet(s)
  BY DEF IInv
<1>1. CASE UNCHANGED vars
  BY <1>0, <1>1 DEF vars, IInv, TypeOK, SeenMet, FirstRow, Value, First
<1>2. ASSUME NEW s \in Savers, Open(s) PROVE IInv'
  <2>1. TypeOK'
    BY <1>0, <1>2, ReadLegal DEF Open, TypeOK
  <2> QED
    BY <1>0, <1>2, <2>1 DEF Open, IInv, SeenMet, FirstRow, Value, First
<1>3. ASSUME NEW s \in Savers, NEW post \in Posts[s], Reject(s, post) PROVE IInv'
  <2>1. TypeOK'
    BY <1>0, <1>3, ReadLegal DEF Reject, TypeOK
  <2> QED
    BY <1>0, <1>3, <2>1 DEF Reject, IInv, SeenMet, FirstRow, Value, First
<1>4. ASSUME NEW s \in Savers, NEW post \in Posts[s], Submit(s, post) PROVE IInv'
  <2> DEFINE change == Cleaned(s, post)
  <2>1. change \in Clean /\ change # Nothing /\ DOMAIN change \subseteq Keys
    BY <1>4, CleanChange DEF Submit
  <2>2. Met(change) \subseteq DOMAIN change
    BY DEF Met
  <2>3. /\ place' = [place EXCEPT ![s] = "reading"] /\ want' = [want EXCEPT ![s] = change]
        /\ met' = [met EXCEPT ![s] = Met(change)] /\ stored' = stored /\ found' = found
        /\ lock' = lock /\ form' = form /\ place[s] = "idle"
    BY <1>4 DEF Submit
  <2> HIDE DEF change
  <2>4. TypeOK'
    BY <1>0, <2>1, <2>2, <2>3 DEF TypeOK
  <2>5. SeenMet(s)'
    <3>1. \A k \in DOMAIN change : Value(stored, k) = change[k] => k \in Met(change)
      BY <2>1, <1>0, ReadLegal DEF Met
    <3> QED
      BY <1>0, <2>1, <2>2, <2>3, <3>1 DEF TypeOK, SeenMet, Value
  <2>6. ASSUME NEW t \in Savers, t # s PROVE SeenMet(t)'
    BY <1>0, <2>3, <2>6 DEF TypeOK, SeenMet, FirstRow, First, Value
  <2> QED
    BY <2>4, <2>5, <2>6 DEF IInv
<1>5. ASSUME NEW s \in Savers, ReadFirst(s) PROVE IInv'
  <2>1. want[s] \in Clean /\ want[s] # Nothing /\ First(want[s]) \in DOMAIN want[s] /\ DOMAIN want[s] \subseteq Keys
    BY <1>0, <1>5, FirstIn DEF ReadFirst, TypeOK, SeenMet
  <2>2. TypeOK'
    BY <1>0, <1>5, <2>1 DEF ReadFirst, TypeOK
  <2>3. SeenMet(s)'
    <3> DEFINE k == First(want[s])
    <3>1. Written[k][want[s][k]] # Absent /\ Coerced[k][Written[k][want[s][k]]] = want[s][k]
      BY <2>1, CleanChange, SettingsAssumption
    <3>2. stored[k] = FirstRow(s) => Value(stored, k) = want[s][k]
      BY <3>1 DEF Value, FirstRow
    <3> QED
      BY <1>0, <1>5, <2>1, <3>2 DEF ReadFirst, TypeOK, SeenMet, Value, FirstRow, First
  <2>4. ASSUME NEW t \in Savers, t # s PROVE SeenMet(t)'
    BY <1>0, <1>5, <2>4 DEF ReadFirst, TypeOK, SeenMet, FirstRow, First, Value
  <2> QED
    BY <2>2, <2>3, <2>4 DEF IInv
<1>6. ASSUME NEW s \in Savers, Lock(s) PROVE IInv'
  <2>1. TypeOK'
    BY <1>0, <1>6 DEF Lock, TypeOK
  <2>2. ASSUME NEW t \in Savers PROVE SeenMet(t)'
    BY <1>0, <1>6 DEF Lock, TypeOK, SeenMet, FirstRow, First, Value
  <2> QED
    BY <2>1, <2>2 DEF IInv
<1>7. ASSUME NEW s \in Savers, Commit(s) PROVE IInv'
  <2>1. want[s] # Nothing
    BY <1>0, <1>7 DEF Commit, SeenMet
  <2>2. TypeOK'
    <3>1. /\ stored' \in [Keys -> Texts \cup {Absent}]
          /\ \A k \in Keys : stored'[k] = Absent \/ Coerced[k][stored'[k]] \in Legal[k]
      BY <1>0, <1>7, <2>1, RowsLegal DEF Commit, Saved
    <3>2. \A t \in Savers : DOMAIN want[t] \subseteq Keys
      BY <1>0, CleanChange DEF TypeOK
    <3>3. met' \in [Savers -> SUBSET Keys]
      BY <1>0, <1>7, <3>2 DEF Commit, Saved, TypeOK
    <3> QED
      BY <1>0, <1>7, <3>1, <3>3 DEF Commit, Over, TypeOK
  <2>3. SeenMet(s)'
    BY <1>0, <1>7 DEF Commit, Saved, Over, TypeOK, SeenMet
  <2>4. ASSUME NEW t \in Savers, t # s PROVE SeenMet(t)'
    BY <1>0, <1>7, <2>4 DEF Commit, Saved, Over, TypeOK, SeenMet, FirstRow, First, Value
  <2> QED
    BY <2>2, <2>3, <2>4 DEF IInv
<1>8. ASSUME NEW s \in Savers, Fail(s) PROVE IInv'
  <2>1. TypeOK'
    BY <1>0, <1>8 DEF Fail, Over, TypeOK
  <2>2. SeenMet(s)'
    BY <1>0, <1>8 DEF Fail, Over, TypeOK, SeenMet
  <2>3. ASSUME NEW t \in Savers, t # s PROVE SeenMet(t)'
    BY <1>0, <1>8, <2>3 DEF Fail, Over, TypeOK, SeenMet, FirstRow, First, Value
  <2> QED
    BY <2>1, <2>2, <2>3 DEF IInv
<1> QED
  BY <1>1, <1>2, <1>3, <1>4, <1>5, <1>6, <1>7, <1>8 DEF Next, Step

\* In every state the store is one of the types, whatever is posted.
THEOREM TypeCorrect == Spec => []TypeOK
<1>1. IInv => TypeOK
  BY DEF IInv
<1> QED
  BY InitInv, StepInv, <1>1, PTL DEF Spec
-----------------------------------------------------------------------------
LEMMA SameNothing == Atomic!Nothing = Nothing /\ Atomic!Changes = Clean
BY DEF Atomic!Nothing, Nothing, Atomic!Changes, Clean, LegalValues

\* A save under way changes the map to what it wants, but for a first key that it
\* found as it wanted it.
LEMMA CommitApplies ==
    ASSUME IInv, NEW s \in Savers, Commit(s)
    PROVE  Atomic!Apply(s)
<1>0. TypeOK /\ SeenMet(s)
  BY DEF IInv
<1>1. want[s] # Nothing
  BY <1>0 DEF Commit, SeenMet
<1> DEFINE kept == IF found[s] = FirstRow(s) THEN {First(want[s])} ELSE {}
<1>2. kept \in SUBSET met[s]
  BY <1>0 DEF Commit, SeenMet
<1>3. Merged' = [k \in Keys |-> Value(Rows(s), k)]
  BY DEF Merged, Value, Commit, Saved
<1>4. Merged' = [k \in Keys |-> IF k \in DOMAIN want[s] \ kept THEN want[s][k] ELSE Merged[k]]
  BY <1>0, <1>1, <1>3, RowsLegal, ReadLegal
<1>5. want' = [want EXCEPT ![s] = Nothing]
  BY DEF Commit, Over
<1>6. ASSUME NEW t \in Savers
      PROVE  met'[t] = IF t = s THEN {} ELSE met[t] \cup Atomic!Met(t)'
  <2>1. met'[t] = IF t = s THEN {} ELSE met[t] \cup {k \in DOMAIN want[t] : Value(Rows(s), k) = want[t][k]}
    BY <1>6 DEF Commit, Saved
  <2>2. CASE t # s
    <3>1. want'[t] = want[t] /\ DOMAIN want[t] \subseteq Keys
      BY <1>0, <1>5, <2>2, CleanChange DEF TypeOK
    <3> QED
      BY <1>3, <2>1, <2>2, <3>1 DEF Atomic!Met
  <2> QED
    BY <2>1, <2>2
<1>7. met' = [t \in Savers |-> IF t = s THEN {} ELSE met[t] \cup Atomic!Met(t)']
  <2>1. met' = [t \in Savers |-> met'[t]]
    BY DEF Commit, Saved
  <2> QED
    BY <1>6, <2>1
<1> HIDE DEF kept
<1> QED
  BY <1>2, <1>4, <1>5, <1>7, SameNothing DEF Atomic!Apply

LEMMA InitAtomic == Init => Atomic!Init
<1> SUFFICES ASSUME Init PROVE Atomic!Init
  OBVIOUS
<1>1. TypeOK
  BY InitInv DEF IInv
<1> QED
  BY <1>1, ReadLegal, SameNothing DEF Init, Values, Readable, Atomic!Readable, Atomic!Init

LEMMA StepAtomic == IInv /\ [Next]_vars => [Atomic!Next]_(Atomic!vars)
<1> SUFFICES ASSUME IInv, [Next]_vars PROVE [Atomic!Next]_(Atomic!vars)
  OBVIOUS
<1>0. TypeOK /\ \A s \in Savers : SeenMet(s)
  BY DEF IInv
<1>1. CASE UNCHANGED vars
  BY <1>1 DEF vars, Merged, Value, Atomic!vars
<1>2. ASSUME NEW s \in Savers,
             Open(s) \/ ReadFirst(s) \/ Lock(s) \/ \E post \in Posts[s] : Reject(s, post)
      PROVE  UNCHANGED Atomic!vars
  BY <1>2 DEF Open, ReadFirst, Lock, Reject, Merged, Value, Atomic!vars
<1>3. ASSUME NEW s \in Savers, NEW post \in Posts[s], Submit(s, post) PROVE Atomic!Ask(s)
  <2> DEFINE change == Cleaned(s, post)
  <2>1. /\ want[s] = Nothing /\ change \in Clean /\ Merged' = Merged
        /\ want' = [want EXCEPT ![s] = change] /\ met' = [met EXCEPT ![s] = Met(change)]
    BY <1>0, <1>3 DEF Submit, SeenMet, Merged, Value
  <2> HIDE DEF change
  <2>2. Met(change) = Atomic!Met(s)'
    BY <1>0, <2>1 DEF Met, Atomic!Met, TypeOK
  <2> QED
    BY <2>1, <2>2, SameNothing DEF Atomic!Ask
<1>4. ASSUME NEW s \in Savers, Fail(s) PROVE Atomic!Refuse(s)
  BY <1>4, SameNothing DEF Fail, Over, Merged, Value, Atomic!Refuse
<1> QED
  BY <1>1, <1>2, <1>3, <1>4, CommitApplies DEF Next, Step, Atomic!Next

\* Saves that overlap, clash or fail look like whole saves one after the other, and a
\* reader gets of each key the value of the environment, whatever that is, or a legal
\* one that was saved, for any number of saves and any keys (settings_store.py:78-136).
THEOREM SavesAreAtomic == Spec => ImplementsAtomic
BY InitInv, StepInv, InitAtomic, StepAtomic, PTL DEF Spec, ImplementsAtomic, Atomic!Spec

-----------------------------------------------------------------------------
\* The write lock is given up.

\* Whoever holds it is at the place behind its first write.
Holds == \A s \in Savers : lock = s => place[s] = "locked"

LEMMA HoldsInv == Spec => [](TypeOK /\ Holds)
<1>1. Init => Holds
  BY SettingsAssumption DEF Init, Holds
<1>2. ASSUME TypeOK, Holds, [Next]_vars PROVE Holds'
  <2> USE <1>2, SettingsAssumption DEF TypeOK, Holds
  <2>1. ASSUME NEW s \in Savers, ReadFirst(s) \/ Lock(s) PROVE Holds'
    BY <2>1 DEF ReadFirst, Lock
  <2>2. ASSUME NEW s \in Savers, Commit(s) \/ Fail(s) PROVE Holds'
    BY <2>2 DEF Commit, Fail, Over
  <2>3. ASSUME NEW s \in Savers, NEW post \in Posts[s], Open(s) \/ Reject(s, post) \/ Submit(s, post)
        PROVE  Holds'
    BY <2>3 DEF Open, Reject, Submit
  <2>4. ASSUME NEW s \in Savers, Open(s) PROVE Holds'
    BY <2>4 DEF Open
  <2>5. CASE UNCHANGED vars
    BY <2>5 DEF vars
  <2> QED
    BY <2>1, <2>2, <2>3, <2>4, <2>5 DEF Next, Step
<1> QED
  BY <1>1, <1>2, TypeCorrect, PTL DEF Spec

\* What the prover cannot see: a save with the lock can commit or fail.
HolderEnabled(s) == [](place[s] = "locked" => ENABLED <<Step(s)>>_vars)

HoldersEnabled == \A s \in Savers : HolderEnabled(s)

\* Only its own step takes the lock from a save.
LEMMA LockedStep ==
  ASSUME NEW s \in Savers, lock = s, TypeOK, Holds, [Next]_vars
  PROVE  (lock' = s \/ lock' = Nobody) /\ (<<Step(s)>>_vars => lock' = Nobody)
<1> USE SettingsAssumption DEF TypeOK, Holds
<1>1. <<Step(s)>>_vars => lock' = Nobody
  BY DEF Step, ReadFirst, Lock, Commit, Fail
<1>2. lock' = s \/ lock' = Nobody
  BY DEF Next, Step, Open, Reject, Submit, ReadFirst, Lock, Commit, Fail, vars
<1> QED
  BY <1>1, <1>2

(***************************************************************************)
(* The settings stay writable: whoever has the write lock gives it up,     *)
(* also a save that fails under it, whatever the others do meanwhile       *)
(* (settings_store.py:112-126).                                            *)
(***************************************************************************)
THEOREM LockIsGivenUp == FairSpec /\ HoldersEnabled => StaysWritable
<1> SUFFICES ASSUME NEW s \in Savers
             PROVE  FairSpec /\ HoldersEnabled => (lock = s ~> lock = Nobody)
  BY DEF StaysWritable
<1> DEFINE Held == lock = s
           Free == lock = Nobody
<1>1. FairSpec /\ HoldersEnabled => Spec /\ SaveRuns(s) /\ HolderEnabled(s)
  BY DEF FairSpec, Fairness, HoldersEnabled
<1>2. Holds /\ Held => place[s] = "locked"
  BY DEF Holds
<1>3. TypeOK /\ Holds /\ Held /\ [Next]_vars => Held' \/ Free'
  BY LockedStep
<1>4. TypeOK /\ Holds /\ Held /\ [Next]_vars /\ <<Step(s)>>_vars => Free'
  BY LockedStep
<1> HIDE DEF Held, Free
<1>5. Spec /\ SaveRuns(s) /\ HolderEnabled(s) => (Held ~> Free)
  BY <1>2, <1>3, <1>4, HoldsInv, PTL DEF Spec, SaveRuns, HolderEnabled
<1> QED
  BY <1>1, <1>5 DEF Held, Free
=============================================================================
