-------------------------------- MODULE Settings --------------------------------
(***************************************************************************)
(* The settings store (app/services/settings_store.py) and its two         *)
(* callers, the settings page (app/routers/pages.py) and the REST API      *)
(* (app/routers/api.py).  A save reads the row of its first key outside    *)
(* any transaction; the write that follows takes SQLite's write lock and   *)
(* keeps it to the commit.  A reader sees what is committed.               *)
(***************************************************************************)
EXTENDS Integers

CONSTANTS Keys,     \* the WRITABLE keys, numbered in the order of SettingsUpdate
          Savers,   \* tasks that save
          Pages,    \* those that are settings pages: they post every key
          Texts,    \* the texts that are posted or stored
          Coerced,  \* by key, what a text means
          Written,  \* by key, the text a value is stored as
          Legal,    \* by key, the values SettingsUpdate lets pass
          Default,  \* by key, the value of the environment, which need not be legal
          Posts,    \* by saver, what it may post: texts for some keys, known or not; a page,
                    \* what is typed, where a flag is what its box says
          Absent, Nobody

ASSUME SettingsAssumption ==
    /\ Keys \subseteq Nat
    /\ Pages \subseteq Savers /\ Nobody \notin Savers /\ Absent \notin Texts
    /\ \A k \in Keys : /\ Written[k][Default[k]] \in Texts
                       /\ \A v \in Legal[k] : Written[k][v] \in Texts /\ Coerced[k][Written[k][v]] = v
    /\ \A s \in Savers : \A post \in Posts[s] : \A k \in DOMAIN post : post[k] \in Texts

VARIABLES
    stored,     \* the rows of setting_overrides
    lock,       \* who holds the write lock
    place,      \* where each save is
    want,       \* the values it saves
    found,      \* the row of its first key, as read
    form,       \* what the page shows
    met         \* the keys that had the value wanted at some time of the save

vars == << stored, lock, place, want, found, form, met >>

LegalValues == UNION {Legal[k] : k \in Keys}

\* What may be read of a key: nothing bounds the value of the environment.
Readable(k) == Legal[k] \cup {Default[k]}

Values == UNION {Readable(k) : k \in Keys}

Nothing == [k \in {} |-> k]

\* A save's values: some keys, each with a value SettingsUpdate lets pass.
Clean == UNION {{f \in [ks -> LegalValues] : \A k \in ks : f[k] \in Legal[k]} : ks \in SUBSET Keys}

First(change) == CHOOSE k \in DOMAIN change : \A j \in DOMAIN change : k <= j

TypeOK ==
    /\ stored \in [Keys -> Texts \cup {Absent}]
    /\ \A k \in Keys : stored[k] = Absent \/ Coerced[k][stored[k]] \in Legal[k]
    /\ lock \in Savers \cup {Nobody}
    /\ place \in [Savers -> {"idle", "reading", "writing", "locked"}]
    /\ want \in [Savers -> Clean]
    /\ found \in [Savers -> Texts \cup {Absent}]
    /\ form \in [Savers -> [Keys -> Values]] /\ \A s \in Savers : \A k \in Keys : form[s][k] \in Readable(k)
    /\ met \in [Savers -> SUBSET Keys]

\* The environment's values and the overrides on top of them.
Value(rows, k) == IF rows[k] = Absent THEN Default[k] ELSE Coerced[k][rows[k]]
Merged == [k \in Keys |-> Value(stored, k)]

Init ==
    /\ stored = [k \in Keys |-> Absent] /\ lock = Nobody
    /\ place = [s \in Savers |-> "idle"] /\ want = [s \in Savers |-> Nothing]
    /\ found = [s \in Savers |-> Absent] /\ form = [s \in Savers |-> Merged]
    /\ met = [s \in Savers |-> {}]

-----------------------------------------------------------------------------
Met(change) == {k \in DOMAIN change : Merged[k] = change[k]}

\* The page is rendered.
Open(s) ==
    /\ s \in Pages /\ place[s] = "idle"
    /\ form' = [form EXCEPT ![s] = Merged]
    /\ UNCHANGED << stored, lock, place, want, found, met >>

\* What is posted: by the page all it shows, with what was typed over it; a value of
\* the environment that is not legal is refused there like one that was typed.
Posted(s, post) ==
    IF s \in Pages
    THEN [k \in Keys |-> IF k \in DOMAIN post THEN post[k] ELSE Written[k][form[s][k]]]
    ELSE post

\* Unknown keys are dropped, texts turned into values.
Cleaned(s, post) ==
    [k \in DOMAIN Posted(s, post) \cap Keys |-> Coerced[k][Posted(s, post)[k]]]

\* One value that is not legal, and nothing is saved.
Reject(s, post) ==
    /\ place[s] = "idle" /\ Cleaned(s, post) \notin Clean
    /\ form' = [form EXCEPT ![s] = Merged]
    /\ UNCHANGED << stored, lock, place, want, found, met >>

\* A mutant of Submit: values are not compared with their bounds.
SubmitAny(s, post) ==
    /\ place[s] = "idle" /\ Cleaned(s, post) # Nothing
    /\ want' = [want EXCEPT ![s] = Cleaned(s, post)]
    /\ met' = [met EXCEPT ![s] = Met(Cleaned(s, post))]
    /\ place' = [place EXCEPT ![s] = "reading"]
    /\ UNCHANGED << stored, lock, found, form >>

Submit(s, post) ==
    /\ place[s] = "idle" /\ Cleaned(s, post) \in Clean \ {Nothing}
    /\ want' = [want EXCEPT ![s] = Cleaned(s, post)]
    /\ met' = [met EXCEPT ![s] = Met(Cleaned(s, post))]
    /\ place' = [place EXCEPT ![s] = "reading"]
    /\ UNCHANGED << stored, lock, found, form >>

\* The first key's row, without a lock.
ReadFirst(s) ==
    /\ place[s] = "reading"
    /\ found' = [found EXCEPT ![s] = stored[First(want[s])]]
    /\ place' = [place EXCEPT ![s] = "writing"]
    /\ UNCHANGED << stored, lock, want, form, met >>

\* An INSERT meets the row another save has inserted since.
Clashes(s) == found[s] = Absent /\ stored[First(want[s])] # Absent

\* The first write waits for the lock.
Lock(s) ==
    /\ place[s] = "writing" /\ lock = Nobody /\ ~Clashes(s)
    /\ lock' = s
    /\ place' = [place EXCEPT ![s] = "locked"]
    /\ UNCHANGED << stored, want, found, form, met >>

\* The save is over and s may save again.
Over(s) ==
    /\ place' = [place EXCEPT ![s] = "idle"]
    /\ want' = [want EXCEPT ![s] = Nothing]
    /\ found' = [found EXCEPT ![s] = Absent]

\* The rows behind the save: the other keys are read under the lock; the first
\* one is not written if it was found as it should be.
Rows(s) ==
    [k \in Keys |->
        IF k \notin DOMAIN want[s] THEN stored[k]
        ELSE IF k = First(want[s]) /\ found[s] = Written[k][want[s][k]] THEN stored[k]
        ELSE Written[k][want[s][k]]]

Saved(s, rows) ==
    /\ stored' = rows
    /\ met' = [t \in Savers |->
                 IF t = s THEN {}
                 ELSE met[t] \cup {k \in DOMAIN want[t] : Value(rows, k) = want[t][k]}]

\* A mutant of Commit: each row is committed on its own, the first one here.
CommitFirst(s) ==
    /\ place[s] = "locked"
    /\ \/ Saved(s, Rows(s))
       \/ Saved(s, [stored EXCEPT ![First(want[s])] = Written[First(want[s])][want[s][First(want[s])]]])
    /\ lock' = Nobody /\ Over(s)
    /\ UNCHANGED form

Commit(s) ==
    /\ place[s] = "locked"
    /\ Saved(s, Rows(s))
    /\ lock' = Nobody /\ Over(s)
    /\ UNCHANGED form

\* A mutant of Fail: a save that fails under the lock leaves it taken.
FailLocked(s) ==
    /\ place[s] \in {"reading", "writing", "locked"}
    /\ Over(s)
    /\ met' = [met EXCEPT ![s] = {}]
    /\ UNCHANGED << stored, form, lock >>

\* The database fails, the lock is not had in time, or the INSERT clashes: the
\* session is rolled back.
Fail(s) ==
    /\ place[s] \in {"reading", "writing", "locked"}
    /\ Over(s)
    /\ lock' = IF lock = s THEN Nobody ELSE lock
    /\ met' = [met EXCEPT ![s] = {}]
    /\ UNCHANGED << stored, form >>

Step(s) == ReadFirst(s) \/ Lock(s) \/ Commit(s) \/ Fail(s)

Next == \E s \in Savers :
    \/ Open(s) \/ Step(s)
    \/ \E post \in Posts[s] : Reject(s, post) \/ Submit(s, post)

Spec == Init /\ [][Next]_vars

\* Every await of a save ends, one way or the other.
SaveRuns(s) == WF_vars(Step(s))

Fairness == \A s \in Savers : SaveRuns(s)

FairSpec == Spec /\ Fairness

-----------------------------------------------------------------------------
(***************************************************************************)
(* Saves that overlap, clash, fail or are refused look to every reader     *)
(* like saves made one after the other, each whole or not at all, and what *)
(* is read of a key is the value of the environment, legal or not, or one  *)
(* that was saved and was legal (settings_store.py:78-136).  Except that a *)
(* save does not write its first key if it found there what it wanted: the *)
(* value of a save in between stays (:114-122).                            *)
(***************************************************************************)
Atomic == INSTANCE AtomicSettings WITH values <- Merged, asked <- want, met <- met

ImplementsAtomic == Atomic!Spec

(***************************************************************************)
(* The settings stay writable: whoever has the write lock gives it up,     *)
(* also a save that fails under it (settings_store.py:112-126).            *)
(***************************************************************************)
StaysWritable == \A s \in Savers : lock = s ~> lock = Nobody
=============================================================================
