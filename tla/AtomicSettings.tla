----------------------------- MODULE AtomicSettings -----------------------------
(***************************************************************************)
(* What the settings store promises: one map, of values of the environment *)
(* and of legal ones saved over them, which a save changes in a single     *)
(* step or not at all.  A save may leave a key alone that had the value it *)
(* asks for at some time since it was asked.                               *)
(***************************************************************************)
CONSTANTS Keys, Savers,
          Legal,    \* by key, the values that may be saved
          Default   \* by key, the value of the environment

VARIABLES values,   \* what a reader gets
          asked,    \* what each save asks for: a function of some of the keys
          met       \* the keys that had the value asked for since

vars == << values, asked, met >>

Changes == UNION {{f \in [ks -> UNION {Legal[k] : k \in Keys}] : \A k \in ks : f[k] \in Legal[k]} : ks \in SUBSET Keys}

\* What a reader may get of a key.
Readable(k) == Legal[k] \cup {Default[k]}

Nothing == [k \in {} |-> k]

Met(s) == {k \in DOMAIN asked[s] : values[k] = asked[s][k]}

Init ==
    /\ values \in [Keys -> UNION {Readable(k) : k \in Keys}]
    /\ \A k \in Keys : values[k] \in Readable(k)
    /\ asked = [s \in Savers |-> Nothing] /\ met = [s \in Savers |-> {}]

Ask(s) ==
    /\ asked[s] = Nothing
    /\ \E change \in Changes : asked' = [asked EXCEPT ![s] = change]
    /\ met' = [met EXCEPT ![s] = Met(s)']
    /\ UNCHANGED values

Apply(s) ==
    /\ \E kept \in SUBSET met[s] :
          values' = [k \in Keys |-> IF k \in DOMAIN asked[s] \ kept THEN asked[s][k] ELSE values[k]]
    /\ asked' = [asked EXCEPT ![s] = Nothing]
    /\ met' = [t \in Savers |-> IF t = s THEN {} ELSE met[t] \cup Met(t)']

Refuse(s) ==
    /\ asked' = [asked EXCEPT ![s] = Nothing]
    /\ met' = [met EXCEPT ![s] = {}]
    /\ UNCHANGED values

Next == \E s \in Savers : Ask(s) \/ Apply(s) \/ Refuse(s)

Spec == Init /\ [][Next]_vars
=============================================================================
