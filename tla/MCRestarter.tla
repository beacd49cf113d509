----------------------------- MODULE MCRestarter -----------------------------
(* A small instance of Restarter for TLC: two containers, four settings the *)
(* operator switches between, and a clock that runs a little more than one  *)
(* "hour".                                                                  *)
EXTENDS Restarter, TLC

CONSTANTS a, b

MCContainers == {a, b}

Strict  == [enabled |-> TRUE,  delay |-> 2, cooldown |-> 2, cap |-> 1, protected |-> {}]
Loose   == [enabled |-> TRUE,  delay |-> 0, cooldown |-> 1, cap |-> 2, protected |-> {}]
Guarded == [enabled |-> TRUE,  delay |-> 0, cooldown |-> 1, cap |-> 2,
            protected |-> MCContainers]
Off     == [enabled |-> FALSE, delay |-> 0, cooldown |-> 1, cap |-> 2, protected |-> {}]

MCSettings == {Strict, Loose, Guarded, Off}

Symmetry == Permutations(MCContainers)
=============================================================================
