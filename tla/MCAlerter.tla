------------------------------ MODULE MCAlerter ------------------------------
(* A small instance of Alerter for TLC: a warning and a critical alarm, one *)
(* request that fires alarms on its own, and an operator who moves the      *)
(* floor and the cooldown.                                                  *)
EXTENDS Alerter

CONSTANTS warn, crit

MCAlarms == {warn, crit}
MCRank == [a \in MCAlarms |-> IF a = crit THEN 3 ELSE 2]

MCSettings == {[cooldown |-> 2, floor |-> 2], [cooldown |-> 1, floor |-> 3]}
=============================================================================
