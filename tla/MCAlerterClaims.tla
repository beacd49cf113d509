--------------------------- MODULE MCAlerterClaims ---------------------------
(* A claim of the repository about the cooldown of alerts, for TLC.         *)
EXTENDS Alerter

CONSTANTS crit

MCAlarms == {crit}
MCRank == [a \in MCAlarms |-> 3]
MCSettings == {[cooldown |-> 2, floor |-> 2]}

(***************************************************************************)
(* alerter.py, 19: "Dedup: the same fingerprint is silent for              *)
(* ALERT_COOLDOWN_SECONDS": the loop sends no alarm that _last_sent shows  *)
(* inside the cooldown at that moment.                                     *)
(***************************************************************************)
MemoryIsObeyed ==
    [][\A a \in Alarms : LoopSends(a) => ~Cooling(known[a])]_vars
=============================================================================
