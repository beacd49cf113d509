---------------------------- MODULE RestartPolicy ----------------------------
(***************************************************************************)
(* What the auto-restarter promises, with no mention of how it remembers.  *)
(*                                                                         *)
(* The rules of an automatic restart are conditions on the COMPLETE        *)
(* history of the attempts the running process has made and on the         *)
(* settings in force, so the policy needs no memory of its own.            *)
(* Restarter.tla is the code: three dictionaries, one of them of pruned    *)
(* windows, and a loop that stops at every await.  It is shown to          *)
(* implement this module.                                                  *)
(***************************************************************************)
EXTENDS Integers, Sequences

CONSTANTS Containers,   \* the container names Docker may list
          Settings,     \* the settings an operator may save (a set of records)
          Hour,         \* the length of the rolling window of the cap
          Time          \* the times an attempt or a sighting may be stamped with

VARIABLES settings,     \* the settings in force
          attempts,     \* attempts[c]: when c was restarted, oldest first
          lastUp        \* lastUp[c]: when c was last listed as healthy

vars == << settings, attempts, lastUp >>

\* The container has not been listed as healthy during the last `delay`.
DelayOver(c, at) == at - lastUp[c] >= settings.delay

\* The latest earlier attempt is at least a cooldown old.
CooldownOver(h, at) == h # << >> => at - h[Len(h)] >= settings.cooldown

\* Fewer than `cap` earlier attempts lie inside the hour that ends at `at`: the
\* cap-th latest of them, if there are that many, is already outside.
BelowCap(h, at) ==
    /\ settings.cap > 0
    /\ Len(h) >= settings.cap => at - h[Len(h) - settings.cap + 1] > Hour

-----------------------------------------------------------------------------
Init ==
    /\ settings \in Settings
    /\ attempts = [c \in Containers |-> << >>]
    /\ lastUp = [c \in Containers |-> 0]

\* A container is restarted, inside the rules, and the attempt is stamped `at`.
Restart(c, at) ==
    /\ settings.enabled
    /\ c \notin settings.protected
    /\ DelayOver(c, at)
    /\ CooldownOver(attempts[c], at)
    /\ BelowCap(attempts[c], at)
    /\ attempts' = [attempts EXCEPT ![c] = Append(@, at)]
    /\ UNCHANGED << settings, lastUp >>

\* Between two walks over the containers the operator's settings are bound.
Bind == settings' \in Settings /\ UNCHANGED << attempts, lastUp >>

\* The containers of a list that are healthy are noted as such, at a time no
\* earlier than any noted before.
NoteHealthy(S, at) ==
    /\ \A c \in Containers : lastUp[c] <= at
    /\ lastUp' = [c \in Containers |-> IF c \in S THEN at ELSE lastUp[c]]
    /\ UNCHANGED << settings, attempts >>

\* A new process starts and remembers no attempt.
Forget ==
    /\ attempts' = [c \in Containers |-> << >>]
    /\ settings' \in Settings
    /\ UNCHANGED lastUp

Next ==
    \/ Bind \/ Forget
    \/ \E at \in Time :
          \/ \E S \in SUBSET Containers : NoteHealthy(S, at)
          \/ \E c \in Containers : Restart(c, at)

Spec == Init /\ [][Next]_vars

-----------------------------------------------------------------------------
(***************************************************************************)
(* Two attempts on one container are a cooldown apart that the operator    *)
(* may have saved.                                                         *)
(***************************************************************************)
CooldownHonoured ==
    \A c \in Containers : \A i \in DOMAIN attempts[c] :
        i > 1 => \E s \in Settings : attempts[c][i] - attempts[c][i - 1] >= s.cooldown

(***************************************************************************)
(* No rolling hour holds more attempts on one container than a cap the     *)
(* operator may have saved.                                                *)
(***************************************************************************)
CapHonoured ==
    \A c \in Containers : \A i \in DOMAIN attempts[c] :
        \E s \in Settings :
            /\ s.cap > 0
            /\ i > s.cap => attempts[c][i] - attempts[c][i - s.cap] > Hour
=============================================================================
