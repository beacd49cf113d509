--------------------------------- MODULE Triage ---------------------------------
(***************************************************************************)
(* Triage of an alert and of a question (app/services/jev_triage.py): what *)
(* the model Jev is told, and what is made of its answer, which may be     *)
(* anything.  Confidences are percents.                                    *)
(***************************************************************************)
EXTENDS Integers, Sequences

CONSTANTS GoodNames,    \* the names that fit the pattern of a container's name
          NoReading     \* no CPU reading

ConfidenceMin == 60

Causes  == {"single_container", "host_cpu", "host_memory", "disk", "container_down", "unclear"}
Actions == {"watch", "read_logs", "restart_after_confirm", "check_disk", "human"}
Intents == {"status", "cpu", "memory", "alerts", "logs", "help", "unknown"}

CleanName(name) == IF name \in GoodNames THEN name ELSE ""

\* The containers that use the CPU most: the first of several that use the same.
TopCpu(containers) ==
    LET using == {c \in containers : c.cpu # NoReading /\ c.cpu # 0}
    IN  {c.name : c \in {d \in using : \A e \in using : e.cpu <= d.cpu}}

\* The first of the request's own consumers, of five, that has a good name.
OwnTop(top) ==
    LET own == SelectSeq(SubSeq(top, 1, IF Len(top) < 5 THEN Len(top) ELSE 5), LAMBDA n : CleanName(n) # "")
    IN  IF own = << >> THEN {} ELSE {Head(own)}

\* build_triage_state: the request's own word, and where it has none the snapshot's.
TriageState(body, containers) ==
    [service |-> CleanName(body.service),
     top |-> IF OwnTop(body.top) # {} THEN OwnTop(body.top) ELSE TopCpu(containers)]

\* A mutant of Sure: the action's confidence is taken for the cause's.
SureOfAction(answer) == answer.cause \in Causes \ {"unclear"} /\ answer.actionConfidence >= ConfidenceMin

\* The answer names a cause and is sure enough of it.
Sure(answer) == answer.cause \in Causes \ {"unclear"} /\ answer.confidence >= ConfidenceMin

\* The action an answer names, known or not.
Advised(answer) == IF answer.action \in Actions THEN answer.action ELSE "human"

\* decide_triage, with target the service or the name of the top consumer.
Decision(state, answer, target) ==
    [cause |-> IF answer.cause \in Causes THEN answer.cause ELSE "unclear",
     action |-> IF Sure(answer) THEN Advised(answer) ELSE "human",
     review |-> ~Sure(answer) \/ Advised(answer) \in {"restart_after_confirm", "human"} \/ answer.human,
     target |-> target]

Targets(state) ==
    IF state.service # "" THEN {state.service} ELSE IF state.top # {} THEN state.top ELSE {""}

\* container_names: the request's list if it has one, or else the snapshot's (the
\* first forty; these are fewer).
Offered(body, containers) ==
    {CleanName(n) : n \in IF body.listed THEN body.containers ELSE {c.name : c \in containers}} \ {""}

Endpoint(intent) ==
    CASE intent \in {"status", "cpu", "memory"} -> << "snapshot" >>
      [] intent = "alerts" -> << "alerts" >>
      [] OTHER -> << >>

\* A mutant of Named: whatever the answer names.
NamedAnything(answer, names) == answer.container

\* The container an answer names: one of those offered.
Named(answer, names) == IF answer.container \in names THEN answer.container ELSE "none"

\* decide_intent
Route(answer, names) ==
    LET unsure == answer.confidence < ConfidenceMin
        intent == IF answer.intent \in Intents /\ ~unsure THEN answer.intent ELSE "unknown"
        container == IF unsure THEN "none" ELSE Named(answer, names)
    IN  [intent |-> intent, container |-> container,
         endpoint |-> IF intent = "logs" /\ container # "none" THEN << "logs", container >> ELSE Endpoint(intent),
         review |-> intent = "unknown"]
=============================================================================
