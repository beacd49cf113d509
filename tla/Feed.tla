---------------------------------- MODULE Feed ----------------------------------
(***************************************************************************)
(* What the live feed promises, with no broadcast, no connection and no    *)
(* cache: subscribers, each with a filter of its own, and one publication  *)
(* after the other.  Nothing is published before everybody who subscribes  *)
(* has been shown the publication before; what is shown is always the      *)
(* latest, through the filter asked for last; and who has been shown a     *)
(* publication by the feed is not shown it again unless he asks.           *)
(***************************************************************************)
EXTENDS Integers

CONSTANTS Sockets,      \* who may subscribe
          Filters,      \* the filters that may be asked for
          Unfiltered,   \* the one nobody has to ask for
          Numbers       \* the publications, 0 while there is none

VARIABLES published,    \* the number of the latest publication
          subscribers,
          asked,        \* the filter each asked for last
          due,          \* those the feed still has to show the latest publication
          shown         \* what each was shown last

vars == << published, subscribers, asked, due, shown >>

Init ==
    /\ published = 0 /\ subscribers = {} /\ due = {}
    /\ asked = [s \in Sockets |-> Unfiltered]
    /\ shown = [s \in Sockets |-> [number |-> 0, filter |-> Unfiltered]]

\* What there is to show through the filter f; before the first publication, nothing.
ShownThrough(s, f) ==
    IF published = 0 THEN shown
    ELSE [shown EXCEPT ![s] = [number |-> published, filter |-> f]]

\* A newcomer is shown the latest publication at once.
Subscribe(s) ==
    /\ subscribers' = subscribers \cup {s}
    /\ shown' = ShownThrough(s, asked[s])
    /\ UNCHANGED << published, asked, due >>

\* So is who asks for another filter.
Ask(s, f) ==
    /\ asked' = [asked EXCEPT ![s] = f]
    /\ shown' = ShownThrough(s, f)
    /\ UNCHANGED << published, subscribers, due >>

\* The next publication, once everybody has been shown this one.
Publish(number) ==
    /\ number > published
    /\ \A s \in subscribers : shown[s].number = published
    /\ published' = number /\ due' = subscribers
    /\ UNCHANGED << subscribers, asked, shown >>

Show(s) ==
    /\ s \in due /\ due' = due \ {s}
    /\ shown' = [shown EXCEPT ![s] = [number |-> published, filter |-> asked[s]]]
    /\ UNCHANGED << published, subscribers, asked >>

\* Some leave, or are given up by the feed.
Leave(S) ==
    /\ subscribers' = subscribers \ S
    /\ UNCHANGED << published, asked, due, shown >>

Next ==
    \/ \E number \in Numbers : Publish(number)
    \/ \E S \in SUBSET Sockets : Leave(S)
    \/ \E s \in Sockets : \/ Subscribe(s) \/ Show(s)
                          \/ \E f \in Filters : Ask(s, f)

Spec == Init /\ [][Next]_vars
=============================================================================
