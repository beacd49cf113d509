-------------------------------- MODULE MCDocker --------------------------------
(* Two calls beside the tick: commands that fill the pool, actions of each    *)
(* route, a file for the process's own container.                             *)
EXTENDS Docker

CONSTANTS a, b

Wants(op, via, force, own) == [op |-> op, via |-> via, force |-> force, own |-> own]

Act(via, force) == Wants("act", via, force, FALSE)
Command(force)  == Wants("exec", "api", force, FALSE)

Both(first, second) == [c \in {a, b} |-> IF c = a THEN first ELSE second]

Refused == Wants("put", "api", TRUE, TRUE)

\* Two threads race for the client; two commands can hold a pool of one.
MCLoads ==
    [pool : {2}, wants : {Both(Act("ui", FALSE), Act("loop", FALSE)),
                          Both(Act("hook", FALSE), Refused),
                          Both(Act("api", TRUE), Refused),
                          Both(Wants("get", "api", FALSE, FALSE), Refused)}]
    \cup [pool : {1}, wants : {Both(Command(FALSE), Command(TRUE))}]

\* One list or the other: the settings a single read sees always stop the container.
MCBindings == {{"denylist"}, {"allowlist"}}
=============================================================================
