------------------------------- MODULE MCSettings -------------------------------
(* A page and an API client; a number between 1 and 2, which the environment   *)
(* sets to 9, a flag, and a key that is not writable.                          *)
EXTENDS Settings, TLC

CONSTANTS page, api

MCKeys    == {1, 2}
MCNumbers == {1, 2, 9}
MCPadded  == (" 2 " :> "2")
Kind      == <<"number", "flag">>

Text == INSTANCE SettingsText WITH Numbers <- MCNumbers, Padded <- MCPadded, Bad <- 99

MCTexts   == {"1", "2", " 2 ", "9", "x", "true", "false", "on"}
MCLegal   == <<{1, 2}, {0, 1}>>
MCCoerced == [k \in MCKeys |-> [t \in MCTexts |-> Text!Coerce(Kind[k], t)]]
MCDefault == <<9, 0>>
MCWritten == [k \in MCKeys |-> [v \in MCLegal[k] \cup {MCDefault[k]} |-> Text!AsText(Kind[k], v)]]

\* Legal, padded, out of bounds, no number, and for an unknown key.
MCPosts == [s \in {page, api} |->
    IF s = page THEN {(1 :> "1"), (1 :> " 2 "), (1 :> "x"), (2 :> "on"), (2 :> "false")}
    ELSE {(1 :> "2"), (1 :> "9"), (2 :> "true"), (2 :> "x"), (1 :> "1" @@ 2 :> "on"), (3 :> "1")}]
=============================================================================
