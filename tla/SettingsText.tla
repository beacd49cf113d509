------------------------------ MODULE SettingsText ------------------------------
(***************************************************************************)
(* How a setting becomes text and text a setting (settings_store.py).      *)
(* Numbers and flags; a flag is 1 or 0.  Texts are given with the blanks   *)
(* around them and without.                                                *)
(***************************************************************************)
EXTENDS Integers, TLC

CONSTANTS Numbers,  \* the numbers that occur
          Padded,   \* the texts with blanks around them, and what they are without
          Bad       \* none of the numbers: int() and float() raise an error

Strip(text) == IF text \in DOMAIN Padded THEN Padded[text] ELSE text

Coerce(kind, text) ==
    IF kind = "flag"
    THEN IF Strip(text) \in {"1", "true", "True", "yes", "on"} THEN 1 ELSE 0
    ELSE IF \E n \in Numbers : ToString(n) = Strip(text)
         THEN CHOOSE n \in Numbers : ToString(n) = Strip(text)
         ELSE Bad

AsText(kind, value) ==
    IF kind = "flag" THEN (IF value = 1 THEN "true" ELSE "false") ELSE ToString(value)
=============================================================================
