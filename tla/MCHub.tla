-------------------------------- MODULE MCHub --------------------------------
(* A small instance of Hub for TLC: two browsers, two filters and three     *)
(* snapshots.                                                               *)
EXTENDS Hub

CONSTANTS s1, s2

MCSockets == {s1, s2}

=============================================================================
