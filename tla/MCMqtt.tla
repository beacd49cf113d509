--------------------------------- MODULE MCMqtt ---------------------------------
(* A small instance of Mqtt for TLC: two brokers, two base topics and the   *)
(* bridge switched off; two clients, of one process or of two.              *)
EXTENDS Mqtt
=============================================================================
