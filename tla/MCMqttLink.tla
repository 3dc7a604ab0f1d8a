----------------------------- MODULE MCMqttLink -----------------------------
(* An instance of MqttLink for TLC.  Each drop, rejection and slow handshake *)
(* costs main one more handle, and each slow one may later take the session *)
(* away once more.                                                          *)
EXTENDS MqttLink

LinkBudget == [e \in Events |-> 1]
=============================================================================
