------------------------------- MODULE Session -------------------------------
(***************************************************************************)
(* What the registration of devices takes for granted of their MQTT        *)
(* sessions, and what the connection loop over mqtt.c provides: a session  *)
(* starts, without subscriptions, only while its device waits for one; it  *)
(* takes subscriptions as long as it lasts; and a device goes back to      *)
(* waiting only when it has none.                                          *)
(***************************************************************************)
CONSTANTS Client, Topic

VARIABLES
  waiting,   \* main is before the end of its connection loop
  linked,    \* the broker serves the handle the device uses
  subs       \* what that session subscribes to

vars == <<waiting, linked, subs>>

Init ==
  /\ waiting = [c \in Client |-> TRUE] /\ linked = [c \in Client |-> FALSE]
  /\ subs = [c \in Client |-> {}]

Connect(c) ==
  /\ waiting[c] /\ ~linked[c]
  /\ linked' = [linked EXCEPT ![c] = TRUE]
  /\ subs' = [subs EXCEPT ![c] = {}]
  /\ UNCHANGED waiting

\* The session breaks, or is given up, or taken over by an older handle.
Lose(c) ==
  /\ linked' = [linked EXCEPT ![c] = FALSE]
  /\ subs' = [subs EXCEPT ![c] = {}]
  /\ UNCHANGED waiting

Subscribe(c) ==
  /\ linked[c]
  /\ \E t \in Topic : subs' = [subs EXCEPT ![c] = @ \cup {t}]
  /\ UNCHANGED <<waiting, linked>>

Unsubscribe(c) ==
  /\ \E t \in Topic : subs' = [subs EXCEPT ![c] = @ \ {t}]
  /\ UNCHANGED <<waiting, linked>>

\* Main has seen a session, though it may be over already.
GoOn(c) ==
  /\ waiting[c] /\ waiting' = [waiting EXCEPT ![c] = FALSE]
  /\ UNCHANGED <<linked, subs>>

\* Main has seen that there is none.
Retry(c) ==
  /\ ~linked[c] /\ waiting' = [waiting EXCEPT ![c] = TRUE]
  /\ UNCHANGED <<linked, subs>>

\* The process ends and starts anew.
Restart(c) ==
  /\ waiting' = [waiting EXCEPT ![c] = TRUE]
  /\ linked' = [linked EXCEPT ![c] = FALSE]
  /\ subs' = [subs EXCEPT ![c] = {}]

Next == \E c \in Client :
          \/ Connect(c) \/ Lose(c) \/ Subscribe(c) \/ Unsubscribe(c)
          \/ GoOn(c) \/ Retry(c) \/ Restart(c)

Spec == Init /\ [][Next]_vars
=============================================================================
