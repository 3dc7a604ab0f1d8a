----------------------------- MODULE Enrolment ------------------------------
(***************************************************************************)
(* What registration promises each device, free of threads and topics: it  *)
(* holds one identity; the identity changes only by a reply that uses up   *)
(* the pending request, or by a restart that falls back to the stored one; *)
(* the stored identity is rewritten only after such a change, and until it *)
(* has been rewritten a restart may find it blank.                         *)
(***************************************************************************)
EXTENDS Integers

CONSTANTS Device, Id, NoId

VARIABLES
  identity,   \* the number the device goes by
  pending,    \* inWhatStatus: 0 no request, 1 to unregister, 2 to register
  durable,    \* the number a restart would find
  saved       \* the last change of identity has been stored

vars == <<identity, pending, durable, saved>>

Name == Id \cup {NoId}

TypeOK ==
  /\ identity \in [Device -> Name] /\ durable \in [Device -> Name]
  /\ pending \in [Device -> {0, 1, 2}] /\ saved \in [Device -> BOOLEAN]

Init ==
  /\ durable \in [Device -> Name] /\ identity = durable
  /\ pending = [d \in Device |-> 0] /\ saved = [d \in Device |-> TRUE]

Request(d) ==
  /\ \E k \in {1, 2} : pending' = [pending EXCEPT ![d] = k]
  /\ UNCHANGED <<identity, durable, saved>>

\* A reply uses up the pending request and leaves the device with number i.
Become(d, k, i) ==
  /\ pending[d] = k
  /\ pending' = [pending EXCEPT ![d] = 0]
  /\ identity' = [identity EXCEPT ![d] = i]
  /\ saved' = [saved EXCEPT ![d] = FALSE]
  /\ UNCHANGED durable

Enroll(d)   == \E i \in Id : Become(d, 2, i)
Withdraw(d) == Become(d, 1, NoId)

Refused(d) ==
  /\ pending[d] # 0
  /\ pending' = [pending EXCEPT ![d] = 0]
  /\ UNCHANGED <<identity, durable, saved>>

Erase(d) ==
  /\ ~saved[d]
  /\ durable' = [durable EXCEPT ![d] = NoId]
  /\ UNCHANGED <<identity, pending, saved>>

Persist(d) ==
  /\ ~saved[d]
  /\ durable' = [durable EXCEPT ![d] = identity[d]]
  /\ saved' = [saved EXCEPT ![d] = TRUE]
  /\ UNCHANGED <<identity, pending>>

Restart(d) ==
  /\ identity' = [identity EXCEPT ![d] = durable[d]]
  /\ pending' = [pending EXCEPT ![d] = 0]
  /\ saved' = [saved EXCEPT ![d] = TRUE]
  /\ UNCHANGED durable

Next == \E d \in Device :
  \/ Request(d) \/ Enroll(d) \/ Withdraw(d) \/ Refused(d)
  \/ Erase(d) \/ Persist(d) \/ Restart(d)

Spec == Init /\ [][Next]_vars

\* Once saved, a restart changes nothing.
RestartSafe == \A d \in Device : saved[d] => durable[d] = identity[d]
=============================================================================
