------------------------------- MODULE Channel -------------------------------
(***************************************************************************)
(* What the message queues of msgque.c promise: on every line messages     *)
(* arrive in the order they were sent, each at most once, and none that was *)
(* not sent.  A message may be dropped when it is sent, and all waiting     *)
(* ones may be thrown away together.  Messages are counted per line.       *)
(***************************************************************************)
EXTENDS Integers, Sequences

CONSTANT Line

VARIABLES
  sent,     \* messages sent so far
  buffer,   \* the waiting ones, by their number
  last      \* the number of the one received last

vars == <<sent, buffer, last>>

Init ==
  /\ sent = [k \in Line |-> 0] /\ last = [k \in Line |-> 0]
  /\ buffer = [k \in Line |-> <<>>]

Send(k) ==
  /\ sent' = [sent EXCEPT ![k] = @ + 1]
  /\ \/ buffer' = [buffer EXCEPT ![k] = Append(@, sent[k] + 1)]
     \/ UNCHANGED buffer
  /\ UNCHANGED last

Receive(k) ==
  /\ buffer[k] # <<>>
  /\ last' = [last EXCEPT ![k] = Head(buffer[k])]
  /\ buffer' = [buffer EXCEPT ![k] = Tail(@)]
  /\ UNCHANGED sent

Purge(k) == buffer' = [buffer EXCEPT ![k] = <<>>] /\ UNCHANGED <<sent, last>>

Next == \E k \in Line : Send(k) \/ Receive(k) \/ Purge(k)

Spec == Init /\ [][Next]_vars

-----------------------------------------------------------------------------
TypeOK ==
  /\ sent \in [Line -> Nat] /\ last \in [Line -> Nat]
  /\ buffer \in [Line -> Seq(Nat)]

\* The waiting messages of a line are in the order they were sent, all of them
\* sent, and sent after the one received last.
InOrder ==
  \A k \in Line :
    /\ last[k] <= sent[k]
    /\ \A i \in 1..Len(buffer[k]) : last[k] < buffer[k][i] /\ buffer[k][i] <= sent[k]
    /\ \A i, j \in 1..Len(buffer[k]) : i < j => buffer[k][i] < buffer[k][j]

\* What is received on a line was sent after everything received there before: no
\* message is received twice, even in a row, nor after a later one.
ReceivedOnce ==
  [][\A k \in Line : Receive(k) => last[k] < last'[k]]_vars
=============================================================================
