---------------------------- MODULE ChannelProofs ----------------------------
(***************************************************************************)
(* What a Channel gives its users, for any number of lines and messages:   *)
(* with the refinement in MsgQueueProofs it holds of the message queues.   *)
(***************************************************************************)
EXTENDS Channel, SequenceTheorems, TLAPS

\* One line: everything waiting was sent after what was received last.
OrderAt(k) ==
  /\ last[k] <= sent[k]
  /\ \A i \in 1..Len(buffer[k]) : last[k] < buffer[k][i] /\ buffer[k][i] <= sent[k]
  /\ \A i, j \in 1..Len(buffer[k]) : i < j => buffer[k][i] < buffer[k][j]

IInv == TypeOK /\ InOrder

LEMMA InitInv == Init => IInv
BY DEF Init, IInv, TypeOK, InOrder

LEMMA Typed == TypeOK /\ [Next]_vars => TypeOK'
<1> SUFFICES ASSUME TypeOK, [Next]_vars PROVE TypeOK'
  OBVIOUS
<1> USE DEF TypeOK
<1>1. CASE UNCHANGED vars BY <1>1 DEF vars
<1>2. ASSUME NEW k \in Line, Send(k) PROVE TypeOK'
  <2>1. Append(buffer[k], sent[k] + 1) \in Seq(Nat) /\ sent[k] + 1 \in Nat OBVIOUS
  <2>2. QED BY <1>2, <2>1 DEF Send
<1>3. ASSUME NEW k \in Line, Receive(k) PROVE TypeOK'
  <2>1. Tail(buffer[k]) \in Seq(Nat) /\ Head(buffer[k]) \in Nat BY <1>3 DEF Receive
  <2>2. QED BY <1>3, <2>1 DEF Receive
<1>4. ASSUME NEW k \in Line, Purge(k) PROVE TypeOK' BY <1>4 DEF Purge
<1>5. QED BY <1>1, <1>2, <1>3, <1>4 DEF Next

LEMMA SendKeepsOrder ==
  ASSUME TypeOK, NEW k \in Line, OrderAt(k), Send(k) PROVE OrderAt(k)'
<1> DEFINE b == buffer[k]
           t == Append(b, sent[k] + 1)
<1>1. b \in Seq(Nat) /\ sent[k] \in Nat /\ last[k] \in Nat /\ Len(b) \in Nat
  BY DEF TypeOK
<1>2. sent'[k] = sent[k] + 1 /\ last'[k] = last[k] BY DEF Send, TypeOK
<1>3. CASE buffer' = buffer
  <2>1. \A i \in 1..Len(b) : b[i] \in Nat BY <1>1
  <2>2. QED BY <1>1, <1>2, <1>3, <2>1 DEF OrderAt
<1>4. CASE buffer'[k] = t
  <2>1. Len(t) = Len(b) + 1 /\ t[Len(b) + 1] = sent[k] + 1 /\ \A i \in 1..Len(b) : t[i] = b[i]
    BY <1>1
  <2>2. \A i \in 1..Len(b) : b[i] \in Nat /\ last[k] < b[i] /\ b[i] <= sent[k]
    BY <1>1 DEF OrderAt
  <2>3. \A i \in 1..Len(t) : i \in 1..Len(b) \/ i = Len(b) + 1 BY <1>1, <2>1
  <2>4. \A i \in 1..Len(t) : last[k] < t[i] /\ t[i] <= sent[k] + 1
    BY <1>1, <2>1, <2>2, <2>3 DEF OrderAt
  <2>5. ASSUME NEW i \in 1..Len(t), NEW j \in 1..Len(t), i < j PROVE t[i] < t[j]
    <3>1. i \in 1..Len(b) BY <1>1, <2>1, <2>5
    <3>2. CASE j \in 1..Len(b) BY <2>1, <2>5, <3>1, <3>2 DEF OrderAt
    <3>3. CASE j = Len(b) + 1 BY <1>1, <2>1, <2>2, <3>1, <3>3
    <3>4. QED BY <2>3, <3>2, <3>3
  <2>6. last[k] <= sent[k] + 1 BY <1>1 DEF OrderAt
  <2>7. QED BY <1>2, <1>4, <2>4, <2>5, <2>6 DEF OrderAt
<1>5. QED BY <1>3, <1>4 DEF Send, TypeOK

LEMMA ReceiveKeepsOrder ==
  ASSUME TypeOK, NEW k \in Line, OrderAt(k), Receive(k)
  PROVE  OrderAt(k)' /\ last[k] < last'[k]
<1> DEFINE b == buffer[k]
<1>1. b \in Seq(Nat) /\ sent[k] \in Nat /\ last[k] \in Nat /\ Len(b) \in Nat /\ b # <<>>
  BY DEF TypeOK, Receive
<1>2. sent'[k] = sent[k] /\ last'[k] = b[1] /\ buffer'[k] = Tail(b)
  BY <1>1 DEF Receive, TypeOK
<1>3. 1 \in 1..Len(b) /\ Len(Tail(b)) = Len(b) - 1
      /\ \A i \in 1..Len(Tail(b)) : Tail(b)[i] = b[i + 1] /\ i + 1 \in 1..Len(b)
  BY <1>1
<1>4. last[k] < b[1] /\ b[1] <= sent[k] BY <1>3 DEF OrderAt
<1>5. \A i \in 1..Len(Tail(b)) : b[1] < Tail(b)[i] /\ Tail(b)[i] <= sent[k]
  BY <1>1, <1>3 DEF OrderAt
<1>6. ASSUME NEW i \in 1..Len(Tail(b)), NEW j \in 1..Len(Tail(b)), i < j
      PROVE  Tail(b)[i] < Tail(b)[j]
  BY <1>1, <1>3, <1>6 DEF OrderAt
<1>7. QED BY <1>2, <1>4, <1>5, <1>6 DEF OrderAt

LEMMA Inductive == IInv /\ [Next]_vars => IInv'
<1> SUFFICES ASSUME IInv, [Next]_vars PROVE IInv'
  OBVIOUS
<1>1. TypeOK /\ TypeOK' /\ \A k \in Line : OrderAt(k) BY Typed DEF IInv, InOrder, OrderAt
<1>2. CASE UNCHANGED vars BY <1>1, <1>2 DEF vars, IInv, TypeOK, InOrder
<1>3. ASSUME NEW l \in Line, Send(l) \/ Receive(l) \/ Purge(l) PROVE InOrder'
  <2>1. \A k \in Line \ {l} : sent'[k] = sent[k] /\ last'[k] = last[k] /\ buffer'[k] = buffer[k]
    BY <1>1, <1>3 DEF TypeOK, Send, Receive, Purge
  <2>2. \A k \in Line \ {l} : OrderAt(k)' BY <1>1, <2>1 DEF OrderAt
  <2>3. CASE Purge(l)
    <3>1. buffer'[l] = <<>> /\ sent'[l] = sent[l] /\ last'[l] = last[l]
      BY <1>1, <2>3 DEF Purge, TypeOK
    <3>2. OrderAt(l)' BY <1>1, <3>1 DEF OrderAt
    <3>3. QED BY <2>2, <3>2 DEF InOrder, OrderAt
  <2>4. CASE Send(l) \/ Receive(l)
    <3>1. OrderAt(l)' BY <1>1, <2>4, SendKeepsOrder, ReceiveKeepsOrder
    <3>2. QED BY <2>2, <3>1 DEF InOrder, OrderAt
  <2>5. QED BY <1>3, <2>3, <2>4
<1>4. QED BY <1>1, <1>2, <1>3 DEF IInv, Next

\* What waits is in the order it was sent, and newer than what was received.
THEOREM ChannelKeepsOrder == Spec => []InOrder
<1>1. IInv => InOrder BY DEF IInv
<1>2. QED BY <1>1, InitInv, Inductive, PTL DEF Spec

\* msgque_rev: each message received on a line was sent later than the one before,
\* so none is received twice, even in a row, nor after a later one.
THEOREM ChannelReceivesOnce == Spec => ReceivedOnce
<1>1. IInv => \A k \in Line : Receive(k) => last[k] < last'[k]
  <2> SUFFICES ASSUME IInv, NEW k \in Line, Receive(k) PROVE last[k] < last'[k]
    OBVIOUS
  <2>1. TypeOK /\ OrderAt(k) BY DEF IInv, InOrder, OrderAt
  <2>2. QED BY <2>1, ReceiveKeepsOrder
<1>2. QED BY <1>1, InitInv, Inductive, PTL DEF Spec, ReceivedOnce
=============================================================================
