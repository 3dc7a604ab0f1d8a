--------------------------- MODULE MsgQueueProofs ---------------------------
(***************************************************************************)
(* Proofs about MsgQueue for any pairing of programs and any bounds: the   *)
(* id a process sends on stays good, no process hears itself, and every    *)
(* direction is a Channel.  They rest on what the kernel's ids give: two   *)
(* keys never share one, and an id that is gone does not come back.        *)
(***************************************************************************)
EXTENDS MsgQueue, SequenceTheorems, TLAPS

USE DEF kernel, threads, None

-----------------------------------------------------------------------------
(* Keys and ends.                                                          *)

LEMMA Keys ==
  /\ Key = {0, 1}
  /\ SendKeyOf("B") = 0 /\ RecvKeyOf("B") = 1
  /\ \A x \in {"foobar", "A"} : SendKeyOf(x) = 1 /\ RecvKeyOf(x) = 0
<1>1. Numbers[1] = 512 /\ Numbers[2] = 513 BY DEF Numbers
<1>2. 512 % 256 = 0 /\ 513 % 256 = 1 OBVIOUS
<1>3. QED BY <1>1, <1>2 DEF Key, msgque_init, SendKeyOf, RecvKeyOf

LEMMA Ends ==
  ASSUME program \in Pairings
  PROVE  /\ \A p \in Process : SendKey(p) \in Key /\ RecvKey(p) \in Key /\ SendKey(p) # RecvKey(p)
         /\ \A p, q \in Process : p # q => SendKey(p) # SendKey(q)
<1>1. program \in [Process -> Program]
      /\ \A p, q \in Process : p # q => (program[p] = "B") # (program[q] = "B")
  BY QueueAssumption
<1>2. \A p \in Process : program[p] \in {"foobar", "A", "B"}
  BY <1>1 DEF Program
<1>3. ASSUME NEW p \in Process
      PROVE  /\ SendKey(p) \in Key /\ RecvKey(p) \in Key /\ SendKey(p) # RecvKey(p)
             /\ SendKey(p) = 0 <=> program[p] = "B"
  BY <1>2, Keys DEF SendKey, RecvKey
<1>4. ASSUME NEW p \in Process, NEW q \in Process, p # q PROVE SendKey(p) # SendKey(q)
  BY <1>1, <1>3, <1>4
<1>5. QED BY <1>3, <1>4

-----------------------------------------------------------------------------
(* The inductive invariant.                                                *)

\* A queue of a key was made, and belongs to that key alone.
Owned ==
  \A k \in Key : queue[k] # None =>
    queue[k] < made /\ \A l \in Key : l # k => queue[l] # queue[k]

\* Ids to come hold nothing.
Fresh == \A i \in Id : i >= made => content[i] = <<>>

\* The id a reader holds was the one of its key, and no other key gets it.
ReadersApart ==
  \A p \in Process :
    /\ reader[p] = "wait" => readid[p] # None
    /\ readid[p] # None =>
         readid[p] < made /\ \A k \in Key : queue[k] = readid[p] => k = RecvKey(p)

\* Whoever sent what waits on a key sends on that key.
SendersOf ==
  \A k \in Key : \A i \in 1..Len(Waiting(k)) : SendKey(Waiting(k)[i].from) = k

IInv == TypeOK /\ Owned /\ Fresh /\ ReadersApart /\ SendIdLive /\ SendersOf

LEMMA InitInv == Init => IInv
<1> SUFFICES ASSUME Init PROVE IInv
  OBVIOUS
<1>1. TypeOK
  <2>1. content \in [Id -> Seq(Message)] /\ \A i \in Id : Len(content[i]) <= QueueCap
    BY QueueAssumption DEF Init
  <2>2. QED BY <2>1, QueueAssumption DEF Init, TypeOK
<1>2. \A k \in Key : Waiting(k) = <<>> /\ queue[k] = None BY DEF Init, Waiting
<1>3. QED BY <1>1, <1>2 DEF IInv, Init, Owned, Fresh, ReadersApart, SendIdLive, SendersOf

-----------------------------------------------------------------------------
(* What each action does to the queues and to what waits on them.          *)

\* The kernel's side of an action: nothing; a queue for k; a message on k; the
\* oldest one of k gone; the queue of k gone.
Same      == UNCHANGED kernel
Make(k)   == /\ queue[k] = None /\ made < MaxQueues /\ made' = made + 1
             /\ queue' = [queue EXCEPT ![k] = made] /\ content' = content
Put(k, m) == /\ queue[k] # None /\ Len(content[queue[k]]) < QueueCap /\ UNCHANGED <<queue, made>>
             /\ content' = [content EXCEPT ![queue[k]] = Append(@, m)]
Pop(k)    == /\ queue[k] # None /\ content[queue[k]] # <<>> /\ UNCHANGED <<queue, made>>
             /\ content' = [content EXCEPT ![queue[k]] = Tail(@)]
Delete(k) == /\ queue[k] # None /\ queue' = [queue EXCEPT ![k] = None] /\ made' = made
             /\ content' = [content EXCEPT ![queue[k]] = <<>>]

LEMMA Opens ==
  ASSUME IInv, NEW p \in Process, Open(p)
  PROVE  /\ Same \/ Make(SendKey(p))
         /\ queue'[SendKey(p)] # None /\ msgid' = [msgid EXCEPT ![p] = queue'[SendKey(p)]]
<1>1. SendKey(p) \in Key /\ made \in Nat /\ queue \in [Key -> Id \cup {None}]
  BY Ends DEF IInv, TypeOK
<1>2. CASE queue[SendKey(p)] = None
  BY <1>1, <1>2 DEF Open, msgque_getmsgid, NeedsQueue, Make
<1>3. CASE queue[SendKey(p)] # None
  BY <1>1, <1>3 DEF Open, msgque_getmsgid, NeedsQueue, Same
<1>4. QED BY <1>2, <1>3

Sent(p) == [from |-> p, n |-> sent[SendKey(p)] + 1]

LEMMA Sends ==
  ASSUME IInv, NEW p \in Process, Send(p) PROVE Same \/ Put(SendKey(p), Sent(p))
<1>1. queue[SendKey(p)] = msgid[p] /\ msgid[p] # None
  BY DEF IInv, SendIdLive, Send
<1>2. QED BY <1>1 DEF Send, Fits, Same, Put, Sent

LEMMA Quits ==
  ASSUME IInv, NEW p \in Process, Quit(p) PROVE Same \/ Delete(SendKey(p))
<1>1. SendKey(p) \in Key /\ queue[SendKey(p)] = msgid[p] /\ msgid[p] # None
      /\ made' = made /\ queue \in [Key -> Id \cup {None}]
  BY Ends DEF IInv, TypeOK, SendIdLive, Quit, Gone
<1>2. CASE msgid[p] > 0
  <2>1. [k \in Key |-> IF queue[k] = msgid[p] THEN None ELSE queue[k]]
          = [queue EXCEPT ![SendKey(p)] = None]
    BY <1>1 DEF IInv, Owned
  <2>2. QED BY <1>1, <1>2, <2>1 DEF Quit, Doomed, Delete
<1>3. CASE ~(msgid[p] > 0)
  BY <1>1, <1>3 DEF Quit, Doomed, Same
<1>4. QED BY <1>2, <1>3

LEMMA Receives ==
  ASSUME IInv, NEW p \in Process, Receive(p)
  PROVE  /\ Pop(RecvKey(p)) /\ queue[RecvKey(p)] = readid[p]
         /\ last' = [last EXCEPT ![RecvKey(p)] = Head(content[readid[p]]).n]
<1>1. readid[p] # None
  BY DEF IInv, ReadersApart, Receive, ReaderStep
<1>2. queue[RecvKey(p)] = readid[p]
  BY <1>1 DEF IInv, ReadersApart, Receive, Alive
<1>3. QED BY <1>1, <1>2 DEF Receive, Oldest, Pop

\* The kernel moves on one key at most.
KernelStep ==
  \/ Same
  \/ \E k \in Key : \/ Make(k) \/ Pop(k) \/ Delete(k)
                    \/ \E m \in Message : SendKey(m.from) = k /\ Put(k, m)

LEMMA StepOfKernel ==
  ASSUME IInv, NEW p \in Process,
         \/ Start(p) \/ Open(p) \/ Send(p) \/ Halt(p) \/ Quit(p) \/ Reader(p)
  PROVE  KernelStep
<1>1. SendKey(p) \in Key /\ RecvKey(p) \in Key
  BY Ends DEF IInv, TypeOK
<1>2. CASE Start(p) \/ Halt(p) \/ Get(p) \/ Fail(p) \/ Retry(p)
  BY <1>2 DEF Start, Halt, Gone, Get, Fail, Retry, KernelStep, Same
<1>3. CASE Open(p) BY <1>1, <1>3, Opens DEF KernelStep
<1>4. CASE Send(p)
  <2>1. Sent(p) \in Message /\ Sent(p).from = p
    BY <1>1 DEF IInv, TypeOK, Sent, Message
  <2>2. QED BY <1>1, <1>4, <2>1, Sends DEF KernelStep
<1>5. CASE Quit(p) BY <1>1, <1>5, Quits DEF KernelStep
<1>6. CASE Receive(p) BY <1>1, <1>6, Receives DEF KernelStep
<1>7. QED BY <1>2, <1>3, <1>4, <1>5, <1>6 DEF Reader

KernelTyped ==
  /\ queue \in [Key -> Id \cup {None}] /\ made \in 0..MaxQueues
  /\ content \in [Id -> Seq(Message)] /\ \A i \in Id : Len(content[i]) <= QueueCap

LEMMA KernelInv ==
  ASSUME KernelTyped, Owned, Fresh, KernelStep
  PROVE  KernelTyped' /\ Owned' /\ Fresh'
<1> USE DEF KernelTyped, Owned, Fresh
<1>0. MaxQueues \in Nat /\ QueueCap \in Nat
  BY QueueAssumption
<1>1. CASE Same BY <1>1 DEF Same
<1>2. ASSUME NEW k \in Key, Make(k) PROVE KernelTyped' /\ Owned' /\ Fresh'
  BY <1>0, <1>2 DEF Make, Id
<1>3. ASSUME NEW k \in Key, Pop(k) PROVE KernelTyped' /\ Owned' /\ Fresh'
  <2> DEFINE s == content[queue[k]]
  <2>1. queue[k] \in Id /\ s \in Seq(Message) /\ s # <<>> BY <1>3 DEF Pop
  <2>2. Tail(s) \in Seq(Message) /\ Len(Tail(s)) <= QueueCap
    BY <1>0, <2>1
  <2>3. KernelTyped' BY <1>3, <2>1, <2>2 DEF Pop
  <2>4. Owned' /\ Fresh' BY <1>3, <2>1 DEF Pop, Id
  <2>5. QED BY <2>3, <2>4
<1>4. ASSUME NEW k \in Key, Delete(k) PROVE KernelTyped' /\ Owned' /\ Fresh'
  <2>1. queue[k] \in Id BY <1>4 DEF Delete
  <2>2. KernelTyped' BY <1>0, <1>4, <2>1 DEF Delete
  <2>3. Owned' /\ Fresh' BY <1>4, <2>1 DEF Delete, Id
  <2>4. QED BY <2>2, <2>3
<1>5. ASSUME NEW k \in Key, NEW m \in Message, Put(k, m) PROVE KernelTyped' /\ Owned' /\ Fresh'
  <2> DEFINE s == content[queue[k]]
  <2>1. queue[k] \in Id /\ s \in Seq(Message) /\ Len(s) < QueueCap BY <1>5 DEF Put
  <2>2. Append(s, m) \in Seq(Message) /\ Len(Append(s, m)) <= QueueCap
    BY <1>0, <2>1
  <2>3. KernelTyped' BY <1>5, <2>1, <2>2 DEF Put
  <2>4. Owned' /\ Fresh' BY <1>5, <2>1 DEF Put, Id
  <2>5. QED BY <2>3, <2>4
<1>6. QED BY <1>1, <1>2, <1>3, <1>4, <1>5 DEF KernelStep

\* What waits on each key after a step of the kernel.
LEMMA WaitingAfter ==
  ASSUME KernelTyped, Owned, Fresh, NEW k \in Key
  PROVE  /\ Same => \A l \in Key : Waiting(l)' = Waiting(l)
         /\ Make(k) => \A l \in Key : Waiting(l)' = Waiting(l)
         /\ Pop(k) => Waiting(k) # <<>> /\ Waiting(k)' = Tail(Waiting(k))
                      /\ \A l \in Key \ {k} : Waiting(l)' = Waiting(l)
         /\ Delete(k) => Waiting(k)' = <<>> /\ \A l \in Key \ {k} : Waiting(l)' = Waiting(l)
         /\ \A m : Put(k, m) => Waiting(k)' = Append(Waiting(k), m)
                                /\ \A l \in Key \ {k} : Waiting(l)' = Waiting(l)
<1> USE DEF KernelTyped, Owned, Fresh, Waiting
<1>1. ASSUME Same PROVE \A l \in Key : Waiting(l)' = Waiting(l)
  BY <1>1 DEF Same
<1>2. ASSUME Make(k) PROVE \A l \in Key : Waiting(l)' = Waiting(l)
  <2>1. made \in Id BY <1>2, QueueAssumption DEF Make, Id
  <2>2. content[made] = <<>> BY <2>1 DEF Id
  <2>3. QED BY <1>2, <2>1, <2>2 DEF Make
<1>3. ASSUME Pop(k)
      PROVE  /\ Waiting(k) # <<>> /\ Waiting(k)' = Tail(Waiting(k))
             /\ \A l \in Key \ {k} : Waiting(l)' = Waiting(l)
  BY <1>3 DEF Pop
<1>4. ASSUME Delete(k)
      PROVE  Waiting(k)' = <<>> /\ \A l \in Key \ {k} : Waiting(l)' = Waiting(l)
  BY <1>4 DEF Delete
<1>5. ASSUME NEW m, Put(k, m)
      PROVE  /\ Waiting(k)' = Append(Waiting(k), m)
             /\ \A l \in Key \ {k} : Waiting(l)' = Waiting(l)
  BY <1>5 DEF Put
<1>6. QED BY <1>1, <1>2, <1>3, <1>4, <1>5

LEMMA WaitingTyped ==
  ASSUME KernelTyped, NEW k \in Key PROVE Waiting(k) \in Seq(Message)
BY DEF KernelTyped, Waiting

LEMMA SendersInv ==
  ASSUME KernelTyped, Owned, Fresh, SendersOf, KernelStep, program' = program PROVE SendersOf'
<1>0. \A p : SendKey(p)' = SendKey(p) BY DEF SendKey
<1>1. \A k \in Key : Waiting(k) \in Seq(Message) BY WaitingTyped
<1> SUFFICES ASSUME NEW l \in Key, NEW i \in 1..Len(Waiting(l)')
             PROVE  SendKey(Waiting(l)[i].from)' = l
  BY DEF SendersOf
<1> USE DEF SendersOf
<1>2. CASE Waiting(l)' = Waiting(l)
  BY <1>0, <1>2
<1>3. CASE Pop(l)
  <2>1. Waiting(l) # <<>> /\ Waiting(l)' = Tail(Waiting(l)) BY <1>3, WaitingAfter
  <2>2. Tail(Waiting(l))[i] = Waiting(l)[i + 1] /\ i + 1 \in 1..Len(Waiting(l))
    BY <1>1, <2>1
  <2>3. QED BY <1>0, <2>1, <2>2
<1>4. CASE Delete(l)
  <2>1. Waiting(l)' = <<>> BY <1>4, WaitingAfter
  <2>2. QED BY <2>1
<1>5. ASSUME NEW m \in Message, SendKey(m.from) = l, Put(l, m) PROVE SendKey(Waiting(l)[i].from)' = l
  <2>1. Waiting(l)' = Append(Waiting(l), m) BY <1>5, WaitingAfter
  <2>2. CASE i = Len(Waiting(l)) + 1
    <3>1. Append(Waiting(l), m)[i] = m BY <1>1, <2>2
    <3>2. QED BY <1>0, <1>5, <2>1, <3>1
  <2>3. CASE i \in 1..Len(Waiting(l))
    <3>1. Append(Waiting(l), m)[i] = Waiting(l)[i] BY <1>1, <2>3
    <3>2. QED BY <1>0, <2>1, <2>3, <3>1
  <2>4. i \in 1..(Len(Waiting(l)) + 1) BY <1>1, <2>1
  <2>5. QED BY <1>1, <2>2, <2>3, <2>4
<1> DEFINE Here == \/ Waiting(l)' = Waiting(l) \/ Pop(l) \/ Delete(l)
                   \/ \E m \in Message : SendKey(m.from) = l /\ Put(l, m)
<1>6. Here
  <2>1. CASE Same BY <2>1, WaitingAfter
  <2>2. ASSUME NEW k \in Key, \/ Make(k) \/ Pop(k) \/ Delete(k)
                               \/ \E m \in Message : SendKey(m.from) = k /\ Put(k, m)
        PROVE  Here
    BY <2>2, WaitingAfter
  <2>3. QED BY <2>1, <2>2 DEF KernelStep
<1>7. QED BY <1>2, <1>3, <1>4, <1>5, <1>6

-----------------------------------------------------------------------------
(* The threads.                                                            *)

LEMMA NextCases ==
  ASSUME Next
  PROVE  \E p \in Process : \/ Start(p) \/ Open(p) \/ Send(p) \/ Halt(p) \/ Quit(p)
                            \/ Reader(p)
BY DEF Next

Step(p) == Start(p) \/ Open(p) \/ Send(p) \/ Halt(p) \/ Quit(p) \/ Reader(p)

LEMMA Typed ==
  ASSUME IInv, NEW p \in Process, Step(p) PROVE TypeOK'
<1>0. KernelTyped /\ Owned /\ Fresh BY DEF IInv, TypeOK, KernelTyped
<1>1. KernelTyped' BY <1>0, StepOfKernel, KernelInv DEF Step
<1>2. SendKey(p) \in Key /\ RecvKey(p) \in Key BY Ends DEF IInv, TypeOK
<1> USE DEF TypeOK, IInv
<1>3. CASE Start(p) BY <1>1, <1>3 DEF Start, KernelTyped
<1>4. CASE Open(p)
  <2>1. queue'[SendKey(p)] \in Id \cup {None} BY <1>1, <1>2 DEF KernelTyped
  <2>2. msgid' \in [Process -> Id \cup {None}] BY <1>4, <2>1, Opens
  <2>3. QED BY <1>1, <1>4, <2>2 DEF Open, KernelTyped
<1>5. CASE Send(p)
  <2>1. sent[SendKey(p)] + 1 \in Nat BY <1>2
  <2>2. sent' \in [Key -> Nat] BY <1>5, <2>1 DEF Send
  <2>3. QED BY <1>1, <1>5, <2>2 DEF Send, KernelTyped
<1>6. CASE Halt(p) \/ Quit(p)
  <2>1. Gone(p) BY <1>6 DEF Halt, Quit
  <2>2. stops' \in 0..MaxStops BY <2>1, QueueAssumption DEF Gone
  <2>3. QED BY <1>1, <2>1, <2>2 DEF Gone, KernelTyped
<1>7. CASE Get(p) BY <1>1, <1>2, <1>7 DEF Get, Lookup, ReaderStep, KernelTyped
<1>8. CASE Receive(p)
  <2>1. readid[p] # None /\ readid[p] \in Id
    BY <1>8 DEF ReadersApart, Receive, ReaderStep
  <2>2. Head(content[readid[p]]) \in Message BY <1>8, <2>1 DEF Receive
  <2>3. Head(content[readid[p]]).n \in Nat BY <2>2 DEF Message
  <2>4. last' \in [Key -> Nat] BY <1>2, <1>8, <2>3, Receives
  <2>5. QED BY <1>1, <1>8, <2>4 DEF Receive, ReaderStep, KernelTyped
<1>9. CASE Fail(p) \/ Retry(p) BY <1>1, <1>9 DEF Fail, Retry, ReaderStep, KernelTyped
<1>10. QED BY <1>3, <1>4, <1>5, <1>6, <1>7, <1>8, <1>9 DEF Step, Reader

\* A process that deletes its queue is the only one sending on it.
LEMMA SendIdInv ==
  ASSUME IInv, NEW p \in Process, Step(p) PROVE SendIdLive'
<1>0. program' = program
  BY DEF Step, Start, Open, Send, Halt, Quit, Gone, Reader, Get, Receive, Fail, Retry
<1>1. \A q \in Process : SendKey(q)' = SendKey(q) BY <1>0 DEF SendKey
<1>2. /\ \A q \in Process : SendKey(q) \in Key
      /\ \A q, r \in Process : q # r => SendKey(q) # SendKey(r)
  BY Ends DEF IInv, TypeOK
<1> SUFFICES ASSUME NEW q \in Process, main'[q] = "run"
             PROVE  msgid'[q] # None /\ queue'[SendKey(q)] = msgid'[q]
  BY <1>1 DEF SendIdLive
<1> USE DEF IInv, TypeOK, SendIdLive
<1>3. CASE Start(p) BY <1>3 DEF Start
<1>4. CASE Open(p)
  <2>1. CASE q = p BY <1>4, <2>1, Opens
  <2>2. CASE q # p
    <3>1. main[q] = "run" /\ msgid'[q] = msgid[q] BY <1>4, <2>2, Opens DEF Open
    <3>2. queue'[SendKey(q)] = queue[SendKey(q)]
      BY <1>2, <1>4, <2>2, Opens DEF Same, Make
    <3>3. QED BY <3>1, <3>2
  <2>3. QED BY <2>1, <2>2
<1>5. CASE Send(p) BY <1>5 DEF Send
<1>6. CASE Halt(p) BY <1>6 DEF Halt, Gone
<1>7. CASE Quit(p)
  <2>1. q # p /\ main[q] = "run" /\ msgid'[q] = msgid[q] BY <1>7 DEF Quit, Gone
  <2>2. queue'[SendKey(q)] = queue[SendKey(q)]
    BY <1>2, <1>7, <2>1, Quits DEF Same, Delete
  <2>3. QED BY <2>1, <2>2
<1>8. CASE Reader(p) BY <1>8 DEF Reader, Get, Receive, Fail, Retry
<1>9. QED BY <1>3, <1>4, <1>5, <1>6, <1>7, <1>8 DEF Step

\* A new queue has an id no reader can hold.
LEMMA ReadersInv ==
  ASSUME IInv, NEW p \in Process, Step(p) PROVE ReadersApart'
<1>0. program' = program
  BY DEF Step, Start, Open, Send, Halt, Quit, Gone, Reader, Get, Receive, Fail, Retry
<1>1. \A q \in Process : RecvKey(q)' = RecvKey(q) /\ RecvKey(q) \in Key
  BY <1>0, Ends DEF RecvKey, IInv, TypeOK
<1>2. /\ made' >= made
      /\ \A k \in Key : queue'[k] \in {queue[k], made, None}
  BY StepOfKernel DEF IInv, TypeOK, KernelStep, Same, Make, Pop, Put, Delete, Step
<1> SUFFICES ASSUME NEW q \in Process
             PROVE  /\ reader'[q] = "wait" => readid'[q] # None
                    /\ readid'[q] # None =>
                         readid'[q] < made' /\ \A k \in Key : queue'[k] = readid'[q] => k = RecvKey(q)
  BY <1>1 DEF ReadersApart
<1> USE DEF IInv, TypeOK, ReadersApart, ReaderStep
<1>3. made \in Int /\ made' \in Int /\ readid[q] \in Int
  BY Typed, QueueAssumption DEF Id
<1>4. CASE Get(p) /\ q = p
  <2>1. readid'[q] = queue[RecvKey(q)] /\ (reader'[q] = "wait" => queue[RecvKey(q)] # None)
        /\ UNCHANGED <<queue, made>>
    BY <1>4 DEF Get, Lookup
  <2>2. queue[RecvKey(q)] # None =>
          queue[RecvKey(q)] < made /\ \A k \in Key : queue[k] = queue[RecvKey(q)] => k = RecvKey(q)
    BY <1>1 DEF Owned
  <2>3. QED BY <2>1, <2>2
<1>5. CASE Halt(p) \/ Quit(p)
  <2>1. CASE q = p
    <3>1. reader'[q] = "off" /\ readid'[q] = None BY <1>5, <2>1 DEF Halt, Quit, Gone
    <3>2. QED BY <3>1
  <2>2. CASE q # p
    <3>1. reader'[q] = reader[q] /\ readid'[q] = readid[q]
      BY <1>5, <2>2 DEF Halt, Quit, Gone
    <3>2. QED BY <1>3, <1>2, <3>1
  <2>3. QED BY <2>1, <2>2
<1>6. CASE ~(Get(p) /\ q = p) /\ ~Halt(p) /\ ~Quit(p)
  <2>1. readid'[q] = readid[q] /\ (reader'[q] = "wait" => reader[q] = "wait")
    BY <1>6 DEF Step, Start, Open, Send, Reader, Get, Receive, Fail, Retry
  <2>2. QED BY <1>3, <1>2, <2>1
<1>7. QED BY <1>4, <1>5, <1>6

LEMMA Inductive == IInv /\ [Next]_vars => IInv'
<1> SUFFICES ASSUME IInv, [Next]_vars PROVE IInv'
  OBVIOUS
<1>1. CASE UNCHANGED vars
  BY <1>1 DEF vars, IInv, TypeOK, Owned, Fresh, ReadersApart, SendIdLive, SendersOf, Waiting,
              SendKey, RecvKey
<1>2. CASE Next
  <2>1. PICK p \in Process : Step(p) BY <1>2, NextCases DEF Step
  <2>2. KernelTyped /\ Owned /\ Fresh /\ SendersOf BY DEF IInv, TypeOK, KernelTyped
  <2>3. KernelStep BY <2>1, StepOfKernel DEF Step
  <2>4. program' = program
    BY <2>1 DEF Step, Start, Open, Send, Halt, Quit, Gone, Reader, Get, Receive, Fail, Retry
  <2>5. Owned' /\ Fresh' /\ SendersOf' BY <2>2, <2>3, <2>4, KernelInv, SendersInv
  <2>6. TypeOK' /\ SendIdLive' /\ ReadersApart' BY <2>1, Typed, SendIdInv, ReadersInv
  <2>7. QED BY <2>5, <2>6 DEF IInv
<1>3. QED BY <1>1, <1>2

\* Every variable keeps to its type; no queue holds more than the kernel allows
\* (msgque_send, IPC_NOWAIT).
THEOREM QueuesTypeCorrect == Spec => []TypeOK
<1>1. IInv => TypeOK BY DEF IInv
<1>2. QED BY <1>1, InitInv, Inductive, PTL DEF Spec

\* The id main looked up when it started never goes stale (msgque_getmsgid).
THEOREM SendIdStaysLive == Spec => []SendIdLive
<1>1. IInv => SendIdLive BY DEF IInv
<1>2. QED BY <1>1, InitInv, Inductive, PTL DEF Spec

\* No process reads a message of its own (the keys of msgque_init).
THEOREM NobodyHearsItself == Spec => []HearsOnlyOthers
<1>1. IInv => HearsOnlyOthers
  <2> SUFFICES ASSUME IInv, NEW p \in Process, NEW i \in 1..Len(Waiting(RecvKey(p)))
               PROVE  Waiting(RecvKey(p))[i].from # p
    BY DEF HearsOnlyOthers
  <2>1. RecvKey(p) \in Key /\ SendKey(p) # RecvKey(p) BY Ends DEF IInv, TypeOK
  <2>2. QED BY <2>1 DEF IInv, SendersOf
<1>2. QED BY <1>1, InitInv, Inductive, PTL DEF Spec

-----------------------------------------------------------------------------
(* MsgQueue implements Channel.                                            *)

LEMMA CountsOf ==
  ASSUME NEW s \in Seq(Message)
  PROVE  /\ Counts(s) \in Seq(Nat) /\ Len(Counts(s)) = Len(s)
         /\ \A i \in 1..Len(s) : Counts(s)[i] = s[i].n
<1>1. ASSUME NEW i \in 1..Len(s) PROVE s[i].n \in Nat
  <2>1. s[i] \in Message OBVIOUS
  <2>2. QED BY <2>1 DEF Message
<1>2. Counts(s) \in [1..Len(s) -> Nat] BY <1>1 DEF Counts
<1>3. Len(s) \in Nat OBVIOUS
<1>4. Counts(s) \in Seq(Nat) BY <1>2, <1>3, SeqDef
<1>5. Len(Counts(s)) = Len(s) BY <1>2, <1>3, <1>4, LenProperties
<1>6. QED BY <1>4, <1>5 DEF Counts

LEMMA CountsAppend ==
  ASSUME NEW s \in Seq(Message), NEW m \in Message
  PROVE  Counts(Append(s, m)) = Append(Counts(s), m.n)
<1> DEFINE t == Append(s, m)
<1>1. Counts(s) \in Seq(Nat) /\ Len(Counts(s)) = Len(s) /\ m.n \in Nat
      /\ \A i \in 1..Len(s) : Counts(s)[i] = s[i].n
  BY CountsOf DEF Message
<1>2. t \in Seq(Message) /\ Len(t) = Len(s) + 1 /\ t[Len(s) + 1] = m
      /\ \A i \in 1..Len(s) : t[i] = s[i]
  OBVIOUS
<1>3. Counts(t) \in Seq(Nat) /\ Len(Counts(t)) = Len(s) + 1
      /\ \A i \in 1..(Len(s) + 1) : Counts(t)[i] = t[i].n
  BY <1>2, CountsOf
<1>4. ASSUME NEW i \in 1..(Len(s) + 1) PROVE Counts(t)[i] = Append(Counts(s), m.n)[i]
  <2>1. CASE i = Len(s) + 1
    <3>1. Append(Counts(s), m.n)[i] = m.n BY <1>1, <2>1
    <3>2. QED BY <1>2, <1>3, <2>1, <3>1
  <2>2. CASE i \in 1..Len(s)
    <3>1. Append(Counts(s), m.n)[i] = Counts(s)[i] BY <1>1, <2>2
    <3>2. QED BY <1>1, <1>2, <1>3, <2>2, <3>1
  <2>3. Len(s) \in Nat OBVIOUS
  <2>4. i = Len(s) + 1 \/ i \in 1..Len(s) BY <2>3
  <2>5. QED BY <2>1, <2>2, <2>4
<1>5. QED BY <1>1, <1>3, <1>4, SeqEqual

LEMMA CountsTail ==
  ASSUME NEW s \in Seq(Message), s # <<>>
  PROVE  /\ Counts(s) # <<>> /\ Head(Counts(s)) = Head(s).n
         /\ Counts(Tail(s)) = Tail(Counts(s))
<1>1. Counts(s) \in Seq(Nat) /\ Len(Counts(s)) = Len(s) /\ Len(s) > 0
      /\ \A i \in 1..Len(s) : Counts(s)[i] = s[i].n
  BY CountsOf
<1>2. Tail(s) \in Seq(Message) /\ Len(Tail(s)) = Len(s) - 1
      /\ \A i \in 1..(Len(s) - 1) : Tail(s)[i] = s[i + 1]
  OBVIOUS
<1>3. Counts(Tail(s)) \in Seq(Nat) /\ Len(Counts(Tail(s))) = Len(s) - 1
      /\ \A i \in 1..(Len(s) - 1) : Counts(Tail(s))[i] = Tail(s)[i].n
  BY <1>2, CountsOf
<1>4. Tail(Counts(s)) \in Seq(Nat) /\ Len(Tail(Counts(s))) = Len(s) - 1
      /\ \A i \in 1..(Len(s) - 1) : Tail(Counts(s))[i] = Counts(s)[i + 1]
  BY <1>1
<1>5. \A i \in 1..(Len(s) - 1) : Counts(Tail(s))[i] = Tail(Counts(s))[i]
  BY <1>1, <1>2, <1>3, <1>4
<1>6. Counts(Tail(s)) = Tail(Counts(s)) BY <1>3, <1>4, <1>5, SeqEqual
<1>7. QED BY <1>1, <1>6 DEF Counts

Buffer == [k \in Key |-> Counts(Waiting(k))]

LEMMA SameBuffer ==
  ASSUME \A k \in Key : Waiting(k)' = Waiting(k), UNCHANGED <<sent, last>>
  PROVE  UNCHANGED C!vars
BY DEF C!vars, Counts

LEMMA RefineChannel ==
  ASSUME IInv, NEW p \in Process, Step(p) PROVE [C!Next]_(C!vars)
<1>0. /\ KernelTyped /\ Owned /\ Fresh /\ sent \in [Key -> Nat] /\ last \in [Key -> Nat]
      /\ SendKey(p) \in Key /\ RecvKey(p) \in Key
  BY Ends DEF IInv, TypeOK, KernelTyped
<1>8. PICK k \in Key : k = SendKey(p) BY <1>0
<1>9. PICK r \in Key : r = RecvKey(p) BY <1>0
<1>1. \A l \in Key : Waiting(l) \in Seq(Message) BY <1>0, WaitingTyped
<1>2. CASE Start(p) \/ Halt(p) \/ Get(p) \/ Fail(p) \/ Retry(p)
  <2>1. Same /\ UNCHANGED <<sent, last>>
    BY <1>2 DEF Start, Halt, Gone, Get, Fail, Retry, Same
  <2>2. QED BY <1>0, <2>1, WaitingAfter, SameBuffer
<1>3. CASE Open(p)
  <2>1. (Same \/ Make(k)) /\ UNCHANGED <<sent, last>> BY <1>3, <1>8, Opens DEF Open
  <2>2. QED BY <1>0, <2>1, WaitingAfter, SameBuffer
<1>4. CASE Send(p)
  <2>1. sent' = [sent EXCEPT ![k] = @ + 1] /\ last' = last BY <1>4, <1>8 DEF Send
  <2>2. Sent(p) \in Message /\ Sent(p).n = sent[k] + 1 BY <1>0, <1>8 DEF Sent, Message
  <2>3. CASE Same
    <3>1. Buffer' = Buffer BY <1>0, <2>3, WaitingAfter DEF Buffer, Counts
    <3>2. C!Send(k) BY <2>1, <3>1 DEF C!Send, Buffer
    <3>3. QED BY <1>0, <3>2 DEF C!Next
  <2>4. CASE Put(k, Sent(p))
    <3>1. Waiting(k)' = Append(Waiting(k), Sent(p)) /\ \A l \in Key \ {k} : Waiting(l)' = Waiting(l)
      BY <1>0, <2>4, WaitingAfter
    <3>2. Counts(Waiting(k))' = Append(Counts(Waiting(k)), sent[k] + 1)
      BY <1>0, <1>1, <2>2, <3>1, CountsAppend DEF Counts
    <3>3. \A l \in Key \ {k} : Counts(Waiting(l))' = Counts(Waiting(l)) BY <3>1 DEF Counts
    <3>4. Buffer' = [Buffer EXCEPT ![k] = Append(@, sent[k] + 1)]
      BY <1>0, <3>2, <3>3 DEF Buffer
    <3>5. C!Send(k) BY <2>1, <3>4 DEF C!Send, Buffer
    <3>6. QED BY <1>0, <3>5 DEF C!Next
  <2>5. QED BY <1>4, <1>8, <2>3, <2>4, Sends
<1>5. CASE Quit(p)
  <2>1. UNCHANGED <<sent, last>> BY <1>5 DEF Quit, Gone
  <2>2. CASE Same BY <1>0, <2>1, <2>2, WaitingAfter, SameBuffer
  <2>3. CASE Delete(k)
    <3>1. Waiting(k)' = <<>> /\ \A l \in Key \ {k} : Waiting(l)' = Waiting(l)
      BY <1>0, <2>3, WaitingAfter
    <3>2. Counts(Waiting(k))' = <<>> BY <3>1 DEF Counts
    <3>3. \A l \in Key \ {k} : Counts(Waiting(l))' = Counts(Waiting(l)) BY <3>1 DEF Counts
    <3>4. Buffer' = [Buffer EXCEPT ![k] = <<>>] BY <1>0, <3>2, <3>3 DEF Buffer
    <3>5. C!Purge(k) BY <2>1, <3>4 DEF C!Purge, Buffer
    <3>6. QED BY <1>0, <3>5 DEF C!Next
  <2>4. QED BY <1>5, <1>8, <2>2, <2>3, Quits
<1>6. CASE Receive(p)
  <2>1. /\ Pop(r) /\ Waiting(r) = content[readid[p]] /\ sent' = sent
        /\ last' = [last EXCEPT ![r] = Head(Waiting(r)).n]
    BY <1>6, <1>9, Receives DEF Receive, Waiting, Pop
  <2>2. Waiting(r) # <<>> /\ Waiting(r)' = Tail(Waiting(r))
        /\ \A l \in Key \ {r} : Waiting(l)' = Waiting(l)
    BY <1>0, <2>1, WaitingAfter
  <2>3. /\ Counts(Waiting(r)) # <<>> /\ Head(Counts(Waiting(r))) = Head(Waiting(r)).n
        /\ Counts(Waiting(r))' = Tail(Counts(Waiting(r)))
    BY <1>0, <1>1, <2>2, CountsTail DEF Counts
  <2>4. \A l \in Key \ {r} : Counts(Waiting(l))' = Counts(Waiting(l)) BY <2>2 DEF Counts
  <2>5. Buffer' = [Buffer EXCEPT ![r] = Tail(@)] BY <1>0, <2>3, <2>4 DEF Buffer
  <2>6. C!Receive(r) BY <1>0, <2>1, <2>3, <2>5 DEF C!Receive, Buffer
  <2>7. QED BY <1>0, <2>6 DEF C!Next
<1>7. QED BY <1>2, <1>3, <1>4, <1>5, <1>6 DEF Step, Reader

\* Each direction is a channel, whichever processes stop, restart and delete
\* their queues.
THEOREM QueuesImplementChannel == Spec => ImplementsChannel
<1>1. Init => C!Init
  BY DEF Init, C!Init, Waiting, Counts
<1>2. IInv /\ [Next]_vars => [C!Next]_(C!vars)
  <2>1. CASE UNCHANGED vars
    <3>1. (\A k \in Key : Waiting(k)' = Waiting(k)) /\ UNCHANGED <<sent, last>>
      BY <2>1 DEF vars, Waiting
    <3>2. QED BY <3>1, SameBuffer
  <2>2. CASE IInv /\ Next BY <2>2, NextCases, RefineChannel DEF Step
  <2>3. QED BY <2>1, <2>2
<1>3. QED BY <1>1, <1>2, InitInv, Inductive, PTL DEF Spec, ImplementsChannel, C!Spec

-----------------------------------------------------------------------------
(* Waiting messages stay.                                                  *)

LEMMA StaysInPlace ==
  ASSUME IInv, NEW p \in Process, Step(p), NEW k \in Key, NEW n \in Nat, Awaits(k, n)
  PROVE  \/ Awaits(k, n)' \/ last'[k] = n
         \/ Quit(p) /\ SendKey(p) = k
<1>0. /\ KernelTyped /\ Owned /\ Fresh /\ Waiting(k) \in Seq(Message)
      /\ last \in [Key -> Nat] /\ SendKey(p) \in Key /\ RecvKey(p) \in Key
  BY Ends, WaitingTyped DEF IInv, TypeOK, KernelTyped
<1>1. PICK i \in 1..Len(Waiting(k)) : Waiting(k)[i].n = n BY DEF Awaits
<1>2. CASE Waiting(k)' = Waiting(k) BY <1>1, <1>2 DEF Awaits
<1>3. CASE Start(p) \/ Halt(p) \/ Get(p) \/ Fail(p) \/ Retry(p)
  <2>1. Same BY <1>3 DEF Start, Halt, Gone, Get, Fail, Retry, Same
  <2>2. QED BY <1>0, <1>2, <2>1, WaitingAfter
<1>4. CASE Open(p) BY <1>0, <1>2, <1>4, Opens, WaitingAfter
<1>5. CASE Send(p)
  <2>1. Same \/ Put(SendKey(p), Sent(p)) BY <1>5, Sends
  <2>2. CASE Put(k, Sent(p))
    <3>1. Sent(p) \in Message BY <1>0 DEF IInv, TypeOK, Sent, Message
    <3>2. Waiting(k)' = Append(Waiting(k), Sent(p)) BY <1>0, <2>2, WaitingAfter
    <3>3. i \in 1..Len(Waiting(k)') /\ Waiting(k)'[i] = Waiting(k)[i] BY <1>0, <3>1, <3>2
    <3>4. QED BY <1>1, <3>3 DEF Awaits
  <2>3. CASE SendKey(p) # k \/ Same BY <1>0, <1>2, <2>1, <2>3, WaitingAfter
  <2>4. QED BY <2>1, <2>2, <2>3
<1>6. CASE Quit(p) BY <1>0, <1>2, <1>6, Quits, WaitingAfter
<1>7. CASE Receive(p)
  <2>1. CASE RecvKey(p) # k
    <3>1. Pop(RecvKey(p)) BY <1>7, Receives
    <3>2. QED BY <1>0, <1>2, <2>1, <3>1, WaitingAfter
  <2>2. CASE RecvKey(p) = k
    <3>1. Pop(k) /\ last'[k] = Head(Waiting(k)).n
      BY <1>0, <1>7, <2>2, Receives DEF Waiting, Pop
    <3>2. Waiting(k)' = Tail(Waiting(k)) BY <1>0, <3>1, WaitingAfter
    <3>3. CASE i = 1
      <4>1. Head(Waiting(k)) = Waiting(k)[1] BY <1>0, <1>1
      <4>2. QED BY <1>1, <3>1, <3>3, <4>1
    <3>4. CASE i # 1
      <4>1. Waiting(k) # <<>> /\ Len(Waiting(k)) \in Nat /\ i \in Int BY <1>0, <1>1
      <4>2. i - 1 \in 1..Len(Tail(Waiting(k))) /\ Tail(Waiting(k))[i - 1] = Waiting(k)[i]
        BY <1>0, <1>1, <3>4, <4>1
      <4>3. QED BY <1>1, <3>2, <4>2 DEF Awaits
    <3>5. QED BY <3>3, <3>4
  <2>3. QED BY <2>1, <2>2
<1>8. QED BY <1>3, <1>4, <1>5, <1>6, <1>7 DEF Step, Reader

\* No stop, restart or new queue loses a waiting message: it is read, or the
\* program that sent it, which is then no foobar, quits (msgque_del).
THEOREM WaitingMessagesKept == Spec => KeptUntilRead
<1> DEFINE Kept(k, n) ==
      (Awaits(k, n) /\ ~Awaits(k, n)') =>
         \/ last'[k] = n
         \/ \E p \in Process : /\ SendKey(p) = k /\ program[p] # "foobar"
                               /\ main[p] = "run" /\ main'[p] = "off"
<1>1. IInv /\ [Next]_vars => [\A k \in Key : \A n \in 1..MaxSends : Kept(k, n)]_vars
  <2> SUFFICES ASSUME IInv, Next, NEW k \in Key, NEW n \in 1..MaxSends PROVE Kept(k, n)
    OBVIOUS
  <2>1. PICK p \in Process : Step(p) BY NextCases DEF Step
  <2>2. ASSUME Quit(p) PROVE program[p] # "foobar" /\ main[p] = "run" /\ main'[p] = "off"
    BY <2>2 DEF Quit, Gone, IInv, TypeOK
  <2>3. QED BY <2>1, <2>2, StaysInPlace
<1>2. QED BY <1>1, InitInv, Inductive, PTL DEF Spec, KeptUntilRead
=============================================================================
