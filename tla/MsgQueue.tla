------------------------------ MODULE MsgQueue ------------------------------
(***************************************************************************)
(* The System V message queues of msgque.c between foobar and a local      *)
(* program, for which msgquetest.c stands.  A process sends on the queue    *)
(* whose id it looked up when it started, and its reader thread looks the   *)
(* other queue up before every message.  Queues outlive processes; the      *)
(* kernel (external) hands out ids 0, 1, 2, ... and never the same twice.  *)
(***************************************************************************)
EXTENDS Integers, Sequences

CONSTANTS
  Process,
  Pairings,     \* which program each process may be: functions to Program
  QueueCap,     \* messages that fit a queue: msgmnb / sizeof(struct msgbuffer)
  MaxQueues, MaxSends, MaxStops   \* bounds: queues made, messages per key, stops

Program == {"foobar", "A", "B"}

\* msgque_init calls ftok, which keeps the low eight bits of the number given.
\* MSG_BUFFER_SIZE and MSG_BUFFER_SIZE + 1 serve as numbers.
\* Seeded fault: the second number is 256 more.
Numbers_Far == <<512, 768>>
Numbers == <<512, 513>>
msgque_init(keyv) == keyv % 256

Key == {msgque_init(Numbers[i]) : i \in {1, 2}}
Id  == 0..(MaxQueues - 1)
None == -1

\* "A" plays foobar's part against "B".
SendKeyOf(prog) == msgque_init(IF prog = "B" THEN Numbers[1] ELSE Numbers[2])
RecvKeyOf(prog) == msgque_init(IF prog = "B" THEN Numbers[2] ELSE Numbers[1])

\* The processes running together are at opposite ends.
ASSUME QueueAssumption ==
  /\ Pairings \subseteq [Process -> Program]
  /\ \A k \in Pairings : \A p, q \in Process : p # q => (k[p] = "B") # (k[q] = "B")
  /\ QueueCap \in Nat /\ MaxQueues \in Nat /\ MaxSends \in Nat /\ MaxStops \in Nat

VARIABLES
  program,    \* which program each process is
  queue,      \* per key: the id of its queue, or None
  content,    \* per id: the messages waiting
  made,       \* queues made so far: the next id
  main,       \* per process: "off", "start" or "run"
  msgid,      \* send_msg_id
  reader,     \* per process: where msgque_Readthread is
  readid,     \* the id that msgrcv waits on
  sent, last, \* per key: messages sent, number of the one received last
  stops

kernel  == <<queue, content, made>>
threads == <<main, msgid, reader, readid>>
vars    == <<program, kernel, threads, sent, last, stops>>

Message == [from : Process, n : Nat]

TypeOK ==
  /\ program \in Pairings
  /\ queue \in [Key -> Id \cup {None}] /\ made \in 0..MaxQueues
  /\ content \in [Id -> Seq(Message)] /\ \A i \in Id : Len(content[i]) <= QueueCap
  /\ main \in [Process -> {"off", "start", "run"}]
  /\ msgid \in [Process -> Id \cup {None}]
  /\ reader \in [Process -> {"off", "get", "wait", "sleep"}]
  /\ readid \in [Process -> Id \cup {None}]
  /\ sent \in [Key -> Nat] /\ last \in [Key -> Nat]
  /\ stops \in 0..MaxStops

Init ==
  /\ program \in Pairings
  /\ queue = [k \in Key |-> None] /\ content = [i \in Id |-> <<>>] /\ made = 0
  /\ main = [p \in Process |-> "off"] /\ msgid = [p \in Process |-> None]
  /\ reader = [p \in Process |-> "off"] /\ readid = [p \in Process |-> None]
  /\ sent = [k \in Key |-> 0] /\ last = [k \in Key |-> 0]
  /\ stops = 0

SendKey(p) == SendKeyOf(program[p])
RecvKey(p) == RecvKeyOf(program[p])

-----------------------------------------------------------------------------
(* The main thread of either program.                                      *)

Start(p) ==
  /\ main[p] = "off" /\ main' = [main EXCEPT ![p] = "start"]
  /\ UNCHANGED <<program, kernel, msgid, reader, readid, sent, last, stops>>

\* The queue of the key, made if there is none.
\* Seeded fault: another one is made even if there is.
NeedsQueue_Always(k) == TRUE
NeedsQueue(k) == queue[k] = None

msgque_getmsgid(p) ==
  LET k == SendKey(p) IN
  IF NeedsQueue(k)
  THEN /\ made < MaxQueues /\ made' = made + 1
       /\ queue' = [queue EXCEPT ![k] = made]
       /\ msgid' = [msgid EXCEPT ![p] = made]
       /\ UNCHANGED content
  ELSE msgid' = [msgid EXCEPT ![p] = queue[k]] /\ UNCHANGED kernel

\* main looks up its queue and creates the reader thread.
Open(p) ==
  /\ main[p] = "start" /\ main' = [main EXCEPT ![p] = "run"]
  /\ msgque_getmsgid(p)
  /\ reader' = [reader EXCEPT ![p] = "get"]
  /\ UNCHANGED <<program, readid, sent, last, stops>>

Alive(i) == \E k \in Key : queue[k] = i

\* msgsnd finds room for the message.
\* Seeded fault: one message too many.
Fits_One(i) == Alive(i) /\ Len(content[i]) <= QueueCap
Fits(i) == Alive(i) /\ Len(content[i]) < QueueCap

\* msgque_send: with IPC_NOWAIT a message that does not fit is dropped, and no
\* caller looks at the result.
Send(p) ==
  LET i == msgid[p] IN
  /\ main[p] = "run" /\ sent[SendKey(p)] < MaxSends
  /\ sent' = [sent EXCEPT ![SendKey(p)] = @ + 1]
  /\ content' = IF Fits(i)
                THEN [content EXCEPT ![i] = Append(@, [from |-> p, n |-> sent[SendKey(p)] + 1])]
                ELSE content
  /\ UNCHANGED <<program, queue, made, threads, last, stops>>

\* A process ends and both its threads with it.
Gone(p) ==
  /\ main' = [main EXCEPT ![p] = "off"] /\ msgid' = [msgid EXCEPT ![p] = None]
  /\ reader' = [reader EXCEPT ![p] = "off"] /\ readid' = [readid EXCEPT ![p] = None]
  /\ stops < MaxStops /\ stops' = stops + 1
  /\ UNCHANGED <<program, made, sent, last>>

\* "exit" of foobar, and a crash or kill of any.
Halt(p) == main[p] # "off" /\ Gone(p) /\ UNCHANGED <<queue, content>>

\* Seeded fault: the queue it reads is deleted.
Doomed_Read(p) == queue[RecvKey(p)]
Doomed(p) == msgid[p]

\* "exit" of msgquetest deletes its queue with what waits there; msgque_del
\* leaves a queue whose id is 0.
Quit(p) ==
  LET i == Doomed(p) IN
  /\ main[p] = "run" /\ program[p] # "foobar" /\ Gone(p)
  /\ IF i > 0
     THEN /\ queue' = [k \in Key |-> IF queue[k] = i THEN None ELSE queue[k]]
          /\ content' = [content EXCEPT ![i] = <<>>]
     ELSE UNCHANGED <<queue, content>>

-----------------------------------------------------------------------------
(* The reader thread: msgque_Readthread.                                   *)

ReaderStep(p, from, to) == reader[p] = from /\ reader' = [reader EXCEPT ![p] = to]

\* msgque_rev looks up the queue ...
\* Seeded fault: it waits on the id found first for ever.
Lookup_Once(p) == IF readid[p] = None THEN queue[RecvKey(p)] ELSE readid[p]
Lookup(p) == queue[RecvKey(p)]

Get(p) ==
  /\ IF Lookup(p) = None THEN ReaderStep(p, "get", "sleep") ELSE ReaderStep(p, "get", "wait")
  /\ readid' = [readid EXCEPT ![p] = Lookup(p)]
  /\ UNCHANGED <<program, kernel, main, msgid, sent, last, stops>>

\* ... and waits for its oldest message.
\* Seeded fault: the newest message is taken.
Oldest_Newest(s) == s[Len(s)]
Oldest(s) == Head(s)

Receive(p) ==
  LET s == content[readid[p]] IN
  /\ ReaderStep(p, "wait", "get") /\ Alive(readid[p]) /\ s # <<>>
  /\ last' = [last EXCEPT ![RecvKey(p)] = Oldest(s).n]
  /\ content' = [content EXCEPT ![readid[p]] = Tail(@)]
  /\ UNCHANGED <<program, queue, made, main, msgid, readid, sent, stops>>

\* The queue has been deleted meanwhile.
Fail(p) ==
  /\ ReaderStep(p, "wait", "sleep") /\ ~Alive(readid[p])
  /\ UNCHANGED <<program, kernel, main, msgid, readid, sent, last, stops>>

\* sleep(2)
Retry(p) ==
  /\ ReaderStep(p, "sleep", "get")
  /\ UNCHANGED <<program, kernel, main, msgid, readid, sent, last, stops>>

Reader(p) == Get(p) \/ Receive(p) \/ Fail(p) \/ Retry(p)

Next == \E p \in Process : \/ Start(p) \/ Open(p) \/ Send(p) \/ Halt(p) \/ Quit(p)
                           \/ Reader(p)

Spec == Init /\ [][Next]_vars

\* The reader threads run; nobody need start, send or stop.
FairSpec == Spec /\ \A p \in Process : WF_vars(Reader(p))

-----------------------------------------------------------------------------
Waiting(k) == IF queue[k] = None THEN <<>> ELSE content[queue[k]]

\* The numbers of a sequence of messages.
Counts(s) == [i \in 1..Len(s) |-> s[i].n]

C == INSTANCE Channel WITH
  Line <- Key, buffer <- [k \in Key |-> Counts(Waiting(k))]

\* Through restarts of both sides and deleted queues, each direction stays a
\* channel: messages arrive in order, at most once, and only if sent.
ImplementsChannel == C!Spec

\* send_msg_id is looked up once, and still it never goes stale: whatever the
\* other process deletes, a running process sends on the queue that the reader
\* of its key will find.
SendIdLive ==
  \A p \in Process : main[p] = "run" => msgid[p] # None /\ queue[SendKey(p)] = msgid[p]

\* No process finds a message of its own on the queue it reads, although keys
\* come from numbers that ftok cuts.
HearsOnlyOthers ==
  \A p \in Process : \A i \in 1..Len(Waiting(RecvKey(p))) : Waiting(RecvKey(p))[i].from # p

Awaits(k, n) == \E i \in 1..Len(Waiting(k)) : Waiting(k)[i].n = n

\* A message that is waiting stays, whoever stops or restarts, until it is read
\* or its sender, which is then no foobar, quits.
KeptUntilRead ==
  [][\A k \in Key : \A n \in 1..MaxSends : (Awaits(k, n) /\ ~Awaits(k, n)') =>
       \/ last'[k] = n
       \/ \E p \in Process : /\ SendKey(p) = k /\ program[p] # "foobar"
                             /\ main[p] = "run" /\ main'[p] = "off"]_vars

\* A waiting message is read in the end, even if the reader was asleep or held
\* the id of a deleted queue, unless its queue is deleted or the reader stops.
WaitingIsRead ==
  \A p \in Process : \A n \in 1..MaxSends :
    (main[p] = "run" /\ Awaits(RecvKey(p), n)) ~> (main[p] # "run" \/ ~Awaits(RecvKey(p), n))
=============================================================================
