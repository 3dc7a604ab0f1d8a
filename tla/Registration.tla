---------------------------- MODULE Registration ----------------------------
(***************************************************************************)
(* How a boat device obtains, keeps and gives up its equipment number.     *)
(*                                                                         *)
(* Every device runs foobar.c in two threads that share globals without a  *)
(* lock: main (connect, register, read commands) and the callback thread   *)
(* of the MQTT library (RecvProc and the s*_proc handlers).  Each step     *)
(* below is the code between two accesses to state the other thread, or a  *)
(* crash, can observe.  All devices share one broker and one reply topic,  *)
(* huachen/server, so every device hears the replies meant for any of      *)
(* them.  The server and the broker are external: they are modelled from   *)
(* the requests foobar.c sends and the replies it is written to accept.    *)
(***************************************************************************)
EXTENDS Integers, Sequences

CONSTANTS
  Device,      \* the devices that share the broker
  Id,          \* equipment numbers longer than five characters
  NoId,        \* equipmentid == NULL; also an empty topic buffer
  Junk,        \* the text read through a freed pointer
  RegTopic,    \* subRegistTopic, "huachen/server"
  Budgets,     \* how often each event of the environment may happen: a choice of these
  InboxCap,    \* bound: messages waiting for one device
  SlowReply    \* TRUE: a network round trip outlasts two adjacent statements

Events == {"loss", "crash", "register", "unregister", "refuse", "resend", "query"}

Ptr   == Id \cup {NoId, Junk}
Topic == Ptr \cup {RegTopic}

ASSUME NamesDistinct ==
  /\ Device # {}
  /\ NoId \notin Id /\ Junk \notin Id /\ NoId # Junk
  /\ RegTopic \notin Ptr

ASSUME BoundsAssumption ==
  /\ Budgets \subseteq [Events -> Nat]
  /\ InboxCap \in Nat \ {0}
  /\ SlowReply \in BOOLEAN

\* "101" carries the number in id, NoId standing for a missing or short one;
\* "102" is an unregister reply with ret = 0 (or no ret at all), "102no" one
\* with another ret; "103" stands for the queries 103 and 301 sent to id's topic.
Msg    == [op : {"101", "102", "102no", "103"}, id : Id \cup {NoId}]
Config == [IsReg : {0, 1}, equipmentid : Id \cup {NoId}]
Blank  == [IsReg |-> 0, equipmentid |-> NoId]

VARIABLES
  main,            \* control state of the main thread
  arg,             \* pointer main has passed to a sprintf still running
  cb,              \* control state of the callback thread
  msg,             \* the message the callback thread handles
  equipmentid, g_reged, subNoramlTopic, pubNormalTopic, inWhatStatus,
  file,            \* device.config as Read_cfg would read it
  linked,          \* MQTTAsync_isConnected
  subs,            \* topics subscribed in the current (clean) session
  hello,           \* onConnect has yet to run for the current session
  inbox,           \* messages on their way to the device
  requests,        \* requests of the device the server has not answered
  budget,          \* events of the environment still allowed
  asked, acted,    \* history: requests made, replies acted upon, since boot
  raced            \* history: a topic was formatted through a freed pointer

threads  == <<main, arg, cb, msg>>
identity == <<equipmentid, g_reged, subNoramlTopic, pubNormalTopic>>
session  == <<linked, subs, hello>>
network  == <<inbox, requests>>
history  == <<asked, acted, raced>>
vars     == <<threads, identity, inWhatStatus, file, session, network, budget, history>>

MainPc == {"boot", "connect", "check", "fmtSub", "putSub", "fmtPub", "putPub",
           "subscribe", "ask", "mark", "loop", "leave", "leaveMark"}
RegPc   == {"reg.free", "reg.copy", "reg.sub", "reg.pub", "reg.subscribe"}
UnregPc == {"unreg.unsub", "unreg.free", "unreg.null"}
SavePc  == {"truncate", "write"}
CbPc    == {"idle", "report", "reset"} \cup RegPc \cup UnregPc \cup SavePc

TypeOK ==
  /\ main \in [Device -> MainPc] /\ arg \in [Device -> Ptr]
  /\ cb \in [Device -> CbPc]     /\ msg \in [Device -> Msg]
  /\ equipmentid \in [Device -> Ptr] /\ g_reged \in [Device -> {0, 1}]
  /\ subNoramlTopic \in [Device -> Ptr] /\ pubNormalTopic \in [Device -> Ptr]
  /\ inWhatStatus \in [Device -> {0, 1, 2}]
  /\ file \in [Device -> Config]
  /\ linked \in [Device -> BOOLEAN] /\ hello \in [Device -> BOOLEAN]
  /\ subs \in [Device -> SUBSET Topic]
  /\ inbox \in [Device -> Seq(Msg)]
  /\ requests \in [Device -> SUBSET {"101", "102"}]
  /\ budget \in [Events -> Nat]
  /\ asked \in [Device -> Nat] /\ acted \in [Device -> Nat]
  /\ raced \in [Device -> BOOLEAN]

Init ==
  /\ main = [d \in Device |-> "boot"] /\ arg = [d \in Device |-> NoId]
  /\ cb = [d \in Device |-> "idle"]
  /\ msg = [d \in Device |-> [op |-> "103", id |-> NoId]]
  /\ equipmentid = [d \in Device |-> NoId] /\ g_reged = [d \in Device |-> 0]
  /\ subNoramlTopic = [d \in Device |-> NoId]
  /\ pubNormalTopic = [d \in Device |-> NoId]
  /\ inWhatStatus = [d \in Device |-> 0]
  /\ file \in [Device -> {Blank} \cup [IsReg : {1}, equipmentid : Id]]
  /\ linked = [d \in Device |-> FALSE] /\ hello = [d \in Device |-> FALSE]
  /\ subs = [d \in Device |-> {}]
  /\ inbox = [d \in Device |-> <<>>] /\ requests = [d \in Device |-> {}]
  /\ budget \in Budgets
  /\ asked = [d \in Device |-> 0] /\ acted = [d \in Device |-> 0]
  /\ raced = [d \in Device |-> FALSE]

Spend(e) == budget[e] > 0 /\ budget' = [budget EXCEPT ![e] = @ - 1]

MainStep(d, from, to) == main[d] = from /\ main' = [main EXCEPT ![d] = to]
CbStep(d, from, to)   == cb[d] = from /\ cb' = [cb EXCEPT ![d] = to]

\* The text "%s" prints for a pointer: whatever the heap now holds at the
\* place when it was freed (MarkFreed), and no equipment number for NULL.
Text(p) == IF p \in Id THEN {p} ELSE IF p = Junk THEN Id \cup {Junk} ELSE {Junk}
MarkFreed(p) == IF p = NoId THEN NoId ELSE Junk

-----------------------------------------------------------------------------
(* Main thread: main(), cReg_Equipment, cUnreg_Equipment, get_command.     *)

\* Read_cfg.
Boot(d) ==
  /\ MainStep(d, "boot", "connect")
  /\ equipmentid' = [equipmentid EXCEPT ![d] = file[d].equipmentid]
  /\ g_reged' = [g_reged EXCEPT ![d] = file[d].IsReg]
  /\ UNCHANGED <<arg, cb, msg, subNoramlTopic, pubNormalTopic, inWhatStatus, file,
                 session, network, budget, history>>

\* The loop over init_mqtt and sleep(2) ends once the session is up.
SeeConnected(d) ==
  /\ linked[d]
  /\ MainStep(d, "connect", "check")
  /\ UNCHANGED <<arg, cb, msg, identity, inWhatStatus, file, session, network,
                 budget, history>>

\* "if( equipmentid!=NULL )": a numbered device subscribes before it registers.
\* Seeded faults: no subscription in the new session; no registration either.
AfterConnect_AskAtOnce(d) == "ask"
AfterConnect_Once(d) == IF equipmentid[d] = NoId THEN "ask" ELSE "loop"
AfterConnect(d) == IF equipmentid[d] = NoId THEN "ask" ELSE "fmtSub"

CheckIdentity(d) ==
  /\ MainStep(d, "check", AfterConnect(d))
  /\ UNCHANGED <<arg, cb, msg, identity, inWhatStatus, file, session, network,
                 budget, history>>

\* Passing equipmentid to sprintf: the pointer is read here, its text later.
LoadArg(d) ==
  /\ \/ MainStep(d, "fmtSub", "putSub")
     \/ MainStep(d, "fmtPub", "putPub")
  /\ arg' = [arg EXCEPT ![d] = equipmentid[d]]
  /\ UNCHANGED <<cb, msg, identity, inWhatStatus, file, session, network, budget,
                 history>>

PutSub(d) ==
  /\ MainStep(d, "putSub", "fmtPub")
  /\ \E t \in Text(arg[d]) : subNoramlTopic' = [subNoramlTopic EXCEPT ![d] = t]
  /\ arg' = [arg EXCEPT ![d] = NoId]
  /\ raced' = [raced EXCEPT ![d] = @ \/ arg[d] \notin Id]
  /\ UNCHANGED <<cb, msg, equipmentid, g_reged, pubNormalTopic, inWhatStatus,
                 file, session, network, budget, asked, acted>>

PutPub(d) ==
  /\ MainStep(d, "putPub", "subscribe")
  /\ \E t \in Text(arg[d]) : pubNormalTopic' = [pubNormalTopic EXCEPT ![d] = t]
  /\ arg' = [arg EXCEPT ![d] = NoId]
  /\ raced' = [raced EXCEPT ![d] = @ \/ arg[d] \notin Id]
  /\ UNCHANGED <<cb, msg, equipmentid, g_reged, subNoramlTopic, inWhatStatus,
                 file, session, network, budget, asked, acted>>

\* subs_mqttMsg: without a session the request is refused and only logged.
Subscribe(d, t) == subs' = [subs EXCEPT ![d] = IF linked[d] THEN @ \cup {t} ELSE @]

SubscribeOwn(d) ==
  /\ MainStep(d, "subscribe", "ask")
  /\ Subscribe(d, subNoramlTopic[d])
  /\ UNCHANGED <<arg, cb, msg, identity, inWhatStatus, file, linked, hello, network,
                 budget, history>>

\* send_mqttMsg drops the message, and says nothing, when the session is down.
Send(d, op) == requests' = [requests EXCEPT ![d] = IF linked[d] THEN @ \cup {op} ELSE @]

\* cReg_Equipment and cUnreg_Equipment publish first ...
Ask(d) ==
  /\ MainStep(d, "ask", "mark")
  /\ Send(d, "101")
  /\ UNCHANGED <<arg, cb, msg, identity, inWhatStatus, file, session, inbox, budget,
                 history>>

Leave(d) ==
  /\ MainStep(d, "leave", "leaveMark")
  /\ Send(d, "102")
  /\ UNCHANGED <<arg, cb, msg, identity, inWhatStatus, file, session, inbox, budget,
                 history>>

\* ... and only then note which reply they wait for.
Mark(d) ==
  /\ \/ MainStep(d, "mark", "loop") /\ inWhatStatus' = [inWhatStatus EXCEPT ![d] = 2]
     \/ MainStep(d, "leaveMark", "loop") /\ inWhatStatus' = [inWhatStatus EXCEPT ![d] = 1]
  /\ asked' = [asked EXCEPT ![d] = @ + 1]
  /\ UNCHANGED <<arg, cb, msg, identity, file, session, network, budget, acted, raced>>

\* Seeded fault: main connects again whatever the session is.
Lost_Always(d) == TRUE
Lost(d) == ~linked[d]

\* "try connecting when lost"
SeeLost(d) ==
  /\ Lost(d)
  /\ MainStep(d, "loop", "connect")
  /\ UNCHANGED <<arg, cb, msg, identity, inWhatStatus, file, session, network,
                 budget, history>>

\* get_command: the operator types 101, or 102 on a device that has a number.
Command(d) ==
  /\ \/ MainStep(d, "loop", "ask") /\ Spend("register")
     \/ MainStep(d, "loop", "leave") /\ Spend("unregister") /\ equipmentid[d] # NoId
  /\ UNCHANGED <<arg, cb, msg, identity, inWhatStatus, file, session, network, history>>

Main(d) ==
  \/ Boot(d) \/ SeeConnected(d) \/ CheckIdentity(d) \/ LoadArg(d) \/ PutSub(d)
  \/ PutPub(d) \/ SubscribeOwn(d) \/ Ask(d) \/ Leave(d) \/ Mark(d) \/ SeeLost(d)

-----------------------------------------------------------------------------
(* Callback thread: onConnect, RecvProc, sReg_Equipment_proc,              *)
(* sUnreg_Equipment_proc, cStatus_uploading and Write_cfg.                 *)

OnConnect(d) ==
  /\ hello[d] /\ cb[d] = "idle"
  /\ hello' = [hello EXCEPT ![d] = FALSE]
  /\ Subscribe(d, RegTopic)
  /\ UNCHANGED <<threads, identity, inWhatStatus, file, linked, network, budget, history>>

Take(d) ==
  /\ cb[d] = "idle" /\ inbox[d] # <<>>
  /\ inbox' = [inbox EXCEPT ![d] = Tail(@)]
  /\ UNCHANGED <<main, arg, identity, inWhatStatus, file, session, requests, budget,
                 asked, raced>>

\* The handler goes on with message m, or returns at once.
Handle(d, m, pc) == /\ cb' = [cb EXCEPT ![d] = pc] /\ msg' = [msg EXCEPT ![d] = m]
                    /\ acted' = [acted EXCEPT ![d] = @ + 1]
Ignore           == UNCHANGED <<cb, msg, acted>>

\* Seeded fault: any pending request lets any reply through.
Awaits_Any(d, k) == inWhatStatus[d] # 0
Awaits(d, k) == inWhatStatus[d] = k

\* RecvProc's dispatch up to the first lines of the handler it calls: a reply
\* counts only while its request is pending.
RecvReg(d) ==
  LET m == Head(inbox[d]) IN
  /\ Take(d) /\ m.op = "101"
  /\ IF ~Awaits(d, 2) THEN Ignore
     ELSE Handle(d, m, IF m.id = NoId THEN "reset" ELSE "reg.free")

RecvUnreg(d) ==
  LET m == Head(inbox[d]) IN
  /\ Take(d) /\ m.op \in {"102", "102no"}
  /\ IF ~Awaits(d, 1) THEN Ignore
     ELSE Handle(d, m, IF m.op = "102no" THEN "reset" ELSE "unreg.unsub")

RecvQuery(d) ==
  LET m == Head(inbox[d]) IN
  /\ Take(d) /\ m.op = "103"
  /\ IF subNoramlTopic[d] = m.id /\ equipmentid[d] # NoId
       THEN CbStep(d, "idle", "report") /\ msg' = [msg EXCEPT ![d] = m]
       ELSE UNCHANGED <<cb, msg>>
  /\ UNCHANGED acted

\* cStatus_uploading, sHeart_beating_proc: publish under pubNormalTopic.
Report(d) ==
  /\ CbStep(d, "report", "idle")
  /\ UNCHANGED <<main, arg, msg, identity, inWhatStatus, file, session, network,
                 budget, history>>

\* free( equipmentid ), seen by a sprintf of main that still holds the pointer.
Free(d) ==
  /\ equipmentid' = [equipmentid EXCEPT ![d] = MarkFreed(@)]
  /\ arg' = [arg EXCEPT ![d] = MarkFreed(@)]

RegFree(d) ==
  /\ CbStep(d, "reg.free", "reg.copy")
  /\ Free(d)
  /\ UNCHANGED <<main, msg, g_reged, subNoramlTopic, pubNormalTopic, inWhatStatus,
                 file, session, network, budget, history>>

RegCopy(d) ==
  /\ CbStep(d, "reg.copy", "reg.sub")
  /\ equipmentid' = [equipmentid EXCEPT ![d] = msg[d].id]
  /\ g_reged' = [g_reged EXCEPT ![d] = 1]
  /\ UNCHANGED <<main, arg, msg, subNoramlTopic, pubNormalTopic, inWhatStatus, file,
                 session, network, budget, history>>

RegSubTopic(d) ==
  /\ CbStep(d, "reg.sub", "reg.pub")
  /\ subNoramlTopic' = [subNoramlTopic EXCEPT ![d] = equipmentid[d]]
  /\ UNCHANGED <<main, arg, msg, equipmentid, g_reged, pubNormalTopic, inWhatStatus,
                 file, session, network, budget, history>>

\* Seeded fault: only the topic to subscribe to follows the new number.
SetPubTopic_Keep(d) == UNCHANGED pubNormalTopic
SetPubTopic(d) == pubNormalTopic' = [pubNormalTopic EXCEPT ![d] = equipmentid[d]]

RegPubTopic(d) ==
  /\ CbStep(d, "reg.pub", "reg.subscribe")
  /\ SetPubTopic(d)
  /\ UNCHANGED <<main, arg, msg, equipmentid, g_reged, subNoramlTopic, inWhatStatus,
                 file, session, network, budget, history>>

RegSubscribe(d) ==
  /\ CbStep(d, "reg.subscribe", "truncate")
  /\ Subscribe(d, subNoramlTopic[d])
  /\ UNCHANGED <<main, arg, msg, identity, inWhatStatus, file, linked, hello, network,
                 budget, history>>

Unsubscribe(d) ==
  /\ CbStep(d, "unreg.unsub", "unreg.free")
  /\ subs' = [subs EXCEPT ![d] = @ \ {subNoramlTopic[d]}]
  /\ UNCHANGED <<main, arg, msg, identity, inWhatStatus, file, linked, hello, network,
                 budget, history>>

UnregFree(d) ==
  /\ CbStep(d, "unreg.free", "unreg.null")
  /\ Free(d)
  /\ UNCHANGED <<main, msg, g_reged, subNoramlTopic, pubNormalTopic, inWhatStatus,
                 file, session, network, budget, history>>

\* Seeded fault: the freed pointer is kept.
Forget_Dangling(d) == equipmentid' = equipmentid /\ g_reged' = [g_reged EXCEPT ![d] = 0]
Forget(d) == /\ equipmentid' = [equipmentid EXCEPT ![d] = NoId]
             /\ g_reged' = [g_reged EXCEPT ![d] = 0]

UnregNull(d) ==
  /\ CbStep(d, "unreg.null", "truncate")
  /\ Forget(d)
  /\ UNCHANGED <<main, arg, msg, subNoramlTopic, pubNormalTopic, inWhatStatus, file,
                 session, network, budget, history>>

\* Write_cfg: config_save opens the file for writing, which empties it, ...
Truncate(d) ==
  /\ CbStep(d, "truncate", "write")
  /\ file' = [file EXCEPT ![d] = Blank]
  /\ UNCHANGED <<main, arg, msg, identity, inWhatStatus, session, network, budget, history>>

\* ... and then writes IsReg and the number.
\* Seeded fault: IsReg is written as 1 on both paths.
Settings_Reged(d) == [IsReg |-> 1, equipmentid |-> equipmentid[d]]
Settings(d) == [IsReg |-> g_reged[d], equipmentid |-> equipmentid[d]]

Write(d) ==
  /\ CbStep(d, "write", "reset")
  /\ file' = [file EXCEPT ![d] = Settings(d)]
  /\ UNCHANGED <<main, arg, msg, identity, inWhatStatus, session, network, budget, history>>

\* The handlers end by forgetting whatever request is pending now.
\* Seeded fault: the request stays pending after its reply.
NothingPending_Keep(d) == UNCHANGED inWhatStatus
NothingPending(d) == inWhatStatus' = [inWhatStatus EXCEPT ![d] = 0]

Reset(d) ==
  /\ CbStep(d, "reset", "idle")
  /\ NothingPending(d)
  /\ UNCHANGED <<main, arg, msg, identity, file, session, network, budget, history>>

Callback(d) ==
  \/ OnConnect(d) \/ RecvReg(d) \/ RecvUnreg(d) \/ RecvQuery(d) \/ Report(d)
  \/ RegFree(d) \/ RegCopy(d) \/ RegSubTopic(d) \/ RegPubTopic(d) \/ RegSubscribe(d)
  \/ Unsubscribe(d) \/ UnregFree(d) \/ UnregNull(d)
  \/ Truncate(d) \/ Write(d) \/ Reset(d)

-----------------------------------------------------------------------------
(* The environment: session, power, server and broker.                     *)

\* The broker accepts the connection init_mqtt asked for (cleansession = 1).
Connect(d) ==
  /\ main[d] = "connect" /\ ~linked[d]
  /\ linked' = [linked EXCEPT ![d] = TRUE]
  /\ subs' = [subs EXCEPT ![d] = {}]
  /\ hello' = [hello EXCEPT ![d] = TRUE]
  /\ UNCHANGED <<threads, identity, inWhatStatus, file, network, budget, history>>

\* The session breaks: later messages to the device and requests of it may be
\* lost, the earlier ones have arrived.
LoseLink(d) ==
  /\ linked[d] /\ Spend("loss")
  /\ linked' = [linked EXCEPT ![d] = FALSE]
  /\ subs' = [subs EXCEPT ![d] = {}]
  /\ \E k \in 0..Len(inbox[d]) : inbox' = [inbox EXCEPT ![d] = SubSeq(@, 1, k)]
  /\ \E R \in SUBSET requests[d] : requests' = [requests EXCEPT ![d] = R]
  /\ UNCHANGED <<threads, identity, inWhatStatus, file, hello, history>>

\* A crash, a power cut or the "exit" command: only the file survives.
Crash(d) ==
  /\ Spend("crash")
  /\ main' = [main EXCEPT ![d] = "boot"] /\ arg' = [arg EXCEPT ![d] = NoId]
  /\ cb' = [cb EXCEPT ![d] = "idle"]
  /\ equipmentid' = [equipmentid EXCEPT ![d] = NoId]
  /\ g_reged' = [g_reged EXCEPT ![d] = 0]
  /\ subNoramlTopic' = [subNoramlTopic EXCEPT ![d] = NoId]
  /\ pubNormalTopic' = [pubNormalTopic EXCEPT ![d] = NoId]
  /\ inWhatStatus' = [inWhatStatus EXCEPT ![d] = 0]
  /\ linked' = [linked EXCEPT ![d] = FALSE] /\ hello' = [hello EXCEPT ![d] = FALSE]
  /\ subs' = [subs EXCEPT ![d] = {}]
  /\ inbox' = [inbox EXCEPT ![d] = <<>>]
  /\ asked' = [asked EXCEPT ![d] = 0] /\ acted' = [acted EXCEPT ![d] = 0]
  /\ raced' = [raced EXCEPT ![d] = FALSE]
  /\ UNCHANGED <<msg, file, requests>>

\* The broker hands a message to every device subscribed to its topic.
Publish(t, m) ==
  /\ \A e \in Device : t \in subs[e] => Len(inbox[e]) < InboxCap
  /\ inbox' = [e \in Device |-> IF t \in subs[e] THEN Append(inbox[e], m) ELSE inbox[e]]

\* Assumption SlowReply: no reply overtakes the statement after the send, nor
\* the subscription of the session the request was sent in.
ReplyMayArrive(d) == SlowReply => ~hello[d] /\ main[d] \notin {"mark", "leaveMark"}

\* The request is answered for good, or answered and delivered again later.
Answered(d, op) ==
  \/ requests' = [requests EXCEPT ![d] = @ \ {op}] /\ UNCHANGED budget
  \/ Spend("resend") /\ UNCHANGED requests

\* All replies go to the one topic every device subscribes to.
ServerAccept(d) ==
  /\ ReplyMayArrive(d)
  /\ \/ /\ "101" \in requests[d] /\ Answered(d, "101")
        /\ \E i \in Id : Publish(RegTopic, [op |-> "101", id |-> i])
     \/ /\ "102" \in requests[d] /\ Answered(d, "102")
        /\ Publish(RegTopic, [op |-> "102", id |-> NoId])
  /\ UNCHANGED <<threads, identity, inWhatStatus, file, session, history>>

ServerRefuse(d) ==
  /\ ReplyMayArrive(d) /\ Spend("refuse")
  /\ \E op \in requests[d] :
       /\ requests' = [requests EXCEPT ![d] = @ \ {op}]
       /\ Publish(RegTopic, [op |-> IF op = "101" THEN "101" ELSE "102no", id |-> NoId])
  /\ UNCHANGED <<threads, identity, inWhatStatus, file, session, history>>

ServerQuery ==
  /\ Spend("query")
  /\ \E i \in Id : Publish(i, [op |-> "103", id |-> i])
  /\ UNCHANGED <<threads, identity, inWhatStatus, file, session, requests, history>>

Next ==
  \/ \E d \in Device : \/ Main(d) \/ Command(d) \/ Callback(d) \/ Connect(d)
                       \/ LoseLink(d) \/ Crash(d) \/ ServerAccept(d) \/ ServerRefuse(d)
  \/ ServerQuery

Spec == Init /\ [][Next]_vars

\* The scheduler runs both threads, the broker takes connections and the
\* server answers; nobody owes a device a command, a query or a failure.
Fairness == \A d \in Device : /\ WF_vars(Main(d)) /\ WF_vars(Callback(d))
                              /\ WF_vars(Connect(d)) /\ WF_vars(ServerAccept(d))

FairSpec == Spec /\ Fairness

-----------------------------------------------------------------------------
\* A reply has been accepted and its effect is not yet on disk.
Unsaved(d) == cb[d] \in RegPc \cup UnregPc \cup SavePc

\* Registration implements Enrolment: a handler takes effect for good when it
\* accepts the reply, whatever main does before it ends.
IdentityOf(d) ==
  IF main[d] = "boot" THEN file[d].equipmentid
  ELSE IF cb[d] \in RegPc THEN msg[d].id
  ELSE IF cb[d] \in UnregPc THEN NoId
  ELSE equipmentid[d]

PendingOf(d) == IF Unsaved(d) \/ cb[d] = "reset" THEN 0 ELSE inWhatStatus[d]

E == INSTANCE Enrolment WITH
  identity <- [d \in Device |-> IdentityOf(d)],
  pending  <- [d \in Device |-> PendingOf(d)],
  durable  <- [d \in Device |-> file[d].equipmentid],
  saved    <- [d \in Device |-> ~Unsaved(d)]

\* Identities change only through replies to pending requests and through
\* restarts, and a restart falls back to the file: what inWhatStatus and
\* Write_cfg are for together.
ImplementsEnrolment == E!Spec

S == INSTANCE Session WITH
  Client  <- Device,
  waiting <- [d \in Device |-> main[d] \in {"boot", "connect"}]

\* The threads of a device use its session as MqttLink provides it: they leave it
\* only when it is lost, and expect nothing of one that is.
ImplementsSession == S!Spec

\* Whatever requests, replies, duplicates and crashes came before, a device
\* whose callback thread is between messages has on disk exactly the identity
\* it holds in memory, so a restart loses nothing.
DiskMirrorsMemory ==
  \A d \in Device :
    (main[d] # "boot" /\ ~Unsaved(d)) =>
       file[d] = [IsReg |-> g_reged[d], equipmentid |-> equipmentid[d]]

\* A device acts on at most one reply per request it made: redelivered replies
\* and the replies other devices asked for cannot change it again.
OneReplyPerRequest == \A d \in Device : acted[d] <= asked[d]

\* A numbered device between messages, past the code that connects it.
Settled(d) ==
  /\ cb[d] = "idle" /\ equipmentid[d] \in Id
  /\ main[d] \in {"ask", "mark", "loop", "leave", "leaveMark"}

\* A device with a number that has finished connecting is subscribed to the
\* topic of that number, although two threads subscribe and the number may
\* arrive while main is connecting.
OwnTopicSubscribed ==
  \A d \in Device : (Settled(d) /\ linked[d] /\ ~raced[d]) => equipmentid[d] \in subs[d]

\* "subsribe the topic for registered device" (foobar.c:832), with no exception
\* for main formatting the topic while a handler replaces the number.
RegisteredTopicSubscribed ==
  \A d \in Device : (Settled(d) /\ linked[d]) => equipmentid[d] \in subs[d]

\* When neither thread is about to change the topics, both name the number the
\* device holds.
TopicsNameIdentity ==
  \A d \in Device : (Settled(d) /\ ~raced[d]) =>
    subNoramlTopic[d] = equipmentid[d] /\ pubNormalTopic[d] = equipmentid[d]

\* A query is answered under the number it was sent to.
QueriesAnsweredAsAsked ==
  [][\A d \in Device : (cb[d] = "report" /\ cb'[d] = "idle" /\ main'[d] # "boot" /\ ~raced[d])
        => pubNormalTopic[d] = msg[d].id /\ equipmentid[d] = msg[d].id]_vars

\* However often sessions break and devices crash, a fleet nobody unregisters
\* ends up with every device registered, nothing pending and its topic
\* subscribed, unless a topic was formatted through a freed pointer; provided
\* (SlowReply) no reply overtakes the note or the subscription it depends on.
FleetSettles ==
  <>[](\A d \in Device :
         /\ linked[d] /\ g_reged[d] = 1 /\ equipmentid[d] \in Id /\ inWhatStatus[d] = 0
         /\ raced[d] \/ {RegTopic, equipmentid[d]} \subseteq subs[d])
=============================================================================
