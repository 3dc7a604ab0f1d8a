------------------------------ MODULE MqttLink ------------------------------
(***************************************************************************)
(* The MQTT session of one device: mqtt.c and the connection loop of       *)
(* foobar.c's main, with the timer that the loop starts and the handlers of *)
(* replies, as far as they touch the number and the subscriptions: a step  *)
(* is the code between two accesses to state that the other thread uses,   *)
(* as in Registration, which has the number's value, the file and the      *)
(* server.  Every attempt to connect creates a new handle and stores it in *)
(* mqttClient->gclient; older handles are never destroyed, and their       *)
(* handshakes may still succeed.  All handles use one client id, so the    *)
(* broker (external, like the Paho library) ends the session of the handle *)
(* it served before.                                                       *)
(***************************************************************************)
EXTENDS Integers

CONSTANTS
  MaxHandle,   \* bound: handles created
  Budget,      \* how often each failure may happen
  RegTopic,    \* OPTS.topic, "huachen/server"
  OwnTopic,    \* what subNoramlTopic is for the number the device has
  Junk         \* any other text, as a freed pointer may show

Failures == {"drop", "reject", "slow"}
Events   == Failures \cup {"unregister"}
Handle   == 1..MaxHandle
Topics   == {RegTopic, OwnTopic, Junk}

ASSUME LinkAssumption ==
  /\ MaxHandle \in Nat \ {0} /\ Budget \in [Events -> Nat]
  /\ RegTopic # OwnTopic /\ Junk \notin {RegTopic, OwnTopic}

VARIABLES
  main,     \* control state of the main thread
  gclient,  \* the newest handle; 0 before the first
  client,   \* each handle as MQTTAsync_isConnected and the library see it
  hello,    \* the handle's onConnect has yet to run
  owner,    \* the handle the broker serves, 0 for none
  topics,   \* the subscriptions of each handle's session at the broker
  cb,           \* control state of the callback thread
  equipmentid,  \* "none" for NULL, "own" for the number, "freed" after free
  arg,          \* the same of the pointer main has passed to sprintf
  subNoramlTopic,
  inWhatStatus, \* the reply awaited: 1 to 102, 2 to 101
  armed,        \* the interval timer runs
  uploads,      \* parity of the reports the timer has published
  raced,        \* history: see SubscribeOwn and FormatTopic
  budget

session  == <<client, hello, owner, topics>>
identity == <<equipmentid, arg, subNoramlTopic, inWhatStatus>>
timer    == <<armed, uploads>>
vars     == <<main, cb, gclient, session, identity, timer, raced, budget>>

Pointer == {"none", "own", "freed"}

TypeOK ==
  /\ main \in {"init", "test", "check", "load", "format", "subscribe", "start", "ask", "loop"}
  /\ cb \in {"idle", "reg.free", "reg.copy", "reg.format", "reg.subscribe",
             "unreg.unsub", "unreg.free", "unreg.null", "reset"}
  /\ gclient \in 0..MaxHandle /\ owner \in 0..MaxHandle
  /\ client \in [Handle -> {"none", "connecting", "up", "down"}]
  /\ hello \in [Handle -> BOOLEAN]
  /\ topics \in [Handle -> SUBSET Topics]
  /\ equipmentid \in Pointer /\ arg \in Pointer /\ subNoramlTopic \in {OwnTopic, Junk}
  /\ inWhatStatus \in 0..2 /\ armed \in BOOLEAN /\ uploads \in {0, 1} /\ raced \in BOOLEAN
  /\ budget \in [Events -> Nat]

Init ==
  /\ main = "init" /\ gclient = 0 /\ owner = 0 /\ budget = Budget
  /\ client = [h \in Handle |-> "none"] /\ hello = [h \in Handle |-> FALSE]
  /\ topics = [h \in Handle |-> {}]
  /\ cb = "idle" /\ equipmentid \in {"none", "own"} /\ arg = "none" /\ subNoramlTopic = Junk
  /\ inWhatStatus = 0 /\ armed = FALSE /\ uploads = 0 /\ raced = FALSE

Spend(f) == budget[f] > 0 /\ budget' = [budget EXCEPT ![f] = @ - 1]

\* MQTTAsync_isConnected(g_myClient.gclient).
\* Seeded fault: a handle that has been created counts as connected.
IsConnected_Created == gclient # 0
IsConnected == gclient # 0 /\ client[gclient] = "up"

\* Seeded fault: the subscription goes to the first handle ever created.
Target_First == IF gclient = 0 THEN 0 ELSE 1
Target == gclient

\* MQTTAsync_subscribe on mqttClient->gclient: refused when the handle is not
\* connected, lost when the broker no longer serves it.
Subscribe(t) ==
  topics' = IF client[Target] = "up" /\ owner = Target
              THEN [topics EXCEPT ![Target] = @ \cup {t}] ELSE topics

-----------------------------------------------------------------------------
(* The main thread.                                                        *)

\* MQTTAsync_create( &mqtt->gclient, ... )
\* Seeded fault: a number is skipped.
NewHandle_Skip == gclient + 2
NewHandle == gclient + 1

\* init_mqtt: create, setCallbacks, connect.  Its failure is not looked at.
InitMqtt ==
  /\ main = "init" /\ main' = "test"
  /\ gclient < MaxHandle /\ gclient' = NewHandle
  /\ \/ client' = [client EXCEPT ![gclient'] = "connecting"] /\ UNCHANGED budget
     \/ client' = [client EXCEPT ![gclient'] = "down"] /\ Spend("reject")
  /\ UNCHANGED <<cb, hello, owner, topics, identity, timer, raced>>

\* After sleep(2) main looks at the newest handle only.  A handshake that takes
\* longer than the sleep spends "slow".
Test ==
  /\ main = "test"
  /\ main' = IF IsConnected THEN "check" ELSE "init"
  /\ IF client[gclient] = "connecting" THEN Spend("slow") ELSE UNCHANGED budget
  /\ UNCHANGED <<cb, gclient, session, identity, timer, raced>>

\* "if( equipmentid!=NULL )".
CheckNumber ==
  /\ main = "check" /\ main' = IF equipmentid = "none" THEN "ask" ELSE "load"
  /\ raced' = FALSE
  /\ UNCHANGED <<cb, gclient, session, identity, timer, budget>>

\* sprintf is passed the pointer ...
LoadArg ==
  /\ main = "load" /\ main' = "format"
  /\ arg' = equipmentid
  /\ UNCHANGED <<cb, gclient, session, equipmentid, subNoramlTopic, inWhatStatus, timer, raced, budget>>

\* ... and reads the text.
FormatTopic ==
  /\ main = "format" /\ main' = "subscribe"
  /\ subNoramlTopic' \in IF arg = "own" THEN {OwnTopic} ELSE {OwnTopic, Junk}
  /\ arg' = "none"
  /\ raced' = (raced \/ arg # "own")
  /\ UNCHANGED <<cb, gclient, session, equipmentid, inWhatStatus, timer, budget>>

\* The device has no number any more, though main saw one.
GivenUp == equipmentid = "none" \/ cb \in {"unreg.free", "unreg.null"}

SubscribeOwn ==
  /\ main = "subscribe" /\ main' = "start"
  /\ Subscribe(subNoramlTopic)
  /\ raced' = (raced \/ GivenUp)
  /\ UNCHANGED <<cb, gclient, client, hello, owner, identity, timer, budget>>

\* Seeded fault: the timer is set up without an interval.
Started_Once == armed
Started == TRUE

Start_ProcTimer ==
  /\ main = "start" /\ main' = "ask"
  /\ armed' = Started
  /\ UNCHANGED <<cb, gclient, session, identity, uploads, raced, budget>>

\* send_mqttMsg, then inWhatStatus: whether the request arrives is the server's
\* business, and a reply that comes before the note is ignored.
Request(k) == inWhatStatus' = k /\ UNCHANGED <<equipmentid, arg, subNoramlTopic>>

\* cReg_Equipment and sleep(2).
Ask ==
  /\ main = "ask" /\ main' = "loop"
  /\ Request(2)
  /\ UNCHANGED <<cb, gclient, session, timer, raced, budget>>

\* The operator's 102: cUnreg_Equipment.
Leave ==
  /\ main = "loop" /\ equipmentid # "none" /\ Spend("unregister")
  /\ Request(1)
  /\ UNCHANGED <<main, cb, gclient, session, timer, raced>>

\* "try connecting when lost"
Reconnect ==
  /\ main = "loop" /\ ~IsConnected
  /\ main' = "init"
  /\ UNCHANGED <<cb, gclient, session, identity, timer, raced, budget>>

Main == \/ InitMqtt \/ Test \/ CheckNumber \/ LoadArg \/ FormatTopic \/ SubscribeOwn
        \/ Start_ProcTimer \/ Ask \/ Reconnect

-----------------------------------------------------------------------------
(* The callback thread: one for all handles, it runs one callback at a time. *)

\* onConnect subscribes on gclient, which may be newer than the handle that
\* connected.
OnConnect(h) ==
  /\ hello[h] /\ cb = "idle"
  /\ hello' = [hello EXCEPT ![h] = FALSE]
  /\ Subscribe(RegTopic)
  /\ UNCHANGED <<main, cb, gclient, client, owner, identity, timer, raced, budget>>

CbStep(from, to) == cb = from /\ cb' = to

\* A reply reaches the handle that is served, if that one has the reply topic:
\* the server's to this device or, on the same topic, to another.
ReplyComes == owner # 0 /\ client[owner] = "up" /\ RegTopic \in topics[owner]

\* The first lines of sReg_Equipment_proc and sUnreg_Equipment_proc, for a reply
\* that is awaited.  One that refuses changes nothing but inWhatStatus.
Reply ==
  /\ ReplyComes
  /\ \/ inWhatStatus = 2 /\ CbStep("idle", "reg.free")
     \/ inWhatStatus = 1 /\ CbStep("idle", "unreg.unsub")
     \/ inWhatStatus # 0 /\ CbStep("idle", "reset")
  /\ UNCHANGED <<main, gclient, session, identity, timer, raced, budget>>

\* free( equipmentid ), seen by a sprintf of main that still holds the pointer.
MarkFreed(p) == IF p = "none" THEN "none" ELSE "freed"

Free ==
  /\ CbStep("reg.free", "reg.copy") \/ CbStep("unreg.free", "unreg.null")
  /\ equipmentid' = MarkFreed(equipmentid) /\ arg' = MarkFreed(arg)
  /\ UNCHANGED <<main, gclient, session, subNoramlTopic, inWhatStatus, timer, raced, budget>>

\* malloc and strcpy, or equipmentid=NULL.
SetNumber ==
  /\ \/ CbStep("reg.copy", "reg.format") /\ equipmentid' = "own"
     \/ CbStep("unreg.null", "reset") /\ equipmentid' = "none"
  /\ UNCHANGED <<main, gclient, session, arg, subNoramlTopic, inWhatStatus, timer, raced, budget>>

RegFormat ==
  /\ CbStep("reg.format", "reg.subscribe")
  /\ subNoramlTopic' = OwnTopic
  /\ UNCHANGED <<main, gclient, session, equipmentid, arg, inWhatStatus, timer, raced, budget>>

\* It starts no timer.
RegSubscribe ==
  /\ CbStep("reg.subscribe", "reset")
  /\ Subscribe(subNoramlTopic)
  /\ UNCHANGED <<main, gclient, client, hello, owner, identity, timer, raced, budget>>

\* unsubs_mqttMsg, refused like a subscription.
Unsubscribe ==
  /\ CbStep("unreg.unsub", "unreg.free")
  /\ topics' = IF IsConnected /\ owner = gclient
               THEN [topics EXCEPT ![owner] = @ \ {subNoramlTopic}] ELSE topics
  /\ UNCHANGED <<main, gclient, client, hello, owner, identity, timer, raced, budget>>

\* Both handlers end by forgetting whatever request is pending now.
Reset ==
  /\ CbStep("reset", "idle")
  /\ inWhatStatus' = 0
  /\ UNCHANGED <<main, gclient, session, equipmentid, arg, subNoramlTopic, timer, raced, budget>>

Handler == Free \/ SetNumber \/ RegFormat \/ RegSubscribe \/ Unsubscribe \/ Reset

-----------------------------------------------------------------------------
(* The timer, the library and the broker.                                  *)

\* TimerFun_sending_status, in whatever thread: cData_uploading sends on gclient.
Alarm ==
  /\ armed
  /\ uploads' = IF equipmentid # "none" /\ IsConnected THEN 1 - uploads ELSE uploads
  /\ UNCHANGED <<main, cb, gclient, session, identity, armed, raced, budget>>

\* The broker accepts the handshake of h, with a clean session, and drops the
\* session it had for the client id.
Accept(h) ==
  /\ client[h] = "connecting"
  /\ client' = [client EXCEPT ![h] = "up"] /\ hello' = [hello EXCEPT ![h] = TRUE]
  /\ owner' = h
  /\ topics' = [g \in Handle |-> IF g \in {h, owner} THEN {} ELSE topics[g]]
  /\ UNCHANGED <<main, cb, gclient, identity, timer, raced, budget>>

\* onConnectFailure.
Reject(h) ==
  /\ client[h] = "connecting" /\ Spend("reject")
  /\ client' = [client EXCEPT ![h] = "down"]
  /\ UNCHANGED <<main, cb, gclient, hello, owner, topics, identity, timer, raced>>

\* The connection of the served handle breaks.
Drop ==
  /\ owner # 0 /\ Spend("drop")
  /\ owner' = 0 /\ topics' = [topics EXCEPT ![owner] = {}]
  /\ UNCHANGED <<main, cb, gclient, client, hello, identity, timer, raced>>

\* connlost: the library finds that the broker serves h no longer.
ConnLost(h) ==
  /\ client[h] = "up" /\ owner # h
  /\ client' = [client EXCEPT ![h] = "down"]
  /\ UNCHANGED <<main, cb, gclient, hello, owner, topics, identity, timer, raced, budget>>

Library == \E h \in Handle : OnConnect(h) \/ ConnLost(h)

Next == \/ Main \/ Library \/ Drop \/ Leave
        \/ Reply \/ Handler \/ Alarm
        \/ \E h \in Handle : Accept(h) \/ Reject(h)

Spec == Init /\ [][Next]_vars

\* Main runs, the timer fires, callbacks end, lost sessions are noticed (keepalive) and the
\* broker answers every handshake; failures need not happen.
FairSpec ==
  /\ Spec /\ WF_vars(Main) /\ WF_vars(Handler) /\ WF_vars(Alarm)
  /\ \A h \in Handle : WF_vars(OnConnect(h)) /\ WF_vars(ConnLost(h)) /\ WF_vars(Accept(h))

-----------------------------------------------------------------------------
\* The device hears the server: once the callback of the newest handle has run,
\* its session has the reply topic, although any handle's onConnect may have
\* subscribed, and on whatever was newest then.
ReplyTopicHeard ==
  (owner # 0 /\ owner = gclient /\ ~hello[owner]) => RegTopic \in topics[owner]

\* A handle main has given up may hold the session, and a late reply may even
\* subscribe the device's own topic there; but once main has stopped connecting,
\* commands come through gclient, over which they are answered.
StaleHandleDeaf ==
  (owner \notin {0, gclient} /\ main \notin {"init", "test"}) => OwnTopic \notin topics[owner]

\* The broker serves the handle the device uses.
Linked == owner # 0 /\ owner = gclient

S == INSTANCE Session WITH
  Client  <- {"device"},
  Topic   <- Topics,
  waiting <- [c \in {"device"} |-> main \in {"init", "test"}],
  linked  <- [c \in {"device"} |-> Linked],
  subs    <- [c \in {"device"} |-> IF Linked THEN topics[gclient] ELSE {}]

\* However many handles there are, and whichever thread subscribes on which, the
\* device has one session at a time in the sense that Registration relies on: it
\* comes up only while main waits for it, empty, and is left only when lost.
ImplementsSession == S!Spec

\* Finitely many failures, late handshakes included, leave the device connected
\* through the newest handle, with the reply topic, and with its own exactly if
\* it has a number, although replies are handled at any time meanwhile; unless
\* one was while main formatted and subscribed to that topic.
LinkSettles ==
  <>[](/\ main = "loop" /\ IsConnected /\ Linked /\ RegTopic \in topics[gclient]
       /\ raced \/ (OwnTopic \in topics[gclient] <=> equipmentid # "none"))

Reports == []<><<uploads' # uploads>>_vars

\* A device that starts with a number and keeps one goes on reporting through all
\* reconnections, each of which starts the timer again.
KnownDeviceReports == [](equipmentid # "none") => Reports

\* "timer for uploading the inforamtion" (foobar.c:669): a device that has a
\* number in the end goes on reporting.
RegisteredDeviceReports == <>[](equipmentid # "none") => Reports
=============================================================================
