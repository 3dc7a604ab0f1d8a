--------------------------- MODULE MqttLinkProofs ---------------------------
(***************************************************************************)
(* What holds of a device's handles for any number of them and any number  *)
(* of failures: the safety properties of MqttLink and its refinement of    *)
(* Session.                                                                *)
(***************************************************************************)
EXTENDS MqttLink, TLAPS

\* The broker serves a handle that has been created and knows of its session.
OwnerUp == owner # 0 => client[owner] = "up"
NoneYet == \A h \in Handle : h > gclient => client[h] = "none"

\* Past the connection loop the newest handle is no longer connecting, so it
\* cannot come up.
Decided ==
  /\ main # "init" => gclient # 0
  /\ main \notin {"init", "test"} => client[gclient] # "connecting"

\* An older handle that is served and has the device's own topic got it when it
\* was the newest; the one that is newest now has not come up since.
Outdated ==
  (owner \notin {0, gclient} /\ OwnTopic \in topics[owner]) =>
    client[gclient] # "up" /\ main \in {"init", "test"}

LinkInv == TypeOK /\ OwnerUp /\ NoneYet /\ Decided /\ ReplyTopicHeard /\ Outdated

\* Everything starts without handles.
LEMMA LinkInit == Init => LinkInv
  <1> SUFFICES ASSUME Init PROVE LinkInv
    OBVIOUS
  <1>1. TypeOK
    <2>1. gclient \in 0..MaxHandle /\ owner \in 0..MaxHandle
      BY LinkAssumption DEF Init
    <2>2. hello \in [Handle -> BOOLEAN] /\ topics \in [Handle -> SUBSET Topics]
      BY DEF Init
    <2>3. client \in [Handle -> {"none", "connecting", "up", "down"}]
      BY DEF Init
    <2>4. budget \in [Events -> Nat]
      BY LinkAssumption DEF Init
    <2>5. equipmentid \in Pointer /\ arg \in Pointer /\ subNoramlTopic \in {OwnTopic, Junk}
      BY DEF Init, Pointer
    <2>6. armed \in BOOLEAN /\ raced \in BOOLEAN
      BY DEF Init
    <2>7. main = "init" /\ cb = "idle" /\ inWhatStatus \in 0..2 /\ uploads \in {0, 1}
      BY DEF Init
    <2> QED BY <2>1, <2>2, <2>3, <2>4, <2>5, <2>6, <2>7 DEF TypeOK
  <1>2. OwnerUp /\ NoneYet /\ Decided /\ ReplyTopicHeard /\ Outdated
    BY DEF Init, OwnerUp, NoneYet, Decided, ReplyTopicHeard, Outdated
  <1> QED BY <1>1, <1>2 DEF LinkInv

\* A subscription changes the newest handle's session only, and only if that is
\* the one served.
LEMMA SubscribeFacts ==
  ASSUME TypeOK, NEW t \in Topics, Subscribe(t)
  PROVE  /\ topics' \in [Handle -> SUBSET Topics]
         /\ \A h \in Handle : topics[h] \subseteq topics'[h]
         /\ \A h \in Handle : h # gclient => topics'[h] = topics[h]
         /\ \A h \in Handle : topics'[h] \subseteq topics[h] \cup {t}
         /\ owner # gclient => topics' = topics
         /\ (owner # 0 /\ owner = gclient /\ client[owner] = "up") => t \in topics'[owner]
  <1>1. CASE client[Target] = "up" /\ owner = Target
    <2>1. topics' = [topics EXCEPT ![gclient] = @ \cup {t}]
      BY <1>1 DEF Subscribe, Target
    <2>2. topics' \in [Handle -> SUBSET Topics]
      BY <2>1 DEF TypeOK
    <2>3. \A h \in Handle : topics'[h] = IF h = gclient THEN topics[h] \cup {t} ELSE topics[h]
      BY <2>1 DEF TypeOK
    <2>4. owner = gclient
      BY <1>1 DEF Target
    <2>5. owner # 0 => owner \in Handle
      BY LinkAssumption DEF TypeOK, Handle
    <2> QED BY <2>2, <2>3, <2>4, <2>5
  <1>2. CASE ~(client[Target] = "up" /\ owner = Target)
    <2>1. topics' = topics
      BY <1>2 DEF Subscribe
    <2> QED BY <1>2, <2>1 DEF TypeOK, Target, Handle
  <1> QED BY <1>1, <1>2

\* A failure leaves the other failures' numbers as they are.
LEMMA SpendType ==
  ASSUME budget \in [Events -> Nat], NEW f \in Events, Spend(f)
  PROVE  budget' \in [Events -> Nat]
  BY DEF Spend

\* Type correctness is inductive.
LEMMA TypeStep == TypeOK /\ [Next]_vars => TypeOK'
  <1> SUFFICES ASSUME TypeOK, [Next]_vars PROVE TypeOK'
    OBVIOUS
  <1> USE LinkAssumption
  <1>1. CASE InitMqtt
    <2>1. gclient' \in 0..MaxHandle
      BY <1>1 DEF InitMqtt, NewHandle, TypeOK
    <2>2. client' \in [Handle -> {"none", "connecting", "up", "down"}]
      BY <1>1 DEF InitMqtt, TypeOK
    <2>3. budget' \in [Events -> Nat]
      BY <1>1, SpendType DEF InitMqtt, TypeOK, Events, Failures
    <2> QED BY <1>1, <2>1, <2>2, <2>3 DEF InitMqtt, TypeOK, identity, timer
  <1>2. CASE Test
    <2>1. budget' \in [Events -> Nat]
      BY <1>2, SpendType DEF Test, TypeOK, Events, Failures
    <2> QED BY <1>2, <2>1 DEF Test, TypeOK, session, identity, timer
  <1>3. CASE CheckNumber
    <2>1. raced' \in BOOLEAN /\ main' \in {"ask", "load"}
      BY <1>3 DEF CheckNumber
    <2> QED BY <1>3, <2>1 DEF CheckNumber, TypeOK, session, identity, timer
  <1>18. CASE LoadArg
    BY <1>18 DEF LoadArg, TypeOK, session, timer
  <1>19. CASE Start_ProcTimer
    <2>1. armed' \in BOOLEAN
      BY <1>19 DEF Start_ProcTimer, Started
    <2> QED BY <1>19, <2>1 DEF Start_ProcTimer, TypeOK, session, identity
  <1>17. CASE FormatTopic
    <2>1. subNoramlTopic' \in {OwnTopic, Junk} /\ arg' = "none" /\ raced' \in BOOLEAN
      BY <1>17 DEF FormatTopic, TypeOK
    <2> QED BY <1>17, <2>1 DEF FormatTopic, Pointer, TypeOK, session, timer
  <1>4. CASE SubscribeOwn
    <2>1. topics' \in [Handle -> SUBSET Topics]
      BY <1>4, SubscribeFacts DEF SubscribeOwn, Topics, TypeOK
    <2> QED BY <1>4, <2>1 DEF SubscribeOwn, TypeOK, identity, timer
  <1>5. CASE Ask \/ Leave
    BY <1>5 DEF Ask, Leave, Request, TypeOK, Spend, session, timer, Events, Failures
  <1>15. CASE Reconnect
    BY <1>15 DEF Reconnect, TypeOK, session, identity, timer
  <1>6. ASSUME NEW h \in Handle, OnConnect(h) PROVE TypeOK'
    <2>1. topics' \in [Handle -> SUBSET Topics]
      BY <1>6, SubscribeFacts DEF OnConnect, Topics
    <2> QED BY <1>6, <2>1 DEF OnConnect, TypeOK, identity, timer
  <1>7. ASSUME NEW h \in Handle, ConnLost(h) PROVE TypeOK'
    BY <1>7 DEF ConnLost, TypeOK, identity, timer
  <1>8. ASSUME NEW h \in Handle, Accept(h) PROVE TypeOK'
    BY <1>8 DEF Accept, TypeOK, Handle, identity, timer
  <1>9. ASSUME NEW h \in Handle, Reject(h) PROVE TypeOK'
    BY <1>9 DEF Reject, TypeOK, Spend, identity, timer, Events, Failures
  <1>10. CASE Drop
    <2>1. budget' \in [Events -> Nat]
      BY <1>10, SpendType DEF Drop, TypeOK, Events, Failures
    <2>2. topics' \in [Handle -> SUBSET Topics]
      BY <1>10 DEF Drop, TypeOK
    <2> QED BY <1>10, <2>1, <2>2 DEF Drop, TypeOK, identity, timer
  <1>11. CASE RegSubscribe
    <2>1. topics' \in [Handle -> SUBSET Topics]
      BY <1>11, SubscribeFacts DEF RegSubscribe, Topics, TypeOK
    <2> QED BY <1>11, <2>1 DEF RegSubscribe, CbStep, TypeOK, identity, timer
  <1>12. CASE Unsubscribe
    <2>1. topics' \in [Handle -> SUBSET Topics]
      BY <1>12 DEF Unsubscribe, TypeOK
    <2> QED BY <1>12, <2>1 DEF Unsubscribe, CbStep, TypeOK, identity, timer
  <1>16. CASE Reply \/ Free \/ SetNumber \/ RegFormat \/ Reset
    BY <1>16 DEF Reply, Free, SetNumber, RegFormat, Reset, CbStep, MarkFreed, Pointer, TypeOK,
         session, identity, timer
  <1>13. CASE Alarm
    BY <1>13 DEF Alarm, TypeOK, session, identity
  <1>14. CASE UNCHANGED vars
    BY <1>14 DEF vars, TypeOK, session, identity, timer
  <1> QED
    BY <1>1, <1>2, <1>3, <1>4, <1>5, <1>6, <1>7, <1>8, <1>9, <1>10, <1>11, <1>12, <1>13, <1>14,
       <1>15, <1>16, <1>17, <1>18, <1>19
    DEF Next, Main, Library, Handler

\* A step of the device or the network keeps the rest of the invariant, too.
LEMMA LinkStep == LinkInv /\ [Next]_vars => LinkInv'
  <1> SUFFICES ASSUME LinkInv, [Next]_vars
               PROVE  OwnerUp' /\ NoneYet' /\ Decided' /\ ReplyTopicHeard' /\ Outdated'
    BY TypeStep DEF LinkInv
  <1> USE LinkAssumption DEF LinkInv
  <1>0. owner <= gclient /\ (owner # 0 => owner \in Handle)
    BY DEF OwnerUp, NoneYet, TypeOK, Handle
  <1>t. TypeOK'
    BY TypeStep
  <1>1. CASE InitMqtt
    <2>1. /\ gclient' = gclient + 1 /\ gclient' \in Handle /\ main' = "test"
          /\ client' = [client EXCEPT ![gclient'] = client'[gclient']]
          /\ client'[gclient'] \in {"connecting", "down"}
          /\ UNCHANGED <<hello, owner, topics>>
      BY <1>1 DEF InitMqtt, NewHandle, TypeOK, Handle
    <2>2. OwnerUp' /\ NoneYet' /\ Decided'
      BY <2>1, <1>0 DEF OwnerUp, NoneYet, Decided, TypeOK, Handle
    <2>3. ReplyTopicHeard' /\ Outdated'
      BY <2>1, <1>0 DEF ReplyTopicHeard, Outdated, TypeOK, Handle
    <2> QED BY <2>2, <2>3
  <1>2. CASE Test
    BY <1>2 DEF Test, IsConnected, session, OwnerUp, NoneYet, Decided, ReplyTopicHeard, Outdated
  <1>3. CASE SubscribeOwn \/ RegSubscribe
    <2>1. /\ \A h \in Handle : topics[h] \subseteq topics'[h]
          /\ \A h \in Handle : h # gclient => topics'[h] = topics[h]
      BY <1>3, SubscribeFacts DEF SubscribeOwn, RegSubscribe, Topics, TypeOK
    <2> QED BY <1>0, <1>3, <2>1 DEF SubscribeOwn, RegSubscribe, OwnerUp, NoneYet, Decided,
              ReplyTopicHeard, Outdated
  <1>4. CASE CheckNumber \/ LoadArg \/ FormatTopic \/ Start_ProcTimer \/ Ask \/ Leave
    BY <1>4 DEF CheckNumber, LoadArg, FormatTopic, Start_ProcTimer, Ask, Leave, session, OwnerUp,
         NoneYet, Decided, ReplyTopicHeard, Outdated
  <1>5. CASE Reconnect
    BY <1>5 DEF Reconnect, session, OwnerUp, NoneYet, Decided, ReplyTopicHeard, Outdated
  <1>6. ASSUME NEW h \in Handle, OnConnect(h)
        PROVE  OwnerUp' /\ NoneYet' /\ Decided' /\ ReplyTopicHeard' /\ Outdated'
    <2>1. /\ \A g \in Handle : topics[g] \subseteq topics'[g]
          /\ \A g \in Handle : g # gclient => topics'[g] = topics[g]
          /\ (owner # 0 /\ owner = gclient /\ client[owner] = "up") => RegTopic \in topics'[owner]
      BY <1>6, SubscribeFacts DEF OnConnect, Topics
    <2> QED BY <1>0, <1>6, <2>1 DEF OnConnect, OwnerUp, NoneYet, Decided, ReplyTopicHeard, Outdated
  <1>7. ASSUME NEW h \in Handle, ConnLost(h)
        PROVE  OwnerUp' /\ NoneYet' /\ Decided' /\ ReplyTopicHeard' /\ Outdated'
    BY <1>0, <1>7 DEF ConnLost, TypeOK, OwnerUp, NoneYet, Decided, ReplyTopicHeard, Outdated
  <1>8. ASSUME NEW h \in Handle, Accept(h)
        PROVE  OwnerUp' /\ NoneYet' /\ Decided' /\ ReplyTopicHeard' /\ Outdated'
    BY <1>0, <1>8 DEF Accept, TypeOK, OwnerUp, NoneYet, Decided, ReplyTopicHeard, Outdated, Handle
  <1>9. ASSUME NEW h \in Handle, Reject(h)
        PROVE  OwnerUp' /\ NoneYet' /\ Decided' /\ ReplyTopicHeard' /\ Outdated'
    BY <1>0, <1>9 DEF Reject, TypeOK, OwnerUp, NoneYet, Decided, ReplyTopicHeard, Outdated
  <1>10. CASE Drop
    BY <1>10 DEF Drop, OwnerUp, NoneYet, Decided, ReplyTopicHeard, Outdated
  <1>11. CASE Reply \/ Free \/ SetNumber \/ RegFormat \/ Reset
    BY <1>11 DEF Reply, Free, SetNumber, RegFormat, Reset, session, OwnerUp, NoneYet, Decided,
         ReplyTopicHeard, Outdated
  <1>12. CASE Unsubscribe
    <2>1. \A h \in Handle : /\ topics[h] \ {subNoramlTopic} \subseteq topics'[h]
                            /\ topics'[h] \subseteq topics[h]
      BY <1>12 DEF Unsubscribe, TypeOK
    <2>2. subNoramlTopic # RegTopic
      BY DEF TypeOK
    <2> QED BY <1>0, <1>12, <2>1, <2>2 DEF Unsubscribe, OwnerUp, NoneYet, Decided, ReplyTopicHeard,
              Outdated
  <1>13. CASE Alarm
    BY <1>13 DEF Alarm, session, OwnerUp, NoneYet, Decided, ReplyTopicHeard, Outdated
  <1>14. CASE UNCHANGED vars
    BY <1>14 DEF vars, session, OwnerUp, NoneYet, Decided, ReplyTopicHeard, Outdated
  <1> QED
    BY <1>1, <1>2, <1>3, <1>4, <1>5, <1>6, <1>7, <1>8, <1>9, <1>10, <1>11, <1>12, <1>13, <1>14
    DEF Next, Main, Library, Handler

\* The invariant holds in every state.
THEOREM LinkInvariant == Spec => []LinkInv
  BY LinkInit, LinkStep, PTL DEF Spec

\* Every state of the handles, the broker and the device is well typed.
THEOREM LinkTypeCorrect == Spec => []TypeOK
  BY LinkInvariant, PTL DEF LinkInv

\* The device hears the server whichever handle's onConnect subscribes, and on
\* whatever handle is newest then.
THEOREM RepliesAreHeard == Spec => []ReplyTopicHeard
  BY LinkInvariant, PTL DEF LinkInv

\* However many handles main has given up, one of them that still holds the
\* session does not have the device's own topic once main has stopped connecting.
THEOREM OldHandlesDeaf == Spec => []StaleHandleDeaf
  <1>1. LinkInv => StaleHandleDeaf
    BY DEF LinkInv, Outdated, StaleHandleDeaf
  <1> QED BY <1>1, LinkInvariant, PTL

-----------------------------------------------------------------------------
(* The refinement of Session.                                              *)

\* The three variables of Session, for the one device.
Of(v) == [c \in {"device"} |-> v]
Waiting == main \in {"init", "test"}
Subs    == IF Linked THEN topics[gclient] ELSE {}

LEMMA OneDevice ==
  ASSUME NEW v, NEW w
  PROVE  Of(v)["device"] = v /\ [Of(v) EXCEPT !["device"] = w] = Of(w)
  BY DEF Of

\* What each step of Session says of the device's session.
LEMMA SessionSteps ==
  /\ (Waiting /\ ~Linked /\ Linked' /\ Waiting' /\ Subs' = {}) => S!Connect("device")
  /\ (~Linked' /\ Waiting' = Waiting) => S!Lose("device")
  /\ \A t \in Topics :
       (Linked /\ Linked' /\ Subs' = Subs \cup {t} /\ Waiting' = Waiting) => S!Subscribe("device")
  /\ \A t \in Topics :
       (Linked /\ Linked' /\ Subs' = Subs \ {t} /\ Waiting' = Waiting) => S!Unsubscribe("device")
  /\ (Waiting /\ ~Waiting' /\ Linked' = Linked /\ Subs' = Subs) => S!GoOn("device")
  /\ (~Linked /\ ~Linked' /\ Waiting') => S!Retry("device")
  /\ (Waiting' = Waiting /\ Linked' = Linked /\ Subs' = Subs) => UNCHANGED S!vars
  <1>1. /\ Of(Waiting)["device"] = Waiting /\ Of(Linked)["device"] = Linked
        /\ Of(Subs)["device"] = Subs
    BY OneDevice
  <1>2. \A v : /\ [Of(Waiting) EXCEPT !["device"] = v] = Of(v)
               /\ [Of(Linked) EXCEPT !["device"] = v] = Of(v)
               /\ [Of(Subs) EXCEPT !["device"] = v] = Of(v)
    BY OneDevice
  <1>3. Waiting' \in BOOLEAN /\ Linked' \in BOOLEAN
    BY DEF Waiting, Linked
  <1>4. ASSUME Waiting, ~Linked, Linked', Waiting', Subs' = {} PROVE S!Connect("device")
    <2>1. Subs = {}
      BY <1>4 DEF Subs
    <2>2. Of(Waiting)' = Of(Waiting) /\ Of(Subs)' = Of(Subs) /\ Of(Linked)' = Of(TRUE)
      BY <1>3, <1>4, <2>1 DEF Of
    <2> QED BY <1>1, <1>2, <1>4, <2>2 DEF S!Connect, Of, Waiting, Subs
  <1>5. ASSUME ~Linked', Waiting' = Waiting PROVE S!Lose("device")
    <2>1. Of(Waiting)' = Of(Waiting) /\ Of(Linked)' = Of(FALSE) /\ Of(Subs)' = Of({})
      BY <1>3, <1>5 DEF Of, Subs
    <2> QED BY <1>2, <2>1 DEF S!Lose, Of, Waiting, Subs
  <1>6. ASSUME NEW t \in Topics, Linked, Linked', Subs' = Subs \cup {t}, Waiting' = Waiting
        PROVE  S!Subscribe("device")
    <2>1. Of(Waiting)' = Of(Waiting) /\ Of(Linked)' = Of(Linked) /\ Of(Subs)' = Of(Subs \cup {t})
      BY <1>3, <1>6 DEF Of, Linked
    <2> QED BY <1>1, <1>2, <1>6, <2>1 DEF S!Subscribe, Of, Waiting, Subs
  <1>7. ASSUME NEW t \in Topics, Linked, Linked', Subs' = Subs \ {t}, Waiting' = Waiting
        PROVE  S!Unsubscribe("device")
    <2>1. Of(Waiting)' = Of(Waiting) /\ Of(Linked)' = Of(Linked) /\ Of(Subs)' = Of(Subs \ {t})
      BY <1>3, <1>7 DEF Of, Linked
    <2> QED BY <1>1, <1>2, <1>7, <2>1 DEF S!Unsubscribe, Of, Waiting, Subs
  <1>8. ASSUME Waiting, ~Waiting', Linked' = Linked, Subs' = Subs PROVE S!GoOn("device")
    <2>1. Of(Waiting)' = Of(FALSE) /\ Of(Linked)' = Of(Linked) /\ Of(Subs)' = Of(Subs)
      BY <1>3, <1>8 DEF Of
    <2> QED BY <1>1, <1>2, <1>8, <2>1 DEF S!GoOn, Of, Waiting, Subs
  <1>9. ASSUME ~Linked, ~Linked', Waiting' PROVE S!Retry("device")
    <2>1. Of(Waiting)' = Of(TRUE) /\ Of(Linked)' = Of(Linked) /\ Of(Subs)' = Of(Subs)
      BY <1>3, <1>9 DEF Of, Linked, Subs
    <2> QED BY <1>1, <1>2, <1>9, <2>1 DEF S!Retry, Of, Waiting, Subs
  <1>10. ASSUME Waiting' = Waiting, Linked' = Linked, Subs' = Subs PROVE UNCHANGED S!vars
    BY <1>10 DEF S!vars, Waiting, Subs
  <1> QED BY <1>4, <1>5, <1>6, <1>7, <1>8, <1>9, <1>10

\* A subscription on the newest handle is one in the session, or none.
LEMMA SubscribeInSession ==
  ASSUME LinkInv, NEW t \in Topics, Subscribe(t), UNCHANGED <<gclient, owner>>, Waiting' = Waiting
  PROVE  S!Subscribe("device") \/ UNCHANGED S!vars
  <1>1. Linked' = Linked
    BY DEF Linked
  <1>2. CASE Linked
    <2>1. Linked /\ client[Target] = "up" /\ owner = Target /\ gclient \in Handle
      BY <1>2, LinkAssumption DEF Linked, LinkInv, OwnerUp, TypeOK, Target, Handle
    <2>2. topics'[gclient] = topics[gclient] \cup {t}
      BY <2>1 DEF Subscribe, Target, LinkInv, TypeOK
    <2>3. Subs' = Subs \cup {t}
      BY <1>1, <2>1, <2>2 DEF Subs
    <2> QED BY <1>1, <2>1, <2>3, SessionSteps
  <1>3. CASE ~Linked
    BY <1>1, <1>3, SessionSteps DEF Subs
  <1> QED BY <1>2, <1>3

\* Each step of the threads, the library and the broker is one of the session.
LEMMA RefineLink == LinkInv /\ [Next]_vars => [S!Next]_(S!vars)
  <1> SUFFICES ASSUME LinkInv, [Next]_vars
               PROVE  (\E c \in {"device"} : \/ S!Connect(c) \/ S!Lose(c) \/ S!Subscribe(c)
                          \/ S!Unsubscribe(c) \/ S!GoOn(c) \/ S!Retry(c)) \/ UNCHANGED S!vars
    BY DEF S!Next
  <1> DEFINE Goal == \/ S!Connect("device") \/ S!Lose("device") \/ S!Subscribe("device")
                     \/ S!Unsubscribe("device") \/ S!GoOn("device") \/ S!Retry("device")
                     \/ UNCHANGED S!vars
  <1> SUFFICES Goal
    OBVIOUS
  <1>0. /\ owner <= gclient /\ gclient \in Nat /\ (owner # 0 => owner \in Handle)
        /\ topics \in [Handle -> SUBSET Topics] /\ client \in [Handle -> {"none", "connecting", "up", "down"}]
    BY LinkAssumption DEF LinkInv, OwnerUp, NoneYet, TypeOK, Handle
  <1>1. CASE InitMqtt
    <2>1. gclient' = gclient + 1 /\ UNCHANGED owner
      BY <1>1 DEF InitMqtt, NewHandle
    <2>2. ~Linked' /\ Waiting' = Waiting
      BY <1>0, <1>1, <2>1 DEF InitMqtt, Linked, Waiting
    <2> QED BY <2>2, SessionSteps
  <1>2. CASE Test
    <2>1. Linked' = Linked /\ Subs' = Subs /\ Waiting /\ Waiting' \in BOOLEAN
      BY <1>2 DEF Test, Linked, Subs, session, Waiting
    <2> QED BY <2>1, SessionSteps
  <1>3. CASE SubscribeOwn \/ RegSubscribe
    <2>1. UNCHANGED <<gclient, owner>> /\ Waiting' = Waiting /\ Subscribe(subNoramlTopic)
      BY <1>3 DEF SubscribeOwn, RegSubscribe, Waiting
    <2>2. subNoramlTopic \in Topics
      BY DEF LinkInv, TypeOK, Topics
    <2> QED BY <2>1, <2>2, SubscribeInSession
  <1>4. CASE \/ CheckNumber \/ LoadArg \/ FormatTopic \/ Start_ProcTimer \/ Ask \/ Leave \/ Alarm
             \/ Reply \/ Free \/ SetNumber \/ RegFormat \/ Reset
    <2>1. /\ UNCHANGED <<gclient, session>> /\ Waiting' = Waiting
      BY <1>4 DEF CheckNumber, LoadArg, FormatTopic, Start_ProcTimer, Ask, Leave, Alarm, Reply,
           Free, SetNumber, RegFormat, Reset, Waiting
    <2>2. Linked' = Linked /\ Subs' = Subs
      BY <2>1 DEF Linked, Subs, session
    <2> QED BY <2>1, <2>2, SessionSteps
  <1>5. CASE Reconnect
    <2>1. ~Linked /\ ~Linked' /\ Waiting'
      BY <1>5 DEF Reconnect, session, IsConnected, Linked, Waiting, LinkInv, OwnerUp
    <2> QED BY <2>1, SessionSteps
  <1>6. ASSUME NEW h \in Handle, OnConnect(h) PROVE Goal
    <2>1. UNCHANGED <<gclient, owner>> /\ Waiting' = Waiting /\ Subscribe(RegTopic)
      BY <1>6 DEF OnConnect, Waiting
    <2> QED BY <2>1, SubscribeInSession DEF Topics
  <1>7. ASSUME NEW h \in Handle, ConnLost(h) PROVE Goal
    <2>1. Linked' = Linked /\ Subs' = Subs /\ Waiting' = Waiting
      BY <1>7 DEF ConnLost, Linked, Subs, Waiting
    <2> QED BY <2>1, SessionSteps
  <1>8. ASSUME NEW h \in Handle, Accept(h) PROVE Goal
    <2>1. CASE h = gclient
      <3>1. client[gclient] = "connecting" /\ gclient # 0 /\ Linked' /\ UNCHANGED main
        BY <1>8, <2>1 DEF Accept, Linked, Handle
      <3>2. Waiting /\ Waiting' /\ ~Linked
        BY <3>1 DEF LinkInv, TypeOK, Decided, OwnerUp, Waiting, Linked
      <3>3. topics'[gclient] = {} /\ gclient' = gclient
        BY <1>8, <2>1 DEF Accept
      <3> QED BY <3>1, <3>2, <3>3, SessionSteps DEF Subs
    <2>2. CASE h # gclient
      <3>1. ~Linked' /\ Waiting' = Waiting
        BY <1>8, <2>2 DEF Accept, Linked, Waiting
      <3> QED BY <3>1, SessionSteps
    <2> QED BY <2>1, <2>2
  <1>9. ASSUME NEW h \in Handle, Reject(h) PROVE Goal
    <2>1. Linked' = Linked /\ Subs' = Subs /\ Waiting' = Waiting
      BY <1>9 DEF Reject, Linked, Subs, Waiting
    <2> QED BY <2>1, SessionSteps
  <1>10. CASE Drop
    <2>1. ~Linked' /\ Waiting' = Waiting
      BY <1>10 DEF Drop, Linked, Waiting
    <2> QED BY <2>1, SessionSteps
  <1>12. CASE Unsubscribe
    <2>1. UNCHANGED <<gclient, owner>> /\ Waiting' = Waiting /\ Linked' = Linked
      BY <1>12 DEF Unsubscribe, Waiting, Linked
    <2>2. CASE Linked /\ IsConnected
      <3>1. topics'[gclient] = topics[gclient] \ {subNoramlTopic}
        BY <1>0, <1>12, <2>2 DEF Unsubscribe, Linked
      <3>2. subNoramlTopic \in Topics
        BY DEF LinkInv, TypeOK, Topics
      <3> QED BY <2>1, <2>2, <3>1, <3>2, SessionSteps DEF Subs
    <2>3. CASE ~(Linked /\ IsConnected)
      <3>1. ~Linked
        BY <2>3 DEF IsConnected, Linked, LinkInv, OwnerUp
      <3> QED BY <2>1, <3>1, SessionSteps DEF Subs
    <2> QED BY <2>2, <2>3
  <1>14. CASE UNCHANGED vars
    <2>1. Linked' = Linked /\ Subs' = Subs /\ Waiting' = Waiting
      BY <1>14 DEF vars, Linked, Subs, session, Waiting
    <2> QED BY <2>1, SessionSteps
  <1> QED
    BY <1>1, <1>2, <1>3, <1>4, <1>5, <1>6, <1>7, <1>8, <1>9, <1>10, <1>12, <1>14
    DEF Next, Main, Library, Handler

\* The handles provide what Registration assumes of a session, however many of
\* them time out, are rejected or come up late.
THEOREM LinkImplementsSession == Spec => ImplementsSession
  <1>1. Init => S!Init
    BY DEF Init, S!Init, Linked
  <1> QED BY <1>1, LinkInvariant, RefineLink, PTL DEF Spec, S!Spec, ImplementsSession
=============================================================================
