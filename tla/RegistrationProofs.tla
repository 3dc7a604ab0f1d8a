------------------------- MODULE RegistrationProofs -------------------------
(***************************************************************************)
(* Proofs about Registration for every fleet, set of numbers and budget:   *)
(* type correctness, the invariants on the file, replies and topics, and   *)
(* the refinement of Enrolment.  Every part of the inductive invariant     *)
(* speaks of one device, so the proofs go by who moves: main, the callback *)
(* thread, or the environment.                                             *)
(***************************************************************************)
EXTENDS Registration, SequenceTheorems, TLAPS

USE DEF threads, identity, session, network, history

-----------------------------------------------------------------------------
(* The inductive invariant.                                                *)

\* What the callback thread knows at each point of a handler: the number it
\* copies is a real one, and outside the window between free and the next
\* assignment equipmentid is no dangling pointer.
HandlerAt(d) ==
  /\ cb[d] \in RegPc => msg[d].id \in Id
  /\ cb[d] \in {"reg.sub", "reg.pub", "reg.subscribe"} => equipmentid[d] = msg[d].id
  /\ cb[d] \in {"idle", "report", "reset"} \cup SavePc => equipmentid[d] \in Id \cup {NoId}

\* Until main has read the file there is no session, hence no callback.
BootAt(d) ==
  main[d] = "boot" => /\ cb[d] = "idle" /\ ~hello[d] /\ ~linked[d]
                      /\ inbox[d] = <<>> /\ subs[d] = {} /\ inWhatStatus[d] = 0

\* DiskMirrorsMemory for one device.
DiskAt(d) ==
  (main[d] # "boot" /\ ~Unsaved(d)) =>
     file[d] = [IsReg |-> g_reged[d], equipmentid |-> equipmentid[d]]

\* A request still pending outside a handler has not been acted upon.
BalanceAt(d) ==
  /\ acted[d] <= asked[d]
  /\ (cb[d] \in {"idle", "report"} /\ inWhatStatus[d] # 0) => acted[d] < asked[d]

Parts == \A d \in Device : HandlerAt(d) /\ BootAt(d) /\ DiskAt(d) /\ BalanceAt(d)

IInv == TypeOK /\ Parts

-----------------------------------------------------------------------------
(* Type correctness, one lemma per group of actions.                       *)

LEMMA InitTyped == Init => TypeOK
<1> SUFFICES ASSUME Init PROVE TypeOK
  OBVIOUS
<1>1. file \in [Device -> Config]
  BY DEF Init, Config, Blank
<1>2. budget \in [Events -> Nat]
  BY BoundsAssumption DEF Init
<1>3. inbox \in [Device -> Seq(Msg)]
  BY DEF Init
<1>4. msg \in [Device -> Msg]
  BY DEF Init, Msg
<1>5. QED
  BY <1>1, <1>2, <1>3, <1>4 DEF Init, TypeOK, MainPc, CbPc, Ptr, Topic

LEMMA MainTyped ==
  ASSUME TypeOK, NEW d \in Device, Main(d) \/ Command(d) PROVE TypeOK'
<1> USE DEF TypeOK, Main, MainStep, MainPc, Subscribe, Send, Topic, Ptr, Text, Config, AfterConnect
<1>1. CASE Boot(d) BY <1>1 DEF Boot
<1>2. CASE SeeConnected(d) BY <1>2 DEF SeeConnected
<1>3. CASE CheckIdentity(d) BY <1>3 DEF CheckIdentity
<1>4. CASE LoadArg(d) BY <1>4 DEF LoadArg
<1>5. CASE PutSub(d) BY <1>5 DEF PutSub
<1>6. CASE PutPub(d) BY <1>6 DEF PutPub
<1>7. CASE SubscribeOwn(d) BY <1>7 DEF SubscribeOwn
<1>8. CASE Ask(d) BY <1>8 DEF Ask
<1>9. CASE Leave(d) BY <1>9 DEF Leave
<1>10. CASE Mark(d)
  <2>1. asked[d] + 1 \in Nat OBVIOUS
  <2>2. asked' \in [Device -> Nat] BY <1>10, <2>1 DEF Mark
  <2>3. QED BY <1>10, <2>2 DEF Mark
<1>11. CASE SeeLost(d) BY <1>11 DEF SeeLost
<1>12. CASE Command(d)
  <2>1. budget' \in [Events -> Nat] BY <1>12 DEF Command, Spend, Events
  <2>2. QED BY <1>12, <2>1 DEF Command
<1>13. QED BY <1>1, <1>2, <1>3, <1>4, <1>5, <1>6, <1>7, <1>8, <1>9, <1>10, <1>11, <1>12

LEMMA CallbackTyped ==
  ASSUME TypeOK, NEW d \in Device, HandlerAt(d), Callback(d) PROVE TypeOK'
<1> USE DEF TypeOK, CbStep, CbPc, RegPc, UnregPc, SavePc, Subscribe, Topic, Ptr, Free, MarkFreed
<1>1. inbox[d] # <<>> => Head(inbox[d]) \in Msg /\ Tail(inbox[d]) \in Seq(Msg)
  OBVIOUS
<1>2. acted[d] + 1 \in Nat
  OBVIOUS
<1>3. CASE OnConnect(d) BY <1>3 DEF OnConnect
<1>4. CASE RecvReg(d)
  <2>1. inbox' \in [Device -> Seq(Msg)] BY <1>1, <1>4 DEF RecvReg, Take
  <2>2. msg' \in [Device -> Msg] BY <1>1, <1>4 DEF RecvReg, Take, Handle, Ignore
  <2>3. acted' \in [Device -> Nat] BY <1>2, <1>4 DEF RecvReg, Handle, Ignore
  <2>4. cb' \in [Device -> CbPc] BY <1>4 DEF RecvReg, Handle, Ignore
  <2>5. QED BY <1>4, <2>1, <2>2, <2>3, <2>4 DEF RecvReg, Take
<1>5. CASE RecvUnreg(d)
  <2>1. inbox' \in [Device -> Seq(Msg)] BY <1>1, <1>5 DEF RecvUnreg, Take
  <2>2. msg' \in [Device -> Msg] BY <1>1, <1>5 DEF RecvUnreg, Take, Handle, Ignore
  <2>3. acted' \in [Device -> Nat] BY ZenonT(30), <1>2, <1>5 DEF RecvUnreg, Handle, Ignore
  <2>4. cb' \in [Device -> CbPc] BY <1>5 DEF RecvUnreg, Handle, Ignore
  <2>5. QED BY <1>5, <2>1, <2>2, <2>3, <2>4 DEF RecvUnreg, Take
<1>6. CASE RecvQuery(d)
  <2>1. inbox' \in [Device -> Seq(Msg)] BY <1>1, <1>6 DEF RecvQuery, Take
  <2>2. msg' \in [Device -> Msg] BY <1>1, <1>6 DEF RecvQuery, Take
  <2>3. QED BY <1>6, <2>1, <2>2 DEF RecvQuery, Take
<1>7. CASE Report(d) BY <1>7 DEF Report
<1>8. CASE RegFree(d) BY <1>8 DEF RegFree
<1>9. CASE RegCopy(d) BY <1>9 DEF RegCopy, Msg
<1>10. CASE RegSubTopic(d) BY <1>10 DEF RegSubTopic
<1>11. CASE RegPubTopic(d) BY <1>11 DEF RegPubTopic, SetPubTopic
<1>12. CASE RegSubscribe(d) BY <1>12 DEF RegSubscribe
<1>13. CASE Unsubscribe(d) BY <1>13 DEF Unsubscribe
<1>14. CASE UnregFree(d) BY <1>14 DEF UnregFree
<1>15. CASE UnregNull(d) BY <1>15 DEF UnregNull, Forget
<1>16. CASE Truncate(d) BY <1>16 DEF Truncate, Blank, Config
<1>17. CASE Reset(d) BY <1>17 DEF Reset, NothingPending
<1>18. CASE Write(d)
  <2>1. Settings(d) \in Config BY <1>18 DEF Write, Settings, HandlerAt, Config
  <2>2. QED BY <1>18, <2>1 DEF Write
<1>19. QED BY <1>3, <1>4, <1>5, <1>6, <1>7, <1>8, <1>9, <1>10, <1>11, <1>12, <1>13,
              <1>14, <1>15, <1>16, <1>17, <1>18 DEF Callback

LEMMA PublishTyped ==
  ASSUME TypeOK, NEW t, NEW m \in Msg, Publish(t, m)
  PROVE  inbox' \in [Device -> Seq(Msg)]
<1>1. \A e \in Device : Append(inbox[e], m) \in Seq(Msg)
  BY DEF TypeOK
<1>2. QED
  BY <1>1 DEF Publish, TypeOK

LEMMA SpendTyped ==
  ASSUME TypeOK, NEW e \in Events, Spend(e) PROVE budget' \in [Events -> Nat]
BY DEF TypeOK, Spend

\* The actions of the environment.
Environment(d) ==
  Connect(d) \/ LoseLink(d) \/ Crash(d) \/ ServerAccept(d) \/ ServerRefuse(d) \/ ServerQuery

LEMMA EnvironmentTyped ==
  ASSUME TypeOK, NEW d \in Device, Environment(d) PROVE TypeOK'
<1> USE DEF TypeOK
<1>1. CASE Connect(d) BY <1>1 DEF Connect
<1>2. CASE LoseLink(d)
  <2>1. budget' \in [Events -> Nat] BY <1>2, SpendTyped DEF LoseLink, Events
  <2>2. inbox' \in [Device -> Seq(Msg)]
    <3>1. PICK k \in 0..Len(inbox[d]) : inbox' = [inbox EXCEPT ![d] = SubSeq(@, 1, k)]
      BY <1>2 DEF LoseLink
    <3>2. SubSeq(inbox[d], 1, k) \in Seq(Msg)
      BY SubSeqProperties
    <3>3. QED BY <3>1, <3>2
  <2>3. requests' \in [Device -> SUBSET {"101", "102"}]
    <3>1. PICK R \in SUBSET requests[d] : requests' = [requests EXCEPT ![d] = R]
      BY <1>2 DEF LoseLink
    <3>2. R \in SUBSET {"101", "102"} OBVIOUS
    <3>3. QED BY <3>1, <3>2
  <2>4. QED BY <1>2, <2>1, <2>2, <2>3 DEF LoseLink
<1>3. CASE Crash(d)
  <2>1. budget' \in [Events -> Nat] BY <1>3, SpendTyped DEF Crash, Events
  <2>2. inbox' \in [Device -> Seq(Msg)] BY <1>3 DEF Crash
  <2>3. /\ main' \in [Device -> MainPc] /\ cb' \in [Device -> CbPc] /\ arg' \in [Device -> Ptr]
        /\ equipmentid' \in [Device -> Ptr]
    BY <1>3 DEF Crash, MainPc, CbPc, Ptr
  <2>4. subNoramlTopic' \in [Device -> Ptr] /\ pubNormalTopic' \in [Device -> Ptr]
    BY <1>3 DEF Crash, Ptr
  <2>5. QED BY ZenonT(30), <1>3, <2>1, <2>2, <2>3, <2>4 DEF Crash
<1>4. CASE ServerAccept(d)
  <2>1. inbox' \in [Device -> Seq(Msg)]
    BY <1>4, PublishTyped DEF ServerAccept, Msg
  <2>2. PICK op \in {"101", "102"} : Answered(d, op)
    BY <1>4 DEF ServerAccept
  <2>3. budget' \in [Events -> Nat] BY <2>2, SpendTyped DEF Answered, Events
  <2>4. requests' \in [Device -> SUBSET {"101", "102"}]
    <3>1. requests[d] \ {op} \in SUBSET {"101", "102"} OBVIOUS
    <3>2. QED BY <2>2, <3>1 DEF Answered
  <2>5. QED BY <1>4, <2>1, <2>3, <2>4 DEF ServerAccept
<1>5. CASE ServerRefuse(d)
  <2>1. budget' \in [Events -> Nat] BY <1>5, SpendTyped DEF ServerRefuse, Events
  <2>2. inbox' \in [Device -> Seq(Msg)]
    BY <1>5, PublishTyped DEF ServerRefuse, Msg
  <2>3. requests' \in [Device -> SUBSET {"101", "102"}] BY <1>5 DEF ServerRefuse
  <2>4. QED BY <1>5, <2>1, <2>2, <2>3 DEF ServerRefuse
<1>6. CASE ServerQuery
  <2>1. budget' \in [Events -> Nat] BY <1>6, SpendTyped DEF ServerQuery, Events
  <2>2. inbox' \in [Device -> Seq(Msg)]
    BY <1>6, PublishTyped DEF ServerQuery, Msg
  <2>3. QED BY <1>6, <2>1, <2>2 DEF ServerQuery
<1>7. QED
  BY <1>1, <1>2, <1>3, <1>4, <1>5, <1>6 DEF Environment

-----------------------------------------------------------------------------
(* The rest of the invariant.                                              *)

LEMMA InitInv == Init => Parts
<1> SUFFICES ASSUME Init, NEW d \in Device
             PROVE  HandlerAt(d) /\ BootAt(d) /\ DiskAt(d) /\ BalanceAt(d)
  BY DEF Parts
<1>1. HandlerAt(d) BY DEF Init, HandlerAt, RegPc
<1>2. BootAt(d) /\ DiskAt(d) BY DEF Init, BootAt, DiskAt
<1>3. BalanceAt(d) BY DEF Init, BalanceAt
<1>4. QED BY <1>1, <1>2, <1>3

LEMMA MainLocal ==
  ASSUME TypeOK, NEW d \in Device, Main(d) \/ Command(d), NEW e \in Device \ {d}
  PROVE  /\ UNCHANGED <<cb, msg, hello, linked, inbox, file, acted>>
         /\ main'[e] = main[e] /\ equipmentid'[e] = equipmentid[e] /\ g_reged'[e] = g_reged[e]
         /\ subs'[e] = subs[e] /\ inWhatStatus'[e] = inWhatStatus[e] /\ asked'[e] = asked[e]
<1> USE DEF TypeOK, MainStep, Subscribe
<1>1. CASE Boot(d) \/ SeeConnected(d) \/ CheckIdentity(d) \/ LoadArg(d) \/ PutSub(d) \/ PutPub(d)
  BY <1>1 DEF Boot, SeeConnected, CheckIdentity, LoadArg, PutSub, PutPub
<1>2. CASE SubscribeOwn(d) \/ Ask(d) \/ Leave(d) \/ Mark(d) \/ SeeLost(d) \/ Command(d)
  BY <1>2 DEF SubscribeOwn, Ask, Leave, Mark, SeeLost, Command
<1>3. QED BY <1>1, <1>2 DEF Main

LEMMA MainHere ==
  ASSUME IInv, NEW d \in Device, Main(d) \/ Command(d)
  PROVE  HandlerAt(d)' /\ BootAt(d)' /\ DiskAt(d)' /\ BalanceAt(d)'
<1> USE DEF TypeOK, MainStep
<1>0. TypeOK /\ HandlerAt(d) /\ BootAt(d) /\ DiskAt(d) /\ BalanceAt(d)
  BY DEF IInv, Parts
<1> USE DEF HandlerAt, BootAt, DiskAt, BalanceAt, Unsaved
<1>1. CASE Boot(d)
  <2>1. /\ file[d].equipmentid \in Id \cup {NoId}
        /\ file[d] = [IsReg |-> file[d].IsReg, equipmentid |-> file[d].equipmentid]
    BY <1>0 DEF Config
  <2>2. cb[d] = "idle" /\ cb' = cb /\ main'[d] = "connect"
    BY <1>0, <1>1 DEF Boot
  <2>3. HandlerAt(d)' BY <1>0, <1>1, <2>1, <2>2 DEF Boot, RegPc, SavePc
  <2>4. DiskAt(d)' BY <1>0, <1>1, <2>1, <2>2 DEF Boot
  <2>5. QED BY <1>0, <1>1, <2>2, <2>3, <2>4 DEF Boot
<1>2. CASE Mark(d)
  <2>1. asked'[d] = asked[d] + 1 /\ acted[d] \in Nat /\ asked[d] \in Nat /\ acted' = acted
    BY <1>0, <1>2 DEF Mark
  <2>2. acted'[d] <= asked'[d] /\ acted'[d] < asked'[d]
    BY <1>0, <2>1
  <2>3. main'[d] = "loop"
    BY <1>0, <1>2 DEF Mark
  <2>4. QED BY <1>0, <1>2, <2>2, <2>3 DEF Mark
<1>3. CASE \/ SeeConnected(d) \/ CheckIdentity(d) \/ LoadArg(d) \/ PutSub(d) \/ PutPub(d)
           \/ SubscribeOwn(d) \/ Ask(d) \/ Leave(d) \/ SeeLost(d) \/ Command(d)
  <2>1. UNCHANGED <<cb, msg, equipmentid, g_reged, inWhatStatus, file, asked, acted>>
    BY <1>3 DEF SeeConnected, CheckIdentity, LoadArg, PutSub, PutPub, SubscribeOwn, Ask, Leave,
                SeeLost, Command
  <2>2. main[d] # "boot" /\ main'[d] # "boot"
    BY <1>0, <1>3 DEF SeeConnected, CheckIdentity, AfterConnect, LoadArg, PutSub, PutPub,
                SubscribeOwn, Ask, Leave, SeeLost, Command
  <2>3. QED BY <1>0, <2>1, <2>2
<1>4. QED BY <1>1, <1>2, <1>3 DEF Main

\* Steps of the callback thread touch no other device.
LEMMA CallbackLocal ==
  ASSUME TypeOK, NEW d \in Device, Callback(d), NEW e \in Device \ {d}
  PROVE  /\ cb'[e] = cb[e] /\ msg'[e] = msg[e] /\ hello'[e] = hello[e] /\ inbox'[e] = inbox[e]
         /\ subs'[e] = subs[e] /\ equipmentid'[e] = equipmentid[e] /\ g_reged'[e] = g_reged[e]
         /\ inWhatStatus'[e] = inWhatStatus[e] /\ file'[e] = file[e] /\ acted'[e] = acted[e]
<1> USE DEF TypeOK, CbStep, Take, Handle, Ignore, Subscribe, Free
<1>1. CASE OnConnect(d) \/ RecvReg(d) \/ RecvUnreg(d) \/ RecvQuery(d) \/ Report(d)
  BY <1>1 DEF OnConnect, RecvReg, RecvUnreg, RecvQuery, Report
<1>2. CASE RegFree(d) \/ RegCopy(d) \/ RegSubTopic(d) \/ RegPubTopic(d) \/ RegSubscribe(d)
  BY <1>2 DEF RegFree, RegCopy, RegSubTopic, RegPubTopic, SetPubTopic, RegSubscribe
<1>3. CASE Unsubscribe(d) \/ UnregFree(d) \/ UnregNull(d) \/ Truncate(d) \/ Write(d) \/ Reset(d)
  BY <1>3 DEF Unsubscribe, UnregFree, UnregNull, Forget, Truncate, Write, Reset, NothingPending
<1>4. QED BY <1>1, <1>2, <1>3 DEF Callback

LEMMA CallbackFrame ==
  ASSUME NEW d \in Device, Callback(d)
  PROVE  main' = main /\ linked' = linked /\ asked' = asked
<1>1. CASE OnConnect(d) \/ RecvReg(d) \/ RecvUnreg(d) \/ RecvQuery(d) \/ Report(d)
  BY <1>1 DEF OnConnect, RecvReg, RecvUnreg, RecvQuery, Report, Take
<1>2. CASE RegFree(d) \/ RegCopy(d) \/ RegSubTopic(d) \/ RegPubTopic(d) \/ RegSubscribe(d)
  BY <1>2 DEF RegFree, RegCopy, RegSubTopic, RegPubTopic, RegSubscribe
<1>3. CASE Unsubscribe(d) \/ UnregFree(d) \/ UnregNull(d) \/ Truncate(d) \/ Write(d) \/ Reset(d)
  BY <1>3 DEF Unsubscribe, UnregFree, UnregNull, Truncate, Write, Reset
<1>4. QED BY <1>1, <1>2, <1>3 DEF Callback

LEMMA CallbackHere ==
  ASSUME IInv, NEW d \in Device, Callback(d)
  PROVE  main[d] # "boot" /\ HandlerAt(d)' /\ DiskAt(d)' /\ BalanceAt(d)'
<1> USE DEF TypeOK, CbStep, RegPc, UnregPc, SavePc, Unsaved
<1>0. TypeOK /\ HandlerAt(d) /\ BootAt(d) /\ DiskAt(d) /\ BalanceAt(d)
  BY DEF IInv, Parts
<1>1. main[d] # "boot"
  BY <1>0 DEF BootAt, Callback, OnConnect, RecvReg, RecvUnreg, RecvQuery, Take, Report, RegFree, RegCopy,
    RegSubTopic, RegPubTopic, RegSubscribe, Unsubscribe, UnregFree, UnregNull, Truncate, Write, Reset
<1>2. acted[d] \in Nat /\ asked[d] \in Nat
  BY <1>0
<1> USE DEF HandlerAt, BootAt, DiskAt, BalanceAt
<1>3. CASE OnConnect(d) BY <1>0, <1>3 DEF OnConnect
<1>4. CASE RecvReg(d)
  <2>1. CASE ~Awaits(d, 2) BY <1>0, <1>4, <2>1 DEF RecvReg, Take, Ignore
  <2>2. CASE Awaits(d, 2)
    <3>1. /\ acted'[d] = acted[d] + 1 /\ acted[d] < asked[d] /\ asked' = asked
      BY <1>0, <1>4, <2>2 DEF RecvReg, Take, Handle, Awaits
    <3>2. Head(inbox[d]) \in Msg BY <1>0, <1>4 DEF RecvReg, Take
    <3>3. BalanceAt(d)'
      BY <1>2, <3>1, <1>0, <1>4, <2>2 DEF RecvReg, Handle
    <3>4. HandlerAt(d)' /\ DiskAt(d)'
      BY <1>0, <1>4, <2>2, <3>2 DEF RecvReg, Take, Handle, Msg
    <3>5. QED BY <1>1, <3>3, <3>4
  <2>3. QED BY <2>1, <2>2
<1>5. CASE RecvUnreg(d)
  <2>1. CASE ~Awaits(d, 1) BY <1>0, <1>5, <2>1 DEF RecvUnreg, Take, Ignore
  <2>2. CASE Awaits(d, 1)
    <3>1. /\ acted'[d] = acted[d] + 1 /\ acted[d] < asked[d] /\ asked' = asked
      BY <1>0, <1>5, <2>2 DEF RecvUnreg, Take, Handle, Awaits
    <3>3. BalanceAt(d)'
      BY <1>2, <3>1, <1>0, <1>5, <2>2 DEF RecvUnreg, Handle
    <3>4. HandlerAt(d)' /\ DiskAt(d)'
      BY <1>0, <1>5, <2>2 DEF RecvUnreg, Take, Handle
    <3>5. QED BY <1>1, <3>3, <3>4
  <2>3. QED BY <2>1, <2>2
<1>6. CASE RecvQuery(d) BY <1>0, <1>6 DEF RecvQuery, Take
<1>7. CASE Report(d) BY <1>0, <1>7 DEF Report
<1>8. CASE RegFree(d) BY <1>0, <1>8 DEF RegFree
<1>9. CASE RegCopy(d) BY <1>0, <1>9 DEF RegCopy
<1>10. CASE RegSubTopic(d) BY <1>0, <1>10 DEF RegSubTopic
<1>11. CASE RegPubTopic(d) BY <1>0, <1>11 DEF RegPubTopic
<1>12. CASE RegSubscribe(d) BY <1>0, <1>12 DEF RegSubscribe
<1>13. CASE Unsubscribe(d) BY <1>0, <1>13 DEF Unsubscribe
<1>14. CASE UnregFree(d) BY <1>0, <1>14 DEF UnregFree
<1>15. CASE UnregNull(d) BY <1>0, <1>15 DEF UnregNull, Forget
<1>16. CASE Truncate(d) BY <1>0, <1>16 DEF Truncate
<1>17. CASE Write(d) BY <1>0, <1>17 DEF Write, Settings
<1>18. CASE Reset(d) BY <1>0, <1>18 DEF Reset, NothingPending
<1>19. QED
  BY <1>1, <1>3, <1>4, <1>5, <1>6, <1>7, <1>8, <1>9, <1>10, <1>11, <1>12, <1>13, <1>14,
     <1>15, <1>16, <1>17, <1>18 DEF Callback

\* Messages reach only devices with a session, and change nothing but queues.
LEMMA PublishBoot ==
  ASSUME TypeOK, NEW t, NEW m, Publish(t, m), NEW e \in Device, BootAt(e),
         UNCHANGED <<main, cb, hello, linked, subs, inWhatStatus>>
  PROVE  BootAt(e)'
BY DEF Publish, BootAt, TypeOK

LEMMA EnvironmentInv ==
  ASSUME IInv, NEW d \in Device, Environment(d) PROVE Parts'
<1>0. TypeOK /\ Parts
  BY DEF IInv
<1> SUFFICES ASSUME NEW e \in Device
             PROVE  (HandlerAt(e) /\ BootAt(e) /\ DiskAt(e) /\ BalanceAt(e))'
  BY DEF Parts
<1>1. HandlerAt(e) /\ BootAt(e) /\ DiskAt(e) /\ BalanceAt(e)
  BY <1>0 DEF Parts
<1>2. CASE Connect(d)
  BY <1>0, <1>1, <1>2 DEF Connect, TypeOK, HandlerAt, BootAt, DiskAt, BalanceAt, Unsaved
<1>3. CASE LoseLink(d)
  <2>1. HandlerAt(e)' /\ DiskAt(e)' /\ BalanceAt(e)'
    BY <1>1, <1>3 DEF LoseLink, HandlerAt, DiskAt, BalanceAt, Unsaved
  <2>2. e = d => main[e] # "boot"
    BY <1>1, <1>3 DEF LoseLink, BootAt
  <2>3. e # d => inbox'[e] = inbox[e] /\ linked'[e] = linked[e] /\ subs'[e] = subs[e]
    BY <1>0, <1>3 DEF LoseLink, TypeOK
  <2>4. BootAt(e)' BY <1>1, <1>3, <2>2, <2>3 DEF LoseLink, BootAt
  <2>5. QED BY <2>1, <2>4
<1>4. CASE Crash(d)
  <2>1. CASE e = d
    BY <1>0, <1>4, <2>1
    DEF Crash, TypeOK, HandlerAt, BootAt, DiskAt, BalanceAt, RegPc, SavePc, UnregPc, Unsaved
  <2>2. CASE e # d
    BY <1>0, <1>1, <1>4, <2>2 DEF Crash, TypeOK, HandlerAt, BootAt, DiskAt, BalanceAt, Unsaved
  <2>3. QED BY <2>1, <2>2
<1>5. CASE ServerAccept(d) \/ ServerRefuse(d) \/ ServerQuery
  <2>1. UNCHANGED <<threads, identity, inWhatStatus, file, session, history>>
    BY <1>5 DEF ServerAccept, ServerRefuse, ServerQuery
  <2>2. PICK t \in Topic, m \in Msg : Publish(t, m)
    BY <1>5 DEF ServerAccept, ServerRefuse, ServerQuery, Msg, Topic, Ptr
  <2>3. BootAt(e)' BY <1>0, <1>1, <2>1, <2>2, PublishBoot
  <2>4. HandlerAt(e)' /\ DiskAt(e)' /\ BalanceAt(e)'
    BY <1>1, <2>1 DEF HandlerAt, DiskAt, BalanceAt, Unsaved
  <2>5. QED BY <2>3, <2>4
<1>6. QED BY <1>2, <1>3, <1>4, <1>5 DEF Environment

LEMMA NextCases ==
  ASSUME Next
  PROVE  \E d \in Device : Main(d) \/ Command(d) \/ Callback(d) \/ Environment(d)
BY NamesDistinct DEF Next, Environment

LEMMA Inductive == IInv /\ [Next]_vars => IInv'
<1> SUFFICES ASSUME IInv, [Next]_vars PROVE IInv'
  OBVIOUS
<1>1. CASE UNCHANGED vars
  BY <1>1 DEF vars, IInv, TypeOK, Parts, HandlerAt, BootAt, DiskAt, BalanceAt, Unsaved
<1>2. CASE Next
  <2>1. PICK d \in Device : Main(d) \/ Command(d) \/ Callback(d) \/ Environment(d)
    BY <1>2, NextCases
  <2>2. CASE Main(d) \/ Command(d)
    <3>1. TypeOK' BY <2>2, MainTyped DEF IInv
    <3>2. ASSUME NEW e \in Device
          PROVE  (HandlerAt(e) /\ BootAt(e) /\ DiskAt(e) /\ BalanceAt(e))'
      <4>1. CASE e = d BY <2>2, <4>1, MainHere
      <4>2. CASE e # d
        <5>1. TypeOK /\ HandlerAt(e) /\ BootAt(e) /\ DiskAt(e) /\ BalanceAt(e)
          BY DEF IInv, Parts
        <5>2. /\ UNCHANGED <<cb, msg, hello, linked, inbox, file, acted>>
              /\ main'[e] = main[e] /\ equipmentid'[e] = equipmentid[e]
              /\ g_reged'[e] = g_reged[e] /\ subs'[e] = subs[e]
              /\ inWhatStatus'[e] = inWhatStatus[e] /\ asked'[e] = asked[e]
          BY <2>2, <4>2, <5>1, MainLocal
        <5>3. HandlerAt(e)' /\ BootAt(e)' BY <5>1, <5>2 DEF HandlerAt, BootAt
        <5>4. DiskAt(e)' /\ BalanceAt(e)'
          BY <5>1, <5>2 DEF DiskAt, BalanceAt, Unsaved
        <5>5. QED BY <5>3, <5>4
      <4>3. QED BY <4>1, <4>2
    <3>3. QED BY <3>1, <3>2 DEF IInv, Parts
  <2>3. CASE Callback(d)
    <3>1. TypeOK' BY <2>3, CallbackTyped DEF IInv, Parts
    <3>2. ASSUME NEW e \in Device
          PROVE  (HandlerAt(e) /\ BootAt(e) /\ DiskAt(e) /\ BalanceAt(e))'
      <4>1. main' = main /\ linked' = linked /\ asked' = asked
        BY <2>3, CallbackFrame
      <4>2. CASE e = d BY <2>3, <4>1, <4>2, CallbackHere DEF BootAt
      <4>3. CASE e # d
        <5>1. TypeOK /\ HandlerAt(e) /\ BootAt(e) /\ DiskAt(e) /\ BalanceAt(e)
          BY DEF IInv, Parts
        <5>2. /\ cb'[e] = cb[e] /\ msg'[e] = msg[e] /\ hello'[e] = hello[e]
              /\ inbox'[e] = inbox[e] /\ subs'[e] = subs[e]
              /\ equipmentid'[e] = equipmentid[e] /\ g_reged'[e] = g_reged[e]
              /\ inWhatStatus'[e] = inWhatStatus[e] /\ file'[e] = file[e]
              /\ acted'[e] = acted[e]
          BY <2>3, <4>3, <5>1, CallbackLocal
        <5>3. HandlerAt(e)' BY <5>1, <5>2 DEF HandlerAt
        <5>4. BootAt(e)' BY <4>1, <5>1, <5>2 DEF BootAt
        <5>5. DiskAt(e)' /\ BalanceAt(e)'
          BY <4>1, <5>1, <5>2 DEF DiskAt, BalanceAt, Unsaved
        <5>6. QED BY <5>3, <5>4, <5>5
      <4>4. QED BY <4>2, <4>3
    <3>3. QED BY <3>1, <3>2 DEF IInv, Parts
  <2>4. CASE Environment(d) BY <2>4, EnvironmentTyped, EnvironmentInv DEF IInv
  <2>5. QED BY <2>1, <2>2, <2>3, <2>4
<1>3. QED BY <1>1, <1>2

\* Every variable keeps to its type: in particular device.config never holds a
\* freed pointer's text, whatever the threads and crashes do.
THEOREM TypeCorrect == Spec => []TypeOK
<1>1. Init => IInv BY InitTyped, InitInv DEF IInv
<1>2. IInv => TypeOK BY DEF IInv
<1>3. QED BY <1>1, <1>2, Inductive, PTL DEF Spec

\* Outside a handler device.config holds the identity in memory (Write_cfg).
THEOREM DiskFollowsMemory == Spec => []DiskMirrorsMemory
<1>1. Init => IInv BY InitTyped, InitInv DEF IInv
<1>2. IInv => DiskMirrorsMemory BY DEF IInv, Parts, DiskAt, DiskMirrorsMemory
<1>3. QED BY <1>1, <1>2, Inductive, PTL DEF Spec

\* No device acts on more replies than it made requests (inWhatStatus).
THEOREM RepliesAccounted == Spec => []OneReplyPerRequest
<1>1. Init => IInv BY InitTyped, InitInv DEF IInv
<1>2. IInv => OneReplyPerRequest BY DEF IInv, Parts, BalanceAt, OneReplyPerRequest
<1>3. QED BY <1>1, <1>2, Inductive, PTL DEF Spec

-----------------------------------------------------------------------------
(* Registration implements Enrolment.                                      *)

\* The part of the mapped state that belongs to one device.
SameAt(e) ==
  /\ IdentityOf(e)' = IdentityOf(e) /\ PendingOf(e)' = PendingOf(e)
  /\ file'[e].equipmentid = file[e].equipmentid /\ Unsaved(e)' = Unsaved(e)

LEMMA AllSame ==
  ASSUME \A e \in Device : SameAt(e) PROVE UNCHANGED E!vars
BY DEF SameAt, E!vars

LEMMA RefineInit == Init => E!Init
<1> SUFFICES ASSUME Init PROVE E!Init
  OBVIOUS
<1>1. \A d \in Device : file[d].equipmentid \in Id \cup {NoId}
  BY InitTyped DEF TypeOK, Config
<1>2. \A d \in Device : IdentityOf(d) = file[d].equipmentid
  BY DEF Init, IdentityOf
<1>3. \A d \in Device : cb[d] = "idle" /\ inWhatStatus[d] = 0
  BY DEF Init
<1>4. \A d \in Device : PendingOf(d) = 0 /\ ~Unsaved(d)
  BY <1>3 DEF PendingOf, Unsaved, RegPc, UnregPc, SavePc
<1>5. QED BY <1>1, <1>2, <1>3, <1>4 DEF E!Init, E!Name

LEMMA RefineMain ==
  ASSUME IInv, NEW d \in Device, Main(d) \/ Command(d) PROVE [E!Next]_(E!vars)
<1> USE DEF IInv, TypeOK, MainStep
<1>1. \A e \in Device \ {d} : SameAt(e)
  BY MainLocal DEF SameAt, IdentityOf, PendingOf, Unsaved
<1>2. CASE Boot(d)
  <2>1. SameAt(d)
    BY <1>2 DEF Boot, Parts, BootAt, SameAt, IdentityOf, PendingOf, Unsaved, RegPc, UnregPc, SavePc
  <2>2. QED BY <1>1, <2>1, AllSame
<1>3. CASE Mark(d)
  <2>1. CASE Unsaved(d) \/ cb[d] = "reset"
    <3>1. SameAt(d) BY <1>3, <2>1 DEF Mark, SameAt, IdentityOf, PendingOf, Unsaved
    <3>2. QED BY <1>1, <3>1, AllSame
  <2>2. CASE ~(Unsaved(d) \/ cb[d] = "reset")
    <3>1. PICK k \in {1, 2} : inWhatStatus' = [inWhatStatus EXCEPT ![d] = k]
      BY <1>3 DEF Mark
    <3>2. PendingOf(d)' = k BY <1>3, <2>2, <3>1 DEF Mark, PendingOf, Unsaved
    <3>3. /\ IdentityOf(d)' = IdentityOf(d) /\ Unsaved(d)' = Unsaved(d) /\ file' = file
      BY <1>3 DEF Mark, IdentityOf, Unsaved
    <3>4. E!Request(d) BY <1>1, <3>2, <3>3 DEF E!Request, SameAt
    <3>5. QED BY <3>4 DEF E!Next
  <2>3. QED BY <2>1, <2>2
<1>4. CASE \/ SeeConnected(d) \/ CheckIdentity(d) \/ LoadArg(d) \/ PutSub(d) \/ PutPub(d)
           \/ SubscribeOwn(d) \/ Ask(d) \/ Leave(d) \/ SeeLost(d) \/ Command(d)
  <2>1. UNCHANGED <<cb, msg, equipmentid, inWhatStatus, file>>
    BY <1>4 DEF SeeConnected, CheckIdentity, LoadArg, PutSub, PutPub, SubscribeOwn, Ask, Leave,
                SeeLost, Command
  <2>2. main[d] # "boot" /\ main'[d] # "boot"
    BY <1>4 DEF SeeConnected, CheckIdentity, AfterConnect, LoadArg, PutSub, PutPub,
                SubscribeOwn, Ask, Leave, SeeLost, Command
  <2>3. SameAt(d) BY <2>1, <2>2 DEF SameAt, IdentityOf, PendingOf, Unsaved
  <2>4. QED BY <1>1, <2>3, AllSame
<1>5. QED BY <1>2, <1>3, <1>4 DEF Main

LEMMA RefineCallback ==
  ASSUME IInv, NEW d \in Device, Callback(d) PROVE [E!Next]_(E!vars)
<1> USE DEF TypeOK, CbStep, RegPc, UnregPc, SavePc
<1>0. TypeOK /\ HandlerAt(d) /\ main' = main /\ main[d] # "boot"
  BY CallbackFrame, CallbackHere DEF IInv, Parts
<1>1. \A e \in Device \ {d} : SameAt(e)
  BY <1>0, CallbackLocal DEF SameAt, IdentityOf, PendingOf, Unsaved
<1>2. ASSUME SameAt(d) PROVE UNCHANGED E!vars
  BY <1>1, <1>2, AllSame
<1>3. CASE OnConnect(d) \/ RecvQuery(d) \/ Report(d)
  BY <1>0, <1>2, <1>3
  DEF OnConnect, RecvQuery, Take, Report, SameAt, IdentityOf, PendingOf, Unsaved
<1>4. CASE RecvReg(d)
  <2> DEFINE m == Head(inbox[d])
  <2>1. m \in Msg /\ cb[d] = "idle" /\ UNCHANGED <<equipmentid, inWhatStatus, file>>
    BY <1>0, <1>4 DEF RecvReg, Take
  <2>2. CASE ~Awaits(d, 2)
    BY <1>0, <1>2, <1>4, <2>1, <2>2
    DEF RecvReg, Ignore, SameAt, IdentityOf, PendingOf, Unsaved
  <2>3. CASE Awaits(d, 2) /\ m.id = NoId
    <3>1. /\ PendingOf(d) = 2 /\ PendingOf(d)' = 0 /\ IdentityOf(d)' = IdentityOf(d)
          /\ Unsaved(d)' = Unsaved(d)
      BY <1>0, <1>4, <2>1, <2>3
      DEF RecvReg, Handle, Awaits, IdentityOf, PendingOf, Unsaved
    <3>2. [e \in Device |-> PendingOf(e)][d] # 0
      BY <3>1
    <3>3. E!Refused(d)
      BY <1>1, <2>1, <3>1, <3>2 DEF E!Refused, SameAt
    <3>4. QED BY <3>3 DEF E!Next
  <2>4. CASE Awaits(d, 2) /\ m.id # NoId
    <3>1. m.id \in Id BY <2>1, <2>4 DEF Msg
    <3>2. /\ PendingOf(d) = 2 /\ PendingOf(d)' = 0 /\ IdentityOf(d)' = m.id
          /\ ~Unsaved(d) /\ Unsaved(d)'
      BY <1>0, <1>4, <2>1, <2>4
      DEF RecvReg, Handle, Awaits, IdentityOf, PendingOf, Unsaved
    <3>3. E!Become(d, 2, m.id) BY <1>1, <2>1, <3>2 DEF E!Become, SameAt
    <3>4. QED BY <3>1, <3>3 DEF E!Next, E!Enroll
  <2>5. QED BY <2>2, <2>3, <2>4
<1>5. CASE RecvUnreg(d)
  <2> DEFINE m == Head(inbox[d])
  <2>1. cb[d] = "idle" /\ UNCHANGED <<equipmentid, inWhatStatus, file>>
    BY <1>5 DEF RecvUnreg, Take
  <2>2. CASE ~Awaits(d, 1)
    BY <1>0, <1>2, <1>5, <2>1, <2>2
    DEF RecvUnreg, Ignore, SameAt, IdentityOf, PendingOf, Unsaved
  <2>3. CASE Awaits(d, 1) /\ m.op = "102no"
    <3>1. /\ PendingOf(d) = 1 /\ PendingOf(d)' = 0 /\ IdentityOf(d)' = IdentityOf(d)
          /\ Unsaved(d)' = Unsaved(d)
      BY <1>0, <1>5, <2>1, <2>3
      DEF RecvUnreg, Handle, Awaits, IdentityOf, PendingOf, Unsaved
    <3>2. [e \in Device |-> PendingOf(e)][d] # 0
      BY <3>1
    <3>3. E!Refused(d)
      BY <1>1, <2>1, <3>1, <3>2 DEF E!Refused, SameAt
    <3>4. QED BY <3>3 DEF E!Next
  <2>4. CASE Awaits(d, 1) /\ m.op # "102no"
    <3>1. /\ PendingOf(d) = 1 /\ PendingOf(d)' = 0 /\ IdentityOf(d)' = NoId
          /\ ~Unsaved(d) /\ Unsaved(d)'
      BY <1>0, <1>5, <2>1, <2>4
      DEF RecvUnreg, Handle, Awaits, IdentityOf, PendingOf, Unsaved
    <3>2. E!Become(d, 1, NoId) BY <1>1, <2>1, <3>1 DEF E!Become, SameAt
    <3>3. QED BY <3>2 DEF E!Next, E!Withdraw
  <2>5. QED BY <2>2, <2>3, <2>4
<1>6. CASE RegFree(d) \/ RegCopy(d) \/ RegSubTopic(d) \/ RegPubTopic(d) \/ RegSubscribe(d)
  BY <1>0, <1>2, <1>6
  DEF HandlerAt, RegFree, RegCopy, RegSubTopic, RegPubTopic, RegSubscribe, SameAt, IdentityOf,
      PendingOf, Unsaved
<1>7. CASE Unsubscribe(d) \/ UnregFree(d) \/ UnregNull(d)
  BY <1>0, <1>2, <1>7
  DEF Unsubscribe, UnregFree, UnregNull, Forget, SameAt, IdentityOf, PendingOf, Unsaved
<1>8. CASE Truncate(d)
  <2>1. /\ PendingOf(d)' = PendingOf(d) /\ IdentityOf(d)' = IdentityOf(d)
        /\ Unsaved(d) /\ Unsaved(d)' /\ file'[d].equipmentid = NoId
    BY <1>0, <1>8 DEF Truncate, Blank, IdentityOf, PendingOf, Unsaved
  <2>2. E!Erase(d) BY <1>1, <2>1 DEF E!Erase, SameAt
  <2>3. QED BY <2>2 DEF E!Next
<1>9. CASE Write(d)
  <2>1. /\ PendingOf(d)' = PendingOf(d) /\ IdentityOf(d)' = IdentityOf(d)
        /\ Unsaved(d) /\ ~Unsaved(d)' /\ file'[d].equipmentid = IdentityOf(d)
    BY <1>0, <1>9 DEF Write, Settings, IdentityOf, PendingOf, Unsaved
  <2>2. E!Persist(d) BY <1>1, <2>1 DEF E!Persist, SameAt
  <2>3. QED BY <2>2 DEF E!Next
<1>10. CASE Reset(d)
  BY <1>0, <1>2, <1>10
  DEF Reset, NothingPending, SameAt, IdentityOf, PendingOf, Unsaved
<1>11. QED
  BY <1>3, <1>4, <1>5, <1>6, <1>7, <1>8, <1>9, <1>10 DEF Callback

LEMMA RefineEnvironment ==
  ASSUME IInv, NEW d \in Device, Environment(d) PROVE [E!Next]_(E!vars)
<1>0. TypeOK
  BY DEF IInv
<1>1. CASE Crash(d)
  <2>1. /\ IdentityOf(d)' = file[d].equipmentid /\ PendingOf(d)' = 0
        /\ ~Unsaved(d)' /\ file' = file
    BY <1>0, <1>1 DEF Crash, TypeOK, IdentityOf, PendingOf, Unsaved, RegPc, UnregPc, SavePc
  <2>2. \A e \in Device \ {d} : SameAt(e)
    BY <1>0, <1>1 DEF Crash, TypeOK, SameAt, IdentityOf, PendingOf, Unsaved
  <2>3. E!Restart(d) BY <2>1, <2>2 DEF E!Restart, SameAt
  <2>4. QED BY <2>3 DEF E!Next
<1>2. CASE Connect(d) \/ LoseLink(d) \/ ServerAccept(d) \/ ServerRefuse(d) \/ ServerQuery
  <2>1. UNCHANGED <<threads, identity, inWhatStatus, file>>
    BY <1>2 DEF Connect, LoseLink, ServerAccept, ServerRefuse, ServerQuery
  <2>2. \A e \in Device : SameAt(e)
    BY <2>1 DEF SameAt, IdentityOf, PendingOf, Unsaved
  <2>3. QED BY <2>2, AllSame
<1>3. QED BY <1>1, <1>2 DEF Environment

\* Whatever the interleaving of main, the callback thread, crashes and the other
\* devices, each device moves between identities only as Enrolment allows.
THEOREM RegistrationImplementsEnrolment == Spec => ImplementsEnrolment
<1>1. Init => IInv BY InitTyped, InitInv DEF IInv
<1>2. IInv /\ [Next]_vars => [E!Next]_(E!vars)
  <2> SUFFICES ASSUME IInv, [Next]_vars PROVE [E!Next]_(E!vars)
    OBVIOUS
  <2>1. CASE UNCHANGED vars
    <3>1. \A e \in Device : SameAt(e)
      BY <2>1 DEF vars, SameAt, IdentityOf, PendingOf, Unsaved
    <3>2. QED BY <3>1, AllSame
  <2>2. CASE Next
    BY <2>2, NextCases, RefineMain, RefineCallback, RefineEnvironment
  <2>3. QED BY <2>1, <2>2
<1>3. QED
  BY <1>1, <1>2, RefineInit, Inductive, PTL DEF Spec, ImplementsEnrolment, E!Spec

-----------------------------------------------------------------------------
(* Registration implements Session.                                        *)

InLoop(pc) == pc \in {"boot", "connect"}

LEMMA SessionVars ==
  ASSUME UNCHANGED <<linked, subs>>, \A e \in Device : InLoop(main[e])' = InLoop(main[e])
  PROVE  UNCHANGED S!vars
BY DEF S!vars, InLoop

\* What subs_mqttMsg does to the session, whichever thread calls it.
LEMMA SubscribeStep ==
  ASSUME TypeOK, NEW d \in Device, NEW t \in Topic, Subscribe(d, t), linked' = linked,
         \A e \in Device : InLoop(main[e])' = InLoop(main[e])
  PROVE  [S!Next]_(S!vars)
<1>1. CASE linked[d]
  <2>1. S!Subscribe(d) BY <1>1 DEF Subscribe, S!Subscribe, InLoop
  <2>2. QED BY <2>1 DEF S!Next
<1>2. CASE ~linked[d]
  <2>1. subs' = subs BY <1>2 DEF TypeOK, Subscribe
  <2>2. QED BY <2>1, SessionVars
<1>3. QED BY <1>1, <1>2

LEMMA SessionOfMain ==
  ASSUME TypeOK, NEW d \in Device, Main(d) \/ Command(d) PROVE [S!Next]_(S!vars)
<1> USE DEF TypeOK, MainStep, InLoop
<1>1. CASE Boot(d) \/ CheckIdentity(d) \/ LoadArg(d) \/ PutSub(d) \/ PutPub(d)
           \/ Ask(d) \/ Leave(d) \/ Mark(d) \/ Command(d)
  <2>1. UNCHANGED <<linked, subs>>
    BY <1>1 DEF Boot, CheckIdentity, LoadArg, PutSub, PutPub, Ask, Leave, Mark, Command
  <2>2. \A e \in Device : InLoop(main[e])' = InLoop(main[e])
    BY <1>1 DEF Boot, CheckIdentity, AfterConnect, LoadArg, PutSub, PutPub, Ask, Leave, Mark, Command
  <2>3. QED BY <2>1, <2>2, SessionVars
<1>2. CASE SubscribeOwn(d)
  <2>1. Subscribe(d, subNoramlTopic[d]) /\ linked' = linked /\ subNoramlTopic[d] \in Topic
    BY <1>2 DEF SubscribeOwn, Topic
  <2>2. \A e \in Device : InLoop(main[e])' = InLoop(main[e])
    BY <1>2 DEF SubscribeOwn
  <2>3. QED BY <2>1, <2>2, SubscribeStep
<1>3. CASE SeeConnected(d)
  <2>1. main[d] = "connect" /\ main' = [main EXCEPT ![d] = "check"] /\ UNCHANGED <<linked, subs>>
    BY <1>3 DEF SeeConnected
  <2> DEFINE w == [e \in Device |-> main[e] \in {"boot", "connect"}]
  <2>2. w' = [w EXCEPT ![d] = FALSE]
    <3>1. w' = [e \in Device |-> main'[e] \in {"boot", "connect"}]
      OBVIOUS
    <3>2. [w EXCEPT ![d] = FALSE] = [e \in Device |-> IF e = d THEN FALSE ELSE w[e]]
      OBVIOUS
    <3>3. ~(main'[d] \in {"boot", "connect"}) /\ \A e \in Device \ {d} : main'[e] = main[e]
      BY <2>1
    <3>4. ASSUME NEW e \in Device
          PROVE  (main'[e] \in {"boot", "connect"}) = (IF e = d THEN FALSE ELSE w[e])
      <4>1. CASE e = d
        <5>1. (main'[e] \in {"boot", "connect"}) = FALSE BY <3>3, <4>1
        <5>2. QED BY <4>1, <5>1, Zenon
      <4>2. CASE e # d
        <5>1. main'[e] = main[e] BY <3>3, <4>2
        <5>2. w[e] = (main[e] \in {"boot", "connect"}) OBVIOUS
        <5>3. QED BY <4>2, <5>1, <5>2, Zenon
      <4>3. QED BY <4>1, <4>2
    <3>5. QED BY <3>1, <3>2, <3>4
  <2>3. S!GoOn(d) BY <2>1, <2>2 DEF S!GoOn
  <2>4. QED BY <2>3 DEF S!Next
<1>4. CASE SeeLost(d)
  <2>1. S!Retry(d) BY <1>4 DEF SeeLost, Lost, S!Retry
  <2>2. QED BY <2>1 DEF S!Next
<1>5. QED BY <1>1, <1>2, <1>3, <1>4 DEF Main

LEMMA SessionOfCallback ==
  ASSUME TypeOK, NEW d \in Device, Callback(d) PROVE [S!Next]_(S!vars)
<1>1. linked' = linked /\ \A e \in Device : InLoop(main[e])' = InLoop(main[e])
  BY CallbackFrame DEF InLoop
<1>2. CASE OnConnect(d)
  <2>1. Subscribe(d, RegTopic) /\ RegTopic \in Topic BY <1>2 DEF OnConnect, Topic
  <2>2. QED BY <1>1, <2>1, SubscribeStep
<1>3. CASE RegSubscribe(d)
  <2>1. Subscribe(d, subNoramlTopic[d]) /\ subNoramlTopic[d] \in Topic
    BY <1>3 DEF RegSubscribe, TypeOK, Topic
  <2>2. QED BY <1>1, <2>1, SubscribeStep
<1>4. CASE Unsubscribe(d)
  <2>1. subNoramlTopic[d] \in Topic BY DEF TypeOK, Topic
  <2>2. S!Unsubscribe(d) BY <1>1, <1>4, <2>1 DEF Unsubscribe, S!Unsubscribe, InLoop
  <2>3. QED BY <2>2 DEF S!Next
<1>5. CASE RecvReg(d) \/ RecvUnreg(d) \/ RecvQuery(d) \/ Report(d) \/ RegFree(d) \/ RegCopy(d)
           \/ RegSubTopic(d) \/ RegPubTopic(d)
  <2>1. subs' = subs
    BY <1>5 DEF RecvReg, RecvUnreg, RecvQuery, Take, Report, RegFree, RegCopy, RegSubTopic, RegPubTopic
  <2>2. QED BY <1>1, <2>1, SessionVars
<1>6. CASE UnregFree(d) \/ UnregNull(d) \/ Truncate(d) \/ Write(d) \/ Reset(d)
  <2>1. subs' = subs
    BY <1>6 DEF UnregFree, UnregNull, Truncate, Write, Reset
  <2>2. QED BY <1>1, <2>1, SessionVars
<1>7. QED BY <1>2, <1>3, <1>4, <1>5, <1>6 DEF Callback

LEMMA SessionOfEnvironment ==
  ASSUME TypeOK, NEW d \in Device, Environment(d) PROVE [S!Next]_(S!vars)
<1> USE DEF TypeOK, InLoop
<1>1. CASE Connect(d)
  <2>1. S!Connect(d) BY <1>1 DEF Connect, S!Connect
  <2>2. QED BY <2>1 DEF S!Next
<1>2. CASE LoseLink(d)
  <2>1. S!Lose(d) BY <1>2 DEF LoseLink, S!Lose
  <2>2. QED BY <2>1 DEF S!Next
<1>3. CASE Crash(d)
  <2>1. S!Restart(d) BY <1>3 DEF Crash, S!Restart
  <2>2. QED BY <2>1 DEF S!Next
<1>4. CASE ServerAccept(d) \/ ServerRefuse(d) \/ ServerQuery
  <2>1. UNCHANGED <<main, linked, subs>> BY <1>4 DEF ServerAccept, ServerRefuse, ServerQuery
  <2>2. QED BY <2>1, SessionVars
<1>5. QED BY <1>1, <1>2, <1>3, <1>4 DEF Environment

\* The threads use their session as Session allows, for any fleet: main goes
\* back to connecting only when the session is lost.
THEOREM RegistrationImplementsSession == Spec => ImplementsSession
<1>1. Init => IInv BY InitTyped, InitInv DEF IInv
<1>2. Init => S!Init BY DEF Init, S!Init
<1>3. IInv /\ [Next]_vars => [S!Next]_(S!vars)
  <2> SUFFICES ASSUME IInv, [Next]_vars PROVE [S!Next]_(S!vars)
    OBVIOUS
  <2>1. CASE UNCHANGED vars
    BY <2>1, SessionVars DEF vars, InLoop
  <2>2. CASE Next
    BY <2>2, NextCases, SessionOfMain, SessionOfCallback, SessionOfEnvironment DEF IInv
  <2>3. QED BY <2>1, <2>2
<1>4. QED BY <1>1, <1>2, <1>3, Inductive, PTL DEF Spec, ImplementsSession, S!Spec

-----------------------------------------------------------------------------
(* The topics of a device: main and the callback thread both format and    *)
(* subscribe them without a lock, and they agree with the number all the   *)
(* same unless main formats a topic while a handler replaces the number.   *)
(* The invariant says for each topic which thread still has to set it.     *)

\* A pointer that main holds and nobody has freed is the number still: the
\* callback thread frees it before it stores another.
ArgAt(d) ==
  /\ arg[d] \in Id => arg[d] = equipmentid[d]
  /\ main[d] \notin {"putSub", "putPub"} => arg[d] = NoId
  /\ cb[d] \in {"reg.copy", "unreg.null"} => equipmentid[d] \notin Id

\* Where main has yet to format the topic to subscribe to, the one to publish
\* under, and to subscribe.
BeforeSub       == {"boot", "connect", "check", "fmtSub", "putSub"}
BeforePub       == BeforeSub \cup {"fmtPub", "putPub"}
BeforeSubscribe == BeforePub \cup {"subscribe"}

\* A topic names the number, unless the handler of a reply or, in a process
\* that has had no topic so far, main has yet to format it.
TopicAt(d) ==
  /\ main[d] = "boot" => subNoramlTopic[d] = NoId /\ pubNormalTopic[d] = NoId
  /\ main[d] = "subscribe" \/ cb[d] = "reg.subscribe" => pubNormalTopic[d] # NoId
  /\ (~raced[d] /\ equipmentid[d] \in Id /\ cb[d] # "reg.sub") =>
       \/ subNoramlTopic[d] = equipmentid[d]
       \/ subNoramlTopic[d] = NoId /\ main[d] \in BeforeSub
  /\ (~raced[d] /\ equipmentid[d] \in Id /\ cb[d] \notin {"reg.sub", "reg.pub"}) =>
       \/ pubNormalTopic[d] = equipmentid[d]
       \/ pubNormalTopic[d] = NoId /\ main[d] \in BeforePub

\* A session has the subscription, unless a handler has yet to make it or is
\* giving up the number, or main has yet to make it.
SubscribedAt(d) ==
  (~raced[d] /\ linked[d] /\ equipmentid[d] \in Id
     /\ cb[d] \notin {"reg.sub", "reg.pub", "reg.subscribe", "unreg.free"}) =>
    equipmentid[d] \in subs[d] \/ main[d] \in BeforeSubscribe

\* No query reaches a device that has no topic to answer under, and one that is
\* being answered was sent to the number the device has.
QueriesAt(d) ==
  /\ pubNormalTopic[d] = NoId => subs[d] \subseteq {RegTopic}
  /\ \A k \in DOMAIN inbox[d] :
       inbox[d][k].op = "103" => inbox[d][k].id \in Id /\ pubNormalTopic[d] # NoId
  /\ (cb[d] = "report" /\ ~raced[d]) =>
       /\ equipmentid[d] \in Id /\ msg[d].id = equipmentid[d]
       /\ pubNormalTopic[d] = equipmentid[d]

TopicParts(d) == ArgAt(d) /\ TopicAt(d) /\ SubscribedAt(d) /\ QueriesAt(d)

TInv == IInv /\ \A d \in Device : TopicParts(d)

-----------------------------------------------------------------------------
(* What a step leaves alone.                                               *)

\* All that TopicParts says of a device, but for the messages under way to it.
Kept(e) ==
  /\ main'[e] = main[e] /\ arg'[e] = arg[e] /\ cb'[e] = cb[e] /\ msg'[e] = msg[e]
  /\ equipmentid'[e] = equipmentid[e] /\ raced'[e] = raced[e]
  /\ subNoramlTopic'[e] = subNoramlTopic[e] /\ pubNormalTopic'[e] = pubNormalTopic[e]
  /\ linked'[e] = linked[e] /\ subs'[e] = subs[e]

LEMMA KeptParts ==
  ASSUME NEW e \in Device, Kept(e), inbox'[e] = inbox[e], TopicParts(e) PROVE TopicParts(e)'
<1>1. ArgAt(e)' BY DEF Kept, TopicParts, ArgAt
<1>2. TopicAt(e)' BY DEF Kept, TopicParts, TopicAt
<1>3. SubscribedAt(e)' BY DEF Kept, TopicParts, SubscribedAt
<1>4. QueriesAt(e)' BY DEF Kept, TopicParts, QueriesAt
<1>5. QED BY <1>1, <1>2, <1>3, <1>4 DEF TopicParts

LEMMA MainKeeps ==
  ASSUME TypeOK, NEW d \in Device, Main(d) \/ Command(d), NEW e \in Device \ {d}
  PROVE  Kept(e) /\ inbox'[e] = inbox[e]
<1> USE DEF TypeOK, MainStep, Subscribe, Kept
<1>1. CASE Boot(d) \/ SeeConnected(d) \/ CheckIdentity(d) \/ LoadArg(d) \/ PutSub(d) \/ PutPub(d)
  BY <1>1 DEF Boot, SeeConnected, CheckIdentity, LoadArg, PutSub, PutPub
<1>2. CASE SubscribeOwn(d) \/ Ask(d) \/ Leave(d) \/ Mark(d) \/ SeeLost(d) \/ Command(d)
  BY <1>2 DEF SubscribeOwn, Ask, Leave, Mark, SeeLost, Command
<1>3. QED BY <1>1, <1>2 DEF Main

LEMMA CallbackKeeps ==
  ASSUME TypeOK, NEW d \in Device, Callback(d), NEW e \in Device \ {d}
  PROVE  Kept(e) /\ inbox'[e] = inbox[e]
<1> USE DEF TypeOK, CbStep, Take, Handle, Ignore, Subscribe, Free, Kept
<1>1. CASE OnConnect(d) \/ RecvReg(d) \/ RecvUnreg(d) \/ RecvQuery(d) \/ Report(d)
  BY <1>1 DEF OnConnect, RecvReg, RecvUnreg, RecvQuery, Report
<1>2. CASE RegFree(d) \/ RegCopy(d) \/ RegSubTopic(d) \/ RegPubTopic(d) \/ RegSubscribe(d)
  BY <1>2 DEF RegFree, RegCopy, RegSubTopic, RegPubTopic, SetPubTopic, RegSubscribe
<1>3. CASE Unsubscribe(d) \/ UnregFree(d) \/ UnregNull(d) \/ Truncate(d) \/ Write(d) \/ Reset(d)
  BY <1>3 DEF Unsubscribe, UnregFree, UnregNull, Forget, Truncate, Write, Reset, NothingPending
<1>4. QED BY <1>1, <1>2, <1>3 DEF Callback

-----------------------------------------------------------------------------
(* The steps of main.                                                      *)

\* What the heap prints for a pointer is a number if the pointer is one, and
\* some text in any case.
LEMMA TextFacts ==
  ASSUME NEW p, NEW t \in Text(p)
  PROVE  t # NoId /\ (p \in Id => t = p)
BY NamesDistinct DEF Text

LEMMA MainTopics ==
  ASSUME TInv, NEW d \in Device, Main(d) \/ Command(d) PROVE TopicParts(d)'
<1>0. TypeOK /\ HandlerAt(d) /\ BootAt(d) /\ TopicParts(d)
  BY DEF TInv, IInv, Parts
<1> USE DEF TypeOK, MainStep, BeforeSub, BeforePub, BeforeSubscribe, TopicParts, ArgAt, TopicAt,
            SubscribedAt, QueriesAt
<1>1. CASE Boot(d)
  <2>1. BootAt(d) /\ main[d] = "boot" BY <1>0, <1>1 DEF Boot
  <2>2. QED BY <1>0, <1>1, <2>1, NamesDistinct DEF Boot, BootAt
<1>2. CASE SeeConnected(d) BY <1>0, <1>2 DEF SeeConnected
<1>3. CASE CheckIdentity(d) BY <1>0, <1>3, NamesDistinct DEF CheckIdentity, AfterConnect
<1>4. CASE LoadArg(d) BY <1>0, <1>4 DEF LoadArg
<1>5. CASE PutSub(d)
  <2>1. PICK t \in Text(arg[d]) : subNoramlTopic' = [subNoramlTopic EXCEPT ![d] = t]
    BY <1>5 DEF PutSub
  <2>2. arg[d] \in Id => t = arg[d] BY <2>1, TextFacts
  <2>3. /\ main[d] = "putSub" /\ main'[d] = "fmtPub" /\ arg'[d] = NoId /\ subNoramlTopic'[d] = t
        /\ ~raced'[d] => ~raced[d] /\ arg[d] \in Id
        /\ cb'[d] = cb[d] /\ msg'[d] = msg[d] /\ equipmentid'[d] = equipmentid[d]
        /\ pubNormalTopic'[d] = pubNormalTopic[d] /\ inbox'[d] = inbox[d] /\ subs'[d] = subs[d]
        /\ linked'[d] = linked[d]
    BY ZenonT(30), <1>0, <1>5, <2>1 DEF PutSub, session, network
  <2>4. ArgAt(d)' BY <1>0, <2>3, NamesDistinct
  <2>5. TopicAt(d)' BY <1>0, <2>2, <2>3
  <2>6. SubscribedAt(d)' BY <1>0, <2>3
  <2>7. QueriesAt(d)' BY <1>0, <2>3
  <2>8. QED BY <2>4, <2>5, <2>6, <2>7
<1>6. CASE PutPub(d)
  <2>1. PICK t \in Text(arg[d]) : pubNormalTopic' = [pubNormalTopic EXCEPT ![d] = t]
    BY <1>6 DEF PutPub
  <2>2. t # NoId /\ (arg[d] \in Id => t = arg[d]) BY <2>1, TextFacts
  <2>3. /\ main[d] = "putPub" /\ main'[d] = "subscribe" /\ arg'[d] = NoId /\ pubNormalTopic'[d] = t
        /\ ~raced'[d] => ~raced[d] /\ arg[d] \in Id
        /\ cb'[d] = cb[d] /\ msg'[d] = msg[d] /\ equipmentid'[d] = equipmentid[d]
        /\ subNoramlTopic'[d] = subNoramlTopic[d] /\ inbox'[d] = inbox[d] /\ subs'[d] = subs[d]
        /\ linked'[d] = linked[d]
    BY ZenonT(30), <1>0, <1>6, <2>1 DEF PutPub, session, network
  <2>4. ArgAt(d)' BY <1>0, <2>3, NamesDistinct
  <2>5. TopicAt(d)' BY <1>0, <2>2, <2>3
  <2>6. SubscribedAt(d)' BY <1>0, <2>3
  <2>7. QueriesAt(d)' BY <1>0, <2>2, <2>3
  <2>8. QED BY <2>4, <2>5, <2>6, <2>7
<1>7. CASE SubscribeOwn(d) BY <1>0, <1>7 DEF SubscribeOwn, Subscribe
<1>8. CASE Ask(d) \/ Leave(d) \/ Mark(d) BY <1>0, <1>8 DEF Ask, Leave, Mark
<1>9. CASE SeeLost(d) BY <1>0, <1>9 DEF SeeLost
<1>10. CASE Command(d) BY <1>0, <1>10 DEF Command
<1>11. QED BY <1>1, <1>2, <1>3, <1>4, <1>5, <1>6, <1>7, <1>8, <1>9, <1>10 DEF Main

-----------------------------------------------------------------------------
(* The steps of the callback thread.                                       *)

\* Taking a message leaves the others as they were.
LEMMA TakeKeeps ==
  ASSUME TypeOK, NEW d \in Device, Take(d), QueriesAt(d)
  PROVE  /\ \A k \in DOMAIN inbox'[d] :
              inbox'[d][k].op = "103" => inbox'[d][k].id \in Id /\ pubNormalTopic[d] # NoId
         /\ Head(inbox[d]).op = "103" => Head(inbox[d]).id \in Id /\ pubNormalTopic[d] # NoId
<1>1. inbox[d] \in Seq(Msg) /\ inbox[d] # <<>> /\ inbox'[d] = Tail(inbox[d]) BY DEF TypeOK, Take
<1>2. \A k \in DOMAIN inbox'[d] : k + 1 \in DOMAIN inbox[d] /\ inbox'[d][k] = inbox[d][k + 1]
  BY <1>1
<1>3. 1 \in DOMAIN inbox[d] /\ Head(inbox[d]) = inbox[d][1] BY <1>1
<1>4. QED BY <1>2, <1>3 DEF QueriesAt

LEMMA CallbackTopics ==
  ASSUME TInv, NEW d \in Device, Callback(d) PROVE TopicParts(d)'
<1>0. TypeOK /\ HandlerAt(d) /\ BootAt(d) /\ TopicParts(d) /\ QueriesAt(d)
  BY DEF TInv, IInv, Parts, TopicParts
<1>1. main' = main /\ linked' = linked /\ main[d] # "boot"
  BY CallbackFrame, CallbackHere DEF TInv
<1> USE DEF TypeOK, CbStep, BeforeSub, BeforePub, BeforeSubscribe, TopicParts, ArgAt, TopicAt,
            SubscribedAt, QueriesAt
<1>2. CASE OnConnect(d) BY <1>0, <1>2 DEF OnConnect, Subscribe
<1>3. CASE RecvReg(d) \/ RecvUnreg(d)
  <2>1. Take(d) /\ cb[d] = "idle" BY <1>3 DEF RecvReg, RecvUnreg, Take
  <2>2. cb'[d] \in {"idle", "reset", "reg.free", "unreg.unsub"}
    BY <1>0, <1>3 DEF RecvReg, RecvUnreg, Take, Handle, Ignore
  <2>3. ArgAt(d)' BY <1>0, <2>1, <2>2 DEF Take
  <2>4. TopicAt(d)' BY <1>0, <2>1, <2>2 DEF Take
  <2>5. SubscribedAt(d)' BY <1>0, <2>1, <2>2 DEF Take
  <2>6. QueriesAt(d)'
    <3>1. \A k \in DOMAIN inbox'[d] :
            inbox'[d][k].op = "103" => inbox'[d][k].id \in Id /\ pubNormalTopic[d] # NoId
      BY <1>0, <2>1, TakeKeeps
    <3>2. QED BY <1>0, <2>1, <2>2, <3>1 DEF Take
  <2>7. QED BY <2>3, <2>4, <2>5, <2>6
<1>4. CASE RecvQuery(d)
  <2>1. Take(d) /\ cb[d] = "idle" /\ UNCHANGED <<main, arg, identity, session, raced>>
    BY <1>4 DEF RecvQuery, Take
  <2>2. \/ cb'[d] = "idle"
        \/ /\ cb'[d] = "report" /\ msg'[d] = Head(inbox[d])
           /\ subNoramlTopic[d] = Head(inbox[d]).id /\ equipmentid[d] # NoId
    BY <1>0, <1>4 DEF RecvQuery, Take
  <2>3. Head(inbox[d]).op = "103" BY <1>4 DEF RecvQuery
  <2>4. ArgAt(d)' BY <1>0, <2>1, <2>2
  <2>5. TopicAt(d)' BY <1>0, <2>1, <2>2
  <2>6. SubscribedAt(d)' BY <1>0, <2>1, <2>2
  <2>7. QueriesAt(d)'
    <3>1. \A k \in DOMAIN inbox'[d] :
            inbox'[d][k].op = "103" => inbox'[d][k].id \in Id /\ pubNormalTopic[d] # NoId
      BY <1>0, <2>1, TakeKeeps
    <3>2. Head(inbox[d]).id \in Id /\ pubNormalTopic[d] # NoId BY <1>0, <2>1, <2>3, TakeKeeps
    <3>3. equipmentid[d] \in Id \cup {NoId} BY <1>0, <2>1 DEF HandlerAt
    <3>4. (cb'[d] = "report" /\ ~raced[d]) =>
            /\ equipmentid[d] \in Id /\ msg'[d].id = equipmentid[d]
            /\ pubNormalTopic[d] = equipmentid[d]
      BY <1>0, <2>1, <2>2, <3>2, <3>3, NamesDistinct
    <3>5. QED BY <1>0, <2>1, <3>1, <3>4
  <2>8. QED BY <2>4, <2>5, <2>6, <2>7
<1>5. CASE Report(d) BY <1>0, <1>5 DEF Report
<1>6. CASE RegFree(d) \/ UnregFree(d)
  <2>1. equipmentid'[d] \notin Id /\ arg'[d] \notin Id /\ (arg[d] = NoId => arg'[d] = NoId)
    BY <1>0, <1>6, NamesDistinct DEF RegFree, UnregFree, Free, MarkFreed
  <2>2. cb'[d] # "report" BY <1>0, <1>6 DEF RegFree, UnregFree
  <2>3. QED BY <1>0, <1>6, <2>1, <2>2 DEF RegFree, UnregFree
<1>7. CASE RegCopy(d)
  <2>1. /\ cb[d] = "reg.copy" /\ cb'[d] = "reg.sub" /\ arg' = arg
        /\ UNCHANGED <<main, subNoramlTopic, pubNormalTopic, session, inbox, raced>>
    BY <1>0, <1>7 DEF RegCopy
  <2>2. ArgAt(d)' BY <1>0, <2>1
  <2>3. TopicAt(d)' BY <1>0, <2>1
  <2>4. SubscribedAt(d)' BY <2>1
  <2>5. QueriesAt(d)' BY <1>0, <2>1
  <2>6. QED BY <2>2, <2>3, <2>4, <2>5
<1>8. CASE RegSubTopic(d)
  <2>1. /\ cb[d] = "reg.sub" /\ cb'[d] = "reg.pub" /\ subNoramlTopic'[d] = equipmentid[d]
        /\ UNCHANGED <<main, arg, equipmentid, pubNormalTopic, session, inbox, raced>>
    BY <1>0, <1>8 DEF RegSubTopic
  <2>2. ArgAt(d)' BY <1>0, <2>1
  <2>3. TopicAt(d)' BY <1>0, <1>1, <2>1
  <2>4. SubscribedAt(d)' BY <2>1
  <2>5. QueriesAt(d)' BY <1>0, <2>1
  <2>6. QED BY <2>2, <2>3, <2>4, <2>5
<1>9. CASE RegPubTopic(d)
  <2>1. equipmentid[d] \in Id /\ equipmentid[d] # NoId
    BY <1>0, <1>9, NamesDistinct DEF RegPubTopic, HandlerAt, RegPc
  <2>2. /\ cb[d] = "reg.pub" /\ cb'[d] = "reg.subscribe" /\ pubNormalTopic'[d] = equipmentid[d]
        /\ UNCHANGED <<main, arg, equipmentid, subNoramlTopic, session, inbox, raced>>
    BY <1>0, <1>9 DEF RegPubTopic, SetPubTopic
  <2>3. ArgAt(d)' BY <1>0, <2>2
  <2>4. TopicAt(d)' BY <1>0, <1>1, <2>1, <2>2
  <2>5. SubscribedAt(d)' BY <2>2
  <2>6. QueriesAt(d)' BY <1>0, <2>1, <2>2
  <2>7. QED BY <2>3, <2>4, <2>5, <2>6
<1>10. CASE RegSubscribe(d)
  <2>1. equipmentid[d] \in Id BY <1>0, <1>10 DEF RegSubscribe, HandlerAt, RegPc
  <2>2. /\ cb[d] = "reg.subscribe" /\ cb'[d] = "truncate"
        /\ subs'[d] = IF linked[d] THEN subs[d] \cup {subNoramlTopic[d]} ELSE subs[d]
        /\ UNCHANGED <<main, arg, identity, linked, inbox, raced>>
    BY <1>0, <1>10 DEF RegSubscribe, Subscribe
  <2>3. ArgAt(d)' BY <1>0, <2>2
  <2>4. TopicAt(d)' BY <1>0, <2>2
  <2>5. SubscribedAt(d)' BY <1>0, <2>1, <2>2, NamesDistinct
  <2>6. QueriesAt(d)'
    <3>1. pubNormalTopic[d] # NoId BY <1>0, <2>2
    <3>2. QED BY <1>0, <2>2, <3>1
  <2>7. QED BY <2>3, <2>4, <2>5, <2>6
<1>11. CASE Unsubscribe(d) BY <1>0, <1>11 DEF Unsubscribe
<1>12. CASE UnregNull(d) BY <1>0, <1>12, NamesDistinct DEF UnregNull, Forget
<1>13. CASE Truncate(d) \/ Write(d) \/ Reset(d)
  BY <1>0, <1>13 DEF Truncate, Write, Reset
<1>14. QED
  BY <1>2, <1>3, <1>4, <1>5, <1>6, <1>7, <1>8, <1>9, <1>10, <1>11, <1>12, <1>13 DEF Callback

-----------------------------------------------------------------------------
(* The steps of the environment.                                           *)

\* Only a subscribed device gets a query, hence one that has a topic.
LEMMA PublishTopics ==
  ASSUME TInv, NEW t, NEW m \in Msg, Publish(t, m), m.op = "103" => t \in Id /\ m.id \in Id,
         UNCHANGED <<threads, identity, session, history>>, NEW e \in Device
  PROVE  TopicParts(e)'
<1>0. TypeOK /\ TopicParts(e) BY DEF TInv, IInv
<1>1. ArgAt(e)' /\ TopicAt(e)' /\ SubscribedAt(e)'
  BY <1>0 DEF TopicParts, ArgAt, TopicAt, SubscribedAt
<1>2. CASE t \notin subs[e]
  <2>1. inbox'[e] = inbox[e] BY <1>2 DEF Publish
  <2>2. QED BY <1>0, <1>1, <2>1 DEF TopicParts, QueriesAt
<1>3. CASE t \in subs[e]
  <2>1. inbox[e] \in Seq(Msg) /\ inbox'[e] = Append(inbox[e], m) BY <1>0, <1>3 DEF Publish, TypeOK
  <2>2. \A k \in DOMAIN inbox'[e] :
          inbox'[e][k] = m \/ (k \in DOMAIN inbox[e] /\ inbox'[e][k] = inbox[e][k])
    BY <2>1
  <2>3. t \in Id => pubNormalTopic[e] # NoId
    BY <1>0, <1>3, NamesDistinct DEF TopicParts, QueriesAt, Ptr
  <2>4. QueriesAt(e)' BY <1>0, <2>2, <2>3 DEF TopicParts, QueriesAt
  <2>5. QED BY <1>1, <2>4 DEF TopicParts
<1>4. QED BY <1>2, <1>3

LEMMA EnvironmentTopics ==
  ASSUME TInv, NEW d \in Device, Environment(d), NEW e \in Device PROVE TopicParts(e)'
<1>0. TypeOK /\ BootAt(e) /\ TopicParts(e) BY DEF TInv, IInv, Parts
<1>1. CASE Connect(d)
  <2>1. e # d => Kept(e) BY <1>0, <1>1 DEF Connect, TypeOK, Kept
  <2>2. inbox' = inbox BY <1>1 DEF Connect
  <2>3. CASE e = d
    BY <1>0, <1>1, <2>3 DEF Connect, TypeOK, TopicParts, ArgAt, TopicAt, SubscribedAt, QueriesAt,
                            BeforeSubscribe, BeforePub, BeforeSub
  <2>4. QED BY <1>0, <2>1, <2>2, <2>3, KeptParts
<1>2. CASE LoseLink(d)
  <2>1. e # d => Kept(e) /\ inbox'[e] = inbox[e] BY <1>0, <1>2 DEF LoseLink, TypeOK, Kept
  <2>2. CASE e = d
    <3>1. PICK k \in 0..Len(inbox[d]) : inbox'[d] = SubSeq(inbox[d], 1, k)
      BY <1>0, <1>2 DEF LoseLink, TypeOK
    <3>2. inbox[d] \in Seq(Msg) BY <1>0 DEF TypeOK
    <3>3. \A i \in DOMAIN inbox'[d] : i \in DOMAIN inbox[d] /\ inbox'[d][i] = inbox[d][i]
      BY <3>1, <3>2
    <3>4. QueriesAt(e)' BY <1>0, <1>2, <2>2, <3>3 DEF LoseLink, TypeOK, TopicParts, QueriesAt
    <3>5. ArgAt(e)' /\ TopicAt(e)' BY <1>0, <1>2 DEF LoseLink, TopicParts, ArgAt, TopicAt
    <3>6. SubscribedAt(e)' BY <1>0, <1>2, <2>2 DEF LoseLink, TypeOK, SubscribedAt
    <3>7. QED BY <3>4, <3>5, <3>6 DEF TopicParts
  <2>3. QED BY <1>0, <2>1, <2>2, KeptParts
<1>3. CASE Crash(d)
  <2>1. e # d => Kept(e) /\ inbox'[e] = inbox[e] BY <1>0, <1>3 DEF Crash, TypeOK, Kept
  <2>2. CASE e = d
    BY <1>0, <1>3, <2>2, NamesDistinct
       DEF Crash, TypeOK, TopicParts, ArgAt, TopicAt, SubscribedAt, QueriesAt
  <2>3. QED BY <1>0, <2>1, <2>2, KeptParts
<1>4. CASE ServerAccept(d) \/ ServerRefuse(d) \/ ServerQuery
  <2>1. UNCHANGED <<threads, identity, session, history>>
    BY <1>4 DEF ServerAccept, ServerRefuse, ServerQuery
  <2>2. \E t \in Topic, m \in Msg : Publish(t, m) /\ (m.op = "103" => t \in Id /\ m.id \in Id)
    <3>1. CASE ServerAccept(d)
      <4>1. CASE \E i \in Id : Publish(RegTopic, [op |-> "101", id |-> i])
        BY <4>1 DEF Msg, Topic
      <4>2. CASE Publish(RegTopic, [op |-> "102", id |-> NoId]) BY <4>2 DEF Msg, Topic
      <4>3. QED BY <3>1, <4>1, <4>2 DEF ServerAccept
    <3>2. CASE ServerRefuse(d)
      <4>1. PICK op \in {"101", "102no"} : Publish(RegTopic, [op |-> op, id |-> NoId])
        BY <3>2 DEF ServerRefuse
      <4>2. QED BY <4>1 DEF Msg, Topic
    <3>3. CASE ServerQuery
      <4>1. PICK i \in Id : Publish(i, [op |-> "103", id |-> i]) BY <3>3 DEF ServerQuery
      <4>2. QED BY <4>1 DEF Msg, Topic, Ptr
    <3>4. QED BY <1>4, <3>1, <3>2, <3>3
  <2>3. QED BY <2>1, <2>2, PublishTopics
<1>5. QED BY <1>1, <1>2, <1>3, <1>4 DEF Environment

-----------------------------------------------------------------------------
(* The invariant, and what follows from it.                                *)

LEMMA TInvInit == Init => TInv
<1> SUFFICES ASSUME Init PROVE TInv
  OBVIOUS
<1>1. IInv BY InitTyped, InitInv DEF IInv
<1>2. ASSUME NEW d \in Device PROVE TopicParts(d)
  <2>1. /\ main[d] = "boot" /\ cb[d] = "idle" /\ arg[d] = NoId /\ linked[d] = FALSE /\ subs[d] = {}
        /\ subNoramlTopic[d] = NoId /\ pubNormalTopic[d] = NoId /\ inbox[d] = <<>>
        /\ equipmentid[d] = NoId
    BY DEF Init
  <2>2. DOMAIN inbox[d] = {} BY <2>1
  <2>3. QED
    BY <2>1, <2>2, NamesDistinct DEF TopicParts, ArgAt, TopicAt, SubscribedAt, QueriesAt
<1>3. QED BY <1>1, <1>2 DEF TInv

LEMMA TInvInductive == TInv /\ [Next]_vars => TInv'
<1> SUFFICES ASSUME TInv, [Next]_vars PROVE TInv'
  OBVIOUS
<1>1. IInv' BY Inductive DEF TInv
<1>2. TypeOK /\ \A e \in Device : TopicParts(e) BY DEF TInv, IInv
<1>3. ASSUME NEW e \in Device PROVE TopicParts(e)'
  <2>1. CASE UNCHANGED vars BY <1>2, <2>1, KeptParts DEF vars, Kept
  <2>2. CASE Next
    <3>1. PICK d \in Device : Main(d) \/ Command(d) \/ Callback(d) \/ Environment(d)
      BY <2>2, NextCases
    <3>2. CASE Main(d) \/ Command(d) BY <1>2, <3>2, MainKeeps, KeptParts, MainTopics
    <3>3. CASE Callback(d) BY <1>2, <3>3, CallbackKeeps, KeptParts, CallbackTopics
    <3>4. CASE Environment(d) BY <3>4, EnvironmentTopics
    <3>5. QED BY <3>1, <3>2, <3>3, <3>4
  <2>3. QED BY <2>1, <2>2
<1>4. QED BY <1>1, <1>3 DEF TInv

LEMMA TInvHolds == Spec => []TInv
BY TInvInit, TInvInductive, PTL DEF Spec

\* subs_mqttMsg in main() and in sReg_Equipment_proc: whichever thread comes
\* first, a device that has connected is subscribed to the topic of its number.
THEOREM OwnTopicIsSubscribed == Spec => []OwnTopicSubscribed
<1>1. TInv => OwnTopicSubscribed
  BY DEF TInv, TopicParts, SubscribedAt, OwnTopicSubscribed, Settled, BeforeSubscribe, BeforePub, BeforeSub
<1>2. QED BY <1>1, TInvHolds, PTL

\* subNoramlTopic and pubNormalTopic, which both threads write, name the number
\* whenever neither is about to write them.
THEOREM TopicsFollowIdentity == Spec => []TopicsNameIdentity
<1>1. TInv => TopicsNameIdentity
  BY DEF TInv, TopicParts, TopicAt, TopicsNameIdentity, Settled, BeforePub, BeforeSub
<1>2. QED BY <1>1, TInvHolds, PTL

\* RecvProc, cStatus_uploading: a query is answered under the number it was sent
\* to, although the test of the topic and the report are separate steps.
THEOREM QueriesAnswered == Spec => QueriesAnsweredAsAsked
<1> DEFINE A == \A d \in Device : (cb[d] = "report" /\ cb'[d] = "idle" /\ main'[d] # "boot" /\ ~raced[d])
                  => pubNormalTopic[d] = msg[d].id /\ equipmentid[d] = msg[d].id
<1>1. TInv => A BY DEF TInv, TopicParts, QueriesAt
<1>2. TInv /\ [Next]_vars => [A]_vars BY <1>1
<1>3. QED BY <1>2, TInvHolds, PTL DEF Spec, QueriesAnsweredAsAsked
=============================================================================
