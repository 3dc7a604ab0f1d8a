------------------------------ MODULE Equipment ------------------------------
(***************************************************************************)
(* The table of sub-devices (equipmentdev of foobar.c, deviceboat.c): the  *)
(* callback thread obeys the server's control messages and answers its     *)
(* queries, main reports the table (104) or measurements (202) when the    *)
(* operator asks for it, and the handler of SIGALRM, on any thread, reports *)
(* measurements too.  Each text to publish is in a buffer that yajl_gen_free *)
(* has freed before it is sent, so what is sent may be anything.           *)
(* The device is registered and connected, its description lists at least  *)
(* one sub-device, and numbers and users are as long as their handlers     *)
(* require.                                                                *)
(***************************************************************************)
EXTENDS Integers, Sequences, FiniteSets, Functions

CONSTANTS
  Number,       \* child equipment numbers
  Begins,       \* pairs <<p, n>>: number n begins with p
  Text,         \* texts of values
  Size,         \* strlen
  Status,
  NULL,         \* a field that is missing, a pointer that is null
  Junk,         \* what memory holds that is freed or not yet written
  subdevname,   \* the numbers in device.description, in order
  Description,  \* the values there
  Messages,     \* messages the server may send
  Fix,          \* coordinates that getMeasure2Json may draw
  Budgets       \* bounds: how often each event may happen, a choice of these

Sub == DOMAIN subdevname

ASSUME EquipmentAssumption ==
  /\ subdevname \in Seq(Number) \ {<<>>} /\ Description \in [Sub -> Text]
  /\ Size \in [Text -> Nat] /\ Junk \notin Text /\ 1 \in Status
  /\ Begins \subseteq Number \X Number /\ \A n \in Number : <<n, n>> \in Begins
  /\ Budgets \subseteq [{"message", "report", "alarm"} -> Nat] /\ Fix # {}

\* 103 asks for a report; 105 sets the status, 106 the value of a sub-device; 0
\* stands for any other operateCode, -1 for a text that is no JSON.
Message ==
  [op : {-1, 0, 103}] \cup [op : {105}, user : BOOLEAN, status : Status \cup {NULL}]
    \cup [op : {106}, user : BOOLEAN, no : Number \cup {NULL}, value : Text \cup {NULL}]

ASSUME MessagesAssumption == Messages \subseteq Message

Thread == {"main", "callback", "alarm"}
Tabler == {"main", "callback"}   \* who writes reports 104
Meter  == {"main", "alarm"}      \* who writes reports 202

VARIABLES
  subdevvalue, status,
  pc,         \* per thread: the statement it is at
  report,     \* per thread: the report 104 it writes
  measure,    \* per thread: the report 202 it writes
  position,   \* longtitude and latitude of equipmentdev
  msg,        \* the message the callback thread handles
  inbox,      \* messages under way
  last,       \* the last message published
  forwarded,  \* messages handed to the serial port
  sent,       \* those of them that are JSON
  budget      \* events still allowed

handled == <<msg, inbox, forwarded, sent>>
measuring == <<measure, position>>
vars == <<subdevvalue, status, pc, report, last, budget, handled, measuring>>

\* "seen" is the value strlen measured, "moved" whether it was freed since.
\* "held" is history: the texts each value had while the report was written.
NoReport == [status |-> NULL, values |-> <<>>, seen |-> NULL, moved |-> FALSE,
             held |-> [i \in Sub |-> {}]]

\* The coordinates drawn, the longitude already printed, and history: whether
\* another report 202 has stored its own meanwhile.
NoMeasure == [own |-> NULL, lon |-> NULL, shared |-> FALSE]

Parsed(m) == m.op # -1

\* Thread t is writing a report 202.
Uploading(t) == pc[t] \in {"lat", "putLon", "putLat"}

TypeOK ==
  /\ subdevvalue \in [Sub -> Text \cup {Junk}] /\ status \in Status
  /\ pc["main"] \in {"idle", "measure", "copy", "lat", "putLon", "putLat"}
  /\ pc["alarm"] \in {"idle", "lat", "putLon", "putLat"}
  /\ pc["callback"] \in {"idle", "free", "assign", "reply", "measure", "copy", "forward", "crashed"}
  /\ \A t \in Tabler :
       /\ report[t].values \in Seq(Text \cup {Junk}) /\ Len(report[t].values) < Len(subdevname)
       /\ report[t].status \in Status \cup {NULL}
  /\ position \in [lon : Fix \cup {0}, lat : Fix \cup {0}]
  /\ \A t \in Meter : Uploading(t) => measure[t].own \in [lon : Fix, lat : Fix]
  /\ inbox \in Seq(Messages) /\ msg \in Messages \cup {NULL}
  /\ forwarded + Cardinality({i \in DOMAIN inbox : Parsed(inbox[i])}) \in {sent, sent - 1}
  /\ budget \in [{"message", "report", "alarm"} -> Nat]

\* getRegInfo, called before any other thread exists.
Init ==
  /\ subdevvalue = Description /\ status = 1
  /\ pc = [t \in Thread |-> "idle"] /\ report = [t \in Tabler |-> NoReport]
  /\ measure = [t \in Meter |-> NoMeasure] /\ position = [lon |-> 0, lat |-> 0]
  /\ msg = NULL /\ inbox = <<>> /\ last = NULL
  /\ forwarded = 0 /\ sent = 0 /\ budget \in Budgets

\* A crash of the callback thread ends the process.
Running == pc["callback"] # "crashed"

Spend(e) == budget[e] > 0 /\ budget' = [budget EXCEPT ![e] = @ - 1]

Goto(t, l) == Running /\ pc' = [pc EXCEPT ![t] = l]

-----------------------------------------------------------------------------
(* subdevtostring, on either thread.                                       *)

StartReport(t) ==
  /\ Goto(t, "measure")
  /\ report' = [report EXCEPT ![t] =
       [NoReport EXCEPT !.status = status, !.held = [i \in Sub |-> {subdevvalue[i]}]]]

\* Seeded fault: i starts at 1 and the first entry is shown again at the end.
Entry_Shifted(t) == ((Len(report[t].values) + 1) % Len(subdevname)) + 1
Entry(t) == Len(report[t].values) + 1

Measure(t) ==
  /\ pc[t] = "measure" /\ Goto(t, "copy")
  /\ report' = [report EXCEPT ![t].seen = subdevvalue[Entry(t)], ![t].moved = FALSE]
  /\ UNCHANGED <<subdevvalue, status, last, budget, handled, measuring>>

\* A text is whole if it is as long as the one measured.  If that one has been
\* freed since, the compiled code may read either pointer.
Copied(t) ==
  LET now == subdevvalue[Entry(t)] IN
  LET whole == IF now # Junk /\ (report[t].seen = Junk \/ Size[report[t].seen] = Size[now])
               THEN {now} ELSE {Junk}
  IN  IF report[t].moved \/ report[t].seen = Junk THEN {Junk} \cup whole ELSE whole

\* send_mqttMsg of a text whose buffer yajl_info_free has freed: it is sent as it
\* was written, or as whatever the heap has made of it.
Garbled == [op |-> 0]
Publish(m) == last' \in {m, Garbled}

\* After the last entry the report is published: cStatus_uploading.
Copy(t) ==
  /\ pc[t] = "copy"
  /\ \E text \in Copied(t) :
       LET r == [report[t] EXCEPT !.values = Append(@, text)] IN
       IF Len(r.values) < Len(subdevname)
       THEN Goto(t, "measure") /\ report' = [report EXCEPT ![t] = r] /\ UNCHANGED last
       ELSE /\ Goto(t, IF t = "main" THEN "idle" ELSE "forward")
            /\ report' = [report EXCEPT ![t] = NoReport]
            /\ Publish([op |-> 104, by |-> t, status |-> r.status, values |-> r.values, held |-> r.held])
  /\ UNCHANGED <<subdevvalue, status, budget, handled, measuring>>

\* The operator types 104.
Command ==
  /\ pc["main"] = "idle" /\ Spend("report")
  /\ StartReport("main")
  /\ UNCHANGED <<subdevvalue, status, last, handled, measuring>>

-----------------------------------------------------------------------------
(* getMeasure2Json, by main or in the signal handler.  The other numbers of *)
(* the report are drawn and printed without being stored.                  *)

Other(t) == IF t = "main" THEN "alarm" ELSE "main"

\* A store into equipmentdev, seen by a report 202 under way.
Store(t, at, m) ==
  /\ position' = at
  /\ measure' = [measure EXCEPT ![t] = m, ![Other(t)].shared = @ \/ Uploading(Other(t))]

StoreLon(t) ==
  /\ pc[t] = "idle" /\ Goto(t, "lat")
  /\ \E f \in [lon : Fix, lat : Fix] :
       Store(t, [position EXCEPT !.lon = f.lon], [own |-> f, lon |-> NULL, shared |-> FALSE])
  /\ UNCHANGED <<subdevvalue, status, report, last, handled>>

\* Seeded fault: the latitude stays the one of the report before.
NewLat_Old(t) == position.lat
NewLat(t) == measure[t].own.lat

StoreLat(t) ==
  /\ pc[t] = "lat" /\ Goto(t, "putLon")
  /\ Store(t, [position EXCEPT !.lat = NewLat(t)], measure[t])
  /\ UNCHANGED <<subdevvalue, status, report, last, handled, budget>>

PutLon(t) ==
  /\ pc[t] = "putLon" /\ Goto(t, "putLat")
  /\ measure' = [measure EXCEPT ![t].lon = position.lon]
  /\ UNCHANGED <<subdevvalue, status, report, last, handled, position, budget>>

PutLat(t) ==
  /\ pc[t] = "putLat" /\ Goto(t, "idle")
  /\ Publish([op |-> 202, own |-> measure[t].own, shared |-> measure[t].shared,
              shown |-> [lon |-> measure[t].lon, lat |-> position.lat]])
  /\ measure' = [measure EXCEPT ![t] = NoMeasure]
  /\ UNCHANGED <<subdevvalue, status, report, handled, position, budget>>

\* The operator types 202.
CommandMeasure == Spend("report") /\ StoreLon("main")

\* TimerFun_sending_status.
Alarm == Spend("alarm") /\ StoreLon("alarm")

Upload(t) == StoreLat(t) \/ PutLon(t) \/ PutLat(t)

-----------------------------------------------------------------------------
(* The callback thread.                                                    *)

ServerSend ==
  /\ Spend("message")
  /\ \E m \in Messages : /\ inbox' = Append(inbox, m)
                         /\ sent' = IF Parsed(m) THEN sent + 1 ELSE sent
  /\ UNCHANGED <<subdevvalue, status, pc, report, last, msg, forwarded, measuring>>

\* The first entry whose number begins with n, 0 for none.
Find(n) ==
  LET hits == {i \in Sub : <<n, subdevname[i]>> \in Begins} IN
  IF hits = {} THEN 0 ELSE CHOOSE i \in hits : \A j \in hits : i <= j

Take(op) ==
  /\ pc["callback"] = "idle" /\ inbox # <<>> /\ Head(inbox).op = op
  /\ msg' = Head(inbox) /\ inbox' = Tail(inbox)
  /\ UNCHANGED <<subdevvalue, last, budget, forwarded, sent, measuring>>

\* RecvProc returns at once when yajl_tree_parse fails ...
Discard ==
  /\ pc["callback"] = "idle" /\ Running /\ inbox # <<>> /\ ~Parsed(Head(inbox))
  /\ inbox' = Tail(inbox)
  /\ UNCHANGED <<subdevvalue, status, pc, report, last, budget, msg, forwarded, sent, measuring>>

\* ... but a message with an unknown code takes the way of the others.
Unknown == Take(0) /\ Goto("callback", "forward") /\ UNCHANGED <<status, report>>

sStatus_uploading_proc == Take(103) /\ StartReport("callback") /\ UNCHANGED status

\* The status is set whether or not there is a user to reply to.
sCtrl_EquipmentALL_proc ==
  /\ Take(105)
  /\ status' = IF msg'.status = NULL THEN status ELSE msg'.status
  /\ Goto("callback", IF msg'.user THEN "reply" ELSE "forward")
  /\ UNCHANGED report

\* Here both a number and a user are needed.
sCtrl_EquipmentSub_proc ==
  /\ Take(106)
  /\ Goto("callback", IF ~msg'.user \/ msg'.no = NULL THEN "forward"
                      ELSE IF Find(msg'.no) = 0 THEN "reply" ELSE "free")
  /\ UNCHANGED <<status, report>>

\* setsubDevValue frees the old text; a missing value then ends the program in
\* strlen.  A report that has measured the text will read freed memory.
Moved(i) ==
  [t \in Tabler |-> [report[t] EXCEPT
     !.moved = @ \/ (pc[t] = "copy" /\ Entry(t) = i),
     !.held = [j \in Sub |-> IF j = i THEN @[j] \cup {Junk} ELSE @[j]]]]

SubFree ==
  /\ pc["callback"] = "free"
  /\ LET i == Find(msg.no) IN
     subdevvalue' = [subdevvalue EXCEPT ![i] = Junk] /\ report' = Moved(i)
  /\ Goto("callback", IF msg.value = NULL THEN "crashed" ELSE "assign")
  /\ UNCHANGED <<status, last, budget, handled, measuring>>

\* malloc and strcpy.  Seeded faults: the copy is freed in place of the old
\* text; the value goes into the entry after.
Stored_Freed(n, v) == subdevvalue
Stored_Next(n, v) == [subdevvalue EXCEPT ![(Find(n) % Len(subdevname)) + 1] = v]
Stored(n, v) == [subdevvalue EXCEPT ![Find(n)] = v]

SubAssign ==
  /\ pc["callback"] = "assign" /\ Goto("callback", "reply")
  /\ subdevvalue' = Stored(msg.no, msg.value)
  /\ report' = [t \in Tabler |-> [report[t] EXCEPT
                  !.held = [i \in Sub |-> @[i] \cup {subdevvalue'[i]}]]]
  /\ UNCHANGED <<status, last, budget, handled, measuring>>

\* getDevCtrl2Json and getSubCtrl2Json; the reply always says "ret" : "0".
Reply ==
  /\ pc["callback"] = "reply" /\ Goto("callback", "forward")
  /\ Publish(IF msg.op = 105 THEN [op |-> 105, status |-> status]
             ELSE [op |-> 106, no |-> msg.no, value |-> msg.value])
  /\ UNCHANGED <<subdevvalue, status, report, budget, handled, measuring>>

\* RecvProc ends by handing the message to the serial port.
\* Seeded fault: all but the queries.
Handed_Controls == IF msg.op = 103 THEN forwarded ELSE forwarded + 1
Handed == forwarded + 1

Forward ==
  /\ pc["callback"] = "forward" /\ Goto("callback", "idle")
  /\ forwarded' = Handed /\ msg' = NULL
  /\ UNCHANGED <<subdevvalue, status, report, last, budget, inbox, sent, measuring>>

Callback ==
  \/ Discard \/ Unknown
  \/ sStatus_uploading_proc \/ sCtrl_EquipmentALL_proc \/ sCtrl_EquipmentSub_proc
  \/ SubFree \/ SubAssign \/ Reply \/ Forward \/ Measure("callback") \/ Copy("callback")

Main == Command \/ Measure("main") \/ Copy("main") \/ CommandMeasure \/ Upload("main")

Next == Callback \/ Main \/ Alarm \/ Upload("alarm") \/ ServerSend

Spec == Init /\ [][Next]_vars

\* The library delivers what has arrived.
FairSpec == Spec /\ WF_vars(Callback)

-----------------------------------------------------------------------------
\* What the reply to a control says is what the device then holds, until the
\* message is over: the status, and the value asked for if the number is that of
\* a sub-device.  It says nothing of other numbers; their reply looks the same.
\* Replies that the heap has Garbled are not looked at.
RepliesTell ==
  (pc["callback"] = "forward" /\ msg.op \in {105, 106} /\ msg.user /\ last # NULL /\ last.op = msg.op) =>
    \/ last.op = 105 /\ last.status = status /\ msg.status \in {NULL, status}
    \/ last.op = 106 /\ msg.no = NULL
    \/ /\ last.op = 106 /\ last.no = msg.no /\ last.value = msg.value
       /\ Find(msg.no) # 0 => subdevvalue[Find(msg.no)] = msg.value

\* A report that the callback thread makes is a snapshot of the table, since no
\* control is handled meanwhile.
QueryReportIsSnapshot ==
  (last # NULL /\ last.op = 104 /\ last.by = "callback") =>
    \A i \in Sub : last.values[i] \in Text /\ last.held[i] = {last.values[i]}

\* A report that main makes while controls are handled shows for each sub-device
\* a value it had meanwhile, or nothing if a control changed that one meanwhile.
CommandReportIsFresh ==
  (last # NULL /\ last.op = 104) =>
    \A i \in Sub : \/ last.values[i] \in last.held[i]
                  \/ (last.values[i] = Junk /\ Cardinality(last.held[i]) > 1)

\* A report of measurements shows the place drawn for it, both coordinates, unless
\* the signal came while main stored or printed its own.
PlaceIsOwn ==
  (last # NULL /\ last.op = 202 /\ ~last.shared) => last.shown = last.own

\* A control that names a sub-device changes that one only.  Numbers are compared
\* by their beginnings, so this is for descriptions in which none begins another.
ControlHitsNamed ==
  [][\A i \in Sub : subdevvalue'[i] # subdevvalue[i] =>
       msg.no = subdevname[i] \/ msg.no \notin Range(subdevname)]_vars

\* Every message that is JSON reaches the serial port, whatever it asks for and
\* whatever came before it, unless the process ends.
MessagesForwarded == (forwarded < sent) ~> (forwarded = sent \/ ~Running)

\* "uploading the information of device status" (foobar.c:418): a report shows
\* values.
ReportsHoldValues == (last # NULL /\ last.op = 104) => \A i \in Sub : last.values[i] \in Text
=============================================================================
