--------------------------- MODULE EquipmentProofs ---------------------------
(***************************************************************************)
(* Proofs about Equipment for every description, set of messages and       *)
(* budget: the replies to controls are true, reports of the table show     *)
(* what the table held, and reports of measurements show one place.  The   *)
(* three threads share the table and the position without a lock, so each  *)
(* argument says what a thread may still rely on between two of its steps. *)
(***************************************************************************)
EXTENDS Equipment, FiniteSetTheorems, SequenceTheorems, WellFoundedInduction, TLAPS

USE DEF handled, measuring, Thread, Tabler, Meter

-----------------------------------------------------------------------------
(* Find.                                                                   *)

LEMMA LeastNatural ==
  ASSUME NEW T \in SUBSET Nat, T # {}
  PROVE  \E x \in T : \A y \in T : x <= y
<1> DEFINE R == OpToRel(<, Nat)
<1>1. IsWellFoundedOn(R, Nat) BY NatLessThanWellFounded
<1>2. PICK x \in T : \A y \in T : <<y, x>> \notin R
  <2> HIDE DEF R
  <2> QED BY <1>1, WFMin
<1>3. ASSUME NEW y \in T PROVE x <= y
  <2>1. <<y, x>> \in R <=> y < x BY DEF OpToRel
  <2> HIDE DEF R
  <2> QED BY <1>2, <2>1
<1>4. QED BY <1>3

LEMMA SubType == Sub = 1..Len(subdevname) /\ Len(subdevname) \in Nat \ {0}
BY EquipmentAssumption DEF Sub

\* Find is 0 or a place whose number begins with the one looked for.
LEMMA FindPlace ==
  ASSUME NEW n, Find(n) # 0
  PROVE  Find(n) \in Sub /\ <<n, subdevname[Find(n)]>> \in Begins
<1> DEFINE hits == {i \in Sub : <<n, subdevname[i]>> \in Begins}
<1>1. hits # {} BY DEF Find
<1>2. hits \in SUBSET Nat BY SubType
<1>3. \E x \in hits : \A y \in hits : x <= y BY <1>1, <1>2, LeastNatural
<1>4. Find(n) \in hits BY <1>1, <1>3 DEF Find
<1>5. QED BY <1>4

-----------------------------------------------------------------------------
(* The inductive invariant.                                                *)

Cell == Text \cup {Junk}

\* A report 104 under way.
TableReport ==
  [status : Status \cup {NULL}, values : Seq(Cell), seen : Cell \cup {NULL}, moved : BOOLEAN,
   held : [Sub -> SUBSET Cell]]

\* A report 202 under way.
MeasureReport == [own : [lon : Fix, lat : Fix] \cup {NULL}, lon : Fix \cup {0, NULL}, shared : BOOLEAN]

Labels == {"idle", "measure", "copy", "lat", "putLon", "putLat", "free", "assign", "reply",
           "forward", "crashed"}

\* The parts of TypeOK, ...
PcTyped ==
  /\ pc["main"] \in {"idle", "measure", "copy", "lat", "putLon", "putLat"}
  /\ pc["alarm"] \in {"idle", "lat", "putLon", "putLat"}
  /\ pc["callback"] \in {"idle", "free", "assign", "reply", "measure", "copy", "forward", "crashed"}
ReportTyped ==
  \A t \in Tabler :
    /\ report[t].values \in Seq(Text \cup {Junk}) /\ Len(report[t].values) < Len(subdevname)
    /\ report[t].status \in Status \cup {NULL}
MeasureTyped ==
  /\ position \in [lon : Fix \cup {0}, lat : Fix \cup {0}]
  /\ \A t \in Meter : Uploading(t) => measure[t].own \in [lon : Fix, lat : Fix]
InboxTyped ==
  inbox \in Seq(Messages) /\ msg \in Messages \cup {NULL} /\ forwarded \in Nat /\ sent \in Nat
BudgetTyped == budget \in [{"message", "report", "alarm"} -> Nat]
TableTyped == subdevvalue \in [Sub -> Text \cup {Junk}] /\ status \in Status

\* ... and what it leaves out: the whole of the reports under way.
Shapes ==
  /\ pc \in [Thread -> Labels]
  /\ report \in [Tabler -> TableReport]
  /\ measure \in [Meter -> MeasureReport]

\* What the callback thread knows at each point of a control.
ControlAt ==
  /\ pc["callback"] # "idle" => msg \in Messages
  /\ pc["callback"] \in {"free", "assign"} =>
       /\ msg.op = 106 /\ msg.user /\ msg.no # NULL /\ Find(msg.no) # 0
       /\ pc["callback"] = "assign" => msg.value \in Text
  /\ pc["callback"] = "reply" =>
       /\ msg.op \in {105, 106} /\ msg.user
       /\ msg.op = 105 => msg.status \in {NULL, status}
       /\ msg.op = 106 => /\ msg.no # NULL
                          /\ Find(msg.no) # 0 => subdevvalue[Find(msg.no)] = msg.value

\* A value is missing only while a control replaces it, or once one has failed.
Whole ==
  \A i \in Sub : subdevvalue[i] \notin Text =>
    \/ pc["callback"] = "crashed"
    \/ pc["callback"] = "assign" /\ i = Find(msg.no)

\* A text copied for a sub-device is one it held, or shows that it held several.
Shown(text, held) == text \in held \/ (text = Junk /\ \E x, y \in held : x # y)

\* A report under way: it has recorded all the table has held since it began.
\* If the value it has measured is freed, it has recorded that too.
FreshAt(t) ==
  pc[t] \in {"measure", "copy"} =>
    LET r == report[t] IN
    /\ \A i \in Sub : subdevvalue[i] \in r.held[i] /\ IsFiniteSet(r.held[i])
    /\ \A i \in 1..Len(r.values) : Shown(r.values[i], r.held[i])
    /\ pc[t] = "copy" => /\ r.seen \in r.held[Entry(t)]
                         /\ r.moved => Junk \in r.held[Entry(t)]

\* No control is handled while the callback thread writes a report.
SnapshotAt ==
  pc["callback"] \in {"measure", "copy"} =>
    LET r == report["callback"] IN
    /\ \A i \in Sub : r.held[i] = {subdevvalue[i]}
    /\ \A i \in 1..Len(r.values) : r.values[i] = subdevvalue[i]
    /\ pc["callback"] = "copy" => r.seen = subdevvalue[Entry("callback")] /\ ~r.moved

\* A report of measurements that shares the position with no other finds there
\* what it has stored.
PlaceAt(t) ==
  (Uploading(t) /\ ~measure[t].shared) =>
    /\ pc[t] \in {"lat", "putLon"} => position.lon = measure[t].own.lon
    /\ pc[t] \in {"putLon", "putLat"} => position.lat = measure[t].own.lat
    /\ pc[t] = "putLat" => measure[t].lon = measure[t].own.lon

\* One message at most is taken and not yet handed on.
Backlog == Cardinality({i \in DOMAIN inbox : Parsed(inbox[i])})
Account == forwarded + Backlog = IF pc["callback"] = "idle" THEN sent ELSE sent - 1

Types ==
  /\ Shapes /\ TableTyped /\ PcTyped /\ ReportTyped /\ MeasureTyped /\ InboxTyped /\ BudgetTyped
Parts == ControlAt /\ Whole /\ (\A t \in Tabler : FreshAt(t)) /\ SnapshotAt /\ (\A t \in Meter : PlaceAt(t))
Published == RepliesTell /\ QueryReportIsSnapshot /\ CommandReportIsFresh /\ PlaceIsOwn

IInv == Types /\ Account /\ Parts /\ Published
-----------------------------------------------------------------------------
(* Type correctness.                                                       *)

USE DEF TableReport, MeasureReport

LEMMA TypesImplyTypeOK == Types /\ Account => TypeOK
BY DEF TypeOK, Types, TableTyped, PcTyped, ReportTyped, MeasureTyped, InboxTyped, BudgetTyped,
       Account, Backlog

LEMMA BacklogType == ASSUME inbox \in Seq(Messages) PROVE Backlog \in Nat
<1>1. IsFiniteSet(DOMAIN inbox) BY FS_Interval
<1>2. QED BY <1>1, FS_Subset, FS_CardinalityType DEF Backlog

\* A message that arrives adds to the backlog if it is JSON ...
LEMMA BacklogAppend ==
  ASSUME inbox \in Seq(Messages), NEW m \in Messages, inbox' = Append(inbox, m)
  PROVE  /\ Backlog \in Nat
         /\ Parsed(m) => Backlog' = Backlog + 1
         /\ ~Parsed(m) => Backlog' = Backlog
<1> DEFINE S == {i \in DOMAIN inbox : Parsed(inbox[i])}
           n == Len(inbox) + 1
<1>1. IsFiniteSet(S) BY FS_Interval, FS_Subset
<1>2. n \notin S /\ DOMAIN inbox' = DOMAIN inbox \cup {n} /\ inbox'[n] = m
      /\ \A i \in DOMAIN inbox : inbox'[i] = inbox[i]
  OBVIOUS
<1>3. {i \in DOMAIN inbox' : Parsed(inbox'[i])} = IF Parsed(m) THEN S \cup {n} ELSE S
  BY <1>2
<1>4. Cardinality(S \cup {n}) = Cardinality(S) + 1 /\ Cardinality(S) \in Nat
  BY <1>1, <1>2, FS_AddElement, FS_CardinalityType
<1>5. Backlog = Cardinality(S) /\ Backlog' = Cardinality(IF Parsed(m) THEN S \cup {n} ELSE S)
  BY <1>3 DEF Backlog
<1>6. QED
  <2> HIDE DEF S, n
  <2> QED BY <1>4, <1>5

\* ... and one that is taken leaves it so.
LEMMA BacklogTail ==
  ASSUME inbox \in Seq(Messages), inbox # <<>>, inbox' = Tail(inbox)
  PROVE  /\ Backlog \in Nat /\ Backlog' \in Nat
         /\ Parsed(Head(inbox)) => Backlog = Backlog' + 1
         /\ ~Parsed(Head(inbox)) => Backlog = Backlog'
<1> DEFINE S == {i \in DOMAIN inbox : Parsed(inbox[i])}
           T == {i \in DOMAIN inbox' : Parsed(inbox'[i])}
           f == [i \in T |-> i + 1]
<1>1. IsFiniteSet(S) /\ IsFiniteSet(T)
  <2>1. IsFiniteSet(S) BY FS_Interval, FS_Subset
  <2>2. Tail(inbox) \in Seq(Messages) /\ IsFiniteSet(DOMAIN Tail(inbox)) BY FS_Interval
  <2>3. QED BY <2>1, <2>2, FS_Subset
<1>2. \A i \in DOMAIN inbox' : i \in Nat \ {0} /\ i + 1 \in DOMAIN inbox /\ inbox'[i] = inbox[i + 1]
  OBVIOUS
<1>3. \A i \in DOMAIN inbox : i # 1 => i - 1 \in DOMAIN inbox'
  OBVIOUS
<1>4. 1 \in DOMAIN inbox /\ inbox[1] = Head(inbox)
  OBVIOUS
<1>5. f \in Bijection(T, S \ {1})
  <2>1. \A i \in T : i \in Nat /\ f[i] \in S \ {1} BY <1>2
  <2>2. \A i, j \in T : i # j => f[i] # f[j] BY <2>1
  <2>3. ASSUME NEW j \in S \ {1} PROVE \E i \in T : f[i] = j
    <3>1. j - 1 \in DOMAIN inbox' /\ j \in Int BY <1>3
    <3>2. j - 1 \in T /\ f[j - 1] = j BY <1>2, <3>1
    <3>3. QED BY <3>2
  <2>4. QED BY <2>1, <2>2, <2>3 DEF Bijection, Injection, Surjection, IsInjective
<1>6. Cardinality(T) = Cardinality(S \ {1}) /\ Cardinality(T) \in Nat
  <2> HIDE DEF f, S, T
  <2>1. IsFiniteSet(S \ {1}) BY <1>1, FS_Subset
  <2>2. ExistsBijection(T, S \ {1}) BY <1>5 DEF ExistsBijection
  <2>3. QED BY <1>1, <2>1, <2>2, FS_Bijection, FS_CardinalityType, FS_SameCardinalityBij
<1>7. Parsed(Head(inbox)) => 1 \in S BY <1>4
<1>8. ASSUME ~Parsed(Head(inbox)) PROVE Cardinality(S \ {1}) = Cardinality(S)
  <2>1. S \ {1} = S BY <1>4, <1>8
  <2>2. QED BY <2>1
<1>9. 1 \in S => Cardinality(S \ {1}) = Cardinality(S) - 1
  <2> HIDE DEF S
  <2> QED BY <1>1, FS_RemoveElement
<1>10. Cardinality(S) \in Nat BY <1>1, FS_CardinalityType
<1>11. Backlog = Cardinality(S) /\ Backlog' = Cardinality(T) BY DEF Backlog
<1>12. QED
  <2> HIDE DEF S, T
  <2>1. CASE Parsed(Head(inbox)) BY <1>6, <1>7, <1>9, <1>10, <1>11, <2>1
  <2>2. CASE ~Parsed(Head(inbox)) BY <1>6, <1>8, <1>10, <1>11, <2>2
  <2>3. QED BY <2>1, <2>2

LEMMA EntryInSub ==
  ASSUME Types, NEW t \in Tabler
  PROVE  Entry(t) \in Sub /\ Entry(t) = Len(report[t].values) + 1 /\ Len(report[t].values) \in Nat
BY SubType DEF Types, ReportTyped, Entry

LEMMA NoReportType ==
  /\ NoReport \in TableReport
  /\ NoReport.values = <<>> /\ NoReport.status = NULL /\ Len(NoReport.values) < Len(subdevname)
<1>1. <<>> \in Seq(Cell) OBVIOUS
<1>2. QED BY <1>1, SubType DEF NoReport

LEMMA InitTypes == Init => Types /\ Account
<1> SUFFICES ASSUME Init PROVE Types /\ Account
  OBVIOUS
<1>1. Backlog = 0
  <2>1. {i \in DOMAIN inbox : Parsed(inbox[i])} = {} BY DEF Init
  <2>2. QED BY <2>1, FS_EmptySet DEF Backlog
<1>2. Account BY <1>1 DEF Init, Account
<1>4. NoMeasure \in MeasureReport
  BY DEF NoMeasure
<1>5. Shapes BY <1>4, NoReportType DEF Init, Shapes, Labels
<1>6. BudgetTyped BY EquipmentAssumption DEF Init, BudgetTyped
<1>7. TableTyped BY EquipmentAssumption DEF Init, TableTyped
<1>8. ReportTyped BY NoReportType DEF Init, ReportTyped, Cell
<1>9. MeasureTyped BY DEF Init, MeasureTyped, Uploading
<1>10. InboxTyped /\ PcTyped BY DEF Init, InboxTyped, PcTyped
<1>11. QED BY <1>2, <1>5, <1>6, <1>7, <1>8, <1>9, <1>10 DEF Types

\* The actions of a report 104, by who writes it, and of a report 202.
Tabling(t) == Measure(t) \/ Copy(t)
Metering(t) ==
  \/ Spend("report") /\ StoreLon(t)
  \/ Spend("alarm") /\ StoreLon(t)
  \/ Upload(t)

LEMMA StartTyped ==
  ASSUME Types, NEW t \in Tabler, StartReport(t)
  PROVE  /\ pc' \in [Thread -> Labels]
         /\ report' \in [Tabler -> TableReport]
         /\ report' = [report EXCEPT ![t] = report'[t]]
         /\ report'[t].values = <<>> /\ report'[t].held = [i \in Sub |-> {subdevvalue[i]}]
         /\ report'[t].seen = NULL /\ report'[t].moved = FALSE /\ report'[t].status = status
<1> DEFINE r == [NoReport EXCEPT !.status = status, !.held = [i \in Sub |-> {subdevvalue[i]}]]
<1>1. /\ r.status = status /\ r.values = <<>> /\ r.seen = NULL /\ r.moved = FALSE
      /\ r.held = [i \in Sub |-> {subdevvalue[i]}]
  BY DEF NoReport
<1>2. <<>> \in Seq(Cell) OBVIOUS
<1>3. [i \in Sub |-> {subdevvalue[i]}] \in [Sub -> SUBSET Cell] /\ status \in Status
  BY DEF Types, TableTyped, Cell
<1>4. r \in TableReport
  BY <1>2, <1>3 DEF NoReport
<1>5. report' = [report EXCEPT ![t] = r] BY DEF StartReport
<1>6. report'[t] = r BY <1>5 DEF Types, Shapes
<1>7. pc' \in [Thread -> Labels] BY DEF StartReport, Goto, Types, Shapes, Labels
<1> HIDE DEF r
<1>8. QED BY <1>1, <1>4, <1>5, <1>6, <1>7 DEF Types, Shapes

\* A text copied: where it goes, and what the report is afterwards.
LEMMA CopyResult ==
  ASSUME Types, NEW t \in Tabler, Copy(t)
  PROVE  \E text \in Copied(t) : LET vs == Append(report[t].values, text) IN
         \/ /\ Entry(t) < Len(subdevname) /\ pc' = [pc EXCEPT ![t] = "measure"]
            /\ report' = [report EXCEPT ![t] = [report[t] EXCEPT !.values = vs]] /\ UNCHANGED last
         \/ /\ Entry(t) = Len(subdevname)
            /\ pc' = [pc EXCEPT ![t] = IF t = "main" THEN "idle" ELSE "forward"]
            /\ report' = [report EXCEPT ![t] = NoReport]
            /\ Publish([op |-> 104, by |-> t, status |-> report[t].status, values |-> vs,
                        held |-> report[t].held])
<1>1. PICK text \in Copied(t) :
        LET r == [report[t] EXCEPT !.values = Append(@, text)] IN
        IF Len(r.values) < Len(subdevname)
        THEN Goto(t, "measure") /\ report' = [report EXCEPT ![t] = r] /\ UNCHANGED last
        ELSE /\ Goto(t, IF t = "main" THEN "idle" ELSE "forward")
             /\ report' = [report EXCEPT ![t] = NoReport]
             /\ Publish([op |-> 104, by |-> t, status |-> r.status, values |-> r.values, held |-> r.held])
  BY DEF Copy
<1> DEFINE vs == Append(report[t].values, text)
           r == [report[t] EXCEPT !.values = vs]
<1>2. r.values = vs /\ r.status = report[t].status /\ r.held = report[t].held
  BY DEF Types, Shapes
<1>3. report[t].values \in Seq(Cell) BY DEF Types, Shapes
<1>4. Len(vs) = Entry(t) BY <1>3 DEF Entry
<1>5. Entry(t) \in 1..Len(subdevname) BY EntryInSub, SubType
<1> WITNESS text \in Copied(t)
<1>6. CASE Entry(t) < Len(subdevname)
  <2>1. Goto(t, "measure") /\ report' = [report EXCEPT ![t] = r] /\ UNCHANGED last
    BY <1>1, <1>2, <1>4, <1>6
  <2>2. QED BY <1>6, <2>1 DEF Goto
<1>7. CASE Entry(t) = Len(subdevname)
  <2>1. ~ (Len(r.values) < Len(subdevname)) BY <1>2, <1>4, <1>7, SubType
  <2>2. /\ Goto(t, IF t = "main" THEN "idle" ELSE "forward")
        /\ report' = [report EXCEPT ![t] = NoReport]
        /\ Publish([op |-> 104, by |-> t, status |-> r.status, values |-> r.values, held |-> r.held])
    BY <1>1, <2>1
  <2>3. QED BY <1>2, <1>7, <2>2 DEF Goto
<1>8. \/ Entry(t) < Len(subdevname)
      \/ Entry(t) = Len(subdevname)
  BY <1>5, SubType
<1>9. QED BY <1>6, <1>7, <1>8

LEMMA CopiedType == ASSUME Types, NEW t \in Tabler PROVE Copied(t) \in SUBSET Cell
<1>1. subdevvalue[Entry(t)] \in Cell BY EntryInSub DEF Types, TableTyped, Cell
<1>2. QED BY <1>1 DEF Copied, Cell

LEMMA SpendTyped ==
  ASSUME BudgetTyped, NEW e \in {"message", "report", "alarm"}, Spend(e) PROVE BudgetTyped'
BY DEF BudgetTyped, Spend

LEMMA TablingTypes ==
  ASSUME Types, Account, NEW t \in Tabler, Tabling(t) PROVE Types' /\ Account'
<1>0. Entry(t) \in Sub /\ Entry(t) \in Nat BY EntryInSub, SubType
<1> USE DEF Types
<1>1. UNCHANGED <<subdevvalue, status, budget, handled, measuring>>
  BY DEF Tabling, Measure, Copy
<1>2. pc[t] \in {"measure", "copy"}
  BY DEF Tabling, Measure, Copy
<1>3. TableTyped' /\ InboxTyped' /\ BudgetTyped'
  BY <1>1 DEF TableTyped, InboxTyped, BudgetTyped
<1>4. /\ \/ pc' = [pc EXCEPT ![t] = "copy"] \/ pc' = [pc EXCEPT ![t] = "measure"]
         \/ pc' = [pc EXCEPT ![t] = IF t = "main" THEN "idle" ELSE "forward"]
      /\ \E r \in TableReport :
           report' = [report EXCEPT ![t] = r] /\ Len(r.values) < Len(subdevname)
  <2>1. CASE Measure(t)
    <3> DEFINE r == [report[t] EXCEPT !.seen = subdevvalue[Entry(t)], !.moved = FALSE]
    <3>1. subdevvalue[Entry(t)] \in Cell BY <1>0 DEF TableTyped, Cell
    <3>2. /\ r \in TableReport
          /\ r.values = report[t].values
      <4>1. report[t] \in TableReport BY DEF Shapes
      <4>2. r = [status |-> report[t].status, values |-> report[t].values, seen |-> subdevvalue[Entry(t)],
                 moved |-> FALSE, held |-> report[t].held]
        <5>1. report[t] = [status |-> report[t].status, values |-> report[t].values, seen |-> report[t].seen,
                           moved |-> report[t].moved, held |-> report[t].held]
          BY <4>1 DEF TableReport
        <5> DEFINE z == subdevvalue[Entry(t)]
        <5> HIDE DEF z
        <5>2. r = [report[t] EXCEPT !.seen = z, !.moved = FALSE] BY DEF z
        <5> HIDE DEF r
        <5>3. QED BY <5>1, <5>2 DEF z
      <4>3. QED BY <3>1, <4>1, <4>2 DEF TableReport
    <3>3. report' = [report EXCEPT ![t] = r] BY <2>1 DEF Measure, Shapes
    <3>4. QED BY <2>1, <3>2, <3>3 DEF Measure, Goto, ReportTyped
  <2>2. CASE Copy(t)
    <3>1. PICK text \in Copied(t) : LET vs == Append(report[t].values, text) IN
         \/ /\ Entry(t) < Len(subdevname) /\ pc' = [pc EXCEPT ![t] = "measure"]
            /\ report' = [report EXCEPT ![t] = [report[t] EXCEPT !.values = vs]] /\ UNCHANGED last
         \/ /\ Entry(t) = Len(subdevname)
            /\ pc' = [pc EXCEPT ![t] = IF t = "main" THEN "idle" ELSE "forward"]
            /\ report' = [report EXCEPT ![t] = NoReport]
            /\ Publish([op |-> 104, by |-> t, status |-> report[t].status, values |-> vs,
                        held |-> report[t].held])
      BY <2>2, CopyResult
    <3> DEFINE vs == Append(report[t].values, text)
               r == [report[t] EXCEPT !.values = vs]
    <3>2. text \in Cell /\ report[t].values \in Seq(Cell) BY CopiedType DEF Shapes
    <3>3. vs \in Seq(Cell) /\ Len(vs) = Entry(t) BY <3>2 DEF Entry
    <3>4. r \in TableReport
          /\ r.values = vs
      <4>1. report[t] \in TableReport BY DEF Shapes
      <4>2. report[t] = [status |-> report[t].status, values |-> report[t].values, seen |-> report[t].seen,
                         moved |-> report[t].moved, held |-> report[t].held]
        BY <4>1 DEF TableReport
      <4> HIDE DEF vs
      <4>3. r = [status |-> report[t].status, values |-> vs, seen |-> report[t].seen,
                 moved |-> report[t].moved, held |-> report[t].held]
        BY <4>2
      <4>4. QED BY <3>3, <4>1, <4>3 DEF TableReport
    <3>5. NoReport \in TableReport
          /\ Len(NoReport.values) < Len(subdevname)
      BY NoReportType
    <3>6. CASE report' = [report EXCEPT ![t] = NoReport]
      BY <3>1, <3>5, <3>6
    <3>7. CASE Entry(t) < Len(subdevname) /\ report' = [report EXCEPT ![t] = r]
      <4>1. pc' = [pc EXCEPT ![t] = "measure"] BY <3>1, <3>7, <1>0, SubType
      <4>2. Len(r.values) < Len(subdevname) BY <3>3, <3>4, <3>7
      <4> HIDE DEF r
      <4> QED BY <3>4, <3>7, <4>1, <4>2
    <3>8. QED BY <3>1, <3>6, <3>7
  <2>3. QED BY <2>1, <2>2 DEF Tabling
<1>5. ReportTyped' BY <1>4 DEF ReportTyped, Shapes, Cell
<1>6. Shapes' BY <1>1, <1>4 DEF Shapes, Labels
<1>7. PcTyped' BY <1>2, <1>4 DEF PcTyped, Shapes
<1>8. MeasureTyped' BY <1>1, <1>2, <1>4 DEF MeasureTyped, Shapes, Uploading
<1>9. Account' BY <1>1, <1>2, <1>4 DEF Account, Backlog, Shapes
<1>10. QED BY <1>3, <1>5, <1>6, <1>7, <1>8, <1>9

\* A store of one thread, and what the other's report notes of it.
LEMMA StoreSeen ==
  ASSUME Shapes, NEW t \in Meter, NEW at, NEW m \in MeasureReport, Store(t, at, m)
  PROVE  /\ measure' \in [Meter -> MeasureReport]
         /\ measure'[t] = m /\ Other(t) \in Meter \ {t} /\ position' = at
         /\ measure'[Other(t)].own = measure[Other(t)].own
         /\ measure'[Other(t)].lon = measure[Other(t)].lon
         /\ Uploading(Other(t)) => measure'[Other(t)].shared
<1> DEFINE o == Other(t)
           x == measure[o].shared \/ Uploading(o)
<1>1. o \in Meter \ {t} BY DEF Other
<1>2. x \in BOOLEAN OBVIOUS
<1>3. measure' = [[measure EXCEPT ![t] = m] EXCEPT ![o].shared = x] /\ position' = at
  BY <1>1 DEF Store, Shapes
<1>4. Uploading(o) => x = TRUE OBVIOUS
<1> HIDE DEF o, x
<1>5. measure' \in [Meter -> MeasureReport] /\ measure'[t] = m
      /\ measure'[o].own = measure[o].own /\ measure'[o].lon = measure[o].lon
      /\ measure'[o].shared = x
  BY <1>1, <1>2, <1>3 DEF Shapes
<1>6. QED BY <1>1, <1>3, <1>4, <1>5 DEF o

LEMMA MeteringTypes ==
  ASSUME Types, Account, NEW t \in Meter, Metering(t)
  PROVE  /\ Types' /\ Account'
         /\ UNCHANGED <<subdevvalue, status, report, handled>>
         /\ \A u \in Thread \ {t} : pc'[u] = pc[u]
         /\ pc[t] \in {"idle", "lat", "putLon", "putLat"}
         /\ pc'[t] \in {"idle", "lat", "putLon", "putLat"}
<1> USE DEF Types
<1>1. UNCHANGED <<subdevvalue, status, report, handled>>
  BY DEF Metering, Upload, StoreLon, StoreLat, PutLon, PutLat
<1>2. TableTyped' /\ InboxTyped' /\ ReportTyped'
  BY <1>1 DEF TableTyped, InboxTyped, ReportTyped
<1>3. BudgetTyped'
  <2>1. CASE UNCHANGED budget BY <2>1 DEF BudgetTyped
  <2>2. QED BY <2>1, SpendTyped DEF Metering, Upload, StoreLat, PutLon, PutLat
<1>4. \E l \in {"idle", "lat", "putLon", "putLat"} : pc' = [pc EXCEPT ![t] = l]
  BY DEF Metering, Upload, StoreLon, StoreLat, PutLon, PutLat, Goto
<1>5. pc[t] \in {"idle", "lat", "putLon", "putLat"}
  BY DEF Metering, Upload, StoreLon, StoreLat, PutLon, PutLat
<1>6. PcTyped' BY <1>4 DEF PcTyped, Shapes
<1>7. Account' BY <1>1, <1>4 DEF Account, Backlog, Shapes
<1>8. NULL \in Fix \cup {0, NULL} /\ position.lon \in Fix \cup {0} /\ position.lat \in Fix \cup {0}
  BY DEF MeasureTyped
<1>9. Shapes' /\ MeasureTyped'
  <2>1. CASE StoreLon(t)
    <3>1. PICK f \in [lon : Fix, lat : Fix] :
            Store(t, [position EXCEPT !.lon = f.lon], [own |-> f, lon |-> NULL, shared |-> FALSE])
      BY <2>1 DEF StoreLon
    <3>2. Shapes'
      <4>1. [own |-> f, lon |-> NULL, shared |-> FALSE] \in MeasureReport OBVIOUS
      <4>2. measure' \in [Meter -> MeasureReport] BY <3>1, <4>1, StoreSeen
      <4>3. QED BY <1>1, <1>4, <4>2 DEF Shapes, Labels
    <3>3. measure'[t].own = f /\ measure'[Other(t)].own = measure[Other(t)].own /\ Other(t) \in Meter
      BY <3>1 DEF Store, Other, Shapes
    <3>4. position' \in [lon : Fix \cup {0}, lat : Fix \cup {0}]
      BY <3>1 DEF Store, MeasureTyped
    <3>5. Uploading(Other(t))' => Uploading(Other(t))
      BY <1>4 DEF Uploading, Other, Shapes
    <3>6. QED BY <3>2, <3>3, <3>4, <3>5 DEF MeasureTyped, Other
  <2>2. CASE StoreLat(t)
    <3>1. Store(t, [position EXCEPT !.lat = NewLat(t)], measure[t]) /\ NewLat(t) \in Fix
      BY <2>2 DEF StoreLat, NewLat, MeasureTyped, Uploading
    <3>2. Shapes'
      <4>1. measure[t] \in MeasureReport BY DEF Shapes
      <4>2. QED BY <1>1, <1>4, <3>1, <4>1, StoreSeen DEF Shapes, Labels
    <3>3. measure'[t].own = measure[t].own /\ measure'[Other(t)].own = measure[Other(t)].own
          /\ Other(t) \in Meter
      BY <3>1 DEF Store, Other, Shapes
    <3>4. position' \in [lon : Fix \cup {0}, lat : Fix \cup {0}]
      BY <3>1 DEF Store, MeasureTyped
    <3>5. Uploading(Other(t))' => Uploading(Other(t))
      BY <1>4 DEF Uploading, Other, Shapes
    <3>6. Uploading(t) BY <2>2 DEF StoreLat, Uploading
    <3>7. QED BY <3>2, <3>3, <3>4, <3>5, <3>6 DEF MeasureTyped, Other
  <2>3. CASE PutLon(t)
    <3>1. measure' = [measure EXCEPT ![t].lon = position.lon] /\ UNCHANGED position
      BY <2>3 DEF PutLon
    <3>2. Shapes' BY <1>1, <1>4, <1>8, <3>1 DEF Shapes, Labels
    <3>3. \A u \in Meter : measure'[u].own = measure[u].own
      BY <3>1 DEF Shapes
    <3>4. \A u \in Meter : Uploading(u)' => Uploading(u)
      BY <2>3, <1>4 DEF PutLon, Uploading, Shapes
    <3>5. QED BY <3>1, <3>2, <3>3, <3>4 DEF MeasureTyped
  <2>4. CASE PutLat(t)
    <3>1. measure' = [measure EXCEPT ![t] = NoMeasure] /\ UNCHANGED position
          /\ pc' = [pc EXCEPT ![t] = "idle"]
      BY <2>4 DEF PutLat, Goto
    <3>2. Shapes' BY <1>1, <3>1 DEF Shapes, Labels, NoMeasure
    <3>3. ~Uploading(t)' BY <3>1 DEF Uploading, Shapes
    <3>4. \A u \in Meter \ {t} : measure'[u] = measure[u] /\ Uploading(u)' = Uploading(u)
      BY <3>1 DEF Shapes, Uploading
    <3>5. QED BY <3>1, <3>2, <3>3, <3>4 DEF MeasureTyped
  <2>5. QED BY <2>1, <2>2, <2>3, <2>4 DEF Metering, Upload
<1>10. \A u \in Thread \ {t} : pc'[u] = pc[u] BY <1>4 DEF Shapes
<1>11. pc'[t] \in {"idle", "lat", "putLon", "putLat"} BY <1>4 DEF Shapes
<1>12. QED BY <1>1, <1>2, <1>3, <1>5, <1>6, <1>7, <1>9, <1>10, <1>11

\* A new report: by main, or by the callback thread to answer a query.
Starting(t) ==
  \/ Command /\ t = "main"
  \/ sStatus_uploading_proc /\ t = "callback"

LEMMA TakeTypes ==
  ASSUME Types, NEW op, Take(op), op # -1
  PROVE  /\ TableTyped /\ InboxTyped' /\ BudgetTyped' /\ MeasureTyped
         /\ msg' \in Messages /\ msg'.op = op /\ msg' \in Message
         /\ Backlog = Backlog' + 1 /\ Backlog' \in Nat
         /\ UNCHANGED <<subdevvalue, last, budget, forwarded, sent, measuring>>
<1>1. inbox \in Seq(Messages) /\ inbox # <<>> /\ inbox' = Tail(inbox) /\ msg' = Head(inbox)
  BY DEF Types, InboxTyped, Take
<1>2. inbox' \in Seq(Messages) /\ msg' \in Messages BY <1>1
<1>3. Parsed(Head(inbox)) = TRUE BY DEF Take, Parsed
<1>4. Backlog = Backlog' + 1
  <2>1. Parsed(Head(inbox)) => Backlog = Backlog' + 1 BY <1>1, BacklogTail
  <2>2. QED BY <1>3, <2>1
<1>5. Backlog' \in Nat BY <1>1, BacklogTail
<1>6. QED
  BY <1>1, <1>2, <1>4, <1>5, MessagesAssumption DEF Types, InboxTyped, BudgetTyped, Take

LEMMA StartingTypes ==
  ASSUME Types, Account, NEW t \in Tabler, Starting(t)
  PROVE  /\ Types' /\ Account'
         /\ UNCHANGED <<subdevvalue, status, last, measuring>>
         /\ pc' = [pc EXCEPT ![t] = "measure"] /\ pc[t] = "idle" /\ StartReport(t)
<1> USE DEF Types
<1>1. /\ UNCHANGED <<subdevvalue, status, last, measuring>>
      /\ StartReport(t) /\ pc[t] = "idle" /\ pc' = [pc EXCEPT ![t] = "measure"]
  BY DEF Starting, Command, sStatus_uploading_proc, Take, StartReport, Goto
<1>2. TableTyped' BY <1>1 DEF TableTyped
<1>3. Shapes' BY <1>1, StartTyped DEF Shapes
<1>4. ReportTyped'
  <2>1. report' = [report EXCEPT ![t] = report'[t]] /\ report'[t].values = <<>>
        /\ report'[t].status = status
    BY <1>1, StartTyped
  <2>2. \A u \in Tabler \ {t} : report'[u] = report[u] BY <2>1 DEF Shapes
  <2>3. <<>> \in Seq(Cell) /\ Len(<<>>) < Len(subdevname) BY SubType
  <2>4. QED BY <2>1, <2>2, <2>3 DEF ReportTyped, TableTyped, Cell
<1>5. PcTyped' BY <1>1 DEF PcTyped, Shapes
<1>6. MeasureTyped' BY <1>1 DEF MeasureTyped, Uploading, Shapes
<1>7. InboxTyped' /\ BudgetTyped' /\ Account'
  <2>1. CASE Command /\ t = "main"
    BY <2>1, <1>1, SpendTyped DEF Command, InboxTyped, Account, Backlog, Shapes
  <2>2. CASE sStatus_uploading_proc /\ t = "callback"
    <3>1. Take(103) BY <2>2 DEF sStatus_uploading_proc
    <3>2. InboxTyped' /\ BudgetTyped' /\ forwarded' = forwarded /\ sent' = sent
          /\ Backlog = Backlog' + 1 /\ Backlog' \in Nat
      BY <3>1, TakeTypes
    <3>3. pc["callback"] = "idle" /\ pc'["callback"] = "measure" BY <1>1, <2>2 DEF Shapes
    <3>4. forwarded \in Nat /\ sent \in Nat /\ Backlog \in Nat
      BY BacklogType DEF InboxTyped
    <3>5. forwarded + Backlog = sent BY <3>3 DEF Account
    <3>6. forwarded' + Backlog' = sent' - 1 BY <3>2, <3>4, <3>5 DEF Backlog
    <3>7. Account' BY <3>3, <3>6 DEF Account
    <3>8. QED BY <3>2, <3>7
  <2>3. QED BY <2>1, <2>2 DEF Starting
<1>8. QED BY <1>1, <1>2, <1>3, <1>4, <1>5, <1>6, <1>7

\* The callback thread between messages: a message is dropped, taken or handed on.
\* The other steps of its handlers leave the messages alone.
Receiving == Discard \/ Unknown \/ sCtrl_EquipmentALL_proc \/ sCtrl_EquipmentSub_proc \/ Forward
Obeying == SubFree \/ SubAssign \/ Reply

\* Only the callback thread's place changes.
OnlyCallback == \A u \in Thread \ {"callback"} : pc'[u] = pc[u]

LEMMA CallbackAt ==
  ASSUME Types, Receiving \/ Obeying
  PROVE  /\ pc' \in [Thread -> Labels] /\ PcTyped' /\ OnlyCallback
         /\ pc["callback"] \notin {"measure", "copy"} /\ pc'["callback"] \notin {"measure", "copy"}
<1>1. \E l \in {"idle", "free", "assign", "reply", "forward", "crashed"} :
        pc' = [pc EXCEPT !["callback"] = l]
  <2>1. CASE Receiving
    <3>1. CASE Discard BY <3>1 DEF Discard, Types, Shapes
    <3>2. CASE Unknown \/ sCtrl_EquipmentALL_proc \/ sCtrl_EquipmentSub_proc \/ Forward
      BY <3>2 DEF Unknown, sCtrl_EquipmentALL_proc, sCtrl_EquipmentSub_proc, Forward, Goto
    <3>3. QED BY <2>1, <3>1, <3>2 DEF Receiving
  <2>2. CASE Obeying BY <2>2 DEF Obeying, SubFree, SubAssign, Reply, Goto
  <2>3. QED BY <2>1, <2>2
<1>2. pc["callback"] \notin {"measure", "copy"}
  BY DEF Receiving, Obeying, Discard, Unknown, sCtrl_EquipmentALL_proc, sCtrl_EquipmentSub_proc,
         Take, Forward, SubFree, SubAssign, Reply
<1>3. QED BY <1>1, <1>2 DEF Types, Shapes, PcTyped, Labels, OnlyCallback

LEMMA ReceivingTypes ==
  ASSUME Types, Account, Receiving
  PROVE  /\ Types' /\ Account'
         /\ UNCHANGED <<subdevvalue, report, last, measuring>>
<1> USE DEF Types
<1>1. UNCHANGED <<subdevvalue, report, last, budget, measuring>>
  BY DEF Receiving, Discard, Unknown, sCtrl_EquipmentALL_proc, sCtrl_EquipmentSub_proc, Forward, Take
<1>2. BudgetTyped' /\ ReportTyped' /\ Shapes' /\ PcTyped'
  BY <1>1, CallbackAt DEF BudgetTyped, ReportTyped, Shapes
<1>3. MeasureTyped' BY <1>1, CallbackAt DEF MeasureTyped, OnlyCallback, Uploading
<1>4. forwarded \in Nat /\ sent \in Nat /\ Backlog \in Nat /\ pc["callback"] \in Labels
  BY BacklogType DEF InboxTyped, Shapes
<1>5. CASE Discard
  <2>1. inbox \in Seq(Messages) /\ inbox # <<>> /\ inbox' = Tail(inbox) /\ ~Parsed(Head(inbox))
        /\ UNCHANGED <<subdevvalue, status, pc, msg, forwarded, sent>>
    BY <1>5 DEF Discard, InboxTyped
  <2>2. Backlog = Backlog' BY <2>1, BacklogTail
  <2>3. Account' BY <2>1, <2>2 DEF Account, Backlog
  <2>4. InboxTyped' /\ TableTyped' BY <2>1 DEF InboxTyped, TableTyped
  <2>5. QED BY <1>1, <1>2, <1>3, <2>3, <2>4
<1>6. CASE Unknown \/ sCtrl_EquipmentALL_proc \/ sCtrl_EquipmentSub_proc
  <2>1. PICK op \in {0, 105, 106} : Take(op)
    BY <1>6 DEF Unknown, sCtrl_EquipmentALL_proc, sCtrl_EquipmentSub_proc
  <2>2. InboxTyped' /\ forwarded' = forwarded /\ sent' = sent
        /\ Backlog = Backlog' + 1 /\ Backlog' \in Nat /\ msg' \in Message /\ msg'.op = op
    BY <2>1, TakeTypes
  <2>3. pc["callback"] = "idle" BY <2>1 DEF Take
  <2>4. pc'["callback"] # "idle"
    BY <1>6 DEF Unknown, sCtrl_EquipmentALL_proc, sCtrl_EquipmentSub_proc, Goto, Shapes
  <2>5. Account'
    <3>1. forwarded + Backlog = sent BY <2>3 DEF Account
    <3>2. forwarded' + Backlog' = sent' - 1 BY <1>4, <2>2, <3>1 DEF Backlog
    <3>3. QED BY <2>4, <3>2 DEF Account
  <2>6. status' \in Status
    <3>1. CASE sCtrl_EquipmentALL_proc
      <4>1. msg' \in Message /\ msg'.op = 105
        BY <3>1, TakeTypes DEF sCtrl_EquipmentALL_proc
      <4>2. msg'.status \in Status \cup {NULL} BY <4>1 DEF Message
      <4>3. QED BY <3>1, <4>2 DEF sCtrl_EquipmentALL_proc, TableTyped
    <3>2. CASE Unknown \/ sCtrl_EquipmentSub_proc
      BY <3>2 DEF Unknown, sCtrl_EquipmentSub_proc, TableTyped
    <3>3. QED BY <1>6, <3>1, <3>2
  <2>7. TableTyped' BY <1>1, <2>6 DEF TableTyped
  <2>8. QED BY <1>1, <1>2, <1>3, <2>2, <2>5, <2>7
<1>7. CASE Forward
  <2>1. /\ pc["callback"] = "forward" /\ pc' = [pc EXCEPT !["callback"] = "idle"]
        /\ forwarded' = forwarded + 1 /\ msg' = NULL /\ UNCHANGED <<subdevvalue, status, inbox, sent>>
    BY <1>7 DEF Forward, Goto, Handed
  <2>2. pc'["callback"] = "idle" BY <2>1 DEF Shapes
  <2>3. Account'
    <3>1. forwarded + Backlog = sent - 1 BY <2>1 DEF Account
    <3>2. Backlog' = Backlog BY <2>1 DEF Backlog
    <3>3. forwarded' + Backlog' = sent' BY <1>4, <2>1, <3>1, <3>2 DEF Backlog
    <3>4. QED BY <2>2, <3>3 DEF Account
  <2>4. InboxTyped' /\ TableTyped' BY <2>1 DEF InboxTyped, TableTyped
  <2>5. QED BY <1>1, <1>2, <1>3, <2>3, <2>4
<1>8. QED BY <1>5, <1>6, <1>7 DEF Receiving

LEMMA ObeyingTypes ==
  ASSUME Types, Account, ControlAt, Obeying
  PROVE  /\ Types' /\ Account'
         /\ UNCHANGED <<status, budget, handled, measuring>>
         /\ pc["callback"] \in {"free", "assign", "reply"} /\ pc'["callback"] \notin {"idle", "free"}
<1> USE DEF Types
<1>1. UNCHANGED <<status, budget, handled, measuring>>
  BY DEF Obeying, SubFree, SubAssign, Reply
<1>2. pc["callback"] \in {"free", "assign", "reply"}
      /\ \E l \in {"assign", "reply", "forward", "crashed"} : pc' = [pc EXCEPT !["callback"] = l]
  BY DEF Obeying, SubFree, SubAssign, Reply, Goto
<1>3. pc'["callback"] \in {"assign", "reply", "forward", "crashed"} BY <1>2 DEF Shapes
<1>4. BudgetTyped' /\ InboxTyped' /\ PcTyped' BY <1>1, CallbackAt DEF BudgetTyped, InboxTyped
<1>5. MeasureTyped' BY <1>1, CallbackAt DEF MeasureTyped, OnlyCallback, Uploading
<1>6. Account' BY <1>1, <1>2, <1>3 DEF Account, Backlog
<1>7. \/ UNCHANGED subdevvalue
      \/ \E i \in Sub, v \in Cell : subdevvalue' = [subdevvalue EXCEPT ![i] = v]
  <2>1. CASE SubFree
    BY <2>1, FindPlace DEF SubFree, ControlAt, Cell
  <2>2. CASE SubAssign
    BY <2>2, FindPlace DEF SubAssign, Stored, ControlAt, Cell
  <2>3. CASE Reply BY <2>3 DEF Reply
  <2>4. QED BY <2>1, <2>2, <2>3 DEF Obeying
<1>8. TableTyped' BY <1>1, <1>7 DEF TableTyped, Cell
<1>9. /\ report' \in [Tabler -> TableReport]
      /\ \A t \in Tabler : report'[t].values = report[t].values /\ report'[t].status = report[t].status
  <2>1. CASE SubFree
    <3>1. report' = Moved(Find(msg.no)) BY <2>1 DEF SubFree
    <3> DEFINE m(t) == report[t].moved \/ (pc[t] = "copy" /\ Entry(t) = Find(msg.no))
               h(t) == [j \in Sub |-> IF j = Find(msg.no) THEN report[t].held[j] \cup {Junk}
                                                          ELSE report[t].held[j]]
    <3>2. \A t \in Tabler : m(t) \in BOOLEAN OBVIOUS
    <3>3. \A t \in Tabler : h(t) \in [Sub -> SUBSET Cell] BY DEF Shapes, Cell
    <3>4. report' = [t \in Tabler |-> [report[t] EXCEPT !.moved = m(t), !.held = h(t)]]
      BY <3>1 DEF Moved, Shapes
    <3> HIDE DEF m, h
    <3>5. ASSUME NEW t \in Tabler
          PROVE  /\ [report[t] EXCEPT !.moved = m(t), !.held = h(t)] \in TableReport
                 /\ [report[t] EXCEPT !.moved = m(t), !.held = h(t)].values = report[t].values
                 /\ [report[t] EXCEPT !.moved = m(t), !.held = h(t)].status = report[t].status
      <4>1. report[t] \in TableReport /\ m(t) \in BOOLEAN /\ h(t) \in [Sub -> SUBSET Cell]
        BY <3>2, <3>3 DEF Shapes
      <4>2. QED BY <4>1
    <3> HIDE DEF TableReport
    <3>6. QED BY <3>4, <3>5
  <2>2. CASE SubAssign
    <3> DEFINE h(t) == [i \in Sub |-> report[t].held[i] \cup {subdevvalue'[i]}]
    <3>1. \A t \in Tabler : h(t) \in [Sub -> SUBSET Cell] BY <1>8 DEF TableTyped, Shapes, Cell
    <3>2. report' = [t \in Tabler |-> [report[t] EXCEPT !.held = h(t)]]
      BY <2>2 DEF SubAssign, Shapes
    <3> HIDE DEF h
    <3>3. QED BY <3>1, <3>2 DEF Shapes
  <2>3. CASE Reply BY <2>3 DEF Reply, Shapes
  <2>4. QED BY <2>1, <2>2, <2>3 DEF Obeying
<1>10. Shapes' BY <1>1, <1>9, CallbackAt DEF Shapes
<1>11. ReportTyped' BY <1>9 DEF ReportTyped
<1>12. QED BY <1>1, <1>2, <1>3, <1>4, <1>5, <1>6, <1>8, <1>10, <1>11

LEMMA ServerSendTypes ==
  ASSUME Types, Account, ServerSend
  PROVE  Types' /\ Account' /\ UNCHANGED <<subdevvalue, status, pc, report, last, msg, measuring>>
<1> USE DEF Types
<1>1. UNCHANGED <<subdevvalue, status, pc, report, last, msg, forwarded, measuring>> /\ Spend("message")
  BY DEF ServerSend
<1>2. BudgetTyped' BY <1>1, SpendTyped
<1>3. TableTyped' /\ Shapes' /\ PcTyped' /\ ReportTyped' /\ MeasureTyped'
  BY <1>1 DEF TableTyped, Shapes, PcTyped, ReportTyped, MeasureTyped, Uploading
<1>4. PICK m \in Messages : inbox' = Append(inbox, m) /\ sent' = IF Parsed(m) THEN sent + 1 ELSE sent
  BY DEF ServerSend
<1>5. InboxTyped' BY <1>1, <1>4 DEF InboxTyped, Parsed
<1>6. /\ Backlog \in Nat /\ sent \in Nat /\ forwarded \in Nat
      /\ Parsed(m) => Backlog' = Backlog + 1
      /\ ~Parsed(m) => Backlog' = Backlog
  BY <1>4, BacklogAppend DEF InboxTyped
<1>7. CASE Parsed(m)
  <2>1. sent' = sent + 1 /\ Backlog' = Backlog + 1 BY <1>4, <1>6, <1>7
  <2>2. CASE pc["callback"] = "idle"
    <3>1. forwarded + Backlog = sent BY <2>2 DEF Account
    <3>2. forwarded' + Backlog' = sent' BY <1>1, <1>6, <2>1, <3>1 DEF Backlog
    <3>3. QED BY <1>1, <1>2, <1>3, <1>5, <2>2, <3>2 DEF Account
  <2>3. CASE pc["callback"] # "idle"
    <3>1. forwarded + Backlog = sent - 1 BY <2>3 DEF Account
    <3>2. forwarded' + Backlog' = sent' - 1 BY <1>1, <1>6, <2>1, <3>1 DEF Backlog
    <3>3. QED BY <1>1, <1>2, <1>3, <1>5, <2>3, <3>2 DEF Account
  <2>4. QED BY <2>2, <2>3
<1>8. CASE ~Parsed(m)
  <2>1. sent' = sent /\ Backlog' = Backlog BY <1>4, <1>6, <1>8
  <2>2. Account' BY <1>1, <2>1 DEF Account, Backlog
  <2>3. QED BY <1>1, <1>2, <1>3, <1>5, <2>2
<1>9. QED BY <1>7, <1>8

\* Next, by the lemmas above.
LEMMA NextCases ==
  ASSUME Next
  PROVE  \/ \E t \in Tabler : Tabling(t) \/ Starting(t)
         \/ \E t \in Meter : Metering(t)
         \/ Receiving \/ Obeying \/ ServerSend
<1>1. CASE Callback
  <2>1. \/ Receiving \/ Obeying \/ Tabling("callback") \/ Starting("callback")
    BY <1>1 DEF Callback, Receiving, Obeying, Tabling, Starting
  <2>2. QED BY <2>1
<1>2. CASE Main
  <2>1. Tabling("main") \/ Starting("main") \/ Metering("main")
    BY <1>2 DEF Main, Tabling, Starting, CommandMeasure, Metering
  <2>2. QED BY <2>1
<1>3. CASE Alarm \/ Upload("alarm")
  <2>1. Metering("alarm") BY <1>3 DEF Alarm, Metering
  <2>2. QED BY <2>1
<1>4. QED BY <1>1, <1>2, <1>3 DEF Next

-----------------------------------------------------------------------------
(* Controls.                                                               *)

LEMMA ControlsStep ==
  ASSUME IInv, Next PROVE ControlAt' /\ Whole'
<1>0. Types /\ Account /\ ControlAt /\ Whole /\ NULL \in {NULL}
  BY DEF IInv, Parts
<1>1. ASSUME UNCHANGED <<subdevvalue, status, msg>>, pc'["callback"] = pc["callback"]
      PROVE  ControlAt' /\ Whole'
  BY <1>0, <1>1 DEF ControlAt, Whole
<1>2. CASE \E t \in Meter : Metering(t)
  <2>1. PICK t \in Meter : Metering(t) BY <1>2
  <2>2. QED BY <1>0, <1>1, <2>1, MeteringTypes
<1>3. CASE ServerSend BY <1>0, <1>1, <1>3, ServerSendTypes
<1>4. CASE \E t \in Tabler : Tabling(t) \/ Starting(t)
  <2>1. PICK t \in Tabler : Tabling(t) \/ Starting(t) BY <1>4
  <2>2. CASE t = "main"
    <3>1. UNCHANGED <<subdevvalue, status, msg>> /\ \E l \in Labels : pc' = [pc EXCEPT !["main"] = l]
      BY <2>1, <2>2 DEF Tabling, Measure, Copy, Starting, Command, StartReport, Goto, Labels
    <3>2. QED BY <1>0, <1>1, <3>1 DEF Types, Shapes
  <2>3. CASE t = "callback"
    <3>1. UNCHANGED subdevvalue
      BY <2>1, <2>3 DEF Tabling, Measure, Copy, Starting, sStatus_uploading_proc, Take
    <3>2. pc["callback"] \in {"idle", "measure", "copy"}
          /\ \E l \in {"measure", "copy", "forward"} : pc' = [pc EXCEPT !["callback"] = l]
      BY <2>1, <2>3 DEF Tabling, Measure, Copy, Starting, sStatus_uploading_proc, Take, StartReport, Goto
    <3>3. pc'["callback"] \in {"measure", "copy", "forward"} BY <1>0, <3>2 DEF Types, Shapes
    <3>4. Whole' BY <1>0, <3>1, <3>2 DEF Whole
    <3>5. msg' \in Messages
      <4>1. CASE Tabling("callback")
        BY <1>0, <4>1 DEF Tabling, Measure, Copy, ControlAt
      <4>2. CASE Starting("callback")
        BY <1>0, <4>2, TakeTypes DEF Starting, sStatus_uploading_proc
      <4>3. QED BY <2>1, <2>3, <4>1, <4>2
    <3>6. QED BY <3>3, <3>4, <3>5 DEF ControlAt
  <2>4. QED BY <2>2, <2>3
<1>5. CASE Receiving
  <2>1. CASE Discard BY <1>0, <1>1, <2>1 DEF Discard
  <2>2. CASE Forward
    <3>1. UNCHANGED subdevvalue /\ pc["callback"] = "forward" /\ pc'["callback"] = "idle"
      BY <1>0, <2>2 DEF Forward, Goto, Types, Shapes
    <3>2. QED BY <1>0, <3>1 DEF ControlAt, Whole
  <2>3. CASE Unknown \/ sCtrl_EquipmentALL_proc \/ sCtrl_EquipmentSub_proc
    <3>1. UNCHANGED subdevvalue /\ pc["callback"] = "idle"
      BY <2>3 DEF Unknown, sCtrl_EquipmentALL_proc, sCtrl_EquipmentSub_proc, Take
    <3>2. Whole' BY <1>0, <3>1 DEF Whole
    <3>3. CASE Unknown
      <4>1. msg' \in Messages BY <1>0, <3>3, TakeTypes DEF Unknown
      <4>2. pc'["callback"] = "forward" BY <1>0, <3>3 DEF Unknown, Goto, Types, Shapes
      <4>3. QED BY <3>2, <4>1, <4>2 DEF ControlAt
    <3>4. CASE sCtrl_EquipmentALL_proc
      <4>1. msg' \in Messages /\ msg' \in Message /\ msg'.op = 105
        BY <1>0, <3>4, TakeTypes DEF sCtrl_EquipmentALL_proc
      <4>2. pc'["callback"] = IF msg'.user THEN "reply" ELSE "forward"
        BY <1>0, <3>4 DEF sCtrl_EquipmentALL_proc, Goto, Types, Shapes
      <4>3. msg'.status \in {NULL, status'} BY <3>4 DEF sCtrl_EquipmentALL_proc
      <4>4. msg'.user \in BOOLEAN BY <4>1 DEF Message
      <4>5. QED BY <3>2, <4>1, <4>2, <4>3, <4>4 DEF ControlAt
    <3>5. CASE sCtrl_EquipmentSub_proc
      <4>1. msg' \in Messages /\ msg' \in Message /\ msg'.op = 106
        BY <1>0, <3>5, TakeTypes DEF sCtrl_EquipmentSub_proc
      <4>2. pc'["callback"] = IF ~msg'.user \/ msg'.no = NULL THEN "forward"
                              ELSE IF Find(msg'.no) = 0 THEN "reply" ELSE "free"
        BY <1>0, <3>5 DEF sCtrl_EquipmentSub_proc, Goto, Types, Shapes
      <4>3. msg'.user \in BOOLEAN BY <4>1 DEF Message
      <4>4. QED BY <3>2, <4>1, <4>2, <4>3 DEF ControlAt
    <3>6. QED BY <2>3, <3>3, <3>4, <3>5
  <2>4. QED BY <1>5, <2>1, <2>2, <2>3 DEF Receiving
<1>6. CASE Obeying
  <2>1. CASE SubFree
    <3>1. /\ pc["callback"] = "free" /\ UNCHANGED <<msg, status>>
          /\ subdevvalue' = [subdevvalue EXCEPT ![Find(msg.no)] = Junk]
          /\ pc'["callback"] = IF msg.value = NULL THEN "crashed" ELSE "assign"
      BY <1>0, <2>1 DEF SubFree, Goto, Types, Shapes
    <3>2. msg \in Message /\ msg.op = 106 BY <1>0, <3>1, MessagesAssumption DEF ControlAt
    <3>3. msg.value # NULL => msg.value \in Text BY <3>2 DEF Message
    <3>4. \A i \in Sub : i # Find(msg.no) => subdevvalue'[i] = subdevvalue[i]
      BY <1>0, <3>1 DEF Types, TableTyped
    <3>5. Whole' BY <1>0, <3>1, <3>4 DEF Whole
    <3>6. ControlAt' BY <1>0, <3>1, <3>3 DEF ControlAt
    <3>7. QED BY <3>5, <3>6
  <2>2. CASE SubAssign
    <3>1. /\ pc["callback"] = "assign" /\ UNCHANGED <<msg, status>>
          /\ subdevvalue' = [subdevvalue EXCEPT ![Find(msg.no)] = msg.value]
          /\ pc'["callback"] = "reply"
      BY <1>0, <2>2 DEF SubAssign, Stored, Goto, Types, Shapes
    <3>2. Find(msg.no) \in Sub /\ msg.value \in Text BY <1>0, <3>1, FindPlace DEF ControlAt
    <3>3. subdevvalue'[Find(msg.no)] = msg.value
          /\ \A i \in Sub : i # Find(msg.no) => subdevvalue'[i] = subdevvalue[i]
      BY <1>0, <3>1, <3>2 DEF Types, TableTyped
    <3>4. Whole' BY <1>0, <3>1, <3>2, <3>3 DEF Whole
    <3>5. ControlAt' BY <1>0, <3>1, <3>3 DEF ControlAt
    <3>6. QED BY <3>4, <3>5
  <2>3. CASE Reply
    <3>1. pc["callback"] = "reply" /\ pc'["callback"] = "forward" /\ UNCHANGED <<subdevvalue, msg>>
      BY <1>0, <2>3 DEF Reply, Goto, Types, Shapes
    <3>2. QED BY <1>0, <3>1 DEF ControlAt, Whole
  <2>4. QED BY <1>6, <2>1, <2>2, <2>3 DEF Obeying
<1>7. QED BY <1>2, <1>3, <1>4, <1>5, <1>6, NextCases

-----------------------------------------------------------------------------
(* Reports of the table.                                                   *)

\* What FreshAt and SnapshotAt say of a report survives as long as the report
\* and the table stay as they are.
LEMMA ReportKept ==
  ASSUME NEW t \in Tabler, Types, subdevvalue' = subdevvalue, report'[t] = report[t], pc'[t] = pc[t]
  PROVE  /\ FreshAt(t) => FreshAt(t)'
         /\ (t = "callback" /\ SnapshotAt) => SnapshotAt'
<1>1. Entry(t)' = Entry(t) BY DEF Entry
<1>2. FreshAt(t) => FreshAt(t)' BY <1>1 DEF FreshAt
<1>3. (t = "callback" /\ SnapshotAt) => SnapshotAt' BY <1>1 DEF SnapshotAt
<1>4. QED BY <1>2, <1>3

\* A text that is copied is one the sub-device held since the report began, or
\* Junk after several.
LEMMA CopiedShown ==
  ASSUME Types, NEW t \in Tabler, pc[t] = "copy", FreshAt(t), NEW text \in Copied(t)
  PROVE  Shown(text, report[t].held[Entry(t)])
<1> DEFINE e == Entry(t)
           h == report[t].held[e]
           now == subdevvalue[e]
           seen == report[t].seen
<1>1. e \in Sub BY EntryInSub
<1>2. now \in h /\ seen \in h /\ (report[t].moved => Junk \in h) BY <1>1 DEF FreshAt
<1>3. \/ text = now \/ text = Junk
  BY DEF Copied
<1>4. CASE text = now BY <1>2, <1>4 DEF Shown
<1>5. CASE text = Junk /\ text # now
  <2>1. \/ report[t].moved \/ seen = Junk
        \/ now # Junk /\ Size[seen] # Size[now]
    BY <1>5 DEF Copied
  <2>2. CASE report[t].moved \/ seen = Junk BY <1>2, <1>5, <2>2 DEF Shown
  <2>3. CASE now # Junk /\ Size[seen] # Size[now]
    <3>1. seen # now BY <2>3
    <3>2. QED BY <1>2, <1>5, <3>1 DEF Shown
  <2>4. QED BY <2>1, <2>2, <2>3
<1>6. QED BY <1>3, <1>4, <1>5

\* A control that changes the table while main writes its report adds to what the
\* report has recorded.
LEMMA ReportGrows ==
  ASSUME NEW t \in Tabler, Types, FreshAt(t), pc'[t] = pc[t],
         report'[t].values = report[t].values, report'[t].seen = report[t].seen,
         \A i \in Sub : /\ report[t].held[i] \subseteq report'[t].held[i]
                        /\ subdevvalue'[i] \in report'[t].held[i]
                        /\ IsFiniteSet(report[t].held[i]) => IsFiniteSet(report'[t].held[i]),
         report'[t].moved => report[t].moved \/ (pc[t] = "copy" => Junk \in report'[t].held[Entry(t)])
  PROVE  FreshAt(t)'
<1>1. Entry(t)' = Entry(t) /\ Entry(t) \in Sub BY EntryInSub DEF Entry
<1>2. \A i \in 1..Len(report[t].values) : i \in Sub BY EntryInSub, SubType
<1>3. SUFFICES ASSUME pc[t] \in {"measure", "copy"} PROVE FreshAt(t)'
  BY DEF FreshAt
<1>4. \A i \in Sub : subdevvalue'[i] \in report'[t].held[i] /\ IsFiniteSet(report'[t].held[i])
  BY <1>3 DEF FreshAt
<1>5. \A i \in 1..Len(report'[t].values) : Shown(report'[t].values[i], report'[t].held[i])
  BY <1>2, <1>3 DEF FreshAt, Shown
<1>6. pc'[t] = "copy" => /\ report'[t].seen \in report'[t].held[Entry(t)']
                         /\ report'[t].moved => Junk \in report'[t].held[Entry(t)']
  BY <1>1, <1>3 DEF FreshAt
<1>7. QED BY <1>4, <1>5, <1>6 DEF FreshAt

LEMMA ObeyingFresh ==
  ASSUME IInv, Obeying, NEW t \in Tabler PROVE FreshAt(t)'
<1>0. Types /\ Account /\ ControlAt /\ FreshAt(t) BY DEF IInv, Parts
<1>1. CASE t = "callback"
  <2>1. pc'["callback"] \notin {"measure", "copy"} BY <1>0, CallbackAt
  <2>2. QED BY <1>1, <2>1 DEF FreshAt
<1>2. CASE t = "main"
  <2>1. pc'[t] = pc[t] BY <1>0, <1>2, CallbackAt DEF OnlyCallback
  <2>2. CASE SubFree
    <3>1. /\ subdevvalue' = [subdevvalue EXCEPT ![Find(msg.no)] = Junk]
          /\ report' = Moved(Find(msg.no)) /\ Find(msg.no) \in Sub
      BY <1>0, <2>2, FindPlace DEF SubFree, ControlAt
    <3>2. /\ report'[t].values = report[t].values /\ report'[t].seen = report[t].seen
          /\ report'[t].moved = (report[t].moved \/ (pc[t] = "copy" /\ Entry(t) = Find(msg.no)))
          /\ report'[t].held = [j \in Sub |-> IF j = Find(msg.no) THEN report[t].held[j] \cup {Junk}
                                                                  ELSE report[t].held[j]]
      BY <1>0, <3>1 DEF Moved, Types, Shapes
    <3>3. ASSUME NEW i \in Sub, pc[t] \in {"measure", "copy"}
          PROVE  /\ report[t].held[i] \subseteq report'[t].held[i]
                 /\ subdevvalue'[i] \in report'[t].held[i]
                 /\ IsFiniteSet(report[t].held[i]) => IsFiniteSet(report'[t].held[i])
      <4>1. CASE i = Find(msg.no)
        <5>1. report'[t].held[i] = report[t].held[i] \cup {Junk} BY <3>2, <4>1
        <5>2. subdevvalue'[i] = Junk BY <1>0, <3>1, <4>1 DEF Types, TableTyped
        <5>3. QED BY <5>1, <5>2, FS_AddElement
      <4>2. CASE i # Find(msg.no)
        BY <1>0, <3>1, <3>2, <3>3, <4>2 DEF FreshAt, Types, TableTyped
      <4>3. QED BY <4>1, <4>2
    <3>4. report'[t].moved => report[t].moved \/ (pc[t] = "copy" => Junk \in report'[t].held[Entry(t)])
      BY <3>1, <3>2
    <3>5. CASE pc[t] \in {"measure", "copy"}
      BY <1>0, <2>1, <3>2, <3>3, <3>4, <3>5, ReportGrows
    <3>6. QED BY <2>1, <3>5 DEF FreshAt
  <2>3. CASE SubAssign
    <3>1. report' = [u \in Tabler |-> [report[u] EXCEPT !.held = [i \in Sub |-> @[i] \cup {subdevvalue'[i]}]]]
      BY <2>3 DEF SubAssign
    <3>2. /\ report'[t].values = report[t].values /\ report'[t].seen = report[t].seen
          /\ report'[t].moved = report[t].moved
          /\ report'[t].held = [i \in Sub |-> report[t].held[i] \cup {subdevvalue'[i]}]
      <4> DEFINE h == [i \in Sub |-> report[t].held[i] \cup {subdevvalue'[i]}]
      <4>1. report[t] \in TableReport BY <1>0 DEF Types, Shapes
      <4>2. report[t] = [status |-> report[t].status, values |-> report[t].values, seen |-> report[t].seen,
                         moved |-> report[t].moved, held |-> report[t].held]
        BY <4>1 DEF TableReport
      <4>3. report'[t] = [report[t] EXCEPT !.held = h] BY <3>1
      <4> HIDE DEF h
      <4>4. QED BY <4>2, <4>3 DEF h
    <3>3. ASSUME NEW i \in Sub
          PROVE  /\ report[t].held[i] \subseteq report'[t].held[i]
                 /\ subdevvalue'[i] \in report'[t].held[i]
                 /\ IsFiniteSet(report[t].held[i]) => IsFiniteSet(report'[t].held[i])
      BY <3>2, FS_AddElement
    <3>4. QED BY <1>0, <2>1, <3>2, <3>3, ReportGrows
  <2>4. CASE Reply
    <3>1. UNCHANGED <<subdevvalue, report>> BY <2>4 DEF Reply
    <3>2. QED BY <1>0, <2>1, <3>1, ReportKept
  <2>5. QED BY <2>2, <2>3, <2>4 DEF Obeying
<1>3. QED BY <1>1, <1>2

LEMMA StartingReport ==
  ASSUME IInv, NEW t \in Tabler, NEW u \in Tabler, Starting(u)
  PROVE  FreshAt(t)' /\ SnapshotAt'
<1>0. Types /\ Account /\ FreshAt(t) /\ SnapshotAt BY DEF IInv, Parts
<1>1. /\ UNCHANGED subdevvalue /\ StartReport(u) /\ pc' = [pc EXCEPT ![u] = "measure"]
  BY <1>0, StartingTypes
<1>2. /\ report' = [report EXCEPT ![u] = report'[u]]
      /\ report'[u].values = <<>> /\ report'[u].held = [i \in Sub |-> {subdevvalue[i]}]
  BY <1>0, <1>1, StartTyped
<1>3. \A v \in Tabler \ {u} : report'[v] = report[v] /\ pc'[v] = pc[v]
  BY <1>0, <1>1, <1>2 DEF Types, Shapes
<1>4. pc'[u] = "measure" BY <1>0, <1>1 DEF Types, Shapes
<1>5. FreshAt(u)'
  <2>1. \A i \in Sub : IsFiniteSet({subdevvalue[i]}) BY FS_Singleton
  <2>2. Len(<<>>) = 0 OBVIOUS
  <2>3. QED BY <1>1, <1>2, <1>4, <2>1, <2>2 DEF FreshAt
<1>6. u = "callback" => SnapshotAt'
  <2>1. Len(<<>>) = 0 OBVIOUS
  <2>2. QED BY <1>1, <1>2, <1>4, <2>1 DEF SnapshotAt
<1>7. u # t => FreshAt(t)' BY <1>0, <1>1, <1>3, ReportKept
<1>8. u = "main" => SnapshotAt' BY <1>0, <1>1, <1>3, ReportKept
<1>9. QED BY <1>5, <1>6, <1>7, <1>8

\* The callback thread copies what it measured: nobody else frees a value.
LEMMA CopiedSnapshot ==
  ASSUME Types, ControlAt, Whole, SnapshotAt, pc["callback"] = "copy",
         NEW text \in Copied("callback")
  PROVE  text = subdevvalue[Entry("callback")]
<1> DEFINE now == subdevvalue[Entry("callback")]
<1>1. Entry("callback") \in Sub BY EntryInSub
<1>2. now \in Text BY <1>1 DEF Whole
<1>3. now # Junk BY <1>2, EquipmentAssumption
<1>4. report["callback"].seen = now /\ ~report["callback"].moved BY DEF SnapshotAt
<1>5. QED BY <1>3, <1>4 DEF Copied

\* What a report says when a text is appended to it.
LEMMA CopiedReport ==
  ASSUME IInv, NEW t \in Tabler, pc[t] = "copy", NEW text \in Copied(t)
  PROVE  LET vs == Append(report[t].values, text) IN
         /\ Len(vs) = Entry(t) /\ vs \in Seq(Cell)
         /\ \A i \in 1..Len(vs) : i \in Sub /\ Shown(vs[i], report[t].held[i])
         /\ t = "callback" => \A i \in 1..Len(vs) : vs[i] = subdevvalue[i]
<1>0. Types /\ ControlAt /\ Whole /\ SnapshotAt /\ FreshAt(t) BY DEF IInv, Parts
<1> DEFINE vs == Append(report[t].values, text)
<1>1. report[t].values \in Seq(Cell) /\ text \in Cell BY <1>0, CopiedType DEF Types, Shapes
<1>2. vs \in Seq(Cell) /\ Len(vs) = Entry(t) /\ Entry(t) = Len(report[t].values) + 1
      /\ Len(report[t].values) \in Nat /\ Entry(t) \in 1..Len(subdevname) /\ Sub = 1..Len(subdevname)
      /\ vs[Entry(t)] = text /\ \A i \in 1..Len(report[t].values) : vs[i] = report[t].values[i]
  BY <1>0, <1>1, EntryInSub, SubType
<1>3. ASSUME NEW i \in 1..Len(vs)
      PROVE  i \in Sub /\ Shown(vs[i], report[t].held[i])
             /\ (t = "callback" => vs[i] = subdevvalue[i])
  <2>1. i \in Sub BY <1>2, SubType
  <2>2. CASE i = Entry(t)
    BY <1>0, <1>2, <2>1, <2>2, CopiedShown, CopiedSnapshot
  <2>3. CASE i # Entry(t)
    <3>1. i \in 1..Len(report[t].values) BY <1>2, <2>3
    <3>2. QED BY <1>0, <1>2, <2>1, <3>1 DEF FreshAt, SnapshotAt
  <2>4. QED BY <2>2, <2>3
<1>4. QED BY <1>2, <1>3

LEMMA TablingReport ==
  ASSUME IInv, NEW t \in Tabler, NEW u \in Tabler, Tabling(u)
  PROVE  FreshAt(t)' /\ SnapshotAt'
<1>0. Types /\ Account /\ FreshAt(t) /\ FreshAt(u) /\ SnapshotAt BY DEF IInv, Parts
<1>1. UNCHANGED subdevvalue BY DEF Tabling, Measure, Copy
<1>2. Entry(u) \in Sub BY <1>0, EntryInSub
<1>3. CASE Measure(u)
  <2>1. /\ pc[u] = "measure" /\ pc' = [pc EXCEPT ![u] = "copy"]
        /\ report' = [report EXCEPT ![u].seen = subdevvalue[Entry(u)], ![u].moved = FALSE]
    BY <1>3 DEF Measure, Goto
  <2>2. /\ report'[u].values = report[u].values /\ report'[u].held = report[u].held
        /\ report'[u].seen = subdevvalue[Entry(u)] /\ report'[u].moved = FALSE
        /\ pc'[u] = "copy" /\ \A v \in Tabler \ {u} : report'[v] = report[v] /\ pc'[v] = pc[v]
    BY <1>0, <2>1 DEF Types, Shapes
  <2>3. Entry(u)' = Entry(u) BY <2>2 DEF Entry
  <2>4. FreshAt(u)' BY <1>0, <1>1, <1>2, <2>1, <2>2, <2>3 DEF FreshAt
  <2>5. ASSUME u = "callback" PROVE SnapshotAt'
    <3>1. \A i \in Sub : report["callback"].held[i] = {subdevvalue[i]}
      BY <1>0, <2>1, <2>5 DEF SnapshotAt
    <3>2. \A i \in Sub : report'["callback"].held[i] = {subdevvalue'[i]}
      BY <1>1, <2>2, <2>5, <3>1
    <3>3. \A i \in 1..Len(report["callback"].values) : report["callback"].values[i] = subdevvalue[i]
      BY <1>0, <2>1, <2>5 DEF SnapshotAt
    <3>4. \A i \in 1..Len(report'["callback"].values) :
            report'["callback"].values[i] = subdevvalue'[i]
      BY <1>1, <2>2, <2>5, <3>3
    <3>5. report'["callback"].seen = subdevvalue'[Entry("callback")'] /\ ~report'["callback"].moved
      BY <1>1, <2>2, <2>3, <2>5
    <3>6. QED BY <3>2, <3>4, <3>5 DEF SnapshotAt
  <2>6. u # t => FreshAt(t)' BY <1>0, <1>1, <2>2, ReportKept
  <2>7. u = "main" => SnapshotAt' BY <1>0, <1>1, <2>2, ReportKept
  <2>8. QED BY <2>4, <2>5, <2>6, <2>7
<1>4. CASE Copy(u)
  <2>1. PICK text \in Copied(u) : LET vs == Append(report[u].values, text) IN
         \/ /\ Entry(u) < Len(subdevname) /\ pc' = [pc EXCEPT ![u] = "measure"]
            /\ report' = [report EXCEPT ![u] = [report[u] EXCEPT !.values = vs]] /\ UNCHANGED last
         \/ /\ Entry(u) = Len(subdevname)
            /\ pc' = [pc EXCEPT ![u] = IF u = "main" THEN "idle" ELSE "forward"]
            /\ report' = [report EXCEPT ![u] = NoReport]
            /\ Publish([op |-> 104, by |-> u, status |-> report[u].status, values |-> vs,
                        held |-> report[u].held])
    BY <1>0, <1>4, CopyResult
  <2>2. \A v \in Tabler \ {u} : report'[v] = report[v] /\ pc'[v] = pc[v]
    BY <1>0, <2>1 DEF Types, Shapes
  <2>3. pc[u] = "copy" BY <1>4 DEF Copy
  <2> DEFINE vs == Append(report[u].values, text)
  <2>4. CASE pc'[u] = "measure"
    <3>1. report' = [report EXCEPT ![u] = [report[u] EXCEPT !.values = vs]]
      BY <1>0, <2>1, <2>4 DEF Types, Shapes
    <3>2. report'[u].values = vs /\ report'[u].held = report[u].held
      BY <1>0, <3>1 DEF Types, Shapes
    <3>3. \A i \in 1..Len(vs) : i \in Sub /\ Shown(vs[i], report[u].held[i])
                                /\ (u = "callback" => vs[i] = subdevvalue[i])
      BY <2>3, CopiedReport
    <3>4. FreshAt(u)' BY <1>0, <1>1, <2>3, <2>4, <3>2, <3>3 DEF FreshAt
    <3>5. ASSUME u = "callback" PROVE SnapshotAt'
      <4>1. \A i \in Sub : report["callback"].held[i] = {subdevvalue[i]}
        BY <1>0, <2>3, <3>5 DEF SnapshotAt
      <4>2. \A i \in Sub : report'["callback"].held[i] = {subdevvalue'[i]}
        BY <1>1, <3>2, <3>5, <4>1
      <4>3. \A i \in 1..Len(report'["callback"].values) :
              report'["callback"].values[i] = subdevvalue'[i]
        BY <1>1, <3>2, <3>3, <3>5
      <4>4. pc'["callback"] # "copy" BY <2>4, <3>5
      <4>5. QED BY <4>2, <4>3, <4>4 DEF SnapshotAt
    <3>6. u # t => FreshAt(t)' BY <1>0, <1>1, <2>2, ReportKept
    <3>7. u = "main" => SnapshotAt' BY <1>0, <1>1, <2>2, ReportKept
    <3>8. QED BY <3>4, <3>5, <3>6, <3>7
  <2>5. CASE pc'[u] \notin {"measure", "copy"}
    <3>1. FreshAt(u)' BY <2>5 DEF FreshAt
    <3>2. u = "callback" => SnapshotAt' BY <2>5 DEF SnapshotAt
    <3>3. u # t => FreshAt(t)' BY <1>0, <1>1, <2>2, ReportKept
    <3>4. u = "main" => SnapshotAt' BY <1>0, <1>1, <2>2, ReportKept
    <3>5. QED BY <3>1, <3>2, <3>3, <3>4
  <2>6. pc'[u] \in {"measure", "idle", "forward"} BY <1>0, <2>1 DEF Types, Shapes
  <2>7. QED BY <2>4, <2>5, <2>6
<1>5. QED BY <1>3, <1>4 DEF Tabling

LEMMA ReportsStep ==
  ASSUME IInv, Next, NEW t \in Tabler PROVE FreshAt(t)' /\ SnapshotAt'
<1>0. Types /\ Account /\ ControlAt /\ FreshAt(t) /\ FreshAt("callback") /\ SnapshotAt
  BY DEF IInv, Parts
<1>1. CASE \E u \in Tabler : Tabling(u) \/ Starting(u)
  BY <1>1, TablingReport, StartingReport
<1>2. CASE \E u \in Meter : Metering(u)
  <2>1. PICK u \in Meter : Metering(u) BY <1>2
  <2>2. /\ UNCHANGED <<subdevvalue, report>> /\ \A v \in Thread \ {u} : pc'[v] = pc[v]
        /\ pc'[u] \in {"idle", "lat", "putLon", "putLat"}
    BY <1>0, <2>1, MeteringTypes
  <2>3. SnapshotAt' BY <1>0, <2>2, ReportKept
  <2>4. CASE u = t BY <2>2, <2>3, <2>4 DEF FreshAt
  <2>5. CASE u # t BY <1>0, <2>2, <2>3, <2>5, ReportKept
  <2>6. QED BY <2>4, <2>5
<1>3. CASE Receiving \/ Obeying
  <2>1. OnlyCallback /\ pc'["callback"] \notin {"measure", "copy"} BY <1>0, <1>3, CallbackAt
  <2>2. SnapshotAt' BY <2>1 DEF SnapshotAt
  <2>3. CASE Obeying BY <2>2, <2>3, ObeyingFresh
  <2>4. CASE Receiving
    <3>1. UNCHANGED <<subdevvalue, report>> BY <1>0, <2>4, ReceivingTypes
    <3>2. t = "callback" => FreshAt(t)' BY <2>1 DEF FreshAt
    <3>3. t = "main" => FreshAt(t)' BY <1>0, <2>1, <3>1, ReportKept DEF OnlyCallback
    <3>4. QED BY <2>2, <3>2, <3>3
  <2>5. QED BY <1>3, <2>3, <2>4
<1>4. CASE ServerSend
  <2>1. UNCHANGED <<subdevvalue, report, pc>> BY <1>0, <1>4, ServerSendTypes
  <2>2. QED BY <1>0, <2>1, ReportKept
<1>5. QED BY <1>1, <1>2, <1>3, <1>4, NextCases

-----------------------------------------------------------------------------
(* Reports of measurements.                                                *)

\* A step of one thread leaves the other's report as it was, or marks it.
LEMMA PlaceKept ==
  ASSUME NEW t \in Meter, PlaceAt(t), UNCHANGED position, measure'[t] = measure[t], pc'[t] = pc[t]
  PROVE  PlaceAt(t)'
BY DEF PlaceAt, Uploading

LEMMA MeteringPlace ==
  ASSUME IInv, NEW t \in Meter, NEW u \in Meter, Metering(u) PROVE PlaceAt(t)'
<1>0. Types /\ Account /\ PlaceAt(t) BY DEF IInv, Parts
<1>1. /\ Shapes /\ position \in [lon : Fix \cup {0}, lat : Fix \cup {0}]
      /\ \A v \in Thread \ {u} : pc'[v] = pc[v]
  BY <1>0, MeteringTypes DEF Types, MeasureTyped
<1>2. CASE StoreLon(u)
  <2>1. PICK f \in [lon : Fix, lat : Fix] :
          Store(u, [position EXCEPT !.lon = f.lon], [own |-> f, lon |-> NULL, shared |-> FALSE])
    BY <1>2 DEF StoreLon
  <2>2. [own |-> f, lon |-> NULL, shared |-> FALSE] \in MeasureReport OBVIOUS
  <2>3. /\ measure'[u] = [own |-> f, lon |-> NULL, shared |-> FALSE]
        /\ position' = [position EXCEPT !.lon = f.lon]
        /\ Other(u) \in Meter \ {u}
        /\ Uploading(Other(u)) => measure'[Other(u)].shared
    <3> DEFINE m == [own |-> f, lon |-> NULL, shared |-> FALSE]
               at == [position EXCEPT !.lon = f.lon]
    <3>1. m \in MeasureReport /\ Store(u, at, m) BY <2>1, <2>2
    <3> HIDE DEF m, at
    <3>2. /\ measure'[u] = m /\ position' = at /\ Other(u) \in Meter \ {u}
          /\ Uploading(Other(u)) => measure'[Other(u)].shared
      BY <1>1, <3>1, StoreSeen
    <3>3. QED BY <3>2 DEF m, at
  <2>4. pc'[u] = "lat" BY <1>1, <1>2 DEF StoreLon, Goto, Shapes
  <2>5. CASE t = u
    <3>1. measure'[u].own = f /\ position'.lon = f.lon BY <1>1, <2>3
    <3>2. QED BY <2>4, <2>5, <3>1 DEF PlaceAt
  <2>6. CASE t # u
    <3>1. t = Other(u) /\ pc'[t] = pc[t] BY <1>1, <2>3, <2>6
    <3>2. QED BY <2>3, <3>1 DEF PlaceAt, Uploading
  <2>7. QED BY <2>5, <2>6
<1>3. CASE StoreLat(u)
  <2>1. Store(u, [position EXCEPT !.lat = NewLat(u)], measure[u]) /\ pc[u] = "lat"
    BY <1>3 DEF StoreLat
  <2>2. /\ measure'[u] = measure[u] /\ position' = [position EXCEPT !.lat = measure[u].own.lat]
        /\ Other(u) \in Meter \ {u}
        /\ Uploading(Other(u)) => measure'[Other(u)].shared
    BY <1>1, <2>1, StoreSeen DEF Shapes, NewLat
  <2>3. pc'[u] = "putLon" BY <1>1, <1>3 DEF StoreLat, Goto, Shapes
  <2>4. CASE t = u
    <3>1. position'.lat = measure[u].own.lat /\ position'.lon = position.lon BY <1>1, <2>2
    <3>2. QED BY <1>0, <2>1, <2>2, <2>3, <2>4, <3>1 DEF PlaceAt, Uploading
  <2>5. CASE t # u
    <3>1. t = Other(u) /\ pc'[t] = pc[t] BY <1>1, <2>2, <2>5
    <3>2. QED BY <2>2, <3>1 DEF PlaceAt, Uploading
  <2>6. QED BY <2>4, <2>5
<1>4. CASE PutLon(u)
  <2>1. /\ UNCHANGED position /\ pc[u] = "putLon" /\ pc'[u] = "putLat"
        /\ measure' = [measure EXCEPT ![u].lon = position.lon]
    BY <1>1, <1>4 DEF PutLon, Goto, Shapes
  <2>2. measure'[u].lon = position.lon /\ measure'[u].own = measure[u].own
        /\ measure'[u].shared = measure[u].shared /\ \A v \in Meter \ {u} : measure'[v] = measure[v]
    BY <1>1, <2>1 DEF Shapes
  <2>3. CASE t = u BY <1>0, <2>1, <2>2, <2>3 DEF PlaceAt, Uploading
  <2>4. CASE t # u BY <1>0, <1>1, <2>1, <2>2, <2>4, PlaceKept
  <2>5. QED BY <2>3, <2>4
<1>5. CASE PutLat(u)
  <2>1. UNCHANGED position /\ pc'[u] = "idle" /\ \A v \in Meter \ {u} : measure'[v] = measure[v]
    BY <1>1, <1>5 DEF PutLat, Goto, Shapes
  <2>2. CASE t = u BY <2>1, <2>2 DEF PlaceAt, Uploading
  <2>3. CASE t # u BY <1>0, <1>1, <2>1, <2>3, PlaceKept
  <2>4. QED BY <2>2, <2>3
<1>6. QED BY <1>2, <1>3, <1>4, <1>5 DEF Metering, Upload

LEMMA PlaceStep == ASSUME IInv, Next, NEW t \in Meter PROVE PlaceAt(t)'
<1>0. Types /\ Account /\ ControlAt /\ PlaceAt(t) BY DEF IInv, Parts
<1>1. CASE \E u \in Meter : Metering(u) BY <1>1, MeteringPlace
<1>2. CASE \E u \in Tabler : Tabling(u) \/ Starting(u)
  <2>1. PICK u \in Tabler : Tabling(u) \/ Starting(u) BY <1>2
  <2>2. UNCHANGED measuring
        /\ \E l \in {"measure", "copy", "idle", "forward"} : pc' = [pc EXCEPT ![u] = l]
    BY <2>1 DEF Tabling, Measure, Copy, Starting, Command, sStatus_uploading_proc, Take, StartReport, Goto
  <2>3. CASE u = t
    <3>1. pc'[t] \in {"measure", "copy", "idle", "forward"} BY <1>0, <2>2, <2>3 DEF Types, Shapes
    <3>2. QED BY <3>1 DEF PlaceAt, Uploading
  <2>4. CASE u # t
    <3>1. pc'[t] = pc[t] BY <1>0, <2>2, <2>4 DEF Types, Shapes
    <3>2. QED BY <1>0, <2>2, <3>1, PlaceKept
  <2>5. QED BY <2>3, <2>4
<1>3. CASE Receiving \/ Obeying
  <2>1. OnlyCallback /\ UNCHANGED measuring BY <1>0, <1>3, CallbackAt, ReceivingTypes, ObeyingTypes
  <2>2. QED BY <1>0, <2>1, PlaceKept DEF OnlyCallback
<1>4. CASE ServerSend BY <1>0, <1>4, ServerSendTypes, PlaceKept
<1>5. QED BY <1>1, <1>2, <1>3, <1>4, NextCases

-----------------------------------------------------------------------------
(* What is published.                                                      *)

LEMMA Several ==
  ASSUME NEW S, IsFiniteSet(S), NEW x \in S, NEW y \in S, x # y PROVE Cardinality(S) > 1
<1>1. IsFiniteSet(S \ {x}) /\ Cardinality(S \ {x}) = Cardinality(S) - 1 BY FS_RemoveElement
<1>2. Cardinality(S \ {x}) # 0 BY <1>1, FS_EmptySet
<1>3. Cardinality(S) \in Nat /\ Cardinality(S \ {x}) \in Nat BY <1>1, FS_CardinalityType
<1>4. QED BY <1>1, <1>2, <1>3

\* The reports 104 and 202 as they are published, and the reply to a control.
TableSent(t) ==
  /\ pc[t] = "copy" /\ Entry(t) = Len(subdevname)
  /\ \E text \in Copied(t) :
       last' = [op |-> 104, by |-> t, status |-> report[t].status,
                values |-> Append(report[t].values, text), held |-> report[t].held]
PlaceSent(t) ==
  /\ pc[t] = "putLat"
  /\ last' = [op |-> 202, own |-> measure[t].own, shared |-> measure[t].shared,
              shown |-> [lon |-> measure[t].lon, lat |-> position.lat]]
ReplySent ==
  /\ pc["callback"] = "reply"
  /\ last' = IF msg.op = 105 THEN [op |-> 105, status |-> status]
             ELSE [op |-> 106, no |-> msg.no, value |-> msg.value]

LEMMA SentTabling ==
  ASSUME Types, NEW t \in Tabler, Tabling(t)
  PROVE  last' \in {last, Garbled} \/ TableSent(t)
<1>1. CASE Measure(t) BY <1>1 DEF Measure
<1>2. CASE Copy(t)
  <2>1. PICK text \in Copied(t) : LET vs == Append(report[t].values, text) IN
         \/ UNCHANGED last
         \/ /\ Entry(t) = Len(subdevname)
            /\ Publish([op |-> 104, by |-> t, status |-> report[t].status, values |-> vs,
                        held |-> report[t].held])
    BY <1>2, CopyResult
  <2>2. pc[t] = "copy" BY <1>2 DEF Copy
  <2>3. QED BY <2>1, <2>2 DEF Publish, TableSent
<1>3. QED BY <1>1, <1>2 DEF Tabling

LEMMA SentMetering ==
  ASSUME NEW t \in Meter, Metering(t) PROVE last' \in {last, Garbled} \/ PlaceSent(t)
<1>1. CASE StoreLon(t) \/ StoreLat(t) \/ PutLon(t) BY <1>1 DEF StoreLon, StoreLat, PutLon
<1>2. CASE PutLat(t) BY <1>2 DEF PutLat, Publish, PlaceSent
<1>3. QED BY <1>1, <1>2 DEF Metering, Upload

LEMMA SentObeying ==
  ASSUME Obeying PROVE last' = last \/ (Reply /\ (last' = Garbled \/ ReplySent))
<1>1. CASE SubFree \/ SubAssign BY <1>1 DEF SubFree, SubAssign
<1>2. CASE Reply
  <2> DEFINE r == IF msg.op = 105 THEN [op |-> 105, status |-> status]
                  ELSE [op |-> 106, no |-> msg.no, value |-> msg.value]
  <2>1. pc["callback"] = "reply" /\ last' \in {r, Garbled} BY <1>2 DEF Reply, Publish
  <2>2. QED BY <1>2, <2>1 DEF ReplySent
<1>3. QED BY <1>1, <1>2 DEF Obeying

LEMMA SentCases ==
  ASSUME IInv, Next
  PROVE  \/ last' \in {last, Garbled} \/ ReplySent
         \/ \E t \in Tabler : TableSent(t)
         \/ \E t \in Meter : PlaceSent(t)
<1>0. Types /\ Account BY DEF IInv
<1>1. CASE \E t \in Tabler : Tabling(t) \/ Starting(t)
  BY <1>0, <1>1, SentTabling, StartingTypes
<1>2. CASE \E t \in Meter : Metering(t) BY <1>2, SentMetering
<1>3. CASE Receiving BY <1>0, <1>3, ReceivingTypes
<1>4. CASE Obeying BY <1>4, SentObeying
<1>5. CASE ServerSend BY <1>0, <1>5, ServerSendTypes
<1>6. QED BY <1>1, <1>2, <1>3, <1>4, <1>5, NextCases

\* What TableSent publishes is right about the table.
LEMMA TableSentRight ==
  ASSUME IInv, NEW t \in Tabler, TableSent(t)
  PROVE  \A i \in Sub :
           /\ \/ last'.values[i] \in last'.held[i]
              \/ (last'.values[i] = Junk /\ Cardinality(last'.held[i]) > 1)
           /\ last'.by = "callback" => last'.values[i] \in Text /\ last'.held[i] = {last'.values[i]}
<1>1. PICK text \in Copied(t) :
        last' = [op |-> 104, by |-> t, status |-> report[t].status,
                 values |-> Append(report[t].values, text), held |-> report[t].held]
  BY DEF TableSent
<1> DEFINE vs == Append(report[t].values, text)
<1>2. pc[t] = "copy" /\ Entry(t) = Len(subdevname) BY DEF TableSent
<1>3. /\ Len(vs) = Len(subdevname)
      /\ \A i \in 1..Len(vs) : Shown(vs[i], report[t].held[i])
      /\ t = "callback" => \A i \in 1..Len(vs) : vs[i] = subdevvalue[i]
  BY <1>2, CopiedReport
<1>4. last'.values = vs /\ last'.held = report[t].held /\ last'.by = t BY <1>1
<1> HIDE DEF vs
<1>5. ASSUME NEW i \in Sub
      PROVE  /\ \/ vs[i] \in report[t].held[i]
                \/ (vs[i] = Junk /\ Cardinality(report[t].held[i]) > 1)
             /\ t = "callback" => vs[i] \in Text /\ report[t].held[i] = {vs[i]}
  <2>1. i \in 1..Len(vs) /\ Shown(vs[i], report[t].held[i]) BY <1>3, SubType
  <2>2. IsFiniteSet(report[t].held[i]) BY <1>2 DEF IInv, Parts, FreshAt
  <2>3. vs[i] \in report[t].held[i] \/ (vs[i] = Junk /\ Cardinality(report[t].held[i]) > 1)
    BY <2>1, <2>2, Several DEF Shown
  <2>4. ASSUME t = "callback" PROVE vs[i] \in Text /\ report[t].held[i] = {vs[i]}
    <3>1. vs[i] = subdevvalue[i] BY <1>3, <2>1, <2>4
    <3>2. report[t].held[i] = {subdevvalue[i]} BY <1>2, <2>4 DEF IInv, Parts, SnapshotAt
    <3>3. subdevvalue[i] \in Text BY <1>2, <2>4 DEF IInv, Parts, Whole
    <3>4. QED BY <3>1, <3>2, <3>3
  <2>5. QED BY <2>3, <2>4
<1>6. QED BY <1>4, <1>5

LEMMA ReportsPublished ==
  ASSUME IInv, Next PROVE QueryReportIsSnapshot' /\ CommandReportIsFresh' /\ PlaceIsOwn'
<1>0. QueryReportIsSnapshot /\ CommandReportIsFresh /\ PlaceIsOwn BY DEF IInv, Published
<1>1. CASE last' = last
  BY <1>0, <1>1 DEF QueryReportIsSnapshot, CommandReportIsFresh, PlaceIsOwn
<1>2. CASE last' = Garbled \/ ReplySent
  <2>1. last'.op \notin {104, 202} BY <1>2 DEF Garbled, ReplySent
  <2>2. QED BY <2>1 DEF QueryReportIsSnapshot, CommandReportIsFresh, PlaceIsOwn
<1>3. CASE \E t \in Tabler : TableSent(t)
  <2>1. PICK t \in Tabler : TableSent(t) BY <1>3
  <2>2. last'.op = 104 BY <2>1 DEF TableSent
  <2>3. PlaceIsOwn' BY <2>2 DEF PlaceIsOwn
  <2>4. QED BY <2>1, <2>3, TableSentRight DEF QueryReportIsSnapshot, CommandReportIsFresh
<1>4. CASE \E t \in Meter : PlaceSent(t)
  <2>1. PICK t \in Meter : PlaceSent(t) BY <1>4
  <2>2. pc[t] = "putLat" /\ PlaceAt(t) /\ position \in [lon : Fix \cup {0}, lat : Fix \cup {0}]
        /\ measure[t].own \in [lon : Fix, lat : Fix]
    BY <2>1 DEF PlaceSent, IInv, Types, MeasureTyped, Uploading, Parts
  <2>3. /\ last'.op = 202 /\ last'.own = measure[t].own /\ last'.shared = measure[t].shared
        /\ last'.shown = [lon |-> measure[t].lon, lat |-> position.lat]
    BY <2>1 DEF PlaceSent
  <2>4. ~measure[t].shared => [lon |-> measure[t].lon, lat |-> position.lat] = measure[t].own
    BY <2>2 DEF PlaceAt, Uploading
  <2>5. PlaceIsOwn' BY <2>3, <2>4 DEF PlaceIsOwn
  <2>6. QED BY <2>3, <2>5 DEF QueryReportIsSnapshot, CommandReportIsFresh
<1>5. QED BY <1>1, <1>2, <1>3, <1>4, SentCases

LEMMA RepliesStep == ASSUME IInv, Next PROVE RepliesTell'
<1>0. Types /\ Account /\ ControlAt /\ RepliesTell BY DEF IInv, Parts, Published
<1>1. ASSUME pc'["callback"] # "forward" PROVE RepliesTell' BY <1>1 DEF RepliesTell
<1>2. ASSUME UNCHANGED <<subdevvalue, status, msg>>, pc'["callback"] = pc["callback"],
             last' = last \/ last'.op \notin {105, 106}
      PROVE  RepliesTell'
  BY <1>0, <1>2 DEF RepliesTell
<1>3. CASE \E t \in Meter : Metering(t)
  <2>1. PICK t \in Meter : Metering(t) BY <1>3
  <2>2. last' = last \/ last'.op \notin {105, 106} BY <2>1, SentMetering DEF Garbled, PlaceSent
  <2>3. QED BY <1>0, <1>2, <2>1, <2>2, MeteringTypes
<1>4. CASE \E t \in Tabler : Tabling(t)
  <2>1. PICK t \in Tabler : Tabling(t) BY <1>4
  <2>2. last' = last \/ last'.op \notin {105, 106} BY <1>0, <2>1, SentTabling DEF Garbled, TableSent
  <2>3. CASE t = "main"
    <3>1. UNCHANGED <<subdevvalue, status, msg>> /\ \E l \in Labels : pc' = [pc EXCEPT !["main"] = l]
      BY <2>1, <2>3 DEF Tabling, Measure, Copy, Goto, Labels
    <3>2. pc'["callback"] = pc["callback"] BY <1>0, <3>1 DEF Types, Shapes
    <3>3. QED BY <1>2, <2>2, <3>1, <3>2
  <2>4. CASE t = "callback"
    <3>1. CASE Measure(t)
      <4>1. pc'["callback"] = "copy" BY <1>0, <2>4, <3>1 DEF Measure, Goto, Types, Shapes
      <4>2. QED BY <1>1, <4>1
    <3>2. CASE Copy(t)
      <4>1. \/ pc'["callback"] = "measure"
            \/ last' \in {Garbled} \cup {[op |-> 104, by |-> t, status |-> report[t].status,
                 values |-> Append(report[t].values, text), held |-> report[t].held] : text \in Copied(t)}
        BY <1>0, <2>4, <3>2, CopyResult DEF Types, Shapes, Publish
      <4>2. CASE pc'["callback"] = "measure" BY <1>1, <4>2
      <4>3. CASE pc'["callback"] # "measure"
        <5>1. last'.op \in {0, 104} BY <4>1, <4>3 DEF Garbled
        <5>2. QED BY <5>1 DEF RepliesTell
      <4>4. QED BY <4>2, <4>3
    <3>3. QED BY <2>1, <3>1, <3>2 DEF Tabling
  <2>5. QED BY <2>3, <2>4
<1>5. CASE \E t \in Tabler : Starting(t)
  <2>1. CASE Command
    <3>1. UNCHANGED <<subdevvalue, status, msg, last>> /\ pc' = [pc EXCEPT !["main"] = "measure"]
      BY <2>1 DEF Command, StartReport, Goto
    <3>2. pc'["callback"] = pc["callback"] BY <1>0, <3>1 DEF Types, Shapes
    <3>3. QED BY <1>2, <3>1, <3>2
  <2>2. CASE sStatus_uploading_proc
    <3>1. pc'["callback"] = "measure"
      BY <1>0, <2>2 DEF sStatus_uploading_proc, StartReport, Goto, Types, Shapes
    <3>2. QED BY <1>1, <3>1
  <2>3. QED BY <1>5, <2>1, <2>2 DEF Starting
<1>6. CASE ServerSend BY <1>0, <1>2, <1>6, ServerSendTypes
<1>7. CASE Receiving
  <2>1. CASE Discard BY <1>0, <1>2, <2>1 DEF Discard
  <2>2. CASE Forward
    <3>1. pc'["callback"] = "idle" BY <1>0, <2>2 DEF Forward, Goto, Types, Shapes
    <3>2. QED BY <1>1, <3>1
  <2>3. CASE Unknown
    <3>1. msg'.op = 0 BY <1>0, <2>3, TakeTypes DEF Unknown
    <3>2. QED BY <3>1 DEF RepliesTell
  <2>4. CASE sCtrl_EquipmentALL_proc
    <3>1. pc'["callback"] = IF msg'.user THEN "reply" ELSE "forward"
      BY <1>0, <2>4 DEF sCtrl_EquipmentALL_proc, Goto, Types, Shapes
    <3>2. QED BY <3>1 DEF RepliesTell
  <2>5. CASE sCtrl_EquipmentSub_proc
    <3>1. pc'["callback"] = IF ~msg'.user \/ msg'.no = NULL THEN "forward"
                            ELSE IF Find(msg'.no) = 0 THEN "reply" ELSE "free"
      BY <1>0, <2>5 DEF sCtrl_EquipmentSub_proc, Goto, Types, Shapes
    <3>2. msg'.op = 106 BY <1>0, <2>5, TakeTypes DEF sCtrl_EquipmentSub_proc
    <3>3. QED BY <3>1, <3>2 DEF RepliesTell
  <2>6. QED BY <1>7, <2>1, <2>2, <2>3, <2>4, <2>5 DEF Receiving
<1>8. CASE Obeying
  <2>1. CASE SubFree
    <3>1. pc'["callback"] \in {"crashed", "assign"} BY <1>0, <2>1 DEF SubFree, Goto, Types, Shapes
    <3>2. QED BY <1>1, <3>1
  <2>2. CASE SubAssign
    <3>1. pc'["callback"] = "reply" BY <1>0, <2>2 DEF SubAssign, Goto, Types, Shapes
    <3>2. QED BY <1>1, <3>1
  <2>3. CASE Reply
    <3>1. pc["callback"] = "reply" /\ UNCHANGED <<subdevvalue, status, msg>> BY <2>3 DEF Reply
    <3>2. CASE last' = Garbled
      <4>1. last'.op = 0 BY <3>2 DEF Garbled
      <4>2. QED BY <4>1 DEF RepliesTell
    <3>3. CASE ReplySent
      <4>1. CASE msg.op = 105
        <5>1. last' = [op |-> 105, status |-> status] BY <3>3, <4>1 DEF ReplySent
        <5>2. last'.op = 105 /\ last'.status = status' /\ msg'.status \in {NULL, status'}
          BY <1>0, <3>1, <4>1, <5>1 DEF ControlAt
        <5>3. QED BY <5>2 DEF RepliesTell
      <4>2. CASE msg.op # 105
        <5>1. last' = [op |-> 106, no |-> msg.no, value |-> msg.value] BY <3>3, <4>2 DEF ReplySent
        <5>2. /\ last'.op = 106 /\ last'.no = msg'.no /\ last'.value = msg'.value
              /\ Find(msg'.no) # 0 => subdevvalue'[Find(msg'.no)] = msg'.value
          BY <1>0, <3>1, <4>2, <5>1 DEF ControlAt
        <5>3. QED BY <5>2 DEF RepliesTell
      <4>3. QED BY <4>1, <4>2
    <3>4. Reply => last' \in {Garbled} \/ ReplySent
      BY <3>1 DEF Reply, Publish, ReplySent
    <3>5. QED BY <2>3, <3>2, <3>3, <3>4
  <2>4. QED BY <1>8, <2>1, <2>2, <2>3 DEF Obeying
<1>9. QED BY <1>3, <1>4, <1>5, <1>6, <1>7, <1>8, NextCases

-----------------------------------------------------------------------------
(* The invariant, and what follows from it.                                *)

LEMMA InitInv == Init => IInv
<1> SUFFICES ASSUME Init PROVE IInv
  OBVIOUS
<1>1. Types /\ Account BY InitTypes
<1>2. /\ \A t \in Thread : pc[t] = "idle"
      /\ subdevvalue \in [Sub -> Text] /\ last = NULL
  BY EquipmentAssumption DEF Init
<1>3. Parts BY <1>2 DEF Parts, ControlAt, Whole, FreshAt, SnapshotAt, PlaceAt, Uploading
<1>4. Published
  BY <1>2 DEF Published, RepliesTell, QueryReportIsSnapshot, CommandReportIsFresh, PlaceIsOwn
<1>5. QED BY <1>1, <1>3, <1>4 DEF IInv

LEMMA Inductive == IInv /\ [Next]_vars => IInv'
<1> SUFFICES ASSUME IInv, [Next]_vars PROVE IInv'
  OBVIOUS
<1>1. CASE Next
  <2>1. Types' /\ Account'
    BY <1>1, NextCases, TablingTypes, StartingTypes, MeteringTypes, ReceivingTypes, ObeyingTypes,
       ServerSendTypes DEF IInv, Parts
  <2>2. ControlAt' /\ Whole' BY <1>1, ControlsStep
  <2>3. \A t \in Tabler : FreshAt(t)' /\ SnapshotAt' BY <1>1, ReportsStep
  <2>4. \A t \in Meter : PlaceAt(t)' BY <1>1, PlaceStep
  <2>5. Published' BY <1>1, ReportsPublished, RepliesStep DEF Published
  <2>6. Parts' BY <2>2, <2>3, <2>4 DEF Parts
  <2>7. QED BY <2>1, <2>5, <2>6 DEF IInv
<1>2. CASE UNCHANGED vars
  <2>1. Types' /\ Account'
    BY <1>2 DEF vars, IInv, Types, Shapes, TableTyped, PcTyped, ReportTyped, MeasureTyped,
                InboxTyped, BudgetTyped, Uploading, Account, Backlog
  <2>2. Parts'
    BY <1>2 DEF vars, IInv, Parts, ControlAt, Whole, FreshAt, SnapshotAt, PlaceAt, Uploading, Entry
  <2>3. Published'
    BY <1>2 DEF vars, IInv, Published, RepliesTell, QueryReportIsSnapshot, CommandReportIsFresh,
                PlaceIsOwn
  <2>4. QED BY <2>1, <2>2, <2>3 DEF IInv
<1>3. QED BY <1>1, <1>2

LEMMA Invariance == Spec => []IInv
BY InitInv, Inductive, PTL DEF Spec

\* Every variable keeps its type, and each JSON message is under way, handed to
\* the serial port or the one the callback thread handles.
THEOREM EquipmentTypeCorrect == Spec => []TypeOK
<1>1. IInv => TypeOK BY TypesImplyTypeOK DEF IInv
<1>2. QED BY <1>1, Invariance, PTL

\* getDevCtrl2Json, getSubCtrl2Json: whatever main and the signal handler do
\* meanwhile, a reply to a control of the whole device gives the status it has, and
\* one to a control of a number the description knows gives the value that
\* sub-device has.  Of an unknown number the theorem says nothing, since the reply
\* to it is the same.
THEOREM RepliesTold == Spec => []RepliesTell
<1>1. IInv => RepliesTell BY DEF IInv, Published
<1>2. QED BY <1>1, Invariance, PTL

\* sStatus_uploading_proc: the report that answers a query is a snapshot of the
\* table, entry by entry as it was read, for a table of any size.
THEOREM QueriesAreSnapshots == Spec => []QueryReportIsSnapshot
<1>1. IInv => QueryReportIsSnapshot BY DEF IInv, Published
<1>2. QED BY <1>1, Invariance, PTL

\* cStatus_uploading: what main reports while the callback thread changes the
\* table under it is, for each sub-device, a value it had meanwhile or nothing.
THEOREM CommandsAreFresh == Spec => []CommandReportIsFresh
<1>1. IInv => CommandReportIsFresh BY DEF IInv, Published
<1>2. QED BY <1>1, Invariance, PTL

\* getMeasure2Json: main and the signal handler share the position, and a report
\* that has not met the other's shows the place drawn for it.
THEOREM PlacesAreOwn == Spec => []PlaceIsOwn
<1>1. IInv => PlaceIsOwn BY DEF IInv, Published
<1>2. QED BY <1>1, Invariance, PTL

\* setsubDevValue: a control changes the sub-device it names and no other, in every
\* description in which no number begins a different one.
THEOREM ControlsHitNamed ==
  ASSUME \A i, j \in Sub : <<subdevname[i], subdevname[j]>> \in Begins => subdevname[i] = subdevname[j]
  PROVE  Spec => ControlHitsNamed
<1> DEFINE Named(i) == msg.no = subdevname[i] \/ msg.no \notin Range(subdevname)
           Hit == \A i \in Sub : subdevvalue'[i] # subdevvalue[i] => Named(i)
<1>1. IInv /\ [Next]_vars => [Hit]_vars
  <2> SUFFICES ASSUME IInv, Next PROVE Hit
    OBVIOUS
  <2>1. Types /\ Account /\ ControlAt BY DEF IInv, Parts
  <2>2. UNCHANGED subdevvalue \/ SubFree \/ SubAssign
    BY <2>1, NextCases, StartingTypes, MeteringTypes, ReceivingTypes, ServerSendTypes
       DEF Tabling, Measure, Copy, Obeying, Reply
  <2>3. ASSUME SubFree \/ SubAssign, NEW i \in Sub, subdevvalue'[i] # subdevvalue[i]
        PROVE  i = Find(msg.no) /\ Find(msg.no) # 0
    BY <2>1, <2>3 DEF SubFree, SubAssign, Stored, ControlAt, Types, TableTyped
  <2>4. ASSUME NEW i \in Sub, i = Find(msg.no), Find(msg.no) # 0 PROVE Named(i)
    <3>1. <<msg.no, subdevname[i]>> \in Begins BY <2>4, FindPlace
    <3>2. QED BY <3>1 DEF Range, Sub
  <2> HIDE DEF Named
  <2>5. QED BY <2>2, <2>3, <2>4
<1>2. QED BY <1>1, Invariance, PTL DEF Spec, ControlHitsNamed
=============================================================================
