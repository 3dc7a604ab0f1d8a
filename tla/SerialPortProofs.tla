--------------------------- MODULE SerialPortProofs ---------------------------
(***************************************************************************)
(* Proofs about SerialPort for every list of messages, size of buffer and  *)
(* boat: what the driver has taken is a beginning of the messages, one     *)
(* after the other, with a gap only where the timer cut one; and the       *)
(* receive buffer holds the last text and nothing of the one before.       *)
(***************************************************************************)
EXTENDS SerialPort, SequenceTheorems, WellFoundedInduction, TLAPS

USE DEF sending, receiving

-----------------------------------------------------------------------------
(* The inductive invariant.                                                *)

SendTyped ==
  /\ status \in {0, 1}
  /\ writing \in [message : Message \cup {0}, taken : Nat]
  /\ done \in 0..Len(Length) /\ cut \in SUBSET Message
  /\ Len(out) <= OutCap /\ out \in Seq(Message \X Nat) /\ line \in Seq(Message \X Nat)
  /\ alarms \in 0..MaxAlarms
ReceiveTyped ==
  /\ input \in Seq(Byte) /\ Len(input) <= InCap
  /\ my_buffer \in [Place -> Byte] /\ npos \in Place
  /\ chunk \in Seq(Byte) /\ Len(chunk) <= ReadMax
  /\ bytes \in 0..MaxBytes

\* write is called with an open port for the first message that is not over, and
\* has bytes of it still to hand on.
Writing ==
  writing # Idle => /\ status = 1 /\ done < Len(Length) /\ writing.message = done + 1
                    /\ writing.taken < Length[done + 1]

\* The driver has nothing of later messages, and of the one in write just the
\* bytes that write has counted.
Progress ==
  /\ \A i \in DOMAIN Stream : Stream[i][1] <= done \/ (Stream[i][1] = done + 1 /\ writing.taken > 0)
  /\ writing.taken > 0 => /\ Stream # <<>>
                          /\ Stream[Len(Stream)] = <<writing.message, writing.taken>>

IInv == SendTyped /\ ReceiveTyped /\ Writing /\ Progress /\ BoatGetsMessages /\ BufferHoldsLastText

-----------------------------------------------------------------------------
(* The bytes to the boat.                                                  *)

LEMMA MessageType == Message = 1..Len(Length) /\ Len(Length) \in Nat /\ \A m \in Message : Length[m] \in Nat \ {0}
BY PortAssumption DEF Message

LEMMA StreamType ==
  ASSUME SendTyped
  PROVE  /\ Stream \in Seq(Message \X Nat)
         /\ \A i \in DOMAIN Stream : Stream[i][1] \in Message /\ Stream[i][2] \in Nat
<1>1. Stream \in Seq(Message \X Nat) BY DEF SendTyped, Stream
<1>2. QED BY <1>1

\* The driver sends its bytes in the order it took them, ...
LEMMA DrainStream == ASSUME SendTyped, Drain PROVE Stream' = Stream
<1>1. /\ line' = Append(line, Head(out)) /\ out' = Tail(out) /\ out # <<>>
      /\ out \in Seq(Message \X Nat) /\ line \in Seq(Message \X Nat)
  BY DEF SendTyped, Drain
<1>2. Append(line, Head(out)) \o Tail(out) = line \o out BY SMTT(30), <1>1
<1>3. QED BY <1>1, <1>2 DEF Stream

\* ... and takes each after the others.
LEMMA WriteStream ==
  ASSUME SendTyped, Write
  PROVE  Stream' = Append(Stream, <<writing.message, writing.taken + 1>>)
<1> DEFINE x == <<writing.message, writing.taken + 1>>
<1>1. line' = line /\ out' = Append(out, x) /\ out \in Seq(Message \X Nat) /\ line \in Seq(Message \X Nat)
  BY DEF SendTyped, Write
<1> HIDE DEF x
<1>2. line \o Append(out, x) = Append(line \o out, x) BY <1>1
<1>3. QED BY <1>1, <1>2 DEF Stream, x

\* Without a new byte, a message that ends was cut or is dropped without a port.
LEMMA SameStream ==
  ASSUME IInv, Stream' = Stream, UNCHANGED <<status, done, writing, cut>>
  PROVE  Writing' /\ Progress' /\ BoatGetsMessages'
BY DEF IInv, Writing, Progress, BoatGetsMessages

LEMMA SendStep ==
  ASSUME IInv, senddata_com PROVE SendTyped' /\ Writing' /\ Progress' /\ BoatGetsMessages'
<1>0. SendTyped /\ Writing /\ Progress /\ BoatGetsMessages BY DEF IInv
<1>1. /\ writing = Idle /\ done \in Nat /\ done < Len(Length) /\ UNCHANGED <<status, out, line, cut, alarms>>
      /\ Stream' = Stream
  BY <1>0, MessageType DEF senddata_com, SendTyped, Stream
<1>2. CASE status = 1
  <2>1. writing' = [message |-> done + 1, taken |-> 0] /\ done' = done BY <1>2 DEF senddata_com
  <2>2. SendTyped' BY <1>0, <1>1, <2>1, MessageType DEF SendTyped
  <2>3. Writing' BY <1>1, <1>2, <2>1, MessageType DEF Writing
  <2>4. Progress' BY <1>0, <1>1, <2>1 DEF Progress, Idle
  <2>5. BoatGetsMessages' BY <1>0, <1>1, <2>1 DEF BoatGetsMessages
  <2>6. QED BY <2>2, <2>3, <2>4, <2>5
<1>3. CASE status # 1
  <2>1. done' = done + 1 /\ writing' = writing BY <1>3 DEF senddata_com, Dropped
  <2>2. SendTyped' BY <1>0, <1>1, <2>1, MessageType DEF SendTyped
  <2>3. Writing' BY <1>1, <2>1 DEF Writing
  <2>4. Progress' BY <1>0, <1>1, <2>1, StreamType, MessageType DEF Progress, Idle
  <2>5. BoatGetsMessages' BY <1>0, <1>1, <1>3, <2>1 DEF BoatGetsMessages
  <2>6. QED BY <2>2, <2>3, <2>4, <2>5
<1>4. QED BY <1>2, <1>3

LEMMA WriteStep ==
  ASSUME IInv, Write PROVE SendTyped' /\ Writing' /\ Progress' /\ BoatGetsMessages'
<1>0. SendTyped /\ Writing /\ Progress /\ BoatGetsMessages BY DEF IInv
<1> DEFINE m == writing.message
           k == writing.taken
           n == Len(Stream)
<1>1. /\ writing # Idle /\ status = 1 /\ m = done + 1 /\ done \in Nat /\ done < Len(Length)
      /\ k \in Nat /\ k < Length[m] /\ m \in Message /\ Length[m] \in Nat
  BY <1>0, MessageType DEF Write, Writing, SendTyped
<1>2. /\ Stream' = Append(Stream, <<m, k + 1>>) /\ Stream \in Seq(Message \X Nat) /\ n \in Nat
      /\ UNCHANGED <<status, line, cut, alarms>>
      /\ Len(out) < OutCap /\ out' = Append(out, <<m, k + 1>>)
  BY <1>0, WriteStream, StreamType DEF Write
<1>3. /\ DOMAIN Stream' = 1..(n + 1) /\ DOMAIN Stream = 1..n
      /\ Stream'[n + 1] = <<m, k + 1>> /\ \A i \in 1..n : Stream'[i] = Stream[i]
  BY <1>2
<1>4. \/ k + 1 = Length[m] /\ writing' = Idle /\ done' = done + 1
      \/ k + 1 < Length[m] /\ writing' = [message |-> m, taken |-> k + 1] /\ done' = done
  <2>1. CASE k + 1 >= Length[m] BY <1>1, <2>1 DEF Write, LastByte, Finish
  <2>2. CASE k + 1 < Length[m]
    <3>1. writing' = [writing EXCEPT !.taken = k + 1] /\ done' = done
      BY <1>1, <2>2 DEF Write, LastByte
    <3>2. QED BY <1>0, <2>2, <3>1 DEF SendTyped
  <2>3. QED BY <1>1, <2>1, <2>2
<1>5. \A i \in 1..n : Stream[i][1] \in Nat /\ (Stream[i][1] <= done \/ (Stream[i][1] = m /\ k > 0))
  BY SMTT(30), <1>0, <1>1, <1>3, StreamType, MessageType DEF Progress
<1>6. k > 0 => n > 0 /\ Stream[n] = <<m, k>> BY <1>0, <1>2 DEF Progress
<1> HIDE DEF m, k, n
<1>7. SendTyped'
  <2>1. Len(out') <= OutCap /\ out' \in Seq(Message \X Nat)
    BY SMTT(30), <1>0, <1>1, <1>2, PortAssumption DEF SendTyped
  <2>2. QED BY SMTT(30), <1>0, <1>1, <1>2, <1>4, <2>1 DEF SendTyped, Idle
<1>8. Writing' BY <1>1, <1>2, <1>4 DEF Writing
<1>9. Progress'
  <2>1. Stream' # <<>> /\ Len(Stream') = n + 1 BY <1>2 DEF n
  <2>2. ASSUME NEW i \in 1..(n + 1)
        PROVE  Stream'[i][1] \in Nat /\ (Stream'[i][1] <= done \/ Stream'[i][1] = m)
    <3>1. CASE i \in 1..n BY <1>3, <1>5, <3>1
    <3>2. CASE i = n + 1 BY <1>1, <1>3, <3>2
    <3>3. n \in Nat BY <1>2
    <3>4. i \in 1..n \/ i = n + 1 BY <2>2, <3>3
    <3>5. QED BY <3>1, <3>2, <3>4
  <2>3. CASE writing' = Idle /\ done' = done + 1
    <3>1. writing'.taken = 0 BY <2>3 DEF Idle
    <3>2. \A i \in 1..(n + 1) : Stream'[i][1] <= done' BY <1>1, <2>2, <2>3
    <3>3. QED BY <1>3, <3>1, <3>2 DEF Progress
  <2>4. CASE writing' = [message |-> m, taken |-> k + 1] /\ done' = done
    <3>1. writing'.taken = k + 1 /\ writing'.message = m /\ k + 1 > 0 BY <1>1, <2>4
    <3>2. Stream'[Len(Stream')] = <<m, k + 1>> BY <1>3, <2>1
    <3>3. \A i \in 1..(n + 1) : Stream'[i][1] <= done' \/ Stream'[i][1] = done' + 1
      BY <1>1, <2>2, <2>4
    <3>4. QED BY <1>3, <2>1, <3>1, <3>2, <3>3 DEF Progress
  <2>5. QED BY <1>4, <2>3, <2>4
<1>10. BoatGetsMessages'
  <2>1. ASSUME NEW i \in 1..(n + 1)
        PROVE  /\ Stream'[i][2] <= Length[Stream'[i][1]]
               /\ IF i = 1 THEN Stream'[i][2] = 1 ELSE Follows(Stream'[i - 1], Stream'[i])
    <3>1. CASE i \in 1..n
      <4>1. Stream'[i] = Stream[i] /\ (i # 1 => Stream'[i - 1] = Stream[i - 1])
        BY <1>2, <1>3, <3>1 DEF n
      <4>2. QED BY <1>0, <1>3, <3>1, <4>1 DEF BoatGetsMessages
    <3>2. CASE i = n + 1
      <4>1. Stream'[i] = <<m, k + 1>> /\ k + 1 <= Length[m] BY <1>1, <1>3, <3>2
      <4>2. i # 1 => n \in 1..n /\ Stream'[i - 1] = Stream[n] BY <1>2, <1>3, <2>1, <3>2
      <4>3. i = 1 => k + 1 = 1 BY <1>1, <1>2, <1>6, <3>2
      <4>4. ASSUME i # 1 PROVE Follows(Stream[n], <<m, k + 1>>)
        <5>1. CASE k > 0 BY <1>6, <5>1 DEF Follows
        <5>2. CASE k = 0
          <6>1. Stream[n][1] \in Nat /\ Stream[n][1] <= done BY <1>5, <4>2, <4>4, <5>2
          <6>2. Stream[n][1] < m /\ k + 1 = 1 BY <1>1, <5>2, <6>1
          <6>3. QED BY <6>2 DEF Follows
        <5>3. QED BY <1>1, <5>1, <5>2
      <4>5. QED BY <4>1, <4>2, <4>3, <4>4
    <3>3. QED BY <1>2, <3>1, <3>2 DEF n
  <2>2. ASSUME NEW l \in 1..done' PROVE <<l, Length[l]>> \in Range(Stream') \/ l \in cut'
    <3>1. Range(Stream) \subseteq Range(Stream') BY <1>2, <1>3 DEF Range
    <3>2. CASE l \in 1..done BY <1>0, <1>1, <1>2, <3>1, <3>2 DEF BoatGetsMessages
    <3>3. CASE l = done + 1 /\ k + 1 = Length[m]
      <4>1. Stream'[n + 1] = <<l, Length[l]>> /\ n + 1 \in DOMAIN Stream' BY <1>1, <1>2, <1>3, <3>3 DEF n
      <4>2. QED BY <4>1 DEF Range
    <3>4. QED BY <1>1, <1>4, <3>2, <3>3
  <2>3. QED BY <1>3, <2>1, <2>2 DEF BoatGetsMessages
<1>11. QED BY <1>7, <1>8, <1>9, <1>10

LEMMA AlarmStep ==
  ASSUME IInv, Alarm PROVE SendTyped' /\ Writing' /\ Progress' /\ BoatGetsMessages'
<1>0. SendTyped /\ Writing /\ Progress /\ BoatGetsMessages BY DEF IInv
<1>1. /\ writing # Idle /\ status = 1 /\ writing.message = done + 1 /\ done \in Nat
      /\ done < Len(Length) /\ Stream' = Stream /\ UNCHANGED <<status, out, line>>
      /\ alarms' \in 0..MaxAlarms /\ writing.message \in Message
  BY SMTT(30), <1>0, MessageType, PortAssumption DEF Alarm, Writing, SendTyped, Stream
<1>2. CASE writing.taken > 0
  <2>1. writing' = Idle /\ done' = done + 1 /\ cut' = cut \cup {done + 1}
    BY <1>1, <1>2 DEF Alarm, Finish
  <2>2. SendTyped' BY <1>0, <1>1, <2>1, MessageType DEF SendTyped, Idle
  <2>3. Writing' BY <2>1 DEF Writing
  <2>4. Progress' BY <1>0, <1>1, <2>1, StreamType, MessageType DEF Progress, Idle
  <2>5. BoatGetsMessages' BY <1>0, <1>1, <2>1 DEF BoatGetsMessages
  <2>6. QED BY <2>2, <2>3, <2>4, <2>5
<1>3. CASE ~(writing.taken > 0)
  <2>1. UNCHANGED <<writing, done, cut>> BY <1>3 DEF Alarm
  <2>2. SendTyped' BY <1>0, <1>1, <2>1 DEF SendTyped
  <2>3. QED BY <1>1, <2>1, <2>2, SameStream
<1>4. QED BY <1>2, <1>3

LEMMA DrainStep ==
  ASSUME IInv, Drain PROVE SendTyped' /\ Writing' /\ Progress' /\ BoatGetsMessages'
<1>1. SendTyped'
  <2>1. Tail(out) \in Seq(Message \X Nat) /\ Len(Tail(out)) <= OutCap
        /\ Append(line, Head(out)) \in Seq(Message \X Nat)
    BY PortAssumption DEF IInv, SendTyped, Drain
  <2>2. QED BY <2>1 DEF IInv, SendTyped, Drain
<1>2. QED BY <1>1, DrainStream, SameStream DEF IInv, Drain

-----------------------------------------------------------------------------
(* The bytes from the boat.                                                *)

LEMMA LeastOf ==
  ASSUME NEW S \in SUBSET Nat, S # {} PROVE Min(S) \in S /\ \A y \in S : Min(S) <= y
<1> DEFINE R == OpToRel(<, Nat)
<1>1. IsWellFoundedOn(R, Nat) BY NatLessThanWellFounded
<1>2. PICK x \in S : \A y \in S : <<y, x>> \notin R
  <2> HIDE DEF R
  <2> QED BY <1>1, WFMin
<1>3. ASSUME NEW y \in S PROVE x <= y
  <2>1. <<y, x>> \in R <=> y < x BY DEF OpToRel
  <2> HIDE DEF R
  <2> QED BY <1>2, <2>1
<1>4. QED BY <1>3 DEF Min

\* One read takes something, and no more than it asks for.
LEMMA ReadLenBound ==
  ASSUME input \in Seq(Byte), input # <<>>
  PROVE  ReadLen \in 1..Len(input) /\ ReadLen <= ReadMax
<1>1. {ReadMax, Len(input)} \in SUBSET Nat BY PortAssumption
<1>2. ReadLen \in {ReadMax, Len(input)} /\ ReadLen <= ReadMax /\ ReadLen <= Len(input)
  BY <1>1, LeastOf DEF ReadLen
<1>3. QED BY <1>2, PortAssumption

LEMMA CTextType ==
  ASSUME NEW t \in Seq(Byte) PROVE CText(t) \in Seq(Byte) /\ Len(CText(t)) <= Len(t)
<1> DEFINE zeros == {i \in DOMAIN t : t[i] = 0}
<1>1. CASE zeros = {} BY <1>1 DEF CText
<1>2. CASE zeros # {}
  <2>1. zeros \in SUBSET Nat OBVIOUS
  <2>2. Min(zeros) \in DOMAIN t BY <1>2, <2>1, LeastOf
  <2>3. CText(t) = SubSeq(t, 1, Min(zeros) - 1) BY <1>2 DEF CText
  <2>4. Min(zeros) - 1 \in 0..Len(t) BY <2>2
  <2> HIDE DEF zeros
  <2>5. SubSeq(t, 1, Min(zeros) - 1) \in Seq(Byte) /\ Len(SubSeq(t, 1, Min(zeros) - 1)) <= Len(t)
    BY <2>4
  <2>6. QED BY <2>3, <2>5
<1>3. QED BY <1>1, <1>2

\* A text is put at the start of the buffer, and no package is looked for.
LEMMA DataProc ==
  ASSUME ReceiveTyped, npos = 0, NEW t \in Seq(Byte), Len(t) <= ReadMax, serials_dataproc(t)
  PROVE  npos' = 0 /\ my_buffer' = Copied(t)
<1>1. npos + Len(t) < BufSize - 1 BY PortAssumption
<1>2. ~(0 > MinPkg) BY PortAssumption
<1>3. ASSUME NEW b PROVE TakePackage(b, 0) = [buffer |-> b, npos |-> 0] BY <1>2 DEF TakePackage
<1>4. my_buffer' = TakePackage(Copied(t), 0).buffer /\ npos' = TakePackage(Copied(t), 0).npos
  BY <1>1 DEF serials_dataproc
<1>5. QED BY <1>3, <1>4

LEMMA ReceiveStep ==
  ASSUME IInv, Receive PROVE ReceiveTyped' /\ BufferHoldsLastText'
<1>0. ReceiveTyped /\ npos = 0 BY DEF IInv, BufferHoldsLastText
<1>1. input \in Seq(Byte) /\ input # <<>> /\ ReadLen \in 1..Len(input) /\ ReadLen <= ReadMax
  BY <1>0, ReadLenBound DEF ReceiveTyped, Receive
<1>2. /\ SubSeq(input, 1, ReadLen) \in Seq(Byte) /\ Len(SubSeq(input, 1, ReadLen)) <= ReadMax
      /\ SubSeq(input, ReadLen + 1, Len(input)) \in Seq(Byte)
      /\ Len(SubSeq(input, ReadLen + 1, Len(input))) <= Len(input)
  BY <1>1
<1>3. chunk' \in Seq(Byte) /\ Len(chunk') \in Nat /\ Len(chunk') <= ReadMax
  <2>1. /\ CText(SubSeq(input, 1, ReadLen)) \in Seq(Byte)
        /\ Len(CText(SubSeq(input, 1, ReadLen))) <= Len(SubSeq(input, 1, ReadLen))
    BY <1>2, CTextType
  <2>2. chunk' = CText(SubSeq(input, 1, ReadLen)) BY DEF Receive
  <2>3. QED BY <1>2, <2>1, <2>2, PortAssumption
<1>4. npos' = 0 /\ my_buffer' = Copied(chunk') BY <1>0, <1>3, DataProc DEF Receive
<1>5. my_buffer' = [i \in Place |-> IF i + 1 \in 1..Len(chunk') THEN chunk'[i + 1] ELSE my_buffer[i]]
  <2>1. \A i \in Place : i - npos + 1 = i + 1 BY <1>0 DEF Place
  <2>2. QED BY <1>4, <2>1 DEF Copied
<1>6. my_buffer' \in [Place -> Byte] BY <1>0, <1>3, <1>5 DEF ReceiveTyped
<1>7. \A i \in 1..Len(chunk') : i - 1 \in Place /\ (i - 1) + 1 = i
  BY <1>3, PortAssumption DEF Place
<1>8. BufferHoldsLastText' BY <1>4, <1>5, <1>7 DEF BufferHoldsLastText
<1>9. 0 \in Place BY PortAssumption DEF Place
<1>10. ReceiveTyped'
  BY SMTT(30), <1>0, <1>2, <1>3, <1>4, <1>6, <1>9, PortAssumption DEF ReceiveTyped, Receive
<1>11. QED BY <1>8, <1>10

LEMMA BoatStep ==
  ASSUME IInv, BoatSends PROVE ReceiveTyped' /\ BufferHoldsLastText'
<1>1. PICK b \in Byte : input' = IF Len(input) < InCap THEN Append(input, b) ELSE input
  BY DEF BoatSends
<1>2. input' \in Seq(Byte) /\ Len(input') <= InCap
  BY <1>1, PortAssumption DEF IInv, ReceiveTyped
<1>3. bytes' \in 0..MaxBytes BY PortAssumption DEF IInv, ReceiveTyped, BoatSends
<1>4. QED BY <1>2, <1>3 DEF IInv, ReceiveTyped, BufferHoldsLastText, BoatSends

-----------------------------------------------------------------------------
(* The invariant, and what follows from it.                                *)

\* Each side leaves the other's state alone.
LEMMA SidesApart ==
  ASSUME IInv
  PROVE  /\ UNCHANGED receiving => ReceiveTyped' /\ BufferHoldsLastText'
         /\ UNCHANGED <<status, sending>> => SendTyped' /\ Writing' /\ Progress' /\ BoatGetsMessages'
<1>1. UNCHANGED receiving => ReceiveTyped' /\ BufferHoldsLastText'
  BY DEF IInv, ReceiveTyped, BufferHoldsLastText
<1>2. ASSUME UNCHANGED <<status, sending>>
      PROVE  SendTyped' /\ Writing' /\ Progress' /\ BoatGetsMessages'
  <2>1. Stream' = Stream BY <1>2 DEF Stream
  <2>2. SendTyped' BY <1>2 DEF IInv, SendTyped
  <2>3. QED BY <1>2, <2>1, <2>2, SameStream
<1>3. QED BY <1>1, <1>2

LEMMA InitInv == Init => IInv
<1> SUFFICES ASSUME Init PROVE IInv
  OBVIOUS
<1>1. Stream = <<>> /\ DOMAIN Stream = {} BY DEF Init, Stream
<1>2. SendTyped BY PortAssumption, MessageType DEF Init, SendTyped, Idle
<1>3. 0 \in Place BY PortAssumption DEF Place
<1>4. ReceiveTyped BY <1>3, PortAssumption DEF Init, ReceiveTyped
<1>5. Writing /\ Progress BY <1>1 DEF Init, Writing, Progress, Idle
<1>6. BoatGetsMessages /\ BufferHoldsLastText BY <1>1 DEF Init, BoatGetsMessages, BufferHoldsLastText
<1>7. QED BY <1>2, <1>4, <1>5, <1>6 DEF IInv

LEMMA Inductive == IInv /\ [Next]_vars => IInv'
<1> SUFFICES ASSUME IInv, [Next]_vars PROVE IInv'
  OBVIOUS
<1>1. CASE senddata_com
  <2>1. UNCHANGED receiving BY <1>1 DEF senddata_com
  <2>2. QED BY <1>1, <2>1, SendStep, SidesApart DEF IInv
<1>2. CASE Write
  <2>1. UNCHANGED receiving BY <1>2 DEF Write
  <2>2. QED BY <1>2, <2>1, WriteStep, SidesApart DEF IInv
<1>3. CASE Alarm
  <2>1. UNCHANGED receiving BY <1>3 DEF Alarm
  <2>2. QED BY <1>3, <2>1, AlarmStep, SidesApart DEF IInv
<1>4. CASE Drain
  <2>1. UNCHANGED receiving BY <1>4 DEF Drain
  <2>2. QED BY <1>4, <2>1, DrainStep, SidesApart DEF IInv
<1>5. CASE BoatSends
  <2>1. UNCHANGED <<status, sending>> BY <1>5 DEF BoatSends
  <2>2. QED BY <1>5, <2>1, BoatStep, SidesApart DEF IInv
<1>6. CASE Receive
  <2>1. UNCHANGED <<status, sending>> BY <1>6 DEF Receive
  <2>2. QED BY <1>6, <2>1, ReceiveStep, SidesApart DEF IInv
<1>7. CASE UNCHANGED vars BY <1>7, SidesApart DEF vars, IInv
<1>8. QED BY <1>1, <1>2, <1>3, <1>4, <1>5, <1>6, <1>7 DEF Next

LEMMA Invariance == Spec => []IInv
BY InitInv, Inductive, PTL DEF Spec

\* Every variable keeps its type; in particular no byte is ever put outside
\* my_buffer.
THEOREM PortTypeCorrect == Spec => []TypeOK
<1>1. IInv => TypeOK BY DEF IInv, SendTyped, ReceiveTyped, TypeOK
<1>2. QED BY <1>1, Invariance, PTL

\* senddata_com: messages of any length through a driver of any size, read by a
\* boat of any speed, arrive in order and without gaps but for those the timer cut.
THEOREM MessagesArrive == Spec => []BoatGetsMessages
<1>1. IInv => BoatGetsMessages BY DEF IInv
<1>2. QED BY <1>1, Invariance, PTL

\* serials_dataproc: whatever the boat sends, npos stays 0, so texts are never
\* joined and the lines that take a package out of the buffer are never reached.
THEOREM TextsNeverJoined == Spec => []BufferHoldsLastText
<1>1. IInv => BufferHoldsLastText BY DEF IInv
<1>2. QED BY <1>1, Invariance, PTL
=============================================================================
