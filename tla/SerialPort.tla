----------------------------- MODULE SerialPort -----------------------------
(***************************************************************************)
(* The serial port of the boat: serialscomm.c and the receive buffer of    *)
(* foobar.c.  The callback thread of the MQTT library writes every message *)
(* it has handled; write blocks while the driver's queue is full, and the   *)
(* SIGALRM of the report timer can end it early.  receivethread reads what  *)
(* the boat sends and passes it to serials_dataproc.  The driver and the    *)
(* boat are external.                                                       *)
(***************************************************************************)
EXTENDS Integers, Sequences, Functions, FiniteSetsExt

CONSTANTS
  Length,       \* the lengths of the messages to write, in order
  OutCap,       \* bytes the driver holds for the boat
  Byte,         \* bytes from the boat, 0 among them
  InCap,        \* bytes the driver holds for receivethread
  ReadMax,      \* bytes asked of one read: 128
  BufSize,      \* sizeof(my_buffer): 1024
  MinPkg,       \* MIN_PKG_SIZE
  Mark,         \* 0x2E
  MaxBytes, MaxAlarms   \* bounds: bytes from the boat, signals

Message == 1..Len(Length)

ASSUME PortAssumption ==
  /\ Length \in Seq(Nat \ {0}) /\ Byte \subseteq 0..255 /\ 0 \in Byte
  /\ OutCap \in Nat \ {0} /\ InCap \in Nat \ {0}
  /\ ReadMax \in Nat \ {0} /\ BufSize \in Nat /\ ReadMax + 1 < BufSize
  /\ MinPkg \in Nat /\ MinPkg >= 3
  /\ MaxBytes \in Nat /\ MaxAlarms \in Nat

VARIABLES
  status,      \* comm_t.status: 1 when the port is open
  writing,     \* the message in write, and its bytes taken so far; 0: none
  done,        \* messages RecvProc has finished with
  out, line,   \* bytes <<message, place>> in the driver, and at the boat
  cut,         \* history: messages write has returned early from
  input,       \* bytes from the boat that are not read yet
  my_buffer, npos,
  chunk,       \* history: the text passed to serials_dataproc last
  bytes, alarms

sending   == <<writing, done, out, line, cut, alarms>>
receiving == <<input, my_buffer, npos, chunk, bytes>>
vars      == <<status, sending, receiving>>

Place == 0..(BufSize - 1)

TypeOK ==
  /\ status \in {0, 1}
  /\ writing \in [message : Message \cup {0}, taken : Nat]
  /\ done \in 0..Len(Length) /\ cut \in SUBSET Message
  /\ Len(out) <= OutCap /\ out \in Seq(Message \X Nat) /\ line \in Seq(Message \X Nat)
  /\ input \in Seq(Byte) /\ Len(input) <= InCap
  /\ my_buffer \in [Place -> Byte] /\ npos \in Place
  /\ chunk \in Seq(Byte) /\ Len(chunk) <= ReadMax
  /\ bytes \in 0..MaxBytes /\ alarms \in 0..MaxAlarms

Idle == [message |-> 0, taken |-> 0]

\* open_com fails or not; main goes on in either case.
Init ==
  /\ status \in {0, 1}
  /\ writing = Idle /\ done = 0 /\ out = <<>> /\ line = <<>> /\ cut = {}
  /\ input = <<>> /\ my_buffer = [i \in Place |-> 0] /\ npos = 0 /\ chunk = <<>>
  /\ bytes = 0 /\ alarms = 0

-----------------------------------------------------------------------------
(* The callback thread: senddata_com at the end of RecvProc.               *)

\* Without a port the message is dropped.
\* Seeded fault: it is tried again until there is one.
Dropped_Retry == done
Dropped == done + 1

senddata_com ==
  /\ writing = Idle /\ done < Len(Length)
  /\ IF status = 1
     THEN writing' = [message |-> done + 1, taken |-> 0] /\ UNCHANGED done
     ELSE done' = Dropped /\ UNCHANGED writing
  /\ UNCHANGED <<status, out, line, cut, alarms, receiving>>

Finish == writing' = Idle /\ done' = done + 1

\* write hands a byte to the driver, and returns after the last one.
\* Seeded fault: it is told one byte less.
Last_Short == Length[writing.message] - 1
LastByte == Length[writing.message]

Write ==
  /\ writing # Idle /\ Len(out) < OutCap
  /\ out' = Append(out, <<writing.message, writing.taken + 1>>)
  /\ IF writing.taken + 1 >= LastByte THEN Finish
     ELSE writing' = [writing EXCEPT !.taken = @ + 1] /\ UNCHANGED done
  /\ UNCHANGED <<status, line, cut, alarms, receiving>>

\* The signal finds the thread waiting for room.  With bytes taken write returns
\* their number, at which nobody looks; with none it is restarted.
Alarm ==
  /\ writing # Idle /\ Len(out) = OutCap /\ alarms < MaxAlarms
  /\ alarms' = alarms + 1
  /\ IF writing.taken > 0 THEN Finish /\ cut' = cut \cup {writing.message}
     ELSE UNCHANGED <<writing, done, cut>>
  /\ UNCHANGED <<status, out, line, receiving>>

Drain ==
  /\ out # <<>>
  /\ line' = Append(line, Head(out)) /\ out' = Tail(out)
  /\ UNCHANGED <<status, writing, done, cut, alarms, receiving>>

-----------------------------------------------------------------------------
(* receivethread.                                                          *)

\* The driver drops what it has no room for.
BoatSends ==
  /\ status = 1 /\ bytes < MaxBytes /\ bytes' = bytes + 1
  /\ \E b \in Byte : input' = IF Len(input) < InCap THEN Append(input, b) ELSE input
  /\ UNCHANGED <<status, sending, my_buffer, npos, chunk>>

\* What strlen leaves of the bytes read.
CText(s) ==
  LET zeros == {i \in DOMAIN s : s[i] = 0} IN
  IF zeros = {} THEN s ELSE SubSeq(s, 1, Min(zeros) - 1)

\* The value of a two-byte short.
Short(lo, hi) == LET u == lo + 256 * hi IN IF u < 32768 THEN u ELSE u - 65536

\* The lines after "npos > MIN_PKG_SIZE": a package that is complete is taken
\* out of the first n bytes of b.
TakePackage(b, n) ==
  LET marks == {i \in 0..(n - 1) : b[i] = Mark} IN
  LET m == IF marks = {} THEN n ELSE Min(marks) IN
  LET size == Short(b[m + 1], b[m + 2]) IN
  IF n > MinPkg /\ m + MinPkg <= n /\ m + size + 1 < n
  THEN [buffer |-> [i \in Place |-> IF i < n - m - size - 1 THEN b[i + m + size] ELSE b[i]],
        npos |-> n - m - size - 1]
  ELSE [buffer |-> b, npos |-> n]

\* Where the next text goes: npos is not moved past the one just copied.
\* Seeded fault: the first byte is kept for a marker.
Copied_Later(s) == [i \in Place |-> IF i - npos \in 1..Len(s) THEN s[i - npos] ELSE my_buffer[i]]
Copied(s) == [i \in Place |-> IF i - npos + 1 \in 1..Len(s) THEN s[i - npos + 1] ELSE my_buffer[i]]

serials_dataproc(s) ==
  LET b == IF npos + Len(s) < BufSize - 1 THEN Copied(s) ELSE [i \in Place |-> 0] IN
  LET r == TakePackage(b, npos) IN
  my_buffer' = r.buffer /\ npos' = r.npos

\* How much one read takes.
\* Seeded fault: all there is is taken.
ReadLen_All == Len(input)
ReadLen == Min({ReadMax, Len(input)})

Receive ==
  /\ status = 1 /\ input # <<>>
  /\ input' = SubSeq(input, ReadLen + 1, Len(input))
  /\ chunk' = CText(SubSeq(input, 1, ReadLen))
  /\ serials_dataproc(chunk')
  /\ UNCHANGED <<status, sending, bytes>>

Next == senddata_com \/ Write \/ Alarm \/ Drain \/ BoatSends \/ Receive

Spec == Init /\ [][Next]_vars

\* The callback thread runs and the driver sends; the boat and the timer need not.
FairSpec ==
  Spec /\ WF_vars(senddata_com) /\ WF_vars(Write) /\ WF_vars(Drain)

-----------------------------------------------------------------------------
\* The bytes the driver has taken so far: those at the boat and those to come.
Stream == line \o out

\* Byte y is the next of x's message, or the first of a later message.
Follows(x, y) == y = <<x[1], x[2] + 1>> \/ (x[1] < y[1] /\ y[2] = 1)

\* The boat gets the messages one after the other, each from its first byte and
\* without a gap; one that is over is whole unless the timer cut it.
BoatGetsMessages ==
  /\ \A i \in DOMAIN Stream :
       /\ Stream[i][2] <= Length[Stream[i][1]]
       /\ IF i = 1 THEN Stream[i][2] = 1 ELSE Follows(Stream[i - 1], Stream[i])
  /\ (status = 1) => \A m \in 1..done : <<m, Length[m]>> \in Range(Stream) \/ m \in cut

\* Texts are never joined: whatever the boat sends in however many pieces, the
\* buffer starts with the last piece, up to its first zero, and no package is
\* ever taken from it.
BufferHoldsLastText ==
  npos = 0 /\ \A i \in 1..Len(chunk) : my_buffer[i - 1] = chunk[i]

\* A slow boat delays the callback thread and so the messages of the server, but
\* not for ever: every message gets past the port.
MessagesPass == \A n \in Message : <>(done >= n)
=============================================================================
