# A verification project for mqttarm

mqttarm (`foobar.c` and its libraries) is the firmware of a boat device. It
registers the device with a server over MQTT, keeps the equipment number the
server gives it in `device.config`, reports measurements, obeys control
messages, and forwards messages to a serial port. This directory holds TLA+
modules that model the program, TLC configurations that check them, and proofs
that TLAPS checks.

## 1. The system

| Component | Code | State | Operations |
|---|---|---|---|
| Registration | `foobar.c` (main, `cReg_/cUnreg_Equipment`, `RecvProc`, `s*_proc`, `Read_/Write_cfg`) | `equipmentid`, `g_reged`, the two topics, `inWhatStatus`, `device.config` | connect, register (101), unregister (102), answer queries (103, 301), save |
| MQTT link | `mqtt.c`, connection loop of `foobar.c` | `gclient`, the handles of the library, their sessions and subscriptions | `init_mqtt`, `onConnect`, `connlost`, subscribe, unsubscribe, send |
| Hash table, dictionary | `hash.c`, `dictionary.c` | chains of entries, `count` | init, insert, find, remove, clear, count |
| Device table | `deviceboat.c`, handlers 105 and 106 in `foobar.c` | `equipmentdev` | read the description, set a value, generate JSON |
| Message queue | `msgque.c`, `msgquetest/`, reader thread of `foobar.c` | two System V queues | init, get, send, receive, delete |
| Serial port | `serialscomm.c`, `serials_dataproc` | `g_comm`, `my_buffer`, `npos` | open, close, send, receive |
| Configuration | `config.c`, `cfg_util.c` | sections of key-value pairs | load, get, set, save |
| Protocol parser | `xprotocol.c` | none | JSON fields to C values |
| Timer, reports | `foobar.c` (`Start_ProcTimer`, `TimerFun_sending_status`, `cData_uploading`) | the interval timer, the position in `equipmentdev` | report every 3000 s or on command |
| cstl, demos | `cstl/`, `test.c`, `test2.c` | | not part of the program |

`foobar.c` runs in several contexts that share globals and use no lock at all:

- **main** connects, subscribes, registers, then polls the operator's commands
  and the state of the connection;
- the **callback thread** of the MQTT library runs `onConnect`, `connlost` and,
  for every message, `msgarrvd`, which calls `RecvProc` and a handler;
- the **reader thread** of the message queue and the **receive thread** of the
  serial port;
- the **SIGALRM handler**, which interrupts whichever thread takes the signal.

main and the callback thread communicate through `equipmentid`, the topic
buffers and `inWhatStatus`; devices communicate through the broker, and every
device hears every reply on `huachen/server`.

What is hard, with lines, is listed under "hazards" in `PROJECT.json`: a string
freed by one thread while the other formats it, a pending request noted after
it has been sent and cleared whatever has been requested since, replies meant
for other devices, handshakes that end after main has given them up, a
configuration file that is empty for a moment, messages dropped without the
sender being told.

## 2. Modules

| Module | Models | Role |
|---|---|---|
| `Registration` | both threads of a fleet of devices, their files, sessions and the server | detailed specification |
| `Enrolment` | what registration promises: identity, pending request, stored identity | abstract specification |
| `Session` | what a device may expect of its MQTT session, and how it may leave it | abstract specification, the contract between the two modules around it |
| `MqttLink` | one device's handles, the broker's view of them, the report timer | detailed specification of what `Registration` abstracts to `linked`, `subs`, `hello` |
| `MsgQueue` | the two System V queues, `foobar` and the program at their other end | detailed specification |
| `Channel` | one direction of the queues | abstract specification |
| `SerialPort` | the writer and the reader of the port, the driver, the receive buffer | detailed specification |
| `Hash` | the chained hash table | detailed specification |
| `Bindings` | a stack of values per class of keys | abstract specification |
| `Config` | the configuration library: an open handle and its file | detailed specification, and the reader and writer as operators |
| `Equipment` | the table of sub-devices, the control handlers, the reports of three threads | detailed specification |
| `RegistrationProofs`, `MqttLinkProofs`, `MsgQueueProofs`, `ChannelProofs`, `EquipmentProofs`, `SerialPortProofs`, `HashProofs`, `ConfigProofs` | | proofs (section 4) |
| `MCRegistration`, `MCMqttLink`, `MCMsgQueue`, `MCSerialPort`, `MCHash`, `MCConfig`, `MCEquipment` | | instances for TLC |

`Registration` and `MqttLink` describe the same session at two levels. They are
composed through `Session`: `MqttLink` is shown to implement it and
`Registration` is shown to use it as it may be used (both `ImplementsSession`, both
also proved). So the guards of `Registration` that speak of `linked` (it comes up
only while main is in its connection loop; it starts without subscriptions; main
goes back only when it is gone) are results about `mqtt.c` and not assumptions.

### Registration

Each device has a control state per thread, `main[d]` and `cb[d]`; the names of
these states follow the statements. A step is the code between two accesses to
state that the other thread, or a crash, can observe. The variables keep the
names of the globals; `file` is `device.config` as `Read_cfg` would read it.

- `sprintf(topic, "...%s", equipmentid)` in main is two steps, `LoadArg` (the
  pointer is passed) and `PutSub` or `PutPub` (the text is read). When the
  callback thread frees the string in between (`Free`) the pointer becomes
  `Junk`, and the text is any number, or none: reading freed memory is
  undefined, so every outcome is allowed.
- `cReg_Equipment` is `Ask` (publish) and `Mark` (`inWhatStatus = 2`), so a
  reply can come between the two.
- a handler takes its message off `inbox` (`RecvReg`, `RecvUnreg`,
  `RecvQuery`), then frees, copies, formats, subscribes, truncates the file,
  writes it, and resets `inWhatStatus`, one step each.
- `Crash` is possible at every step and leaves only `file` and what the server
  has received.
- `LoseLink` loses any suffix of the messages under way and any set of the
  requests not yet answered. Sessions are clean: a new one has no subscription.
- The server answers each request at most once, unless it spends a "resend"
  (QoS 1 allows duplicates), and picks any number. A reply goes to every device
  subscribed to `huachen/server`, as on the broker.

Three history variables (`asked`, `acted`, `raced`) are read by properties only.

`RecvProc` ends by handing the message to the serial port, whatever it is; that
is a step of `Equipment`, what becomes of it there is in `SerialPort`, and both
are left out here.

`strreginfo` is taken to be non-null: `getRegInfo` returns the same buffer when
it reads a description. A device without a description never registers.

### MqttLink

Each `init_mqtt` creates a handle and stores it in `gclient`; older handles are
never destroyed. The broker serves one handle (`owner`), the last whose
handshake it accepted, because all handles use one client id; the library
notices later (`ConnLost`). `Subscribe` acts on `gclient` whatever handle's
`onConnect` runs.

Of the identity the module has what the subscriptions depend on: whether
`equipmentid` is `NULL`, the number or a freed string, the pointer `arg` that main has
passed to `sprintf`, the topic in `subNoramlTopic`, and `inWhatStatus`. Main and the
callback thread (`main`, `cb`) move one access at a time, as in `Registration`: the
test of `foobar.c:833`, the two halves of the `sprintf` after it and the subscription
are `CheckNumber`, `LoadArg`, `FormatTopic` and `SubscribeOwn`; the handlers of 101 and 102
free, assign, format, subscribe and reset in a step each (`Free`, `SetNumber`,
`RegFormat`, `RegSubscribe`, `Unsubscribe`, `Reset`). A reply (`Reply`) comes over the handle
that is served, which may be an old one, and its handler subscribes on the newest. A
reply handled between `foobar.c:833` and `837` can leave a device with a number
without its topic, or one without a number subscribed to the old one; `raced` records that, until
main connects again, and `LinkSettles` exempts its own topic then.

`armed` is whether the interval timer runs: main starts it once a connection is up, for a
device that had a number at `foobar.c:833` (`Started`); nothing stops it. `Alarm` is its
handler as far as the session is concerned; `uploads` counts the reports modulo
two, so that liveness can speak of them with finitely many states.

To `Session`, a device has a session while the broker serves the *newest* handle
(`Linked`); an old handle that takes the session over is a loss.

### Hash

Keys, the folding of case (`Upper`) and the sum that `strhash` reduces
(`Sum`) are constants, so keys may collide or differ only in case. The refinement
to `Bindings` reads the chains as a stack per class of keys; `ignore_case` is an
argument of `hash_init`, so both kinds of table are checked at once. A cleared table has no
array: any further use crashes (`UseCleared`). What a key finds is stated over its
own chain alone: the places of its entries (`Hits`), the first of which `hash_find`
returns, and its values in order (`Held`).

### Config

A handle is a head comment and a sequence of sections; a file is a sequence of
lines (comment, empty, section header, setting). `cfg_write` and `cfg_read` are
functions from one to the other, and each call of `config.h` is an action. The
reader, three functions that look ahead one line and seek back, is one fold
over the lines that carries the comment read last and the section being read.
Names are compared with `strcasecmp` (`Lower`), the default section's name is
`""`, and a comment is the sequence of its lines. `config_open(NULL)`, then
`config_load` and `config_save`, is how `foobar.c` uses the library for
`device.config` and `mqtt.config`. Texts of comments (`Text`), names and values are
any; a null pointer is no text and no section. Excluded are lines of a type
the reader does not know (which it reports and skips) and names or values with
characters that `trim` or the line types give a meaning to; both change the text
and not the structure.

### Equipment

The callback thread takes the messages 103, 105 and 106 in order, and also those
with a code `RecvProc` does not know (0) and texts that are no JSON (-1), which it
drops before it hands them to the port. Setting a
value is two steps, `SubFree` (`free`, and the crash in `strlen` when the
message has no value) and `SubAssign` (`malloc` and `strcpy`); the reply and the
forwarding to the serial port are steps of their own. A report of the table (104)
is written entry by entry, on the callback thread for a query and on main for the
operator's command. Per entry there are two reads of the value: `Measure` is
the `strlen` and `Copy` the copying. When a control frees the value
in between, the text may be `Junk` or the new value, as a compiler may
or may not load the pointer again; a new value of another length is cut or
overread, which is `Junk` as well. The history field `held` records what each
value was while the report was written.

A report of measurements (202) stores two random coordinates in `equipmentdev`,
then reads them again to print them, on main or in the signal handler; the signal
comes between any two of these steps (`StoreLon`, `StoreLat`, `PutLon`, `PutLat`).
The other numbers of the report are printed without being stored and left out.

Every generator returns the buffer of the yajl generator it has just freed, so
what is sent may be anything (`Garbled`); the properties speak of the texts that
are sent as they were written. The device is registered and connected
here (`Registration` has the rest), and every entry of the description is
complete.

### MsgQueue

`foobar` and a local program, for which `msgquetest` stands, run at the two ends
of two queues. A process looks up the queue it sends on once, at its start
(`Open`), and its reader thread looks up the other one before every message
(`Get`), then waits in `msgrcv` (`Receive`, or `Fail` if the queue is deleted) or
sleeps (`Retry`). `msgque_init` is modelled by what `ftok` does to its number: the
low eight bits remain. `Halt` is a process that ends and leaves the queues alone,
as `foobar` does; `Quit` is `msgquetest`'s exit, which deletes the queue it sends
on unless its id is 0. Queues, ids and the order of messages are the kernel's
(external); the kernel here never gives an id twice. `SendKey`
and `RecvKey` follow from the program, since both programs take the two numbers in
opposite order.

### SerialPort

The callback thread writes the messages it has handled in order. `write` gives the
driver a byte at a time and waits when its queue is full; the timer's signal can
then end it (`Alarm`), with what was taken, and nobody looks at the result. Without
a port the message is dropped. `receivethread` reads up to `ReadMax` bytes, which
`serials_dataproc` sees up to the first zero. It copies them to `npos`, which it
does not move, and looks for a package in the `npos` bytes it believes it has.
`serials_dataproc` is translated as it stands, with the two-byte length a signed
`short`; that no package is ever found is a result
(`BufferHoldsLastText`), not an assumption.

## 3. Runs

| Run | Instance | Checks |
|---|---|---|
| `Registration_device` | one device, two numbers; one lost session, registration, unregistration and query, or one crash, unregistration, refusal and redelivery | `TypeOK`, `DiskMirrorsMemory`, `OwnTopicSubscribed`, `TopicsNameIdentity`, `ImplementsEnrolment`, `QueriesAnsweredAsAsked` |
| `Registration_fleet` | two devices, one unregistration | `OneReplyPerRequest`, `ImplementsSession` |
| `Registration_settle` | one device; one lost session, crash and registration; fair | `FleetSettles` |
| `Registration_late_reply` | one device, the first of the budgets above; expected violation | `RegisteredTopicSubscribed` |
| `MqttLink_settle` | one drop, one rejection, one slow handshake, one unregistration; five handles; fair | `TypeOK`, `ReplyTopicHeard`, `StaleHandleDeaf`, `ImplementsSession`, `LinkSettles`, `KnownDeviceReports` |
| `MqttLink_silent` | the same; expected violation | `RegisteredDeviceReports` |
| `MsgQueue_restarts` | `foobar` or `msgquetest` against `msgquetest`; queues of two messages, four queues, three messages per direction, two stops; fair | `TypeOK`, `SendIdLive`, `HearsOnlyOthers`, `ImplementsChannel`, `KeptUntilRead`, `WaitingIsRead` |
| `SerialPort_pieces` | messages of 2, 3 and 1 bytes to a driver that holds 2, one signal; four bytes from the boat, zeros and marks among them; with and without a port; fair | `TypeOK`, `BoatGetsMessages`, `BufferHoldsLastText`, `MessagesPass` |
| `Hash_bindings` | three keys, two values, three slots, four entries; case ignored or not | `TypeOK`, `CountsEntries`, `ImplementsBindings` |
| `Config_reload` | the default section and another, two names of one key, comments of one and two lines, two first files; five calls | `TypeOK`, `SettingsSurvive`, `LinesSurvive`, `FilesSettle`, `NamesUnique` |
| `Equipment_control` | two sub-devices, fourteen messages; three of them, or two and a report by main, or one, a report by main and one by the timer | `TypeOK`, `RepliesTell`, `QueryReportIsSnapshot`, `CommandReportIsFresh`, `PlaceIsOwn`, `ControlHitsNamed`, `MessagesForwarded` |
| `Equipment_torn` | the same; expected violation | `ReportsHoldValues` |

Bounds. In `Registration` and `Equipment` each event of the environment (a loss, a
crash, a command, a message, ...) may happen `budget[e]` times, where `budget` is
one of `Budgets`. One of each suffices for the hazards, which are races between
one event and one handler; the alternatives keep events apart that bear on different questions.
`InboxCap = 2` lets a redelivered reply or another device's reply
wait behind the device's own. Two numbers tell an old number from a new one; a
device's number and `NoId` would not do. Symmetry over devices and numbers is
used for safety only. In `MqttLink` a drop, a rejection and a slow handshake cost
main one handle each, and a slow one may cost another when it takes the session
over; with the first that makes five, so the bound never stops main. In
`MsgQueue`, three messages over a queue of two fill it, and four queues allow both
keys to be made again. In `SerialPort`, one message is longer than the driver's queue, one
as long and one shorter, and two reads of two bytes give every cut of the boat's
text. In `Hash`, four entries over two used
slots give chains with two entries for one key and a collision. In
`Config`, one of the first files has comments and empty lines, several in a row
among them, in every place and a key set twice under two spellings, so that five calls (open, change three times,
save) reach every combination of a comment, a section and a key that is
there, new or deleted; the round trips are operators and cost no call. In
`Equipment`, a report can be overtaken by one control while it copies a value and
by another before it ends; a number that begins both sub-devices' and one that
begins none are sent too. `ControlHitsNamed` is for descriptions in which no
number begins another, like the one in the repository: with `X10` before `X1`,
a control of `X1` would set `X10`.

Deadlock is not checked: in every instance the environment's budget runs out,
and a system nobody disturbs may stop (main polls, which changes nothing).

### Fairness

`FairSpec` of `Registration` assumes that both threads run, that the broker
accepts connections and that the server answers registered requests. No command,
query, crash or loss is owed. `FleetSettles` needs one more assumption,
`SlowReply`: a reply does not overtake the statement after the send, nor the
subscription in `onConnect`. A round trip over the network takes
milliseconds and the next statement nanoseconds, so this is how the code works
in practice; but nothing in it enforces the order, and with `SlowReply = FALSE` TLC finds
the device waiting forever for a reply that has already come (it registers
again only on reconnection). With it, the device ends connected, with its topics, the
number on disk and nothing awaited. All safety runs use `SlowReply = FALSE`.

`MqttLink` assumes that main runs, the timer fires once it is set, callbacks run and those
that have begun end (`Handler`), lost sessions are noticed (keepalive) and handshakes end; replies need not come.
`MsgQueue` assumes that the reader threads run; nobody need start, send or stop.
`SerialPort` assumes that the callback thread runs and that the driver sends what
it holds; the boat and the timer owe nothing. `Equipment` assumes that
the callback thread runs. All of this is weak fairness of steps that stay
enabled until they are taken: the scheduler of the system and the event loops of
the library give it.

### Findings

- `Registration_late_reply`: a reply to a registration sent before the
  session broke is still being handled when main reconnects. The handler frees
  the number (`foobar.c:222`) while main formats its topic (`foobar.c:835`);
  main subscribes to whatever the heap holds. The device is connected, has a
  number and does not hear the commands sent to it, against `foobar.c:832`,
  "subsribe the topic for registered device". Every other property about topics
  therefore exempts states in which that race has happened (`raced`), so that
  they say something about the rest of the code.
- `MqttLink_silent`: the timer is started in one place, after a connection, for a
  device that has a number then (`foobar.c:838`). A device that gets its first number
  from a reply (`foobar.c:201-241`) never reports unless its connection breaks
  later, against `foobar.c:669`, "timer for uploading the inforamtion".
  `KnownDeviceReports` is what does hold.
- `Equipment_torn`: a control replaces a value (`deviceboat.c:68-70`) while
  main copies it into the report that the operator asked for
  (`deviceboat.c:529`); the report shows what the freed memory holds, or the new
  text cut to the old length.

More behaviours disagree with a comment, or look unintended, and have no run of
their own:

- a control for a number that no sub-device has changes nothing (`deviceboat.c:74`), and
  its reply says `ret` 0 like any other, since nobody looks at the result
  (`foobar.c:377`), although the program itself takes `ret` 0 for "Sucessful to Unregister!"
  (`foobar.c:250-252`). `RepliesTell` is what does hold: the reply repeats the value, and a
  sub-device with that number, if there is one, has it;
- a deleted value is saved as a line without one (`config.c:757`) and comes back as the empty
  text, against `config.c:1143-1144`, "the default value is always returned".
  `SettingsSurvive` makes this its one exception;
- a handle with only a comment is saved as a file that ends the program when it is opened:
  `cfg_read` adds the section it did not find (`config.c:709`).
  `SettingsSurvive` says that this happens to a handle without settings only;
- `config_get_value_int` returns the default for every text, because `strtol`
  always sets the pointer that `config.c:58` takes for an error; `foobar.c` reads
  texts only;
- of several blank lines after a comment one is lost with each save, because `split`
  drops an empty piece at its end (`cfg_util.c:82-114`): a file loaded and saved again
  need not be the same, and `FilesSettle` says only that it does not grow from its second save
  on, while `LinesSurvive` says that no other line is lost or moved;
- the one-line comment of the first section becomes the comment of the file
  (`config.c:696`);
- a device that unregisters while it reconnects may stay subscribed to the topic of the number
  it has given up, when the reply is handled between main's test and its
  subscription (`foobar.c:833-837`, `GivenUp` in `MqttLink`);
- a key inserted twice and removed once has its older value again (`hash.c:145`,
  `dictionary.h:52`); `Bindings` states it, and no caller inserts twice;
- `serials_dataproc` never moves `npos` (`foobar.c:633-662`), so texts from the
  boat are never joined and no package is ever found;
- a message whose queue is full is dropped without notice (`msgque.c:60`), and a
  write that the timer interrupts leaves a message cut (`serialscomm.c:207`).

## 4. Proofs

All are for every value of the constants under the assumptions the modules name.

| Module | Theorem | States |
|---|---|---|
| `RegistrationProofs` | `TypeCorrect`, `DiskFollowsMemory`, `RepliesAccounted` | `TypeOK`, `DiskMirrorsMemory`, `OneReplyPerRequest` always hold |
| | `OwnTopicIsSubscribed`, `TopicsFollowIdentity`, `QueriesAnswered` | `OwnTopicSubscribed`, `TopicsNameIdentity`, `QueriesAnsweredAsAsked` always hold |
| | `RegistrationImplementsEnrolment`, `RegistrationImplementsSession` | the two refinements |
| `MqttLinkProofs` | `LinkTypeCorrect`, `RepliesAreHeard`, `OldHandlesDeaf` | `TypeOK`, `ReplyTopicHeard`, `StaleHandleDeaf` always hold |
| | `LinkImplementsSession` | the refinement |
| `MsgQueueProofs` | `QueuesTypeCorrect`, `SendIdStaysLive`, `NobodyHearsItself` | `TypeOK`, `SendIdLive`, `HearsOnlyOthers` always hold |
| | `WaitingMessagesKept`, `QueuesImplementChannel` | `KeptUntilRead`, the refinement |
| `ChannelProofs` | `ChannelKeepsOrder`, `ChannelReceivesOnce` | any channel delivers in order and each message at most once, in a row or later; with the refinement, so do the queues |
| `EquipmentProofs` | `EquipmentTypeCorrect`, `RepliesTold`, `QueriesAreSnapshots` | `TypeOK`, `RepliesTell`, `QueryReportIsSnapshot` always hold |
| | `CommandsAreFresh`, `PlacesAreOwn`, `ControlsHitNamed` | `CommandReportIsFresh`, `PlaceIsOwn` always hold; `ControlHitsNamed` |
| `SerialPortProofs` | `PortTypeCorrect`, `MessagesArrive`, `TextsNeverJoined` | `TypeOK`, `BoatGetsMessages`, `BufferHoldsLastText` always hold |
| `HashProofs` | `HashTypeCorrect`, `EveryEntryCounted` | `TypeOK`, `CountsEntries` always hold |
| | `TableImplementsBindings`, `LookupIsNewest` | the refinement; a lookup returns the top of its key's stack |
| `ConfigProofs` | `ConfigTypeCorrect`, `NamesStayUnique` | `TypeOK`, `NamesUnique` always hold |
| | `SettingsOutliveFile`, `LinesOutliveFile` | `SettingsSurvive`, `LinesSurvive` always hold: writing and reading back is the identity on what lookups return, with any default and but for deleted values, which become the empty text, and on lines that are not blank |
| | `FilesSettled` | `FilesSettle` always holds: from the second save on a file does not grow |

**Registration**, from `NamesDistinct` (the special values are not numbers) and
`BoundsAssumption` (budgets are natural numbers). None of the properties is
inductive. The invariant `IInv` adds, for each device,

- `HandlerAt`: what the callback thread has set when it is at a given statement
  (past `reg.copy` the number in memory is the one in the message; from
  `unreg.null` on there is none; outside the window between `free` and the next
  assignment the pointer is never dangling);
- `BootAt`: before `Read_cfg` nothing is in memory and no handler runs;
- `DiskAt`: the file equals memory when no handler is at work;
- `BalanceAt`: replies acted upon, plus the request pending now, do not
  exceed requests made. A handler about to reset `inWhatStatus` counts as having
  used its request up, which is what makes `inWhatStatus = 0` at its end harmless
  for this property.

Each part speaks of one device only, and each action changes one device only
(messages apart), so `Inductive` is proved from lemmas about main, the callback
thread and the environment, each of which says what an action does to its own
device (`MainHere`, `CallbackHere`) and that it leaves the others alone
(`MainLocal`, `CallbackLocal`, `AllSame`). The refinements use
the same split; for `Enrolment`, a handler maps to the abstract step when it
accepts the reply, and the rest of it
to stuttering until `Truncate` and `Write`.

**MqttLink**, from `LinkAssumption`. `LinkInv` adds to the invariants

- `OwnerUp`: the handle the broker serves was created and the library believes in it;
- `NoneYet`: handles not created yet are in no state, so a new one starts clean;
- `Decided`: past the connection loop the newest handle is no longer connecting. This is why
  a session cannot come up behind main's back;
- `Outdated`: an old handle that is served and has the device's own topic got it while it was the
  newest, and main is still looking for another. Without it `StaleHandleDeaf`
  is not inductive: the step that ends the connection loop would break it.

The refinement uses `Decided` to map every `Accept` of the newest handle to
`Connect`, and every takeover by an older one to `Lose`.

**MsgQueue**, from `QueueAssumption` (processes that run together are at opposite
ends). `IInv` adds to the invariants that no two keys have the same queue and
every queue was made (`Owned`), that ids to come hold nothing (`Fresh`), that the
id a reader holds is its own key's or no one's (`ReadersApart`), and that whoever
sent what waits on a key sends on that key (`SendersOf`). `ReadersApart` is what
a kernel that gave the id of a deleted queue to another key would break. Every action moves the kernel's state
in one of five ways (`KernelStep`), and `WaitingAfter` says what each does to the
messages that wait; both the refinement and `KeptUntilRead` follow from it.

**Channel** needs no assumption: `InOrder`, with the types, is inductive.

**Registration, topics.** `TInv` adds to `IInv`, for each device, what the topic
buffers hold at each statement of both threads:

- `ArgAt`: a number main has passed to `sprintf` is still the one in memory (if a
  handler has freed it since, the pointer is `Junk`);
- `TopicAt`: both topics name the number, except while the handler of a reply
  is between its assignments, or main is before its own;
- `SubscribedAt`: a session has the subscription, unless main or the handler has
  yet to make it or the handler is giving the number up;
- `QueriesAt`: no query reaches a device without a topic to answer on, and the
  one being answered was sent to the number the device has. This is where the
  session matters: a device that has no topic is subscribed to replies only.

A step keeps what it does not touch (`KeptParts`, `MainKeeps`, `CallbackKeeps`), so only the
acting device's parts are proved anew.

**Equipment**, from `EquipmentAssumption` (a description lists at least one
sub-device) and `MessagesAssumption`; `ControlsHitNamed` also assumes that no number
of the description begins a different one, which is what its property is about. The
three threads share the table and the position without a lock, so the invariant
says what each may rely on between two of its steps: `ControlAt` (what the
callback thread has established at each statement of a control), `Whole` (a value
is missing only while a control replaces it, or after the crash), `FreshAt` (a
report under way has recorded all the table has held since it began, and if the
value it measured was freed it has recorded that), `SnapshotAt` (no control is
handled while the callback thread writes a report), `PlaceAt` (a
report that shares the position with no other finds there what it stored) and
`Account` (one message at most is taken and not yet handed on).

**SerialPort**, from `PortAssumption`. `Progress` says that the driver has nothing of later
messages, and of the one in `write` just the bytes that `write` has counted: without it the next
byte could leave a gap. `Writing` says that `write` has bytes to hand on. That no
package is found follows from `npos = 0`, by which the loop of `serials_dataproc`
has nothing to search.

**Hash**, from `HashAssumption`. The invariant is small (`TypeOK`, the places are
finitely many, the count is theirs); the work is in the refinement. `NthIsThere`
shows that the members of a finite set of numbers are told by their ranks, and from it
come what pushing an entry does to the stack of its key (the new value on
top), to those of other keys (nothing, in the same slot or not), and what unlinking the first
hit does (the top goes).

**Config**, from `ConfigAssumption`. The invariant: the open handle's sections have
distinct names, each one's keys have, and the default section comes first (`Handle`);
the file is any sequence of lines. Reading keeps this whatever the lines say, and
every call does. The round trip needs no induction over the reader's
definition: `FoldExists` gives a fold its sequence of intermediate results (built up
one line at a time), so `ReadConcat` and
`ReadFlatten` let a file be read piece by piece, as it was written. `Reading` and
`Loaded` say what has been read when the first pieces have: exactly the settings
(`Said`) of the keys and sections written in them, whichever of
the merging paths they took, and under distinct names. Two lists of sections that say the same and
have distinct names answer every lookup alike, a deleted value apart (`SameAnswers`; for
this every key that has been read must have a value, `Valued`); a section whose file
has comments only has nothing to say (`HoldsNothing`).

`LinesSurvive` follows the same pieces. `Out` is what the reader's state would be written as, in
order: the head comment, the sections put aside, the open one, the comment not yet
given to anything. `Carries` says that reading some lines appends just those of them that are not
blank. It holds of comment lines, of a header and of a key whose names are new
(`BeginCarries`, `SettingCarries`: the comment above moves into the section, the
key or the head of the file, and stays where it was among the lines), hence of a key with its comment,
a section, a file. It needs `Tidy`: before the first section nothing has been put aside, the
default section opens first if at all, and the open section's name is new. At the end of the
file `Closed` says that no comment is left over.

`FilesSettle` counts the same pieces, blank lines included. `Size` is the number of lines the
reader's state would be written as, and `Fits` says that, once a section is open, reading n lines adds
at most n to it: `split` and the writer put back at most the blank lines that were read. It
fails before the first section, where the reader moves comment lines to the head of the file and the
writer then ends the head with a blank line that was not there. After one load and save
nothing is left to move (`Rooted`): the first section of a handle that has been read has one line of
comment above it at most, and none when the file has no head comment; a default section begins
with a key that has no comment. So the bound starts at the first section or key (`Starts`)
and `FitsFrom` carries it to the end of the file; `Carries` is `Keeps`, about the lines, and `Fits`.

Every invariant, action property and refinement of the passing runs is a theorem. Only
model-checked is liveness (`FleetSettles`, `LinkSettles`, `KnownDeviceReports`,
`WaitingIsRead`, `MessagesPass`, `MessagesForwarded`), which is out of the prover's reach.

## 5. Plan

`Bindings`: what a stack per class
implies for any two keys, so that it may be cited where the dictionary is used.

## 6. Not modelled

- Failures of system calls that the code meets by giving up or going on: `msgget`'s -1
  (`msgque.c:39-42`), a signal in `msgrcv`, a message type that `msgsnd` refuses, errors
  of `write`; and `config_load` of a file that is not there, which leaves the handle as it is.
- The Paho library, the broker, the kernel's queues and the serial driver are
  external: the modules have what the code in `src/` can observe of them.
- The SIGALRM handler may interrupt a thread that holds a lock of libc or Paho. Those
  locks are not in the repository; what the handler does to the program's own
  state is modelled.
- Time: the timer's 3000 s start again with each reconnection, so connections that
  break more often than that would put off all reports. A fair timer hides this.
- `msgrcv` is given a buffer whose `mtype` is an `int` and the size of the whole
  structure: it writes past the end, over what depends on the stack's layout. The
  first read of a closed input overwrites the byte before `get_command`'s buffer.
- Two devices that wait for a reply at the same time take the same one and may
  end with one number; nothing in the repository says that numbers differ.
- Memory that is never freed (handles, generated JSON) is not counted.
- The parsers of `xprotocol.c` and the generators of `deviceboat.c` are
  conversions without state; a message stands for what they extract. The getters of
  `config.c` for integers, floats and booleans are conversions too, with no caller.
- `dictionary.c` forwards each call to `hash.c`. `Read_mqtt_Cfg` reads the
  parameters of the connection once, before anything else runs.
- `findbuf`, `close_com` and `deinit_mqtt` have no caller that can be reached.
- `cstl`, `test.c`, `test2.c` and the `~` backup files are not part of the program.
