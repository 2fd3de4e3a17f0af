# serial_library in TLA+

A TLA+ model of `serial_library`, a C++ library that parses and assembles
messages ("frames") for byte-oriented links and hides the link behind a
`SerialTransceiver`. Each module is written from the source file named in its
row of `PROJECT.json`; line numbers below refer to the repository.

- [The system](#the-system)
- [Modules, and how they correspond to the code](#modules-and-how-they-correspond-to-the-code)
- [Runs and bounds](#runs-and-bounds)
- [Fairness](#fairness)
- [Proofs](#proofs)
- [Findings, and observations without a run](#findings)
- [What is not modelled](#what-is-not-modelled)
- [Plan](#plan)

## The system

| part | state | operations | talks to |
|---|---|---|---|
| frames, byte helpers (`util.cpp`, `serial_library_base.hpp`) | none | `memstr`, `findit`, `extractFieldFromBuffer`, `insertFieldToBuffer`, `deleteFieldAndShiftBuffer`, conversions | called by the processor |
| `SerialProcessor`, receiving (`SerialProcessor.cpp:122-317`) | `msgBuffer`, its cursor, three counters, `lastMsgRecvTime`, the value map | `update()` | `recv()` of the transceiver, checksum and message callbacks |
| `SerialProcessor`, sending (`:377-460`) | `sendTransmissionBuffer`, `sendChecksumlessBuffer` | `send()` | the value map, `send()` of the transceiver |
| `SerialProcessor`, shared state | two `ProtectedResource`s: the value map and the transceiver, each behind a mutex | `setField`, `getField`, `hasDataForField`, `setTransceiver`, `resetTransceiver`, `hasTransceiver` | any thread, and the message callback |
| transceivers: serial port, UDP, dual UDP, socket pair, ROS, Windows, intra-process | a descriptor or handle; ROS: a bounded queue; intra-process: a vector in each direction | `init`, `send`, `recv`, `deinit` | the operating system, ROS, the partner |
| `TransceiverBridge` tool | `isRunning`, two transceivers, a buffer in each of two threads | `main`, `spin`, `handleSignal` | two transceivers, SIGINT |
| `SerlibRosNode` | a processor, parameters that name a transceiver | `update` from a timer, `setProcessor` | the processor; makes its transceiver |
| conversions (`serial_library.hpp:302-346`, `util.cpp`) | none | `convertToCString`, `convertFromCString`, `switchDataEndianness` | `setFieldValue`, `getFieldValue`, ids and checksums |
| Arduino library | containers with fixed bounds, a mutex | stand-ins for the C++ standard library | the base header, on microcontrollers |

What makes the system hard:

- **Chunks.** `recv()` returns a part of a message, several messages, or noise
  and a message. `update()` finds messages by their sync value, and reads the
  frame id *relative to the sync* with the layout of the default frame.
- **One buffer for ever.** Removal moves bytes inside `msgBuffer`; nothing ever
  clears it, so stale bytes lie behind the cursor, and the checks of what is
  below the cursor are all there is between them and the callback.
- **Callbacks.** `newMessageCallback` runs in the middle of `update()`; it may
  throw, and it may call operations of the same processor.
- **Threads.** A resource is moved out of its `ProtectedResource` by
  `lockResource` and back by `unlockResource`; an exception between the two
  leaves the mutex locked. `update()` holds the transceiver during `recv()`.
- **Failing system calls.** `init()` is several of them; what a failure leaves
  open, and which numbers a closed transceiver keeps, shows only calls later.
- **Owners.** A node's `update()` asks for a transceiver, makes one and sets it in
  three separate calls, while other threads set and reset it.
- **Shutdown.** The bridge's threads notice an interrupt only between two calls
  of `recv()`.

The properties that make each part correct, by the names the modules give them:

| part | properties |
|---|---|
| receiving | what the callback gets is, in order and once, a message that stands whole in what was received (`ImplementsFrameStream`, `DeliveredWereReceived`); no message is lost (`EveryMessageHandled`), also when the callback throws (`RedeliveredUntilHandled`); the buffer below its cursor is the unparsed end of the stream (`BufferHoldsLatestBytes`, `RemovalKeepsTheRest`) and a message that passes the checks is whole (`PassedAreWhole`); the map holds the latest data (`FieldsHoldLatest`); `update()` returns (`ScanShrinks`, `UpdateReturns`); the statistics are at most ten of ten (`FailureStatsSound`) |
| threads | the mutexes are held inside the critical sections and nowhere else (`LocksMatchSections`), none stays behind (`NoLockLeftBehind`); transceivers are used between `init` and `deinit` and none is dropped (`TransceiverUsedWhileOpen`); a field without data is seen only while its message is stored (`EmptyOnlyWhileStoring`); a sent field is one the map held during the call (`SentFieldsWereHeld`); calls end (`EveryCallEnds`, `SendReturns`) |
| sending and receiving together | two linked processors are a queue of messages (`LinkImplementsQueue`) and every message arrives (`SentAreHandled`) |
| transceivers' life cycle | each uses the file it opened (`UsesOwnFiles`), closes no other's (`OnlyPairsRob`), and only failures leak (`LeaksBoundedByFailures`) |
| node | a transceiver is open if and only if it is the processor's (`OpenIffInstalled`), and in the end there is one (`NodeConnects`) |
| byte helpers and conversions | the loops compute the operators that the other modules use (`SearchesAreExact`, `DeletesOnlyTheField`, `FieldsAreExact`, `FramesAreBuilt`), a value arrives as it was set (`ValuesArrive`), loops end (`CallsEnd`) |
| bridge | order (`ForwardedInOrder`), from a stream only what a `send()` did not send is lost (`LostOnlyUnsent`), use between `init` and `deinit` (`UsedWhileOpen`), termination (`StopsAfterInterrupt`) |

## Modules, and how they correspond to the code

```
SerialFrames ── MessageBuffer ── MessageProperties ── MCParserAny, MCParserMessages,
    │               │                  │    │         MCParserFindings
    │               │                  │    └ FrameStream (abstract, INSTANCE)
    │               │                  └ MessageBufferProofs ── ContentProofs
    ├ MessageAssembly ── SerialLink ── LinkProperties ── MCLink
    │                   (+ MessageBuffer)   └ MessageQueue (abstract, INSTANCE)
    └ UtilLoops ── UtilProperties ── MCUtil
                                  └ UtilProofs
ProcessorThreads ── ThreadProperties ── MCThreads
                                     └ ThreadProofs ── FieldProofs
Descriptors ── TransceiverLifecycle ── SerlibNode ── LifecycleProperties ── MCLifecycle
                                                                         └ LifecycleProofs
Transceivers ── TransceiverBridge ── BridgeProperties ── MCBridge
                                                      └ BridgeProofs
SequenceLemmas: used by MessageBufferProofs, ContentProofs, BridgeProofs and UtilProofs
```

**SerialFrames.** A frame is a sequence of field ids, one per byte. A C buffer
is a function from 0-based addresses. The helpers of `util.cpp` are operators
under their own names, and `CtorAccepts` is what `ctorFunc` (`:467-536`) checks.

**MessageBuffer.** `update()`. One step is the receiving part of a call or one
iteration of its `do`-`while` loop; an iteration is one of `NoSync` (`:163`),
`Incomplete` (`:190`, `:217`), `Deliver`, `CallbackThrows` (`:285`) and `Reject`
(`:293`). A *cell* of the buffer is a byte together with the position of the
stream it was received at (0 for none); the positions are history, and let
properties tell a received byte from a stale one with the same value. Memory
that the code addresses outside of the buffer - in front of it when the sync
value is found too early, behind it when a removal reaches past the end - may
hold any byte of `StaleValues`: an iteration is a step *for some memory*
`mem \in Memories`. The source of the bytes is a variable that is chosen once,
so a run covers every source of a set in every chunking its `cuts` allow. The
time of a call is the number of bytes received so far.

**FrameStream** is what a processor promises: only the place reached in the
source and the messages handled. `MessageProperties` maps `taken` to the bytes
received less those in the buffer, and `delivered` to the calls of the callback
that returned.

**ProcessorThreads.** One step is what a thread does between two operations on a
mutex. Fields of a message are inserted into the map one critical section each
(`:249-259`) and filled in another (`:261-282`); `send()` locks the map once per
field (`:391-427`). A thread keeps in `job` the transceiver it has taken out of
the resource. In the callback (`pc = "callback"`) the updating thread may begin
any operation but `update()`, and goes back to the callback when it returns, or
out of `update()` when it throws. The built-in fields, which `send()` fills
without the map, are not in the frames of this module.

**MessageAssembly, SerialLink.** `send()` puts a message together in a buffer
that serves all messages; `SerialLink` composes it with the `MessageBuffer` of
another processor over a channel without loss. The receiver's `source` grows
with what is sent. A call of `send()` is one step here. Timestamps of
`setField()` are left out.

**MessageQueue** is the promise of the link: messages are handled once, in the
order sent, with the data `MessageToSend` computes from the sender's map without
any buffer: short data filled up with zeros, long data cut.

**Transceivers, TransceiverBridge.** What waits at a transceiver is a sequence of
packets. `Recv` gives the possible outcomes of a `recv()`; it has none while the
call waits for the device. A `read()` that fails is an action of its own
(`ReceiveFails`), as a waiting thread may not count on it. `Send` gives what may
get across: any first part of the data for a serial port and a socket pair, whose
`write()` may be short or fail; all or nothing for a datagram. The rest is gone, as
no `send()` looks at how much was taken (`LinuxSerialTransceiver.cpp:99-104`);
`unsent` is the history of it. The bridge has `main()` and two threads; bytes are
numbered by the device that sends them, so order and loss can be seen. A failed
`init()`, and arguments that name no transceiver, end the program. `isRunning`
is a plain `bool` that a signal handler writes and two threads read; as every
turn of `spin()` makes calls the compiler cannot see through, the build reads it
every time, and that is what the model does.

**UtilLoops.** The loops of `util.cpp` and of the conversions, an iteration a
step, with the counters and iterators of the code. The modules above use these
functions for what they compute; `UtilProperties` states that the loops compute
just that. A call of `setFieldValue` goes on through the loops a value meets on
its way to a `getFieldValue` on the other side.

**Descriptors** is what the kernel does: a table of open files in which the lowest
free number is taken next, so a number that is kept after `close()` may soon be
another file's. **TransceiverLifecycle** is `init`, `deinit`, `postForkInit` and
`fork` on such tables. What an `init` does when a system call fails is a sequence
of *steps*, one per call in the order of the code: the failure (fatal, nonfatal,
`false`) and whether the file is closed first. A program calls `init` again after
a failure, and `deinit` after an `init` that returned true, as `SerialProcessor`
does, or at any time where the code has an `initialized` to look at. `failures`
counts the files that failed calls may have left open, and `robbed` the numbers
that an object closed under another owner; both are history.

**SerlibNode** extends it by a node and a processor. `update()` of the node is
cut where it lets other threads in: the first check for a transceiver, the making
of one, the second check, and `setTransceiver`. Operations of the processor are
one step each, as they hold its mutex (that they may be is what `ProcessorThreads`
and its proof are about). An exception of the constructor drops the transceiver
as it is; a fatal error in another thread leaves the mutex locked, and one in the
node ends the program. A program has either a node or transceivers of its own.

A definition `X_Mutant` is a plausible mistake in `X`, placed right before it;
`PROJECT.json` lists which property notices which mistake.

## Runs and bounds

Every passing run ends with all states explored; "states" are distinct states.

| run | states | what it shows |
|---|---|---|
| `parser_any` | 59,524 | any bytes, in any chunks, into a buffer that held any bytes and that they overflow: cursor and statistics stay in bounds, `update()` returns |
| `parser_messages` | 157,615 | good, corrupted and unknown messages and noise, and a callback that may throw: exactly the good messages are handled, in order; none is lost |
| `threads` | 348,114 | one thread in each role, a callback that calls its own processor, fatal errors |
| `link` | 137,573 | two linked processors are a lossless queue of messages |
| `bridge` | 296,166 | every pair of four kinds of transceivers, reads and writes that are short or fail, SIGINT at any time |
| `lifecycle` | 389,105 | transceivers of every kind whose system calls fail, beside other files; a node that reconnects |
| `util` | 415,063 | every short input of the loops on bytes |
| `finding_*` | | see [Findings](#findings) |

`parser_any`: a buffer of 5 bytes, frames of 3 and 4, three byte values of which
one is the sync value, one an id and one neither; all 81 streams of 4 bytes, and
9 streams of 12 bytes that repeat one or two values. So the buffer fills, drops
bytes, wedges, is removed from with the cursor above and below the middle, and a
sync value lies too early, too late or at the end. The counters reach ten and are
reset. Its weakness is on purpose: in such a buffer the code does misread
messages (findings), so no property about their contents is checked here.

`parser_messages`: two frames told apart by id, a sync value of two bytes behind
the frame id, a checksum whose bytes lie apart in one frame, and a field whose
bytes do; the id of one frame is a byte of the sync value, and data may hold all of
it. A source is a stream of up to two messages that is cut anywhere, or up to three
datagrams, of which any may be corrupted, unknown or noise: that is every sequence
of two failures before a message, and of a failure between two messages.
The buffer has 50 bytes: as long as it is never more than half full, `memmove()`
moves enough (finding `short_memmove`), and the shipped size of 4096 bytes is as
far from overflowing with frames of such length. `recv()` returns whole datagrams;
with noise in arbitrary chunks, finding `premature_delivery` would apply. The
`ASSUME TheoremsApply` of `MCParserMessages` says that this instance is one that the
theorems of `ContentProofs` speak of.

`threads`: one updating, one sending, one field-accessing and one managing
thread, two transceivers, two frames that share a field, five calls or messages
in all, and one datum: that what is sent may be old or new data is seen in the
proof, which is about any data, and not in the run. Five calls let a message be stored while a `send()` of the longer frame runs and
both are overtaken by a `setField()` and a change of the transceiver. The callback
sends (also beside the sending thread, which spoils the shared buffer: the property
about it speaks of a `send()` without another beside it), sets, reads and replaces
the transceiver. A fatal error leaves a mutex locked (finding), so the system may
stop and deadlock is not checked; `EveryCallEnds` still demands that nothing else
stops it.

`link`: two frames of 6 and 8 bytes with a sync value of two bytes, a checksum
whose bytes lie apart, and a field of one byte in one frame and two in the other;
data of one and of two bytes; two messages sent. Two messages are what it takes
for the first to leave something in the buffer for the second. The buffer is
larger than twice their lengths, for the reason given above.

`bridge`: three bytes from each device in packets of one to three, a buffer of two
and a queue bound of one, so packets are cut, queues overflow, and a stream is
read and written in parts. A thread may wait for a silent serial device for ever, so deadlock
is not checked; `StopsAfterInterrupt` says where waiting is not allowed.

`lifecycle`: tables of four descriptors, of which a socket pair, or two
transceivers, leave two to others; four calls of `init()` (or, with a node, of the
other threads), so that a transceiver fails, is tried again, is closed, and tried
again; one file of others at a time, which is what it takes for a number to change
hands; programs that end (`exit`, a crash, no calls left) stop, so deadlock is not
checked. The programs: a serial port beside a UDP socket, a dual UDP
transceiver, a Windows port, a socket pair with its child and a UDP socket, and
nodes of all three kinds of parameter with two UDP transceivers in other threads.

`util`: bytes of four values, types of up to three bytes, all their values, frames
of up to four bytes, haystacks of five and needles of three, buffers of two to six
bytes. `MAX_DATA_BYTES` is 4, so a field can have that many places, which makes the
assignment throw. A call ends, so deadlock is not checked.

## Fairness

- `MessageBuffer!FairSpec`: `update()` is called again and again ("in order for
  the processor to work, it must be spun", README.md:162), so bytes that wait are
  received (`WF_vars(Receive)`), and a call that began goes on (`LoopRuns`).
  In the loop some iteration is always possible, so `LoopRuns` is
  `WF_vars(Iterate)`, in a form TLC checks faster.
- `ProcessorThreads!FairSpec`: weak fairness of each thread's steps - the
  scheduler. A thread that waits for a mutex is not owed it (`std::mutex` is not
  fair); calls are bounded, so the others run out of calls in the end. Callbacks
  end.
- `SerialLink!FairLinkSpec`: the receiver is spun; the sender owes nothing.
- `TransceiverBridge!FairSpec`: the three threads run; there is no fairness of the
  devices, of SIGINT or of a `read()` that fails.
- `SerlibNode!FairSpec`: a timer calls `update()` for as long as the program runs;
  nothing is assumed of the other threads, whose calls are bounded.
- `UtilLoops!Spec`: a loop runs on.

## Proofs

TLAPS checks the theorems in the modules named `...Proofs`. Each speaks of every
instance of its module that satisfies the module's assumptions, so of any number
of threads, bytes, frames or descriptors. `PROJECT.json` lists them; this section
says what they rest on. An invariant is proved by way of a stronger one that is
inductive, named `...Inv`.

### The receive path: MessageBufferProofs

Any buffer size, frame map, sync value, source and checksum function under
`SizesAssumption` (a frame fits the buffer, a `recv()` returns at most a buffer's
worth, the counters are wider than a frame is long), `FramesAssumption` (what the
constructor checks, and that a field fits `SerialData`) and `SourceAssumption`.

- `TypeCorrect`: `Spec => []TypeOK`. The content is the cursor and the buffer: no
  removal makes the cursor negative or the buffer hold anything but bytes. It
  needs that `msgEnd` of a delivered message is positive (`DeliveredEnd`), which
  needs that the sync value found lies at or behind its place in the frame
  (`MessagePasses`) and that `findit` and `memstr` return first occurrences
  (`FinditFirst`, `MemstrFirst`); and that every address that is read is one of
  `Addresses \cup Outside`. `TypeOK` is inductive as it stands.
- `LoopShrinks`: `Spec => ScanShrinks`. An iteration that does not end the loop
  removes at least one byte (`RemovalShrinks`), because a rejected candidate is
  removed *through* its first sync byte; so `update()` terminates, with at most as
  many iterations as bytes are in the buffer. That every call then returns is
  liveness, and model-checked.
- `StatsCorrect`: `Spec => []FailureStatsSound`. The property is not inductive:
  that the total stays below 9 plus a frame's length needs the reason why an
  incomplete message is not counted for ever. `update()` counts it once per
  call, and every call brings a byte, so the total is at most 9 between messages and
  grows no faster than the buffer does; the strengthening `StatsInv` ties the
  total to the cursor.

### The receive path: ContentProofs

What the buffer, the map and the messages hold. `FieldsCorrect`
(`[]FieldsHoldLatest`) needs nothing but that the calls of the callback are a
sequence. The other theorems have hypotheses, because without them the code does
otherwise, as the findings show:

| hypothesis | says | fails | holds |
|---|---|---|---|
| `[]HalfFree` | half of the buffer is free whenever a message is removed | in `finding_short_memmove` | if no source is longer than half the buffer (`SmallSourcesFit`), so in `parser_messages` |
| `[]PassedAreWhole` | a message that passes the checks is below the cursor from its first byte to its last | in `finding_premature_delivery` | in `parser_messages`, which checks it; for clean sources it is proved (`CleanPassesWhole`) |
| `UniformFrames` | all frames have the sync field, and the frame field, at the places of the default frame | if the program's frames do not agree; `ctorFunc` does not look | in `parser_messages` (`TheoremsApply`) |
| `CleanSources` | a source without noise is message after message of known frames, with no sync value in front of the sync field | with a lossy link, which is what `noise` is for | in `parser_messages` (`TheoremsApply`) |

- `BufferCorrect`, `RemovalsCorrect`: `[]BufferHoldsLatestBytes` and
  `RemovalKeepsTheRest`. `BufferInv` adds to the positions that the bytes are the
  source's.
- `DeliveriesCorrect`: `[]DeliveredWereReceived`. What the callback gets is what
  the source has at these positions (`MessageAtIs`, `MessageHeld`), as the cells
  below the cursor are received ones (`CellsReceived`), and every removal goes past
  the message, so the next one lies further on.
- `RedeliveryCorrect`: `[]RedeliveredUntilHandled`. The strengthening `PendingInv`
  says that after a call that threw, the message is at the front of what is
  searched, and that the next search finds the same sync value and frame id in it,
  however many bytes come behind. An iteration in the meantime either finds the
  message incomplete, which it cannot be, or calls the callback with it.
- `StreamImplemented`: `ImplementsFrameStream`, the refinement of `FrameStream`. The
  argument is that what an iteration decides by looking into the buffer is what
  the source says at the place reached: the sync value found is the source's first
  one (`SyncFoundAt`, `SyncIsFound`), and a message passes exactly when the source
  has one there (`PassedIsMessage`, `MessageScanned`). `Recv`, `NoSync`, `Incomplete`
  and `CallbackThrows` then are steps that leave the abstract state alone, `Deliver`
  is `Stream!Deliver` and `Reject` is `Stream!Skip`. In a clean source the place
  reached is always the front of a message (`AtBoundary`), so nothing is skipped
  and every message is whole when it passes.

### Threads: ThreadProofs, FieldProofs

Any sets of threads (one updating, `RolesAssumption`), frames, data, transceivers
and number of calls. `DataAssumption` says that the mark for "no data yet" is not
data, and that a frame is a sequence of fields.

- `LocksCorrect`: `Spec => []LocksMatchSections`. Inductive with the types of `pc`,
  `after` and `holder` (`LocksInv`). A step does one of four things to the mutexes -
  it enters a section, leaves one, moves between places outside of sections, or
  meets a fatal error - and each is a lemma (`Enters`, `Leaves`, `Moves`, `Fails`);
  the proof has a step per action that says which. So two threads are never in
  sections of the same resource, and the callback is entered without a mutex.
- `TransceiverCorrect`: `Spec => []TransceiverUsedWhileOpen`. Not inductive: it needs
  that what a thread took out of the resource is still the installed transceiver
  (`WireInv`), which holds because no other thread is in a section of that resource
  (`LocksInv`), and that what is to be installed is still new.
- `ThreadsTypeCorrect`: `Spec => []TypeOK`; `JobsInv` and `DataInv` say what a thread
  at each place knows of its message or its fields.
- `EmptyFieldsCorrect`: `Spec => []EmptyOnlyWhileStoring`. A field is put in the map
  without data in one critical section and filled in a later one. `JobsInv` is
  needed because the updating thread is the only one that does so: a field is
  without data only if it is one of the message that this thread has in hand, and
  between the two sections nobody takes it out.
- `SentFieldsCorrect`: `Spec => []SentFieldsWereHeld`. `send()` locks the map once per
  field, so what it sends need not have been in the map at one time. `AloneInv`
  follows a `send()` beside which no other runs: each field it is done with has, in
  the shared buffer, something that the map has held since the call began
  (`GatheredSo`), which fields stored or set in the meantime do not spoil.

### Transceivers and the node: LifecycleProofs

Any objects, programs, tables and number of calls. `LifecycleAssumption` says
that a program has at most one socket pair and one child's end of it, as one
`fork()` splits one pair, and that no object is named like the marks of a free
descriptor and of another owner's. `NodeAssumption` says that two objects of the
kind a node makes are always there: `make_unique` does not run out, and while the old
transceiver is in the slot, `_addTransceiver` may make another.

All five invariants of `lifecycle` follow from `FilesInv`:
each process is `Sound` - the slots of an object that is initialized stand for its
own files, except for descriptors that were closed under their owner; the program
is `Calm` before the fork - no descriptor has been closed under its owner,
so that only the second `close()` of a child's end ever robs (`OnlyPairsRob`,
`UsesOwnFiles`); the object in the processor's slot is the one that is
initialized (`NodeInv`, for `OpenIffInstalled`); and the open files that no object
stands for are at most as many as failed calls may have left
(`LeaksBoundedByFailures`, a count over a finite table, of which each step changes
as many entries as its system calls do). `LifecycleTypeCorrect`, `OwnFilesCorrect`,
`RobbedOnlyByPairs`, `LeaksBounded` and `OpenIsInstalled` state them.

### The bridge: BridgeProofs

Any sizes and number of bytes.

- `BridgeCorrect`: `[]UsedWhileOpen`. `BridgeInv` says for each place of `main()` which
  transceivers are open and whether threads run; that both have ended when
  `main()` goes on to `deinit` is `Joined`.
- `BridgeTypeCorrect`, `OrderCorrect`, `LossesCorrect`: `[]TypeOK`,
  `[]ForwardedInOrder`, `[]LostOnlyUnsent`. `DataInv` says that what has reached one
  device, then what is in the thread's buffer, then what waits at the other device
  is a *part* of what that device has sent (`IsPart`: there is an embedding that
  keeps the order), and, when it is a stream, all of it but the bytes in `unsent`.
  That these do not come again needs the order: a byte that is left behind by a
  `write()` is nowhere else on the way (`PlacesApart`). `DataInv` also says that the buffer
  is empty when `recv()` is called, without which bytes could change places. Each
  way of losing - a datagram cut to the buffer, a full queue, a short write -
  makes a part of a part.

### Loops on bytes: UtilProofs

Any haystacks, strings, buffers, frames, components and values that are finite and of
the types the functions are declared with (`UtilAssumption`).

- `SearchesCorrect`: `[]SearchesAreExact`. `SearchInv` says of `memstr()` that no place
  before the one it looks at has the needle (`NoneBefore`), and of `countInString()`
  that it has counted the hits among the places behind it (`Counted`).
- `DeletionCorrect`: `[]DeletesOnlyTheField`. `DeletedTo(j)` says that of the first `j`
  places of the frame those of other fields have their byte at the front, and that
  everything behind has moved up, as far as the length that is left. `find()` goes
  past places of other fields, whose byte is in place already (`DeletionPasses`,
  `DeletedToFound`), and `memmove()` takes the byte of the next place out; what it
  reads from behind the buffer lands behind the new length (`DeletionShifts`).
- `FramesCorrect`: `[]FramesAreBuilt`. The frame that `assembleSerialFrame()` has made is
  that of the components before this one, and so many places of this one
  (`AssembleInv`); `normalizeSerialFrame()` rotates by the place of the first sync
  byte, so that a sync value in one piece stays in one piece and comes first
  (`RotationNormalizes`).
- `FieldsCorrect`: `[]FieldsAreExact`. `ValueInv` follows a value through the five loops
  it meets between `setFieldValue()` and `getFieldValue()`. `PlacesTo` is the number of
  the field's places before the one a loop looks at (`Rank`), and so the number of the
  byte it is about to put or get; `InsertIs` and `ExtractIs` say where the `k`-th byte
  goes and comes from.
- `ValuesCorrect`: `[]ValuesArrive`. What `convertFromCString()` has read is the number of
  the first bytes (`NumberOf`), with the sign of the first one (`WithSign`), cut to the
  type; what a shift moves out of the type does not come back (`ShiftTruncated`), and a
  number has one sequence of digits (`DigitsDetermine`), so that the value got is the
  one set. The powers of the byte's base are a function defined by recursion (`Power`),
  since `^` means nothing to the provers.
- `UtilTypeCorrect`: `[]TypeOK`, from the same invariants, which say of each loop which
  counters it has and how far they go.

### Lemmas: SequenceLemmas

Sequences as parts of sequences; concatenations. The library's induction theorems
cannot be used here, so induction and recursion go through sets of numbers: a set
that holds 0 and with a number the next one holds all (`Induction`), and from that,
a function given by recursion exists (`RecursionExists`, and `RecursionOnNat` where it
is defined for all numbers), so that it may be unfolded. `Rank` counts a field's places,
and `RankSteps` and `RankStays` say how it grows.

### What stays with TLC

- Liveness (`UpdateReturns`, `EveryMessageHandled`, `EveryCallEnds`, `SentAreHandled`,
  `StopsAfterInterrupt`, `NodeConnects`, `CallsEnd`), which this prover does not do.
- `LinkImplementsQueue`.
- That `PassedAreWhole` holds in a source with noise. There it depends on which bytes
  a `recv()` returns together, and is false for some.

`RECURSIVE` operators appear in no module.

## Findings

Each is the counterexample of a run; the texts are in `PROJECT.json`.

| run | property | in short |
|---|---|---|
| `finding_premature_delivery` | `DeliveredWereReceived` | the length check compares the cursor with the frame's length although the message starts behind noise: a callback gets bytes that were never received (`SerialProcessor.cpp:217`) |
| `finding_short_memmove` | `RemovalKeepsTheRest` | `memmove()` moves the size of the *free* part of the buffer (`:305`) |
| `finding_noise_wedge` | `EveryMessageHandled` | a buffer full of bytes without a sync value is never emptied (`:163`) |
| `finding_fatal_init` | `NoLockLeftBehind` | a fatal exception of `init()` leaves the transceiver's mutex locked (`:91`) |
| `finding_blocking_recv` | `SendReturns` | a blocking `recv()` keeps `send()` out for as long as the device is silent (`:139`) |

Met while reading, without a run:

- `ctorFunc` accepts frames whose sync fields are at different places, but the
  place of a message is computed with the default frame (`:177-187`).
- With several frames and no `FIELD_FRAME`, every message is read as the default
  frame (`:192-199`).
- `postForkInit()` closes the child's end and keeps its number, which `deinit()`
  closes again (`LinuxSocketpairTransceiver.cpp:51`, `:190-193`): in `lifecycle` it
  takes a file of the rest of the program, or of a UDP transceiver, with it, which
  is why `UsesOwnFiles` and `OnlyPairsRob` except socket pairs.
- "child closes parent socket" (`:45`) never happens: the constructor for the child
  leaves `_parentFd` at -1 (`:27`), so the child keeps the parent's end open and
  reads no end of file when the parent is gone.
- After `deinit()`, `init()` of a child's end does not open anything: it fails, or
  goes on with whatever file has the number by now (`:106`).
- A failed `bind()`, `connect()`, `tcgetattr()` or `tcsetattr()` leaks its
  descriptor, the `close()` after the throw being unreachable
  (`LinuxUDPTransceiver.cpp:61-62`, `:107-108`, `LinuxSerialTransceiver.cpp:51`,
  `:85`), and so does every failure on Windows but that of `CreateFileA()`; a
  `LinuxDualUDPTransceiver` whose second socket fails leaves the first one open.
- `WindowsSerialTransceiver::deinit` does not reset `_initialized`.
- The constructor of a processor inits the transceiver before it checks the frames
  (`SerialProcessor.cpp:470`, `:479-535`); a frame it refuses leaks the descriptor.
- `SerialTransceiver` has no virtual destructor (`serial_library.hpp:20-30`), and a
  processor deletes transceivers by that type. `RosTransceiver::deinit` does
  nothing, so its subscription may call `rxCb` of an object that is gone
  (`RosTransceiver.cpp:19-20`, `:57`): undefined behaviour, whose outcomes cannot
  be enumerated.
- `SerlibRosNode::update` uses the processor after reporting that there is none
  (`SerlibNode.cpp:52-57`), and does not catch what `setTransceiver` throws for a
  nonfatal failure. An unknown transceiver type throws at every update.
- `setField()` of a value and `getField()` of it disagree when the processor
  switches endianness: only reading does (`SerialProcessor.cpp:343`).
- A field that is read with a type wider than its places is extended by its sign,
  whether the type is signed or not (`serial_library.hpp:318`).
- Every `memmove()` of `deleteFieldAndShiftBuffer` reads the byte behind the buffer
  (`util.cpp:131`); `send()` passes all of `sendChecksumlessBuffer`
  (`SerialProcessor.cpp:434`), so the byte is the next member's. It ends up behind
  what is used (`DeletesOnlyTheField`).
- An interrupt between `std::signal` and `isRunning = true` is lost
  (`TransceiverBridge.cpp:317-318`).
- `send()` of a serial port and of a socket pair does not look at how many bytes
  `write()` took, and a failure is only logged (`LinuxSerialTransceiver.cpp:99-104`,
  `LinuxSocketpairTransceiver.cpp:154-157`): the rest is lost.
- In the Arduino library, `it++` does not move the iterator, so `map::find` does
  not end unless the key is the first one, and `vector` is bounded by the length
  of strings; no build of this commit has it.

## What is not modelled

- The Arduino library. The base header takes it from
  `riptide_gyro/arduino_library.hpp` (`serial_library_base.hpp:110`), a file that is
  not in the repository, so nothing of this commit can be built with it.
- Options of the operating system's files; `recv()` and `send()` of
  `WindowsSerialTransceiver`, Win32 calls of the shape of the Linux serial port. In
  `ProcessorThreads` a transceiver is new, open, closed or failed, whatever it is
  made of.
- `IntraProcessChannel::setPartner`, and its two ends in two threads.
- `wStringToString` and `getWindowsMsgAsString`, which no other module's state
  depends on.
- Several sending threads: `sendTransmissionBuffer` is one buffer without a lock
  ("send() only", `serial_library.hpp:475`).
- Logging, exception texts, test fixtures, build files.
- Checksums are an uninterpreted function of the bytes. That a corrupted message
  fails its checksum is a choice of the sources in `parser_messages`; a checksum
  that collides is the user's.

## Plan

Done: the receive path with its abstract specification; threads and locks; the
send path and the link; the bridge; the life cycle of transceivers and the node;
the loops on bytes and the conversions; proofs of the safety properties of all of
these but the link. The order was that of importance: everything the library
promises rests on `update()`.

What is left to model is small: several senders and the send buffer they share,
and a channel with `setPartner`.

Next, proofs:

1. `LinkProperties`: the refinement of `MessageQueue`. `SerialLink` has the steps of
   `MessageBuffer` and a source that grows, so the lemmas of `ContentProofs` about
   one iteration apply, and what is missing is that each message of the source is
   the one `MessageToSend` gives, and parses to its fields.
2. `MessageAssembly`: what a whole message has at each place, and that a receiver gets
   each field back. `InsertIs` and `ExtractIs` of `SequenceLemmas` say so of one field.
