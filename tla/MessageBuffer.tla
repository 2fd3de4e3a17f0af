--------------------------- MODULE MessageBuffer ---------------------------
(***************************************************************************)
(* The receive path of SerialProcessor: update() appends what the          *)
(* transceiver delivers to msgBuffer and parses messages out of it.        *)
(*                                                                         *)
(* A step is the receiving part of a call of update() or one iteration of  *)
(* its do-while loop.  msgBuffer and the other state of this module is     *)
(* used by update() alone ("update() only" in the class), so the           *)
(* iterations of one call are not interleaved with other operations;       *)
(* the locks are the subject of ProcessorThreads.                          *)
(*                                                                         *)
(* A definition named ..._Mutant is a plausible mistake in the one after   *)
(* it.  No specification uses it: it is there to put in the other's place  *)
(* and see that the properties notice.                                     *)
(***************************************************************************)
EXTENDS SerialFrames

CONSTANTS
  Values,            \* the bytes that occur in the streams
  StaleValues,       \* the bytes memory may hold that nothing was received into
  BufferSize,        \* PROCESSOR_BUFFER_SIZE
  MaxFrame,          \* a bound of the frames' lengths
  MaxDataBytes,      \* MAX_DATA_BYTES
  MaxRecv,           \* the most bytes one recv() returns
  Frames,            \* frameMap: a function from frame ids to frames
  DefaultFrame,      \* defaultFrame, an id
  SyncValue,         \* syncValue, as a sequence
  Sources,           \* what the transceiver may deliver, see SourceAssumption
  ChecksumEvaluator(_, _),  \* callbacks.checksumEvaluationFunc
  CallbackMayThrow   \* may newMessageCallback throw?

USHORT == 65536      \* the counters of failed messages are unsigned shorts

NoPosition == 0      \* the position of a byte that was not received
StaleCells == [val : StaleValues, pos : {NoPosition}]

ASSUME SizesAssumption ==
  /\ BufferSize \in Nat /\ MaxFrame \in Nat /\ MaxDataBytes \in Nat
  /\ MaxRecv \in 1..BufferSize
  /\ MaxFrame \in 1..BufferSize
  /\ MaxFrame + 10 < USHORT
  /\ CallbackMayThrow \in BOOLEAN
  /\ StaleValues # {}

(* What a constructed processor knows: ctorFunc throws otherwise.  Frames   *)
(* fit the buffer, and fields a SerialData.                                *)
ASSUME FramesAssumption ==
  /\ SyncValue \in Seq(Values) /\ SyncValue # <<>>
  /\ CtorAccepts(Frames, DefaultFrame, Len(SyncValue))
  /\ \A id \in DOMAIN Frames :
       /\ Frames[id] \in Seq(Nat)
       /\ Len(Frames[id]) \in 1..MaxFrame
       /\ \A f \in FieldsOf(Frames[id]) :
            Cardinality(Positions(Frames[id], f)) < MaxDataBytes

(* A source is the bytes the other side sends and the places a recv() may  *)
(* end at: every place for a byte stream, the ends of datagrams otherwise. *)
(* It also tells where in the bytes the other side put its messages, and   *)
(* whether there may be noise: bytes that belong to no message.            *)
ASSUME SourceAssumption ==
  /\ Sources # {}
  /\ \A s \in Sources :
       /\ s.bytes \in Seq(Values)
       /\ s.cuts \subseteq 1..Len(s.bytes)
       /\ s.messages \subseteq 1..Len(s.bytes)
       /\ s.noise \in BOOLEAN

VARIABLES
  source,            \* the transceiver's source, chosen once
  received,          \* how many of its bytes recv() has returned; the time, too
  pc,                \* "scan" inside update()'s loop, "idle" outside
  msgBuffer,         \* cells: a byte, and the position it was received at
  msgBufferCursorPos,
  failedOfLastTen,
  failedOfLastTenCounter,
  totalOfLastTenCounter,
  values,            \* valueMapResource: field -> stamped data
  lastMsgRecvTime,
  delivered          \* history: the calls of newMessageCallback

counters   == <<failedOfLastTen, failedOfLastTenCounter, totalOfLastTenCounter>>
streamVars == <<source, received>>
outputs    == <<values, lastMsgRecvTime, delivered>>
vars == <<streamVars, pc, msgBuffer, msgBufferCursorPos, counters, outputs>>

Addresses == 0..(BufferSize - 1)

Init ==
  /\ source \in Sources
  /\ received = 0
  /\ pc = "idle"
  /\ msgBuffer \in [Addresses -> StaleCells]
  /\ msgBufferCursorPos = 0
  /\ failedOfLastTen = 0 /\ failedOfLastTenCounter = 0 /\ totalOfLastTenCounter = 0
  /\ values = [f \in {FIELD_SYNC} |-> [data |-> SyncValue, timestamp |-> 0]]
  /\ lastMsgRecvTime = 0
  /\ delivered = <<>>

-----------------------------------------------------------------------------
(* Receiving *)

BytesToCopy_Mutant(recvd) == recvd   \* no check against the end of the buffer

BytesToCopy(recvd) ==
  IF msgBufferCursorPos + recvd > BufferSize
  THEN BufferSize - msgBufferCursorPos
  ELSE recvd

(* recvd bytes arrive; those past the end of the buffer are lost. *)
Recv(recvd) ==
  /\ pc = "idle"
  /\ received + recvd \in source.cuts
  /\ msgBuffer' =
       [i \in Addresses |->
          IF i \in msgBufferCursorPos..(msgBufferCursorPos + BytesToCopy(recvd) - 1)
          THEN LET p == received + 1 + i - msgBufferCursorPos
               IN  [val |-> source.bytes[p], pos |-> p]
          ELSE msgBuffer[i]]
  /\ msgBufferCursorPos' = msgBufferCursorPos + BytesToCopy(recvd)
  /\ received' = received + recvd
  /\ pc' = "scan"
  /\ UNCHANGED <<source, counters, outputs>>

Receive == \E recvd \in 1..MaxRecv : Recv(recvd)

(* A call of update() that has no transceiver, or receives no byte. *)
RecvNothing == pc = "idle" /\ UNCHANGED vars

-----------------------------------------------------------------------------
(* One iteration of the loop *)

Bytes(cells) == [i \in DOMAIN cells |-> cells[i].val]

defaultSerialFrame == Frames[DefaultFrame]

syncLocation == memstr(Bytes(msgBuffer), msgBufferCursorPos, SyncValue)

(* Where the message of the default frame that has this sync starts.  It   *)
(* is negative when the buffer does not hold that many bytes before it.    *)
msgStart == syncLocation - findit(defaultSerialFrame, FIELD_SYNC)

(* An iteration addresses memory relative to msgStart, not to the buffer:  *)
(* Outside are the addresses it may read that are not the buffer's.  What  *)
(* they hold is unknown, so a step is one for some memory mem.             *)
Outside ==
  (msgStart..(msgStart + MaxFrame + BufferSize - msgBufferCursorPos - 1)) \ Addresses

Memories ==
  {[i \in Addresses \cup Outside |-> IF i \in Addresses THEN msgBuffer[i] ELSE foreign[i]] :
     foreign \in [Outside -> StaleCells]}

(* The cells of a message of size bytes at msgStart. *)
MessageCells(mem, size) ==
  LET start == msgStart
  IN  [i \in 0..(size - 1) |-> mem[start + i]]

(* The frame id is read with the default frame, if that frame has one. *)
ReadsFrameId == FIELD_FRAME \in FieldsOf(defaultSerialFrame)

FrameId(mem) == mem[msgStart + findit(defaultSerialFrame, FIELD_FRAME)].val

hasFrameToUse(mem) == ReadsFrameId => FrameId(mem) \in DOMAIN Frames

frameIdToUse_Mutant(mem) == DefaultFrame   \* the frame id is ignored

frameIdToUse(mem) ==
  IF ReadsFrameId /\ hasFrameToUse(mem) THEN FrameId(mem) ELSE DefaultFrame

frameToUse(mem) == Frames[frameIdToUse(mem)]

EnoughBytes_Mutant(mem) ==   \* the selected frame's length is not checked
  msgBufferCursorPos >= Len(defaultSerialFrame)

(* The two checks that the buffer holds enough bytes for a frame. *)
EnoughBytes(mem) ==
  /\ msgBufferCursorPos >= Len(defaultSerialFrame)
  /\ msgBufferCursorPos >= Len(frameToUse(mem))

msgPassesUserTest(mem) ==
  LET frame == frameToUse(mem)
      bytes == Bytes(MessageCells(mem, Len(frame)))
  IN  FIELD_CHECKSUM \in FieldsOf(frame) =>
        ChecksumEvaluator(
          deleteChecksumFromBuffer(bytes, frame),
          extractFieldFromBuffer(bytes, msgBufferCursorPos, frame, FIELD_CHECKSUM,
                                 <<0, 0>>, MaxDataBytes))

MessagePasses(mem) ==
  /\ findit(defaultSerialFrame, FIELD_SYNC) <= syncLocation
  /\ msgPassesUserTest(mem)
  /\ hasFrameToUse(mem)

(* The fields of a message with the data extracted for each: msgValueMap. *)
msgValueMap(mem) ==
  LET frame == frameToUse(mem)
      bytes == Bytes(MessageCells(mem, Len(frame)))
  IN  [f \in FieldsOf(frame) |->
         extractFieldFromBuffer(bytes, Len(frame), frame, f, <<>>, MaxDataBytes)]

StoreFields_Mutant(msg) ==   \* map::insert, which does not overwrite
  values' = [f \in DOMAIN values \cup DOMAIN msg |->
               IF f \in DOMAIN values THEN values[f]
                                      ELSE [data |-> msg[f], timestamp |-> received]]

StoreFields(msg) ==
  values' = [f \in DOMAIN values \cup DOMAIN msg |->
               IF f \in DOMAIN msg THEN [data |-> msg[f], timestamp |-> received]
                                   ELSE values[f]]

(* The call of newMessageCallback, as the history records it. *)
Call(mem, msg, ok) ==
  LET cells == MessageCells(mem, Len(frameToUse(mem)))
  IN  [frame     |-> frameIdToUse(mem),
       fields    |-> msg,
       positions |-> [i \in 1..Len(frameToUse(mem)) |-> cells[i - 1].pos],
       ok        |-> ok,
       at        |-> received]

(* The statistics after a message that was processed or skipped. *)
PlusOne(counter) == (counter + 1) % USHORT

Tally_Mutant(failed) ==   \* the failures are not reset
  /\ failedOfLastTen' = IF PlusOne(totalOfLastTenCounter) >= 10 THEN failed ELSE failedOfLastTen
  /\ failedOfLastTenCounter' = failed
  /\ totalOfLastTenCounter' = IF PlusOne(totalOfLastTenCounter) >= 10 THEN 0
                              ELSE PlusOne(totalOfLastTenCounter)

Tally(failed) ==
  IF PlusOne(totalOfLastTenCounter) >= 10
  THEN /\ failedOfLastTen' = failed
       /\ failedOfLastTenCounter' = 0
       /\ totalOfLastTenCounter' = 0
  ELSE /\ failedOfLastTen' = failedOfLastTen
       /\ failedOfLastTenCounter' = failed
       /\ totalOfLastTenCounter' = PlusOne(totalOfLastTenCounter)

(* memmove(msgBuffer, msgEnd, PROCESSOR_BUFFER_SIZE - msgBufferCursorPos)  *)
BytesToMove == BufferSize - msgBufferCursorPos

CursorAfter_Mutant(msgEnd) ==   \* off by one
  IF msgEnd < msgBufferCursorPos THEN msgBufferCursorPos - msgEnd + 1 ELSE 0

CursorAfter(msgEnd) ==
  IF msgEnd < msgBufferCursorPos THEN msgBufferCursorPos - msgEnd ELSE 0

RemoveThrough(mem, msgEnd) ==
  /\ msgBuffer' = [i \in Addresses |->
                     IF i < BytesToMove THEN mem[msgEnd + i] ELSE msgBuffer[i]]
  /\ msgBufferCursorPos' = CursorAfter(msgEnd)

(* What a rejected candidate removes: all through its first sync byte. *)
EndOfRejected_LoopMutant == syncLocation   \* the sync byte stays

EndOfRejected_FrameMutant == syncLocation + Len(defaultSerialFrame)   \* a whole frame

EndOfRejected == syncLocation + 1

(* A message that was not removed, because the callback threw. *)
BufferKept_Mutant == msgBufferCursorPos' = 0 /\ UNCHANGED msgBuffer   \* all is dropped

BufferKept == UNCHANGED <<msgBuffer, msgBufferCursorPos>>

-----------------------------------------------------------------------------
SyncFound == pc = "scan" /\ syncLocation # NotFound

(* No sync value in the buffer: update() returns. *)
NoSync ==
  /\ pc = "scan"
  /\ syncLocation = NotFound
  /\ pc' = "idle"
  /\ UNCHANGED <<streamVars, msgBuffer, msgBufferCursorPos, counters, outputs>>

(* Too few bytes for the default frame or for the message's own. *)
Incomplete(mem) ==
  /\ SyncFound
  /\ ~EnoughBytes(mem)
  /\ totalOfLastTenCounter' = PlusOne(totalOfLastTenCounter)
  /\ pc' = "idle"
  /\ UNCHANGED <<streamVars, msgBuffer, msgBufferCursorPos,
                 failedOfLastTen, failedOfLastTenCounter, outputs>>

(* A message passes: its fields are stored, the callback is called, and    *)
(* the message is removed.                                                 *)
Deliver(mem) ==
  /\ SyncFound
  /\ EnoughBytes(mem)
  /\ MessagePasses(mem)
  /\ \E msg \in {msgValueMap(mem)} :
       StoreFields(msg) /\ delivered' = Append(delivered, Call(mem, msg, TRUE))
  /\ lastMsgRecvTime' = received
  /\ Tally(failedOfLastTenCounter)
  /\ RemoveThrough(mem, msgStart + Len(frameToUse(mem)))
  /\ UNCHANGED <<streamVars, pc>>

(* The same, but the callback throws: the exception leaves update() before *)
(* the message is counted or removed.                                      *)
CallbackThrows(mem) ==
  /\ CallbackMayThrow
  /\ SyncFound
  /\ EnoughBytes(mem)
  /\ MessagePasses(mem)
  /\ \E msg \in {msgValueMap(mem)} :
       StoreFields(msg) /\ delivered' = Append(delivered, Call(mem, msg, FALSE))
  /\ totalOfLastTenCounter' = PlusOne(totalOfLastTenCounter)
  /\ BufferKept
  /\ pc' = "idle"
  /\ UNCHANGED <<streamVars, failedOfLastTen, failedOfLastTenCounter, lastMsgRecvTime>>

(* A message that fails a check is skipped through its sync byte. *)
Reject(mem) ==
  /\ SyncFound
  /\ EnoughBytes(mem)
  /\ ~MessagePasses(mem)
  /\ Tally(PlusOne(failedOfLastTenCounter))
  /\ RemoveThrough(mem, EndOfRejected)
  /\ UNCHANGED <<streamVars, pc, outputs>>

Iterate ==
  \/ NoSync
  \/ \E mem \in Memories :
       Incomplete(mem) \/ Deliver(mem) \/ CallbackThrows(mem) \/ Reject(mem)

Next == Receive \/ RecvNothing \/ Iterate

Spec == Init /\ [][Next]_vars

(* update() runs to its end once called, and is called again and again:    *)
(* "in order for the processor to work, it must be spun" (README.md:162).  *)
(* So while the transceiver has bytes, some call receives them.  Inside of *)
(* the loop there is always an iteration to take, so the second conjunct   *)
(* is WF_vars(Iterate).                                                    *)
LoopRuns == []<>(pc # "scan") \/ []<><<Iterate>>_vars

FairSpec == Spec /\ WF_vars(Receive) /\ LoopRuns
=============================================================================
