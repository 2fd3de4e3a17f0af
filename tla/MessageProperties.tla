------------------------- MODULE MessageProperties -------------------------
(***************************************************************************)
(* The correctness properties of MessageBuffer.                            *)
(***************************************************************************)
EXTENDS MessageBuffer

Cells   == [val : Values \cup StaleValues, pos : Nat]
Counter == 0..(USHORT - 1)

(* The type invariant of update()'s state. *)
TypeOK ==
  /\ source \in Sources
  /\ received \in 0..Len(source.bytes)
  /\ pc \in {"idle", "scan"}
  /\ msgBuffer \in [Addresses -> Cells]
  /\ msgBufferCursorPos \in 0..BufferSize
  /\ failedOfLastTen \in Counter
  /\ failedOfLastTenCounter \in Counter
  /\ totalOfLastTenCounter \in Counter
  /\ FIELD_SYNC \in DOMAIN values
  /\ lastMsgRecvTime \in 0..received

-----------------------------------------------------------------------------
(* The buffer *)

(* Below the cursor the buffer holds the latest bytes received, all of     *)
(* them and in order: no removal of a message (memmove, SerialProcessor    *)
(* .cpp:305) loses, repeats or moves a byte that is still to be parsed.    *)
BufferHoldsLatestBytes ==
  \A i \in 0..(msgBufferCursorPos - 1) :
    msgBuffer[i].pos = received - msgBufferCursorPos + i + 1

(* A removal leaves below the cursor the bytes that followed the removed   *)
(* ones, unchanged ("remove message from the buffer", the comment at       *)
(* SerialProcessor.cpp:304).                                               *)
RemovalKeepsTheRest ==
  [][pc = "scan" /\ msgBufferCursorPos' < msgBufferCursorPos =>
       \A i \in 0..(msgBufferCursorPos' - 1) :
         msgBuffer'[i] = msgBuffer[i + (msgBufferCursorPos - msgBufferCursorPos')]]_vars

(* Every iteration that does not end the loop removes a byte, so update()  *)
(* cannot loop for ever however a message is rejected or delivered.        *)
ScanShrinks ==
  [][pc = "scan" /\ pc' = "scan" => msgBufferCursorPos' < msgBufferCursorPos]_vars

(* Half of the buffer is free.  It is what memmove() needs: it moves as     *)
(* many bytes as the buffer has free (SerialProcessor.cpp:305).            *)
HalfFree == 2 * msgBufferCursorPos <= BufferSize

-----------------------------------------------------------------------------
(* The statistics of failedOfLastTenMessages() *)

(* The number of failed messages of the last ten is at most ten, and the   *)
(* counters never wrap, although an incomplete message is counted again by *)
(* every update() that finds it incomplete.  A callback that throws is     *)
(* counted without limit, so this is about callbacks that return.          *)
FailureStatsSound ==
  \/ CallbackMayThrow
  \/ /\ failedOfLastTen <= 10
     /\ failedOfLastTenCounter <= 9
     /\ failedOfLastTenCounter <= totalOfLastTenCounter
     /\ totalOfLastTenCounter <= 8 + MaxFrame

-----------------------------------------------------------------------------
(* The messages *)

(* A message that passes the checks stands whole in the buffer.  The check *)
(* of the length (SerialProcessor.cpp:217) compares the cursor with the    *)
(* frame's size, not with the message's end: it supposes that the message  *)
(* is the first thing in the buffer.                                       *)
PassedAreWhole ==
  SyncFound =>
    \A mem \in Memories :
      EnoughBytes(mem) /\ MessagePasses(mem) =>
        msgStart + Len(frameToUse(mem)) <= msgBufferCursorPos

(* The callback gets bytes that were received, side by side in the stream: *)
(* never bytes the buffer held before ("called when a new valid message is *)
(* received", README.md:147).                                              *)
DeliveredWereReceived ==
  \A k \in 1..Len(delivered) :
    LET at == delivered[k].positions
    IN  \A i \in 1..Len(at) : at[i] # NoPosition /\ at[i] = at[1] + i - 1

(* Every field holds what the latest message with that field carried,      *)
(* stamped with the time of the update() that stored it, whether or not    *)
(* the callback returned; lastMsgRecvTime is the time of the latest        *)
(* message whose callback returned.                                        *)
With(field) == {k \in 1..Len(delivered) : field \in DOMAIN delivered[k].fields}
Handled     == {k \in 1..Len(delivered) : delivered[k].ok}

FieldsHoldLatest ==
  /\ \A f \in DOMAIN values :
       \/ f = FIELD_SYNC /\ values[f].data = SyncValue /\ With(f) = {}
       \/ \E k \in With(f) :
            /\ \A j \in With(f) : j <= k
            /\ values[f] = [data |-> delivered[k].fields[f], timestamp |-> delivered[k].at]
  /\ \/ Handled = {} /\ lastMsgRecvTime = 0
     \/ \E k \in Handled :
          (\A j \in Handled : j <= k) /\ lastMsgRecvTime = delivered[k].at

(* A message whose callback threw stays at the head of the buffer: the     *)
(* next call of the callback gets that message again, in a later update(). *)
RedeliveredUntilHandled ==
  \A k \in 1..(Len(delivered) - 1) :
    ~delivered[k].ok =>
      /\ delivered[k + 1].positions = delivered[k].positions
      /\ delivered[k + 1].fields = delivered[k].fields
      /\ delivered[k + 1].at > delivered[k].at

-----------------------------------------------------------------------------
(* The processor implements FrameStream: seen through what it has taken    *)
(* from the source and what its callback has handled, it is an abstract    *)
(* stream of messages, whatever the chunks recv() returned.                *)

(* The messages of the calls that returned. *)
MessagesOf(calls) ==
  LET messages[k \in 0..Len(calls)] ==
        IF k = 0 THEN <<>>
        ELSE IF calls[k].ok
        THEN Append(messages[k - 1], [frame |-> calls[k].frame, fields |-> calls[k].fields])
        ELSE messages[k - 1]
  IN  messages[Len(calls)]

HandledMessages == MessagesOf(delivered)

Stream == INSTANCE FrameStream
  WITH taken         <- received - msgBufferCursorPos,
       delivered     <- HandledMessages,
       FieldSync     <- FIELD_SYNC,
       FieldFrame    <- FIELD_FRAME,
       FieldChecksum <- FIELD_CHECKSUM

ImplementsFrameStream == Stream!Spec

-----------------------------------------------------------------------------
(* What the theorems suppose of the frames and the sources *)

(* All frames have the sync field at one place, and the frame id too, if   *)
(* the default frame has one: a message is searched with the default frame *)
(* and read with its own (SerialProcessor.cpp:162).                        *)
UniformFrames ==
  \A id \in DOMAIN Frames :
    /\ findit(Frames[id], FIELD_SYNC) = findit(defaultSerialFrame, FIELD_SYNC)
    /\ ReadsFrameId => FIELD_FRAME \in FieldsOf(Frames[id])

(* Where the messages of a source meet. *)
Boundaries(s) == {m - 1 : m \in s.messages} \cup {Len(s.bytes)}

SyncIn(bytes, p) ==
  /\ p + Len(SyncValue) <= Len(bytes)
  /\ \A k \in 1..Len(SyncValue) : bytes[p + k] = SyncValue[k]

(* A source without noise is message after message, each of a frame that   *)
(* the processor tells from the message, and none with the sync value      *)
(* before its sync field.                                                  *)
IsClean(s) ==
  /\ 0 \in Boundaries(s)
  /\ \A b \in Boundaries(s) \ {Len(s.bytes)} :
       \E id \in DOMAIN Frames :
         LET end == b + Len(Frames[id])
         IN  /\ ReadsFrameId \/ id = DefaultFrame
             /\ end \in Boundaries(s)
             /\ Stream!IsMessage(SubSeq(s.bytes, b + 1, end), id)
             /\ \A p \in b..(b + findit(defaultSerialFrame, FIELD_SYNC) - 1) :
                  ~SyncIn(s.bytes, p)

CleanSources == \A s \in Sources : s.noise \/ IsClean(s)

-----------------------------------------------------------------------------
(* Liveness *)

(* update() returns. *)
UpdateReturns == pc = "scan" ~> pc = "idle"

(* Every message the other side put in its bytes is handled, provided all  *)
(* the bytes come: what precedes a message never hides it.  A callback     *)
(* that throws is called again only when more bytes come, so the exception *)
(* is what is left when it threw on the last ones.                         *)
IsHandled(start) == \E k \in Handled : delivered[k].positions[1] = start

LastCallThrew == Len(delivered) > 0 /\ ~delivered[Len(delivered)].ok

EveryMessageHandled ==
  <>[](LastCallThrew \/ \A start \in source.messages : IsHandled(start))
=============================================================================
