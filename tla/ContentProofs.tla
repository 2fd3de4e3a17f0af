--------------------------- MODULE ContentProofs ---------------------------
(***************************************************************************)
(* Theorems about the contents of msgBuffer, of the messages that the      *)
(* callback gets, and of the fields in the map.                            *)
(***************************************************************************)
EXTENDS MessageBufferProofs

-----------------------------------------------------------------------------
(* The calls of the callback *)

IsHistory(calls) ==
  Len(calls) \in Nat /\ calls = [k \in 1..Len(calls) |-> calls[k]]

(* A call that is added to a history leaves the earlier ones. *)
Extends(calls, call, new) ==
  /\ IsHistory(new) /\ Len(new) = Len(calls) + 1
  /\ \A k \in 1..Len(calls) : new[k] = calls[k]
  /\ new[Len(calls) + 1] = call

(* Append adds a call to a history. *)
LEMMA HistoryGrows ==
  ASSUME NEW calls, IsHistory(calls), NEW call
  PROVE  Extends(calls, call, Append(calls, call))
<1> DEFINE S == {calls[k] : k \in 1..Len(calls)} \cup {call}
           new == Append(calls, call)
<1>1. calls \in Seq(S)
  BY DEF IsHistory
<1>2. call \in S
  OBVIOUS
<1> HIDE DEF S
<1>3. /\ new \in Seq(S) /\ Len(new) = Len(calls) + 1
      /\ \A k \in 1..Len(calls) : new[k] = calls[k]
      /\ new[Len(calls) + 1] = call
  BY <1>1, <1>2, AppendProperties
<1>4. Len(new) \in Nat /\ new = [k \in 1..Len(new) |-> new[k]]
  BY <1>3, LenProperties
<1> QED BY <1>3, <1>4 DEF IsHistory, Extends

(* A message that passes is stored, and the callback is called. *)
Handles(mem, ok) ==
  /\ \E msg \in {msgValueMap(mem)} :
       StoreFields(msg) /\ delivered' = Append(delivered, Call(mem, msg, ok))
  /\ lastMsgRecvTime' = IF ok THEN received ELSE lastMsgRecvTime

(* Storing a message makes it the latest with each of its fields, and      *)
(* leaves the other fields as they were.                                   *)
LEMMA HandlingStores ==
  ASSUME FieldsHoldLatest, IsHistory(delivered), NEW mem, NEW ok \in BOOLEAN, Handles(mem, ok)
  PROVE  FieldsHoldLatest' /\ IsHistory(delivered')
<1> DEFINE n == Len(delivered) + 1
<1>1. PICK msg : StoreFields(msg) /\ delivered' = Append(delivered, Call(mem, msg, ok))
  BY DEF Handles
<1>2. /\ IsHistory(delivered') /\ Len(delivered') = n /\ n \in Nat
      /\ \A k \in 1..Len(delivered) : delivered'[k] = delivered[k]
      /\ delivered'[n] = Call(mem, msg, ok)
  <2>1. n \in Nat
    BY DEF IsHistory
  <2>2. Extends(delivered, Call(mem, msg, ok), Append(delivered, Call(mem, msg, ok)))
    BY HistoryGrows
  <2>3. Extends(delivered, Call(mem, msg, ok), delivered')
    BY <1>1, <2>2
  <2> QED BY <2>1, <2>3 DEF Extends
<1>3. /\ delivered'[n].fields = msg /\ delivered'[n].ok = ok /\ delivered'[n].at = received
  BY <1>2 DEF Call
<1>4. /\ n \in 1..n /\ n \notin 1..Len(delivered)
      /\ \A k \in 1..n : k # n => k \in 1..Len(delivered)
      /\ \A k \in 1..Len(delivered) : k \in 1..n /\ k <= n
  BY <1>2 DEF IsHistory
<1> HIDE DEF n
<1>5. ASSUME NEW f
      PROVE  With(f)' = With(f) \cup (IF f \in DOMAIN msg THEN {n} ELSE {})
  BY <1>2, <1>3, <1>4 DEF With
<1>6. Handled' = Handled \cup (IF ok THEN {n} ELSE {})
  BY <1>2, <1>3, <1>4 DEF Handled
<1>7. ASSUME NEW f \in DOMAIN values'
      PROVE  \/ f = FIELD_SYNC /\ values'[f].data = SyncValue /\ With(f)' = {}
             \/ \E k \in With(f)' :
                  /\ \A j \in With(f)' : j <= k
                  /\ values'[f] = [data |-> delivered'[k].fields[f], timestamp |-> delivered'[k].at]
  <2>1. CASE f \in DOMAIN msg
    <3>1. values'[f] = [data |-> msg[f], timestamp |-> received]
      BY <1>1, <2>1 DEF StoreFields
    <3>2. n \in With(f)' /\ \A j \in With(f)' : j <= n
      BY <1>4, <1>5, <2>1 DEF With
    <3> QED BY <1>3, <3>1, <3>2
  <2>2. CASE f \notin DOMAIN msg
    <3>1. f \in DOMAIN values /\ values'[f] = values[f] /\ With(f)' = With(f)
      BY <1>1, <1>5, <2>2 DEF StoreFields
    <3>2. CASE f = FIELD_SYNC /\ values[f].data = SyncValue /\ With(f) = {}
      BY <3>1, <3>2
    <3>3. CASE \E k \in With(f) :
                 /\ \A j \in With(f) : j <= k
                 /\ values[f] = [data |-> delivered[k].fields[f], timestamp |-> delivered[k].at]
      <4>1. \A k \in With(f) : delivered'[k] = delivered[k]
        BY <1>2 DEF With
      <4> QED BY <3>1, <3>3, <4>1
    <3> QED BY <3>1, <3>2, <3>3 DEF FieldsHoldLatest
  <2> QED BY <2>1, <2>2
<1>8. \/ Handled' = {} /\ lastMsgRecvTime' = 0
      \/ \E k \in Handled' : (\A j \in Handled' : j <= k) /\ lastMsgRecvTime' = delivered'[k].at
  <2>1. CASE ok
    <3>1. lastMsgRecvTime' = delivered'[n].at
      BY <1>3, <2>1 DEF Handles
    <3>2. n \in Handled' /\ \A j \in Handled' : j <= n
      BY <1>4, <1>6, <2>1 DEF Handled
    <3> QED BY <3>1, <3>2
  <2>2. CASE ~ok
    <3>1. Handled' = Handled /\ lastMsgRecvTime' = lastMsgRecvTime
      BY <1>6, <2>2 DEF Handles
    <3>2. \A k \in Handled : delivered'[k] = delivered[k]
      BY <1>2 DEF Handled
    <3> QED BY <3>1, <3>2 DEF FieldsHoldLatest
  <2> QED BY <2>1, <2>2
<1> QED BY <1>2, <1>7, <1>8 DEF FieldsHoldLatest

(* A step that neither stores nor calls back changes nothing here. *)
LEMMA OutputsUnchanged ==
  ASSUME FieldsHoldLatest, IsHistory(delivered), UNCHANGED outputs
  PROVE  FieldsHoldLatest' /\ IsHistory(delivered')
BY DEF FieldsHoldLatest, With, Handled, outputs

(* Every step stores a message and calls back, or does neither. *)
LEMMA FieldsStep ==
  ASSUME FieldsHoldLatest, IsHistory(delivered), [Next]_vars
  PROVE  FieldsHoldLatest' /\ IsHistory(delivered')
<1>1. ASSUME NEW mem \in Memories, Deliver(mem) PROVE Handles(mem, TRUE)
  BY <1>1 DEF Deliver, Handles
<1>2. ASSUME NEW mem \in Memories, CallbackThrows(mem) PROVE Handles(mem, FALSE)
  BY <1>2 DEF CallbackThrows, Handles
<1>3. \/ UNCHANGED outputs
      \/ \E mem \in Memories, ok \in BOOLEAN : Handles(mem, ok)
  BY <1>1, <1>2 DEF Next, Receive, Recv, RecvNothing, Iterate, NoSync, Incomplete, Reject, vars
<1> QED BY <1>3, HandlingStores, OutputsUnchanged

(* The map holds, for every field, what the latest message with it         *)
(* carried, stamped with the time of the update() that stored it, and      *)
(* lastMsgRecvTime is the time of the latest message whose callback        *)
(* returned: whatever messages come, are rejected, or make it throw.       *)
THEOREM FieldsCorrect == Spec => []FieldsHoldLatest
<1>1. Init => FieldsHoldLatest /\ IsHistory(delivered)
  <2> SUFFICES ASSUME Init PROVE FieldsHoldLatest /\ IsHistory(delivered)
    OBVIOUS
  <2>1. delivered = <<>> /\ Len(delivered) = 0 /\ lastMsgRecvTime = 0
    BY DEF Init
  <2>2. IsHistory(delivered) /\ Handled = {} /\ \A f : With(f) = {}
    BY <2>1 DEF IsHistory, Handled, With
  <2>3. \A f \in DOMAIN values : f = FIELD_SYNC /\ values[f].data = SyncValue
    BY DEF Init
  <2> QED BY <2>1, <2>2, <2>3 DEF FieldsHoldLatest
<1>2. FieldsHoldLatest /\ IsHistory(delivered) /\ [Next]_vars
        => FieldsHoldLatest' /\ IsHistory(delivered')
  BY FieldsStep
<1>3. IsHistory(delivered)' <=> IsHistory(delivered')
  OBVIOUS
<1> QED BY <1>1, <1>2, <1>3, PTL DEF Spec

-----------------------------------------------------------------------------
(* The bytes below the cursor *)

(* BufferHoldsLatestBytes, with the bytes themselves: the buffer below the *)
(* cursor is the end of what was received.                                 *)
BufferInv ==
  /\ msgBufferCursorPos <= received
  /\ \A i \in 0..(msgBufferCursorPos - 1) :
       LET p == received - msgBufferCursorPos + i + 1
       IN  msgBuffer[i] = [val |-> source.bytes[p], pos |-> p]

(* A recv() puts the bytes behind those that are in the buffer. *)
LEMMA RecvAppends ==
  ASSUME TypeOK, BufferInv, HalfFree', NEW recvd \in 1..MaxRecv, Recv(recvd)
  PROVE  /\ BufferInv'
         /\ msgBufferCursorPos' = msgBufferCursorPos + recvd
         /\ \A i \in 0..(msgBufferCursorPos - 1) : msgBuffer'[i] = msgBuffer[i]
<1>1. /\ msgBufferCursorPos \in 0..BufferSize /\ BufferSize \in Nat \ {0}
      /\ recvd \in Nat \ {0} /\ received \in Nat
  BY Sizes, SourceAssumption DEF TypeOK
<1>2. /\ BytesToCopy(recvd) = recvd /\ msgBufferCursorPos + recvd <= BufferSize
      /\ msgBufferCursorPos' = msgBufferCursorPos + recvd /\ received' = received + recvd
      /\ source' = source
  BY <1>1 DEF BytesToCopy, HalfFree, Recv
<1>3. ASSUME NEW i \in Addresses
      PROVE  msgBuffer'[i] =
               IF i \in msgBufferCursorPos..(msgBufferCursorPos + recvd - 1)
               THEN [val |-> source.bytes[received + 1 + i - msgBufferCursorPos],
                     pos |-> received + 1 + i - msgBufferCursorPos]
               ELSE msgBuffer[i]
  BY <1>2 DEF Recv
<1>4. ASSUME NEW i \in 0..(msgBufferCursorPos - 1)
      PROVE  msgBuffer'[i] = msgBuffer[i]
  <2>1. i \in Addresses /\ i \notin msgBufferCursorPos..(msgBufferCursorPos + recvd - 1)
    BY <1>1 DEF Addresses
  <2> QED BY <1>3, <2>1
<1>5. ASSUME NEW i \in 0..(msgBufferCursorPos' - 1)
      PROVE  msgBuffer'[i] = [val |-> source'.bytes[received' - msgBufferCursorPos' + i + 1],
                              pos |-> received' - msgBufferCursorPos' + i + 1]
  <2>1. received' - msgBufferCursorPos' + i + 1 = received - msgBufferCursorPos + i + 1
    BY <1>1, <1>2
  <2>2. CASE i < msgBufferCursorPos
    <3>1. i \in 0..(msgBufferCursorPos - 1)
      BY <1>1, <1>2, <2>2
    <3> QED BY <1>2, <1>4, <2>1, <3>1 DEF BufferInv
  <2>3. CASE ~(i < msgBufferCursorPos)
    <3>1. i \in Addresses /\ i \in msgBufferCursorPos..(msgBufferCursorPos + recvd - 1)
      BY <1>1, <1>2, <2>3 DEF Addresses
    <3>2. received + 1 + i - msgBufferCursorPos = received - msgBufferCursorPos + i + 1
      BY <1>1, <3>1
    <3> QED BY <1>2, <1>3, <2>1, <3>1, <3>2
  <2> QED BY <2>2, <2>3
<1>6. msgBufferCursorPos' <= received'
  BY <1>1, <1>2 DEF BufferInv
<1> QED BY <1>2, <1>4, <1>5, <1>6 DEF BufferInv

(* Any memory has the buffer's cells at the buffer's addresses. *)
LEMMA MemoryHasBuffer ==
  ASSUME NEW mem \in Memories, NEW a \in Addresses
  PROVE  mem[a] = msgBuffer[a]
BY DEF Memories

(* A removal moves what lay behind the removed bytes to the front. *)
LEMMA RemovalShifts ==
  ASSUME TypeOK, BufferInv, HalfFree, NEW mem \in Memories, NEW msgEnd \in Nat \ {0},
         RemoveThrough(mem, msgEnd), UNCHANGED streamVars
  PROVE  /\ BufferInv'
         /\ \A i \in 0..(msgBufferCursorPos' - 1) :
              msgBuffer'[i] = msgBuffer[i + (msgBufferCursorPos - msgBufferCursorPos')]
<1>1. /\ msgBufferCursorPos \in 0..BufferSize /\ BufferSize \in Nat \ {0}
      /\ received \in Nat /\ source' = source /\ received' = received
  BY Sizes, SourceAssumption DEF TypeOK, streamVars
<1>2. CASE msgEnd < msgBufferCursorPos
  <2>1. msgBufferCursorPos' = msgBufferCursorPos - msgEnd
    BY <1>2 DEF RemoveThrough, CursorAfter
  <2>2. ASSUME NEW i \in 0..(msgBufferCursorPos' - 1)
        PROVE  msgBuffer'[i] = msgBuffer[i + msgEnd] /\ i + msgEnd \in 0..(msgBufferCursorPos - 1)
    <3>1. /\ i \in Addresses /\ i < BytesToMove
          /\ msgEnd + i \in Addresses /\ msgEnd + i = i + msgEnd
          /\ i + msgEnd \in 0..(msgBufferCursorPos - 1)
      BY <1>1, <1>2, <2>1 DEF Addresses, BytesToMove, HalfFree
    <3>2. msgBuffer'[i] = mem[msgEnd + i]
      BY <3>1 DEF RemoveThrough
    <3> QED BY <3>1, <3>2, MemoryHasBuffer
  <2>3. ASSUME NEW i \in 0..(msgBufferCursorPos' - 1)
        PROVE  msgBuffer'[i] = [val |-> source'.bytes[received' - msgBufferCursorPos' + i + 1],
                                pos |-> received' - msgBufferCursorPos' + i + 1]
    <3>1. received' - msgBufferCursorPos' + i + 1
            = received - msgBufferCursorPos + (i + msgEnd) + 1
      BY <1>1, <2>1
    <3> QED BY <1>1, <2>2, <3>1 DEF BufferInv
  <2>4. msgBufferCursorPos - msgBufferCursorPos' = msgEnd
    BY <1>1, <2>1
  <2>5. msgBufferCursorPos' <= received'
    BY <1>1, <2>1 DEF BufferInv
  <2> QED BY <2>2, <2>3, <2>4, <2>5 DEF BufferInv
<1>3. CASE ~(msgEnd < msgBufferCursorPos)
  <2>1. msgBufferCursorPos' = 0
    BY <1>3 DEF RemoveThrough, CursorAfter
  <2>2. 0..(msgBufferCursorPos' - 1) = {}
    BY <2>1
  <2>3. msgBufferCursorPos' <= received'
    BY <1>1, <2>1
  <2> QED BY <2>2, <2>3 DEF BufferInv
<1> QED BY <1>2, <1>3

(* What a step does to the buffer: nothing, or it appends bytes, or it     *)
(* removes some.                                                           *)
LEMMA BufferSteps ==
  ASSUME TypeOK, [Next]_vars
  PROVE  \/ UNCHANGED <<source, received, msgBuffer, msgBufferCursorPos>>
         \/ pc = "idle" /\ \E recvd \in 1..MaxRecv : Recv(recvd)
         \/ /\ pc = "scan" /\ UNCHANGED streamVars
            /\ \E mem \in Memories, msgEnd \in Nat \ {0} : RemoveThrough(mem, msgEnd)
<1>1. CASE Receive
  BY <1>1 DEF Receive, Recv
<1>2. CASE RecvNothing \/ UNCHANGED vars
  BY <1>2 DEF RecvNothing, vars, streamVars
<1>3. CASE NoSync
  BY <1>3 DEF NoSync, streamVars
<1>4. ASSUME NEW mem \in Memories, Incomplete(mem) \/ CallbackThrows(mem)
      PROVE  UNCHANGED <<source, received, msgBuffer, msgBufferCursorPos>>
  BY <1>4 DEF Incomplete, CallbackThrows, BufferKept, streamVars
<1>5. ASSUME NEW mem \in Memories, Deliver(mem)
      PROVE  /\ pc = "scan" /\ UNCHANGED streamVars
             /\ RemoveThrough(mem, msgStart + Len(frameToUse(mem)))
             /\ msgStart + Len(frameToUse(mem)) \in Nat \ {0}
  <2>1. SyncFound /\ MessagePasses(mem)
    BY <1>5 DEF Deliver
  <2> QED BY <1>5, <2>1, DeliveredEnd DEF Deliver, SyncFound, streamVars
<1>6. ASSUME NEW mem \in Memories, Reject(mem)
      PROVE  /\ pc = "scan" /\ UNCHANGED streamVars
             /\ RemoveThrough(mem, EndOfRejected) /\ EndOfRejected \in Nat \ {0}
  BY <1>6, RejectedEnd DEF Reject, SyncFound, streamVars
<1> QED BY <1>1, <1>2, <1>3, <1>4, <1>5, <1>6 DEF Next, Iterate

(* Every step keeps the buffer the end of what was received. *)
LEMMA BufferStep ==
  ASSUME TypeOK, BufferInv, HalfFree, HalfFree', [Next]_vars
  PROVE  BufferInv'
<1>1. CASE UNCHANGED <<source, received, msgBuffer, msgBufferCursorPos>>
  BY <1>1 DEF BufferInv
<1> QED BY <1>1, BufferSteps, RecvAppends, RemovalShifts

(* At first the cursor is at the front, and nothing is below it. *)
LEMMA InitBuffer == Init => BufferInv
<1> SUFFICES ASSUME Init PROVE BufferInv
  OBVIOUS
<1>1. msgBufferCursorPos = 0 /\ received = 0
  BY DEF Init
<1>2. 0..(msgBufferCursorPos - 1) = {}
  BY <1>1
<1> QED BY <1>1, <1>2 DEF BufferInv

(* Below the cursor the buffer holds the latest bytes received, in order   *)
(* and without a gap, for as long as half of it is free: the reception and *)
(* the memmove() of every removal lose nothing.  (Beyond that they do, see *)
(* the run finding_short_memmove.)                                         *)
THEOREM BufferCorrect == Spec /\ []HalfFree => []BufferHoldsLatestBytes
<1>1. ASSUME BufferInv, NEW i \in 0..(msgBufferCursorPos - 1)
      PROVE  msgBuffer[i].pos = received - msgBufferCursorPos + i + 1
  <2>1. PICK p : p = received - msgBufferCursorPos + i + 1
    OBVIOUS
  <2>2. msgBuffer[i] = [val |-> source.bytes[p], pos |-> p]
    BY <1>1, <2>1 DEF BufferInv
  <2> QED BY <2>1, <2>2
<1>2. TypeOK /\ BufferInv /\ HalfFree /\ HalfFree' /\ [Next]_vars => BufferInv'
  BY BufferStep
<1>3. BufferInv => BufferHoldsLatestBytes
  BY <1>1 DEF BufferHoldsLatestBytes
<1> QED BY <1>2, <1>3, InitBuffer, TypeCorrect, PTL DEF Spec

(* As long as half of the buffer is free, what a removal leaves are the    *)
(* bytes that followed the removed ones, unchanged.                        *)
THEOREM RemovalsCorrect == Spec /\ []HalfFree => RemovalKeepsTheRest
<1>1. ASSUME TypeOK, BufferInv, HalfFree, [Next]_vars,
             pc = "scan", msgBufferCursorPos' < msgBufferCursorPos
      PROVE  \A i \in 0..(msgBufferCursorPos' - 1) :
               msgBuffer'[i] = msgBuffer[i + (msgBufferCursorPos - msgBufferCursorPos')]
  <2>1. msgBufferCursorPos' # msgBufferCursorPos
    BY <1>1 DEF TypeOK
  <2> QED BY <1>1, <2>1, BufferSteps, RemovalShifts
<1>2. TypeOK /\ BufferInv /\ HalfFree /\ [Next]_vars =>
        [pc = "scan" /\ msgBufferCursorPos' < msgBufferCursorPos =>
           \A i \in 0..(msgBufferCursorPos' - 1) :
             msgBuffer'[i] = msgBuffer[i + (msgBufferCursorPos - msgBufferCursorPos')]]_vars
  BY <1>1
<1>3. TypeOK /\ BufferInv /\ HalfFree /\ HalfFree' /\ [Next]_vars => BufferInv'
  BY BufferStep
<1> QED BY <1>2, <1>3, InitBuffer, TypeCorrect, PTL DEF Spec, RemovalKeepsTheRest

-----------------------------------------------------------------------------
(* The calls of the callback that returned *)

MessageOfCall(call) == [frame |-> call.frame, fields |-> call.fields]

(* What MessagesOf computes, step by step. *)
LEMMA MessagesSteps ==
  ASSUME NEW calls, Len(calls) \in Nat
  PROVE  \E f : /\ MessagesOf(calls) = f[Len(calls)] /\ f[0] = <<>>
                /\ \A k \in 1..Len(calls) :
                     f[k] = IF calls[k].ok THEN Append(f[k - 1], MessageOfCall(calls[k]))
                            ELSE f[k - 1]
<1> DEFINE N == Len(calls)
           M == {MessageOfCall(calls[k]) : k \in 1..N}
           S == Seq(M)
           IsIt(f) == f = [k \in 0..N |->
                             IF k = 0 THEN <<>>
                             ELSE IF calls[k].ok
                             THEN Append(f[k - 1], [frame |-> calls[k].frame,
                                                    fields |-> calls[k].fields])
                             ELSE f[k - 1]]
           step == [x \in S \X (1..N) |->
                      IF calls[x[2]].ok THEN Append(x[1], MessageOfCall(calls[x[2]])) ELSE x[1]]
<1>1. <<>> \in S
  OBVIOUS
<1>2. step \in [S \X (1..N) -> S]
  <2>1. ASSUME NEW x \in S \X (1..N)
        PROVE  (IF calls[x[2]].ok THEN Append(x[1], MessageOfCall(calls[x[2]])) ELSE x[1]) \in S
    <3>1. PICK y \in S, k \in 1..N : x[1] = y /\ x[2] = k
      OBVIOUS
    <3>2. MessageOfCall(calls[k]) \in M
      OBVIOUS
    <3> HIDE DEF M
    <3>3. Append(y, MessageOfCall(calls[k])) \in S
      BY <3>2, AppendProperties
    <3> QED BY <3>1, <3>3
  <2> QED BY <2>1
<1>3. \A y \in S, k \in 1..N :
        step[<<y, k>>] = IF calls[k].ok THEN Append(y, MessageOfCall(calls[k])) ELSE y
  OBVIOUS
<1> HIDE DEF M, S, step
<1>4. PICK f \in [0..N -> S] : Recurs(f, N, <<>>, step)
  BY <1>1, <1>2, RecursionExists
<1>5. /\ f[0] = <<>>
      /\ \A k \in 1..N : f[k] = IF calls[k].ok THEN Append(f[k - 1], MessageOfCall(calls[k]))
                                ELSE f[k - 1]
  <2>1. \A k \in 1..N : k - 1 \in 0..N /\ f[k - 1] \in S
    OBVIOUS
  <2> QED BY <1>3, <1>4, <2>1 DEF Recurs
<1>6. IsIt(f)
  <2>1. \A k \in 0..N : k # 0 => k \in 1..N
    OBVIOUS
  <2>2. f = [k \in 0..N |-> f[k]]
    OBVIOUS
  <2> QED BY <1>5, <2>1, <2>2 DEF MessageOfCall
<1>7. PICK u : IsIt(u) /\ MessagesOf(calls) = u[N]
  BY <1>6 DEF MessagesOf
<1>8. 0 \in 0..N /\ \A k \in 1..N : k \in 0..N /\ k # 0
  OBVIOUS
<1>9. u[0] = <<>>
  BY <1>7, <1>8
<1>10. \A k \in 1..N : u[k] = IF calls[k].ok THEN Append(u[k - 1], MessageOfCall(calls[k]))
                              ELSE u[k - 1]
  BY <1>7, <1>8 DEF MessageOfCall
<1> QED BY <1>7, <1>9, <1>10

(* A call that is added adds its message, if it returned. *)
LEMMA MessagesGrow ==
  ASSUME NEW calls, NEW call, NEW new, IsHistory(calls), Extends(calls, call, new)
  PROVE  MessagesOf(new) =
           IF call.ok THEN Append(MessagesOf(calls), MessageOfCall(call)) ELSE MessagesOf(calls)
<1> DEFINE N == Len(calls)
<1>1. /\ N \in Nat /\ Len(new) = N + 1 /\ new[N + 1] = call
      /\ \A k \in 1..N : new[k] = calls[k]
  BY DEF IsHistory, Extends
<1>2. PICK f : /\ MessagesOf(calls) = f[N] /\ f[0] = <<>>
               /\ \A k \in 1..N :
                    f[k] = IF calls[k].ok THEN Append(f[k - 1], MessageOfCall(calls[k]))
                           ELSE f[k - 1]
  BY <1>1, MessagesSteps
<1>3. PICK g : /\ MessagesOf(new) = g[N + 1] /\ g[0] = <<>>
               /\ \A k \in 1..(N + 1) :
                    g[k] = IF new[k].ok THEN Append(g[k - 1], MessageOfCall(new[k]))
                           ELSE g[k - 1]
  BY <1>1, MessagesSteps
<1> HIDE DEF N
<1> DEFINE T == {k \in 0..N : f[k] = g[k]}
<1>4. 0 \in T
  BY <1>1, <1>2, <1>3
<1>5. ASSUME NEW k \in 0..(N - 1), k \in T PROVE k + 1 \in T
  <2>1. /\ k + 1 \in 1..N /\ k + 1 \in 1..(N + 1) /\ (k + 1) - 1 = k /\ k + 1 \in 0..N
    BY <1>1
  <2>2. f[k] = g[k] /\ new[k + 1] = calls[k + 1]
    BY <1>1, <1>5, <2>1
  <2>3. f[k + 1] = g[k + 1]
    BY <1>2, <1>3, <2>1, <2>2
  <2> QED BY <2>1, <2>3
<1> HIDE DEF T
<1>6. \A k \in 0..N : k \in T
  BY <1>1, <1>4, <1>5, Induction
<1>7. f[N] = g[N]
  <2>1. N \in T
    BY <1>1, <1>6
  <2> QED BY <2>1 DEF T
<1>8. N + 1 \in 1..(N + 1) /\ (N + 1) - 1 = N
  BY <1>1
<1>9. g[N + 1] = IF call.ok THEN Append(g[N], MessageOfCall(call)) ELSE g[N]
  BY <1>1, <1>3, <1>8
<1> QED BY <1>2, <1>3, <1>7, <1>9

-----------------------------------------------------------------------------
(* The bytes of a message: the code's loops and FrameStream's definitions *)

(* The bytes at a sequence of places. *)
BytesOf(bytes, places) == [k \in 1..Len(places) |-> bytes[places[k]]]

(* The k-th place of a set. *)
NthOf(P, k) == CHOOSE i \in P : Cardinality({j \in P : j <= i}) = k

(* It is the k-th that the loop finds. *)
LEMMA NthPlace ==
  ASSUME NEW frame, Len(frame) \in Nat, NEW fields, NEW k \in 1..Len(PlacesOf(frame, fields))
  PROVE  NthOf(PlacesWithin(frame, fields, Len(frame)), k) = PlacesOf(frame, fields)[k]
<1>1. PICK s : s = PlacesOf(frame, fields)
  OBVIOUS
<1>2. IsPlaces(s, frame, fields, Len(frame))
  BY <1>1, PlacesOfIs
<1>3. PICK P : P = PlacesWithin(frame, fields, Len(frame))
  OBVIOUS
<1>4. ASSUME NEW i \in P
      PROVE  {j \in P : j <= i} = PlacesWithin(frame, fields, i)
  BY <1>3 DEF PlacesWithin
<1>5. k \in 1..Len(s)
  BY <1>1
<1>6. ASSUME NEW i \in P
      PROVE  Cardinality({j \in P : j <= i}) = k <=> i = s[k]
  <2>1. Cardinality(PlacesWithin(frame, fields, i)) = k <=> i = s[k]
    BY <1>2, <1>3, <1>5, PlaceOfRank
  <2> QED BY <1>4, <2>1
<1>7. s[k] \in P
  <2>1. s \in Seq(1..Len(frame)) /\ frame[s[k]] \in fields
    BY <1>2, <1>5 DEF IsPlaces
  <2>2. s[k] \in 1..Len(frame)
    BY <1>5, <2>1
  <2> QED BY <1>3, <2>1, <2>2 DEF PlacesWithin
<1> QED BY <1>1, <1>3, <1>6, <1>7 DEF NthOf

(* The bytes the loops collect are those that FrameStream's definition     *)
(* names by how many precede them.                                         *)
LEMMA BytesAtPlaces ==
  ASSUME NEW frame, Len(frame) \in Nat, NEW fields, NEW bytes
  PROVE  Stream!BytesAt(bytes, frame, fields) = BytesOf(bytes, PlacesOf(frame, fields))
<1>1. PICK s : s = PlacesOf(frame, fields)
  OBVIOUS
<1>2. PICK P : P = PlacesWithin(frame, fields, Len(frame))
  OBVIOUS
<1>3. Len(s) = Cardinality(P)
  BY <1>1, <1>2, PlacesOfIs DEF IsPlaces
<1>4. \A k \in 1..Len(s) : NthOf(P, k) = s[k]
  BY <1>1, <1>2, NthPlace
<1>5. Stream!BytesAt(bytes, frame, fields) =
        [k \in 1..Cardinality(PlacesWithin(frame, fields, Len(frame))) |->
           bytes[NthOf(PlacesWithin(frame, fields, Len(frame)), k)]]
  BY DEF Stream!BytesAt, Stream!Cardinality, Cardinality, NthOf, PlacesWithin
<1>6. Stream!BytesAt(bytes, frame, fields) = [k \in 1..Len(s) |-> bytes[NthOf(P, k)]]
  BY <1>2, <1>3, <1>5
<1> QED BY <1>1, <1>4, <1>6 DEF BytesOf

(* A buffer with the bytes of a message, as a sequence has them. *)
Holds(buf, bytes, n) == \A i \in 0..(n - 1) : buf[i] = bytes[i + 1]

(* At its own places a message has the bytes the buffer has there. *)
LEMMA HeldBytes ==
  ASSUME NEW frame, Len(frame) \in Nat, NEW fields, NEW buf, NEW bytes,
         Holds(buf, bytes, Len(frame)),
         NEW s, s = PlacesOf(frame, fields), NEW k \in 1..Len(s)
  PROVE  s[k] \in 1..Len(frame) /\ buf[s[k] - 1] = bytes[s[k]]
<1>1. IsPlaces(s, frame, fields, Len(frame))
  BY PlacesOfIs
<1>2. PICK p \in 1..Len(frame) : s[k] = p
  BY <1>1 DEF IsPlaces
<1>3. p - 1 \in 0..(Len(frame) - 1) /\ (p - 1) + 1 = p
  BY <1>2
<1> QED BY <1>2, <1>3 DEF Holds

(* Deleting a field leaves the bytes of the others. *)
LEMMA DeletionLeaves ==
  ASSUME NEW frame, Len(frame) \in Nat, NEW field, NEW buf, NEW bytes,
         Holds(buf, bytes, Len(frame))
  PROVE  deleteFieldAndShiftBuffer(buf, frame, field) =
           Stream!BytesAt(bytes, frame, Stream!Fields(frame) \ {field})
<1>1. PICK fields : fields = FieldsOf(frame) \ {field}
  OBVIOUS
<1>2. PICK s : s = PlacesOf(frame, fields)
  OBVIOUS
<1>3. Stream!Fields(frame) = FieldsOf(frame)
  BY DEF Stream!Fields, FieldsOf
<1>4. deleteFieldAndShiftBuffer(buf, frame, field) = [k \in 1..Len(s) |-> buf[s[k] - 1]]
  BY <1>1, <1>2 DEF deleteFieldAndShiftBuffer
<1>5. Stream!BytesAt(bytes, frame, fields) = BytesOf(bytes, s)
  BY <1>2, BytesAtPlaces
<1>6. \A k \in 1..Len(s) : buf[s[k] - 1] = bytes[s[k]]
  BY <1>2, HeldBytes
<1> QED BY <1>1, <1>3, <1>4, <1>5, <1>6 DEF BytesOf

(* How many places the loop finds. *)
LEMMA PlacesCount ==
  ASSUME NEW frame, Len(frame) \in Nat, NEW field
  PROVE  /\ Len(PlacesOf(frame, {field})) = Cardinality(Positions(frame, field))
         /\ Len(PlacesOf(frame, {field})) \in Nat
<1>1. PICK s : s = PlacesOf(frame, {field})
  OBVIOUS
<1>2. IsPlaces(s, frame, {field}, Len(frame))
  BY <1>1, PlacesOfIs
<1>3. Positions(frame, field) = PlacesWithin(frame, {field}, Len(frame))
  BY DEF Positions, PlacesWithin
<1>4. Len(s) = Cardinality(Positions(frame, field)) /\ s \in Seq(1..Len(frame))
  BY <1>2, <1>3 DEF IsPlaces
<1>5. Len(s) \in Nat
  BY <1>4, LenProperties
<1> QED BY <1>1, <1>4, <1>5

(* Extracting a field from a whole message gives the field's bytes. *)
LEMMA ExtractionGives ==
  ASSUME NEW frame, Len(frame) \in Nat, NEW field, NEW buf, NEW bytes, NEW dst,
         NEW srcLen \in Nat, Len(frame) <= srcLen, NEW dstLen \in Nat,
         Cardinality(Positions(frame, field)) < dstLen,
         Holds(buf, bytes, Len(frame))
  PROVE  extractFieldFromBuffer(buf, srcLen, frame, field, dst, dstLen) =
           Stream!FieldBytes(bytes, frame, field)
<1>1. PICK s : s = PlacesOf(frame, {field})
  OBVIOUS
<1>2. Len(s) < dstLen
  BY <1>1, PlacesCount
<1>3. Stream!FieldBytes(bytes, frame, field) = BytesOf(bytes, s)
  BY <1>1, BytesAtPlaces DEF Stream!FieldBytes
<1>4. extractFieldFromBuffer(buf, srcLen, frame, field, dst, dstLen) =
        [k \in 1..Len(s) |-> IF s[k] - 1 < srcLen THEN buf[s[k] - 1] ELSE dst[k]]
  BY <1>1, <1>2 DEF extractFieldFromBuffer
<1>5. ASSUME NEW k \in 1..Len(s)
      PROVE  (IF s[k] - 1 < srcLen THEN buf[s[k] - 1] ELSE dst[k]) = bytes[s[k]]
  <2>1. s[k] \in 1..Len(frame) /\ buf[s[k] - 1] = bytes[s[k]]
    BY <1>1, HeldBytes
  <2> QED BY <2>1
<1> QED BY <1>3, <1>4, <1>5 DEF BytesOf

(* The len bytes of a field lie together. *)
LiesAt(frame, field, first, len) ==
  /\ Len(frame) \in Nat /\ first \in Nat \ {0} /\ len \in Nat
  /\ Positions(frame, field) = first..(first + len - 1)

(* The k-th place of such a field. *)
LEMMA ContinuousPlaces ==
  ASSUME NEW frame, NEW field, NEW first, NEW len, LiesAt(frame, field, first, len)
  PROVE  /\ Len(PlacesOf(frame, {field})) = len
         /\ \A k \in 1..len : PlacesOf(frame, {field})[k] = first + k - 1
<1> USE DEF LiesAt
<1>1. PICK s : s = PlacesOf(frame, {field})
  OBVIOUS
<1>2. IsPlaces(s, frame, {field}, Len(frame))
  BY <1>1, PlacesOfIs
<1>3. Positions(frame, field) = PlacesWithin(frame, {field}, Len(frame))
  BY DEF Positions, PlacesWithin
<1>4. Len(s) = len
  <2>1. Cardinality(first..(first + len - 1)) = len
    BY FS_Interval
  <2> QED BY <1>2, <1>3, <2>1 DEF IsPlaces
<1>5. ASSUME NEW k \in 1..len PROVE s[k] = first + k - 1
  <2>1. PICK p \in Int : p = first + k - 1
    OBVIOUS
  <2>2. p \in Positions(frame, field)
    BY <2>1
  <2>3. p \in 1..Len(frame)
    BY <2>2 DEF Positions
  <2>4. PlacesWithin(frame, {field}, p) = first..p
    <3>1. PlacesWithin(frame, {field}, p) = {i \in Positions(frame, field) : i <= p}
      BY <2>3 DEF PlacesWithin, Positions
    <3>2. {i \in first..(first + len - 1) : i <= p} = first..p
      BY <2>1
    <3> QED BY <3>1, <3>2
  <2>5. Cardinality(first..p) = k
    BY <2>1, FS_Interval
  <2> QED BY <1>2, <1>3, <1>4, <2>1, <2>2, <2>4, <2>5, PlaceOfRank
<1> QED BY <1>1, <1>4, <1>5

(* FrameStream's bytes of such a field are the part of the message there. *)
LEMMA ContinuousBytes ==
  ASSUME NEW frame, NEW field, NEW first, NEW len, LiesAt(frame, field, first, len), NEW bytes
  PROVE  Stream!FieldBytes(bytes, frame, field) = [k \in 1..len |-> bytes[first + k - 1]]
<1>1. PICK s : s = PlacesOf(frame, {field})
  OBVIOUS
<1>2. Stream!FieldBytes(bytes, frame, field) = BytesOf(bytes, s)
  BY <1>1, BytesAtPlaces DEF Stream!FieldBytes, LiesAt
<1>3. /\ Len(PlacesOf(frame, {field})) = len
      /\ \A k \in 1..len : PlacesOf(frame, {field})[k] = first + k - 1
  BY ContinuousPlaces
<1> QED BY <1>1, <1>2, <1>3 DEF BytesOf

-----------------------------------------------------------------------------
(* The fields that every frame has at one place *)

SyncPlace == findit(defaultSerialFrame, FIELD_SYNC)
IdPlace   == findit(defaultSerialFrame, FIELD_FRAME)

(* findit gives the first place of a field, in a frame that has it. *)
LEMMA FirstPlace ==
  ASSUME NEW frame \in Seq(Nat), NEW field, Positions(frame, field) # {}
  PROVE  /\ findit(frame, field) + 1 \in Positions(frame, field)
         /\ \A p \in Positions(frame, field) : findit(frame, field) + 1 <= p
         /\ findit(frame, field) \in Nat
<1>1. PICK n \in 0..(Len(frame) - 1) :
        n = findit(frame, field) /\ frame[n + 1] = field /\ \A i \in 1..n : frame[i] # field
  BY FinditFirst
<1>2. Len(frame) \in Nat
  OBVIOUS
<1>3. n + 1 \in Positions(frame, field)
  BY <1>1, <1>2 DEF Positions
<1>4. ASSUME NEW p \in Positions(frame, field) PROVE n + 1 <= p
  <2>1. p \in 1..Len(frame) /\ frame[p] = field
    BY DEF Positions
  <2> QED BY <1>1, <1>2, <2>1
<1> QED BY <1>1, <1>3, <1>4

(* A finite set without a gap is an interval. *)
LEMMA NoGap ==
  ASSUME NEW P, IsFiniteSet(P), P \in SUBSET Nat, NEW first \in P, \A p \in P : first <= p,
         \A i, j \in P : \A k \in i..j : k \in P
  PROVE  P = first..(first + Cardinality(P) - 1)
<1>1. PICK c \in Nat : c = Cardinality(P)
  BY FS_CardinalityType
<1>2. ASSUME NEW p \in P PROVE p \in first..(first + c - 1)
  <2>1. first..p \in SUBSET P /\ first \in Nat /\ p \in Nat /\ first <= p
    OBVIOUS
  <2>2. Cardinality(first..p) <= c
    BY <1>1, <2>1, FS_Subset
  <2>3. Cardinality(first..p) = p - first + 1
    BY <2>1, FS_Interval
  <2> QED BY <2>1, <2>2, <2>3
<1>3. P \in SUBSET (first..(first + c - 1)) /\ first \in Nat
  BY <1>2
<1>4. /\ IsFiniteSet(first..(first + c - 1))
      /\ Cardinality(first..(first + c - 1)) = c
  <2>1. PICK last \in Int : last = first + c - 1
    BY <1>1, <1>3
  <2>2. IsFiniteSet(first..last) /\ Cardinality(first..last) = IF first > last THEN 0 ELSE last - first + 1
    BY <1>3, FS_Interval
  <2>3. (IF first > last THEN 0 ELSE last - first + 1) = c
    BY <1>1, <1>3, <2>1
  <2> QED BY <2>1, <2>2, <2>3
<1> QED BY <1>1, <1>3, <1>4, FS_Subset

(* Every frame has the sync value's bytes together, at one place. *)
LEMMA SyncLies ==
  ASSUME UniformFrames, NEW id \in DOMAIN Frames
  PROVE  LiesAt(Frames[id], FIELD_SYNC, SyncPlace + 1, Len(SyncValue))
<1>1. PICK frame : frame = Frames[id]
  OBVIOUS
<1>2. PICK P : P = Positions(frame, FIELD_SYNC)
  OBVIOUS
<1>3. /\ frame \in Seq(Nat) /\ Len(frame) \in Nat /\ P # {} /\ SyncIsContinuous(frame)
      /\ Cardinality(P) = Len(SyncValue)
  BY <1>1, <1>2, FramesAssumption DEF CtorAccepts, FrameAccepted
<1>4. findit(frame, FIELD_SYNC) = SyncPlace
  BY <1>1 DEF UniformFrames, SyncPlace
<1>5. SyncPlace + 1 \in P /\ (\A p \in P : SyncPlace + 1 <= p) /\ SyncPlace \in Nat
  BY <1>2, <1>3, <1>4, FirstPlace
<1>6. IsFiniteSet(P) /\ P \in SUBSET Nat
  <2>1. P \in SUBSET (1..Len(frame))
    BY <1>2 DEF Positions
  <2>2. IsFiniteSet(1..Len(frame))
    BY <1>3, FS_Interval
  <2>3. P \in SUBSET Nat
    BY <1>3, <2>1
  <2> QED BY <2>1, <2>2, <2>3, FS_Subset
<1>7. \A i, j \in P : \A k \in i..j : k \in P
  BY <1>2, <1>3 DEF SyncIsContinuous
<1>8. P = (SyncPlace + 1)..(SyncPlace + 1 + Cardinality(P) - 1)
  BY <1>5, <1>6, <1>7, NoGap
<1> QED BY <1>1, <1>2, <1>3, <1>5, <1>8, Sizes DEF LiesAt

(* If the default frame has a frame id, every frame has it, at one place. *)
LEMMA IdLies ==
  ASSUME UniformFrames, ReadsFrameId, NEW id \in DOMAIN Frames
  PROVE  LiesAt(Frames[id], FIELD_FRAME, IdPlace + 1, 1)
<1>1. PICK frame : frame = Frames[id]
  OBVIOUS
<1>2. PICK P : P = Positions(frame, FIELD_FRAME)
  OBVIOUS
<1>3. /\ frame \in Seq(Nat) /\ Len(frame) \in Nat
      /\ Cardinality(P) <= 1 /\ FIELD_FRAME \in FieldsOf(frame)
  BY <1>1, <1>2, FramesAssumption DEF CtorAccepts, FrameAccepted, UniformFrames
<1>4. findit(frame, FIELD_FRAME) = IdPlace
  BY <1>1, FramesAssumption DEF CtorAccepts, FrameAccepted, IdPlace, defaultSerialFrame
<1>5. P # {}
  BY <1>2, <1>3 DEF FieldsOf, Positions
<1>6. IdPlace + 1 \in P /\ IdPlace \in Nat
  BY <1>2, <1>3, <1>4, <1>5, FirstPlace
<1>7. IsFiniteSet(P)
  <2>1. P \in SUBSET (1..Len(frame))
    BY <1>2 DEF Positions
  <2>2. IsFiniteSet(1..Len(frame))
    BY <1>3, FS_Interval
  <2> QED BY <2>1, <2>2, FS_Subset
<1>8. P = {IdPlace + 1}
  <2>1. {IdPlace + 1} \in SUBSET P /\ Cardinality({IdPlace + 1}) = 1
    BY <1>6, FS_Singleton
  <2>2. Cardinality({IdPlace + 1}) <= Cardinality(P)
    BY <1>7, <2>1, FS_Subset
  <2>3. Cardinality({IdPlace + 1}) = Cardinality(P)
    BY <1>3, <1>7, <2>1, <2>2, FS_CardinalityType
  <2> QED BY <1>7, <2>1, <2>3, FS_Subset
<1>9. P = (IdPlace + 1)..(IdPlace + 1 + 1 - 1)
  BY <1>6, <1>8
<1> QED BY <1>1, <1>2, <1>3, <1>6, <1>9 DEF LiesAt

-----------------------------------------------------------------------------
(* A message in the buffer and the message in the source *)

(* How many bytes of the source are no longer in the buffer. *)
Taken == received - msgBufferCursorPos

(* The bytes of the source at place b, as many as a message has. *)
MessageAt(b, id) == SubSeq(source.bytes, b + 1, b + Len(Frames[id]))

(* The call that hands over the message at place b. *)
CallAt(b, id, ok, at) ==
  [frame     |-> id,
   fields    |-> Stream!MessageOf(MessageAt(b, id), id).fields,
   positions |-> [i \in 1..Len(Frames[id]) |-> b + i],
   ok        |-> ok,
   at        |-> at]

(* The size bytes from msgStart are in the buffer. *)
IsWhole(size) == msgStart \in Nat /\ msgStart + size <= msgBufferCursorPos

(* The cells of a whole message are those received for it. *)
LEMMA CellsReceived ==
  ASSUME TypeOK, BufferInv, NEW mem \in Memories, NEW size \in Nat, IsWhole(size),
         NEW b, b = Taken + msgStart
  PROVE  /\ b \in Nat /\ b + size <= received
         /\ \A i \in 0..(size - 1) :
              MessageCells(mem, size)[i] = [val |-> source.bytes[b + i + 1], pos |-> b + i + 1]
<1>1. /\ msgBufferCursorPos \in 0..BufferSize /\ BufferSize \in Nat \ {0}
      /\ received \in Nat /\ msgBufferCursorPos <= received
  BY Sizes, SourceAssumption DEF TypeOK, BufferInv
<1>2. PICK m \in Nat : m = msgStart
  BY DEF IsWhole
<1>3. b \in Nat /\ b + size <= received /\ m + size <= msgBufferCursorPos
  BY <1>1, <1>2 DEF Taken, IsWhole
<1>4. ASSUME NEW i \in 0..(size - 1)
      PROVE  MessageCells(mem, size)[i] = [val |-> source.bytes[b + i + 1], pos |-> b + i + 1]
  <2>1. MessageCells(mem, size)[i] = mem[m + i]
    BY <1>2 DEF MessageCells
  <2>2. /\ m + i \in Addresses /\ m + i \in 0..(msgBufferCursorPos - 1)
        /\ received - msgBufferCursorPos + (m + i) + 1 = b + i + 1
    BY <1>1, <1>2, <1>3 DEF Addresses, Taken
  <2>3. mem[m + i] = msgBuffer[m + i]
    BY <2>2, MemoryHasBuffer
  <2> QED BY <2>1, <2>2, <2>3 DEF BufferInv
<1> QED BY <1>3, <1>4

(* The bytes of a message of the source. *)
LEMMA MessageAtIs ==
  ASSUME TypeOK, NEW id \in DOMAIN Frames, NEW b \in Nat, b + Len(Frames[id]) <= Len(source.bytes)
  PROVE  /\ Len(MessageAt(b, id)) = Len(Frames[id])
         /\ \A i \in 1..Len(Frames[id]) : MessageAt(b, id)[i] = source.bytes[b + i]
<1>1. PICK n \in Nat : n = Len(Frames[id])
  BY FrameFacts
<1>2. PICK bytes \in Seq(Values) : bytes = source.bytes
  BY SourceAssumption DEF TypeOK
<1>3. b + n <= Len(bytes) /\ Len(bytes) \in Nat
  BY <1>1, <1>2
<1>4. \A i \in (b + 1)..(b + n) : bytes[i] \in Values
  BY <1>2, <1>3
<1>5. /\ Len(SubSeq(bytes, b + 1, b + n)) = n
      /\ \A i \in 1..n : SubSeq(bytes, b + 1, b + n)[i] = bytes[b + i]
  BY <1>3, <1>4, SubSeqProperties
<1> QED BY <1>1, <1>2, <1>5 DEF MessageAt

(* A whole message in the buffer holds the bytes of the source. *)
LEMMA MessageHeld ==
  ASSUME TypeOK, BufferInv, NEW mem \in Memories, NEW id \in DOMAIN Frames,
         IsWhole(Len(Frames[id])), NEW b, b = Taken + msgStart
  PROVE  /\ b \in Nat /\ b + Len(Frames[id]) <= received
         /\ b + Len(Frames[id]) <= Len(source.bytes)
         /\ Holds(Bytes(MessageCells(mem, Len(Frames[id]))), MessageAt(b, id), Len(Frames[id]))
         /\ \A i \in 0..(Len(Frames[id]) - 1) :
              MessageCells(mem, Len(Frames[id]))[i].pos = b + i + 1
<1>1. PICK n \in Nat : n = Len(Frames[id])
  BY FrameFacts
<1>2. PICK cells : cells = MessageCells(mem, n)
  OBVIOUS
<1>3. /\ b \in Nat /\ b + n <= received
      /\ \A i \in 0..(n - 1) :
           cells[i] = [val |-> source.bytes[b + i + 1], pos |-> b + i + 1]
  BY <1>1, <1>2, CellsReceived
<1>4. b + n <= Len(source.bytes)
  BY <1>3, SourceAssumption DEF TypeOK
<1>5. \A i \in 1..n : MessageAt(b, id)[i] = source.bytes[b + i]
  BY <1>1, <1>3, <1>4, MessageAtIs
<1>6. DOMAIN cells = 0..(n - 1)
  BY <1>2 DEF MessageCells
<1>7. ASSUME NEW i \in 0..(n - 1)
      PROVE  Bytes(cells)[i] = MessageAt(b, id)[i + 1] /\ cells[i].pos = b + i + 1
  <2>1. Bytes(cells)[i] = cells[i].val
    BY <1>6 DEF Bytes
  <2>2. cells[i].val = source.bytes[b + i + 1] /\ cells[i].pos = b + i + 1
    <3>1. cells[i] = [val |-> source.bytes[b + i + 1], pos |-> b + i + 1]
      BY <1>3
    <3> QED BY <3>1
  <2>3. i + 1 \in 1..n /\ b + (i + 1) = b + i + 1
    BY <1>3
  <2> QED BY <1>5, <2>1, <2>2, <2>3
<1> QED BY <1>1, <1>2, <1>3, <1>4, <1>7 DEF Holds

(* The call of the callback for a whole message. *)
LEMMA CallIs ==
  ASSUME TypeOK, BufferInv, NEW mem \in Memories, NEW id, id = frameIdToUse(mem),
         IsWhole(Len(Frames[id])), NEW b, b = Taken + msgStart, NEW ok
  PROVE  Call(mem, msgValueMap(mem), ok) = CallAt(b, id, ok, received)
<1>1. id \in DOMAIN Frames /\ frameToUse(mem) = Frames[id]
  BY SelectedFrame DEF frameToUse
<1>2. PICK frame : frame = Frames[id]
  OBVIOUS
<1>3. PICK cells : cells = MessageCells(mem, Len(frame))
  OBVIOUS
<1>4. PICK bytes : bytes = MessageAt(b, id)
  OBVIOUS
<1>5. /\ Holds(Bytes(cells), bytes, Len(frame))
      /\ \A i \in 0..(Len(frame) - 1) : cells[i].pos = b + i + 1
      /\ b \in Nat
  BY <1>1, <1>2, <1>3, <1>4, MessageHeld
<1>6. Len(frame) \in Nat /\ MaxDataBytes \in Nat
  BY <1>1, <1>2, FrameFacts, SizesAssumption
<1>7. ASSUME NEW f \in FieldsOf(frame)
      PROVE  extractFieldFromBuffer(Bytes(cells), Len(frame), frame, f, <<>>, MaxDataBytes) =
               Stream!FieldBytes(bytes, frame, f)
  <2>1. Cardinality(Positions(frame, f)) < MaxDataBytes
    BY <1>1, <1>2, FramesAssumption
  <2>2. Len(frame) <= Len(frame)
    BY <1>6
  <2> QED BY <1>5, <1>6, <2>1, <2>2, ExtractionGives
<1>8. Stream!Fields(frame) = FieldsOf(frame)
  BY DEF Stream!Fields, FieldsOf
<1>9. msgValueMap(mem) = Stream!MessageOf(bytes, id).fields
  <2>1. msgValueMap(mem) =
          [f \in FieldsOf(frame) |->
             extractFieldFromBuffer(Bytes(cells), Len(frame), frame, f, <<>>, MaxDataBytes)]
    BY <1>1, <1>2, <1>3 DEF msgValueMap
  <2>2. Stream!MessageOf(bytes, id).fields =
          [f \in FieldsOf(frame) |-> Stream!FieldBytes(bytes, frame, f)]
    BY <1>2, <1>8 DEF Stream!MessageOf
  <2> QED BY <1>7, <2>1, <2>2
<1>10. ASSUME NEW i \in 1..Len(frame) PROVE cells[i - 1].pos = b + i
  <2>1. i - 1 \in 0..(Len(frame) - 1) /\ b + (i - 1) + 1 = b + i
    BY <1>5, <1>6
  <2> QED BY <1>5, <2>1
<1>11. [i \in 1..Len(frame) |-> cells[i - 1].pos] = [i \in 1..Len(frame) |-> b + i]
  BY <1>10
<1>12. Call(mem, msgValueMap(mem), ok) =
         [frame |-> id, fields |-> msgValueMap(mem),
          positions |-> [i \in 1..Len(frame) |-> cells[i - 1].pos],
          ok |-> ok, at |-> received]
  BY <1>1, <1>2, <1>3 DEF Call
<1> QED BY <1>2, <1>4, <1>9, <1>11, <1>12 DEF CallAt

(* What FrameStream asks of a message's checksum. *)
ChecksumPasses(bytes, frame) ==
  FIELD_CHECKSUM \in FieldsOf(frame) =>
    ChecksumEvaluator(Stream!BytesAt(bytes, frame, Stream!Fields(frame) \ {FIELD_CHECKSUM}),
                      Stream!FieldBytes(bytes, frame, FIELD_CHECKSUM))

(* The user's test of a whole message is FrameStream's. *)
LEMMA UserTestIs ==
  ASSUME TypeOK, BufferInv, NEW mem \in Memories, NEW id, id = frameIdToUse(mem),
         IsWhole(Len(Frames[id])), NEW b, b = Taken + msgStart, EnoughBytes(mem)
  PROVE  msgPassesUserTest(mem) <=> ChecksumPasses(MessageAt(b, id), Frames[id])
<1>1. id \in DOMAIN Frames /\ frameToUse(mem) = Frames[id]
  BY SelectedFrame DEF frameToUse
<1>2. PICK frame : frame = Frames[id]
  OBVIOUS
<1>3. PICK buf : buf = Bytes(MessageCells(mem, Len(frame)))
  OBVIOUS
<1>4. PICK bytes : bytes = MessageAt(b, id)
  OBVIOUS
<1>5. Holds(buf, bytes, Len(frame))
  BY <1>1, <1>2, <1>3, <1>4, MessageHeld
<1>6. /\ Len(frame) \in Nat /\ MaxDataBytes \in Nat /\ msgBufferCursorPos \in Nat
      /\ Len(frame) <= msgBufferCursorPos
  BY <1>1, <1>2, FrameFacts, Sizes, SizesAssumption DEF EnoughBytes, TypeOK
<1>7. deleteChecksumFromBuffer(buf, frame) =
        Stream!BytesAt(bytes, frame, Stream!Fields(frame) \ {FIELD_CHECKSUM})
  BY <1>5, <1>6, DeletionLeaves DEF deleteChecksumFromBuffer
<1>8. ASSUME FIELD_CHECKSUM \in FieldsOf(frame)
      PROVE  extractFieldFromBuffer(buf, msgBufferCursorPos, frame, FIELD_CHECKSUM,
                                    <<0, 0>>, MaxDataBytes) =
               Stream!FieldBytes(bytes, frame, FIELD_CHECKSUM)
  <2>1. Cardinality(Positions(frame, FIELD_CHECKSUM)) < MaxDataBytes
    BY <1>1, <1>2, <1>8, FramesAssumption
  <2> QED BY <1>5, <1>6, <2>1, ExtractionGives
<1>9. msgPassesUserTest(mem) <=>
        (FIELD_CHECKSUM \in FieldsOf(frame) =>
           ChecksumEvaluator(
             deleteChecksumFromBuffer(buf, frame),
             extractFieldFromBuffer(buf, msgBufferCursorPos, frame, FIELD_CHECKSUM,
                                    <<0, 0>>, MaxDataBytes)))
  BY <1>1, <1>2, <1>3 DEF msgPassesUserTest
<1> QED BY <1>2, <1>4, <1>7, <1>8, <1>9 DEF ChecksumPasses

-----------------------------------------------------------------------------
(* The first sync value, in the buffer and in the source *)

SyncAt(p) == \A k \in 1..Len(SyncValue) : source.bytes[p + k] = SyncValue[k]

(* The first sync value of the source from place t is at q. *)
FirstSync(t, q) ==
  /\ t \in Nat /\ q \in Nat /\ t <= q
  /\ SyncAt(q)
  /\ \A p \in t..(q - 1) : ~SyncAt(p)

(* memstr finds the needle if it occurs, no later than where it occurs. *)
LEMMA MemstrFinds ==
  ASSUME NEW haystack, NEW num \in Nat, NEW needle, Len(needle) \in Nat \ {0},
         NEW i \in 0..(num - Len(needle)), MatchesAt(haystack, needle, i)
  PROVE  memstr(haystack, num, needle) # NotFound /\ memstr(haystack, num, needle) <= i
<1>1. PICK hits : hits = {j \in 0..(num - Len(needle)) : MatchesAt(haystack, needle, j)}
  OBVIOUS
<1>2. i \in hits /\ hits \in SUBSET Nat
  BY <1>1
<1>3. \E j \in hits : \A k \in hits : j <= k
  BY <1>2, LeastElement
<1>4. PICK first : first = CHOOSE j \in hits : \A k \in hits : j <= k
  OBVIOUS
<1>5. first \in hits /\ \A k \in hits : first <= k
  BY <1>3, <1>4
<1>6. memstr(haystack, num, needle) = first
  BY <1>1, <1>2, <1>4 DEF memstr
<1>7. first \in Nat /\ first <= i
  BY <1>2, <1>5
<1> QED BY <1>6, <1>7 DEF NotFound

(* In the buffer's bytes the sync value is where it is in the source. *)
LEMMA MatchIs ==
  ASSUME TypeOK, BufferInv, NEW i \in Nat, i + Len(SyncValue) <= msgBufferCursorPos
  PROVE  MatchesAt(Bytes(msgBuffer), SyncValue, i) <=> SyncAt(Taken + i)
<1>1. PICK n \in Nat : n = Len(SyncValue)
  BY Sizes
<1>2. /\ msgBufferCursorPos \in 0..BufferSize /\ BufferSize \in Nat \ {0}
      /\ received \in Nat /\ msgBufferCursorPos <= received
  BY Sizes, SourceAssumption DEF TypeOK, BufferInv
<1>3. ASSUME NEW k \in 1..n
      PROVE  Bytes(msgBuffer)[i + k - 1] = source.bytes[Taken + i + k]
  <2>1. PICK a \in Nat : a = i + k - 1
    OBVIOUS
  <2>2. /\ a \in 0..(msgBufferCursorPos - 1) /\ a \in Addresses
        /\ received - msgBufferCursorPos + a + 1 = Taken + i + k
    BY <1>1, <1>2, <2>1 DEF Taken, Addresses
  <2>3. msgBuffer[a] = [val |-> source.bytes[Taken + i + k], pos |-> Taken + i + k]
    BY <2>2 DEF BufferInv
  <2>4. Bytes(msgBuffer)[a] = msgBuffer[a].val
    BY <2>2 DEF Bytes, TypeOK
  <2>5. msgBuffer[a].val = source.bytes[Taken + i + k]
    BY <2>3
  <2> QED BY <2>1, <2>4, <2>5
<1> QED BY <1>1, <1>3 DEF MatchesAt, SyncAt

(* memstr finds the first sync value that the source has behind the bytes  *)
(* that are no longer in the buffer.                                       *)
LEMMA SyncFoundAt ==
  ASSUME TypeOK, BufferInv, syncLocation # NotFound
  PROVE  /\ syncLocation \in Nat
         /\ syncLocation + Len(SyncValue) <= msgBufferCursorPos
         /\ FirstSync(Taken, Taken + syncLocation)
<1>1. PICK n \in Nat \ {0} : n = Len(SyncValue)
  BY Sizes
<1>2. /\ msgBufferCursorPos \in Nat /\ received \in Nat /\ msgBufferCursorPos <= received
  BY Sizes, SourceAssumption DEF TypeOK, BufferInv
<1>3. PICK loc : loc = syncLocation
  OBVIOUS
<1>4. /\ loc \in 0..(msgBufferCursorPos - n)
      /\ MatchesAt(Bytes(msgBuffer), SyncValue, loc)
      /\ \A i \in 0..(loc - 1) : ~MatchesAt(Bytes(msgBuffer), SyncValue, i)
  BY <1>1, <1>2, <1>3, MemstrFirst DEF syncLocation
<1>5. PICK t \in Nat : t = Taken
  BY <1>2 DEF Taken
<1>6. loc \in Nat /\ loc + n <= msgBufferCursorPos
  BY <1>2, <1>4
<1>7. SyncAt(t + loc)
  BY <1>1, <1>4, <1>5, <1>6, MatchIs
<1>8. ASSUME NEW p \in t..(t + loc - 1) PROVE ~SyncAt(p)
  <2>1. PICK i \in Nat : i = p - t
    BY <1>5, <1>6
  <2>2. i \in 0..(loc - 1) /\ i + n <= msgBufferCursorPos /\ p = t + i
    BY <1>2, <1>5, <1>6, <2>1
  <2> QED BY <1>1, <1>4, <1>5, <2>2, MatchIs
<1> QED BY <1>1, <1>3, <1>5, <1>6, <1>7, <1>8 DEF FirstSync

(* And it finds that value as soon as it is received. *)
LEMMA SyncIsFound ==
  ASSUME TypeOK, BufferInv, NEW q, FirstSync(Taken, q), q + Len(SyncValue) <= received
  PROVE  syncLocation # NotFound /\ q = Taken + syncLocation
<1>1. PICK n \in Nat \ {0} : n = Len(SyncValue)
  BY Sizes
<1>2. /\ msgBufferCursorPos \in Nat /\ received \in Nat /\ msgBufferCursorPos <= received
  BY Sizes, SourceAssumption DEF TypeOK, BufferInv
<1>3. PICK t \in Nat : t = Taken
  BY <1>2 DEF Taken
<1>4. PICK i \in Nat : i = q - t
  BY <1>3 DEF FirstSync
<1>5. q \in Nat /\ SyncAt(q) /\ q = t + i /\ i + n <= msgBufferCursorPos
  BY <1>1, <1>2, <1>3, <1>4 DEF FirstSync, Taken
<1>6. MatchesAt(Bytes(msgBuffer), SyncValue, i) /\ i \in 0..(msgBufferCursorPos - n)
  BY <1>1, <1>2, <1>3, <1>5, MatchIs
<1>7. PICK loc : loc = syncLocation
  OBVIOUS
<1>8. loc # NotFound /\ loc <= i
  BY <1>1, <1>2, <1>6, <1>7, MemstrFinds DEF syncLocation
<1>9. loc \in Nat /\ SyncAt(t + loc)
  BY <1>3, <1>7, <1>8, SyncFoundAt DEF FirstSync
<1>10. ASSUME loc < i PROVE FALSE
  <2>1. t + loc \in t..(q - 1)
    BY <1>5, <1>9, <1>10
  <2> QED BY <1>3, <1>9, <2>1 DEF FirstSync
<1>11. loc = i
  BY <1>8, <1>9, <1>10
<1> QED BY <1>3, <1>5, <1>7, <1>8, <1>11

-----------------------------------------------------------------------------
(* The messages of the source *)

(* A message stands in the source at place b, and the processor can tell   *)
(* its frame.                                                              *)
IsMessageAt(b, id) ==
  /\ id \in DOMAIN Frames
  /\ b \in Nat /\ b + Len(Frames[id]) <= Len(source.bytes)
  /\ ReadsFrameId \/ id = DefaultFrame
  /\ Stream!IsMessage(MessageAt(b, id), id)

(* The sync bytes of a message are at the place of the default frame's. *)
LEMMA SyncBytes ==
  ASSUME TypeOK, UniformFrames, NEW id \in DOMAIN Frames, NEW b \in Nat,
         b + Len(Frames[id]) <= Len(source.bytes)
  PROVE  /\ SyncPlace \in Nat /\ SyncPlace + Len(SyncValue) <= Len(Frames[id])
         /\ Stream!FieldBytes(MessageAt(b, id), Frames[id], FIELD_SYNC) = SyncValue
              <=> SyncAt(b + SyncPlace)
<1>1. PICK frame : frame = Frames[id]
  OBVIOUS
<1>2. PICK n \in Nat \ {0} : n = Len(SyncValue)
  BY Sizes
<1>3. PICK place : place = SyncPlace
  OBVIOUS
<1>4. PICK bytes : bytes = MessageAt(b, id)
  OBVIOUS
<1>5. LiesAt(frame, FIELD_SYNC, place + 1, n)
  BY <1>1, <1>2, <1>3, SyncLies
<1>6. /\ Positions(frame, FIELD_SYNC) = (place + 1)..(place + n)
      /\ place + 1 \in Nat \ {0} /\ Len(frame) \in Nat
  <2>1. (place + 1) + n - 1 = place + n
    BY <1>3, FrameFacts DEF SyncPlace
  <2> QED BY <1>5, <2>1 DEF LiesAt
<1>7. place \in Nat
  BY <1>3, FrameFacts DEF SyncPlace
<1>8. place + n <= Len(frame)
  <2>1. place + n \in Positions(frame, FIELD_SYNC)
    BY <1>6, <1>7
  <2> QED BY <2>1 DEF Positions
<1>9. Stream!FieldBytes(bytes, frame, FIELD_SYNC) = [k \in 1..n |-> bytes[place + 1 + k - 1]]
  BY <1>5, ContinuousBytes
<1>10. ASSUME NEW k \in 1..n
       PROVE  bytes[place + 1 + k - 1] = source.bytes[b + place + k]
  <2>1. place + k \in 1..Len(frame) /\ place + 1 + k - 1 = place + k /\ b + (place + k) = b + place + k
    BY <1>6, <1>7, <1>8
  <2> QED BY <1>1, <1>4, <2>1, MessageAtIs
<1>11. Stream!FieldBytes(bytes, frame, FIELD_SYNC) = [k \in 1..n |-> source.bytes[b + place + k]]
  BY <1>9, <1>10
<1>12. SyncValue = [k \in 1..n |-> SyncValue[k]]
  BY <1>2, FramesAssumption
<1>13. Stream!FieldBytes(bytes, frame, FIELD_SYNC) = SyncValue <=> SyncAt(b + place)
  BY <1>2, <1>11, <1>12 DEF SyncAt
<1> QED BY <1>1, <1>2, <1>3, <1>4, <1>7, <1>8, <1>13

(* The frame id of a message is at the place of the default frame's. *)
LEMMA IdBytes ==
  ASSUME TypeOK, UniformFrames, ReadsFrameId, NEW id \in DOMAIN Frames, NEW b \in Nat,
         b + Len(Frames[id]) <= Len(source.bytes)
  PROVE  /\ IdPlace \in 0..(Len(Frames[id]) - 1)
         /\ Stream!FieldBytes(MessageAt(b, id), Frames[id], FIELD_FRAME) =
              <<source.bytes[b + IdPlace + 1]>>
<1>1. PICK frame : frame = Frames[id]
  OBVIOUS
<1>2. PICK place : place = IdPlace
  OBVIOUS
<1>3. PICK bytes : bytes = MessageAt(b, id)
  OBVIOUS
<1>4. LiesAt(frame, FIELD_FRAME, place + 1, 1)
  BY <1>1, <1>2, IdLies
<1>5. place \in Nat
  <2>1. DefaultFrame \in DOMAIN Frames
    BY FrameFacts
  <2>2. defaultSerialFrame \in Seq(Nat)
    BY <2>1, FramesAssumption DEF defaultSerialFrame
  <2>3. Positions(defaultSerialFrame, FIELD_FRAME) # {}
    BY DEF ReadsFrameId, FieldsOf, Positions
  <2> QED BY <1>2, <2>2, <2>3, FirstPlace DEF IdPlace
<1>6. place + 1 \in Positions(frame, FIELD_FRAME)
  BY <1>4, <1>5 DEF LiesAt
<1>7. place + 1 \in 1..Len(frame) /\ Len(frame) \in Nat
  BY <1>4, <1>6 DEF Positions, LiesAt
<1>8. Stream!FieldBytes(bytes, frame, FIELD_FRAME) = [k \in 1..1 |-> bytes[place + 1 + k - 1]]
  <2>1. PICK one : one = 1
    OBVIOUS
  <2>2. LiesAt(frame, FIELD_FRAME, place + 1, one)
    BY <1>4, <2>1
  <2>3. Stream!FieldBytes(bytes, frame, FIELD_FRAME) = [k \in 1..one |-> bytes[place + 1 + k - 1]]
    BY <2>2, ContinuousBytes
  <2> QED BY <2>1, <2>3
<1>9. \A k \in 1..1 : place + 1 + k - 1 = place + 1
  BY <1>5
<1>10. bytes[place + 1] = source.bytes[b + place + 1]
  <2>1. bytes[place + 1] = source.bytes[b + (place + 1)]
    BY <1>1, <1>3, <1>7, MessageAtIs
  <2>2. b + (place + 1) = b + place + 1
    BY <1>5
  <2> QED BY <2>1, <2>2
<1>11. Stream!FieldBytes(bytes, frame, FIELD_FRAME) = [k \in 1..1 |-> source.bytes[b + place + 1]]
  BY <1>8, <1>9, <1>10
<1>12. [k \in 1..1 |-> source.bytes[b + place + 1]] = <<source.bytes[b + place + 1]>>
  OBVIOUS
<1> QED BY <1>1, <1>2, <1>3, <1>5, <1>7, <1>11, <1>12

(* The frame id that an iteration reads. *)
LEMMA FrameIdIs ==
  ASSUME TypeOK, BufferInv, NEW mem \in Memories, msgStart \in Nat, IdPlace \in Nat,
         msgStart + IdPlace < msgBufferCursorPos
  PROVE  FrameId(mem) = source.bytes[Taken + msgStart + IdPlace + 1]
<1>1. PICK a \in Nat : a = msgStart + IdPlace
  OBVIOUS
<1>2. /\ msgBufferCursorPos \in 0..BufferSize /\ BufferSize \in Nat \ {0}
      /\ received \in Nat
  BY Sizes, SourceAssumption DEF TypeOK
<1>3. /\ a \in Addresses /\ a \in 0..(msgBufferCursorPos - 1)
      /\ received - msgBufferCursorPos + a + 1 = Taken + msgStart + IdPlace + 1
  BY <1>1, <1>2 DEF Addresses, Taken
<1>4. mem[a] = [val |-> source.bytes[Taken + msgStart + IdPlace + 1],
                pos |-> Taken + msgStart + IdPlace + 1]
  BY <1>3, MemoryHasBuffer DEF BufferInv
<1>5. FrameId(mem) = mem[a].val
  BY <1>1 DEF FrameId, IdPlace
<1> QED BY <1>4, <1>5

-----------------------------------------------------------------------------
(* What passes the checks, and what an iteration makes of a message *)

(* A whole message that passes the checks is one of the source, the first  *)
(* there by its sync value.                                                *)
LEMMA PassedIsMessage ==
  ASSUME TypeOK, BufferInv, UniformFrames, SyncFound, NEW mem \in Memories,
         EnoughBytes(mem), MessagePasses(mem), NEW id, id = frameIdToUse(mem),
         IsWhole(Len(Frames[id])), NEW b, b = Taken + msgStart
  PROVE  /\ IsMessageAt(b, id) /\ b + Len(Frames[id]) <= received
         /\ FirstSync(Taken, b + SyncPlace) /\ Taken <= b
<1>1. id \in DOMAIN Frames /\ frameToUse(mem) = Frames[id]
  BY SelectedFrame DEF frameToUse
<1>2. b \in Nat /\ b + Len(Frames[id]) <= received /\ b + Len(Frames[id]) <= Len(source.bytes)
  BY <1>1, MessageHeld
<1>3. ReadsFrameId \/ id = DefaultFrame
  BY DEF frameIdToUse
<1>4. FirstSync(Taken, b + SyncPlace) /\ Taken <= b
  <2>1. syncLocation \in Nat /\ FirstSync(Taken, Taken + syncLocation)
    BY SyncFoundAt DEF SyncFound
  <2>2. SyncPlace \in Nat /\ msgStart = syncLocation - SyncPlace
    BY <1>1, <1>2, SyncBytes DEF msgStart, SyncPlace
  <2>3. Taken \in Nat
    BY <2>1 DEF FirstSync
  <2>4. b + SyncPlace = Taken + syncLocation /\ Taken <= b
    BY <2>1, <2>2, <2>3 DEF IsWhole
  <2> QED BY <2>1, <2>4
<1>5. Stream!FieldBytes(MessageAt(b, id), Frames[id], FIELD_SYNC) = SyncValue
  BY <1>1, <1>2, <1>4, SyncBytes DEF FirstSync
<1>6. ASSUME FIELD_FRAME \in Stream!Fields(Frames[id])
      PROVE  Stream!FieldBytes(MessageAt(b, id), Frames[id], FIELD_FRAME) = <<id>>
  <2>1. ReadsFrameId
    <3>1. FIELD_FRAME \in FieldsOf(Frames[id])
      BY <1>6 DEF Stream!Fields, FieldsOf
    <3> QED BY <1>3, <3>1 DEF ReadsFrameId, defaultSerialFrame
  <2>2. /\ IdPlace \in 0..(Len(Frames[id]) - 1)
        /\ Stream!FieldBytes(MessageAt(b, id), Frames[id], FIELD_FRAME) =
             <<source.bytes[b + IdPlace + 1]>>
    BY <1>1, <1>2, <2>1, IdBytes
  <2>3. IdPlace \in Nat /\ msgStart \in Nat /\ msgStart + IdPlace < msgBufferCursorPos
    BY <1>1, <2>2, FrameFacts, Sizes DEF IsWhole, TypeOK
  <2>4. FrameId(mem) = source.bytes[b + IdPlace + 1]
    BY <2>3, FrameIdIs
  <2>5. FrameId(mem) = id
    BY <2>1 DEF frameIdToUse, MessagePasses
  <2> QED BY <2>2, <2>4, <2>5
<1>7. ChecksumPasses(MessageAt(b, id), Frames[id])
  BY UserTestIs DEF MessagePasses
<1>8. Len(MessageAt(b, id)) = Len(Frames[id])
  BY <1>1, <1>2, MessageAtIs
<1>9. Stream!Fields(Frames[id]) = FieldsOf(Frames[id])
  BY DEF Stream!Fields, FieldsOf
<1>10. Stream!IsMessage(MessageAt(b, id), id)
  BY <1>5, <1>6, <1>7, <1>8, <1>9 DEF Stream!IsMessage, ChecksumPasses
<1> QED BY <1>1, <1>2, <1>3, <1>4, <1>10 DEF IsMessageAt

(* There is one first sync value. *)
LEMMA FirstSyncUnique ==
  ASSUME NEW t, NEW p, NEW q, FirstSync(t, p), FirstSync(t, q)
  PROVE  p = q
<1>1. t \in Nat /\ p \in Nat /\ q \in Nat /\ t <= p /\ t <= q
  BY DEF FirstSync
<1>2. ASSUME p < q PROVE FALSE
  <2>1. p \in t..(q - 1)
    BY <1>1, <1>2
  <2> QED BY <2>1 DEF FirstSync
<1>3. ASSUME q < p PROVE FALSE
  <2>1. q \in t..(p - 1)
    BY <1>1, <1>3
  <2> QED BY <2>1 DEF FirstSync
<1> QED BY <1>1, <1>2, <1>3

(* The message of the source that is the first by its sync value passes    *)
(* the checks, once it is there as a whole, or is at the buffer's front.   *)
LEMMA MessageScanned ==
  ASSUME TypeOK, BufferInv, UniformFrames, SyncFound, NEW mem \in Memories, EnoughBytes(mem),
         NEW b, NEW id, IsMessageAt(b, id), FirstSync(Taken, b + SyncPlace),
         \/ b = Taken
         \/ b >= Taken /\ b + Len(Frames[id]) <= received
  PROVE  /\ b = Taken + msgStart /\ id = frameIdToUse(mem)
         /\ IsWhole(Len(Frames[id])) /\ MessagePasses(mem)
<1>1. /\ id \in DOMAIN Frames /\ b \in Nat /\ b + Len(Frames[id]) <= Len(source.bytes)
      /\ ReadsFrameId \/ id = DefaultFrame
      /\ Stream!IsMessage(MessageAt(b, id), id)
  BY DEF IsMessageAt
<1>2. /\ msgBufferCursorPos \in Nat /\ received \in Nat /\ msgBufferCursorPos <= received
      /\ Taken \in Nat /\ Taken + msgBufferCursorPos = received
      /\ Len(Frames[id]) \in Nat /\ Len(defaultSerialFrame) \in Nat
  BY <1>1, Sizes, SourceAssumption, FrameFacts DEF TypeOK, BufferInv, Taken, defaultSerialFrame
<1>3. SyncPlace \in Nat /\ SyncPlace + Len(SyncValue) <= Len(Frames[id])
  BY <1>1, SyncBytes
<1>4. syncLocation \in Nat /\ Taken + syncLocation = b + SyncPlace
  BY SyncFoundAt, FirstSyncUnique DEF SyncFound
<1>5. msgStart \in Nat /\ b = Taken + msgStart /\ SyncPlace <= syncLocation
  BY <1>1, <1>2, <1>3, <1>4 DEF msgStart, SyncPlace
<1>6. ASSUME ReadsFrameId PROVE FrameId(mem) = id
  <2>1. /\ IdPlace \in 0..(Len(Frames[id]) - 1)
        /\ Stream!FieldBytes(MessageAt(b, id), Frames[id], FIELD_FRAME) =
             <<source.bytes[b + IdPlace + 1]>>
    BY <1>1, <1>6, IdBytes
  <2>2. FIELD_FRAME \in Stream!Fields(Frames[id])
    BY <1>1, <1>6 DEF UniformFrames, Stream!Fields, FieldsOf
  <2>3. Stream!FieldBytes(MessageAt(b, id), Frames[id], FIELD_FRAME) = <<id>>
    BY <1>1, <2>2 DEF Stream!IsMessage
  <2>4. source.bytes[b + IdPlace + 1] = id
    BY <2>1, <2>3
  <2>5. msgStart + IdPlace < msgBufferCursorPos
    <3>1. CASE b = Taken
      <4>1. LiesAt(defaultSerialFrame, FIELD_FRAME, IdPlace + 1, 1)
        BY <1>6, IdLies, FrameFacts DEF defaultSerialFrame
      <4>2. IdPlace + 1 \in Positions(defaultSerialFrame, FIELD_FRAME)
        BY <2>1, <4>1 DEF LiesAt
      <4>3. IdPlace + 1 <= Len(defaultSerialFrame)
        BY <4>2 DEF Positions
      <4> QED BY <1>2, <1>5, <2>1, <3>1, <4>3 DEF EnoughBytes
    <3>2. CASE b + Len(Frames[id]) <= received
      BY <1>1, <1>2, <1>5, <2>1, <3>2
    <3> QED BY <3>1, <3>2
  <2>6. IdPlace \in Nat
    BY <2>1
  <2> QED BY <1>5, <2>4, <2>5, <2>6, FrameIdIs
<1>7. id = frameIdToUse(mem) /\ hasFrameToUse(mem)
  BY <1>1, <1>6 DEF frameIdToUse, hasFrameToUse
<1>8. IsWhole(Len(Frames[id]))
  <2>1. CASE b = Taken
    BY <1>2, <1>5, <1>7, <2>1 DEF IsWhole, EnoughBytes, frameToUse
  <2>2. CASE b + Len(Frames[id]) <= received
    BY <1>1, <1>2, <1>5, <2>2 DEF IsWhole
  <2> QED BY <2>1, <2>2
<1>9. Stream!Fields(Frames[id]) = FieldsOf(Frames[id])
  BY DEF Stream!Fields, FieldsOf
<1>10. ChecksumPasses(MessageAt(b, id), Frames[id])
  BY <1>1, <1>9 DEF Stream!IsMessage, ChecksumPasses
<1>11. msgPassesUserTest(mem)
  BY <1>5, <1>7, <1>8, <1>10, UserTestIs
<1>12. MessagePasses(mem)
  BY <1>5, <1>7, <1>11 DEF MessagePasses, SyncPlace
<1> QED BY <1>5, <1>7, <1>8, <1>12

-----------------------------------------------------------------------------
(* What the callback gets *)

(* The history of calls only grows. *)
LEMMA HistoryStep ==
  ASSUME IsHistory(delivered), [Next]_vars
  PROVE  IsHistory(delivered')
<1>1. \/ UNCHANGED delivered
      \/ \E call : delivered' = Append(delivered, call)
  BY DEF Next, Receive, Recv, RecvNothing, Iterate, NoSync, Incomplete, Deliver,
         CallbackThrows, Reject, vars, outputs
<1> QED BY <1>1, HistoryGrows DEF Extends

(* A message that passes the checks is whole. *)
LEMMA PassedWhole ==
  ASSUME TypeOK, SyncFound, PassedAreWhole, NEW mem \in Memories,
         EnoughBytes(mem), MessagePasses(mem)
  PROVE  IsWhole(Len(Frames[frameIdToUse(mem)]))
<1>1. syncLocation \in Nat
  BY SyncBelowCursor, Sizes DEF TypeOK
<1>2. msgStart \in Nat
  BY <1>1, FrameFacts DEF MessagePasses, msgStart
<1> QED BY <1>2 DEF PassedAreWhole, IsWhole, frameToUse

(* A call with a whole message adds the source's message at one place.     *)
LEMMA HandlingWhole ==
  ASSUME TypeOK, BufferInv, SyncFound, PassedAreWhole, IsHistory(delivered),
         NEW mem \in Memories, NEW ok \in BOOLEAN,
         EnoughBytes(mem), MessagePasses(mem), Handles(mem, ok),
         NEW b, b = Taken + msgStart, NEW id, id = frameIdToUse(mem)
  PROVE  Extends(delivered, CallAt(b, id, ok, received), delivered')
<1>1. IsWhole(Len(Frames[id]))
  BY PassedWhole
<1>2. Call(mem, msgValueMap(mem), ok) = CallAt(b, id, ok, received)
  BY <1>1, CallIs
<1>3. delivered' = Append(delivered, Call(mem, msgValueMap(mem), ok))
  BY DEF Handles
<1> QED BY <1>2, <1>3, HistoryGrows

(* The positions of a call, one after the other. *)
LEMMA CallPositions ==
  ASSUME NEW id \in DOMAIN Frames, NEW b \in Nat, NEW ok, NEW at
  PROVE  LET p == CallAt(b, id, ok, at).positions
         IN  \A i \in 1..Len(p) : p[i] # NoPosition /\ p[i] = p[1] + i - 1
<1>0. PICK p : p = CallAt(b, id, ok, at).positions
  OBVIOUS
<1>1. PICK n \in Nat \ {0} : n = Len(Frames[id])
  BY FrameFacts, Sizes
<1>2. p = [i \in 1..n |-> b + i]
  BY <1>0, <1>1 DEF CallAt
<1>3. p \in Seq(Nat) /\ Len(p) = n
  BY <1>2
<1>4. \A i \in 1..n : p[i] = b + i
  BY <1>2
<1>5. 1 \in 1..n
  BY <1>1
<1>6. ASSUME NEW i \in 1..n PROVE p[i] # NoPosition /\ p[i] = p[1] + i - 1
  BY <1>4, <1>5 DEF NoPosition
<1> QED BY <1>0, <1>3, <1>6

(* Every step calls back with a whole message, or does not call back. *)
LEMMA CallSteps ==
  ASSUME TypeOK, BufferInv, PassedAreWhole, IsHistory(delivered), [Next]_vars
  PROVE  \/ UNCHANGED delivered
         \/ \E mem \in Memories, ok \in BOOLEAN :
              /\ SyncFound /\ EnoughBytes(mem) /\ MessagePasses(mem)
              /\ IF ok THEN Deliver(mem) ELSE CallbackThrows(mem)
              /\ Extends(delivered,
                         CallAt(Taken + msgStart, frameIdToUse(mem), ok, received), delivered')
<1>1. ASSUME NEW mem \in Memories, Deliver(mem)
      PROVE  /\ SyncFound /\ EnoughBytes(mem) /\ MessagePasses(mem)
             /\ Extends(delivered,
                        CallAt(Taken + msgStart, frameIdToUse(mem), TRUE, received), delivered')
  <2>1. Handles(mem, TRUE)
    BY <1>1 DEF Deliver, Handles
  <2>2. SyncFound /\ EnoughBytes(mem) /\ MessagePasses(mem)
    BY <1>1 DEF Deliver
  <2> QED BY <2>1, <2>2, HandlingWhole
<1>2. ASSUME NEW mem \in Memories, CallbackThrows(mem)
      PROVE  /\ SyncFound /\ EnoughBytes(mem) /\ MessagePasses(mem)
             /\ Extends(delivered,
                        CallAt(Taken + msgStart, frameIdToUse(mem), FALSE, received), delivered')
  <2>1. Handles(mem, FALSE)
    BY <1>2 DEF CallbackThrows, Handles
  <2>2. SyncFound /\ EnoughBytes(mem) /\ MessagePasses(mem)
    BY <1>2 DEF CallbackThrows
  <2> QED BY <2>1, <2>2, HandlingWhole
<1>3. \/ UNCHANGED delivered
      \/ \E mem \in Memories : Deliver(mem) \/ CallbackThrows(mem)
  BY DEF Next, Receive, Recv, RecvNothing, Iterate, NoSync, Incomplete, Reject, vars, outputs
<1> QED BY <1>1, <1>2, <1>3

(* Every step keeps what the callback got bytes that were received. *)
LEMMA DeliveredStep ==
  ASSUME TypeOK, BufferInv, PassedAreWhole, IsHistory(delivered), DeliveredWereReceived,
         [Next]_vars
  PROVE  DeliveredWereReceived'
<1>1. CASE UNCHANGED delivered
  BY <1>1 DEF DeliveredWereReceived
<1>2. ASSUME NEW mem \in Memories, NEW ok \in BOOLEAN,
             SyncFound, EnoughBytes(mem), MessagePasses(mem),
             Extends(delivered,
                     CallAt(Taken + msgStart, frameIdToUse(mem), ok, received), delivered')
      PROVE  DeliveredWereReceived'
  <2>1. PICK id \in DOMAIN Frames : id = frameIdToUse(mem)
    BY SelectedFrame
  <2>2. IsWhole(Len(Frames[id]))
    BY <1>2, <2>1, PassedWhole
  <2>3. PICK b \in Nat : b = Taken + msgStart
    BY <2>2, CellsReceived, <2>1, FrameFacts
  <2>4. Extends(delivered, CallAt(b, id, ok, received), delivered')
    BY <1>2, <2>1, <2>3
  <2>5. PICK n \in Nat : n = Len(delivered)
    BY DEF IsHistory
  <2>6. /\ Len(delivered') = n + 1
        /\ \A k \in 1..n : delivered'[k] = delivered[k]
        /\ delivered'[n + 1] = CallAt(b, id, ok, received)
    BY <2>4, <2>5 DEF Extends
  <2>7. ASSUME NEW k \in 1..Len(delivered')
        PROVE  LET at == delivered'[k].positions
               IN  \A i \in 1..Len(at) : at[i] # NoPosition /\ at[i] = at[1] + i - 1
    <3>1. CASE k \in 1..n
      BY <2>5, <2>6, <3>1 DEF DeliveredWereReceived
    <3>2. CASE k = n + 1
      <4>1. delivered'[k] = CallAt(b, id, ok, received)
        BY <2>6, <3>2
      <4> QED BY <4>1, CallPositions
    <3> QED BY <2>5, <2>6, <3>1, <3>2
  <2> QED BY <2>7 DEF DeliveredWereReceived
<1> QED BY <1>1, <1>2, CallSteps

(* The callback gets bytes that were received, side by side in the source, *)
(* as long as half of the buffer is free and what passes the checks is     *)
(* whole.  (A message that is not gets bytes nobody sent, see the run      *)
(* finding_premature_delivery.)                                            *)
THEOREM DeliveriesCorrect ==
  Spec /\ []HalfFree /\ []PassedAreWhole => []DeliveredWereReceived
<1>1. Init => DeliveredWereReceived /\ IsHistory(delivered)
  <2> SUFFICES ASSUME Init PROVE DeliveredWereReceived /\ IsHistory(delivered)
    OBVIOUS
  <2>1. delivered = <<>> /\ Len(delivered) = 0
    BY DEF Init
  <2> QED BY <2>1 DEF DeliveredWereReceived, IsHistory
<1>2. IsHistory(delivered) /\ [Next]_vars => IsHistory(delivered')
  BY HistoryStep
<1>3. IsHistory(delivered)' <=> IsHistory(delivered')
  OBVIOUS
<1>4. TypeOK /\ BufferInv /\ HalfFree /\ HalfFree' /\ [Next]_vars => BufferInv'
  BY BufferStep
<1>5. TypeOK /\ BufferInv /\ PassedAreWhole /\ IsHistory(delivered)
        /\ DeliveredWereReceived /\ [Next]_vars => DeliveredWereReceived'
  BY DeliveredStep
<1> QED BY <1>1, <1>2, <1>3, <1>4, <1>5, InitBuffer, TypeCorrect, PTL DEF Spec

-----------------------------------------------------------------------------
(* The message whose callback threw *)

LastCall == delivered[Len(delivered)]

(* The message of the last call, if it threw: it is the first of the       *)
(* source by its sync value, and all of it has been received.              *)
Awaits(b, id) ==
  /\ IsMessageAt(b, id) /\ FirstSync(Taken, b + SyncPlace)
  /\ Taken <= b /\ b + Len(Frames[id]) <= received
  /\ LastCall = CallAt(b, id, FALSE, LastCall.at)
  /\ LastCall.at \in Nat /\ LastCall.at <= received
  /\ pc = "scan" => LastCall.at < received

PendingInv ==
  /\ IsHistory(delivered)
  /\ LastCallThrew => \E b, id : Awaits(b, id)

(* What stands in the source does not change. *)
LEMMA SourceFixed ==
  ASSUME UNCHANGED source
  PROVE  /\ \A b, id : MessageAt(b, id)' = MessageAt(b, id)
         /\ \A b, id : IsMessageAt(b, id)' <=> IsMessageAt(b, id)
         /\ \A t, q : FirstSync(t, q)' <=> FirstSync(t, q)
         /\ \A b, id, ok, at : CallAt(b, id, ok, at)' = CallAt(b, id, ok, at)
BY DEF MessageAt, IsMessageAt, FirstSync, SyncAt, CallAt

(* A step without a call, that removes nothing from the buffer. *)
LEMMA AwaitsKept ==
  ASSUME TypeOK, PendingInv, RedeliveredUntilHandled, UNCHANGED <<source, delivered>>,
         Taken' = Taken, received' >= received, received' \in Nat,
         pc' = "scan" => pc = "scan" \/ received' > received
  PROVE  PendingInv' /\ RedeliveredUntilHandled'
<1>1. RedeliveredUntilHandled'
  BY DEF RedeliveredUntilHandled
<1>2. received \in Nat
  BY SourceAssumption DEF TypeOK
<1>3. LastCallThrew' = LastCallThrew /\ LastCall' = LastCall /\ IsHistory(delivered)'
  BY DEF LastCallThrew, LastCall, PendingInv
<1>4. ASSUME NEW b, NEW id, Awaits(b, id) PROVE Awaits(b, id)'
  <2>1. /\ IsMessageAt(b, id)' /\ FirstSync(Taken, b + SyncPlace)'
    BY <1>4, SourceFixed DEF Awaits, FirstSync, SyncAt
  <2>2. LastCall' = CallAt(b, id, FALSE, LastCall.at)'
    BY <1>3, <1>4, SourceFixed DEF Awaits, CallAt, MessageAt
  <2>3. (Taken <= b)'
    BY <1>4 DEF Awaits
  <2>4. b + Len(Frames[id]) \in Nat
    BY <1>4, FrameFacts DEF Awaits, IsMessageAt
  <2>5. b + Len(Frames[id]) <= received'
    BY <1>2, <1>4, <2>4 DEF Awaits
  <2>6. /\ LastCall'.at \in Nat /\ LastCall'.at <= received'
        /\ pc' = "scan" => LastCall'.at < received'
    BY <1>2, <1>3, <1>4 DEF Awaits
  <2> QED BY <2>1, <2>2, <2>3, <2>5, <2>6 DEF Awaits
<1> QED BY <1>1, <1>3, <1>4 DEF PendingInv

(* The buffer hands a message that awaits its handling over again. *)
LEMMA AwaitedScanned ==
  ASSUME TypeOK, BufferInv, UniformFrames, SyncFound, NEW mem \in Memories, EnoughBytes(mem),
         NEW b, NEW id, Awaits(b, id)
  PROVE  /\ MessagePasses(mem) /\ b = Taken + msgStart /\ id = frameIdToUse(mem)
<1>1. Taken \in Nat /\ b \in Nat
  BY Sizes, SourceAssumption DEF TypeOK, BufferInv, Taken, Awaits, IsMessageAt
<1>2. b >= Taken /\ b + Len(Frames[id]) <= received
  BY <1>1 DEF Awaits
<1> QED BY <1>2, MessageScanned DEF Awaits

(* After a call, that message is the last call's, or it was handled. *)
LEMMA AwaitedCalled ==
  ASSUME TypeOK, BufferInv, UniformFrames, PassedAreWhole, PendingInv, RedeliveredUntilHandled,
         NEW mem \in Memories, NEW ok \in BOOLEAN,
         SyncFound, EnoughBytes(mem), MessagePasses(mem),
         IF ok THEN Deliver(mem) ELSE CallbackThrows(mem),
         Extends(delivered, CallAt(Taken + msgStart, frameIdToUse(mem), ok, received), delivered')
  PROVE  PendingInv' /\ RedeliveredUntilHandled'
<1>1. PICK id \in DOMAIN Frames : id = frameIdToUse(mem)
  BY SelectedFrame
<1>2. IsWhole(Len(Frames[id]))
  BY <1>1, PassedWhole
<1>3. PICK b \in Nat : b = Taken + msgStart
  BY <1>1, <1>2, CellsReceived, FrameFacts
<1>4. PICK n \in Nat : n = Len(delivered)
  BY DEF PendingInv, IsHistory
<1>5. PICK call : call = CallAt(b, id, ok, received)
  OBVIOUS
<1>6. /\ IsHistory(delivered') /\ Len(delivered') = n + 1
      /\ \A k \in 1..n : delivered'[k] = delivered[k]
      /\ delivered'[n + 1] = call
  BY <1>1, <1>3, <1>4, <1>5 DEF Extends
<1>7. /\ IsMessageAt(b, id) /\ b + Len(Frames[id]) <= received
      /\ FirstSync(Taken, b + SyncPlace) /\ Taken <= b
  BY <1>1, <1>2, <1>3, PassedIsMessage
<1>8. call.ok = ok /\ call.at = received /\ received \in Nat
  BY <1>5, SourceAssumption DEF CallAt, TypeOK
<1>9. PendingInv'
  <2>1. LastCall' = call
    BY <1>4, <1>6 DEF LastCall
  <2>2. CASE ok
    BY <1>6, <1>8, <2>1, <2>2 DEF PendingInv, LastCallThrew, LastCall
  <2>3. CASE ~ok
    <3>1. /\ UNCHANGED <<source, received, msgBufferCursorPos>> /\ pc' = "idle"
      BY <2>3 DEF CallbackThrows, BufferKept, streamVars
    <3>2. Taken' = Taken
      BY <3>1 DEF Taken
    <3>3. IsMessageAt(b, id)' /\ FirstSync(Taken, b + SyncPlace)'
      BY <1>7, <3>1, <3>2, SourceFixed DEF FirstSync, SyncAt
    <3>4. LastCall' = CallAt(b, id, FALSE, LastCall.at)'
      <4>1. CallAt(b, id, FALSE, received) = call
        BY <1>5, <2>3
      <4>2. LastCall'.at = received
        BY <1>8, <2>1
      <4> QED BY <2>1, <3>1, <4>1, <4>2 DEF CallAt, MessageAt
    <3>5. /\ (Taken <= b)' /\ (b + Len(Frames[id]) <= received)'
          /\ (LastCall.at \in Nat)' /\ (LastCall.at <= received)' /\ pc' # "scan"
      BY <1>7, <1>8, <2>1, <3>1, <3>2
    <3>6. Awaits(b, id)'
      BY <3>3, <3>4, <3>5 DEF Awaits
    <3> QED BY <1>6, <3>6 DEF PendingInv
  <2> QED BY <2>2, <2>3
<1>10. ASSUME NEW k \in 1..(Len(delivered') - 1), ~delivered'[k].ok
       PROVE  /\ delivered'[k + 1].positions = delivered'[k].positions
              /\ delivered'[k + 1].fields = delivered'[k].fields
              /\ delivered'[k + 1].at > delivered'[k].at
  <2>1. CASE k < n
    <3>1. k \in 1..n /\ k + 1 \in 1..n /\ k \in 1..(n - 1)
      BY <1>4, <1>6, <2>1
    <3> QED BY <1>4, <1>6, <1>10, <3>1 DEF RedeliveredUntilHandled
  <2>2. CASE k = n
    <3>1. n \in 1..n /\ delivered'[n] = LastCall /\ LastCallThrew
      BY <1>4, <1>6, <1>10, <2>2 DEF LastCall, LastCallThrew
    <3>2. PICK c, i : Awaits(c, i)
      BY <3>1 DEF PendingInv
    <3>3. c = b /\ i = id
      BY <1>1, <1>3, <3>2, AwaitedScanned
    <3>4. LastCall = CallAt(b, id, FALSE, LastCall.at) /\ LastCall.at < received
      BY <3>2, <3>3 DEF Awaits, SyncFound
    <3>5. call.positions = LastCall.positions /\ call.fields = LastCall.fields
      BY <1>5, <3>4 DEF CallAt
    <3> QED BY <1>4, <1>6, <1>8, <2>2, <3>1, <3>2, <3>4, <3>5 DEF Awaits
  <2> QED BY <1>4, <1>6, <2>1, <2>2
<1>11. RedeliveredUntilHandled'
  BY <1>10 DEF RedeliveredUntilHandled
<1> QED BY <1>9, <1>11

(* Every step keeps a message whose callback threw at the buffer's head. *)
LEMMA RedeliveryStep ==
  ASSUME TypeOK, BufferInv, HalfFree', UniformFrames, PassedAreWhole, PendingInv,
         RedeliveredUntilHandled, [Next]_vars
  PROVE  PendingInv' /\ RedeliveredUntilHandled'
<1>1. /\ received \in Nat /\ msgBufferCursorPos \in Nat
  BY Sizes, SourceAssumption DEF TypeOK
<1>2. ASSUME NEW recvd \in 1..MaxRecv, Recv(recvd)
      PROVE  PendingInv' /\ RedeliveredUntilHandled'
  <2>1. received' = received + recvd /\ msgBufferCursorPos' = msgBufferCursorPos + recvd
        /\ recvd \in Nat \ {0}
    BY <1>2, Sizes, RecvAppends DEF Recv
  <2>2. Taken' = Taken /\ received' > received /\ received' >= received /\ received' \in Nat
    BY <1>1, <2>1 DEF Taken
  <2>3. UNCHANGED <<source, delivered>>
    BY <1>2 DEF Recv, outputs
  <2> QED BY <2>2, <2>3, AwaitsKept
<1>3. ASSUME UNCHANGED <<source, received, msgBufferCursorPos, delivered>>,
             pc' = "scan" => pc = "scan"
      PROVE  PendingInv' /\ RedeliveredUntilHandled'
  <2>1. Taken' = Taken /\ received' >= received /\ received' \in Nat
    BY <1>1, <1>3 DEF Taken
  <2> QED BY <1>3, <2>1, AwaitsKept
<1>4. ASSUME NEW mem \in Memories, Reject(mem)
      PROVE  PendingInv' /\ RedeliveredUntilHandled'
  <2>1. SyncFound /\ EnoughBytes(mem) /\ ~MessagePasses(mem) /\ UNCHANGED delivered
    BY <1>4 DEF Reject, outputs
  <2>2. ~LastCallThrew
    BY <2>1, AwaitedScanned DEF PendingInv
  <2> QED BY <2>1, <2>2 DEF PendingInv, LastCallThrew, RedeliveredUntilHandled
<1>5. CASE NoSync \/ RecvNothing \/ UNCHANGED vars \/ \E mem \in Memories : Incomplete(mem)
  <2>1. UNCHANGED <<source, received, msgBufferCursorPos, delivered>> /\ (pc' = "scan" => pc = "scan")
    BY <1>5 DEF NoSync, RecvNothing, Incomplete, vars, streamVars, outputs
  <2> QED BY <1>3, <2>1
<1>6. ASSUME NEW mem \in Memories, Deliver(mem) \/ CallbackThrows(mem)
      PROVE  PendingInv' /\ RedeliveredUntilHandled'
  <2>1. delivered' # delivered
    <3>1. PICK msg, ok : delivered' = Append(delivered, Call(mem, msg, ok))
      BY <1>6 DEF Deliver, CallbackThrows
    <3>2. Len(delivered') = Len(delivered) + 1 /\ Len(delivered) \in Nat
      BY <3>1, HistoryGrows DEF PendingInv, Extends, IsHistory
    <3> QED BY <3>2
  <2> QED BY <2>1, CallSteps, AwaitedCalled DEF PendingInv
<1> QED BY <1>2, <1>4, <1>5, <1>6 DEF Next, Receive, Iterate

(* A message whose callback threw is the next that the callback gets, in a *)
(* later update(): as long as half of the buffer is free and what passes   *)
(* the checks is whole, and with frames that agree on where the sync value *)
(* and the frame id are.                                                   *)
THEOREM RedeliveryCorrect ==
  UniformFrames /\ Spec /\ []HalfFree /\ []PassedAreWhole => []RedeliveredUntilHandled
<1> SUFFICES ASSUME UniformFrames
             PROVE  Spec /\ []HalfFree /\ []PassedAreWhole => []RedeliveredUntilHandled
  OBVIOUS
<1>1. Init => PendingInv /\ RedeliveredUntilHandled
  <2> SUFFICES ASSUME Init PROVE PendingInv /\ RedeliveredUntilHandled
    OBVIOUS
  <2>1. delivered = <<>> /\ Len(delivered) = 0
    BY DEF Init
  <2> QED BY <2>1 DEF PendingInv, LastCallThrew, RedeliveredUntilHandled, IsHistory
<1>2. TypeOK /\ BufferInv /\ HalfFree /\ HalfFree' /\ [Next]_vars => BufferInv'
  BY BufferStep
<1>3. TypeOK /\ BufferInv /\ HalfFree' /\ PassedAreWhole /\ PendingInv
        /\ RedeliveredUntilHandled /\ [Next]_vars => PendingInv' /\ RedeliveredUntilHandled'
  BY RedeliveryStep
<1> QED BY <1>1, <1>2, <1>3, InitBuffer, TypeCorrect, PTL DEF Spec

-----------------------------------------------------------------------------
(* The processor implements FrameStream *)

(* In a source without noise, what is in the buffer begins with a message. *)
AtBoundary == source.noise \/ Taken \in Boundaries(source)

(* What the theorems about noisy sources suppose of the code's checks. *)
NoisePassesWhole == source.noise => PassedAreWhole

(* At such a place stands a message, which the scan finds. *)
LEMMA BoundaryMessage ==
  ASSUME TypeOK, BufferInv, UniformFrames, CleanSources, AtBoundary, ~source.noise,
         SyncFound
  PROVE  \E id : /\ IsMessageAt(Taken, id) /\ FirstSync(Taken, Taken + SyncPlace)
                 /\ Taken + Len(Frames[id]) \in Boundaries(source)
<1>1. /\ received \in Nat /\ msgBufferCursorPos \in Nat /\ msgBufferCursorPos <= received
      /\ received <= Len(source.bytes) /\ source.bytes \in Seq(Values)
      /\ source.messages \subseteq 1..Len(source.bytes)
  BY Sizes, SourceAssumption DEF TypeOK, BufferInv
<1>2. PICK b \in Nat : b = Taken
  BY <1>1 DEF Taken
<1>3. b # Len(source.bytes)
  <2>1. msgBufferCursorPos > 0
    BY SyncBelowCursor, <1>1
  <2> QED BY <1>1, <1>2, <2>1 DEF Taken
<1>4. IsClean(source)
  BY DEF CleanSources, TypeOK
<1>5. PICK id \in DOMAIN Frames :
        /\ ReadsFrameId \/ id = DefaultFrame
        /\ b + Len(Frames[id]) \in Boundaries(source)
        /\ Stream!IsMessage(SubSeq(source.bytes, b + 1, b + Len(Frames[id])), id)
        /\ \A p \in b..(b + findit(defaultSerialFrame, FIELD_SYNC) - 1) : ~SyncIn(source.bytes, p)
  BY <1>2, <1>3, <1>4 DEF IsClean, AtBoundary
<1>6. b + Len(Frames[id]) <= Len(source.bytes)
  BY <1>1, <1>5 DEF Boundaries
<1>7. IsMessageAt(b, id)
  BY <1>5, <1>6 DEF IsMessageAt, MessageAt
<1>8. SyncPlace \in Nat /\ SyncPlace + Len(SyncValue) <= Len(Frames[id])
  BY <1>6, SyncBytes
<1>9. SyncAt(b + SyncPlace)
  <2>1. Stream!FieldBytes(MessageAt(b, id), Frames[id], FIELD_SYNC) = SyncValue
    BY <1>5 DEF Stream!IsMessage, MessageAt
  <2> QED BY <1>6, <2>1, SyncBytes
<1>10. ASSUME NEW p \in b..(b + SyncPlace - 1) PROVE ~SyncAt(p)
  <2>1. ~SyncIn(source.bytes, p)
    BY <1>5 DEF SyncPlace
  <2>2. p + Len(SyncValue) <= Len(source.bytes)
    BY <1>1, <1>6, <1>8, FrameFacts, Sizes
  <2> QED BY <2>1, <2>2 DEF SyncIn, SyncAt
<1>11. b + SyncPlace \in Nat /\ b <= b + SyncPlace
  BY <1>8
<1>12. FirstSync(b, b + SyncPlace)
  <2>1. PICK q \in Nat : q = b + SyncPlace
    BY <1>11
  <2>2. SyncAt(q) /\ b <= q /\ \A p \in b..(q - 1) : ~SyncAt(p)
    <3>1. SyncAt(q)
      BY <1>9, <2>1
    <3>2. b <= q
      BY <1>11, <2>1
    <3>3. ASSUME NEW p \in b..(q - 1) PROVE ~SyncAt(p)
      BY <1>8, <1>10, <2>1
    <3> QED BY <3>1, <3>2, <3>3
  <2>3. FirstSync(b, q)
    BY <1>2, <2>2 DEF FirstSync
  <2> QED BY <2>1, <2>3
<1> QED BY <1>2, <1>5, <1>7, <1>12

(* So nothing is rejected there, and what passes is that message. *)
LEMMA BoundaryScanned ==
  ASSUME TypeOK, BufferInv, UniformFrames, CleanSources, AtBoundary, ~source.noise,
         SyncFound, NEW mem \in Memories, EnoughBytes(mem)
  PROVE  /\ MessagePasses(mem) /\ Taken = Taken + msgStart
         /\ IsWhole(Len(Frames[frameIdToUse(mem)]))
         /\ Taken + Len(Frames[frameIdToUse(mem)]) \in Boundaries(source)
<1>1. PICK id : /\ IsMessageAt(Taken, id) /\ FirstSync(Taken, Taken + SyncPlace)
                /\ Taken + Len(Frames[id]) \in Boundaries(source)
  BY BoundaryMessage
<1>2. /\ Taken = Taken + msgStart /\ id = frameIdToUse(mem)
      /\ IsWhole(Len(Frames[id])) /\ MessagePasses(mem)
  BY <1>1, MessageScanned
<1> QED BY <1>1, <1>2

(* Without noise, what passes the checks is whole. *)
LEMMA CleanIsWhole ==
  ASSUME TypeOK, BufferInv, UniformFrames, CleanSources, AtBoundary, NoisePassesWhole
  PROVE  PassedAreWhole
<1>1. CASE source.noise
  BY <1>1 DEF NoisePassesWhole
<1>2. CASE ~source.noise
  BY <1>2, BoundaryScanned DEF PassedAreWhole, IsWhole, frameToUse
<1> QED BY <1>1, <1>2

(* The bytes that a removal takes out of the buffer. *)
LEMMA RemovalTakes ==
  ASSUME TypeOK, NEW mem, NEW msgEnd \in Nat, msgEnd <= msgBufferCursorPos,
         RemoveThrough(mem, msgEnd), UNCHANGED streamVars
  PROVE  Taken' = Taken + msgEnd
<1>1. msgBufferCursorPos \in Nat /\ received \in Nat /\ received' = received
  BY Sizes, SourceAssumption DEF TypeOK, streamVars
<1>2. msgBufferCursorPos' = msgBufferCursorPos - msgEnd
  BY <1>1 DEF RemoveThrough, CursorAfter
<1> QED BY <1>1, <1>2 DEF Taken

(* What the step of a new message is to FrameStream. *)
LEMMA DeliverImplements ==
  ASSUME TypeOK, BufferInv, UniformFrames, CleanSources, AtBoundary, PassedAreWhole,
         IsHistory(delivered), NEW mem \in Memories, Deliver(mem)
  PROVE  Stream!Next /\ AtBoundary'
<1>1. PICK id \in DOMAIN Frames : id = frameIdToUse(mem)
  BY SelectedFrame
<1>2. /\ SyncFound /\ EnoughBytes(mem) /\ MessagePasses(mem)
      /\ Handles(mem, TRUE) /\ UNCHANGED streamVars
      /\ RemoveThrough(mem, msgStart + Len(Frames[id]))
  BY <1>1 DEF Deliver, Handles, streamVars, frameToUse
<1>3. IsWhole(Len(Frames[id]))
  BY <1>1, <1>2, PassedWhole
<1>4. PICK b \in Nat : b = Taken + msgStart
  BY <1>1, <1>2, <1>3, CellsReceived, FrameFacts
<1>5. IsMessageAt(b, id) /\ Taken <= b
  BY <1>1, <1>2, <1>3, <1>4, PassedIsMessage
<1>6. /\ Taken \in Nat /\ msgStart \in Nat /\ Len(Frames[id]) \in Nat
      /\ msgStart + Len(Frames[id]) \in Nat
      /\ msgStart + Len(Frames[id]) <= msgBufferCursorPos
  BY <1>1, <1>3, FrameFacts, Sizes, SourceAssumption
     DEF IsWhole, TypeOK, BufferInv, Taken
<1>7. Taken' = b + Len(Frames[id])
  <2>1. Taken' = Taken + (msgStart + Len(Frames[id]))
    BY <1>2, <1>6, RemovalTakes
  <2> QED BY <1>4, <1>6, <2>1
<1>8. HandledMessages' = Append(HandledMessages, Stream!MessageOf(MessageAt(b, id), id))
  <2>1. PICK call : call = CallAt(b, id, TRUE, received)
    OBVIOUS
  <2>2. Extends(delivered, call, delivered')
    BY <1>1, <1>2, <1>4, <2>1, HandlingWhole
  <2>3. call.ok
    BY <2>1 DEF CallAt
  <2>4. MessagesOf(delivered') = Append(MessagesOf(delivered), MessageOfCall(call))
    BY <2>2, <2>3, MessagesGrow
  <2>5. MessageOfCall(call) = Stream!MessageOf(MessageAt(b, id), id)
    BY <2>1 DEF MessageOfCall, CallAt, Stream!MessageOf
  <2> QED BY <2>4, <2>5 DEF HandledMessages
<1>9. /\ source' = source
      /\ source.noise => b \in Taken..Len(source.bytes)
      /\ ~source.noise => b = Taken
      /\ AtBoundary'
  <2>1. source' = source
    BY <1>2 DEF streamVars
  <2>2. b + Len(Frames[id]) <= Len(source.bytes) /\ Len(source.bytes) \in Nat
    BY <1>5, SourceAssumption DEF IsMessageAt, TypeOK
  <2>3. b \in Taken..Len(source.bytes)
    BY <1>5, <1>6, <2>2
  <2>4. ASSUME ~source.noise
        PROVE  b = Taken /\ b + Len(Frames[id]) \in Boundaries(source)
    BY <1>1, <1>2, <1>4, <2>4, BoundaryScanned
  <2> QED BY <1>7, <2>1, <2>3, <2>4 DEF AtBoundary
<1>10. Stream!Deliver(id, b)
  BY <1>5, <1>7, <1>8, <1>9 DEF Stream!Deliver, IsMessageAt, MessageAt, Taken
<1>11. b \in Stream!Starts
  BY <1>9 DEF Stream!Starts, Taken
<1> QED BY <1>9, <1>10, <1>11 DEF Stream!Next

(* A rejected candidate is noise that FrameStream skips. *)
LEMMA RejectImplements ==
  ASSUME TypeOK, BufferInv, UniformFrames, CleanSources, AtBoundary,
         NEW mem \in Memories, Reject(mem)
  PROVE  Stream!Next /\ AtBoundary'
<1>1. /\ SyncFound /\ EnoughBytes(mem) /\ ~MessagePasses(mem)
      /\ RemoveThrough(mem, EndOfRejected) /\ UNCHANGED streamVars /\ UNCHANGED delivered
  BY DEF Reject, outputs, streamVars
<1>2. source.noise
  BY <1>1, BoundaryScanned
<1>3. PICK n \in Nat \ {0} : n = EndOfRejected
  BY <1>1, RejectedEnd
<1>4. /\ msgBufferCursorPos \in Nat /\ received \in Nat
      /\ msgBufferCursorPos <= received /\ received <= Len(source.bytes)
      /\ Len(source.bytes) \in Nat
  BY Sizes, SourceAssumption DEF TypeOK, BufferInv
<1>5. n <= msgBufferCursorPos
  BY <1>1, <1>3, <1>4, SyncBelowCursor DEF EndOfRejected
<1>6. Taken' = Taken + n
  BY <1>1, <1>3, <1>5, RemovalTakes
<1>7. Taken' \in (Taken + 1)..Len(source.bytes)
  BY <1>3, <1>4, <1>5, <1>6 DEF Taken
<1>8. source' = source
  BY <1>1 DEF streamVars
<1>9. HandledMessages' = HandledMessages
  BY <1>1 DEF HandledMessages
<1> QED BY <1>2, <1>7, <1>8, <1>9 DEF Stream!Next, Stream!Skip, AtBoundary, Taken

(* A call that throws handles nothing. *)
LEMMA ThrowImplements ==
  ASSUME TypeOK, IsHistory(delivered), AtBoundary, NEW mem \in Memories, CallbackThrows(mem)
  PROVE  UNCHANGED Stream!vars /\ AtBoundary'
<1>1. PICK msg : delivered' = Append(delivered, Call(mem, msg, FALSE))
  BY DEF CallbackThrows
<1>2. PICK call : call = Call(mem, msg, FALSE)
  OBVIOUS
<1>3. Extends(delivered, call, delivered') /\ call.ok = FALSE
  BY <1>1, <1>2, HistoryGrows DEF Call
<1>4. MessagesOf(delivered') = MessagesOf(delivered)
  BY <1>3, MessagesGrow
<1>5. UNCHANGED <<source, received, msgBufferCursorPos>>
  BY DEF CallbackThrows, BufferKept, streamVars
<1> QED BY <1>4, <1>5 DEF Stream!vars, HandledMessages, AtBoundary, Taken

(* Every step is a step of FrameStream, or nothing that it sees. *)
LEMMA StepImplements ==
  ASSUME TypeOK, BufferInv, HalfFree', UniformFrames, CleanSources, AtBoundary,
         PassedAreWhole, IsHistory(delivered), [Next]_vars
  PROVE  [Stream!Next]_(Stream!vars) /\ AtBoundary'
<1>1. ASSUME NEW recvd \in 1..MaxRecv, Recv(recvd)
      PROVE  UNCHANGED Stream!vars /\ AtBoundary'
  <2>1. /\ received \in Nat /\ msgBufferCursorPos \in Nat /\ recvd \in Nat
        /\ received' = received + recvd /\ msgBufferCursorPos' = msgBufferCursorPos + recvd
        /\ UNCHANGED <<source, delivered>>
    BY <1>1, Sizes, SourceAssumption, RecvAppends DEF Recv, TypeOK, outputs
  <2>2. received' - msgBufferCursorPos' = received - msgBufferCursorPos
    BY <2>1
  <2>3. HandledMessages' = HandledMessages
    BY <2>1 DEF HandledMessages
  <2> QED BY <2>1, <2>2, <2>3 DEF Stream!vars, AtBoundary, Taken
<1>2. CASE NoSync \/ RecvNothing \/ UNCHANGED vars \/ \E mem \in Memories : Incomplete(mem)
  <2>1. UNCHANGED <<source, received, msgBufferCursorPos, delivered>>
    BY <1>2 DEF NoSync, RecvNothing, Incomplete, vars, streamVars, outputs
  <2> QED BY <2>1 DEF Stream!vars, HandledMessages, AtBoundary, Taken
<1> QED BY <1>1, <1>2, DeliverImplements, RejectImplements, ThrowImplements
        DEF Next, Receive, Iterate

(* A new processor has taken nothing and handled nothing. *)
LEMMA InitImplements ==
  ASSUME CleanSources, Init
  PROVE  Stream!Init /\ AtBoundary
<1>1. /\ source \in Sources /\ received = 0 /\ msgBufferCursorPos = 0 /\ delivered = <<>>
  BY DEF Init
<1>2. Taken = 0
  BY <1>1 DEF Taken
<1>3. Len(delivered) = 0 /\ Len(delivered) \in Nat
  BY <1>1
<1>4. HandledMessages = <<>>
  BY <1>3, MessagesSteps DEF HandledMessages
<1>5. AtBoundary
  BY <1>1, <1>2 DEF AtBoundary, CleanSources, IsClean
<1> QED BY <1>1, <1>2, <1>4, <1>5 DEF Stream!Init, Taken

(* The processor implements FrameStream, whatever the chunks recv()        *)
(* returns: what its callback handles are messages of the source, each     *)
(* once and in order, and every byte of a source without noise is a        *)
(* handled message's.  This holds as long as half of the buffer is free,   *)
(* with frames that agree on where the sync value and the frame id are,    *)
(* and with sources without noise that are message after message.  Of a    *)
(* noisy source it also supposes that what passes the checks is whole.     *)
THEOREM StreamImplemented ==
  UniformFrames /\ CleanSources /\ Spec /\ []HalfFree /\ []NoisePassesWhole
    => ImplementsFrameStream
<1> SUFFICES ASSUME UniformFrames, CleanSources
             PROVE  Spec /\ []HalfFree /\ []NoisePassesWhole => ImplementsFrameStream
  OBVIOUS
<1>1. Init => Stream!Init /\ AtBoundary /\ IsHistory(delivered)
  <2>1. Init => IsHistory(delivered)
    BY DEF Init, IsHistory
  <2> QED BY <2>1, InitImplements
<1>2. TypeOK /\ BufferInv /\ HalfFree /\ HalfFree' /\ [Next]_vars => BufferInv'
  BY BufferStep
<1>3. IsHistory(delivered) /\ [Next]_vars => IsHistory(delivered)'
  BY HistoryStep
<1>4. TypeOK /\ BufferInv /\ HalfFree' /\ AtBoundary /\ NoisePassesWhole
        /\ IsHistory(delivered) /\ [Next]_vars
        => [Stream!Next]_(Stream!vars) /\ AtBoundary'
  BY StepImplements, CleanIsWhole
<1> QED BY <1>1, <1>2, <1>3, <1>4, InitBuffer, TypeCorrect, PTL
        DEF Spec, ImplementsFrameStream, Stream!Spec

(* Without noise, what passes the checks is whole. *)
THEOREM CleanPassesWhole ==
  UniformFrames /\ CleanSources /\ (\A s \in Sources : ~s.noise) /\ Spec /\ []HalfFree
    => []PassedAreWhole
<1> SUFFICES ASSUME UniformFrames, CleanSources, \A s \in Sources : ~s.noise
             PROVE  Spec /\ []HalfFree => []PassedAreWhole
  OBVIOUS
<1>1. Init => AtBoundary /\ IsHistory(delivered)
  <2>1. Init => IsHistory(delivered)
    BY DEF Init, IsHistory
  <2> QED BY <2>1, InitImplements
<1>2. TypeOK /\ BufferInv /\ HalfFree /\ HalfFree' /\ [Next]_vars => BufferInv'
  BY BufferStep
<1>3. IsHistory(delivered) /\ [Next]_vars => IsHistory(delivered)'
  BY HistoryStep
<1>4. TypeOK /\ BufferInv /\ AtBoundary => PassedAreWhole
  BY CleanIsWhole DEF NoisePassesWhole, TypeOK
<1>5. TypeOK /\ BufferInv /\ HalfFree' /\ AtBoundary /\ PassedAreWhole
        /\ IsHistory(delivered) /\ [Next]_vars => AtBoundary'
  BY StepImplements
<1> QED BY <1>1, <1>2, <1>3, <1>4, <1>5, InitBuffer, TypeCorrect, PTL DEF Spec

(* Half of the buffer is free, if it holds any source twice. *)
THEOREM SmallSourcesFit ==
  (\A s \in Sources : 2 * Len(s.bytes) <= BufferSize) /\ Spec => []HalfFree
<1> SUFFICES ASSUME \A s \in Sources : 2 * Len(s.bytes) <= BufferSize
             PROVE  Spec => []HalfFree
  OBVIOUS
<1> DEFINE Inv == msgBufferCursorPos <= received
<1>1. Init => Inv
  BY DEF Init
<1>2. ASSUME TypeOK, Inv, [Next]_vars PROVE Inv'
  <2>1. msgBufferCursorPos \in Nat /\ received \in Nat /\ BufferSize \in Nat
    BY <1>2, Sizes, SourceAssumption DEF TypeOK
  <2>2. ASSUME NEW recvd \in 1..MaxRecv, Recv(recvd) PROVE Inv'
    <3>1. recvd \in Nat
      BY Sizes
    <3> QED BY <1>2, <2>1, <2>2, <3>1 DEF Recv, BytesToCopy
  <2>3. ASSUME NEW mem \in Memories, NEW msgEnd \in Nat \ {0}, RemoveThrough(mem, msgEnd),
               UNCHANGED streamVars
        PROVE  Inv'
    BY <1>2, <2>1, <2>3 DEF RemoveThrough, CursorAfter, streamVars
  <2>4. CASE UNCHANGED <<source, received, msgBuffer, msgBufferCursorPos>>
    BY <1>2, <2>4
  <2> QED BY <1>2, <2>2, <2>3, <2>4, BufferSteps
<1>3. ASSUME TypeOK, Inv PROVE HalfFree
  <2>1. /\ msgBufferCursorPos \in Nat /\ received \in Nat /\ BufferSize \in Nat
        /\ received <= Len(source.bytes) /\ Len(source.bytes) \in Nat
        /\ 2 * Len(source.bytes) <= BufferSize
    BY <1>3, Sizes, SourceAssumption DEF TypeOK
  <2> QED BY <1>3, <2>1 DEF HalfFree
<1> QED BY <1>1, <1>2, <1>3, TypeCorrect, PTL DEF Spec
=============================================================================
