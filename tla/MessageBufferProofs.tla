------------------------ MODULE MessageBufferProofs ------------------------
(***************************************************************************)
(* Theorems about MessageBuffer, for every set of frames the constructor   *)
(* accepts, every size of the buffer, and every source of bytes.           *)
(***************************************************************************)
EXTENDS MessageProperties, SequenceLemmas

-----------------------------------------------------------------------------
(* The search of memstr *)

(* memstr returns the null pointer or the first place of the needle.  A    *)
(* place it returns lies whole below numHaystack.                          *)
LEMMA MemstrFirst ==
  ASSUME NEW haystack, NEW num \in Nat, NEW needle, Len(needle) \in Nat \ {0},
         memstr(haystack, num, needle) # NotFound
  PROVE  /\ memstr(haystack, num, needle) \in 0..(num - Len(needle))
         /\ MatchesAt(haystack, needle, memstr(haystack, num, needle))
         /\ \A i \in 0..(memstr(haystack, num, needle) - 1) :
              ~ MatchesAt(haystack, needle, i)
<1> DEFINE hits  == {i \in 0..(num - Len(needle)) : MatchesAt(haystack, needle, i)}
           first == CHOOSE i \in hits : \A j \in hits : i <= j
<1>1. hits # {} /\ memstr(haystack, num, needle) = first
  BY DEF memstr
<1>2. hits \in SUBSET Nat
  OBVIOUS
<1>3. \E i \in hits : \A j \in hits : i <= j
  BY <1>1, <1>2, LeastElement
<1>4. first \in hits /\ \A j \in hits : first <= j
  BY <1>3
<1>5. /\ first \in 0..(num - Len(needle))
      /\ MatchesAt(haystack, needle, first)
  BY <1>4
<1> HIDE DEF first
<1>6. ASSUME NEW i \in 0..(first - 1) PROVE ~ MatchesAt(haystack, needle, i)
  <2>1. i \in 0..(num - Len(needle)) /\ ~ (first <= i)
    BY <1>5
  <2> QED BY <2>1, <1>4
<1> QED BY <1>1, <1>5, <1>6

-----------------------------------------------------------------------------
(* What the assumptions say of the constants *)

(* What the assumptions on the sizes give the provers. *)
LEMMA Sizes ==
  /\ BufferSize \in Nat \ {0}
  /\ MaxFrame \in 1..BufferSize
  /\ MaxRecv \in 1..BufferSize
  /\ Len(SyncValue) \in Nat \ {0}
<1>1. Len(SyncValue) \in Nat \ {0}
  BY FramesAssumption
<1> QED BY <1>1, SizesAssumption

(* Every frame of the map is a sequence of 1..MaxFrame fields with a sync field. *)
LEMMA FrameFacts ==
  /\ DefaultFrame \in DOMAIN Frames
  /\ \A id \in DOMAIN Frames : Len(Frames[id]) \in 1..MaxFrame
  /\ findit(defaultSerialFrame, FIELD_SYNC) \in 0..(Len(defaultSerialFrame) - 1)
<1>1. DefaultFrame \in DOMAIN Frames
  BY FramesAssumption DEF CtorAccepts
<1>2. \A id \in DOMAIN Frames : Len(Frames[id]) \in 1..MaxFrame
  BY FramesAssumption
<1>3. defaultSerialFrame \in Seq(Nat)
  BY <1>1, FramesAssumption DEF defaultSerialFrame
<1>4. Positions(defaultSerialFrame, FIELD_SYNC) # {}
  BY <1>1, FramesAssumption DEF CtorAccepts, FrameAccepted, defaultSerialFrame
<1> QED BY <1>1, <1>2, <1>3, <1>4, FinditFirst

(* The frame an iteration selects is one of the map. *)
LEMMA SelectedFrame ==
  ASSUME NEW mem
  PROVE  /\ frameIdToUse(mem) \in DOMAIN Frames
         /\ Len(frameToUse(mem)) \in 1..MaxFrame
<1>1. frameIdToUse(mem) \in DOMAIN Frames
  BY FrameFacts DEF frameIdToUse, hasFrameToUse
<1> QED BY <1>1, FrameFacts DEF frameToUse

(* A sync value is found whole below the cursor. *)
LEMMA SyncBelowCursor ==
  ASSUME TypeOK, SyncFound
  PROVE  syncLocation \in 0..(msgBufferCursorPos - 1)
<1>1. msgBufferCursorPos \in Nat
  BY Sizes DEF TypeOK
<1>2. syncLocation \in 0..(msgBufferCursorPos - Len(SyncValue))
  BY <1>1, Sizes, MemstrFirst DEF SyncFound, syncLocation
<1> QED BY <1>1, <1>2, Sizes

-----------------------------------------------------------------------------
(* Memory, and the removal of bytes from the buffer *)

(* Any memory an iteration can see holds cells, the buffer among them. *)
LEMMA MemoryHoldsCells ==
  ASSUME TypeOK, NEW mem \in Memories, NEW a \in Addresses \cup Outside
  PROVE  mem[a] \in Cells
<1>1. PICK foreign \in [Outside -> StaleCells] :
        mem = [i \in Addresses \cup Outside |->
                 IF i \in Addresses THEN msgBuffer[i] ELSE foreign[i]]
  BY DEF Memories
<1>2. StaleCells \subseteq Cells
  BY DEF StaleCells, Cells, NoPosition
<1>3. CASE a \in Addresses
  BY <1>1, <1>3 DEF TypeOK
<1>4. CASE a \in Outside \ Addresses
  BY <1>1, <1>2, <1>4
<1> QED BY <1>3, <1>4

(* A removal that ends behind the first byte, and reads memory that an     *)
(* iteration can address, keeps the buffer's type and moves the cursor     *)
(* back, unless it was at the start of the buffer.                         *)
LEMMA RemovalShrinks ==
  ASSUME TypeOK, NEW mem \in Memories, NEW msgEnd \in Nat \ {0},
         \A i \in 0..(BytesToMove - 1) : msgEnd + i \in Addresses \cup Outside,
         RemoveThrough(mem, msgEnd)
  PROVE  /\ msgBuffer' \in [Addresses -> Cells]
         /\ msgBufferCursorPos' \in 0..BufferSize
         /\ msgBufferCursorPos > 0 => msgBufferCursorPos' < msgBufferCursorPos
<1>1. ASSUME NEW i \in Addresses
      PROVE  (IF i < BytesToMove THEN mem[msgEnd + i] ELSE msgBuffer[i]) \in Cells
  <2>1. CASE i < BytesToMove
    <3>1. i \in 0..(BytesToMove - 1)
      BY <2>1, Sizes DEF Addresses, BytesToMove, TypeOK
    <3>2. mem[msgEnd + i] \in Cells
      BY <3>1, MemoryHoldsCells
    <3> QED BY <3>2, <2>1
  <2>2. CASE ~ (i < BytesToMove)
    BY <2>2 DEF TypeOK
  <2> QED BY <2>1, <2>2
<1>2. msgBuffer' \in [Addresses -> Cells]
  BY <1>1 DEF RemoveThrough
<1>3. /\ msgBufferCursorPos' \in 0..BufferSize
      /\ msgBufferCursorPos > 0 => msgBufferCursorPos' < msgBufferCursorPos
  BY Sizes DEF RemoveThrough, CursorAfter, TypeOK
<1> QED BY <1>2, <1>3

(* A delivered message ends behind its first byte, and what memmove reads  *)
(* behind its end is memory the iteration can address.                     *)
LEMMA DeliveredEnd ==
  ASSUME TypeOK, SyncFound, NEW mem \in Memories, MessagePasses(mem)
  PROVE  /\ msgStart + Len(frameToUse(mem)) \in Nat \ {0}
         /\ \A i \in 0..(BytesToMove - 1) :
              msgStart + Len(frameToUse(mem)) + i \in Addresses \cup Outside
<1> DEFINE size == Len(frameToUse(mem))
<1>1. size \in 1..MaxFrame
  BY SelectedFrame
<1>2. msgStart \in Nat
  BY SyncBelowCursor, FrameFacts DEF MessagePasses, msgStart, TypeOK
<1>3. msgBufferCursorPos \in 0..BufferSize /\ MaxFrame \in Nat /\ BufferSize \in Nat
  BY Sizes DEF TypeOK
<1> HIDE DEF size
<1>4. ASSUME NEW i \in 0..(BytesToMove - 1)
      PROVE  msgStart + size + i \in Addresses \cup Outside
  <2>1. msgStart + size + i
          \in msgStart..(msgStart + MaxFrame + BufferSize - msgBufferCursorPos - 1)
    BY <1>1, <1>2, <1>3 DEF BytesToMove
  <2> QED BY <2>1 DEF Outside
<1>5. msgStart + size \in Nat \ {0}
  BY <1>1, <1>2
<1> QED BY <1>4, <1>5 DEF size

(* The same for a rejected candidate. *)
LEMMA RejectedEnd ==
  ASSUME TypeOK, SyncFound
  PROVE  /\ EndOfRejected \in Nat \ {0}
         /\ \A i \in 0..(BytesToMove - 1) : EndOfRejected + i \in Addresses \cup Outside
<1>1. syncLocation \in 0..(msgBufferCursorPos - 1)
  BY SyncBelowCursor
<1>2. msgBufferCursorPos \in 0..BufferSize /\ BufferSize \in Nat
  BY Sizes DEF TypeOK
<1> QED BY <1>1, <1>2 DEF EndOfRejected, BytesToMove, Addresses

(* A remainder is below the divisor. *)
LEMMA Remainders ==
  ASSUME NEW width \in Nat, width > 0, NEW n \in Nat
  PROVE  n % width \in 0..(width - 1)
OBVIOUS

(* The width of the counters is a number. *)
LEMMA CounterWidth == USHORT \in Nat /\ USHORT > 0
BY DEF USHORT

(* Counting is modulo the counters' width, and plain below it. *)
LEMMA ModuloRange == \A n \in Nat : n % USHORT \in Counter
BY Remainders, CounterWidth DEF Counter

(* A number below the counters' width is its own remainder. *)
LEMMA ModuloSmall == \A n \in Nat : n < USHORT => n % USHORT = n
BY DEF USHORT

(* Zero is a counter, and counters are numbers. *)
LEMMA ZeroCounts == 0 \in Counter /\ Counter \subseteq Nat
BY CounterWidth DEF Counter

(* PlusOne of a counter is a counter. *)
LEMMA CounterWraps ==
  ASSUME NEW n \in Counter
  PROVE  PlusOne(n) \in Counter
<1>1. n + 1 \in Nat
  BY ZeroCounts
<1> QED BY <1>1, ModuloRange, Zenon DEF PlusOne

(* PlusOne adds one, below the counters' width. *)
LEMMA CounterCounts ==
  ASSUME NEW n \in Nat, n + 1 < USHORT
  PROVE  PlusOne(n) = n + 1
<1>1. n + 1 \in Nat
  OBVIOUS
<1> QED BY <1>1, ModuloSmall, Zenon DEF PlusOne

(* The statistics stay counters. *)
LEMMA TallyTyped ==
  ASSUME TypeOK, NEW failed \in Counter, Tally(failed)
  PROVE  /\ failedOfLastTen' \in Counter
         /\ failedOfLastTenCounter' \in Counter
         /\ totalOfLastTenCounter' \in Counter
<1>1. PlusOne(totalOfLastTenCounter) \in Counter
  BY CounterWraps DEF TypeOK
<1> QED BY <1>1, ZeroCounts DEF Tally, TypeOK

-----------------------------------------------------------------------------
(* Type correctness *)

(* A new processor's state has its type. *)
LEMMA InitTyped == Init => TypeOK
<1> SUFFICES ASSUME Init PROVE TypeOK
  OBVIOUS
<1>1. msgBuffer \in [Addresses -> Cells]
  BY DEF Init, StaleCells, Cells, NoPosition
<1>2. received \in 0..Len(source.bytes)
  BY SourceAssumption DEF Init
<1> QED BY <1>1, <1>2, Sizes, ZeroCounts DEF Init, TypeOK

(* Receiving keeps the type: the cursor stops at the end of the buffer. *)
LEMMA RecvTyped ==
  ASSUME TypeOK, NEW recvd \in 1..MaxRecv, Recv(recvd)
  PROVE  TypeOK'
<1> DEFINE count == BytesToCopy(recvd)
<1>1. /\ source.bytes \in Seq(Values)
      /\ received + recvd \in 1..Len(source.bytes)
  BY SourceAssumption DEF TypeOK, Recv
<1>2. /\ count \in 0..recvd
      /\ msgBufferCursorPos + count \in 0..BufferSize
      /\ msgBufferCursorPos \in 0..BufferSize
      /\ received \in Nat /\ recvd \in Nat /\ BufferSize \in Nat
  BY Sizes, <1>1 DEF BytesToCopy, TypeOK
<1>3. msgBuffer' \in [Addresses -> Cells]
  <2>1. ASSUME NEW i \in msgBufferCursorPos..(msgBufferCursorPos + count - 1)
        PROVE  LET p == received + 1 + i - msgBufferCursorPos
               IN  [val |-> source.bytes[p], pos |-> p] \in Cells
    <3> DEFINE p == received + 1 + i - msgBufferCursorPos
    <3> HIDE DEF count
    <3>1. p \in 1..Len(source.bytes) /\ p \in Nat
      BY <1>1, <1>2
    <3>2. source.bytes[p] \in Values
      BY <3>1, <1>1
    <3> QED BY <3>1, <3>2 DEF Cells
  <2>2. \A i \in Addresses : msgBuffer[i] \in Cells
    BY DEF TypeOK
  <2> HIDE DEF count
  <2> QED BY <2>1, <2>2 DEF Recv, count
<1> QED BY <1>1, <1>2, <1>3 DEF Recv, TypeOK, counters, outputs

(* Storing a message never takes the sync field out of the map. *)
LEMMA StoreKeepsSync ==
  ASSUME TypeOK, NEW msg, StoreFields(msg)
  PROVE  FIELD_SYNC \in DOMAIN values'
BY DEF TypeOK, StoreFields

(* An iteration of the loop keeps the type. *)
LEMMA IterateTyped ==
  ASSUME TypeOK, Iterate
  PROVE  TypeOK'
<1>1. CASE NoSync
  BY <1>1 DEF NoSync, TypeOK, streamVars, counters, outputs
<1>2. ASSUME NEW mem \in Memories, Incomplete(mem) PROVE TypeOK'
  <2>1. PlusOne(totalOfLastTenCounter) \in Counter
    BY CounterWraps DEF TypeOK
  <2> QED BY <1>2, <2>1 DEF Incomplete, TypeOK, streamVars, outputs
<1>3. ASSUME NEW mem \in Memories, Deliver(mem) PROVE TypeOK'
  <2>1. SyncFound /\ MessagePasses(mem)
    BY <1>3 DEF Deliver
  <2>2. RemoveThrough(mem, msgStart + Len(frameToUse(mem))) /\ Tally(failedOfLastTenCounter)
    BY <1>3 DEF Deliver
  <2>3. /\ msgBuffer' \in [Addresses -> Cells]
        /\ msgBufferCursorPos' \in 0..BufferSize
    BY <2>1, <2>2, DeliveredEnd, RemovalShrinks
  <2>4. FIELD_SYNC \in DOMAIN values'
    BY <1>3, StoreKeepsSync DEF Deliver
  <2>5. /\ failedOfLastTen' \in Counter
        /\ failedOfLastTenCounter' \in Counter
        /\ totalOfLastTenCounter' \in Counter
    BY <2>2, TallyTyped DEF TypeOK
  <2>6. lastMsgRecvTime' = received /\ received \in 0..received
    BY <1>3, SourceAssumption DEF Deliver, TypeOK
  <2> QED BY <1>3, <2>3, <2>4, <2>5, <2>6 DEF Deliver, TypeOK, streamVars
<1>4. ASSUME NEW mem \in Memories, CallbackThrows(mem) PROVE TypeOK'
  <2>1. FIELD_SYNC \in DOMAIN values'
    BY <1>4, StoreKeepsSync DEF CallbackThrows
  <2>2. PlusOne(totalOfLastTenCounter) \in Counter
    BY CounterWraps DEF TypeOK
  <2> QED BY <1>4, <2>1, <2>2
          DEF CallbackThrows, BufferKept, TypeOK, streamVars
<1>5. ASSUME NEW mem \in Memories, Reject(mem) PROVE TypeOK'
  <2>1. /\ msgBuffer' \in [Addresses -> Cells]
        /\ msgBufferCursorPos' \in 0..BufferSize
    BY <1>5, RejectedEnd, RemovalShrinks DEF Reject
  <2>2. PlusOne(failedOfLastTenCounter) \in Counter
    BY CounterWraps DEF TypeOK
  <2>3. /\ failedOfLastTen' \in Counter
        /\ failedOfLastTenCounter' \in Counter
        /\ totalOfLastTenCounter' \in Counter
    BY <1>5, <2>2, TallyTyped DEF Reject
  <2> QED BY <1>5, <2>1, <2>3 DEF Reject, TypeOK, streamVars, outputs
<1> QED BY <1>1, <1>2, <1>3, <1>4, <1>5 DEF Iterate

(* Type correctness of update()'s state: the cursor stays in the buffer,   *)
(* whatever the bytes are and wherever a message starts or ends.           *)
THEOREM TypeCorrect == Spec => []TypeOK
<1>1. Init => TypeOK
  BY InitTyped
<1>2. TypeOK /\ [Next]_vars => TypeOK'
  <2> SUFFICES ASSUME TypeOK, [Next]_vars PROVE TypeOK'
    OBVIOUS
  <2>1. CASE Receive
    BY <2>1, RecvTyped DEF Receive
  <2>2. CASE Iterate
    BY <2>2, IterateTyped
  <2>3. CASE RecvNothing \/ UNCHANGED vars
    BY <2>3 DEF RecvNothing, TypeOK, vars, streamVars, counters, outputs
  <2> QED BY <2>1, <2>2, <2>3 DEF Next
<1> QED BY <1>1, <1>2, PTL DEF Spec

-----------------------------------------------------------------------------
(* Progress of the loop *)

(* An iteration that does not end the loop moves the cursor back. *)
LEMMA IterationShrinks ==
  ASSUME TypeOK, Next, pc = "scan", pc' = "scan"
  PROVE  msgBufferCursorPos' < msgBufferCursorPos
<1>1. PICK mem \in Memories : Deliver(mem) \/ Reject(mem)
  BY DEF Next, Receive, Recv, RecvNothing, Iterate, NoSync, Incomplete, CallbackThrows
<1>2. SyncFound
  BY <1>1 DEF Deliver, Reject
<1>3. msgBufferCursorPos > 0
  BY <1>2, SyncBelowCursor DEF TypeOK
<1>4. CASE Deliver(mem)
  <2>1. MessagePasses(mem) /\ RemoveThrough(mem, msgStart + Len(frameToUse(mem)))
    BY <1>4 DEF Deliver
  <2> QED BY <1>2, <1>3, <2>1, DeliveredEnd, RemovalShrinks
<1>5. CASE Reject(mem)
  BY <1>2, <1>3, <1>5, RejectedEnd, RemovalShrinks DEF Reject
<1> QED BY <1>1, <1>4, <1>5

(* Every iteration that does not end the loop makes the buffer's contents  *)
(* shorter: a call of update() has at most as many iterations as the       *)
(* buffer has bytes, whatever they are.                                    *)
THEOREM LoopShrinks == Spec => ScanShrinks
<1>1. TypeOK /\ [Next]_vars =>
        [pc = "scan" /\ pc' = "scan" => msgBufferCursorPos' < msgBufferCursorPos]_vars
  BY IterationShrinks
<1> QED BY <1>1, TypeCorrect, PTL DEF Spec, ScanShrinks

-----------------------------------------------------------------------------
(* The statistics *)

(* FailureStatsSound, strengthened to an inductive invariant: an           *)
(* incomplete message can be counted again only after bytes have come, so  *)
(* what exceeds nine in the total is paid for by bytes below the cursor;   *)
(* and there are fewer of them than a frame has, as long as it is          *)
(* incomplete.                                                             *)
StatsInv ==
  /\ failedOfLastTen <= 10
  /\ failedOfLastTenCounter <= 9
  /\ failedOfLastTenCounter <= totalOfLastTenCounter
  /\ totalOfLastTenCounter <= 8 + MaxFrame
  /\ pc = "idle" => totalOfLastTenCounter <= 9 + msgBufferCursorPos
  /\ pc = "scan" => \/ totalOfLastTenCounter <= 9
                    \/ totalOfLastTenCounter <= 8 + msgBufferCursorPos

(* Whatever happens to a message, nine or fewer stay counted. *)
LEMMA TallyBounds ==
  ASSUME TypeOK, StatsInv,
         NEW failed \in {failedOfLastTenCounter, failedOfLastTenCounter + 1},
         Tally(failed)
  PROVE  /\ failedOfLastTen' <= 10
         /\ failedOfLastTenCounter' <= 9
         /\ failedOfLastTenCounter' <= totalOfLastTenCounter'
         /\ totalOfLastTenCounter' <= 9
<1>1. /\ totalOfLastTenCounter \in Nat /\ totalOfLastTenCounter + 1 < USHORT
      /\ failedOfLastTenCounter \in Nat /\ MaxFrame \in Nat
  BY SizesAssumption, ZeroCounts DEF TypeOK, StatsInv, USHORT
<1>2. PlusOne(totalOfLastTenCounter) = totalOfLastTenCounter + 1
  BY <1>1, CounterCounts
<1> QED BY <1>1, <1>2 DEF Tally, TypeOK, StatsInv

(* Every step keeps the bounds of the statistics. *)
LEMMA StatsStep ==
  ASSUME TypeOK, StatsInv, [Next]_vars, ~CallbackMayThrow
  PROVE  StatsInv'
<1>1. /\ msgBufferCursorPos \in 0..BufferSize /\ BufferSize \in Nat
      /\ MaxFrame \in 1..BufferSize
      /\ failedOfLastTenCounter \in Nat /\ totalOfLastTenCounter \in Nat
  BY Sizes, ZeroCounts DEF TypeOK
<1>2. CASE Receive
  <2>1. PICK recvd \in 1..MaxRecv : Recv(recvd)
    BY <1>2 DEF Receive
  <2>2. /\ msgBufferCursorPos' \in Nat
        /\ \/ msgBufferCursorPos' >= msgBufferCursorPos + 1
           \/ msgBufferCursorPos' = BufferSize
    BY <1>1, <2>1, Sizes DEF Recv, BytesToCopy
  <2> QED BY <1>1, <2>1, <2>2 DEF Recv, StatsInv, counters
<1>3. CASE NoSync
  BY <1>1, <1>3 DEF NoSync, StatsInv, counters
<1>4. ASSUME NEW mem \in Memories, Incomplete(mem) PROVE StatsInv'
  <2>1. /\ totalOfLastTenCounter + 1 < USHORT
        /\ PlusOne(totalOfLastTenCounter) = totalOfLastTenCounter + 1
    BY <1>1, SizesAssumption, CounterCounts DEF StatsInv, USHORT
  <2>2. msgBufferCursorPos > 0
    BY <1>4, <1>1, SyncBelowCursor DEF Incomplete
  <2>3. msgBufferCursorPos < MaxFrame
    <3>1. Len(defaultSerialFrame) \in 1..MaxFrame /\ Len(frameToUse(mem)) \in 1..MaxFrame
      BY FrameFacts, SelectedFrame DEF defaultSerialFrame
    <3> QED BY <1>4, <1>1, <3>1 DEF Incomplete, EnoughBytes
  <2>4. pc = "scan" /\ pc' = "idle"
    BY <1>4 DEF Incomplete, SyncFound
  <2> QED BY <1>1, <1>4, <2>1, <2>2, <2>3, <2>4 DEF Incomplete, StatsInv
<1>5. ASSUME NEW mem \in Memories, Deliver(mem) PROVE StatsInv'
  <2>1. /\ failedOfLastTen' <= 10
        /\ failedOfLastTenCounter' <= 9
        /\ failedOfLastTenCounter' <= totalOfLastTenCounter'
        /\ totalOfLastTenCounter' <= 9
    BY <1>5, TallyBounds DEF Deliver
  <2>2. totalOfLastTenCounter' \in Nat
    BY <1>5, TallyTyped, ZeroCounts DEF Deliver, TypeOK
  <2>3. pc' = "scan"
    BY <1>5 DEF Deliver, SyncFound
  <2> QED BY <1>1, <2>1, <2>2, <2>3 DEF StatsInv
<1>6. ASSUME NEW mem \in Memories, Reject(mem) PROVE StatsInv'
  <2>1. PlusOne(failedOfLastTenCounter) = failedOfLastTenCounter + 1
    BY <1>1, CounterCounts DEF StatsInv, USHORT
  <2>2. PlusOne(failedOfLastTenCounter) \in Counter
    BY CounterWraps DEF TypeOK
  <2>3. /\ failedOfLastTen' <= 10
        /\ failedOfLastTenCounter' <= 9
        /\ failedOfLastTenCounter' <= totalOfLastTenCounter'
        /\ totalOfLastTenCounter' <= 9
    BY <1>6, <2>1, TallyBounds DEF Reject
  <2>4. totalOfLastTenCounter' \in Nat
    BY <1>6, <2>2, TallyTyped, ZeroCounts DEF Reject
  <2>5. pc' = "scan"
    BY <1>6 DEF Reject, SyncFound
  <2> QED BY <1>1, <2>3, <2>4, <2>5 DEF StatsInv
<1>7. CASE UNCHANGED vars
  BY <1>7 DEF vars, counters, StatsInv
<1>8. ASSUME NEW mem \in Memories PROVE ~CallbackThrows(mem)
  BY DEF CallbackThrows
<1> QED BY <1>2, <1>3, <1>4, <1>5, <1>6, <1>7, <1>8 DEF Next, Iterate, RecvNothing

(* failedOfLastTenMessages() never reports more than ten, and no counter   *)
(* wraps, as long as the callback does not throw.                          *)
THEOREM StatsCorrect == Spec => []FailureStatsSound
<1>1. CASE CallbackMayThrow
  <2>1. FailureStatsSound
    BY <1>1 DEF FailureStatsSound
  <2> QED BY <2>1, PTL
<1>2. CASE ~CallbackMayThrow
  <2>1. Init => StatsInv
    BY Sizes DEF Init, StatsInv
  <2>2. TypeOK /\ StatsInv /\ [Next]_vars => StatsInv'
    BY <1>2, StatsStep
  <2>3. StatsInv => FailureStatsSound
    BY DEF StatsInv, FailureStatsSound
  <2> QED BY <2>1, <2>2, <2>3, TypeCorrect, PTL DEF Spec
<1> QED BY <1>1, <1>2
=============================================================================
