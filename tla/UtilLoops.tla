----------------------------- MODULE UtilLoops -----------------------------
(***************************************************************************)
(* The loops of src/util.cpp and of the conversions in serial_library.hpp, *)
(* an iteration a step.  The other modules take these functions for what   *)
(* they compute (SerialFrames); here they are shown to compute it.         *)
(*                                                                         *)
(* A call of "setFieldValue" goes on to what becomes of the value: it is   *)
(* converted, inserted into a message, extracted by the receiver, switched *)
(* if the receiver switches endianness, and converted back.                *)
(*                                                                         *)
(* Buffers are functions from 0-based addresses.  A byte has Base values,  *)
(* and a char is signed.                                                   *)
(*                                                                         *)
(* A definition named ..._Mutant is a plausible mistake in the one after   *)
(* it, to check the properties with; no specification uses it.             *)
(***************************************************************************)
EXTENDS SerialFrames

CONSTANTS
  Base,          \* the values of a byte
  MaxDataBytes,  \* MAX_DATA_BYTES
  Calls          \* the calls, each a record of the function and its arguments

Byte == 0..(Base - 1)

(* How many values so many bytes have. *)
Power[size \in Nat] == IF size = 0 THEN 1 ELSE Base * Power[size - 1]

ASSUME UtilAssumption ==
  /\ Base \in Nat /\ Base % 2 = 0 /\ Base > 0
  /\ MaxDataBytes \in Nat
  /\ \A c \in Calls :
       /\ c.fn \in {"memstr", "count", "delete", "assemble", "normalize", "setFieldValue"}
       /\ c.fn = "memstr" => c.numHaystack \in Nat /\ c.needle \in Seq(Byte)
       /\ c.fn = "count" => c.string \in Seq(Byte)
       /\ c.fn = "delete" =>   \* the buffer, and the byte behind it
            /\ c.frame \in Seq(Nat) /\ c.len \in Nat
            /\ c.buffer = [k \in 0..c.len |-> c.buffer[k]]
       /\ c.fn = "assemble" => c.components \in Seq([field : Nat, places : Nat])
       /\ c.fn = "normalize" => c.frame \in Seq(Nat)
       /\ c.fn = "setFieldValue" =>
            /\ c.frame \in Seq(Nat) /\ c.bufferLen \in Nat
            /\ c.size \in 1..(MaxDataBytes - 1) /\ c.readSize \in Nat \ {0}
            /\ c.value \in 0..(Power[c.size] - 1)
            /\ c.switchEndianness \in BOOLEAN

VARIABLES
  call,   \* the call that is made
  fn,     \* the function that runs, "done" or "threw"
  i,      \* the loop's counter or iterator
  n,      \* the bytes, or the places, that are counted
  src,    \* the buffer that is read
  mem,    \* the buffer, or the frame, that is written
  val     \* the value that is shifted, or returned

vars == <<call, fn, i, n, src, mem, val>>

ID_VALUES == 256   \* of a SerialFrameId

Zeros(len) == [k \in 0..(len - 1) |-> 0]

(* A byte as a char that becomes an integer. *)
Char_Mutant(b) == b   \* chars are taken for unsigned

Char(b) == IF 2 * b >= Base THEN b - Base ELSE b

(* The values of a type of so many bytes, as unsigned numbers. *)
Truncated(v, size) == v % Power[size]

Init ==
  /\ call \in Calls
  /\ fn = call.fn
  /\ i = IF fn = "setFieldValue" THEN call.size - 1 ELSE 0
  /\ n = IF fn = "delete" THEN call.len ELSE 0
  /\ src = IF fn = "memstr" THEN call.haystack ELSE <<>>
  /\ mem = CASE fn = "setFieldValue" -> Zeros(MaxDataBytes)
             [] fn = "delete"        -> call.buffer
             [] OTHER                -> <<>>
  /\ val = IF fn = "setFieldValue" THEN call.value ELSE 0

(* The call returns, or goes on with the loop of the next function. *)
Return(v) == fn' = "done" /\ val' = v /\ UNCHANGED <<call, i, n, src, mem>>

Begin(next, first, count, from, to) ==
  /\ fn' = next /\ i' = first /\ n' = count /\ src' = from /\ mem' = to
  /\ UNCHANGED <<call, val>>

(* find(it, frame.end(), field) *)
Found_Mutant(frame, field) == findit(frame, field)   \* from the beginning, always

Found(frame, field) == i + findit(SubSeq(frame, i + 1, Len(frame)), field)

-----------------------------------------------------------------------------
(* memstr() and countInString() *)

LastStart_Mutant == call.numHaystack - Len(call.needle) - 1   \* i < instead of i <=

LastStart == call.numHaystack - Len(call.needle)

MemstrStep ==
  /\ fn = "memstr"
  /\ \/ /\ i > LastStart
        /\ Return(NotFound)
     \/ /\ i <= LastStart /\ MatchesAt(src, call.needle, i)
        /\ Return(i)
     \/ /\ i <= LastStart /\ ~MatchesAt(src, call.needle, i)
        /\ i' = i + 1
        /\ UNCHANGED <<call, fn, n, src, mem, val>>

CountStep ==
  /\ fn = "count"
  /\ \/ /\ i = Len(call.string)
        /\ Return(n)
     \/ /\ i < Len(call.string)
        /\ i' = i + 1
        /\ n' = IF call.string[i + 1] = call.char THEN n + 1 ELSE n
        /\ UNCHANGED <<call, fn, src, mem, val>>

-----------------------------------------------------------------------------
(* deleteFieldAndShiftBuffer() *)

ShiftedIndex_Mutant(place) == place   \* not robust to the bytes removed before

ShiftedIndex(place) == place + n - call.len

DeleteStep ==
  /\ fn = "delete"
  /\ \/ /\ call.len < Len(call.frame)
        /\ fn' = "threw"
        /\ UNCHANGED <<call, i, n, src, mem, val>>
     \/ /\ call.len >= Len(call.frame)
        /\ Found(call.frame, call.field) = Len(call.frame)
        /\ Return(n)
     \/ /\ call.len >= Len(call.frame)
        /\ Found(call.frame, call.field) < Len(call.frame)
        /\ LET place == Found(call.frame, call.field)
               idx   == ShiftedIndex(place)
           IN  /\ mem' = [k \in DOMAIN mem |->
                            IF k \in idx..(call.len - 1) THEN mem[k + 1] ELSE mem[k]]
               /\ i' = place + 1
        /\ n' = n - 1
        /\ UNCHANGED <<call, fn, src, val>>

-----------------------------------------------------------------------------
(* assembleSerialFrame(): i is the component, n the places of it so far. *)

AssembleStep ==
  /\ fn = "assemble"
  /\ \/ /\ i = Len(call.components)
        /\ Return(Len(mem))
     \/ /\ i < Len(call.components)
        /\ LET component == call.components[i + 1]
           IN  IF n < component.places
               THEN mem' = Append(mem, component.field % ID_VALUES) /\ n' = n + 1 /\ i' = i
               ELSE n' = 0 /\ i' = i + 1 /\ UNCHANGED mem
        /\ UNCHANGED <<call, fn, src, val>>

(* normalizeSerialFrame(): from the sync field on, then what is before it. *)
SyncIt_Mutant(frame) ==   \* the last of the sync bytes
  CHOOSE k \in 0..Len(frame) :
    \/ k = Len(frame) /\ FIELD_SYNC \notin FieldsOf(frame)
    \/ k + 1 \in Positions(frame, FIELD_SYNC)
         /\ \A p \in Positions(frame, FIELD_SYNC) : p <= k + 1

SyncIt(frame) == findit(frame, FIELD_SYNC)

NormalizeStep ==
  /\ fn = "normalize"
  /\ fn' = "done"
  /\ mem' = SubSeq(call.frame, SyncIt(call.frame) + 1, Len(call.frame))
              \o SubSeq(call.frame, 1, SyncIt(call.frame))
  /\ UNCHANGED <<call, i, n, src, val>>

-----------------------------------------------------------------------------
(* The way of a value *)

LowByte_Mutant(v) == v   \* no & 0xFF

LowByte(v) == v % Base

(* convertToCString(): the last byte of the type first; setFieldValue()    *)
(* leaves room for all of them.  The data becomes the field's, and is      *)
(* inserted into a cleared message by send().                              *)
ToCStringStep ==
  /\ fn = "setFieldValue"
  /\ \/ /\ i >= 0
        /\ mem' = [mem EXCEPT ![i] = LowByte(val)]
        /\ n' = n + 1
        /\ val' = val \div Base
        /\ i' = i - 1
        /\ UNCHANGED <<call, fn, src>>
     \/ /\ i < 0
        /\ Begin("insert", 0, 0, [k \in 0..(n - 1) |-> mem[k]], Zeros(call.bufferLen))

InsertNext_Mutant(idx) == IF idx < call.bufferLen THEN idx + 1 ELSE idx

InsertNext(idx) == idx + 1

(* insertFieldToBuffer(): data stays back if the message is too short. *)
InsertStep ==
  /\ fn = "insert"
  /\ LET idx == Found(call.frame, call.field)
         ends == idx = Len(call.frame) \/ n >= Cardinality(DOMAIN src)
     IN  \/ /\ ends
            /\ Begin("extract", 0, 0, mem, Zeros(MaxDataBytes))
         \/ /\ ~ends
            /\ mem' = IF idx < call.bufferLen THEN [mem EXCEPT ![idx] = src[n]] ELSE mem
            /\ n' = IF idx < call.bufferLen THEN n + 1 ELSE n
            /\ i' = InsertNext(idx)
            /\ UNCHANGED <<call, fn, src, val>>

(* extractFieldFromBuffer(): places behind the message count, too.  What   *)
(* is extracted becomes the receiver's field, whose assignment throws for  *)
(* as much data as a SerialData has room for.                              *)
ExtractStep ==
  /\ fn = "extract"
  /\ LET idx == Found(call.frame, call.field)
         ends == idx = Len(call.frame) \/ n >= MaxDataBytes
     IN  \/ /\ ends /\ n >= MaxDataBytes
            /\ fn' = "threw"
            /\ UNCHANGED <<call, i, n, src, mem, val>>
         \/ /\ ends /\ n < MaxDataBytes
            /\ Begin(IF call.switchEndianness THEN "switch" ELSE "convert", 0, n, mem, mem)
         \/ /\ ~ends
            /\ mem' = [mem EXCEPT ![n] = IF idx < call.bufferLen THEN src[idx] ELSE @]
            /\ n' = n + 1
            /\ i' = idx + 1
            /\ UNCHANGED <<call, fn, src, val>>

(* switchDataEndianness(), in getField() *)
SwitchStep ==
  /\ fn = "switch"
  /\ \/ /\ i = n
        /\ Begin("convert", 0, n, mem, mem)
     \/ /\ i < n
        /\ mem' = [mem EXCEPT ![i] = src[n - i - 1]]
        /\ i' = i + 1
        /\ UNCHANGED <<call, fn, n, src, val>>

(* convertFromCString(): the first byte, then so many others. *)
PlacesToShift == IF call.readSize < n THEN call.readSize ELSE n

FromCStringStep ==
  /\ fn = "convert"
  /\ \/ /\ n = 0
        /\ Return(0)
     \/ /\ n > 0 /\ i = PlacesToShift
        /\ Return(val)
     \/ /\ n > 0 /\ i < PlacesToShift
        /\ val' = IF i = 0 THEN Truncated(Char(src[0]), call.readSize)
                  ELSE Truncated(val * Base + src[i], call.readSize)
        /\ i' = i + 1
        /\ UNCHANGED <<call, fn, n, src, mem>>

-----------------------------------------------------------------------------
Next ==
  \/ MemstrStep \/ CountStep \/ DeleteStep \/ AssembleStep \/ NormalizeStep
  \/ ToCStringStep \/ InsertStep \/ ExtractStep \/ SwitchStep \/ FromCStringStep

(* A call runs on until it returns. *)
Spec == Init /\ [][Next]_vars /\ WF_vars(Next)
=============================================================================
