--------------------------- MODULE UtilProperties ---------------------------
(***************************************************************************)
(* What the loops of UtilLoops compute.                                    *)
(***************************************************************************)
EXTENDS UtilLoops

Ends == {"done", "threw"}

(* The type invariant: bytes stay bytes, and no loop writes outside of its *)
(* buffer.                                                                 *)
TypeOK ==
  /\ fn \in {"memstr", "count", "delete", "assemble", "normalize", "setFieldValue",
             "insert", "extract", "switch", "convert"} \cup Ends
  /\ i \in Int /\ n \in Nat /\ val \in Int
  /\ call.fn = "setFieldValue" =>
       /\ \A k \in DOMAIN mem : mem[k] \in Byte
       /\ fn = "insert" => DOMAIN mem = 0..(call.bufferLen - 1)
       /\ fn \in {"setFieldValue", "extract", "switch"} => DOMAIN mem = 0..(MaxDataBytes - 1)
  /\ call.fn = "delete" => DOMAIN mem = DOMAIN call.buffer /\ mem[call.len] = call.buffer[call.len]

(* memstr() and countInString() return what the other modules take them    *)
(* for: the first place at which the needle is found whole, wherever the   *)
(* end of the haystack cuts an occurrence off, and the number of hits.     *)
SearchesAreExact ==
  /\ fn = "done" /\ call.fn = "memstr" =>
       val = memstr(call.haystack, call.numHaystack, call.needle)
  /\ fn = "done" /\ call.fn = "count" =>
       val = Cardinality(Positions(call.string, call.char))

(* deleteFieldAndShiftBuffer() leaves the other bytes of the message in    *)
(* their order and moves up what lies behind the message, although every   *)
(* memmove() of it reads the byte behind the buffer and moves it in: that  *)
(* byte ends up behind the length that is returned.                        *)
DeletesOnlyTheField ==
  fn = "done" /\ call.fn = "delete" =>
    LET kept    == deleteFieldAndShiftBuffer(call.buffer, call.frame, call.field)
        deleted == Len(call.frame) - Len(kept)
    IN  /\ val = call.len - deleted
        /\ \A k \in 1..Len(kept) : mem[k - 1] = kept[k]
        /\ \A k \in Len(kept)..(val - 1) : mem[k] = call.buffer[k + deleted]

(* The frame of a sequence of components, and those of the first ones. *)
FramesUpTo(components) ==
  LET frame[k \in 0..Len(components)] ==
        IF k = 0 THEN <<>>
        ELSE frame[k - 1]
               \o [p \in 1..components[k].places |-> components[k].field % ID_VALUES]
  IN  frame

FrameOf(components) == FramesUpTo(components)[Len(components)]

(* assembleSerialFrame() gives every component its places, one after the   *)
(* other, whatever components have none; and normalizeSerialFrame()        *)
(* rotates a frame such that it begins with its sync field, and does not   *)
(* tear the bytes of the sync value apart.                                 *)
FramesAreBuilt ==
  /\ fn = "done" /\ call.fn = "assemble" =>
       mem = FrameOf(call.components)
  /\ fn = "done" /\ call.fn = "normalize" =>
       /\ FIELD_SYNC \in FieldsOf(call.frame) => mem[1] = FIELD_SYNC
       /\ SyncIsContinuous(call.frame) => SyncIsContinuous(mem)
       /\ \E turn \in 0..Len(call.frame) :
            mem = SubSeq(call.frame, turn + 1, Len(call.frame)) \o SubSeq(call.frame, 1, turn)

PlacesOfField == Cardinality(Positions(call.frame, call.field))

Digit(v, k) == (v \div Power[k]) % Base

Reversed(v, size) ==
  CHOOSE r \in 0..(Power[size] - 1) : \A k \in 0..(size - 1) : Digit(r, k) = Digit(v, size - 1 - k)

Extended(v, size, wider) ==
  IF Digit(v, size - 1) >= Base \div 2 THEN Power[wider] - Power[size] + v ELSE v

(* A value that is set on one side is read on the other side, when the     *)
(* field has no fewer places than the value has bytes, the message fits    *)
(* its buffer and the receiver reads the type that was set.  A receiver    *)
(* that reads a wider type gets the value with its sign, so an unsigned    *)
(* one may change; one that switches endianness, which a sender does not,  *)
(* gets the bytes reversed.                                                *)
ValuesArrive ==
  fn = "done" /\ call.fn = "setFieldValue" /\ Len(call.frame) <= call.bufferLen =>
    /\ ~call.switchEndianness /\ call.readSize = call.size /\ call.size <= PlacesOfField
         => val = call.value
    /\ ~call.switchEndianness /\ call.size = PlacesOfField /\ call.readSize > call.size
         => val = Extended(call.value, call.size, call.readSize)
    /\ call.switchEndianness /\ call.readSize = call.size /\ call.size = PlacesOfField
         => val = Reversed(call.value, call.size)

(* The fields of a message are packed and parsed by these loops as the     *)
(* other modules say: whatever the places of the field are, and whether    *)
(* its data is shorter or longer than them.                                *)
FieldsAreExact ==
  /\ fn = "extract" /\ i = 0 =>
       LET data == [k \in 1..call.size |-> Digit(call.value, call.size - k)]
       IN  src = insertFieldToBuffer(Zeros(call.bufferLen), call.frame, call.field, data)
  /\ fn = "convert" /\ i = 0 /\ ~call.switchEndianness =>
       LET data == [k \in 1..call.size |-> Digit(call.value, call.size - k)]
           sent == insertFieldToBuffer(Zeros(call.bufferLen), call.frame, call.field, data)
           got  == extractFieldFromBuffer(sent, call.bufferLen, call.frame, call.field,
                     [k \in 1..MaxDataBytes |-> 0], MaxDataBytes)
       IN  n = Len(got) /\ \A k \in 1..n : src[k - 1] = got[k]

(* Every call returns or throws. *)
CallsEnd == <>(fn \in Ends)
=============================================================================
