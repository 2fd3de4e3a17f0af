---------------------------- MODULE SerialFrames ----------------------------
(***************************************************************************)
(* Frames and the byte-level helpers of src/util.cpp that the processor    *)
(* parses and assembles messages with.                                     *)
(*                                                                         *)
(* A SerialFrame is the sequence of the fields its bytes belong to, one    *)
(* entry per byte, so a field that occupies several bytes occurs several   *)
(* times.  A C buffer is a function from 0-based addresses to bytes, and   *)
(* an index into a frame is 0-based where the code uses one.               *)
(***************************************************************************)
EXTENDS Integers, Sequences, FiniteSets

FIELD_SYNC     == 255
FIELD_FRAME    == FIELD_SYNC - 1
FIELD_CHECKSUM == FIELD_FRAME - 1

CHECKSUM_BYTES == 2   \* sizeof(Checksum)

(* The places (1-based) at which a frame holds a field. *)
Positions(frame, field) == {i \in 1..Len(frame) : frame[i] = field}

FieldsOf(frame) == {frame[i] : i \in 1..Len(frame)}

(* std::find: the first index of the field, the frame's size if none. *)
findit(frame, field) ==
  LET P == Positions(frame, field)
  IN  IF P = {} THEN Len(frame) ELSE (CHOOSE i \in P : \A j \in P : i <= j) - 1

(* The places of the fields of a set among the first ones of a frame, in   *)
(* order, as a loop over the frame finds them.                             *)
PlacesUpTo(frame, fields) ==
  LET places[n \in 0..Len(frame)] ==
        IF n = 0 THEN <<>>
        ELSE IF frame[n] \in fields THEN Append(places[n - 1], n)
        ELSE places[n - 1]
  IN  places

PlacesOf(frame, fields) == PlacesUpTo(frame, fields)[Len(frame)]

(***************************************************************************)
(* The first address below numHaystack at which the needle occurs whole;   *)
(* NotFound stands for the null pointer.                                   *)
(***************************************************************************)
NotFound == -1

MatchesAt(haystack, needle, i) ==
  \A k \in 1..Len(needle) : haystack[i + k - 1] = needle[k]

memstr(haystack, numHaystack, needle) ==
  LET hits == {i \in 0..(numHaystack - Len(needle)) : MatchesAt(haystack, needle, i)}
  IN  IF hits = {} THEN NotFound ELSE CHOOSE i \in hits : \A j \in hits : i <= j

(***************************************************************************)
(* The bytes of a field, in the order of its places in the frame and no    *)
(* more of them than dstLen.  A place at or past srcLen is counted but not *)
(* copied, and leaves what dst held.                                       *)
(***************************************************************************)
extractFieldFromBuffer(src, srcLen, frame, field, dst, dstLen) ==
  LET places == PlacesOf(frame, {field})
      n      == IF Len(places) < dstLen THEN Len(places) ELSE dstLen
  IN  [k \in 1..n |-> IF places[k] - 1 < srcLen THEN src[places[k] - 1] ELSE dst[k]]

(* The bytes of src go to the places of the field, in order, until either  *)
(* runs out.  What lies at the places that are left stays.                 *)
insertFieldToBuffer(dst, frame, field, src) ==
  LET places == PlacesOf(frame, {field})
  IN  [i \in DOMAIN dst |->
         IF \E k \in 1..Len(places) : k <= Len(src) /\ places[k] = i + 1
         THEN src[CHOOSE k \in 1..Len(places) : places[k] = i + 1]
         ELSE dst[i]]

(* The bytes of a message that are left once a field is deleted from it. *)
deleteFieldAndShiftBuffer(buf, frame, field) ==
  LET kept == PlacesOf(frame, FieldsOf(frame) \ {field})
  IN  [k \in 1..Len(kept) |-> buf[kept[k] - 1]]

deleteChecksumFromBuffer(buf, frame) ==
  deleteFieldAndShiftBuffer(buf, frame, FIELD_CHECKSUM)

(***************************************************************************)
(* The checks of SerialProcessor::ctorFunc: what a constructed processor   *)
(* knows of its frames.  The constructor throws when one of them fails.    *)
(***************************************************************************)
SyncIsContinuous(frame) ==
  \A i, j \in Positions(frame, FIELD_SYNC) :
    \A k \in i..j : k \in Positions(frame, FIELD_SYNC)

FrameAccepted(frame, defaultFrame, syncLen) ==
  /\ Positions(frame, FIELD_SYNC) # {}
  /\ Cardinality(Positions(frame, FIELD_CHECKSUM)) \in {0, CHECKSUM_BYTES}
  /\ findit(frame, FIELD_FRAME) = findit(defaultFrame, FIELD_FRAME)
  /\ Cardinality(Positions(frame, FIELD_FRAME)) <= 1
  /\ SyncIsContinuous(frame)
  /\ Cardinality(Positions(frame, FIELD_SYNC)) = syncLen

CtorAccepts(frames, default, syncLen) ==
  /\ DOMAIN frames # {}
  /\ default \in DOMAIN frames
  /\ \A id \in DOMAIN frames : FrameAccepted(frames[id], frames[default], syncLen)
=============================================================================
