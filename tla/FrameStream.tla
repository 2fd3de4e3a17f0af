---------------------------- MODULE FrameStream ----------------------------
(***************************************************************************)
(* What a processor promises of the bytes it is given: it takes them from  *)
(* the source in order, and what it hands to newMessageCallback are        *)
(* messages that stand whole in the source, each once.  There is no        *)
(* buffer here, no chunk, no cursor: only the place reached in the source. *)
(*                                                                         *)
(* In a source without noise every byte must belong to a delivered         *)
(* message.                                                                *)
(***************************************************************************)
EXTENDS Integers, Sequences, FiniteSets

CONSTANTS Frames, SyncValue, ChecksumEvaluator(_, _), FieldSync, FieldFrame,
          FieldChecksum, Sources

VARIABLES source, taken, delivered

vars == <<source, taken, delivered>>

(* The bytes of a message at the places of the frame with one of the       *)
(* fields: the k-th is the byte that k - 1 of them precede.                *)
BytesAt(bytes, frame, fields) ==
  LET places == {i \in 1..Len(frame) : frame[i] \in fields}
      Rank(i) == Cardinality({j \in places : j <= i})
  IN  [k \in 1..Cardinality(places) |-> bytes[CHOOSE i \in places : Rank(i) = k]]

FieldBytes(bytes, frame, field) == BytesAt(bytes, frame, {field})

Fields(frame) == {frame[i] : i \in 1..Len(frame)}

(* The bytes are a message of the frame with this id. *)
IsMessage(bytes, id) ==
  LET frame == Frames[id]
  IN  /\ Len(bytes) = Len(frame)
      /\ FieldBytes(bytes, frame, FieldSync) = SyncValue
      /\ FieldFrame \in Fields(frame) => FieldBytes(bytes, frame, FieldFrame) = <<id>>
      /\ FieldChecksum \in Fields(frame) =>
           ChecksumEvaluator(BytesAt(bytes, frame, Fields(frame) \ {FieldChecksum}),
                             FieldBytes(bytes, frame, FieldChecksum))

MessageOf(bytes, id) ==
  LET frame == Frames[id]
  IN  [frame  |-> id,
       fields |-> [f \in Fields(frame) |-> FieldBytes(bytes, frame, f)]]

Init ==
  /\ source \in Sources
  /\ taken = 0
  /\ delivered = <<>>

Deliver(id, start) ==
  LET end   == start + Len(Frames[id])
      bytes == SubSeq(source.bytes, start + 1, end)
  IN  /\ end <= Len(source.bytes)
      /\ IsMessage(bytes, id)
      /\ delivered' = Append(delivered, MessageOf(bytes, id))
      /\ taken' = end
      /\ UNCHANGED source

Skip ==
  /\ source.noise
  /\ taken' \in (taken + 1)..Len(source.bytes)
  /\ UNCHANGED <<source, delivered>>

Starts == IF source.noise THEN taken..Len(source.bytes) ELSE {taken}

Next ==
  \/ \E id \in DOMAIN Frames, start \in Starts : Deliver(id, start)
  \/ Skip

Spec == Init /\ [][Next]_vars
=============================================================================
