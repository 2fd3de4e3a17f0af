---------------------------- MODULE MCParserAny ----------------------------
(***************************************************************************)
(* Any bytes whatever, in any chunks, for a buffer they overflow and that  *)
(* held anything before: the sync value occurs anywhere, frame ids may be  *)
(* unknown, and messages may start before the buffer does, or end behind   *)
(* what was received or behind the buffer.                                 *)
(***************************************************************************)
EXTENDS MessageProperties

CONSTANTS
  AnyLength,    \* the length of the streams that may hold any byte at any place
  LongLength    \* the length of the streams that repeat a byte or two

MCValues == {0, 1, 2}

MCFrames == [id \in {0, 1} |-> IF id = 0 THEN <<FIELD_FRAME, FIELD_SYNC, 5>>
                                         ELSE <<FIELD_FRAME, FIELD_SYNC, 6, 5>>]

MCSyncValue == <<1>>

MCChecksum(message, checksum) == FALSE   \* no frame has a checksum

Repeat(u, w, n) == [i \in 1..n |-> IF i % 2 = 1 THEN u ELSE w]

MCSources ==
  {[bytes |-> b, cuts |-> 1..Len(b), messages |-> {}, noise |-> TRUE] :
     b \in [1..AnyLength -> MCValues]
             \cup {Repeat(u, w, LongLength) : u, w \in MCValues}}
=============================================================================
