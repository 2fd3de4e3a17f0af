------------------------------- MODULE MCLink -------------------------------
(***************************************************************************)
(* Two frames of different lengths with a sync value of two bytes at their *)
(* start, a checksum whose bytes lie apart, and a field of one byte in one *)
(* frame that has two bytes, apart from each other, in the other.          *)
(***************************************************************************)
EXTENDS LinkProperties

MCFrames ==
  [id \in {0, 1} |->
     IF id = 0
     THEN <<FIELD_SYNC, FIELD_SYNC, FIELD_FRAME, 5, FIELD_CHECKSUM, FIELD_CHECKSUM>>
     ELSE <<FIELD_SYNC, FIELD_SYNC, FIELD_FRAME, FIELD_CHECKSUM, 5, 6, 5, FIELD_CHECKSUM>>]

MCSyncValue == <<1, 2>>
MCValues    == 0..2
MCFieldData == {<<1>>, <<2, 1>>}

(* A sum that depends on the bytes' places. *)
MCGenerator(message) ==
  LET Odd(b) == Cardinality({i \in DOMAIN message : i % 2 = 1 /\ message[i] = b})
      All(b) == Cardinality({i \in DOMAIN message : message[i] = b})
  IN  <<(Odd(1) + All(2)) % 3, (All(1) + 2 * Odd(2) + Len(message)) % 3>>

MCChecksum(message, checksum) == checksum = MCGenerator(message)

NothingSent == {[bytes |-> <<>>, cuts |-> {}, messages |-> {}, noise |-> FALSE]}
=============================================================================
