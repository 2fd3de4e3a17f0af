-------------------------- MODULE MCParserMessages --------------------------
(***************************************************************************)
(* Messages of two frames of different lengths, with a sync value of two   *)
(* bytes that is not at their start, a checksum, and, in the longer one, a *)
(* field whose bytes lie apart.  The id of the longer frame is the first   *)
(* byte of the sync value, and its field may hold the whole sync value.    *)
(*                                                                         *)
(* They come as a byte stream cut anywhere, or as datagrams: every recv()  *)
(* returns one then, and among whole messages come messages corrupted on   *)
(* the way, messages of an unknown frame, and noise that does not hold the *)
(* sync value but may hold a part of it.                                   *)
(***************************************************************************)
EXTENDS MessageProperties

CONSTANTS
  MaxDatagrams,   \* how many datagrams a source holds
  MaxMessages     \* how many messages a byte stream holds

MCValues == 0..4

MCFrames ==
  [id \in {0, 2} |->
     IF id = 0
     THEN <<FIELD_FRAME, FIELD_SYNC, FIELD_SYNC, 5, FIELD_CHECKSUM, FIELD_CHECKSUM>>
     ELSE <<FIELD_FRAME, FIELD_SYNC, FIELD_SYNC, 6, FIELD_CHECKSUM, 6, 6, FIELD_CHECKSUM>>]

MCSyncValue == <<2, 3>>

(* How many ones the message has, then a constant. *)
MCChecksum(message, checksum) ==
  checksum = <<Cardinality({i \in DOMAIN message : message[i] = 1}), 0>>

Good ==
  {<<0, 2, 3, 1, 1, 0>>, <<2, 2, 3, 0, 2, 1, 1, 0>>, <<2, 2, 3, 0, 0, 2, 3, 0>>}

Corrupted == {<<0, 2, 3, 1, 0, 0>>, <<2, 2, 3, 0, 1, 2, 3, 0>>}
Unknown   == {<<4, 2, 3, 0, 0, 0>>}
Noise     == {<<2>>, <<3, 0>>}

(* The concatenations of up to n datagrams of a set. *)
Streams(datagrams, max) ==
  LET Of[n \in 0..max] ==
        IF n = 0 THEN {[bytes |-> <<>>, cuts |-> {}, messages |-> {}]}
        ELSE LET shorter == Of[n - 1]
             IN  shorter \cup
                   {[bytes    |-> s.bytes \o d,
                     cuts     |-> s.cuts \cup {Len(s.bytes) + Len(d)},
                     messages |-> s.messages \cup
                                    (IF d \in Good THEN {Len(s.bytes) + 1} ELSE {})] :
                      s \in shorter, d \in datagrams}
  IN  Of[max]

Source(stream, cuts, noise) ==
  [bytes |-> stream.bytes, messages |-> stream.messages, cuts |-> cuts, noise |-> noise]

MCSources ==
  {Source(s, s.cuts, TRUE) :
     s \in Streams(Good \cup Corrupted \cup Unknown \cup Noise, MaxDatagrams)}
  \cup {Source(s, 1..Len(s.bytes), FALSE) : s \in Streams(Good, MaxMessages)}

(* The theorems of ContentProofs apply: what they suppose of the frames    *)
(* and the sources is so here, and the buffer holds any source twice.      *)
ASSUME TheoremsApply ==
  /\ UniformFrames
  /\ CleanSources
  /\ \A s \in MCSources : 2 * Len(s.bytes) <= BufferSize
=============================================================================
