-------------------------- MODULE MCParserFindings --------------------------
(***************************************************************************)
(* The situations in which update() does not do what the documentation,    *)
(* a comment or a test says of it.  Each finding_*.cfg picks the frames    *)
(* and the sources of one.  The sync value is the byte 1.                  *)
(***************************************************************************)
EXTENDS MessageProperties

MCValues == 0..2

MCSyncValue == <<1>>

MCChecksum(message, checksum) == FALSE   \* no frame has a checksum

ByteStream(bytes, messages) ==
  [bytes |-> bytes, cuts |-> 1..Len(bytes), messages |-> messages, noise |-> TRUE]

(* One frame, and a message that comes behind the end of an earlier one. *)
OneFrame == [id \in {0} |-> <<FIELD_SYNC, 5, 6>>]

MidStreamSources == {ByteStream(<<0>> \o <<1, 2, 2>>, {2})}

(* Two messages that fill the buffer. *)
TwoMessageSources == {ByteStream(<<1, 0, 0, 1, 2, 2>>, {1, 4})}

(* A buffer full of noise before a message. *)
NoiseSources == {ByteStream(<<0, 0, 2, 0, 0, 0>> \o <<1, 2, 2>>, {7})}
=============================================================================
