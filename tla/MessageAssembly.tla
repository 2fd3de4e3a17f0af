-------------------------- MODULE MessageAssembly --------------------------
(***************************************************************************)
(* How SerialProcessor::send() puts a message together in                  *)
(* sendTransmissionBuffer, a function from 0-based addresses to bytes.     *)
(*                                                                         *)
(* A definition named ..._Mutant is a plausible mistake in the one after   *)
(* it, to check the properties with; no specification uses it.             *)
(***************************************************************************)
EXTENDS SerialFrames

LOCAL INSTANCE FiniteSetsExt

CONSTANT ChecksumGenerator(_)   \* callbacks.checksumGenerationFunc, as two bytes

(* memset(sendTransmissionBuffer, 0, sizeof(sendTransmissionBuffer)) *)
Cleared_Mutant(buffer) == buffer   \* forgotten

Cleared(buffer) == [i \in DOMAIN buffer |-> 0]

(* The fields that have data, inserted one after the other. *)
Pack(buffer, frame, data) ==
  FoldSet(LAMBDA f, packed : insertFieldToBuffer(packed, frame, f, data[f]),
          buffer, DOMAIN data)

AddChecksum_Mutant(buffer, frame) ==   \* the room of the checksum is summed, too
  IF FIELD_CHECKSUM \notin FieldsOf(frame) THEN buffer
  ELSE insertFieldToBuffer(buffer, frame, FIELD_CHECKSUM,
         ChecksumGenerator([i \in 1..Len(frame) |-> buffer[i - 1]]))

(* The checksum is generated from the message without the checksum bytes. *)
AddChecksum(buffer, frame) ==
  IF FIELD_CHECKSUM \notin FieldsOf(frame) THEN buffer
  ELSE insertFieldToBuffer(buffer, frame, FIELD_CHECKSUM,
         ChecksumGenerator(deleteChecksumFromBuffer(buffer, frame)))
=============================================================================
