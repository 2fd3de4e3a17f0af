----------------------------- MODULE SerialLink -----------------------------
(***************************************************************************)
(* Two processors with the same frames, linked by their transceivers: one  *)
(* sets fields and sends, the other updates.  The receiver is the          *)
(* MessageBuffer this module extends.  Its source is what the sender has   *)
(* sent so far; the bytes of it that were not received are those on the    *)
(* way, _data of an IntraProcessChannel.                                   *)
(*                                                                         *)
(* There is one sending thread, and a call of send() is one step; what     *)
(* several threads may see of each other is the subject of                 *)
(* ProcessorThreads.  The link loses nothing.                              *)
(***************************************************************************)
EXTENDS MessageBuffer, MessageAssembly

CONSTANTS
  FieldData,   \* what setField() is called with: sequences of bytes
  MaxSends     \* bound of the messages sent

VARIABLES
  sendValues,              \* the sender's map: field -> data
  sendTransmissionBuffer,
  sent                     \* history: the messages sent, as records

senderVars == <<sendValues, sendTransmissionBuffer, sent>>
linkVars   == <<vars, senderVars>>

ASSUME SenderAssumption ==
  /\ MaxSends \in Nat
  /\ \A d \in FieldData : Len(d) < MaxDataBytes   \* setField() throws otherwise
  /\ Sources = {[bytes |-> <<>>, cuts |-> {}, messages |-> {}, noise |-> FALSE]}

BuiltIn    == {FIELD_SYNC, FIELD_FRAME, FIELD_CHECKSUM}
UserFields == UNION {FieldsOf(Frames[id]) : id \in DOMAIN Frames} \ BuiltIn

LinkInit ==
  /\ Init
  /\ sendValues = [f \in {FIELD_SYNC} |-> SyncValue]
  /\ sendTransmissionBuffer = [i \in Addresses |-> 0]
  /\ sent = <<>>

-----------------------------------------------------------------------------
(* The sender *)

SetField(f, data) ==
  /\ sendValues' = [g \in DOMAIN sendValues \cup {f} |->
                      IF g = f THEN data ELSE sendValues[g]]
  /\ UNCHANGED <<vars, sendTransmissionBuffer, sent>>

(* What send() packs for a field: dataToInsert. *)
DataFor(id, fields) ==
  [f \in fields |-> CASE f = FIELD_SYNC  -> SyncValue
                      [] f = FIELD_FRAME -> <<id>>
                      [] OTHER           -> sendValues[f]]

Missing(id) == FieldsOf(Frames[id]) \ (BuiltIn \cup DOMAIN sendValues)

(* What a field of n bytes is sent as: zeros follow data that is short,    *)
(* and the end of data that is long is cut off.                            *)
Fitted(data, n) == [k \in 1..n |-> IF k <= Len(data) THEN data[k] ELSE 0]

(* The message in the sender's words, without its checksum. *)
MessageToSend(id) ==
  LET fields == FieldsOf(Frames[id]) \ {FIELD_CHECKSUM}
  IN  [frame  |-> id,
       fields |-> [f \in fields |->
                     Fitted(DataFor(id, fields)[f], Cardinality(Positions(Frames[id], f)))]]

(* The bytes that transceiver->send() appends to the link. *)
Transmitted(buffer, frame) == [i \in 1..Len(frame) |-> buffer[i - 1]]

Send(id) ==
  /\ Len(sent) < MaxSends
  /\ Missing(id) = {}
  /\ LET frame  == Frames[id]
         fields == FieldsOf(frame) \ {FIELD_CHECKSUM}
     IN  sendTransmissionBuffer' =
           AddChecksum(Pack(Cleared(sendTransmissionBuffer), frame, DataFor(id, fields)), frame)
  /\ LET bytes == source.bytes \o Transmitted(sendTransmissionBuffer', Frames[id])
     IN  source' = [bytes    |-> bytes,
                    cuts     |-> 1..Len(bytes),
                    messages |-> source.messages \cup {Len(source.bytes) + 1},
                    noise    |-> FALSE]
  /\ sent' = Append(sent, MessageToSend(id))
  /\ UNCHANGED <<sendValues, received, pc, msgBuffer, msgBufferCursorPos, counters, outputs>>

(* A field has no data: send() throws once it comes to it, after it packed *)
(* the fields before it.  Fields are packed in ascending order.            *)
SendThrows(id) ==
  /\ Missing(id) # {}
  /\ sendTransmissionBuffer' =
       Pack(Cleared(sendTransmissionBuffer), Frames[id],
            DataFor(id, {f \in FieldsOf(Frames[id]) \ {FIELD_CHECKSUM} :
                           \A g \in Missing(id) : f < g}))
  /\ UNCHANGED <<vars, sendValues, sent>>

Sender ==
  \/ \E f \in UserFields, data \in FieldData : SetField(f, data)
  \/ \E id \in DOMAIN Frames : Send(id) \/ SendThrows(id)

-----------------------------------------------------------------------------
(* The receiver.  A recv() returns all that is on the way, if it is an     *)
(* IntraProcessChannel's, or a part of it, if it is a serial port's.       *)

Receiver == (Receive \/ Iterate) /\ UNCHANGED senderVars

LinkNext == Sender \/ Receiver

LinkSpec == LinkInit /\ [][LinkNext]_linkVars

(* The receiver is spun; nobody has to send. *)
FairLinkSpec == LinkSpec /\ WF_linkVars(Receive /\ UNCHANGED senderVars) /\ LoopRuns
=============================================================================
