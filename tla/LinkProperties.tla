--------------------------- MODULE LinkProperties ---------------------------
(***************************************************************************)
(* The correctness properties of SerialLink.                               *)
(***************************************************************************)
EXTENDS SerialLink

(* What the receiver's callback was called with, without checksums. *)
HandledFields ==
  [k \in 1..Len(delivered) |->
     [frame  |-> delivered[k].frame,
      fields |-> [f \in DOMAIN delivered[k].fields \ {FIELD_CHECKSUM} |->
                    delivered[k].fields[f]]]]

(* A processor's messages reach the other as they were sent: send() and    *)
(* update() agree on every byte of a message, its checksum included, and   *)
(* nothing an earlier message left in a buffer gets into a later one.      *)
Queue == INSTANCE MessageQueue
  WITH sent <- sent, handled <- HandledFields,
       Messages <- LAMBDA m : m.frame \in DOMAIN Frames

LinkImplementsQueue == Queue!Spec

(* Every message that is sent is handled by the other processor, without   *)
(* the sender having to send more.                                         *)
SentAreHandled ==
  \A n \in 1..MaxSends : Len(sent) >= n ~> Len(delivered) >= n
=============================================================================
