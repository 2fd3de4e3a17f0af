---------------------------- MODULE MessageQueue ----------------------------
(***************************************************************************)
(* What two processors that are linked promise: a message that one sends   *)
(* is handled by the other, once, after those sent before it, and with the *)
(* data it was sent with.                                                  *)
(***************************************************************************)
EXTENDS Naturals, Sequences

CONSTANT Messages(_)   \* is this a message?

VARIABLES sent, handled

Init == sent = <<>> /\ handled = <<>>

Send ==
  /\ Len(sent') = Len(sent) + 1
  /\ SubSeq(sent', 1, Len(sent)) = sent
  /\ Messages(sent'[Len(sent')])
  /\ UNCHANGED handled

Handle ==
  /\ Len(handled) < Len(sent)
  /\ handled' = Append(handled, sent[Len(handled) + 1])
  /\ UNCHANGED sent

Spec == Init /\ [][Send \/ Handle]_<<sent, handled>>
=============================================================================
