-------------------------- MODULE BridgeProperties --------------------------
(***************************************************************************)
(* The correctness properties of TransceiverBridge.                        *)
(***************************************************************************)
EXTENDS TransceiverBridge

LOCAL INSTANCE SequencesExt

MainLabels ==
  {"args", "init 1", "init 2", "signal", "start", "join", "deinit 1", "deinit 2", "done", "failed"}

Bytes == Seq(1..MaxBytes)

(* The type invariant; what recv() returns fits the buffer of spin().      *)
TypeOK ==
  /\ kind \in [Ends -> Kinds]
  /\ status \in [Ends -> {"new", "open", "closed"}]
  /\ main \in MainLabels
  /\ isRunning \in BOOLEAN
  /\ pump \in [Ends -> {"new", "check", "recv", "send", "ended"}]
  /\ \A e \in Ends :
       /\ buf[e] \in Bytes /\ Len(buf[e]) <= BufSize
       /\ produced[e] \in 0..MaxBytes
       /\ FlattenSeq(incoming[e]) \in Bytes
       /\ outgoing[e] \in Bytes
       /\ unsent[e] \subseteq 1..MaxBytes

(* What a device gets is what the other device sent, in that order and no  *)
(* byte twice, whatever is lost on the way and however it was cut up.      *)
ForwardedInOrder ==
  \A e \in Ends :
    LET bytes == outgoing[Other(e)] \o buf[e] \o FlattenSeq(incoming[e])
    IN  \A i \in 1..(Len(bytes) - 1) : bytes[i] < bytes[i + 1]

(* A bridge that receives from a stream loses nothing but what a send()    *)
(* was given and did not send, by a short or failed write() or a refused   *)
(* datagram: every other byte was forwarded, is about to be, or still      *)
(* waits, whatever is at the other end, however the reads cut the bytes or *)
(* fail, and whenever the bridge is interrupted.  And what was not sent is *)
(* not sent later.                                                         *)
LostOnlyUnsent ==
  \A e \in Ends :
    kind[e] \in Streams =>
      ToSet(outgoing[Other(e)] \o buf[e] \o FlattenSeq(incoming[e]))
        = (1..produced[e]) \ unsent[Other(e)]

(* A thread uses its two transceivers only between their init() and their  *)
(* deinit().                                                               *)
UsedWhileOpen ==
  \A e \in Ends : pump[e] \in {"recv", "send"} => \A f \in Ends : status[f] = "open"

(* Interrupted while its threads run, the bridge deinits its transceivers  *)
(* and ends, unless one of them is a serial port, whose recv() waits for   *)
(* the device ("unless" for as long as the device is silent).              *)
StopsAfterInterrupt ==
  (main = "join" /\ ~isRunning /\ \A e \in Ends : kind[e] # "serial") ~> main = "done"
=============================================================================
