---------------------------- MODULE Transceivers ----------------------------
(***************************************************************************)
(* What recv() and send() of the transceivers do with the bytes that wait  *)
(* for them and with the bytes they are given.                             *)
(*                                                                         *)
(* What waits at a transceiver is a sequence of packets, each a sequence   *)
(* of bytes.  A serial port and a socket pair are streams, and do not care *)
(* for the packets' limits.  An outcome of recv() is the data it returns   *)
(* and the packets it leaves.                                              *)
(*                                                                         *)
(* A definition named ..._Mutant is a plausible mistake in the one after   *)
(* it, to check the properties with; no specification uses it.             *)
(***************************************************************************)
EXTENDS Naturals, Sequences

CONSTANT maxQueueSize   \* of a RosTransceiver

Kinds == {"serial", "udp", "socketpair", "ros"}

Streams == {"serial", "socketpair"}

LOCAL INSTANCE SequencesExt   \* FlattenSeq

Upto(n, bound) == IF n < bound THEN n ELSE bound

Taking(bytes, k) ==
  [data |-> SubSeq(bytes, 1, k),
   rest |-> IF k = Len(bytes) THEN <<>> ELSE <<SubSeq(bytes, k + 1, Len(bytes))>>]

Nothing(packets) == [data |-> <<>>, rest |-> packets]

(* read() of a stream returns what there is, or a part of it. *)
ReadStream(packets, numData) ==
  LET bytes == FlattenSeq(packets)
  IN  {Taking(bytes, k) : k \in 1..Upto(Len(bytes), numData)}

(* A serial port is opened with VMIN = 1: read() waits for a byte. *)
ReadSerial(packets, numData) == ReadStream(packets, numData)

(* A socket pair is not blocking unless it is told to. *)
ReadSocketpair(packets, numData) ==
  IF packets = <<>> THEN {Nothing(packets)} ELSE ReadStream(packets, numData)

Datagram(packets, numData) ==
  IF packets = <<>> THEN {}
  ELSE {[data |-> SubSeq(Head(packets), 1, Upto(Len(Head(packets)), numData)),
         rest |-> Tail(packets)]}

ReadUDP_Mutant(packets, numData) == Datagram(packets, numData)   \* no SO_RCVTIMEO

(* A datagram that is longer than the buffer loses its end.  recv()        *)
(* returns nothing after recvTimeoutSeconds without a datagram, and after  *)
(* an error, such as that of a datagram that was refused.                  *)
ReadUDP(packets, numData) == {Nothing(packets)} \cup Datagram(packets, numData)

(* rxCb() makes room for a message once there are more than maxQueueSize.  *)
Queued(messages) ==
  SubSeq(messages, (IF Len(messages) > maxQueueSize + 1 THEN Len(messages) - maxQueueSize ELSE 1),
         Len(messages))

Concatenated_Mutant(messages) == FlattenSeq(Reverse(messages))   \* latestMsg.begin()

Concatenated(messages) == FlattenSeq(messages)

Truncated_Mutant(bytes, numData) == bytes

Truncated(bytes, numData) == SubSeq(bytes, 1, Upto(Len(bytes), numData))

(* spin_some() calls rxCb() for messages that came, then recv() takes all  *)
(* of the queue.  What does not fit the buffer is lost.                    *)
ReadRos(packets, numData) ==
  {[data |-> Truncated(Concatenated(Queued(SubSeq(packets, 1, k))), numData),
    rest |-> SubSeq(packets, k + 1, Len(packets))] : k \in 0..Len(packets)}

(* The outcomes of recv(); there is none while it waits.  That a read() of *)
(* a stream fails is an action of its own, ReceiveFails: it may happen,    *)
(* but recv() need not come back for it.                                   *)
Recv(kind, packets, numData) ==
  CASE kind = "serial"     -> ReadSerial(packets, numData)
    [] kind = "udp"        -> ReadUDP(packets, numData)
    [] kind = "socketpair" -> ReadSocketpair(packets, numData)
    [] kind = "ros"        -> ReadRos(packets, numData)

(* write() to a stream may take the first bytes only, or fail.  Nobody     *)
(* looks at how many it took, and a failure is only logged.                *)
WriteStream(data) == {SubSeq(data, 1, k) : k \in 0..Len(data)}

SendSerial(data) == WriteStream(data)

SendSocketpair(data) == WriteStream(data)

(* A datagram goes as a whole, or is refused. *)
SendUDP(data) == {data, <<>>}

SendRos(data) == {data}

(* What send() may get to the other side. *)
Send(kind, data) ==
  CASE kind = "serial"     -> SendSerial(data)
    [] kind = "udp"        -> SendUDP(data)
    [] kind = "socketpair" -> SendSocketpair(data)
    [] kind = "ros"        -> SendRos(data)
=============================================================================
