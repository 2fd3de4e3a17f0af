------------------------- MODULE TransceiverBridge -------------------------
(***************************************************************************)
(* The tool transceiver_bridge: two transceivers and two threads, each of  *)
(* which sends to one what it receives from the other, until SIGINT.       *)
(*                                                                         *)
(* Bytes are numbered by the device that sends them, from 1 on.            *)
(*                                                                         *)
(* A definition named ..._Mutant is a plausible mistake in the one after   *)
(* it, to check the properties with; no specification uses it.             *)
(***************************************************************************)
EXTENDS Transceivers

LOCAL INSTANCE SequencesExt   \* ToSet

CONSTANTS
  BufSize,     \* sizeof(buf) in spin()
  MaxBytes,    \* bound of the bytes a device sends
  MaxPacket    \* the most bytes it sends at a time

ASSUME BridgeAssumption ==
  /\ {BufSize, MaxPacket} \subseteq Nat \ {0}
  /\ {MaxBytes, maxQueueSize} \subseteq Nat

Ends == {1, 2}
Other(e) == 3 - e

VARIABLES
  kind,        \* the transceivers the arguments name
  status,      \* "new", "open" or "closed"
  main,        \* where main() is
  isRunning,
  pump,        \* where the thread is that receives from an end
  buf,         \* what it received, and has not sent yet
  produced,    \* how many bytes the device at an end has sent
  incoming,    \* the packets that wait at an end
  outgoing,    \* the bytes that were sent to an end's device
  unsent       \* those that a send() was given and did not send (history)

devices == <<produced, incoming, outgoing, unsent>>
vars == <<kind, status, main, isRunning, pump, buf, devices>>

Init ==
  /\ kind \in [Ends -> Kinds]
  /\ status = [e \in Ends |-> "new"]
  /\ main = "args"
  /\ isRunning = TRUE
  /\ pump = [e \in Ends |-> "new"]
  /\ buf = [e \in Ends |-> <<>>]
  /\ produced = [e \in Ends |-> 0]
  /\ incoming = [e \in Ends |-> <<>>]
  /\ outgoing = [e \in Ends |-> <<>>]
  /\ unsent = [e \in Ends |-> {}]

-----------------------------------------------------------------------------
(* main() *)

MainGoes(from, to) == main = from /\ main' = to

(* Arguments that name no transceiver: main() returns 1. *)
BadArguments ==
  /\ MainGoes("args", "failed")
  /\ UNCHANGED <<kind, status, isRunning, pump, buf, devices>>

GoodArguments ==
  /\ MainGoes("args", "init 1")
  /\ UNCHANGED <<kind, status, isRunning, pump, buf, devices>>

InitEnd(e) ==
  /\ IF e = 1 THEN MainGoes("init 1", "init 2") ELSE MainGoes("init 2", "signal")
  /\ status' = [status EXCEPT ![e] = "open"]
  /\ UNCHANGED <<kind, isRunning, pump, buf, devices>>

(* init() returns false, or throws: the program ends. *)
InitFails ==
  /\ main \in {"init 1", "init 2"}
  /\ main' = "failed"
  /\ UNCHANGED <<kind, status, isRunning, pump, buf, devices>>

(* The handler of SIGINT is set. *)
SetHandler ==
  /\ MainGoes("signal", "start")
  /\ UNCHANGED <<kind, status, isRunning, pump, buf, devices>>

StartThreads ==
  /\ MainGoes("start", "join")
  /\ isRunning' = TRUE
  /\ pump' = [e \in Ends |-> "check"]
  /\ UNCHANGED <<kind, status, buf, devices>>

Joined_Mutant == pump[2] = "ended"   \* t2 is not joined

Joined == \A e \in Ends : pump[e] = "ended"

JoinThreads ==
  /\ Joined
  /\ MainGoes("join", "deinit 1")
  /\ UNCHANGED <<kind, status, isRunning, pump, buf, devices>>

DeinitEnd(e) ==
  /\ IF e = 1 THEN MainGoes("deinit 1", "deinit 2") ELSE MainGoes("deinit 2", "done")
  /\ status' = [status EXCEPT ![e] = "closed"]
  /\ UNCHANGED <<kind, isRunning, pump, buf, devices>>

Main ==
  \/ BadArguments \/ GoodArguments \/ InitFails \/ SetHandler \/ StartThreads \/ JoinThreads
  \/ \E e \in Ends : InitEnd(e) \/ DeinitEnd(e)

(* handleSignal().  It may run before main() sets isRunning. *)
HandleSignal ==
  /\ main \in {"start", "join"}
  /\ isRunning
  /\ isRunning' = FALSE
  /\ UNCHANGED <<kind, status, main, pump, buf, devices>>

-----------------------------------------------------------------------------
(* spin() *)

Check(e) ==
  /\ pump[e] = "check"
  /\ pump' = [pump EXCEPT ![e] = IF isRunning THEN "recv" ELSE "ended"]
  /\ UNCHANGED <<kind, status, main, isRunning, buf, devices>>

Receive(e) ==
  /\ pump[e] = "recv"
  /\ \E outcome \in Recv(kind[e], incoming[e], BufSize) :
       /\ incoming' = [incoming EXCEPT ![e] = outcome.rest]
       /\ buf' = [buf EXCEPT ![e] = outcome.data]
       /\ pump' = [pump EXCEPT ![e] = IF outcome.data = <<>> THEN "check" ELSE "send"]
  /\ UNCHANGED <<kind, status, main, isRunning, produced, outgoing, unsent>>

(* A read() of a stream fails: recv() returns 0, and what waits stays. *)
ReceiveFails(e) ==
  /\ pump[e] = "recv"
  /\ kind[e] \in Streams
  /\ pump' = [pump EXCEPT ![e] = "check"]
  /\ UNCHANGED <<kind, status, main, isRunning, buf, devices>>

ToSend_Mutant(e) == IF isRunning THEN buf[e] ELSE <<>>   \* while(isRunning) twice

ToSend(e) == buf[e]

(* What send() does not get to the other side is not sent again. *)
Forward(e) ==
  /\ pump[e] = "send"
  /\ \E bytes \in Send(kind[Other(e)], ToSend(e)) :
       /\ outgoing' = [outgoing EXCEPT ![Other(e)] = @ \o bytes]
       /\ unsent' = [unsent EXCEPT ![Other(e)] = @ \cup (ToSet(ToSend(e)) \ ToSet(bytes))]
  /\ buf' = [buf EXCEPT ![e] = <<>>]
  /\ pump' = [pump EXCEPT ![e] = "check"]
  /\ UNCHANGED <<kind, status, main, isRunning, produced, incoming>>

Pump(e) == Check(e) \/ Receive(e) \/ Forward(e)

-----------------------------------------------------------------------------
(* A device sends a packet. *)
Device(e) ==
  /\ status[e] = "open"
  /\ \E n \in 1..MaxPacket :
       /\ produced[e] + n <= MaxBytes
       /\ produced' = [produced EXCEPT ![e] = @ + n]
       /\ incoming' = [incoming EXCEPT ![e] = Append(@, [k \in 1..n |-> produced[e] + k])]
  /\ UNCHANGED <<kind, status, main, isRunning, pump, buf, outgoing, unsent>>

Next == Main \/ HandleSignal \/ (\E e \in Ends : Pump(e) \/ ReceiveFails(e) \/ Device(e))

Spec == Init /\ [][Next]_vars

(* The threads run.  Nobody has to interrupt them, no device to send, and  *)
(* no read() to fail.                                                      *)
FairSpec == Spec /\ WF_vars(Main) /\ \A e \in Ends : WF_vars(Pump(e))
=============================================================================
