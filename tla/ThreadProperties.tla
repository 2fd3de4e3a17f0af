-------------------------- MODULE ThreadProperties --------------------------
(***************************************************************************)
(* The correctness properties of ProcessorThreads.                         *)
(***************************************************************************)
EXTENDS ProcessorThreads

(* The places at which a thread is inside a critical section of a mutex. *)
Section(l) ==
  IF l = "values" THEN {"declaring", "storing", "gathering", "set", "read"}
                  ELSE {"recv", "transmit", "swap", "reset", "has"}

Labels == {"idle", "parse", "declare", "callback", "gather"}
            \cup Section("values") \cup Section("transceiver")

FieldsOfFrame(id) == {Frames[id][i] : i \in 1..Len(Frames[id])}

(* The type invariant of the processor's shared state. *)
TypeOK ==
  /\ pc \in [Threads -> Labels]
  /\ after \in [Threads -> {"idle", "callback"}]
  /\ holder \in [Locks -> Threads \cup {NoThread}]
  /\ DOMAIN values \subseteq Fields
  /\ \A f \in DOMAIN values : values[f] \in Data \cup {Empty}
  /\ installed \in Transceivers \cup {NoTransceiver}
  /\ status \in [Transceivers -> {"new", "open", "closed", "failed"}]
  /\ sendBuffer \in [Fields -> Data \cup {Empty, Zero}]
  /\ answers \in Nat
  /\ calls \in 0..MaxCalls
  /\ fatal \subseteq Threads
  /\ alone \subseteq Threads

(* A mutex is held by the one thread in a critical section of it and by    *)
(* nobody else: whatever call fails or throws, outside of its critical     *)
(* sections, and in newMessageCallback above all, a thread holds none.     *)
(* Fatal errors are the exception, see finding_fatal_init.                 *)
LocksMatchSections ==
  \A l \in Locks, t \in Threads :
    /\ pc[t] \in Section(l) => holder[l] = t
    /\ holder[l] = t => pc[t] \in Section(l) \/ t \in fatal

(* Every transceiver recv() and send() are called of has been inited and   *)
(* not deinited since, although other threads replace it; every open one   *)
(* is the installed one or in the hands of the thread that took it, so     *)
(* none is dropped without deinit().                                       *)
TransceiverUsedWhileOpen ==
  /\ \A t \in Threads :
       pc[t] \in {"recv", "transmit"} /\ Taken(t) # NoTransceiver
         => status[Taken(t)] = "open"
  /\ \A x \in Transceivers : status[x] = "open" <=> installed = x

(* A field is in the map without data only while update() is between       *)
(* inserting it and storing the message it belongs to, so hasDataForField  *)
(* is never wrong for longer.  A fatal error while storing ends the map.   *)
EmptyOnlyWhileStoring ==
  \A f \in DOMAIN values :
    values[f] = Empty =>
      \E t \in Updaters :
        /\ pc[t] \in {"declare", "declaring", "storing"}
        /\ f \in FieldsOfFrame(job[t].frame)

(* What a message is sent with: for every field of its frame, something    *)
(* the map held for it while send() ran, whatever other threads set and    *)
(* receive meanwhile.  Of sends that overlap nothing is known, for they    *)
(* share the one sendTransmissionBuffer (serial_library.hpp:475); but a    *)
(* send that overlaps no other is not affected by those that did before,   *)
(* or by one that threw.                                                   *)
SentFieldsWereHeld ==
  \A t \in alone : pc[t] = "transmit" =>
    \A f \in FieldsOfFrame(job[t].frame) : sendBuffer[f] \in recent[f]

(* Every call comes to its end: no operation waits for ever for a mutex,   *)
(* or for itself when it is called from newMessageCallback.  Only a fatal  *)
(* error, which leaves a mutex locked, may make others wait.               *)
EveryCallEnds == <>[](fatal # {} \/ \A t \in Threads : pc[t] = "idle")

(* send() returns, although update() may be in recv(): "This function can  *)
(* block or return immediately, whatever suits the user's application      *)
(* best" (README.md:258).                                                  *)
SendReturns == \A t \in Senders : pc[t] = "gather" ~> pc[t] = "idle"

(* A failed setTransceiver() leaves the processor usable: "On failure,     *)
(* either throw a NonFatalSerialLibraryException or return false"          *)
(* (README.md:256), and no mutex stays locked.                             *)
NoLockLeftBehind ==
  \A l \in Locks : holder[l] = NoThread \/ pc[holder[l]] # "idle"
=============================================================================
