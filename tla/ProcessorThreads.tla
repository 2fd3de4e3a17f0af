-------------------------- MODULE ProcessorThreads --------------------------
(***************************************************************************)
(* The threads that share one SerialProcessor: one that spins update(),    *)
(* those that send(), those that set and get fields, and those that set    *)
(* and reset the transceiver.  They share valueMapResource and             *)
(* transceiverResource, two ProtectedResources, each behind a mutex.       *)
(*                                                                         *)
(* A step is what a thread does between two operations on a mutex.  What   *)
(* update() parses is the subject of MessageBuffer: here a message is a    *)
(* frame with some data for its fields, and a frame is the sequence of its *)
(* fields in ascending order, without the built-in ones, which send()      *)
(* fills without the map.  An exception leaves a call where the code       *)
(* throws it; a mutex that is held there stays locked.                     *)
(*                                                                         *)
(* A definition named ..._Mutant is a plausible mistake in the one after   *)
(* it, to check the properties with; no specification uses it.             *)
(***************************************************************************)
EXTENDS Integers, Sequences, FiniteSets

CONSTANTS
  Updaters, Senders, Users, Managers,  \* disjoint sets of threads
  Transceivers,
  Frames,           \* frameMap, by frame id
  UnknownFrame,     \* an id that is not in the map
  Data,             \* what a field may hold once it has been set
  MaxCalls,         \* bound of the calls and the parsed messages, together
  CallbackSends,    \* does newMessageCallback call send()?
  DeviceAnswers,    \* does the device send only in answer to a message?
  BlockingRecv,     \* does recv() wait for bytes?
  FatalErrors       \* may an operation meet a fatal error?

NoThread      == "no thread"
NoTransceiver == "no transceiver"
Empty         == "empty"         \* SerialDataStamped(): no data yet
Zero          == "zero"          \* what memset leaves in the send buffer

Threads == Updaters \cup Senders \cup Users \cup Managers
Fields  == UNION {{Frames[id][i] : i \in 1..Len(Frames[id])} : id \in DOMAIN Frames}

ASSUME RolesAssumption ==
  /\ Cardinality(Updaters) <= 1   \* msgBuffer is "update() only"
  /\ Updaters \cap (Senders \cup Users \cup Managers) = {}
  /\ NoThread \notin Threads
  /\ NoTransceiver \notin Transceivers
  /\ UnknownFrame \notin DOMAIN Frames
  /\ MaxCalls \in Nat
  /\ {CallbackSends, DeviceAnswers, BlockingRecv, FatalErrors} \subseteq BOOLEAN

(* "No data yet" is not data, and a frame is a finite list of fields.      *)
ASSUME DataAssumption ==
  /\ Empty \notin Data
  /\ \A id \in DOMAIN Frames : Frames[id] \in Seq(Fields)

VARIABLES
  pc,          \* where a thread is: "idle" outside of every call
  after,       \* where it goes on when its call returns: "idle" or "callback"
  job,         \* the arguments of its call, or the message it processes
  todo,        \* the fields it still has to lock the map for
  holder,      \* who holds the mutex of a resource
  values,      \* the map in valueMapResource
  installed,   \* the transceiver in transceiverResource
  status,      \* of a transceiver: "new", "open" (inited), "closed", "failed"
  sendBuffer,  \* sendTransmissionBuffer, by field
  answers,     \* how many messages the device has not answered yet
  calls,       \* how many calls may still be made
  fatal,       \* history: the threads a fatal error was thrown to
  recent,      \* history: what a field has held since send() began
  alone        \* history: the thread whose send() overlaps no other, if any

locals   == <<pc, after, job, todo>>
wire     == <<installed, status, answers>>
vars == <<locals, holder, values, wire, sendBuffer, calls, fatal, recent, alone>>

Locks   == {"values", "transceiver"}
NoJob   == [transceiver |-> NoTransceiver]
Held_Mutant(f) == Zero   \* no byte of the field is copied

Held(f) == IF f \in DOMAIN values THEN values[f] ELSE Zero

Init ==
  /\ pc = [t \in Threads |-> "idle"]
  /\ after = [t \in Threads |-> "idle"]
  /\ job = [t \in Threads |-> NoJob]
  /\ todo = [t \in Threads |-> <<>>]
  /\ holder = [l \in Locks |-> NoThread]
  /\ values = [f \in {} |-> Empty]
  /\ installed \in Transceivers \cup {NoTransceiver}   \* the constructor's argument
  /\ status = [x \in Transceivers |-> IF x = installed THEN "open" ELSE "new"]
  /\ sendBuffer = [f \in Fields |-> Zero]
  /\ answers = 0
  /\ calls = MaxCalls
  /\ fatal = {}
  /\ recent = [f \in Fields |-> {}]
  /\ alone = {}

-----------------------------------------------------------------------------
(* Mutexes, calls and exceptions *)

(* lockResource() and unlockResource() *)
Lock_Mutant(t, l) == holder' = [holder EXCEPT ![l] = t]   \* try_lock(), unheeded

Lock(t, l)   == holder[l] = NoThread /\ holder' = [holder EXCEPT ![l] = t]
Unlock(t, l) == holder' = [holder EXCEPT ![l] = NoThread]

(* A thread takes the transceiver out of its resource when it locks it,    *)
(* works with the one it took, and puts one back when it unlocks it.       *)
Taken(t) == job[t].transceiver

PutBack_Mutant(t, x) == installed' = x /\ UNCHANGED holder   \* no unlock()

PutBack(t, x) == Unlock(t, "transceiver") /\ installed' = x

Goto(t, label) == pc' = [pc EXCEPT ![t] = label]

CanCall_Mutant(t, roles) ==   \* the callback runs before the message is stored
  /\ calls > 0
  /\ \/ pc[t] = "idle" /\ t \in roles
     \/ pc[t] = "declare"

(* A thread calls from outside, or from within newMessageCallback. *)
CanCall(t, roles) ==
  /\ calls > 0
  /\ \/ pc[t] = "idle" /\ t \in roles
     \/ pc[t] = "callback"

Call(t, label, args) ==
  /\ Goto(t, label)
  /\ after' = [after EXCEPT ![t] = pc[t]]
  /\ job' = [job EXCEPT ![t] = args]
  /\ calls' = calls - 1

Return(t) == Goto(t, after[t]) /\ UNCHANGED <<after, job, todo>>

(* An exception leaves the call.  In a callback, the callback catches it   *)
(* or it leaves update(), too.                                             *)
Throw(t) ==
  /\ \E label \in {after[t], "idle"} : Goto(t, label)
  /\ todo' = [todo EXCEPT ![t] = <<>>]
  /\ UNCHANGED <<after, job>>

(* A fatal error in a critical section: no mutex is unlocked. *)
ThrowFatal(t) ==
  /\ FatalErrors
  /\ Throw(t)
  /\ fatal' = fatal \cup {t}
  /\ UNCHANGED holder

(* The map's contents change, and the history of each field with them. *)
SetValues(new) ==
  /\ values' = new
  /\ UNCHANGED alone
  /\ recent' = [f \in Fields |-> IF f \in DOMAIN new THEN recent[f] \cup {new[f]}
                                                     ELSE recent[f]]

WithFields_Mutant(new) ==   \* a field that was inserted empty is skipped
  [f \in DOMAIN values \cup DOMAIN new |->
     IF f \in DOMAIN values /\ values[f] = Empty THEN Empty
     ELSE IF f \in DOMAIN new THEN new[f] ELSE values[f]]

WithFields(new) ==
  [f \in DOMAIN values \cup DOMAIN new |-> IF f \in DOMAIN new THEN new[f] ELSE values[f]]

-----------------------------------------------------------------------------
(* update() *)

BeginUpdate(t) ==
  /\ pc[t] = "idle" /\ t \in Updaters /\ calls > 0
  /\ Lock(t, "transceiver")
  /\ Call(t, "recv", [transceiver |-> installed])
  /\ UNCHANGED <<todo, values, wire, sendBuffer, fatal, recent, alone>>

(* There is no transceiver: update() returns. *)
UpdateWithoutTransceiver(t) ==
  /\ pc[t] = "recv"
  /\ Taken(t) = NoTransceiver
  /\ PutBack(t, NoTransceiver)
  /\ Return(t)
  /\ UNCHANGED <<values, status, answers, sendBuffer, calls, fatal, recent, alone>>

BytesAvailable == DeviceAnswers => answers > 0

(* recv() returns bytes.  A transceiver that does not block, or that times *)
(* out, returns nothing when there are none.                               *)
RecvBytes(t) ==
  /\ pc[t] = "recv"
  /\ Taken(t) # NoTransceiver
  /\ BytesAvailable
  /\ answers' = IF DeviceAnswers THEN answers - 1 ELSE answers
  /\ PutBack(t, Taken(t))
  /\ Goto(t, "parse")
  /\ UNCHANGED <<after, job, todo, values, status, sendBuffer, calls, fatal, recent, alone>>

RecvNothing(t) ==
  /\ pc[t] = "recv"
  /\ Taken(t) # NoTransceiver
  /\ ~BlockingRecv
  /\ PutBack(t, Taken(t))
  /\ Return(t)
  /\ UNCHANGED <<values, status, answers, sendBuffer, calls, fatal, recent, alone>>

(* The loop ends: no (whole) message is left. *)
NoMessage(t) ==
  /\ pc[t] = "parse"
  /\ Goto(t, "idle")
  /\ UNCHANGED <<after, job, todo, holder, values, wire, sendBuffer, calls, fatal, recent, alone>>

(* A message passes the checks. *)
Message(t, id, msg) ==
  /\ pc[t] = "parse" /\ calls > 0
  /\ calls' = calls - 1
  /\ job' = [job EXCEPT ![t] = [frame |-> id, msg |-> msg]]
  /\ todo' = [todo EXCEPT ![t] = Frames[id]]
  /\ Goto(t, "declare")
  /\ UNCHANGED <<after, holder, values, wire, sendBuffer, fatal, recent, alone>>

LockToDeclare(t) ==
  /\ pc[t] = "declare" /\ todo[t] # <<>>
  /\ Lock(t, "values")
  /\ Goto(t, "declaring")
  /\ UNCHANGED <<after, job, todo, values, wire, sendBuffer, calls, fatal, recent, alone>>

(* A field of the frame that is not in the map is inserted, empty. *)
DeclareField(t) ==
  /\ pc[t] = "declaring"
  /\ LET f == Head(todo[t])
     IN  IF f \in DOMAIN values THEN UNCHANGED <<values, recent, alone>>
                                ELSE SetValues(WithFields([g \in {f} |-> Empty]))
  /\ todo' = [todo EXCEPT ![t] = Tail(@)]
  /\ Unlock(t, "values")
  /\ Goto(t, "declare")
  /\ UNCHANGED <<after, job, wire, sendBuffer, calls, fatal>>

LockToStore(t) ==
  /\ pc[t] = "declare" /\ todo[t] = <<>>
  /\ Lock(t, "values")
  /\ Goto(t, "storing")
  /\ UNCHANGED <<after, job, todo, values, wire, sendBuffer, calls, fatal, recent, alone>>

(* All the fields of the message get their data in one critical section. *)
StoreMessage(t) ==
  /\ pc[t] = "storing"
  /\ SetValues(WithFields(job[t].msg))
  /\ Unlock(t, "values")
  /\ Goto(t, "callback")
  /\ UNCHANGED <<after, job, todo, wire, sendBuffer, calls, fatal>>

(* A field of MAX_DATA_BYTES bytes: assigning its SerialData throws, the   *)
(* map in the hands of update() is destroyed.                              *)
StoreFails(t) ==
  /\ pc[t] = "storing"
  /\ ThrowFatal(t)
  /\ values' = [f \in {} |-> Empty]
  /\ UNCHANGED <<wire, sendBuffer, calls, recent, alone>>

CallbackReturns(t) ==
  /\ pc[t] = "callback"
  /\ Goto(t, "parse")
  /\ UNCHANGED <<after, job, todo, holder, values, wire, sendBuffer, calls, fatal, recent, alone>>

CallbackThrows(t) ==
  /\ pc[t] = "callback"
  /\ Goto(t, "idle")
  /\ UNCHANGED <<after, job, todo, holder, values, wire, sendBuffer, calls, fatal, recent, alone>>

Update(t) ==
  \/ BeginUpdate(t) \/ UpdateWithoutTransceiver(t) \/ RecvBytes(t) \/ RecvNothing(t)
  \/ NoMessage(t)
  \/ \E id \in DOMAIN Frames, d \in Data :
       Message(t, id, [f \in {Frames[id][i] : i \in 1..Len(Frames[id])} |-> d])
  \/ LockToDeclare(t) \/ DeclareField(t) \/ LockToStore(t) \/ StoreMessage(t)
  \/ StoreFails(t) \/ CallbackReturns(t) \/ CallbackThrows(t)

-----------------------------------------------------------------------------
(* send() *)

MaySend(t) ==
  /\ CanCall(t, Senders)
  /\ pc[t] = "callback" => CallbackSends

(* An id that is not in the frame map: send() throws at once. *)
SendUnknownFrame(t) ==
  /\ MaySend(t)
  /\ calls' = calls - 1
  /\ \E label \in {pc[t], "idle"} : Goto(t, label)
  /\ UNCHANGED <<after, job, todo, holder, values, wire, sendBuffer, fatal, recent, alone>>

Sending(t) == pc[t] \in {"gather", "gathering", "transmit"}

BeginSend(t, id) ==
  /\ MaySend(t)
  /\ Call(t, "gather", [frame |-> id])
  /\ todo' = [todo EXCEPT ![t] = Frames[id]]
  /\ sendBuffer' = [f \in Fields |-> Zero]
  /\ recent' = [f \in Fields |-> IF f \in DOMAIN values THEN {values[f]} ELSE {}]
  /\ alone' = IF \E o \in Threads \ {t} : Sending(o) THEN {} ELSE {t}
  /\ UNCHANGED <<holder, values, wire, fatal>>

LockToGather(t) ==
  /\ pc[t] = "gather" /\ todo[t] # <<>>
  /\ Lock(t, "values")
  /\ Goto(t, "gathering")
  /\ UNCHANGED <<after, job, todo, values, wire, sendBuffer, calls, fatal, recent, alone>>

(* The next field of the frame goes to the buffer. *)
GatherField(t) ==
  /\ pc[t] = "gathering"
  /\ Head(todo[t]) \in DOMAIN values
  /\ sendBuffer' = [sendBuffer EXCEPT ![Head(todo[t])] = Held(Head(todo[t]))]
  /\ todo' = [todo EXCEPT ![t] = Tail(@)]
  /\ Unlock(t, "values")
  /\ Goto(t, "gather")
  /\ UNCHANGED <<after, job, values, wire, calls, fatal, recent, alone>>

(* The field is not in the map: send() unlocks it and throws. *)
FieldMissing(t) ==
  /\ pc[t] = "gathering"
  /\ Head(todo[t]) \notin DOMAIN values
  /\ Unlock(t, "values")
  /\ Throw(t)
  /\ UNCHANGED <<values, wire, sendBuffer, calls, fatal, recent, alone>>

LockToTransmit(t) ==
  /\ pc[t] = "gather" /\ todo[t] = <<>>
  /\ Lock(t, "transceiver")
  /\ job' = [job EXCEPT ![t] = [frame |-> job[t].frame, transceiver |-> installed]]
  /\ Goto(t, "transmit")
  /\ UNCHANGED <<after, todo, values, wire, sendBuffer, calls, fatal, recent, alone>>

(* The transceiver sends the buffer; without one the message is dropped. *)
Transmit(t) ==
  /\ pc[t] = "transmit"
  /\ answers' = IF Taken(t) # NoTransceiver /\ DeviceAnswers THEN answers + 1 ELSE answers
  /\ PutBack(t, Taken(t))
  /\ Return(t)
  /\ UNCHANGED <<values, status, sendBuffer, calls, fatal, recent, alone>>

Send(t) ==
  \/ SendUnknownFrame(t)
  \/ \E id \in DOMAIN Frames : BeginSend(t, id)
  \/ LockToGather(t) \/ GatherField(t) \/ FieldMissing(t)
  \/ LockToTransmit(t) \/ Transmit(t)

-----------------------------------------------------------------------------
(* setField(), getField() and hasDataForField() *)

BeginSetField(t, f, d) ==
  /\ CanCall(t, Users)
  /\ Lock(t, "values")
  /\ Call(t, "set", [field |-> f, data |-> d])
  /\ UNCHANGED <<todo, values, wire, sendBuffer, fatal, recent, alone>>

SetField(t) ==
  /\ pc[t] = "set"
  /\ SetValues(WithFields([f \in {job[t].field} |-> job[t].data]))
  /\ Unlock(t, "values")
  /\ Return(t)
  /\ UNCHANGED <<wire, sendBuffer, calls, fatal>>

(* Data of MAX_DATA_BYTES bytes or more: the assignment throws. *)
SetFieldFails(t) ==
  /\ pc[t] = "set"
  /\ ThrowFatal(t)
  /\ values' = [f \in {} |-> Empty]
  /\ UNCHANGED <<wire, sendBuffer, calls, recent, alone>>

BeginRead(t) ==
  /\ CanCall(t, Users)
  /\ Lock(t, "values")
  /\ Call(t, "read", NoJob)
  /\ UNCHANGED <<todo, values, wire, sendBuffer, fatal, recent, alone>>

(* getField(), hasDataForField() *)
Read(t) ==
  /\ pc[t] = "read"
  /\ Unlock(t, "values")
  /\ Return(t)
  /\ UNCHANGED <<values, wire, sendBuffer, calls, fatal, recent, alone>>

Access(t) ==
  \/ \E f \in Fields, d \in Data : BeginSetField(t, f, d)
  \/ SetField(t) \/ SetFieldFails(t) \/ BeginRead(t) \/ Read(t)

-----------------------------------------------------------------------------
(* setTransceiver(), resetTransceiver() and hasTransceiver() *)

BeginSetTransceiver(t, x) ==
  /\ CanCall(t, Managers)
  /\ status[x] = "new"
  /\ Lock(t, "transceiver")
  /\ Call(t, "swap", [transceiver |-> installed, new |-> x])
  /\ UNCHANGED <<todo, values, wire, sendBuffer, fatal, recent, alone>>

(* The transceiver the thread took is deinited, if there was one. *)
Deinited_Mutant(t) == status   \* the old transceiver is only destroyed

Deinited(t) ==
  [x \in Transceivers |-> IF x = Taken(t) THEN "closed" ELSE status[x]]

InitSucceeds(t) ==
  /\ pc[t] = "swap"
  /\ status' = [Deinited(t) EXCEPT ![job[t].new] = "open"]
  /\ PutBack(t, job[t].new)
  /\ Return(t)
  /\ UNCHANGED <<values, answers, sendBuffer, calls, fatal, recent, alone>>

(* init() returns false, or throws a NonFatalSerialLibraryException that   *)
(* setTransceiver() throws on once it has unlocked the resource.           *)
InitFails(t) ==
  /\ pc[t] = "swap"
  /\ status' = [Deinited(t) EXCEPT ![job[t].new] = "failed"]
  /\ PutBack(t, NoTransceiver)
  /\ Return(t) \/ Throw(t)
  /\ UNCHANGED <<values, answers, sendBuffer, calls, fatal, recent, alone>>

(* init() throws a FatalSerialLibraryException, which nobody catches. *)
InitFailsFatally(t) ==
  /\ pc[t] = "swap"
  /\ ThrowFatal(t)
  /\ installed' = NoTransceiver
  /\ status' = [Deinited(t) EXCEPT ![job[t].new] = "failed"]
  /\ UNCHANGED <<values, answers, sendBuffer, calls, recent, alone>>

BeginResetTransceiver(t) ==
  /\ CanCall(t, Managers)
  /\ Lock(t, "transceiver")
  /\ Call(t, "reset", [transceiver |-> installed])
  /\ UNCHANGED <<todo, values, wire, sendBuffer, fatal, recent, alone>>

ResetTransceiver(t) ==
  /\ pc[t] = "reset"
  /\ status' = Deinited(t)
  /\ PutBack(t, NoTransceiver)
  /\ Return(t)
  /\ UNCHANGED <<values, answers, sendBuffer, calls, fatal, recent, alone>>

BeginHasTransceiver(t) ==
  /\ CanCall(t, Managers)
  /\ Lock(t, "transceiver")
  /\ Call(t, "has", [transceiver |-> installed])
  /\ UNCHANGED <<todo, values, wire, sendBuffer, fatal, recent, alone>>

HasTransceiver(t) ==
  /\ pc[t] = "has"
  /\ PutBack(t, Taken(t))
  /\ Return(t)
  /\ UNCHANGED <<values, status, answers, sendBuffer, calls, fatal, recent, alone>>

Manage(t) ==
  \/ \E x \in Transceivers : BeginSetTransceiver(t, x)
  \/ InitSucceeds(t) \/ InitFails(t) \/ InitFailsFatally(t)
  \/ BeginResetTransceiver(t) \/ ResetTransceiver(t)
  \/ BeginHasTransceiver(t) \/ HasTransceiver(t)

-----------------------------------------------------------------------------
Step(t) == Update(t) \/ Send(t) \/ Access(t) \/ Manage(t)

(* Nobody calls the processor any more. *)
Rest == (\A t \in Threads : pc[t] = "idle") /\ calls = 0 /\ UNCHANGED vars

Next == (\E t \in Threads : Step(t)) \/ Rest

Spec == Init /\ [][Next]_vars

(* The scheduler lets every thread run that can, and every callback ends.  *)
(* A mutex need not be fair: as calls are bounded, each gets its turn.     *)
FairSpec == Spec /\ \A t \in Threads : WF_vars(Step(t))
=============================================================================
