---------------------------- MODULE FieldProofs ----------------------------
(***************************************************************************)
(* Theorems about what ProcessorThreads does with the fields: which of     *)
(* them are in the map, with and without data, and what a message is sent  *)
(* with, for any threads, frames, data and number of calls.                *)
(***************************************************************************)
EXTENDS ThreadProofs

(* The places at which update() stores a message, and those of send().     *)
Stores == {"declare", "declaring", "storing"}
Sends  == {"gather", "gathering", "transmit"}

(* What a thread knows fits the place it is at; and only update() parses   *)
(* messages and calls the callback.                                        *)
JobFits(t) ==
  /\ pc[t] \in Stores \cup Sends =>
       /\ job[t].frame \in DOMAIN Frames
       /\ todo[t] \in Seq(FieldsOfFrame(job[t].frame))
  /\ pc[t] \in Stores => job[t].msg \in [FieldsOfFrame(job[t].frame) -> Data]
  /\ pc[t] \in {"declaring", "gathering"} => todo[t] # <<>>
  /\ pc[t] = "transmit" => todo[t] = <<>>
  /\ pc[t] = "set" => job[t].field \in Fields /\ job[t].data \in Data
  /\ pc[t] \in {"recv", "parse", "callback"} \cup Stores => t \in Updaters
  /\ after[t] = "callback" => t \in Updaters

JobsInv ==
  /\ todo = [t \in Threads |-> todo[t]]
  /\ \A t \in Threads : JobFits(t)

(* The map, the buffer and the bounds. *)
DataInv ==
  /\ DOMAIN values \subseteq Fields
  /\ \A f \in DOMAIN values : values[f] \in Data \cup {Empty}
  /\ sendBuffer \in [Fields -> Data \cup {Empty, Zero}]
  /\ answers \in Nat
  /\ calls \in 0..MaxCalls
  /\ fatal \subseteq Threads
  /\ alone \subseteq Threads

(* A send that overlaps no other has gathered what the map held since it   *)
(* began, for every field that it does not have to gather any more.        *)
GatheredSo(t) ==
  /\ \A f \in DOMAIN values : values[f] \in recent[f]
  /\ \A f \in FieldsOfFrame(job[t].frame) :
       sendBuffer[f] \in recent[f] \/ \E k \in 1..Len(todo[t]) : todo[t][k] = f

AloneInv ==
  /\ recent = [f \in Fields |-> recent[f]]
  /\ \A t \in alone :
       /\ \A o \in Threads \ {t} : ~Sending(o)
       /\ Sending(t) => GatheredSo(t)

-----------------------------------------------------------------------------
(* Frames *)

(* The fields of a frame are fields, and its bytes are of its fields. *)
LEMMA FrameFields ==
  ASSUME NEW id \in DOMAIN Frames
  PROVE  /\ FieldsOfFrame(id) \subseteq Fields
         /\ Frames[id] \in Seq(FieldsOfFrame(id))
         /\ \A f \in FieldsOfFrame(id) : \E k \in 1..Len(Frames[id]) : Frames[id][k] = f
<1>1. FieldsOfFrame(id) \subseteq Fields
  BY DEF FieldsOfFrame, Fields
<1>2. Frames[id] \in Seq(Fields)
  BY DataAssumption
<1>3. \A k \in 1..Len(Frames[id]) : Frames[id][k] \in FieldsOfFrame(id)
  BY DEF FieldsOfFrame
<1>4. Frames[id] \in Seq(FieldsOfFrame(id))
  BY <1>2, <1>3
<1>5. \A f \in FieldsOfFrame(id) : \E k \in 1..Len(Frames[id]) : Frames[id][k] = f
  BY DEF FieldsOfFrame
<1> QED BY <1>1, <1>4, <1>5

-----------------------------------------------------------------------------
(* What threads know *)

(* A step of a thread leaves the locals of the others alone. *)
Local(t) ==
  /\ \A u \in Threads \ {t} :
       pc'[u] = pc[u] /\ after'[u] = after[u] /\ job'[u] = job[u] /\ todo'[u] = todo[u]
  /\ todo' = [u \in Threads |-> todo'[u]]

(* A step that goes to another place, with arguments and fields of its own *)
(* thread, is local.                                                       *)
LEMMA Locally ==
  ASSUME LocksInv, WireInv, JobsInv, NEW t \in Threads, NEW label, Goto(t, label),
         after' = after \/ \E a : after' = [after EXCEPT ![t] = a],
         job' = job \/ \E args : job' = [job EXCEPT ![t] = args],
         todo' = todo \/ \E fields : todo' = [todo EXCEPT ![t] = fields]
  PROVE  Local(t) /\ pc'[t] = label
<1>1. pc'[t] = label /\ \A u \in Threads \ {t} : pc'[u] = pc[u]
  BY DEF LocksInv, Goto
<1>2. \A u \in Threads \ {t} : after'[u] = after[u]
  BY DEF LocksInv
<1>3. \A u \in Threads \ {t} : job'[u] = job[u]
  BY DEF WireInv
<1>4. todo' = [u \in Threads |-> todo'[u]] /\ \A u \in Threads \ {t} : todo'[u] = todo[u]
  BY DEF JobsInv
<1> QED BY <1>1, <1>2, <1>3, <1>4 DEF Local

(* A local step leaves the arguments of the other threads as they are. *)
LEMMA OthersFit ==
  ASSUME JobsInv, NEW t \in Threads, Local(t), JobFits(t)'
  PROVE  JobsInv'
<1>1. ASSUME NEW u \in Threads \ {t} PROVE JobFits(u)'
  <2>1. JobFits(u)
    BY DEF JobsInv
  <2>2. pc'[u] = pc[u] /\ after'[u] = after[u] /\ job'[u] = job[u] /\ todo'[u] = todo[u]
    BY DEF Local
  <2> QED BY <2>1, <2>2 DEF JobFits, FieldsOfFrame
<1>2. \A u \in Threads : JobFits(u)'
  BY <1>1
<1> QED BY <1>2 DEF JobsInv, Local

(* A call ends at its caller, which is a callback of update() only. *)
LEMMA EndsFit ==
  ASSUME LocksInv, WireInv, JobsInv, NEW t \in Threads, Return(t) \/ Throw(t)
  PROVE  /\ Local(t) /\ JobsInv'
         /\ pc'[t] \in {"idle", "callback"}
<1>1. PICK label \in {after[t], "idle"} : Goto(t, label)
  BY DEF Return, Throw
<1>2. /\ after' = after /\ job' = job
      /\ todo' = todo \/ \E fields : todo' = [todo EXCEPT ![t] = fields]
  BY DEF Return, Throw
<1>3. Local(t) /\ pc'[t] = label
  BY <1>1, <1>2, Locally
<1>4. after[t] \in {"idle", "callback"} /\ JobFits(t)
  BY DEF LocksInv, JobsInv
<1>5. label \in {"idle", "callback"} /\ (label = "callback" => t \in Updaters)
  BY <1>1, <1>4 DEF JobFits
<1>6. JobFits(t)'
  BY <1>2, <1>3, <1>4, <1>5 DEF JobFits, Stores, Sends
<1> QED BY <1>3, <1>5, <1>6, OthersFit

(* A call begins with what it needs to know. *)
LEMMA CallsFit ==
  ASSUME LocksInv, WireInv, JobsInv, NEW t \in Threads, NEW label, NEW args,
         Call(t, label, args), pc[t] \in {"idle", "callback"},
         label \in {"recv", "gather", "set", "read", "swap", "reset", "has"},
         label = "recv" => t \in Updaters,
         label = "set" => args.field \in Fields /\ args.data \in Data,
         IF label = "gather"
         THEN /\ args.frame \in DOMAIN Frames
              /\ todo' = [todo EXCEPT ![t] = Frames[args.frame]]
         ELSE todo' = todo
  PROVE  /\ Local(t) /\ JobsInv'
         /\ pc'[t] = label /\ job'[t] = args
<1>1. /\ Goto(t, label)
      /\ after' = [after EXCEPT ![t] = pc[t]]
      /\ job' = [job EXCEPT ![t] = args]
      /\ todo' = todo \/ \E fields : todo' = [todo EXCEPT ![t] = fields]
  BY DEF Call
<1>2. Local(t) /\ pc'[t] = label
  BY <1>1, Locally
<1>3. after'[t] = pc[t] /\ job'[t] = args
  BY <1>1 DEF LocksInv, WireInv
<1>4. JobFits(t)
  BY DEF JobsInv
<1>5. label = "gather" => todo'[t] \in Seq(FieldsOfFrame(args.frame))
  <2> SUFFICES ASSUME label = "gather" PROVE todo'[t] \in Seq(FieldsOfFrame(args.frame))
    OBVIOUS
  <2>1. todo'[t] = Frames[args.frame]
    BY DEF JobsInv
  <2> QED BY <2>1, FrameFields
<1>6. JobFits(t)'
  BY <1>2, <1>3, <1>4, <1>5 DEF JobFits, Stores, Sends, FieldsOfFrame
<1> QED BY <1>2, <1>3, <1>6, OthersFit

(* update() knows the message it stores and the fields it has to declare.  *)
LEMMA UpdateKeepsJobs ==
  ASSUME LocksInv, WireInv, JobsInv, NEW t \in Threads, Update(t)
  PROVE  Local(t) /\ JobsInv'
<1> USE DEF Stores, Sends
<1>0. JobFits(t)
  BY DEF JobsInv
<1>1. CASE BeginUpdate(t)
  <2> DEFINE args == [transceiver |-> installed]
  <2>1. Call(t, "recv", args) /\ t \in Updaters /\ todo' = todo /\ pc[t] = "idle"
    BY <1>1 DEF BeginUpdate
  <2> HIDE DEF args
  <2> QED BY <2>1, CallsFit
<1>2. CASE UpdateWithoutTransceiver(t) \/ RecvNothing(t)
  BY <1>2, EndsFit DEF UpdateWithoutTransceiver, RecvNothing
<1>3. CASE RecvBytes(t) \/ CallbackReturns(t)
  <2>1. Goto(t, "parse") /\ UNCHANGED <<after, job, todo>> /\ t \in Updaters
    BY <1>0, <1>3 DEF RecvBytes, CallbackReturns, JobFits
  <2>2. Local(t) /\ pc'[t] = "parse"
    BY <2>1, Locally
  <2>3. JobFits(t)'
    BY <1>0, <2>1, <2>2 DEF JobFits
  <2> QED BY <2>2, <2>3, OthersFit
<1>4. CASE NoMessage(t) \/ CallbackThrows(t)
  <2>1. Goto(t, "idle") /\ UNCHANGED <<after, job, todo>>
    BY <1>4 DEF NoMessage, CallbackThrows
  <2>2. Local(t) /\ pc'[t] = "idle"
    BY <2>1, Locally
  <2>3. JobFits(t)'
    BY <1>0, <2>1, <2>2 DEF JobFits
  <2> QED BY <2>2, <2>3, OthersFit
<1>5. ASSUME NEW id \in DOMAIN Frames, NEW d \in Data,
             Message(t, id, [f \in FieldsOfFrame(id) |-> d])
      PROVE  Local(t) /\ JobsInv'
  <2> DEFINE msg == [f \in FieldsOfFrame(id) |-> d]
             args == [frame |-> id, msg |-> msg]
  <2>1. /\ pc[t] = "parse" /\ Goto(t, "declare") /\ after' = after
        /\ job' = [job EXCEPT ![t] = args] /\ todo' = [todo EXCEPT ![t] = Frames[id]]
    BY <1>5 DEF Message
  <2>2. args.frame = id /\ args.msg \in [FieldsOfFrame(id) -> Data]
    OBVIOUS
  <2> HIDE DEF args
  <2>3. Local(t) /\ pc'[t] = "declare"
    BY <2>1, Locally
  <2>4. job'[t] = args /\ todo'[t] = Frames[id] /\ after'[t] = after[t]
    BY <2>1 DEF WireInv, JobsInv
  <2>5. /\ t \in Updaters /\ (after'[t] = "callback" => t \in Updaters)
        /\ todo'[t] \in Seq(FieldsOfFrame(id))
        /\ job'[t].frame = id /\ job'[t].msg \in [FieldsOfFrame(id) -> Data]
    BY <1>0, <2>1, <2>2, <2>4, FrameFields DEF JobFits
  <2> HIDE DEF msg
  <2>6. JobFits(t)'
    BY <2>3, <2>5 DEF JobFits, FieldsOfFrame
  <2> QED BY <2>3, <2>6, OthersFit
<1>6. CASE LockToDeclare(t) \/ LockToStore(t)
  <2>1. /\ pc[t] = "declare" /\ UNCHANGED <<after, job, todo>>
        /\ \/ Goto(t, "declaring") /\ todo[t] # <<>>
           \/ Goto(t, "storing")
    BY <1>6 DEF LockToDeclare, LockToStore
  <2>2. Local(t) /\ (pc'[t] = "storing" \/ (pc'[t] = "declaring" /\ todo[t] # <<>>))
    BY <2>1, Locally
  <2>3. JobFits(t)'
    BY <1>0, <2>1, <2>2 DEF JobFits, FieldsOfFrame
  <2> QED BY <2>2, <2>3, OthersFit
<1>7. CASE DeclareField(t)
  <2>1. /\ pc[t] = "declaring" /\ Goto(t, "declare") /\ UNCHANGED <<after, job>>
        /\ todo' = [todo EXCEPT ![t] = Tail(todo[t])]
    BY <1>7 DEF DeclareField
  <2>2. Local(t) /\ pc'[t] = "declare" /\ todo'[t] = Tail(todo[t])
    BY <2>1, Locally DEF JobsInv
  <2>3. JobFits(t)'
    BY <1>0, <2>1, <2>2 DEF JobFits, FieldsOfFrame
  <2> QED BY <2>2, <2>3, OthersFit
<1>8. CASE StoreMessage(t)
  <2>1. pc[t] = "storing" /\ Goto(t, "callback") /\ UNCHANGED <<after, job, todo>>
    BY <1>8 DEF StoreMessage
  <2>2. Local(t) /\ pc'[t] = "callback"
    BY <2>1, Locally
  <2>3. JobFits(t)'
    BY <1>0, <2>1, <2>2 DEF JobFits
  <2> QED BY <2>2, <2>3, OthersFit
<1>9. CASE StoreFails(t)
  BY <1>9, EndsFit DEF StoreFails, ThrowFatal
<1> QED BY <1>1, <1>2, <1>3, <1>4, <1>5, <1>6, <1>7, <1>8, <1>9 DEF Update, FieldsOfFrame

(* send() knows the frame and the fields it still has to gather. *)
LEMMA SendKeepsJobs ==
  ASSUME LocksInv, WireInv, JobsInv, NEW t \in Threads, Send(t)
  PROVE  Local(t) /\ JobsInv'
<1> USE DEF Stores, Sends
<1>0. JobFits(t)
  BY DEF JobsInv
<1>1. CASE SendUnknownFrame(t)
  <2>1. /\ pc[t] \in {"idle", "callback"} /\ UNCHANGED <<after, job, todo>>
        /\ \E label \in {pc[t], "idle"} : Goto(t, label)
    BY <1>1 DEF SendUnknownFrame, MaySend, CanCall
  <2>2. Local(t) /\ pc'[t] \in {pc[t], "idle"}
    BY <2>1, Locally
  <2>3. JobFits(t)'
    BY <1>0, <2>1, <2>2 DEF JobFits
  <2> QED BY <2>2, <2>3, OthersFit
<1>2. ASSUME NEW id \in DOMAIN Frames, BeginSend(t, id)
      PROVE  Local(t) /\ JobsInv'
  <2> DEFINE args == [frame |-> id]
  <2>1. /\ Call(t, "gather", args) /\ pc[t] \in {"idle", "callback"}
        /\ args.frame = id /\ todo' = [todo EXCEPT ![t] = Frames[id]]
    BY <1>2 DEF BeginSend, MaySend, CanCall
  <2> HIDE DEF args
  <2> QED BY <2>1, CallsFit
<1>3. CASE LockToGather(t)
  <2>1. /\ pc[t] = "gather" /\ todo[t] # <<>> /\ Goto(t, "gathering")
        /\ UNCHANGED <<after, job, todo>>
    BY <1>3 DEF LockToGather
  <2>2. Local(t) /\ pc'[t] = "gathering"
    BY <2>1, Locally
  <2>3. JobFits(t)'
    BY <1>0, <2>1, <2>2 DEF JobFits, FieldsOfFrame
  <2> QED BY <2>2, <2>3, OthersFit
<1>4. CASE GatherField(t)
  <2>1. /\ pc[t] = "gathering" /\ Goto(t, "gather") /\ UNCHANGED <<after, job>>
        /\ todo' = [todo EXCEPT ![t] = Tail(todo[t])]
    BY <1>4 DEF GatherField
  <2>2. Local(t) /\ pc'[t] = "gather" /\ todo'[t] = Tail(todo[t])
    BY <2>1, Locally DEF JobsInv
  <2>3. JobFits(t)'
    BY <1>0, <2>1, <2>2 DEF JobFits, FieldsOfFrame
  <2> QED BY <2>2, <2>3, OthersFit
<1>5. CASE FieldMissing(t) \/ Transmit(t)
  BY <1>5, EndsFit DEF FieldMissing, Transmit
<1>6. CASE LockToTransmit(t)
  <2> DEFINE args == [frame |-> job[t].frame, transceiver |-> installed]
  <2>1. /\ pc[t] = "gather" /\ todo[t] = <<>> /\ Goto(t, "transmit")
        /\ UNCHANGED <<after, todo>> /\ job' = [job EXCEPT ![t] = args]
        /\ args.frame = job[t].frame
    BY <1>6 DEF LockToTransmit
  <2> HIDE DEF args
  <2>2. Local(t) /\ pc'[t] = "transmit" /\ job'[t] = args
    BY <2>1, Locally DEF WireInv
  <2>3. JobFits(t)'
    BY <1>0, <2>1, <2>2 DEF JobFits, FieldsOfFrame
  <2> QED BY <2>2, <2>3, OthersFit
<1> QED BY <1>1, <1>2, <1>3, <1>4, <1>5, <1>6 DEF Send

(* setField() knows the field and its data. *)
LEMMA AccessKeepsJobs ==
  ASSUME LocksInv, WireInv, JobsInv, NEW t \in Threads, Access(t)
  PROVE  Local(t) /\ JobsInv'
<1>1. ASSUME NEW f \in Fields, NEW d \in Data, BeginSetField(t, f, d)
      PROVE  Local(t) /\ JobsInv'
  <2> DEFINE args == [field |-> f, data |-> d]
  <2>1. /\ Call(t, "set", args) /\ pc[t] \in {"idle", "callback"} /\ todo' = todo
        /\ args.field = f /\ args.data = d
    BY <1>1 DEF BeginSetField, CanCall
  <2> HIDE DEF args
  <2> QED BY <2>1, CallsFit
<1>2. CASE SetField(t) \/ SetFieldFails(t) \/ Read(t)
  BY <1>2, EndsFit DEF SetField, SetFieldFails, ThrowFatal, Read
<1>3. CASE BeginRead(t)
  <2>1. Call(t, "read", NoJob) /\ pc[t] \in {"idle", "callback"} /\ todo' = todo
    BY <1>3 DEF BeginRead, CanCall
  <2> QED BY <2>1, CallsFit
<1> QED BY <1>1, <1>2, <1>3 DEF Access

(* Threads that set, reset or ask for a transceiver. *)
LEMMA ManageKeepsJobs ==
  ASSUME LocksInv, WireInv, JobsInv, NEW t \in Threads, Manage(t)
  PROVE  Local(t) /\ JobsInv'
<1>1. ASSUME NEW x \in Transceivers, BeginSetTransceiver(t, x)
      PROVE  Local(t) /\ JobsInv'
  <2> DEFINE args == [transceiver |-> installed, new |-> x]
  <2>1. Call(t, "swap", args) /\ pc[t] \in {"idle", "callback"} /\ todo' = todo
    BY <1>1 DEF BeginSetTransceiver, CanCall
  <2> HIDE DEF args
  <2> QED BY <2>1, CallsFit
<1>2. CASE InitSucceeds(t) \/ InitFails(t) \/ InitFailsFatally(t) \/ ResetTransceiver(t)
             \/ HasTransceiver(t)
  BY <1>2, EndsFit
  DEF InitSucceeds, InitFails, InitFailsFatally, ThrowFatal, ResetTransceiver, HasTransceiver
<1>3. CASE BeginResetTransceiver(t) \/ BeginHasTransceiver(t)
  <2> DEFINE args == [transceiver |-> installed]
  <2>1. /\ Call(t, "reset", args) \/ Call(t, "has", args)
        /\ pc[t] \in {"idle", "callback"} /\ todo' = todo
    BY <1>3 DEF BeginResetTransceiver, BeginHasTransceiver, CanCall
  <2> HIDE DEF args
  <2> QED BY <2>1, CallsFit
<1> QED BY <1>1, <1>2, <1>3 DEF Manage

(* Any step of a thread. *)
LEMMA StepKeepsJobs ==
  ASSUME LocksInv, WireInv, JobsInv, NEW t \in Threads, Step(t)
  PROVE  Local(t) /\ JobsInv'
BY UpdateKeepsJobs, SendKeepsJobs, AccessKeepsJobs, ManageKeepsJobs DEF Step

-----------------------------------------------------------------------------
(* The map and its types *)

(* The map once some of its fields are set. *)
LEMMA MapWithFields ==
  ASSUME DataInv, NEW new, DOMAIN new \subseteq Fields,
         \A f \in DOMAIN new : new[f] \in Data \cup {Empty}
  PROVE  /\ DOMAIN WithFields(new) = DOMAIN values \cup DOMAIN new
         /\ DOMAIN WithFields(new) \subseteq Fields
         /\ \A f \in DOMAIN WithFields(new) : WithFields(new)[f] \in Data \cup {Empty}
         /\ \A f \in DOMAIN new : WithFields(new)[f] = new[f]
         /\ \A f \in DOMAIN values \ DOMAIN new : WithFields(new)[f] = values[f]
BY DEF DataInv, WithFields

(* What update() stores, and what setField() sets, is data of fields. *)
LEMMA MessageIsData ==
  ASSUME JobsInv, NEW t \in Threads, pc[t] \in Stores
  PROVE  /\ DOMAIN job[t].msg = FieldsOfFrame(job[t].frame)
         /\ DOMAIN job[t].msg \subseteq Fields
         /\ \A f \in DOMAIN job[t].msg : job[t].msg[f] \in Data
<1>1. /\ job[t].frame \in DOMAIN Frames
      /\ job[t].msg \in [FieldsOfFrame(job[t].frame) -> Data]
  BY DEF JobsInv, JobFits
<1> QED BY <1>1, FrameFields

(* The next field of a message's frame. *)
LEMMA NextField ==
  ASSUME JobsInv, NEW t \in Threads, pc[t] \in {"declaring", "gathering"}
  PROVE  /\ Head(todo[t]) \in FieldsOfFrame(job[t].frame)
         /\ Head(todo[t]) \in Fields
<1>1. /\ job[t].frame \in DOMAIN Frames
      /\ todo[t] \in Seq(FieldsOfFrame(job[t].frame)) /\ todo[t] # <<>>
  BY DEF JobsInv, JobFits, Stores, Sends
<1>2. Head(todo[t]) \in FieldsOfFrame(job[t].frame)
  BY <1>1
<1> QED BY <1>1, <1>2, FrameFields

(* update() keeps the types of what it shares. *)
LEMMA UpdateKeepsData ==
  ASSUME LocksInv, WireInv, JobsInv, DataInv, NEW t \in Threads, Update(t)
  PROVE  DataInv'
<1>1. CASE BeginUpdate(t)
  BY <1>1, RolesAssumption DEF BeginUpdate, Call, wire, DataInv
<1>2. CASE UpdateWithoutTransceiver(t) \/ RecvNothing(t) \/ NoMessage(t) \/ LockToDeclare(t)
             \/ LockToStore(t) \/ CallbackReturns(t) \/ CallbackThrows(t)
  BY <1>2 DEF UpdateWithoutTransceiver, RecvNothing, NoMessage, LockToDeclare, LockToStore,
              CallbackReturns, CallbackThrows, wire, DataInv
<1>3. CASE RecvBytes(t)
  BY <1>3 DEF RecvBytes, BytesAvailable, DataInv
<1>4. ASSUME NEW id, NEW msg, Message(t, id, msg) PROVE DataInv'
  BY <1>4, RolesAssumption DEF Message, wire, DataInv
<1>5. CASE DeclareField(t)
  <2> DEFINE new == [g \in {Head(todo[t])} |-> Empty]
  <2>1. DOMAIN new \subseteq Fields /\ \A f \in DOMAIN new : new[f] \in Data \cup {Empty}
    BY <1>5, NextField DEF DeclareField
  <2>2. /\ values' = values \/ values' = WithFields(new)
        /\ UNCHANGED <<sendBuffer, answers, calls, fatal, alone>>
    BY <1>5 DEF DeclareField, SetValues, wire
  <2> HIDE DEF new
  <2> QED BY <2>1, <2>2, MapWithFields DEF DataInv
<1>6. CASE StoreMessage(t)
  <2>1. pc[t] \in Stores
    BY <1>6 DEF StoreMessage, Stores
  <2>2. values' = WithFields(job[t].msg) /\ UNCHANGED <<sendBuffer, answers, calls, fatal, alone>>
    BY <1>6 DEF StoreMessage, SetValues, wire
  <2> QED BY <2>1, <2>2, MessageIsData, MapWithFields DEF DataInv
<1>7. CASE StoreFails(t)
  BY <1>7 DEF StoreFails, ThrowFatal, wire, DataInv
<1> QED BY <1>1, <1>2, <1>3, <1>4, <1>5, <1>6, <1>7 DEF Update

(* send() keeps the types of what it shares. *)
LEMMA SendKeepsData ==
  ASSUME LocksInv, WireInv, JobsInv, DataInv, NEW t \in Threads, Send(t)
  PROVE  DataInv'
<1>1. CASE SendUnknownFrame(t)
  BY <1>1, RolesAssumption DEF SendUnknownFrame, MaySend, CanCall, wire, DataInv
<1>2. ASSUME NEW id, BeginSend(t, id) PROVE DataInv'
  BY <1>2, RolesAssumption DEF BeginSend, MaySend, CanCall, Call, wire, DataInv
<1>3. CASE LockToGather(t) \/ FieldMissing(t) \/ LockToTransmit(t)
  BY <1>3 DEF LockToGather, FieldMissing, LockToTransmit, wire, DataInv
<1>4. CASE GatherField(t)
  <2>1. Held(Head(todo[t])) \in Data \cup {Empty, Zero}
    BY DEF DataInv, Held
  <2> QED BY <1>4, <2>1 DEF GatherField, wire, DataInv
<1>5. CASE Transmit(t)
  BY <1>5 DEF Transmit, DataInv
<1> QED BY <1>1, <1>2, <1>3, <1>4, <1>5 DEF Send

(* setField() and getField() keep the types of what they share. *)
LEMMA AccessKeepsData ==
  ASSUME LocksInv, WireInv, JobsInv, DataInv, NEW t \in Threads, Access(t)
  PROVE  DataInv'
<1>1. ASSUME NEW f, NEW d, BeginSetField(t, f, d) PROVE DataInv'
  BY <1>1, RolesAssumption DEF BeginSetField, CanCall, Call, wire, DataInv
<1>2. CASE SetField(t)
  <2> DEFINE new == [f \in {job[t].field} |-> job[t].data]
  <2>1. DOMAIN new \subseteq Fields /\ \A f \in DOMAIN new : new[f] \in Data \cup {Empty}
    BY <1>2 DEF SetField, JobsInv, JobFits
  <2>2. values' = WithFields(new) /\ UNCHANGED <<sendBuffer, answers, calls, fatal, alone>>
    BY <1>2 DEF SetField, SetValues, wire
  <2> HIDE DEF new
  <2> QED BY <2>1, <2>2, MapWithFields DEF DataInv
<1>3. CASE SetFieldFails(t)
  BY <1>3 DEF SetFieldFails, ThrowFatal, wire, DataInv
<1>4. CASE BeginRead(t)
  BY <1>4, RolesAssumption DEF BeginRead, CanCall, Call, wire, DataInv
<1>5. CASE Read(t)
  BY <1>5 DEF Read, wire, DataInv
<1> QED BY <1>1, <1>2, <1>3, <1>4, <1>5 DEF Access

(* The operations on the transceiver touch neither the map nor the         *)
(* transmission buffer.                                                    *)
LEMMA ManageKeepsData ==
  ASSUME LocksInv, WireInv, JobsInv, DataInv, NEW t \in Threads, Manage(t)
  PROVE  DataInv'
<1>1. ASSUME NEW x, BeginSetTransceiver(t, x) PROVE DataInv'
  BY <1>1, RolesAssumption DEF BeginSetTransceiver, CanCall, Call, wire, DataInv
<1>2. CASE BeginResetTransceiver(t) \/ BeginHasTransceiver(t)
  BY <1>2, RolesAssumption
  DEF BeginResetTransceiver, BeginHasTransceiver, CanCall, Call, wire, DataInv
<1>3. CASE InitSucceeds(t) \/ InitFails(t) \/ ResetTransceiver(t) \/ HasTransceiver(t)
  BY <1>3 DEF InitSucceeds, InitFails, ResetTransceiver, HasTransceiver, DataInv
<1>4. CASE InitFailsFatally(t)
  BY <1>4 DEF InitFailsFatally, ThrowFatal, DataInv
<1> QED BY <1>1, <1>2, <1>3, <1>4 DEF Manage

(* Any step of a thread. *)
LEMMA StepKeepsData ==
  ASSUME LocksInv, WireInv, JobsInv, DataInv, NEW t \in Threads, Step(t)
  PROVE  DataInv'
BY UpdateKeepsData, SendKeepsData, AccessKeepsData, ManageKeepsData DEF Step

-----------------------------------------------------------------------------
(* Fields without data *)

(* A thread that stays where it stores its message, or was not there, and  *)
(* leaves the map alone or sets data of all of its message's fields.       *)
LEMMA EmptyKept ==
  ASSUME EmptyOnlyWhileStoring, NEW t \in Threads, Local(t),
         \/ /\ values' = values
            /\ pc[t] \in Stores => pc'[t] \in Stores /\ job'[t] = job[t]
         \/ \E new :
              /\ \A f \in DOMAIN values' : values'[f] = Empty =>
                   f \in DOMAIN values \ DOMAIN new /\ values[f] = Empty
              /\ pc[t] \in Stores => FieldsOfFrame(job[t].frame) \subseteq DOMAIN new
  PROVE  EmptyOnlyWhileStoring'
<1> SUFFICES ASSUME NEW f \in DOMAIN values', values'[f] = Empty
             PROVE  \E u \in Updaters : /\ pc'[u] \in Stores
                                        /\ f \in FieldsOfFrame(job'[u].frame)
  BY DEF EmptyOnlyWhileStoring, Stores, FieldsOfFrame
<1>1. f \in DOMAIN values /\ values[f] = Empty
  OBVIOUS
<1>2. PICK u \in Updaters : pc[u] \in Stores /\ f \in FieldsOfFrame(job[u].frame)
  BY <1>1 DEF EmptyOnlyWhileStoring, Stores
<1>3. CASE u # t
  <2>1. pc'[u] = pc[u] /\ job'[u] = job[u]
    BY <1>3 DEF Local, Threads
  <2> QED BY <1>2, <2>1
<1>4. CASE u = t
  <2>1. pc'[t] \in Stores /\ job'[t] = job[t]
    BY <1>2, <1>4
  <2> QED BY <1>2, <1>4, <2>1
<1> QED BY <1>3, <1>4

(* update() inserts the fields of a message before it fills them. *)
LEMMA UpdateKeepsEmpty ==
  ASSUME LocksInv, WireInv, JobsInv, DataInv, EmptyOnlyWhileStoring,
         NEW t \in Threads, Update(t), Local(t)
  PROVE  EmptyOnlyWhileStoring'
<1>0. \A label : Goto(t, label) => pc'[t] = label
  BY DEF LocksInv, Goto
<1>1. CASE BeginUpdate(t) \/ UpdateWithoutTransceiver(t) \/ RecvBytes(t) \/ RecvNothing(t)
             \/ NoMessage(t) \/ CallbackReturns(t) \/ CallbackThrows(t)
  <2>1. pc[t] \notin Stores /\ values' = values
    BY <1>1 DEF BeginUpdate, UpdateWithoutTransceiver, RecvBytes, RecvNothing, NoMessage,
                CallbackReturns, CallbackThrows, Stores
  <2> QED BY <2>1, EmptyKept
<1>2. ASSUME NEW id, NEW msg, Message(t, id, msg) PROVE EmptyOnlyWhileStoring'
  <2>1. pc[t] \notin Stores /\ values' = values
    BY <1>2 DEF Message, Stores
  <2> QED BY <2>1, EmptyKept
<1>3. CASE LockToDeclare(t) \/ LockToStore(t)
  <2>1. pc'[t] \in Stores /\ job' = job /\ values' = values
    BY <1>0, <1>3 DEF LockToDeclare, LockToStore, Stores
  <2> QED BY <2>1, EmptyKept
<1>4. CASE DeclareField(t)
  <2> DEFINE f == Head(todo[t])
             new == [g \in {f} |-> Empty]
  <2>1. pc'[t] \in Stores /\ job' = job /\ pc[t] = "declaring"
    BY <1>0, <1>4 DEF DeclareField, Stores
  <2>2. CASE values' = values
    BY <2>1, <2>2, EmptyKept
  <2>3. CASE values' = WithFields(new)
    <3>1. f \in Fields /\ f \in FieldsOfFrame(job[t].frame) /\ t \in Updaters
      BY <2>1, NextField DEF JobsInv, JobFits, Stores
    <3>2. DOMAIN new = {f}
      OBVIOUS
    <3>3. \A g \in DOMAIN values' \ {f} : g \in DOMAIN values /\ values'[g] = values[g]
      BY <2>3, <3>1, <3>2, MapWithFields
    <3> SUFFICES ASSUME NEW g \in DOMAIN values', values'[g] = Empty
                 PROVE  \E u \in Updaters : /\ pc'[u] \in Stores
                                            /\ g \in FieldsOfFrame(job'[u].frame)
      BY DEF EmptyOnlyWhileStoring, Stores, FieldsOfFrame
    <3>4. CASE g = f
      BY <2>1, <3>1, <3>4
    <3>5. CASE g # f
      <4>1. values[g] = Empty /\ g \in DOMAIN values
        BY <3>3, <3>5
      <4>2. PICK u \in Updaters : pc[u] \in Stores /\ g \in FieldsOfFrame(job[u].frame)
        BY <4>1 DEF EmptyOnlyWhileStoring, Stores
      <4>3. pc'[u] \in Stores
        BY <2>1, <4>2 DEF Local, Threads
      <4> QED BY <2>1, <4>2, <4>3
    <3> QED BY <3>4, <3>5
  <2> QED BY <1>4, <2>2, <2>3 DEF DeclareField, SetValues
<1>5. CASE StoreMessage(t)
  <2> DEFINE new == job[t].msg
  <2>1. pc[t] \in Stores /\ values' = WithFields(new)
    BY <1>5 DEF StoreMessage, SetValues, Stores
  <2>2. /\ DOMAIN new = FieldsOfFrame(job[t].frame) /\ DOMAIN new \subseteq Fields
        /\ \A f \in DOMAIN new : new[f] \in Data
    BY <2>1, MessageIsData
  <2> HIDE DEF new
  <2>3. /\ DOMAIN values' = DOMAIN values \cup DOMAIN new
        /\ \A f \in DOMAIN new : values'[f] = new[f]
        /\ \A f \in DOMAIN values \ DOMAIN new : values'[f] = values[f]
    BY <2>1, <2>2, MapWithFields
  <2>4. \A f \in DOMAIN values' : values'[f] = Empty =>
          f \in DOMAIN values \ DOMAIN new /\ values[f] = Empty
    BY <2>2, <2>3, DataAssumption
  <2> QED BY <2>2, <2>4, EmptyKept
<1>6. CASE StoreFails(t)
  BY <1>6 DEF StoreFails, EmptyOnlyWhileStoring
<1> QED BY <1>1, <1>2, <1>3, <1>4, <1>5, <1>6 DEF Update

(* setField() inserts and fills a field in one critical section. *)
LEMMA AccessKeepsEmpty ==
  ASSUME LocksInv, WireInv, JobsInv, DataInv, EmptyOnlyWhileStoring,
         NEW t \in Threads, Access(t), Local(t)
  PROVE  EmptyOnlyWhileStoring'
<1>1. ASSUME NEW f, NEW d, BeginSetField(t, f, d) PROVE EmptyOnlyWhileStoring'
  <2>1. pc[t] \notin Stores /\ values' = values
    BY <1>1 DEF BeginSetField, CanCall, Stores
  <2> QED BY <2>1, EmptyKept
<1>2. CASE SetField(t)
  <2> DEFINE new == [f \in {job[t].field} |-> job[t].data]
  <2>1. pc[t] \notin Stores /\ values' = WithFields(new)
    BY <1>2 DEF SetField, SetValues, Stores
  <2>2. DOMAIN new \subseteq Fields /\ \A f \in DOMAIN new : new[f] \in Data
    BY <1>2 DEF SetField, JobsInv, JobFits
  <2> HIDE DEF new
  <2>3. /\ DOMAIN values' = DOMAIN values \cup DOMAIN new
        /\ \A f \in DOMAIN new : values'[f] = new[f]
        /\ \A f \in DOMAIN values \ DOMAIN new : values'[f] = values[f]
    BY <2>1, <2>2, MapWithFields
  <2>4. \A f \in DOMAIN values' : values'[f] = Empty =>
          f \in DOMAIN values \ DOMAIN new /\ values[f] = Empty
    BY <2>2, <2>3, DataAssumption
  <2> QED BY <2>1, <2>4, EmptyKept
<1>3. CASE SetFieldFails(t)
  BY <1>3 DEF SetFieldFails, EmptyOnlyWhileStoring
<1>4. CASE BeginRead(t) \/ Read(t)
  <2>1. pc[t] \notin Stores /\ values' = values
    BY <1>4 DEF BeginRead, Read, CanCall, Stores
  <2> QED BY <2>1, EmptyKept
<1> QED BY <1>1, <1>2, <1>3, <1>4 DEF Access

(* send() and the operations on the transceiver leave the map alone. *)
LEMMA OthersKeepEmpty ==
  ASSUME EmptyOnlyWhileStoring, NEW t \in Threads, Send(t) \/ Manage(t), Local(t)
  PROVE  EmptyOnlyWhileStoring'
<1>1. CASE Send(t)
  <2>1. pc[t] \notin Stores /\ values' = values
    BY <1>1 DEF Send, SendUnknownFrame, BeginSend, MaySend, CanCall, LockToGather, GatherField,
                FieldMissing, LockToTransmit, Transmit, Stores
  <2> QED BY <2>1, EmptyKept
<1>2. CASE Manage(t)
  <2>1. pc[t] \notin Stores /\ values' = values
    BY <1>2 DEF Manage, BeginSetTransceiver, InitSucceeds, InitFails, InitFailsFatally,
                BeginResetTransceiver, ResetTransceiver, BeginHasTransceiver, HasTransceiver,
                CanCall, Stores
  <2> QED BY <2>1, EmptyKept
<1> QED BY <1>1, <1>2

(* Any step of a thread; send() and the operations on the transceiver      *)
(* change no field.                                                        *)
LEMMA StepKeepsEmpty ==
  ASSUME LocksInv, WireInv, JobsInv, DataInv, EmptyOnlyWhileStoring,
         NEW t \in Threads, Step(t), Local(t)
  PROVE  EmptyOnlyWhileStoring'
BY UpdateKeepsEmpty, AccessKeepsEmpty, OthersKeepEmpty DEF Step

-----------------------------------------------------------------------------
(* What a message is sent with *)

(* A step that gathers nothing, and begins no send.  What it may put into  *)
(* the map is in the history.                                              *)
LEMMA AloneKept ==
  ASSUME AloneInv, JobsInv, DataInv, NEW t \in Threads, Local(t),
         alone' = alone, sendBuffer' = sendBuffer,
         pc'[t] \in Sends => /\ pc[t] \in Sends /\ job'[t].frame = job[t].frame
                             /\ todo'[t] = todo[t],
         \/ values' = values /\ recent' = recent
         \/ values' = [f \in {} |-> Empty] /\ recent' = recent
         \/ \E new : values' = WithFields(new) /\ DOMAIN WithFields(new) \subseteq Fields
                       /\ SetValues(WithFields(new))
  PROVE  AloneInv'
<1>1. \A u \in Threads : Sending(u)' => Sending(u) /\ job'[u].frame = job[u].frame
                                         /\ todo'[u] = todo[u]
  BY DEF Local, Sending, Sends
<1>2. /\ recent' = [f \in Fields |-> recent'[f]]
      /\ \A f, x : x \in recent[f] /\ f \in Fields => x \in recent'[f]
  <2>1. CASE recent' = recent
    BY <2>1 DEF AloneInv
  <2>2. CASE \E new : SetValues(WithFields(new))
    <3>1. PICK new : SetValues(WithFields(new))
      BY <2>2
    <3> DEFINE map == WithFields(new)
    <3>2. recent' = [f \in Fields |-> IF f \in DOMAIN map THEN recent[f] \cup {map[f]}
                                                           ELSE recent[f]]
      BY <3>1 DEF SetValues
    <3> HIDE DEF map
    <3> QED BY <3>2
  <2> QED BY <2>1, <2>2
<1>3. ASSUME NEW u \in alone, Sending(u)'
      PROVE  \A f \in DOMAIN values' : values'[f] \in recent'[f]
  <2>0. u \in Threads
    BY DEF DataInv
  <2>1. \A f \in DOMAIN values : values[f] \in recent[f]
    BY <1>1, <1>3, <2>0 DEF AloneInv, GatheredSo
  <2>2. CASE values' = values /\ recent' = recent
    BY <2>1, <2>2
  <2>3. CASE values' = [f \in {} |-> Empty]
    BY <2>3
  <2>4. ASSUME NEW new, values' = WithFields(new), DOMAIN WithFields(new) \subseteq Fields,
               SetValues(WithFields(new))
        PROVE  \A f \in DOMAIN values' : values'[f] \in recent'[f]
    <3> DEFINE map == WithFields(new)
    <3>1. /\ values' = map /\ DOMAIN map \subseteq Fields
          /\ recent' = [f \in Fields |-> IF f \in DOMAIN map THEN recent[f] \cup {map[f]}
                                                              ELSE recent[f]]
      BY <2>4 DEF SetValues
    <3> HIDE DEF map
    <3> QED BY <3>1
  <2> QED BY <2>2, <2>3, <2>4
<1>4. ASSUME NEW u \in alone, Sending(u)', NEW f \in FieldsOfFrame(job'[u].frame)
      PROVE  sendBuffer'[f] \in recent'[f] \/ \E k \in 1..Len(todo'[u]) : todo'[u][k] = f
  <2>0. u \in Threads
    BY DEF DataInv
  <2>1. Sending(u) /\ job'[u].frame = job[u].frame /\ todo'[u] = todo[u]
    BY <1>1, <1>4, <2>0
  <2>2. sendBuffer[f] \in recent[f] \/ \E k \in 1..Len(todo[u]) : todo[u][k] = f
    BY <1>4, <2>1 DEF AloneInv, GatheredSo
  <2>3. f \in Fields
    BY <1>4, <2>0, <2>1, FrameFields DEF JobsInv, JobFits, Sending, Sends
  <2> QED BY <1>2, <2>1, <2>2, <2>3
<1>5. \A u \in alone : \A o \in Threads \ {u} : ~Sending(o)'
  BY <1>1 DEF AloneInv
<1>6. \A u \in alone : Sending(u)' => GatheredSo(u)'
  <2> SUFFICES ASSUME NEW u \in alone, Sending(u)' PROVE GatheredSo(u)'
    OBVIOUS
  <2>1. \A f \in FieldsOfFrame(job'[u].frame) :
          sendBuffer'[f] \in recent'[f] \/ \E k \in 1..Len(todo'[u]) : todo'[u][k] = f
    BY <1>4
  <2> QED BY <1>3, <2>1 DEF GatheredSo, FieldsOfFrame
<1> QED BY <1>2, <1>5, <1>6 DEF AloneInv

(* What update() writes is recorded as what the map held, for the sends    *)
(* that are under way.                                                     *)
LEMMA UpdateKeepsAlone ==
  ASSUME LocksInv, WireInv, JobsInv, DataInv, AloneInv,
         NEW t \in Threads, Update(t), Local(t), JobsInv'
  PROVE  AloneInv'
<1>0. \A label : Goto(t, label) => pc'[t] = label
  BY DEF LocksInv, Goto
<1>1. CASE BeginUpdate(t)
  <2>1. /\ pc'[t] \notin Sends
        /\ UNCHANGED <<values, sendBuffer, recent, alone>>
    BY <1>0, <1>1 DEF BeginUpdate, Call, Sends
  <2> QED BY <2>1, AloneKept
<1>2. CASE UpdateWithoutTransceiver(t) \/ RecvNothing(t)
  <2>1. /\ pc'[t] \notin Sends
        /\ UNCHANGED <<values, sendBuffer, recent, alone>>
    BY <1>2, EndsFit DEF UpdateWithoutTransceiver, RecvNothing, Sends
  <2> QED BY <2>1, AloneKept
<1>3. CASE RecvBytes(t) \/ NoMessage(t) \/ LockToDeclare(t) \/ LockToStore(t)
             \/ CallbackReturns(t) \/ CallbackThrows(t)
  <2>1. /\ pc'[t] \notin Sends
        /\ UNCHANGED <<values, sendBuffer, recent, alone>>
    BY <1>0, <1>3 DEF RecvBytes, NoMessage, LockToDeclare, LockToStore, CallbackReturns,
                      CallbackThrows, Sends
  <2> QED BY <2>1, AloneKept
<1>4. ASSUME NEW id, NEW msg, Message(t, id, msg) PROVE AloneInv'
  <2>1. /\ pc'[t] \notin Sends
        /\ UNCHANGED <<values, sendBuffer, recent, alone>>
    BY <1>0, <1>4 DEF Message, Sends
  <2> QED BY <2>1, AloneKept
<1>5. CASE DeclareField(t)
  <2> DEFINE new == [g \in {Head(todo[t])} |-> Empty]
  <2>1. pc'[t] \notin Sends /\ pc[t] = "declaring" /\ UNCHANGED sendBuffer
    BY <1>0, <1>5 DEF DeclareField, Sends
  <2>2. CASE UNCHANGED <<values, recent, alone>>
    BY <2>1, <2>2, AloneKept
  <2>3. CASE SetValues(WithFields(new))
    <3>1. DOMAIN WithFields(new) \subseteq Fields
      <4>1. DOMAIN new \subseteq Fields /\ \A g \in DOMAIN new : new[g] \in Data \cup {Empty}
        BY <2>1, NextField
      <4> HIDE DEF new
      <4> QED BY <4>1, MapWithFields
    <3>2. values' = WithFields(new) /\ alone' = alone
      BY <2>3 DEF SetValues
    <3> HIDE DEF new
    <3> QED BY <2>1, <2>3, <3>1, <3>2, AloneKept
  <2> QED BY <1>5, <2>2, <2>3 DEF DeclareField
<1>6. CASE StoreMessage(t)
  <2> DEFINE new == job[t].msg
  <2>1. /\ pc'[t] \notin Sends /\ pc[t] \in Stores /\ UNCHANGED sendBuffer
        /\ SetValues(WithFields(new))
    BY <1>0, <1>6 DEF StoreMessage, Sends, Stores
  <2>2. DOMAIN new \subseteq Fields /\ \A g \in DOMAIN new : new[g] \in Data
    BY <2>1, MessageIsData
  <2> HIDE DEF new
  <2>3. DOMAIN WithFields(new) \subseteq Fields
    BY <2>2, MapWithFields
  <2>4. values' = WithFields(new) /\ alone' = alone
    BY <2>1 DEF SetValues
  <2> QED BY <2>1, <2>3, <2>4, AloneKept
<1>7. CASE StoreFails(t)
  <2>1. /\ pc'[t] \notin Sends
        /\ values' = [f \in {} |-> Empty] /\ UNCHANGED <<sendBuffer, recent, alone>>
    BY <1>7, EndsFit DEF StoreFails, ThrowFatal, Sends
  <2> QED BY <2>1, AloneKept
<1> QED BY <1>1, <1>2, <1>3, <1>4, <1>5, <1>6, <1>7 DEF Update

(* A send that begins beside another is not alone, and the other is not    *)
(* any more; one that is alone gathers what the map holds.                 *)
LEMMA SendKeepsAlone ==
  ASSUME LocksInv, WireInv, JobsInv, DataInv, AloneInv,
         NEW t \in Threads, Send(t), Local(t), JobsInv'
  PROVE  AloneInv'
<1>0. \A label : Goto(t, label) => pc'[t] = label
  BY DEF LocksInv, Goto
<1>1. CASE SendUnknownFrame(t)
  <2>1. /\ pc'[t] \notin Sends
        /\ UNCHANGED <<values, sendBuffer, recent, alone>>
    BY <1>0, <1>1 DEF SendUnknownFrame, MaySend, CanCall, Sends
  <2> QED BY <2>1, AloneKept
<1>2. ASSUME NEW id \in DOMAIN Frames, BeginSend(t, id) PROVE AloneInv'
  <2> DEFINE args == [frame |-> id]
  <2>1. /\ Goto(t, "gather") /\ job' = [job EXCEPT ![t] = args] /\ args.frame = id
        /\ todo' = [todo EXCEPT ![t] = Frames[id]]
        /\ recent' = [f \in Fields |-> IF f \in DOMAIN values THEN {values[f]} ELSE {}]
        /\ alone' = IF \E o \in Threads \ {t} : Sending(o) THEN {} ELSE {t}
        /\ values' = values
    BY <1>2 DEF BeginSend, Call
  <2> HIDE DEF args
  <2>2. pc'[t] = "gather" /\ job'[t].frame = id /\ todo'[t] = Frames[id]
    BY <1>0, <2>1 DEF WireInv, JobsInv
  <2>3. ASSUME NEW u \in alone' PROVE u = t /\ \A o \in Threads \ {t} : ~Sending(o)'
    BY <2>1, <2>3 DEF Local, Sending
  <2>4. \A f \in DOMAIN values : values[f] \in recent'[f]
    BY <2>1 DEF DataInv
  <2>5. \A f \in FieldsOfFrame(id) : \E k \in 1..Len(todo'[t]) : todo'[t][k] = f
    BY <2>2, FrameFields
  <2>6. GatheredSo(t)'
    BY <2>1, <2>2, <2>4, <2>5 DEF GatheredSo, FieldsOfFrame
  <2> QED BY <2>1, <2>3, <2>6 DEF AloneInv
<1>3. CASE LockToGather(t)
  <2>1. /\ pc[t] \in Sends /\ job' = job /\ todo' = todo
        /\ UNCHANGED <<values, sendBuffer, recent, alone>>
    BY <1>3 DEF LockToGather, Sends
  <2> QED BY <2>1, AloneKept
<1>4. CASE GatherField(t)
  <2> DEFINE f == Head(todo[t])
  <2>1. /\ pc[t] = "gathering" /\ f \in DOMAIN values
        /\ sendBuffer' = [sendBuffer EXCEPT ![f] = values[f]]
        /\ todo' = [todo EXCEPT ![t] = Tail(todo[t])]
        /\ Goto(t, "gather")
        /\ UNCHANGED <<job, values, recent, alone>>
    BY <1>4 DEF GatherField, Held
  <2>2. pc'[t] = "gather" /\ todo'[t] = Tail(todo[t]) /\ Sending(t)
    BY <1>0, <2>1 DEF JobsInv, Sending
  <2>3. \A u \in alone : u = t /\ \A o \in Threads \ {u} : ~Sending(o)'
    <3> SUFFICES ASSUME NEW u \in alone
                 PROVE  u = t /\ \A o \in Threads \ {u} : ~Sending(o)'
      OBVIOUS
    <3>1. u = t /\ \A o \in Threads \ {t} : ~Sending(o)
      BY <2>2 DEF AloneInv
    <3> QED BY <3>1 DEF Local, Sending
  <2>4. ASSUME t \in alone PROVE GatheredSo(t)'
    <3>1. GatheredSo(t)
      BY <2>2, <2>4 DEF AloneInv
    <3>2. f \in Fields /\ sendBuffer'[f] \in recent[f]
      BY <2>1, <3>1, NextField DEF GatheredSo, DataInv
    <3>3. /\ job[t].frame \in DOMAIN Frames
          /\ todo[t] \in Seq(FieldsOfFrame(job[t].frame)) /\ todo[t] # <<>>
      BY <2>1 DEF JobsInv, JobFits, Stores, Sends
    <3>4. ASSUME NEW g \in FieldsOfFrame(job[t].frame)
          PROVE  sendBuffer'[g] \in recent[g]
                   \/ \E k \in 1..Len(todo'[t]) : todo'[t][k] = g
      <4>1. CASE g = f
        BY <3>2, <4>1
      <4>2. CASE g # f /\ sendBuffer[g] \in recent[g]
        BY <2>1, <4>2 DEF DataInv
      <4>3. CASE g # f /\ \E k \in 1..Len(todo[t]) : todo[t][k] = g
        <5>1. PICK k \in 1..Len(todo[t]) : todo[t][k] = g
          BY <4>3
        <5>2. k # 1
          BY <3>3, <4>3, <5>1
        <5>3. k - 1 \in 1..Len(Tail(todo[t])) /\ Tail(todo[t])[k - 1] = g
          BY <3>3, <5>1, <5>2
        <5> QED BY <2>2, <5>3
      <4> QED BY <3>1, <4>1, <4>2, <4>3 DEF GatheredSo
    <3>5. \A g \in DOMAIN values' : values'[g] \in recent'[g]
      BY <2>1, <3>1 DEF GatheredSo
    <3>6. job' = job /\ recent' = recent
      BY <2>1
    <3>7. \A g \in FieldsOfFrame(job'[t].frame) :
            sendBuffer'[g] \in recent'[g] \/ \E k \in 1..Len(todo'[t]) : todo'[t][k] = g
      BY <3>4, <3>6
    <3> QED BY <3>5, <3>7 DEF GatheredSo, FieldsOfFrame
  <2> QED BY <2>1, <2>3, <2>4 DEF AloneInv
<1>5. CASE FieldMissing(t) \/ Transmit(t)
  <2>1. /\ pc'[t] \notin Sends
        /\ UNCHANGED <<values, sendBuffer, recent, alone>>
    BY <1>5, EndsFit DEF FieldMissing, Transmit, Sends
  <2> QED BY <2>1, AloneKept
<1>6. CASE LockToTransmit(t)
  <2> DEFINE args == [frame |-> job[t].frame, transceiver |-> installed]
  <2>1. /\ pc[t] \in Sends /\ todo' = todo /\ job' = [job EXCEPT ![t] = args]
        /\ args.frame = job[t].frame
        /\ UNCHANGED <<values, sendBuffer, recent, alone>>
    BY <1>6 DEF LockToTransmit, Sends
  <2> HIDE DEF args
  <2>2. job'[t].frame = job[t].frame
    BY <2>1 DEF WireInv
  <2> QED BY <2>1, <2>2, AloneKept
<1> QED BY <1>1, <1>2, <1>3, <1>4, <1>5, <1>6 DEF Send

(* So is what setField() writes. *)
LEMMA AccessKeepsAlone ==
  ASSUME LocksInv, WireInv, JobsInv, DataInv, AloneInv,
         NEW t \in Threads, Access(t), Local(t)
  PROVE  AloneInv'
<1>0. \A label : Goto(t, label) => pc'[t] = label
  BY DEF LocksInv, Goto
<1>1. ASSUME NEW f, NEW d, BeginSetField(t, f, d) PROVE AloneInv'
  <2>1. pc'[t] \notin Sends /\ UNCHANGED <<values, sendBuffer, recent, alone>>
    BY <1>0, <1>1 DEF BeginSetField, Call, Sends
  <2> QED BY <2>1, AloneKept
<1>2. CASE SetField(t)
  <2> DEFINE new == [f \in {job[t].field} |-> job[t].data]
  <2>1. /\ pc'[t] \notin Sends /\ UNCHANGED sendBuffer
        /\ SetValues(WithFields(new))
    BY <1>2, EndsFit DEF SetField, Sends
  <2>2. DOMAIN new \subseteq Fields /\ \A f \in DOMAIN new : new[f] \in Data
    BY <1>2 DEF SetField, JobsInv, JobFits
  <2> HIDE DEF new
  <2>3. DOMAIN WithFields(new) \subseteq Fields
    BY <2>2, MapWithFields
  <2>4. values' = WithFields(new) /\ alone' = alone
    BY <2>1 DEF SetValues
  <2> QED BY <2>1, <2>3, <2>4, AloneKept
<1>3. CASE SetFieldFails(t)
  <2>1. /\ pc'[t] \notin Sends
        /\ values' = [f \in {} |-> Empty] /\ UNCHANGED <<sendBuffer, recent, alone>>
    BY <1>3, EndsFit DEF SetFieldFails, ThrowFatal, Sends
  <2> QED BY <2>1, AloneKept
<1>4. CASE BeginRead(t)
  <2>1. pc'[t] \notin Sends /\ UNCHANGED <<values, sendBuffer, recent, alone>>
    BY <1>0, <1>4 DEF BeginRead, Call, Sends
  <2> QED BY <2>1, AloneKept
<1>5. CASE Read(t)
  <2>1. pc'[t] \notin Sends /\ UNCHANGED <<values, sendBuffer, recent, alone>>
    BY <1>5, EndsFit DEF Read, Sends
  <2> QED BY <2>1, AloneKept
<1> QED BY <1>1, <1>2, <1>3, <1>4, <1>5 DEF Access

(* The operations on the transceiver disturb no send. *)
LEMMA ManageKeepsAlone ==
  ASSUME LocksInv, WireInv, JobsInv, DataInv, AloneInv,
         NEW t \in Threads, Manage(t), Local(t)
  PROVE  AloneInv'
<1>0. \A label : Goto(t, label) => pc'[t] = label
  BY DEF LocksInv, Goto
<1>1. CASE \/ \E x \in Transceivers : BeginSetTransceiver(t, x)
           \/ BeginResetTransceiver(t) \/ BeginHasTransceiver(t)
  <2>1. pc'[t] \notin Sends /\ UNCHANGED <<values, sendBuffer, recent, alone>>
    BY <1>0, <1>1
    DEF BeginSetTransceiver, BeginResetTransceiver, BeginHasTransceiver, Call, Sends
  <2> QED BY <2>1, AloneKept
<1>2. CASE InitSucceeds(t) \/ InitFails(t) \/ InitFailsFatally(t) \/ ResetTransceiver(t)
             \/ HasTransceiver(t)
  <2>1. pc'[t] \notin Sends /\ UNCHANGED <<values, sendBuffer, recent, alone>>
    BY <1>2, EndsFit DEF InitSucceeds, InitFails, InitFailsFatally, ThrowFatal,
                         ResetTransceiver, HasTransceiver, Sends
  <2> QED BY <2>1, AloneKept
<1> QED BY <1>1, <1>2 DEF Manage

(* Any step of a thread. *)
LEMMA StepKeepsAlone ==
  ASSUME LocksInv, WireInv, JobsInv, DataInv, AloneInv,
         NEW t \in Threads, Step(t), Local(t), JobsInv'
  PROVE  AloneInv'
BY UpdateKeepsAlone, SendKeepsAlone, AccessKeepsAlone, ManageKeepsAlone DEF Step

-----------------------------------------------------------------------------
(* The invariant, and what it says *)

FieldsInv ==
  /\ LocksInv /\ WireInv
  /\ JobsInv /\ DataInv /\ EmptyOnlyWhileStoring /\ AloneInv

(* At first there is no call, and the map is empty. *)
LEMMA FieldsInit == Init => FieldsInv
<1> SUFFICES ASSUME Init PROVE FieldsInv
  OBVIOUS
<1>1. LocksInv /\ WireInv
  BY InitLocks, InitWire
<1>2. JobsInv
  BY DEF Init, JobsInv, JobFits, Stores, Sends
<1>3. DataInv
  BY RolesAssumption DEF Init, DataInv
<1>4. EmptyOnlyWhileStoring /\ AloneInv
  BY DEF Init, EmptyOnlyWhileStoring, AloneInv
<1> QED BY <1>1, <1>2, <1>3, <1>4 DEF FieldsInv

(* A step of a thread, or none. *)
LEMMA FieldsStep == FieldsInv /\ [Next]_vars => FieldsInv'
<1> SUFFICES ASSUME FieldsInv, [Next]_vars PROVE FieldsInv'
  OBVIOUS
<1>0. LocksInv' /\ WireInv'
  BY LocksStep, WireStep DEF FieldsInv
<1>1. ASSUME NEW t \in Threads, Step(t) PROVE FieldsInv'
  <2>1. Local(t) /\ JobsInv'
    BY <1>1, StepKeepsJobs DEF FieldsInv
  <2>2. DataInv' /\ EmptyOnlyWhileStoring' /\ AloneInv'
    BY <1>1, <2>1, StepKeepsData, StepKeepsEmpty, StepKeepsAlone DEF FieldsInv
  <2> QED BY <1>0, <2>1, <2>2 DEF FieldsInv
<1>2. CASE UNCHANGED vars
  <2>0. /\ pc' = pc /\ after' = after /\ job' = job /\ todo' = todo
        /\ values' = values /\ recent' = recent /\ alone' = alone
        /\ sendBuffer' = sendBuffer
    BY <1>2 DEF vars, locals
  <2>1. JobsInv'
    <3>1. ASSUME NEW t \in Threads PROVE JobFits(t)'
      <4>1. JobFits(t)
        BY DEF FieldsInv, JobsInv
      <4> QED BY <2>0, <4>1 DEF JobFits, FieldsOfFrame
    <3> QED BY <2>0, <3>1 DEF FieldsInv, JobsInv
  <2>2. DataInv'
    BY <1>2 DEF vars, wire, FieldsInv, DataInv
  <2>3. EmptyOnlyWhileStoring'
    BY <2>0 DEF FieldsInv, EmptyOnlyWhileStoring
  <2>4. AloneInv'
    <3>1. \A t \in Threads : Sending(t)' <=> Sending(t)
      BY <2>0 DEF Sending
    <3>2. \A t \in Threads : GatheredSo(t) => GatheredSo(t)'
      BY <2>0 DEF GatheredSo, FieldsOfFrame
    <3> QED BY <2>0, <3>1, <3>2 DEF FieldsInv, AloneInv, DataInv
  <2> QED BY <1>0, <2>1, <2>2, <2>3, <2>4 DEF FieldsInv
<1> QED BY <1>1, <1>2 DEF Next, Rest

(* The conjunction of the invariants of this module and of ThreadProofs. *)
LEMMA FieldsInvariant == Spec => []FieldsInv
BY FieldsInit, FieldsStep, PTL DEF Spec

(* The processor's shared state and the threads' places keep their types,  *)
(* however many threads call what they may.                                *)
THEOREM ThreadsTypeCorrect == Spec => []TypeOK
<1>1. FieldsInv => TypeOK
  BY DEF FieldsInv, LocksInv, WireInv, DataInv, TypeOK, Statuses
<1> QED BY <1>1, FieldsInvariant, PTL

(* Whoever reads the map while update() works on it: a field without data  *)
(* is one of a message that update() is about to store, so no sequence of  *)
(* calls, exceptions and callbacks leaves an empty field behind.           *)
THEOREM EmptyFieldsCorrect == Spec => []EmptyOnlyWhileStoring
<1>1. FieldsInv => EmptyOnlyWhileStoring
  BY DEF FieldsInv
<1> QED BY <1>1, FieldsInvariant, PTL

(* Whatever other threads set and receive while send() gathers the fields, *)
(* each under the mutex of its own, a send that overlaps no other one      *)
(* transmits for every field something the map held since it began.        *)
THEOREM SentFieldsCorrect == Spec => []SentFieldsWereHeld
<1>1. FieldsInv => SentFieldsWereHeld
  <2> SUFFICES ASSUME FieldsInv, NEW t \in alone, pc[t] = "transmit",
                      NEW f \in FieldsOfFrame(job[t].frame)
               PROVE  sendBuffer[f] \in recent[f]
    BY DEF SentFieldsWereHeld
  <2>1. t \in Threads /\ Sending(t) /\ todo[t] = <<>>
    BY DEF FieldsInv, DataInv, Sending, JobsInv, JobFits
  <2>2. GatheredSo(t) /\ Len(todo[t]) = 0
    BY <2>1 DEF FieldsInv, AloneInv
  <2> QED BY <2>2 DEF GatheredSo
<1> QED BY <1>1, FieldsInvariant, PTL
=============================================================================
