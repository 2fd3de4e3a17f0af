---------------------------- MODULE ThreadProofs ----------------------------
(***************************************************************************)
(* Theorems about ProcessorThreads, for any threads, frames, transceivers  *)
(* and number of calls, with and without fatal errors, blocking receives   *)
(* and callbacks that use their processor.                                 *)
(***************************************************************************)
EXTENDS ThreadProperties, TLAPS

(* The places outside of every critical section. *)
Open == {"idle", "parse", "declare", "callback", "gather"}

(* LocksMatchSections is inductive with the types of what it speaks of. *)
LocksInv ==
  /\ pc \in [Threads -> Labels]
  /\ after \in [Threads -> {"idle", "callback"}]
  /\ holder \in [Locks -> Threads \cup {NoThread}]
  /\ LocksMatchSections

-----------------------------------------------------------------------------
(* The four ways of a step with the mutexes *)

(* A thread that locks a mutex enters a critical section of it. *)
LEMMA Enters ==
  ASSUME LocksInv, NEW t \in Threads, NEW l \in Locks, NEW label \in Section(l),
         pc[t] \in Open, Lock(t, l), Goto(t, label),
         after' \in [Threads -> {"idle", "callback"}], fatal' = fatal
  PROVE  LocksInv'
<1>1. label \in Labels
  BY DEF Labels, Section, Locks
<1>2. \A k \in Locks : label \in Section(k) => k = l
  BY DEF Section, Locks
<1>3. \A k \in Locks : pc[t] \notin Section(k)
  BY DEF Open, Section, Locks
<1>4. /\ pc' \in [Threads -> Labels]
      /\ pc'[t] = label /\ \A u \in Threads \ {t} : pc'[u] = pc[u]
  BY <1>1 DEF LocksInv, Goto
<1>5. /\ holder' \in [Locks -> Threads \cup {NoThread}]
      /\ holder'[l] = t /\ \A k \in Locks \ {l} : holder'[k] = holder[k]
  BY DEF LocksInv, Lock
<1>6. holder[l] = NoThread /\ NoThread \notin Threads
  BY RolesAssumption DEF Lock
<1>7. LocksMatchSections'
  <2> SUFFICES ASSUME NEW k \in Locks, NEW u \in Threads
               PROVE  /\ pc'[u] \in Section(k) => holder'[k] = u
                      /\ holder'[k] = u => pc'[u] \in Section(k) \/ u \in fatal
    BY DEF LocksMatchSections, Section
  <2>1. CASE k = l
    BY <2>1, <1>4, <1>5, <1>6 DEF LocksInv, LocksMatchSections
  <2>2. CASE k # l
    BY <2>2, <1>2, <1>3, <1>4, <1>5 DEF LocksInv, LocksMatchSections
  <2> QED BY <2>1, <2>2
<1> QED BY <1>4, <1>5, <1>7 DEF LocksInv

(* A thread that unlocks a mutex leaves a critical section of it. *)
LEMMA Leaves ==
  ASSUME LocksInv, NEW t \in Threads, NEW l \in Locks, NEW label \in Open,
         pc[t] \in Section(l), Unlock(t, l), Goto(t, label),
         after' \in [Threads -> {"idle", "callback"}], fatal' = fatal
  PROVE  LocksInv'
<1>1. label \in Labels /\ \A k \in Locks : label \notin Section(k)
  BY DEF Labels, Open, Section, Locks
<1>2. \A k \in Locks : pc[t] \in Section(k) => k = l
  BY DEF Section, Locks
<1>3. /\ pc' \in [Threads -> Labels]
      /\ pc'[t] = label /\ \A u \in Threads \ {t} : pc'[u] = pc[u]
  BY <1>1 DEF LocksInv, Goto
<1>4. /\ holder' \in [Locks -> Threads \cup {NoThread}]
      /\ holder'[l] = NoThread /\ \A k \in Locks \ {l} : holder'[k] = holder[k]
  BY DEF LocksInv, Unlock
<1>5. holder[l] = t /\ NoThread \notin Threads
  BY RolesAssumption DEF LocksInv, LocksMatchSections
<1>6. LocksMatchSections'
  <2> SUFFICES ASSUME NEW k \in Locks, NEW u \in Threads
               PROVE  /\ pc'[u] \in Section(k) => holder'[k] = u
                      /\ holder'[k] = u => pc'[u] \in Section(k) \/ u \in fatal
    BY DEF LocksMatchSections, Section
  <2>1. CASE k = l
    BY <2>1, <1>1, <1>3, <1>4, <1>5 DEF LocksInv, LocksMatchSections
  <2>2. CASE k # l
    BY <2>2, <1>1, <1>2, <1>3, <1>4 DEF LocksInv, LocksMatchSections
  <2> QED BY <2>1, <2>2
<1> QED BY <1>3, <1>4, <1>6 DEF LocksInv

(* A thread that is in no critical section goes where none is. *)
LEMMA Moves ==
  ASSUME LocksInv, NEW t \in Threads, NEW label \in Open,
         pc[t] \in Open, Goto(t, label), UNCHANGED holder,
         after' \in [Threads -> {"idle", "callback"}], fatal' = fatal
  PROVE  LocksInv'
<1>1. label \in Labels /\ \A k \in Locks : label \notin Section(k) /\ pc[t] \notin Section(k)
  BY DEF Labels, Open, Section, Locks
<1>2. /\ pc' \in [Threads -> Labels]
      /\ pc'[t] = label /\ \A u \in Threads \ {t} : pc'[u] = pc[u]
  BY <1>1 DEF LocksInv, Goto
<1>3. LocksMatchSections'
  BY <1>1, <1>2 DEF LocksInv, LocksMatchSections, Section
<1> QED BY <1>2, <1>3 DEF LocksInv

(* A fatal error: the thread leaves its critical section with the mutex. *)
LEMMA Fails ==
  ASSUME LocksInv, NEW t \in Threads, ThrowFatal(t)
  PROVE  LocksInv'
<1>1. PICK label \in {after[t], "idle"} : Goto(t, label)
  BY DEF ThrowFatal, Throw
<1>2. label \in Labels /\ \A k \in Locks : label \notin Section(k)
  BY <1>1 DEF LocksInv, Labels, Section, Locks
<1>3. /\ pc' \in [Threads -> Labels]
      /\ pc'[t] = label /\ \A u \in Threads \ {t} : pc'[u] = pc[u]
  BY <1>1, <1>2 DEF LocksInv, Goto
<1>4. after' = after /\ holder' = holder /\ fatal' = fatal \cup {t}
  BY DEF ThrowFatal, Throw
<1>5. LocksMatchSections'
  BY <1>2, <1>3, <1>4 DEF LocksInv, LocksMatchSections, Section
<1> QED BY <1>3, <1>4, <1>5 DEF LocksInv

(* A call that returns, and one that throws, end outside of every section. *)
LEMMA Ends ==
  ASSUME LocksInv, NEW t \in Threads, Return(t) \/ Throw(t)
  PROVE  /\ \E label \in Open : Goto(t, label)
         /\ after' \in [Threads -> {"idle", "callback"}]
<1>1. after[t] \in {"idle", "callback"}
  BY DEF LocksInv
<1>2. \E label \in Open : Goto(t, label)
  BY <1>1 DEF Return, Throw, Open
<1> QED BY <1>2 DEF Return, Throw, LocksInv

(* A call begins outside of every section, and goes on there or in the     *)
(* section of the mutex it locks.                                          *)
LEMMA Begins ==
  ASSUME LocksInv, NEW t \in Threads, NEW label, NEW args,
         pc[t] \in {"idle", "callback"}, Call(t, label, args)
  PROVE  /\ pc[t] \in Open
         /\ Goto(t, label)
         /\ after' \in [Threads -> {"idle", "callback"}]
BY DEF LocksInv, Call, Open

-----------------------------------------------------------------------------
(* Every step keeps LocksInv *)

(* update() holds the transceiver in recv() and the map while it declares  *)
(* and stores, and nothing in the callback.                                *)
LEMMA UpdateKeepsLocks ==
  ASSUME LocksInv, NEW t \in Threads, Update(t)
  PROVE  LocksInv'
<1> USE DEF Open, Section, Locks
<1>1. CASE BeginUpdate(t)
  <2>1. pc[t] \in Open /\ Goto(t, "recv") /\ after' \in [Threads -> {"idle", "callback"}]
    BY <1>1, Begins DEF BeginUpdate
  <2> QED BY <1>1, <2>1, Enters DEF BeginUpdate
<1>2. CASE UpdateWithoutTransceiver(t)
  BY <1>2, Ends, Leaves DEF UpdateWithoutTransceiver, PutBack
<1>3. CASE RecvBytes(t)
  BY <1>3, Leaves DEF RecvBytes, PutBack, LocksInv
<1>4. CASE RecvNothing(t)
  BY <1>4, Ends, Leaves DEF RecvNothing, PutBack
<1>5. CASE NoMessage(t)
  BY <1>5, Moves DEF NoMessage, LocksInv
<1>6. ASSUME NEW id, NEW msg, Message(t, id, msg) PROVE LocksInv'
  BY <1>6, Moves DEF Message, LocksInv
<1>7. CASE LockToDeclare(t)
  BY <1>7, Enters DEF LockToDeclare, LocksInv
<1>8. CASE DeclareField(t)
  BY <1>8, Leaves DEF DeclareField, LocksInv
<1>9. CASE LockToStore(t)
  BY <1>9, Enters DEF LockToStore, LocksInv
<1>10. CASE StoreMessage(t)
  BY <1>10, Leaves DEF StoreMessage, LocksInv
<1>11. CASE StoreFails(t)
  BY <1>11, Fails DEF StoreFails
<1>12. CASE CallbackReturns(t)
  BY <1>12, Moves DEF CallbackReturns, LocksInv
<1>13. CASE CallbackThrows(t)
  BY <1>13, Moves DEF CallbackThrows, LocksInv
<1> QED BY <1>1, <1>2, <1>3, <1>4, <1>5, <1>6, <1>7, <1>8, <1>9, <1>10, <1>11, <1>12, <1>13
        DEF Update

(* send() holds the map for a field at a time, then the transceiver. *)
LEMMA SendKeepsLocks ==
  ASSUME LocksInv, NEW t \in Threads, Send(t)
  PROVE  LocksInv'
<1> USE DEF Open, Section, Locks
<1>1. CASE SendUnknownFrame(t)
  <2>1. pc[t] \in {"idle", "callback"}
    BY <1>1 DEF SendUnknownFrame, MaySend, CanCall
  <2> QED BY <1>1, <2>1, Moves DEF SendUnknownFrame, LocksInv
<1>2. ASSUME NEW id, BeginSend(t, id) PROVE LocksInv'
  <2>1. pc[t] \in Open /\ Goto(t, "gather") /\ after' \in [Threads -> {"idle", "callback"}]
    BY <1>2, Begins DEF BeginSend, MaySend, CanCall
  <2> QED BY <1>2, <2>1, Moves DEF BeginSend
<1>3. CASE LockToGather(t)
  BY <1>3, Enters DEF LockToGather, LocksInv
<1>4. CASE GatherField(t)
  BY <1>4, Leaves DEF GatherField, LocksInv
<1>5. CASE FieldMissing(t)
  BY <1>5, Ends, Leaves DEF FieldMissing
<1>6. CASE LockToTransmit(t)
  BY <1>6, Enters DEF LockToTransmit, LocksInv
<1>7. CASE Transmit(t)
  BY <1>7, Ends, Leaves DEF Transmit, PutBack
<1> QED BY <1>1, <1>2, <1>3, <1>4, <1>5, <1>6, <1>7 DEF Send

(* setField(), getField() and hasDataForField() hold the map. *)
LEMMA AccessKeepsLocks ==
  ASSUME LocksInv, NEW t \in Threads, Access(t)
  PROVE  LocksInv'
<1> USE DEF Open, Section, Locks
<1>1. ASSUME NEW f, NEW d, BeginSetField(t, f, d) PROVE LocksInv'
  <2>1. pc[t] \in Open /\ Goto(t, "set") /\ after' \in [Threads -> {"idle", "callback"}]
    BY <1>1, Begins DEF BeginSetField, CanCall
  <2> QED BY <1>1, <2>1, Enters DEF BeginSetField
<1>2. CASE SetField(t)
  BY <1>2, Ends, Leaves DEF SetField
<1>3. CASE SetFieldFails(t)
  BY <1>3, Fails DEF SetFieldFails
<1>4. CASE BeginRead(t)
  <2>1. pc[t] \in Open /\ Goto(t, "read") /\ after' \in [Threads -> {"idle", "callback"}]
    BY <1>4, Begins DEF BeginRead, CanCall
  <2> QED BY <1>4, <2>1, Enters DEF BeginRead
<1>5. CASE Read(t)
  BY <1>5, Ends, Leaves DEF Read
<1> QED BY <1>1, <1>2, <1>3, <1>4, <1>5 DEF Access

(* setTransceiver(), resetTransceiver() and hasTransceiver() hold the      *)
(* transceiver, and give it back unless init() throws a fatal error.       *)
LEMMA ManageKeepsLocks ==
  ASSUME LocksInv, NEW t \in Threads, Manage(t)
  PROVE  LocksInv'
<1> USE DEF Open, Section, Locks
<1>1. ASSUME NEW x, BeginSetTransceiver(t, x) PROVE LocksInv'
  <2>1. pc[t] \in Open /\ Goto(t, "swap") /\ after' \in [Threads -> {"idle", "callback"}]
    BY <1>1, Begins DEF BeginSetTransceiver, CanCall
  <2> QED BY <1>1, <2>1, Enters DEF BeginSetTransceiver
<1>2. CASE InitSucceeds(t)
  BY <1>2, Ends, Leaves DEF InitSucceeds, PutBack
<1>3. CASE InitFails(t)
  BY <1>3, Ends, Leaves DEF InitFails, PutBack
<1>4. CASE InitFailsFatally(t)
  BY <1>4, Fails DEF InitFailsFatally
<1>5. CASE BeginResetTransceiver(t)
  <2>1. pc[t] \in Open /\ Goto(t, "reset") /\ after' \in [Threads -> {"idle", "callback"}]
    BY <1>5, Begins DEF BeginResetTransceiver, CanCall
  <2> QED BY <1>5, <2>1, Enters DEF BeginResetTransceiver
<1>6. CASE ResetTransceiver(t)
  BY <1>6, Ends, Leaves DEF ResetTransceiver, PutBack
<1>7. CASE BeginHasTransceiver(t)
  <2>1. pc[t] \in Open /\ Goto(t, "has") /\ after' \in [Threads -> {"idle", "callback"}]
    BY <1>7, Begins DEF BeginHasTransceiver, CanCall
  <2> QED BY <1>7, <2>1, Enters DEF BeginHasTransceiver
<1>8. CASE HasTransceiver(t)
  BY <1>8, Ends, Leaves DEF HasTransceiver, PutBack
<1> QED BY <1>1, <1>2, <1>3, <1>4, <1>5, <1>6, <1>7, <1>8 DEF Manage

(* A step of a thread, or none, keeps LocksInv. *)
LEMMA LocksStep == LocksInv /\ [Next]_vars => LocksInv'
<1> SUFFICES ASSUME LocksInv, [Next]_vars PROVE LocksInv'
  OBVIOUS
<1>1. ASSUME NEW t \in Threads, Step(t) PROVE LocksInv'
  BY <1>1, UpdateKeepsLocks, SendKeepsLocks, AccessKeepsLocks, ManageKeepsLocks DEF Step
<1>2. CASE UNCHANGED vars
  BY <1>2 DEF vars, locals, LocksInv, LocksMatchSections
<1> QED BY <1>1, <1>2 DEF Next, Rest

(* A new processor's mutexes are free. *)
LEMMA InitLocks == Init => LocksInv
BY RolesAssumption DEF Init, LocksInv, LocksMatchSections, Labels, Section, Locks

(* No thread is in a critical section without its mutex, or holds a mutex  *)
(* outside of one, whatever is thrown and called from callbacks: two       *)
(* threads are never in sections of the same resource, and a callback can  *)
(* use its processor.  Fatal errors are the only exception.                *)
THEOREM LocksCorrect == Spec => []LocksMatchSections
<1>1. LocksInv => LocksMatchSections
  BY DEF LocksInv
<1> QED BY <1>1, InitLocks, LocksStep, PTL DEF Spec

-----------------------------------------------------------------------------
(* The transceiver *)

Statuses == {"new", "open", "closed", "failed"}

(* TransceiverUsedWhileOpen with what makes it inductive: what a thread    *)
(* took out of the resource is still the installed transceiver, and what   *)
(* setTransceiver() is to install is still new.                            *)
WireInv ==
  /\ job = [t \in Threads |-> job[t]]
  /\ status \in [Transceivers -> Statuses]
  /\ installed \in Transceivers \cup {NoTransceiver}
  /\ \A x \in Transceivers : status[x] = "open" <=> installed = x
  /\ \A t \in Threads : pc[t] \in Section("transceiver") => Taken(t) = installed
  /\ \A t \in Threads :
       pc[t] = "swap" => job[t].new \in Transceivers /\ status[job[t].new] = "new"

(* A step of a thread that is then in no section of the transceiver, and   *)
(* leaves the transceivers alone.                                          *)
LEMMA WireKept ==
  ASSUME LocksInv, WireInv, NEW t \in Threads, NEW label, label \notin Section("transceiver"),
         Goto(t, label), job' = job \/ \E args : job' = [job EXCEPT ![t] = args],
         installed' = installed, status' = status
  PROVE  WireInv'
<1>1. pc'[t] = label /\ \A u \in Threads \ {t} : pc'[u] = pc[u]
  BY DEF LocksInv, Goto
<1>2. job' = [u \in Threads |-> job'[u]] /\ \A u \in Threads \ {t} : job'[u] = job[u]
  BY DEF WireInv
<1>3. label # "swap"
  BY DEF Section
<1> QED BY <1>1, <1>2, <1>3 DEF WireInv, Taken

(* A thread takes the transceiver, and may have one to install instead. *)
LEMMA WireTaken ==
  ASSUME LocksInv, WireInv, NEW t \in Threads, NEW label, NEW args,
         Goto(t, label), job' = [job EXCEPT ![t] = args],
         args.transceiver = installed,
         label = "swap" => args.new \in Transceivers /\ status[args.new] = "new",
         installed' = installed, status' = status
  PROVE  WireInv'
<1>1. pc'[t] = label /\ \A u \in Threads \ {t} : pc'[u] = pc[u]
  BY DEF LocksInv, Goto
<1>2. /\ job' = [u \in Threads |-> job'[u]]
      /\ job'[t] = args /\ \A u \in Threads \ {t} : job'[u] = job[u]
  BY DEF WireInv
<1> QED BY <1>1, <1>2 DEF WireInv, Taken

(* A thread leaves its section of the transceiver, having changed which is *)
(* installed: no other thread has hold of the old one.                     *)
LEMMA WireChanged ==
  ASSUME LocksInv, WireInv, NEW t \in Threads, NEW label, label \notin Section("transceiver"),
         pc[t] \in Section("transceiver"), Goto(t, label), job' = job,
         status' \in [Transceivers -> Statuses],
         installed' \in Transceivers \cup {NoTransceiver},
         \A x \in Transceivers : status'[x] = "open" <=> installed' = x
  PROVE  WireInv'
<1>1. pc'[t] = label /\ \A u \in Threads \ {t} : pc'[u] = pc[u]
  BY DEF LocksInv, Goto
<1>2. \A u \in Threads \ {t} : pc[u] \notin Section("transceiver")
  BY DEF LocksInv, LocksMatchSections, Locks
<1>3. \A u \in Threads : pc'[u] \notin Section("transceiver")
  BY <1>1, <1>2
<1>4. \A u \in Threads : pc'[u] # "swap"
  BY <1>3 DEF Section
<1>5. job' = [u \in Threads |-> job'[u]]
  BY DEF WireInv
<1> QED BY <1>3, <1>4, <1>5 DEF WireInv

(* Once the transceiver a thread took is deinited, none is open. *)
LEMMA NoneOpen ==
  ASSUME WireInv, NEW t \in Threads, pc[t] \in Section("transceiver")
  PROVE  /\ Deinited(t) \in [Transceivers -> Statuses \ {"open"}]
         /\ Taken(t) = installed
<1>1. Taken(t) = installed
  BY DEF WireInv
<1>2. \A x \in Transceivers :
        (IF x = Taken(t) THEN "closed" ELSE status[x]) \in Statuses \ {"open"}
  BY <1>1 DEF WireInv, Statuses
<1> QED BY <1>1, <1>2 DEF Deinited

(* Where a call ends when it returns or throws. *)
LEMMA EndsOutside ==
  ASSUME LocksInv, NEW t \in Threads, Return(t) \/ Throw(t)
  PROVE  /\ \E label : label \notin Section("transceiver") /\ Goto(t, label)
         /\ job' = job
<1>1. PICK label \in Open : Goto(t, label)
  BY Ends
<1>2. label \notin Section("transceiver")
  BY <1>1 DEF Open, Section
<1> QED BY <1>1, <1>2 DEF Return, Throw

(* update() gives back the transceiver it took. *)
LEMMA UpdateKeepsWire ==
  ASSUME LocksInv, WireInv, NEW t \in Threads, Update(t)
  PROVE  WireInv'
<1> USE DEF Section
<1>1. CASE BeginUpdate(t)
  <2> DEFINE args == [transceiver |-> installed]
  <2>1. args.transceiver = installed
    OBVIOUS
  <2>2. Goto(t, "recv") /\ job' = [job EXCEPT ![t] = args]
    BY <1>1 DEF BeginUpdate, Call
  <2>3. installed' = installed /\ status' = status
    BY <1>1 DEF BeginUpdate, wire
  <2> HIDE DEF args
  <2> QED BY <2>1, <2>2, <2>3, WireTaken
<1>2. CASE UpdateWithoutTransceiver(t)
  BY <1>2, NoneOpen, EndsOutside, WireKept DEF UpdateWithoutTransceiver, PutBack
<1>3. CASE RecvBytes(t)
  BY <1>3, NoneOpen, WireKept DEF RecvBytes, PutBack
<1>4. CASE RecvNothing(t)
  BY <1>4, NoneOpen, EndsOutside, WireKept DEF RecvNothing, PutBack
<1>5. CASE NoMessage(t)
  BY <1>5, WireKept DEF NoMessage, wire
<1>6. ASSUME NEW id, NEW msg, Message(t, id, msg) PROVE WireInv'
  BY <1>6, WireKept DEF Message, wire
<1>7. CASE LockToDeclare(t)
  BY <1>7, WireKept DEF LockToDeclare, wire
<1>8. CASE DeclareField(t)
  BY <1>8, WireKept DEF DeclareField, wire
<1>9. CASE LockToStore(t)
  BY <1>9, WireKept DEF LockToStore, wire
<1>10. CASE StoreMessage(t)
  BY <1>10, WireKept DEF StoreMessage, wire
<1>11. CASE StoreFails(t)
  BY <1>11, EndsOutside, WireKept DEF StoreFails, ThrowFatal, wire
<1>12. CASE CallbackReturns(t)
  BY <1>12, WireKept DEF CallbackReturns, wire
<1>13. CASE CallbackThrows(t)
  BY <1>13, WireKept DEF CallbackThrows, wire
<1> QED BY <1>1, <1>2, <1>3, <1>4, <1>5, <1>6, <1>7, <1>8, <1>9, <1>10, <1>11, <1>12, <1>13
        DEF Update

(* So does send(). *)
LEMMA SendKeepsWire ==
  ASSUME LocksInv, WireInv, NEW t \in Threads, Send(t)
  PROVE  WireInv'
<1> USE DEF Section
<1>1. CASE SendUnknownFrame(t)
  <2>1. pc[t] \in {"idle", "callback"}
    BY <1>1 DEF SendUnknownFrame, MaySend, CanCall
  <2> QED BY <1>1, <2>1, WireKept DEF SendUnknownFrame, wire
<1>2. ASSUME NEW id, BeginSend(t, id) PROVE WireInv'
  BY <1>2, WireKept DEF BeginSend, Call, wire
<1>3. CASE LockToGather(t)
  BY <1>3, WireKept DEF LockToGather, wire
<1>4. CASE GatherField(t)
  BY <1>4, WireKept DEF GatherField, wire
<1>5. CASE FieldMissing(t)
  BY <1>5, EndsOutside, WireKept DEF FieldMissing, wire
<1>6. CASE LockToTransmit(t)
  <2> DEFINE args == [frame |-> job[t].frame, transceiver |-> installed]
  <2>1. args.transceiver = installed
    OBVIOUS
  <2>2. Goto(t, "transmit") /\ job' = [job EXCEPT ![t] = args]
    BY <1>6 DEF LockToTransmit
  <2>3. installed' = installed /\ status' = status
    BY <1>6 DEF LockToTransmit, wire
  <2> HIDE DEF args
  <2> QED BY <2>1, <2>2, <2>3, WireTaken
<1>7. CASE Transmit(t)
  BY <1>7, NoneOpen, EndsOutside, WireKept DEF Transmit, PutBack
<1> QED BY <1>1, <1>2, <1>3, <1>4, <1>5, <1>6, <1>7 DEF Send

(* The operations on fields have nothing to do with it. *)
LEMMA AccessKeepsWire ==
  ASSUME LocksInv, WireInv, NEW t \in Threads, Access(t)
  PROVE  WireInv'
<1> USE DEF Section
<1>1. ASSUME NEW f, NEW d, BeginSetField(t, f, d) PROVE WireInv'
  BY <1>1, WireKept DEF BeginSetField, Call, wire
<1>2. CASE SetField(t)
  BY <1>2, EndsOutside, WireKept DEF SetField, wire
<1>3. CASE SetFieldFails(t)
  BY <1>3, EndsOutside, WireKept DEF SetFieldFails, ThrowFatal, wire
<1>4. CASE BeginRead(t)
  BY <1>4, WireKept DEF BeginRead, Call, wire
<1>5. CASE Read(t)
  BY <1>5, EndsOutside, WireKept DEF Read, wire
<1> QED BY <1>1, <1>2, <1>3, <1>4, <1>5 DEF Access

(* setTransceiver() and resetTransceiver() deinit the old transceiver, and *)
(* what they install is open.                                              *)
LEMMA ManageKeepsWire ==
  ASSUME LocksInv, WireInv, NEW t \in Threads, Manage(t)
  PROVE  WireInv'
<1> USE DEF Section
<1>1. ASSUME NEW x \in Transceivers, BeginSetTransceiver(t, x) PROVE WireInv'
  <2> DEFINE args == [transceiver |-> installed, new |-> x]
  <2>1. args.transceiver = installed /\ args.new = x
    OBVIOUS
  <2>2. Goto(t, "swap") /\ job' = [job EXCEPT ![t] = args]
    BY <1>1 DEF BeginSetTransceiver, Call
  <2>3. installed' = installed /\ status' = status /\ status[x] = "new"
    BY <1>1 DEF BeginSetTransceiver, wire
  <2> HIDE DEF args
  <2> QED BY <2>1, <2>2, <2>3, WireTaken
<1>2. CASE InitSucceeds(t)
  <2>1. pc[t] = "swap" /\ job[t].new \in Transceivers
    BY <1>2 DEF InitSucceeds, WireInv
  <2>2. Deinited(t) \in [Transceivers -> Statuses \ {"open"}]
    BY <2>1, NoneOpen
  <2>3. /\ status' \in [Transceivers -> Statuses]
        /\ installed' = job[t].new
        /\ \A x \in Transceivers : status'[x] = "open" <=> installed' = x
    BY <1>2, <2>1, <2>2 DEF InitSucceeds, PutBack, Statuses
  <2> QED BY <1>2, <2>1, <2>3, EndsOutside, WireChanged DEF InitSucceeds
<1>3. CASE InitFails(t) \/ InitFailsFatally(t)
  <2>1. pc[t] = "swap" /\ job[t].new \in Transceivers
    BY <1>3 DEF InitFails, InitFailsFatally, WireInv
  <2>2. Deinited(t) \in [Transceivers -> Statuses \ {"open"}]
    BY <2>1, NoneOpen
  <2>3. /\ status' \in [Transceivers -> Statuses]
        /\ installed' = NoTransceiver
        /\ \A x \in Transceivers : status'[x] # "open" /\ installed' # x
    BY <1>3, <2>1, <2>2, RolesAssumption DEF InitFails, InitFailsFatally, PutBack, Statuses
  <2>4. Return(t) \/ Throw(t)
    BY <1>3 DEF InitFails, InitFailsFatally, ThrowFatal
  <2> QED BY <2>1, <2>3, <2>4, EndsOutside, WireChanged
<1>4. CASE BeginResetTransceiver(t)
  <2> DEFINE args == [transceiver |-> installed]
  <2>1. args.transceiver = installed
    OBVIOUS
  <2>2. Goto(t, "reset") /\ job' = [job EXCEPT ![t] = args]
    BY <1>4 DEF BeginResetTransceiver, Call
  <2>3. installed' = installed /\ status' = status
    BY <1>4 DEF BeginResetTransceiver, wire
  <2> HIDE DEF args
  <2> QED BY <2>1, <2>2, <2>3, WireTaken
<1>5. CASE ResetTransceiver(t)
  <2>1. pc[t] = "reset"
    BY <1>5 DEF ResetTransceiver
  <2>2. Deinited(t) \in [Transceivers -> Statuses \ {"open"}]
    BY <2>1, NoneOpen
  <2>3. /\ status' \in [Transceivers -> Statuses]
        /\ installed' = NoTransceiver
        /\ \A x \in Transceivers : status'[x] # "open" /\ installed' # x
    BY <1>5, <2>2, RolesAssumption DEF ResetTransceiver, PutBack
  <2> QED BY <1>5, <2>1, <2>3, EndsOutside, WireChanged DEF ResetTransceiver
<1>6. CASE BeginHasTransceiver(t)
  <2> DEFINE args == [transceiver |-> installed]
  <2>1. args.transceiver = installed
    OBVIOUS
  <2>2. Goto(t, "has") /\ job' = [job EXCEPT ![t] = args]
    BY <1>6 DEF BeginHasTransceiver, Call
  <2>3. installed' = installed /\ status' = status
    BY <1>6 DEF BeginHasTransceiver, wire
  <2> HIDE DEF args
  <2> QED BY <2>1, <2>2, <2>3, WireTaken
<1>7. CASE HasTransceiver(t)
  BY <1>7, NoneOpen, EndsOutside, WireKept DEF HasTransceiver, PutBack
<1> QED BY <1>1, <1>2, <1>3, <1>4, <1>5, <1>6, <1>7 DEF Manage

(* A step of a thread, or none, keeps WireInv. *)
LEMMA WireStep == LocksInv /\ WireInv /\ [Next]_vars => WireInv'
<1> SUFFICES ASSUME LocksInv, WireInv, [Next]_vars PROVE WireInv'
  OBVIOUS
<1>1. ASSUME NEW t \in Threads, Step(t) PROVE WireInv'
  BY <1>1, UpdateKeepsWire, SendKeepsWire, AccessKeepsWire, ManageKeepsWire DEF Step
<1>2. CASE UNCHANGED vars
  BY <1>2 DEF vars, locals, wire, WireInv, Taken
<1> QED BY <1>1, <1>2 DEF Next, Rest

(* The transceiver a processor is constructed with is open. *)
LEMMA InitWire == Init => WireInv
BY RolesAssumption DEF Init, WireInv, Statuses, Section

(* recv() and send() are called of open transceivers only, and the open    *)
(* transceiver is always the installed one, though any number of threads   *)
(* set and reset it while others update and send.                          *)
THEOREM TransceiverCorrect == Spec => []TransceiverUsedWhileOpen
<1>1. WireInv => TransceiverUsedWhileOpen
  BY DEF WireInv, TransceiverUsedWhileOpen, Section, Taken
<1> QED BY <1>1, InitLocks, LocksStep, InitWire, WireStep, PTL DEF Spec
=============================================================================
