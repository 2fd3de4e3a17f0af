----------------------------- MODULE SerlibNode -----------------------------
(***************************************************************************)
(* SerlibRosNode, and the SerialProcessor it updates as the owner of a     *)
(* transceiver: the node gives a processor without transceiver a new one,  *)
(* while another thread sets and resets the processor's transceiver, and   *)
(* the node's owner replaces the processor.  What a transceiver does with  *)
(* files is taken from TransceiverLifecycle; a program without a node is   *)
(* one of that module.                                                     *)
(*                                                                         *)
(* An operation of the processor is one step: it holds the mutex of the    *)
(* transceiver all along.                                                  *)
(***************************************************************************)
EXTENDS TransceiverLifecycle

CONSTANT NodeObjects   \* the objects a node's program has, by transport

NoObject == "no object"

Transports == DOMAIN NodeObjects   \* the parameter "transceiver"

(* There are objects to make whichever are in use. *)
ASSUME NodeAssumption ==
  /\ NoObject \notin Objects
  /\ \A t \in Transports : NodeObjects[t] \subseteq Objects
  /\ \A t \in Transports \cap {"serial", "ros"} :
       \E o, other \in NodeObjects[t] : o # other /\ {KindOf[o], KindOf[other]} = {t}

VARIABLES
  transport,   \* the parameter, or "none" without a node
  node,        \* where update() is: "idle" outside of it
  processor,   \* does the node have a processor?
  slot,        \* the object in the processor's transceiverResource
  made,        \* the object that _addTransceiver() has made
  locked       \* did a fatal error leave the processor's mutex locked?

nodeVars == <<transport, node, processor, slot, made, locked>>
vars == <<lifecycleVars, nodeVars>>

Init ==
  /\ LifecycleInit
  /\ transport \in Transports \cup {"none"}
  /\ IF transport = "none" THEN present \in Programs ELSE present = NodeObjects[transport]
  /\ node = "idle" /\ processor = FALSE
  /\ slot = NoObject /\ made = NoObject /\ locked = FALSE

table  == tables["parent"]
member == members["parent"]

Running == node \notin {"crashed", "exited", "hung"}

(* make_unique: an object that is not in use. *)
InUse == {slot, made}

Fresh(kind) == CHOOSE o \in present : KindOf[o] = kind /\ o \notin InUse

Known == transport \in {"serial", "ros"}   \* "ser" and "ros"

-----------------------------------------------------------------------------
(* The processor *)

(* The table without the files of the object in the slot, and the members  *)
(* of that object: what deinit() of the current transceiver leaves.        *)
SlotFds == IF slot = NoObject THEN {} ELSE ToClose(slot, member[slot])

SlotDeinited_Mutant == member   \* it is dropped without deinit()

SlotDeinited == [o \in Objects |-> IF o = slot THEN Deinited(member[o]) ELSE member[o]]

RobbedBySlot ==
  robbed' = [robbed EXCEPT !["parent"] =
               @ \cup (IF slot = NoObject THEN {} ELSE NotOwn(slot, table, SlotFds))]

Count(result, o) == failures' = IF result = "true" THEN failures ELSE failures + MayLeave(o)

TableForInit_Mutant == table   \* the old transceiver is not deinited

TableForInit == Closed(table, SlotFds)

(* setTransceiver(): the old one is deinited, the new one inited, and kept *)
(* if that succeeds.  A fatal error leaves the mutex locked.               *)
SetTransceiver(o, result) ==
  /\ ~locked
  /\ \E x \in InitOutcomes(o, Constructed(o), TableForInit) :
       /\ x.result = result
       /\ tables' = [tables EXCEPT !["parent"] = x.table]
       /\ members' = [members EXCEPT !["parent"] = [SlotDeinited EXCEPT ![o] = x.m]]
  /\ RobbedBySlot
  /\ slot' = IF result = "true" THEN o ELSE NoObject
  /\ locked' = (result = "fatal")
  /\ Count(result, o)

(* resetTransceiver() *)
ResetTransceiver ==
  /\ ~locked
  /\ tables' = [tables EXCEPT !["parent"] = Closed(@, SlotFds)]
  /\ members' = [members EXCEPT !["parent"] = SlotDeinited]
  /\ RobbedBySlot
  /\ slot' = NoObject

Unchanged == UNCHANGED <<present, foreign, forked, transport>>

-----------------------------------------------------------------------------
(* update() of the node *)

Goto(from, to) == node = from /\ node' = to

(* A null processor is reported, and used: the program crashes. *)
BeginUpdate ==
  /\ node = "idle"
  /\ node' = IF processor THEN "check" ELSE "crashed"
  /\ UNCHANGED <<lifecycleVars, transport, processor, slot, made, locked>>

HasTransceiver_Mutant ==   \* the processor is not asked
  /\ ~locked
  /\ Goto("check", "process")
  /\ UNCHANGED <<lifecycleVars, transport, processor, slot, made, locked>>

HasTransceiver ==
  /\ ~locked
  /\ Goto("check", IF slot = NoObject THEN "make" ELSE "process")
  /\ UNCHANGED <<lifecycleVars, transport, processor, slot, made, locked>>

(* processor->update(), the subject of MessageBuffer *)
Process ==
  /\ ~locked
  /\ Goto("process", "idle")
  /\ UNCHANGED <<lifecycleVars, transport, processor, slot, made, locked>>

(* _addTransceiver() makes a transceiver of the type the parameter names. *)
Make ==
  /\ Known
  /\ Goto("make", "recheck")
  /\ made' = Fresh(transport)
  /\ UNCHANGED <<lifecycleVars, transport, processor, slot, locked>>

(* The type is unknown: a runtime_error, which the node does not catch. It *)
(* ends the program if the caller of update() does not catch it either.    *)
UnknownType ==
  /\ ~Known
  /\ Goto("make", "idle") \/ Goto("make", "exited")
  /\ UNCHANGED <<lifecycleVars, transport, processor, slot, made, locked>>

(* Another thread has set a transceiver: the one that was made is dropped. *)
Recheck ==
  /\ ~locked
  /\ Goto("recheck", IF slot = NoObject THEN "install" ELSE "idle")
  /\ made' = IF slot = NoObject THEN made ELSE NoObject
  /\ UNCHANGED <<lifecycleVars, transport, processor, slot, locked>>

(* A fatal error ends the program: exit(1). *)
Install ==
  /\ \E result \in {"true", "false", "fatal"} :
       /\ Goto("install", IF result = "fatal" THEN "exited" ELSE "idle")
       /\ SetTransceiver(made, result)
  /\ made' = NoObject
  /\ Unchanged
  /\ UNCHANGED <<calls, processor>>

Update ==
  \/ BeginUpdate \/ HasTransceiver \/ Process \/ Make \/ UnknownType \/ Recheck
  \/ Install

-----------------------------------------------------------------------------
(* The owner of the node and the processor, and another thread *)

MayCall == transport # "none" /\ Running /\ calls > 0 /\ calls' = calls - 1

FreshKinds == {k \in Kinds : \E o \in present : KindOf[o] = k /\ o \notin InUse}

OtherSets ==
  /\ MayCall /\ processor
  /\ \E kind \in FreshKinds, result \in {"true", "false", "nonfatal", "fatal"} :
       SetTransceiver(Fresh(kind), result)
  /\ Unchanged
  /\ UNCHANGED <<node, processor, made>>

OtherResets ==
  /\ MayCall /\ processor
  /\ ResetTransceiver
  /\ Unchanged
  /\ UNCHANGED <<node, processor, made, locked, failures>>

(* A processor without a transceiver is constructed and given to the node, *)
(* between two updates.  The processor the node had is destroyed: it       *)
(* deinits its transceiver, or waits for ever for a mutex that is locked.  *)
Replaced ==
  /\ node = "idle"
  /\ node' = IF processor /\ locked THEN "hung" ELSE "idle"
  /\ processor' = TRUE
  /\ locked' = FALSE
  /\ RobbedBySlot
  /\ UNCHANGED made

NewProcessor ==
  /\ MayCall
  /\ Replaced
  /\ tables' = [tables EXCEPT !["parent"] = Closed(@, SlotFds)]
  /\ members' = [members EXCEPT !["parent"] = SlotDeinited]
  /\ slot' = NoObject
  /\ Unchanged
  /\ UNCHANGED failures

(* The same with a transceiver: the constructor inits it before it looks   *)
(* at the frames.                                                          *)
NewProcessorWith(o) ==
  /\ MayCall
  /\ Replaced
  /\ \E x \in InitOutcomes(o, Constructed(o), table) :
       /\ x.result = "true"
       /\ tables' = [tables EXCEPT !["parent"] = Closed(x.table, SlotFds)]
       /\ members' = [members EXCEPT !["parent"] = [SlotDeinited EXCEPT ![o] = x.m]]
  /\ slot' = o
  /\ Unchanged
  /\ UNCHANGED failures

(* The constructor throws, for a transceiver that fails or, when it is     *)
(* inited already, for a frame: the transceiver is dropped as it is.       *)
ConstructorThrows(o) ==
  /\ MayCall
  /\ node = "idle"
  /\ \E x \in InitOutcomes(o, Constructed(o), table) :
       tables' = [tables EXCEPT !["parent"] = x.table]
  /\ failures' = failures + MayLeave(o)
  /\ Unchanged
  /\ UNCHANGED <<members, robbed, node, processor, slot, made, locked>>

Others ==
  \/ OtherSets \/ OtherResets \/ NewProcessor
  \/ \E kind \in FreshKinds : NewProcessorWith(Fresh(kind)) \/ ConstructorThrows(Fresh(kind))

-----------------------------------------------------------------------------
WithoutNode == transport = "none" /\ Lifecycle /\ UNCHANGED nodeVars

WithNode ==
  /\ transport # "none"
  /\ \/ Update
     \/ Others
     \/ Running /\ (OpenForeign("parent") \/ CloseForeign("parent")) /\ UNCHANGED nodeVars

Next == WithoutNode \/ WithNode

Spec == Init /\ [][Next]_vars

(* A timer calls update() of the node for as long as the program runs.     *)
FairSpec == Spec /\ WF_vars(transport # "none" /\ Update)
=============================================================================
