------------------------ MODULE LifecycleProperties ------------------------
(***************************************************************************)
(* The correctness properties of TransceiverLifecycle and SerlibNode.      *)
(***************************************************************************)
EXTENDS SerlibNode

Owners == Objects \cup {Foreign.by, Free.by}

(* The type invariant of the processes' files and the node's state. *)
TypeOK ==
  /\ present \subseteq Objects
  /\ \A p \in Processes :
       /\ DOMAIN tables[p] = Fds
       /\ \A fd \in Fds : tables[p][fd].by \in Owners
       /\ \A o \in Objects :
            /\ members[p][o].up \in BOOLEAN
            /\ members[p][o].slots \in [Slots(KindOf[o]) -> Fds \cup {NoFd}]
            /\ members[p][o].up => NoFd \notin {members[p][o].slots[s] : s \in Slots(KindOf[o])}
            /\ members[p][o].stale \subseteq Slots(KindOf[o])
       /\ foreign[p] \subseteq Fds /\ robbed[p] \subseteq Fds
  /\ {forked, processor, locked} \subseteq BOOLEAN
  /\ calls \in 0..MaxCalls /\ failures \in Nat
  /\ {slot, made} \subseteq present \cup {NoObject}
  /\ node \in {"idle", "check", "make", "recheck", "install", "process",
               "crashed", "exited", "hung"}

(* An initialized transceiver reads and writes the file it opened itself,  *)
(* or the end of the pair it was given, never another file that has taken  *)
(* its number meanwhile: whatever other files are opened and closed, and   *)
(* however often init() fails and is tried again.  A socket pair is the    *)
(* exception: it keeps numbers that it has closed (LinuxSocketpair-        *)
(* Transceiver.cpp:51), and takes the files of others with them.           *)
UsesOwnFiles ==
  \A p \in Processes, o \in present :
    members[p][o].up /\ Uses(p, o) /\ Running =>
      \A s \in DOMAIN members[p][o].slots :
        \/ tables[p][members[p][o].slots[s]] = FileOf(o, s)
        \/ s = "child" /\ s \in members[p][o].stale
        \/ members[p][o].slots[s] \in robbed[p]

(* No transceiver closes a file that is not its own, and no file of the    *)
(* rest of the program is closed under it, unless the program has a socket *)
(* pair.                                                                   *)
OnlyPairsRob ==
  /\ \A p \in Processes : \A fd \in foreign[p] :
       tables[p][fd] = Foreign \/ fd \in robbed[p]
  /\ (\A o \in present : KindOf[o] \notin {"pair", "child"}) =>
       \A p \in Processes : robbed[p] = {}

(* Descriptors that no initialized object of the process holds. *)
Orphans ==
  {fd \in Fds :
     /\ tables["parent"][fd].by \in Objects
     /\ ~\E o \in present : members["parent"][o].up
                              /\ fd \in Numbers(members["parent"][o], DOMAIN members["parent"][o].slots)}

(* Only init() calls and constructors that fail leak descriptors, each no  *)
(* more than the transceiver opens: a program whose calls succeed can init *)
(* and deinit, set and reset transceivers for ever.                        *)
LeaksBoundedByFailures == Cardinality(Orphans) <= failures

(* The node's program has a transceiver open if and only if it is the      *)
(* processor's: of the node and the threads that set transceivers at the   *)
(* same time, one prevails, and the others' transceivers are closed.       *)
OpenIffInstalled ==
  transport # "none" /\ Running =>
    \A o \in present : members["parent"][o].up <=> slot = o

(* In the end the node's processor has a transceiver, whatever is reset    *)
(* and replaced meanwhile, unless a fatal error or an exception has ended  *)
(* the program or left the processor locked.                               *)
NodeConnects ==
  <>[](\/ transport \in {"none", "unknown"} \/ ~Running \/ locked
       \/ processor /\ slot # NoObject)
=============================================================================
