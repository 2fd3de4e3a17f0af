-------------------------- MODULE LifecycleProofs --------------------------
(***************************************************************************)
(* Theorems about the files of TransceiverLifecycle and SerlibNode: which  *)
(* file a transceiver uses, whose files it closes, which it leaves open,   *)
(* and whether the node's transceiver is the open one, for any objects,    *)
(* programs, descriptors and number of calls.                              *)
(***************************************************************************)
EXTENDS LifecycleProperties, FiniteSetTheorems, WellFoundedInduction, TLAPS

(* A table of open files, and the members of an object. *)
IsTable(t) ==
  /\ t = [fd \in Fds |-> t[fd]]
  /\ \A fd \in Fds : t[fd].by \in Owners

Members(o) ==
  [up : BOOLEAN, slots : [Slots(KindOf[o]) -> Fds \cup {NoFd}], stale : SUBSET Slots(KindOf[o])]

(* Every slot has a descriptor of its own. *)
Complete(o, m) ==
  /\ \A s \in Slots(KindOf[o]) : m.slots[s] \in Fds
  /\ \A s, other \in Slots(KindOf[o]) : m.slots[s] = m.slots[other] => s = other

(* The slots stand for the object's own files, unless it has closed them   *)
(* itself, or was robbed of them.                                          *)
Owns(o, m, t, r) ==
  \A s \in Slots(KindOf[o]) :
    /\ m.slots[s] \in Fds
    /\ \/ t[m.slots[s]] = FileOf(o, s)
       \/ s = "child" /\ s \in m.stale
       \/ m.slots[s] \in r

(* A process with the table t, the members ms, the descriptors f of the    *)
(* rest of the program and the robbed descriptors r: what is initialized,  *)
(* and the end that the child process was given, owns its files.           *)
Sound(p, t, ms, f, r) ==
  /\ IsTable(t) /\ f \subseteq Fds /\ r \subseteq Fds
  /\ ms = [o \in Objects |-> ms[o]]
  /\ \A o \in Objects : ms[o] \in Members(o) /\ (ms[o].up => Complete(o, ms[o]))
  /\ \A o \in present : Uses(p, o) /\ (ms[o].up \/ KindOf[o] = "child") => Owns(o, ms[o], t, r)
  /\ \A fd \in f : t[fd] = Foreign \/ fd \in r

(* As long as the program has not forked, no descriptor is closed under    *)
(* its owner.                                                              *)
Calm(ms, r) == r = {} /\ \A o \in Objects : ms[o].up => ms[o].stale = {}

ProcessesInv ==
  /\ tables = [p \in Processes |-> tables[p]] /\ foreign = [p \in Processes |-> foreign[p]]
  /\ robbed = [p \in Processes |-> robbed[p]] /\ members = [p \in Processes |-> members[p]]
  /\ \A p \in Processes : Sound(p, tables[p], members[p], foreign[p], robbed[p])
  /\ present \subseteq Objects
  /\ forked \in BOOLEAN /\ calls \in 0..MaxCalls /\ failures \in Nat

ForkInv ==
  /\ \A o \in Objects : KindOf[o] = "child" => ~members["parent"][o].up
  /\ forked => \E o \in present : KindOf[o] = "pair"
  /\ ~forked => Calm(members["parent"], robbed["parent"]) /\ robbed["child"] = {}

(* The object in the slot is the one that is initialized, and the one that *)
(* update() of the node has made is another.                               *)
NodeInv ==
  /\ transport \in Transports \cup {"none"}
  /\ {processor, locked} \subseteq BOOLEAN
  /\ {slot, made} \subseteq present \cup {NoObject}
  /\ node \in {"idle", "check", "make", "recheck", "install", "process",
               "crashed", "exited", "hung"}
  /\ transport # "none" => /\ present = NodeObjects[transport] /\ ~forked
                           /\ \A o \in present : members["parent"][o].up <=> slot = o
  /\ made # NoObject <=> node \in {"recheck", "install"}
  /\ made = slot => made = NoObject

FilesInv ==
  ProcessesInv /\ ForkInv /\ NodeInv /\ LeaksBoundedByFailures

-----------------------------------------------------------------------------
(* Descriptors *)

(* Of any descriptors one is the lowest. *)
LEMMA LeastDescriptor ==
  ASSUME NEW S \in SUBSET Fds, S # {}
  PROVE  \E fd \in S : \A other \in S : fd <= other
<1>1. S \subseteq Nat
  BY LifecycleAssumption DEF Fds
<1>2. PICK fd \in S : \A other \in S : <<other, fd>> \notin OpToRel(<, Nat)
  BY <1>1, NatLessThanWellFounded, WFMin
<1>3. \A other \in S : ~(other < fd)
  BY <1>1, <1>2 DEF OpToRel
<1> QED BY <1>1, <1>3

(* There are finitely many descriptors. *)
LEMMA FiniteFds == IsFiniteSet(Fds)
<1>1. MaxFds - 1 \in Int /\ 0 \in Int
  BY LifecycleAssumption
<1> QED BY <1>1, FS_Interval DEF Fds

(* The descriptor of a file that is opened was free. *)
LEMMA LowestIsFree ==
  ASSUME NEW t, IsTable(t), FreeFds(t) # {}
  PROVE  Lowest(t) \in Fds /\ t[Lowest(t)] = Free
<1>1. FreeFds(t) \subseteq Fds
  BY DEF FreeFds, IsTable
<1>2. \E fd \in FreeFds(t) : \A other \in FreeFds(t) : fd <= other
  BY <1>1, LeastDescriptor
<1>3. Lowest(t) \in FreeFds(t)
  BY <1>2 DEF Lowest
<1> QED BY <1>1, <1>3 DEF FreeFds

(* Opening a file takes the lowest free number and no other. *)
LEMMA OpenedTable ==
  ASSUME NEW t, IsTable(t), FreeFds(t) # {}, NEW file, file.by \in Owners
  PROVE  /\ IsTable(Opened(t, file))
         /\ Opened(t, file)[Lowest(t)] = file
         /\ \A fd \in Fds \ {Lowest(t)} : Opened(t, file)[fd] = t[fd]
BY LowestIsFree DEF IsTable, Opened

(* Closing frees the numbers that are closed and no others. *)
LEMMA ClosedTable ==
  ASSUME NEW t, IsTable(t), NEW fds
  PROVE  /\ IsTable(Closed(t, fds))
         /\ \A fd \in Fds : Closed(t, fds)[fd] = IF fd \in fds THEN Free ELSE t[fd]
BY DEF IsTable, Closed, Owners

-----------------------------------------------------------------------------
(* init(): the files it opens *)

(* The files that an object opens take the place of none. *)
Opens(o, t, new) ==
  /\ IsTable(new)
  /\ \A fd \in Fds : \/ new[fd] = t[fd]
                     \/ t[fd] = Free /\ \E s \in Slots(KindOf[o]) : new[fd] = FileOf(o, s)

Changed(t, new) == {fd \in Fds : new[fd] # t[fd]}

Steps == [onFailure : {"false", "nonfatal", "fatal"}, closes : BOOLEAN]

(* Every init() consists of at least one system call. *)
LEMMA StepsOfInit ==
  /\ SerialCalls \in Seq(Steps) /\ SerialCalls # <<>>
  /\ WindowsCalls \in Seq(Steps) /\ WindowsCalls # <<>>
  /\ \A skipBind, skipConnect \in BOOLEAN :
       UDPCalls(skipBind, skipConnect) \in Seq(Steps) /\ UDPCalls(skipBind, skipConnect) # <<>>
<1>1. SerialCalls \in Seq(Steps) /\ SerialCalls # <<>>
  BY DEF SerialCalls, Step, Steps
<1>2. WindowsCalls \in Seq(Steps) /\ WindowsCalls # <<>>
  BY DEF WindowsCalls, Step, Steps
<1>3. ASSUME NEW skipBind \in BOOLEAN, NEW skipConnect \in BOOLEAN
      PROVE  UDPCalls(skipBind, skipConnect) \in Seq(Steps)
               /\ UDPCalls(skipBind, skipConnect) # <<>>
  <2> DEFINE keeps   == Step("fatal", FALSE)
             closes  == Step("fatal", TRUE)
             refuses == Step("false", TRUE)
             first   == <<keeps, closes>>
             second  == IF skipBind THEN <<>> ELSE <<keeps>>
             third   == IF skipConnect THEN <<>> ELSE <<refuses, keeps>>
  <2>0. {keeps, closes, refuses} \subseteq Steps
    BY DEF Step, Steps
  <2>1. first \in Seq(Steps) /\ Len(first) = 2 /\ second \in Seq(Steps) /\ third \in Seq(Steps)
    <3> HIDE DEF keeps, closes, refuses
    <3> QED BY <2>0
  <2>2. UDPCalls(skipBind, skipConnect) = first \o second \o third
    BY DEF UDPCalls
  <2> HIDE DEF first, second, third
  <2> QED BY <2>1, <2>2
<1> QED BY <1>1, <1>2, <1>3

(* The files that a transceiver opens are its own. *)
LEMMA MakerOf ==
  ASSUME NEW o \in Objects, KindOf[o] # "child", NEW s
  PROVE  FileOf(o, s).by \in Owners /\ FileOf(o, s).by = o /\ FileOf(o, s).end = s
BY DEF FileOf, Maker, Owners

(* The file of a slot is opened, or nothing is. *)
LEMMA SetUpOutcomes ==
  ASSUME NEW o \in Objects, KindOf[o] # "child", NEW s \in Slots(KindOf[o]),
         NEW t, IsTable(t), NEW steps \in Seq(Steps), steps # <<>>,
         NEW x \in SetUp(t, FileOf(o, s), steps)
  PROVE  /\ Opens(o, t, x.table)
         /\ x.fd \in Fds \cup {NoFd}
         /\ Changed(t, x.table) \subseteq {x.fd}
         /\ x.result \in {"true", "false", "nonfatal", "fatal"}
         /\ x.result = "true" => /\ x.fd \in Fds /\ t[x.fd] = Free
                                 /\ x.table[x.fd] = FileOf(o, s)
<1> DEFINE file == FileOf(o, s)
           fd == Lowest(t)
<1>1. Opens(o, t, t) /\ Changed(t, t) = {}
  BY DEF Opens, Changed
<1>2. CASE x = Outcome(t, NoFd, Head(steps).onFailure)
  <2>1. Head(steps) \in Steps
    OBVIOUS
  <2>2. Head(steps).onFailure \in {"false", "nonfatal", "fatal"}
    BY <2>1 DEF Steps
  <2> QED BY <1>1, <1>2, <2>2 DEF Outcome
<1>3. ASSUME FreeFds(t) # {}
      PROVE  /\ fd \in Fds /\ t[fd] = Free
             /\ Opens(o, t, Opened(t, file)) /\ Changed(t, Opened(t, file)) \subseteq {fd}
             /\ Opened(t, file)[fd] = file
  BY <1>3, LowestIsFree, OpenedTable, MakerOf DEF Opens, Changed
<1>4. CASE FreeFds(t) # {} /\ x = Outcome(Opened(t, file), fd, "true")
  BY <1>3, <1>4 DEF Outcome
<1>5. ASSUME FreeFds(t) # {}, NEW n \in 2..Len(steps),
             x = Outcome(IF steps[n].closes THEN t ELSE Opened(t, file), fd, steps[n].onFailure)
      PROVE  /\ Opens(o, t, x.table) /\ Changed(t, x.table) \subseteq {fd} /\ x.fd = fd
             /\ x.result \in {"false", "nonfatal", "fatal"}
  <2>1. steps[n] \in Steps
    OBVIOUS
  <2> QED BY <1>1, <1>3, <1>5, <2>1 DEF Outcome, Steps
<1> QED BY <1>2, <1>3, <1>4, <1>5 DEF SetUp

-----------------------------------------------------------------------------
(* init() *)

Filled(o, x) == \A s \in Slots(KindOf[o]) : x.table[x.m.slots[s]] = FileOf(o, s)

(* What init() of an object with the members m may do to a table.  If it   *)
(* succeeds, it has opened the files of the slots and no other; the        *)
(* child's end opens nothing.                                              *)
Inits(o, m, t, x) ==
  /\ Opens(o, t, x.table)
  /\ x.m \in Members(o)
  /\ x.m.up <=> x.result = "true"
  /\ x.m.up => Complete(o, x.m)
  /\ x.m.up /\ ~m.up /\ KindOf[o] # "child" => x.m.stale = {} /\ Filled(o, x)
  /\ KindOf[o] = "child" => x.table = t /\ x.m.slots = m.slots /\ x.m.stale = m.stale
  /\ m.up => x.table = t /\ x.m = m
  /\ \E fds \in [Slots(KindOf[o]) -> Fds \cup {NoFd}] :
       /\ Changed(t, x.table) \subseteq {fds[s] : s \in Slots(KindOf[o])}
       /\ x.result = "true" => fds = x.m.slots

(* Members that stand for open files of the object are complete. *)
LEMMA FilledIsComplete ==
  ASSUME NEW o, NEW x, Filled(o, x), \A s \in Slots(KindOf[o]) : x.m.slots[s] \in Fds
  PROVE  Complete(o, x.m)
<1>1. \A s, other : FileOf(o, s) = FileOf(o, other) => s = other
  <2> SUFFICES ASSUME NEW s, NEW other, FileOf(o, s) = FileOf(o, other) PROVE s = other
    OBVIOUS
  <2>1. FileOf(o, s).end = s /\ FileOf(o, other).end = other
    BY DEF FileOf
  <2> QED BY <2>1
<1> QED BY <1>1 DEF Filled, Complete

(* The members of each kind of transceiver that stand for files. *)
LEMMA SlotsOf ==
  ASSUME NEW o \in Objects
  PROVE  /\ KindOf[o] \in {"serial", "udp", "windows"} => Slots(KindOf[o]) = {"file"}
         /\ KindOf[o] = "dual"  => Slots(KindOf[o]) = {"recv", "send"}
         /\ KindOf[o] = "pair"  => Slots(KindOf[o]) = {"parent", "child"}
         /\ KindOf[o] = "child" => Slots(KindOf[o]) = {"child"}
         /\ KindOf[o] = "ros"   => Slots(KindOf[o]) = {}
BY DEF Slots

(* The parts of an outcome of init(). *)
LEMMA ResultOf ==
  ASSUME NEW t, NEW slots, NEW stale, NEW result
  PROVE  /\ Result(t, slots, stale, result).table = t
         /\ Result(t, slots, stale, result).result = result
         /\ Result(t, slots, stale, result).m =
              [up |-> result = "true", slots |-> slots, stale |-> stale]
BY DEF Result

(* The members after an init() are members of the object. *)
LEMMA NewMembers ==
  ASSUME NEW o, NEW slots \in [Slots(KindOf[o]) -> Fds \cup {NoFd}],
         NEW stale \in SUBSET Slots(KindOf[o]), NEW result,
         NEW m, m = [up |-> result = "true", slots |-> slots, stale |-> stale]
  PROVE  /\ m \in Members(o)
         /\ (m.up <=> result = "true") /\ m.slots = slots /\ m.stale = stale
<1>1. (result = "true") \in BOOLEAN
  OBVIOUS
<1> QED BY <1>1 DEF Members

(* An init() of a transceiver with one file: whatever call fails, it opens *)
(* at most that file, and holds it if it returns true.                     *)
LEMMA OneFileInits ==
  ASSUME NEW o \in Objects, KindOf[o] \in {"serial", "udp", "windows"},
         NEW m \in Members(o), ~m.up, NEW t, IsTable(t),
         NEW steps \in Seq(Steps), steps # <<>>, NEW x \in OneFile(o, t, steps)
  PROVE  Inits(o, m, t, x)
<1>1. Slots(KindOf[o]) = {"file"}
  BY SlotsOf
<1>2. PICK y \in SetUp(t, FileOf(o, "file"), steps) :
        x = Result(y.table, [s \in {"file"} |-> y.fd], {}, y.result)
  BY DEF OneFile
<1>3. /\ Opens(o, t, y.table)
      /\ y.fd \in Fds \cup {NoFd}
      /\ Changed(t, y.table) \subseteq {y.fd}
      /\ y.result = "true" => y.fd \in Fds /\ y.table[y.fd] = FileOf(o, "file")
  BY <1>1, SetUpOutcomes
<1> DEFINE slots == [s \in {"file"} |-> y.fd]
<1>4. x = Result(y.table, slots, {}, y.result)
  BY <1>2
<1>5. slots \in [Slots(KindOf[o]) -> Fds \cup {NoFd}] /\ slots["file"] = y.fd
  BY <1>1, <1>3
<1> HIDE DEF slots
<1>6. /\ x.table = y.table /\ x.result = y.result
      /\ x.m = [up |-> y.result = "true", slots |-> slots, stale |-> {}]
  BY <1>4 DEF Result
<1>7. x.m \in Members(o) /\ (x.m.up <=> x.result = "true") /\ x.m.stale = {} /\ x.m.slots = slots
  <2>1. (y.result = "true") \in BOOLEAN
    OBVIOUS
  <2>2. x.m.slots = slots /\ x.m.stale = {} /\ x.m.up = (x.result = "true")
    BY <1>6
  <2>3. x.m \in Members(o)
    BY <1>5, <1>6, <2>1 DEF Members
  <2> QED BY <2>2, <2>3
<1>8. x.m.up => Complete(o, x.m) /\ Filled(o, x)
  BY <1>1, <1>3, <1>5, <1>6, <1>7 DEF Complete, Filled
<1>9. \E fds \in [Slots(KindOf[o]) -> Fds \cup {NoFd}] :
        /\ Changed(t, x.table) \subseteq {fds[s] : s \in Slots(KindOf[o])}
        /\ x.result = "true" => fds = x.m.slots
  <2>1. Changed(t, x.table) \subseteq {slots[s] : s \in Slots(KindOf[o])}
    BY <1>1, <1>3, <1>5, <1>6
  <2> QED BY <1>5, <1>7, <2>1
<1> QED BY <1>3, <1>6, <1>7, <1>8, <1>9 DEF Inits

(* Opening one file and then another opens both and disturbs no other. *)
LEMMA OpensTwice ==
  ASSUME NEW o, NEW t, NEW new, NEW newer, Opens(o, t, new), Opens(o, new, newer),
         \A s \in Slots(KindOf[o]) : FileOf(o, s) # Free
  PROVE  /\ Opens(o, t, newer)
         /\ Changed(t, newer) \subseteq Changed(t, new) \cup Changed(new, newer)
         /\ \A fd \in Fds : t[fd] # Free => newer[fd] = t[fd]
BY DEF Opens, Changed

(* A file of a transceiver is neither a free number nor a file of the rest *)
(* of the program.                                                         *)
LEMMA FilesAreNotFree ==
  ASSUME NEW o \in Objects, NEW s \in Slots(KindOf[o])
  PROVE  FileOf(o, s) # Free /\ FileOf(o, s) # Foreign
<1>1. s # "none"
  BY SlotsOf, LifecycleAssumption DEF Kinds
<1>2. FileOf(o, s).end = s /\ Free.end = "none" /\ Foreign.end = "file"
  BY DEF FileOf, Free, Foreign
<1>3. CASE KindOf[o] = "child"
  BY <1>1, <1>2, <1>3, SlotsOf
<1>4. CASE KindOf[o] # "child"
  <2>1. FileOf(o, s).by \in Objects
    BY <1>4, MakerOf
  <2> QED BY <1>1, <1>2, <2>1, LifecycleAssumption
<1> QED BY <1>3, <1>4

(* An init() of a dual transceiver, whose second socket may fail when the  *)
(* first one is open.                                                      *)
LEMMA DualInits ==
  ASSUME NEW o \in Objects, KindOf[o] = "dual", NEW m \in Members(o), ~m.up,
         NEW t, IsTable(t), NEW x \in InitDual(o, m, t)
  PROVE  Inits(o, m, t, x)
<1>1. Slots(KindOf[o]) = {"recv", "send"}
  BY SlotsOf
<1>2. PICK y \in SetUp(t, FileOf(o, "recv"), UDPCalls(FALSE, TRUE)) :
        \/ /\ y.result # "true"
           /\ x = Result(y.table, [m.slots EXCEPT !["recv"] = y.fd], m.stale, y.result)
        \/ /\ y.result = "true"
           /\ \E z \in SetUp(y.table, FileOf(o, "send"), UDPCalls(TRUE, FALSE)) :
                x = Result(z.table, [s \in {"recv", "send"} |-> IF s = "recv" THEN y.fd ELSE z.fd],
                           {}, z.result)
  BY DEF InitDual
<1>3. /\ Opens(o, t, y.table) /\ IsTable(y.table)
      /\ y.fd \in Fds \cup {NoFd}
      /\ Changed(t, y.table) \subseteq {y.fd}
      /\ y.result = "true" => y.fd \in Fds /\ y.table[y.fd] = FileOf(o, "recv")
  <2> DEFINE steps == UDPCalls(FALSE, TRUE)
  <2>1. steps \in Seq(Steps) /\ steps # <<>> /\ "recv" \in Slots(KindOf[o])
    BY <1>1, StepsOfInit
  <2> HIDE DEF steps
  <2>2. y \in SetUp(t, FileOf(o, "recv"), steps)
    BY <1>2 DEF steps
  <2>3. /\ Opens(o, t, y.table)
        /\ y.fd \in Fds \cup {NoFd}
        /\ Changed(t, y.table) \subseteq {y.fd}
        /\ y.result = "true" => y.fd \in Fds /\ y.table[y.fd] = FileOf(o, "recv")
    BY <2>1, <2>2, SetUpOutcomes
  <2> QED BY <2>3 DEF Opens
<1>4. CASE y.result # "true"
  <2> DEFINE slots == [m.slots EXCEPT !["recv"] = y.fd]
  <2>0. x = Result(y.table, slots, m.stale, y.result)
    BY <1>2, <1>4
  <2>2. slots \in [Slots(KindOf[o]) -> Fds \cup {NoFd}] /\ slots["recv"] = y.fd
    BY <1>1, <1>3 DEF Members
  <2>1. /\ x.table = y.table /\ x.result # "true"
        /\ x.m = [up |-> FALSE, slots |-> slots, stale |-> m.stale]
    <3> HIDE DEF slots
    <3> QED BY <1>4, <2>0 DEF Result
  <2>3. x.m \in Members(o)
    BY <2>1, <2>2 DEF Members
  <2>4. \E fds \in [Slots(KindOf[o]) -> Fds \cup {NoFd}] :
          Changed(t, x.table) \subseteq {fds[s] : s \in Slots(KindOf[o])}
    <3> HIDE DEF slots
    <3>1. Changed(t, x.table) \subseteq {slots[s] : s \in Slots(KindOf[o])}
      BY <1>1, <1>3, <2>1, <2>2
    <3> QED BY <2>2, <3>1
  <2> QED BY <1>3, <1>4, <2>1, <2>3, <2>4 DEF Inits
<1>5. CASE y.result = "true"
  <2>1. PICK z \in SetUp(y.table, FileOf(o, "send"), UDPCalls(TRUE, FALSE)) :
          x = Result(z.table, [s \in {"recv", "send"} |-> IF s = "recv" THEN y.fd ELSE z.fd],
                     {}, z.result)
    BY <1>2, <1>5
  <2>2. /\ Opens(o, y.table, z.table)
        /\ z.fd \in Fds \cup {NoFd}
        /\ Changed(y.table, z.table) \subseteq {z.fd}
        /\ z.result = "true" => z.fd \in Fds /\ z.table[z.fd] = FileOf(o, "send")
    <3> DEFINE steps == UDPCalls(TRUE, FALSE)
    <3>1. steps \in Seq(Steps) /\ steps # <<>> /\ "send" \in Slots(KindOf[o])
      BY <1>1, StepsOfInit
    <3> HIDE DEF steps
    <3>2. z \in SetUp(y.table, FileOf(o, "send"), steps)
      BY <2>1 DEF steps
    <3> QED BY <1>3, <3>1, <3>2, SetUpOutcomes
  <2>3. /\ Opens(o, t, z.table)
        /\ Changed(t, z.table) \subseteq {y.fd, z.fd}
        /\ z.table[y.fd] = FileOf(o, "recv")
    <3>1. y.fd \in Fds /\ y.table[y.fd] = FileOf(o, "recv") /\ FileOf(o, "recv") # Free
      BY <1>1, <1>3, <1>5, FilesAreNotFree
    <3>2. z.table[y.fd] = FileOf(o, "recv")
      BY <2>2, <3>1 DEF Opens
    <3> QED BY <1>3, <2>2, <3>2, OpensTwice, FilesAreNotFree
  <2> DEFINE slots == [s \in {"recv", "send"} |-> IF s = "recv" THEN y.fd ELSE z.fd]
  <2>4. /\ x.table = z.table /\ x.result = z.result
        /\ x.m = [up |-> z.result = "true", slots |-> slots, stale |-> {}]
    BY <2>1, ResultOf
  <2>5. /\ slots \in [Slots(KindOf[o]) -> Fds \cup {NoFd}]
        /\ slots["recv"] = y.fd /\ slots["send"] = z.fd
    BY <1>1, <1>3, <2>2
  <2> HIDE DEF slots
  <2>6. x.m \in Members(o) /\ (x.m.up <=> x.result = "true") /\ x.m.stale = {} /\ x.m.slots = slots
    BY <2>4, <2>5, NewMembers
  <2>7. x.m.up => Complete(o, x.m) /\ Filled(o, x)
    <3> SUFFICES ASSUME z.result = "true" PROVE Complete(o, x.m) /\ Filled(o, x)
      BY <2>4, <2>6
    <3>1. Filled(o, x)
      BY <1>1, <2>2, <2>3, <2>4, <2>5, <2>6 DEF Filled
    <3>2. \A s \in Slots(KindOf[o]) : x.m.slots[s] \in Fds
      BY <1>1, <1>3, <1>5, <2>2, <2>5, <2>6
    <3> QED BY <3>1, <3>2, FilledIsComplete
  <2>8. \E fds \in [Slots(KindOf[o]) -> Fds \cup {NoFd}] :
          /\ Changed(t, x.table) \subseteq {fds[s] : s \in Slots(KindOf[o])}
          /\ x.result = "true" => fds = x.m.slots
    <3>1. Changed(t, x.table) \subseteq {slots[s] : s \in Slots(KindOf[o])}
      BY <1>1, <2>3, <2>4, <2>5
    <3> QED BY <2>5, <2>6, <3>1
  <2> QED BY <2>3, <2>4, <2>6, <2>7, <2>8 DEF Inits
<1> QED BY <1>4, <1>5

(* An init() that opens nothing and assigns no descriptor. *)
LEMMA NothingInits ==
  ASSUME NEW o \in Objects, NEW m \in Members(o), ~m.up, NEW t, IsTable(t), NEW result,
         result = "true" => KindOf[o] = "child" /\ Complete(o, m),
         NEW stale \in SUBSET Slots(KindOf[o]), KindOf[o] = "child" => stale = m.stale,
         NEW x, x = Result(t, m.slots, stale, result)
  PROVE  Inits(o, m, t, x)
<1>1. /\ x.table = t /\ x.result = result
      /\ x.m = [up |-> result = "true", slots |-> m.slots, stale |-> stale]
  BY DEF Result
<1>2. m.slots \in [Slots(KindOf[o]) -> Fds \cup {NoFd}] /\ (result = "true") \in BOOLEAN
  BY DEF Members
<1>3. x.m \in Members(o)
  BY <1>1, <1>2 DEF Members
<1>4. x.m.slots = m.slots /\ x.m.stale = stale /\ x.m.up = (x.result = "true")
  BY <1>1
<1>5. Opens(o, t, x.table) /\ Changed(t, x.table) = {}
  BY <1>1 DEF Opens, Changed
<1>6. x.m.up => Complete(o, x.m)
  BY <1>1, <1>4 DEF Complete
<1>7. x.m.up /\ KindOf[o] # "child" => x.m.stale = {} /\ Filled(o, x)
  BY <1>1, <1>4 DEF Filled
<1>8. \E fds \in [Slots(KindOf[o]) -> Fds \cup {NoFd}] :
        /\ Changed(t, x.table) \subseteq {fds[s] : s \in Slots(KindOf[o])}
        /\ x.result = "true" => fds = x.m.slots
  BY <1>2, <1>4, <1>5
<1> QED BY <1>1, <1>3, <1>4, <1>5, <1>6, <1>7, <1>8 DEF Inits

(* An init() of a socket pair, which may be one that is open already. *)
LEMMA PairInits ==
  ASSUME NEW o \in Objects, KindOf[o] = "pair", NEW m \in Members(o),
         m.up => Complete(o, m), NEW t, IsTable(t), NEW x \in InitPair(o, m, t)
  PROVE  Inits(o, m, t, x)
<1>0. Slots(KindOf[o]) = {"parent", "child"}
  BY SlotsOf
<1>1. CASE m.up
  <2>1. x.table = t /\ x.result = "true" /\ x.m = m
    BY <1>1 DEF InitPair
  <2>2. Opens(o, t, t) /\ Changed(t, t) = {}
    BY DEF Opens, Changed
  <2>3. m.slots \in [Slots(KindOf[o]) -> Fds \cup {NoFd}]
    BY DEF Members
  <2>4. \E fds \in [Slots(KindOf[o]) -> Fds \cup {NoFd}] :
          /\ Changed(t, x.table) \subseteq {fds[s] : s \in Slots(KindOf[o])}
          /\ x.result = "true" => fds = x.m.slots
    BY <2>1, <2>2, <2>3
  <2> QED BY <1>1, <2>1, <2>2, <2>4 DEF Inits
<1>2. CASE ~m.up
  <2> DEFINE one  == Opened(t, FileOf(o, "parent"))
             two  == Opened(one, FileOf(o, "child"))
             ends == [s \in {"parent", "child"} |-> IF s = "parent" THEN Lowest(t) ELSE Lowest(one)]
  <2>1. CASE x = Result(t, m.slots, m.stale, "fatal")
    <3>1. m.stale \in SUBSET Slots(KindOf[o])
      BY DEF Members
    <3> QED BY <1>2, <2>1, <3>1, NothingInits
  <2>2. CASE /\ Cardinality(FreeFds(t)) >= 2
             /\ x \in {Result(two, m.slots, m.stale, "fatal"), Result(two, ends, {}, "fatal"),
                       Result(two, ends, {}, "true")}
    <3>1. FreeFds(t) \subseteq Fds /\ FreeFds(t) # {} /\ FreeFds(t) # {Lowest(t)}
      <4>1. FreeFds(t) # {}
        BY <2>2, FS_EmptySet
      <4>2. Cardinality({Lowest(t)}) = 1
        BY FS_Singleton
      <4>3. DOMAIN t = Fds
        BY DEF IsTable
      <4> QED BY <2>2, <4>1, <4>2, <4>3 DEF FreeFds
    <3>2. /\ Lowest(t) \in Fds /\ t[Lowest(t)] = Free
          /\ IsTable(one) /\ one[Lowest(t)] = FileOf(o, "parent")
          /\ \A fd \in Fds \ {Lowest(t)} : one[fd] = t[fd]
      BY <3>1, LowestIsFree, OpenedTable, MakerOf
    <3>3. FreeFds(one) # {} /\ FileOf(o, "parent") # Free
      <4>1. PICK fd \in FreeFds(t) : fd # Lowest(t)
        BY <3>1
      <4>2. fd \in FreeFds(one)
        BY <3>1, <3>2, <4>1 DEF FreeFds, IsTable
      <4> QED BY <1>0, <4>2, FilesAreNotFree
    <3> HIDE DEF one
    <3>4. /\ Lowest(one) \in Fds /\ one[Lowest(one)] = Free
          /\ IsTable(two) /\ two[Lowest(one)] = FileOf(o, "child")
          /\ \A fd \in Fds \ {Lowest(one)} : two[fd] = one[fd]
      BY <3>2, <3>3, LowestIsFree, OpenedTable, MakerOf
    <3>5. Lowest(one) # Lowest(t)
      BY <3>2, <3>3, <3>4
    <3> HIDE DEF two
    <3>6. /\ Opens(o, t, two) /\ Changed(t, two) \subseteq {Lowest(t), Lowest(one)}
          /\ two[Lowest(t)] = FileOf(o, "parent")
      BY <1>0, <3>2, <3>4, <3>5 DEF Opens, Changed
    <3>7. /\ ends \in [Slots(KindOf[o]) -> Fds]
          /\ ends["parent"] = Lowest(t) /\ ends["child"] = Lowest(one)
      BY <1>0, <3>2, <3>4
    <3> HIDE DEF ends
    <3>8. Changed(t, two) \subseteq {ends[s] : s \in Slots(KindOf[o])}
      BY <1>0, <3>6, <3>7
    <3>9. CASE x = Result(two, m.slots, m.stale, "fatal")
      <4>1. /\ x.table = two /\ x.result = "fatal"
            /\ x.m = [up |-> FALSE, slots |-> m.slots, stale |-> m.stale]
        BY <3>9 DEF Result
      <4>2. x.m \in Members(o)
        BY <4>1 DEF Members
      <4>3. \E fds \in [Slots(KindOf[o]) -> Fds \cup {NoFd}] :
              Changed(t, x.table) \subseteq {fds[s] : s \in Slots(KindOf[o])}
        BY <3>7, <3>8, <4>1
      <4> QED BY <1>2, <3>6, <4>1, <4>2, <4>3 DEF Inits
    <3>10. ASSUME NEW result \in {"fatal", "true"}, x = Result(two, ends, {}, result)
           PROVE  Inits(o, m, t, x)
      <4>1. /\ x.table = two /\ x.result = result
            /\ x.m = [up |-> result = "true", slots |-> ends, stale |-> {}]
        BY <3>10 DEF Result
      <4>2. (result = "true") \in BOOLEAN
        OBVIOUS
      <4>3. x.m \in Members(o)
        BY <3>7, <4>1, <4>2 DEF Members
      <4>4. x.m.slots = ends /\ x.m.stale = {} /\ x.m.up = (x.result = "true")
        BY <4>1
      <4>5. Complete(o, x.m) /\ Filled(o, x)
        <5>1. Filled(o, x)
          BY <1>0, <3>4, <3>6, <3>7, <4>1, <4>4 DEF Filled
        <5>2. \A s \in Slots(KindOf[o]) : x.m.slots[s] \in Fds
          BY <3>7, <4>4
        <5> QED BY <5>1, <5>2, FilledIsComplete
      <4>6. \E fds \in [Slots(KindOf[o]) -> Fds \cup {NoFd}] :
              /\ Changed(t, x.table) \subseteq {fds[s] : s \in Slots(KindOf[o])}
              /\ x.result = "true" => fds = x.m.slots
        BY <3>7, <3>8, <4>1, <4>4
      <4> QED BY <1>2, <3>6, <4>1, <4>3, <4>4, <4>5, <4>6 DEF Inits
    <3> QED BY <2>2, <3>9, <3>10
  <2>3. Cardinality(FreeFds(t)) \in Nat
    <3>1. FreeFds(t) \subseteq Fds
      BY DEF FreeFds, IsTable
    <3> QED BY <3>1, FiniteFds, FS_Subset, FS_CardinalityType
  <2> QED BY <1>2, <2>1, <2>2, <2>3 DEF InitPair
<1> QED BY <1>1, <1>2

(* An init() of any transceiver. *)
LEMMA ObjectInits ==
  ASSUME NEW o \in Objects, NEW m \in Members(o),
         m.up => KindOf[o] = "pair" /\ Complete(o, m),
         NEW t, IsTable(t), NEW x \in InitOutcomes(o, m, t)
  PROVE  Inits(o, m, t, x)
<1>1. KindOf[o] \in Kinds
  BY LifecycleAssumption
<1>2. CASE KindOf[o] \in {"serial", "udp", "windows"}
  <2> DEFINE steps == CASE KindOf[o] = "serial"  -> SerialCalls
                        [] KindOf[o] = "udp"     -> UDPCalls(FALSE, FALSE)
                        [] KindOf[o] = "windows" -> WindowsCalls
  <2>1. x \in OneFile(o, t, steps)
    BY <1>2 DEF InitOutcomes
  <2>2. steps \in Seq(Steps) /\ steps # <<>>
    BY <1>2, StepsOfInit
  <2> HIDE DEF steps
  <2> QED BY <1>2, <2>1, <2>2, OneFileInits
<1>3. CASE KindOf[o] = "dual"
  <2>1. x \in InitDual(o, m, t)
    BY <1>3 DEF InitOutcomes
  <2> QED BY <1>3, <2>1, DualInits
<1>4. CASE KindOf[o] = "pair"
  <2>1. x \in InitPair(o, m, t)
    BY <1>4 DEF InitOutcomes
  <2> QED BY <1>4, <2>1, PairInits
<1>5. CASE KindOf[o] = "child"
  <2> DEFINE result == IF m.slots["child"] \in FreeFds(t) \cup {NoFd} THEN "fatal" ELSE "true"
  <2>1. x = Result(t, m.slots, m.stale, result)
    BY <1>5 DEF InitOutcomes, InitChild
  <2>2. result = "true" => Complete(o, m)
    BY <1>5, SlotsOf DEF Complete, Members
  <2>3. m.stale \in SUBSET Slots(KindOf[o])
    BY DEF Members
  <2>4. ~m.up
    BY <1>5
  <2> HIDE DEF result
  <2> QED BY <1>5, <2>1, <2>2, <2>3, <2>4, NothingInits
<1>6. CASE KindOf[o] = "ros"
  <2>1. /\ x.table = t /\ x.result = "true"
        /\ x.m = [up |-> x.result = "true", slots |-> m.slots, stale |-> {}]
    <3>1. PICK result : result = "true"
      OBVIOUS
    <3>2. x = Result(t, m.slots, {}, result)
      BY <1>6, <3>1 DEF InitOutcomes
    <3>3. /\ x.table = t /\ x.result = result
          /\ x.m = [up |-> result = "true", slots |-> m.slots, stale |-> {}]
      BY <3>2 DEF Result
    <3> QED BY <3>1, <3>3
  <2>2. Slots(KindOf[o]) = {} /\ m.slots \in [Slots(KindOf[o]) -> Fds \cup {NoFd}]
    BY <1>6, SlotsOf DEF Members
  <2>3. x.m \in Members(o) /\ Complete(o, x.m) /\ Filled(o, x)
    BY <2>1, <2>2 DEF Members, Complete, Filled
  <2>4. Opens(o, t, x.table) /\ Changed(t, x.table) = {}
    BY <2>1 DEF Opens, Changed
  <2>5. x.m.stale = {} /\ x.m.up = (x.result = "true")
    BY <2>1
  <2>6. \E fds \in [Slots(KindOf[o]) -> Fds \cup {NoFd}] :
          /\ Changed(t, x.table) \subseteq {fds[s] : s \in Slots(KindOf[o])}
          /\ x.result = "true" => fds = x.m.slots
    BY <2>1, <2>2, <2>4
  <2>7. ~m.up
    <3>1. KindOf[o] # "pair"
      BY <1>6
    <3> QED BY <3>1
  <2> QED BY <1>6, <2>1, <2>3, <2>4, <2>5, <2>6, <2>7 DEF Inits
<1> QED BY <1>1, <1>2, <1>3, <1>4, <1>5, <1>6 DEF Kinds

-----------------------------------------------------------------------------
(* Files that are opened and closed by others *)

(* Who opens a file takes nothing from others. *)
LEMMA OwnsWhileOpening ==
  ASSUME NEW o \in Objects, NEW m, NEW t, NEW new, NEW r, Owns(o, m, t, r),
         \A fd \in Fds : new[fd] = t[fd] \/ t[fd] = Free
  PROVE  Owns(o, m, new, r)
BY FilesAreNotFree DEF Owns

(* An init() changes only numbers that were free. *)
LEMMA OpeningFrees ==
  ASSUME NEW o, NEW t, NEW new, Opens(o, t, new)
  PROVE  \A fd \in Fds : new[fd] = t[fd] \/ t[fd] = Free
BY DEF Opens

(* Two objects that a process uses do not open the same file. *)
LEMMA FilesDiffer ==
  ASSUME present \subseteq Objects, NEW p \in Processes, NEW o \in present, NEW other \in present,
         Uses(p, o), Uses(p, other), NEW s \in Slots(KindOf[o]), NEW z \in Slots(KindOf[other]),
         FileOf(o, s) = FileOf(other, z)
  PROVE  o = other /\ s = z
<1>1. s = z
  BY DEF FileOf
<1>2. CASE KindOf[o] = "child"
  BY <1>1, <1>2, LifecycleAssumption DEF Uses
<1>3. CASE KindOf[o] # "child"
  <2>1. KindOf[other] # "child"
    BY <1>3 DEF Uses
  <2>2. FileOf(o, s).by = o /\ FileOf(other, z).by = other
    BY <1>3, <2>1, MakerOf
  <2> QED BY <1>1, <2>2
<1> QED BY <1>2, <1>3

(* Who is closed under its owner is robbed. *)
LEMMA OwnsWhileClosing ==
  ASSUME present \subseteq Objects, NEW p \in Processes, NEW o \in present, NEW other \in present,
         Uses(p, o), Uses(p, other), o # other,
         NEW m, NEW t, IsTable(t), NEW r, Owns(other, m, t, r), NEW fds
  PROVE  Owns(other, m, Closed(t, fds), r \cup NotOwn(o, t, fds))
<1> SUFFICES ASSUME NEW s \in Slots(KindOf[other]),
                    t[m.slots[s]] = FileOf(other, s), m.slots[s] \in Fds
             PROVE  \/ Closed(t, fds)[m.slots[s]] = FileOf(other, s)
                    \/ m.slots[s] \in r \cup NotOwn(o, t, fds)
  BY DEF Owns
<1>1. CASE m.slots[s] \notin fds
  BY <1>1, ClosedTable
<1>2. CASE m.slots[s] \in fds
  <2>1. FileOf(other, s) # Free /\ \A z \in Slots(KindOf[o]) : FileOf(other, s) # FileOf(o, z)
    BY FilesAreNotFree, FilesDiffer
  <2>2. m.slots[s] \in DOMAIN t
    BY DEF IsTable
  <2> QED BY <1>2, <2>1, <2>2 DEF NotOwn
<1> QED BY <1>1, <1>2

(* The same for the files of the rest of the program. *)
LEMMA ForeignWhileClosing ==
  ASSUME NEW o \in Objects, NEW t, IsTable(t), NEW r, NEW f \in SUBSET Fds,
         \A fd \in f : t[fd] = Foreign \/ fd \in r, NEW fds
  PROVE  \A fd \in f : Closed(t, fds)[fd] = Foreign \/ fd \in r \cup NotOwn(o, t, fds)
<1> SUFFICES ASSUME NEW fd \in f, t[fd] = Foreign, fd \in fds PROVE fd \in NotOwn(o, t, fds)
  BY ClosedTable
<1>1. Foreign # Free /\ \A s \in Slots(KindOf[o]) : Foreign # FileOf(o, s)
  BY FilesAreNotFree DEF Free, Foreign
<1>2. fd \in DOMAIN t
  BY DEF IsTable
<1> QED BY <1>1, <1>2 DEF NotOwn

(* What an object closes of others are descriptors. *)
LEMMA NotOwnFds ==
  ASSUME NEW o, NEW t, IsTable(t), NEW fds
  PROVE  NotOwn(o, t, fds) \subseteq Fds
BY DEF NotOwn, IsTable

-----------------------------------------------------------------------------
(* Initialized and deinitialized objects *)

(* An init() in a process leaves every transceiver the files it had. *)
LEMMA InitSound ==
  ASSUME present \subseteq Objects, NEW p \in Processes, NEW t, NEW ms, NEW f, NEW r,
         Sound(p, t, ms, f, r), NEW o \in present, NEW m, NEW x, Inits(o, m, t, x),
         m.up => m = ms[o],
         Uses(p, o) /\ KindOf[o] = "child" => m.slots = ms[o].slots /\ m.stale = ms[o].stale
  PROVE  Sound(p, x.table, [ms EXCEPT ![o] = x.m], f, r)
<1> DEFINE new == [ms EXCEPT ![o] = x.m]
<1>1. /\ new = [q \in Objects |-> new[q]] /\ new[o] = x.m
      /\ \A q \in Objects \ {o} : new[q] = ms[q]
  BY DEF Sound
<1> HIDE DEF new
<1>2. IsTable(x.table) /\ x.m \in Members(o) /\ (x.m.up => Complete(o, x.m))
  BY DEF Inits, Opens
<1>3. \A q \in Objects : new[q] \in Members(q) /\ (new[q].up => Complete(q, new[q]))
  BY <1>1, <1>2 DEF Sound
<1>4. \A fd \in Fds : x.table[fd] = t[fd] \/ t[fd] = Free
  BY OpeningFrees DEF Inits
<1>5. ASSUME NEW q \in present, q # o, Uses(p, q), new[q].up \/ KindOf[q] = "child"
      PROVE  Owns(q, new[q], x.table, r)
  <2>1. Owns(q, ms[q], t, r) /\ new[q] = ms[q]
    BY <1>1, <1>5 DEF Sound
  <2> QED BY <1>4, <2>1, OwnsWhileOpening
<1>6. ASSUME Uses(p, o), new[o].up \/ KindOf[o] = "child"
      PROVE  Owns(o, new[o], x.table, r)
  <2>1. CASE KindOf[o] = "child"
    <3>1. x.table = t /\ x.m.slots = ms[o].slots /\ x.m.stale = ms[o].stale
      BY <1>6, <2>1 DEF Inits
    <3>2. Owns(o, ms[o], t, r)
      BY <1>6, <2>1 DEF Sound
    <3> QED BY <1>1, <3>1, <3>2 DEF Owns
  <2>2. CASE KindOf[o] # "child" /\ m.up
    <3>1. x.table = t /\ x.m = ms[o] /\ ms[o].up
      BY <2>2 DEF Inits
    <3> QED BY <1>1, <1>6, <3>1 DEF Sound
  <2>3. CASE KindOf[o] # "child" /\ ~m.up
    <3>1. x.m.up /\ Filled(o, x) /\ Complete(o, x.m)
      BY <1>1, <1>6, <2>3 DEF Inits
    <3> QED BY <1>1, <3>1 DEF Filled, Complete, Owns
  <2> QED BY <2>1, <2>2, <2>3
<1>7. \A fd \in f : x.table[fd] = Foreign \/ fd \in r
  <2>1. Foreign # Free
    BY DEF Foreign, Free
  <2> QED BY <1>4, <2>1 DEF Sound
<1> QED BY <1>1, <1>2, <1>3, <1>5, <1>6, <1>7 DEF Sound

(* While no child has been forked off, an init() leaves no stale numbers. *)
LEMMA InitCalm ==
  ASSUME NEW t, NEW ms, NEW r, Calm(ms, r), ms = [q \in Objects |-> ms[q]],
         NEW o \in Objects, NEW m, NEW x, Inits(o, m, t, x), m.up => m = ms[o],
         KindOf[o] = "child" => ~x.m.up
  PROVE  Calm([ms EXCEPT ![o] = x.m], r)
<1>1. x.m.up => x.m.stale = {}
  BY DEF Inits, Calm
<1> QED BY <1>1 DEF Calm

(* deinit() of an object that is initialized. *)
LEMMA DeinitMembers ==
  ASSUME NEW o, NEW m \in Members(o)
  PROVE  /\ Deinited(m) \in Members(o) /\ ~Deinited(m).up
         /\ Deinited(m).slots = m.slots /\ Deinited(m).stale = Slots(KindOf[o])
BY DEF Deinited, Members

(* Closing an object's numbers leaves the others their files, except for   *)
(* those it is recorded to have robbed.                                    *)
LEMMA CloseSound ==
  ASSUME present \subseteq Objects, NEW p \in Processes, NEW t, NEW ms, NEW f, NEW r,
         Sound(p, t, ms, f, r), NEW o \in present, Uses(p, o), NEW fds,
         NEW m \in Members(o), m.up => Complete(o, m),
         m.up \/ KindOf[o] = "child" =>
           Owns(o, m, Closed(t, fds), r \cup NotOwn(o, t, fds))
  PROVE  Sound(p, Closed(t, fds), [ms EXCEPT ![o] = m], f, r \cup NotOwn(o, t, fds))
<1> DEFINE new == [ms EXCEPT ![o] = m]
<1>1. /\ new = [q \in Objects |-> new[q]] /\ new[o] = m
      /\ \A q \in Objects \ {o} : new[q] = ms[q]
  BY DEF Sound
<1> HIDE DEF new
<1>2. IsTable(Closed(t, fds)) /\ NotOwn(o, t, fds) \subseteq Fds
  BY ClosedTable, NotOwnFds DEF Sound
<1>3. \A q \in Objects : new[q] \in Members(q) /\ (new[q].up => Complete(q, new[q]))
  BY <1>1 DEF Sound
<1>4. ASSUME NEW q \in present, q # o, Uses(p, q), new[q].up \/ KindOf[q] = "child"
      PROVE  Owns(q, new[q], Closed(t, fds), r \cup NotOwn(o, t, fds))
  <2>1. Owns(q, ms[q], t, r) /\ new[q] = ms[q] /\ IsTable(t)
    BY <1>1, <1>4 DEF Sound
  <2> QED BY <1>4, <2>1, OwnsWhileClosing
<1>5. \A fd \in f : Closed(t, fds)[fd] = Foreign \/ fd \in r \cup NotOwn(o, t, fds)
  BY ForeignWhileClosing DEF Sound
<1> QED BY <1>1, <1>2, <1>3, <1>4, <1>5 DEF Sound

(* So does a deinit(). *)
LEMMA DeinitSound ==
  ASSUME present \subseteq Objects, NEW p \in Processes, NEW t, NEW ms, NEW f, NEW r,
         Sound(p, t, ms, f, r), NEW o \in present, Uses(p, o), ms[o].up, NEW fds
  PROVE  Sound(p, Closed(t, fds), [ms EXCEPT ![o] = Deinited(ms[o])], f, r \cup NotOwn(o, t, fds))
<1> DEFINE m == Deinited(ms[o])
<1>1. /\ m \in Members(o) /\ ~m.up /\ m.slots = ms[o].slots /\ m.stale = Slots(KindOf[o])
      /\ Owns(o, ms[o], t, r)
  BY DeinitMembers DEF Sound
<1> HIDE DEF m
<1>2. KindOf[o] = "child" => Owns(o, m, Closed(t, fds), r \cup NotOwn(o, t, fds))
  BY <1>1, SlotsOf DEF Owns
<1>3. Sound(p, Closed(t, fds), [ms EXCEPT ![o] = m], f, r \cup NotOwn(o, t, fds))
  BY <1>1, <1>2, CloseSound
<1> QED BY <1>3 DEF m

(* A deinit() without stale numbers robs nobody. *)
LEMMA DeinitCalm ==
  ASSUME present \subseteq Objects, NEW p \in Processes, NEW t, NEW ms, NEW f, NEW r,
         Sound(p, t, ms, f, r), Calm(ms, r), NEW o \in present, Uses(p, o), ms[o].up
  PROVE  /\ NotOwn(o, t, ToClose(o, ms[o])) = {}
         /\ Calm([ms EXCEPT ![o] = Deinited(ms[o])], r)
<1>1. ms[o] \in Members(o) /\ Owns(o, ms[o], t, r) /\ ms[o].stale = {} /\ r = {}
  BY DEF Sound, Calm
<1>2. \A s \in Slots(KindOf[o]) : t[ms[o].slots[s]] = FileOf(o, s)
  BY <1>1 DEF Owns
<1>3. ToClose(o, ms[o]) \subseteq {ms[o].slots[s] : s \in Slots(KindOf[o])}
  BY <1>1 DEF ToClose, Numbers, Members
<1>4. NotOwn(o, t, ToClose(o, ms[o])) = {}
  BY <1>2, <1>3 DEF NotOwn
<1>5. ~Deinited(ms[o]).up
  BY <1>1, DeinitMembers
<1>6. ms = [q \in Objects |-> ms[q]]
  BY DEF Sound
<1> QED BY <1>4, <1>5, <1>6 DEF Calm

-----------------------------------------------------------------------------
(* Descriptors that nobody holds *)

Holds(m, fd) == m.up /\ fd \in Numbers(m, DOMAIN m.slots)

Orphaned(t, ms) ==
  {fd \in Fds : t[fd].by \in Objects /\ ~\E o \in present : Holds(ms[o], fd)}

(* Free numbers and the files of the rest of the program belong to no      *)
(* transceiver.                                                            *)
LEMMA FreeOrForeign == Free.by \notin Objects /\ Foreign.by \notin Objects
BY LifecycleAssumption

(* Closing leaks nothing as long as what is still held stays held. *)
LEMMA CloseLeaks ==
  ASSUME NEW t, IsTable(t), NEW ms, NEW new, NEW fds,
         \A o \in present, fd \in Fds \ fds : Holds(ms[o], fd) => Holds(new[o], fd)
  PROVE  Orphaned(Closed(t, fds), new) \subseteq Orphaned(t, ms)
BY ClosedTable, FreeOrForeign DEF Orphaned

(* A deinit() leaks nothing: it closes all that its object held. *)
LEMMA DeinitLeaks ==
  ASSUME NEW t, IsTable(t), NEW ms, ms = [q \in Objects |-> ms[q]], NEW o \in Objects, ms[o].up,
         present \subseteq Objects
  PROVE  Orphaned(Closed(t, ToClose(o, ms[o])), [ms EXCEPT ![o] = Deinited(ms[o])])
           \subseteq Orphaned(t, ms)
<1> DEFINE new == [ms EXCEPT ![o] = Deinited(ms[o])]
           fds == ToClose(o, ms[o])
<1>1. \A q \in present \ {o} : new[q] = ms[q]
  OBVIOUS
<1>2. fds = Numbers(ms[o], DOMAIN ms[o].slots)
  BY DEF ToClose
<1>3. ASSUME NEW q \in present, NEW fd \in Fds \ fds, Holds(ms[q], fd)
      PROVE  Holds(new[q], fd)
  BY <1>1, <1>2, <1>3 DEF Holds
<1> HIDE DEF new, fds
<1>4. Orphaned(Closed(t, fds), new) \subseteq Orphaned(t, ms)
  BY <1>3, CloseLeaks
<1> QED BY <1>4 DEF new, fds

(* An init() leaks no more than the files it opened, and none if it        *)
(* returns true.                                                           *)
LEMMA InitLeaks ==
  ASSUME NEW t, IsTable(t), NEW ms, ms = [q \in Objects |-> ms[q]], NEW o \in Objects,
         present \subseteq Objects, o \in present,
         NEW m, m \in Members(o), NEW x, Inits(o, m, t, x), m.up => m = ms[o], ms[o].up => m.up
  PROVE  LET new == [ms EXCEPT ![o] = x.m]
         IN  /\ Orphaned(x.table, new) \subseteq Orphaned(t, ms) \cup Changed(t, x.table)
             /\ x.result = "true" => Orphaned(x.table, new) \subseteq Orphaned(t, ms)
<1> DEFINE new == [ms EXCEPT ![o] = x.m]
<1>1. new[o] = x.m /\ \A q \in present \ {o} : new[q] = ms[q]
  OBVIOUS
<1> HIDE DEF new
<1>2. CASE m.up
  <2>1. x.table = t /\ x.m = ms[o]
    BY <1>2 DEF Inits
  <2>2. \A q \in present : new[q] = ms[q]
    BY <1>1, <2>1
  <2>3. Orphaned(x.table, new) \subseteq Orphaned(t, ms)
    BY <2>1, <2>2 DEF Orphaned
  <2> QED BY <2>3 DEF new
<1>3. CASE ~m.up
  <2>1. \A fd : ~Holds(ms[o], fd)
    BY <1>3 DEF Holds
  <2>2. Orphaned(x.table, new) \subseteq Orphaned(t, ms) \cup Changed(t, x.table)
    BY <1>1, <2>1 DEF Orphaned, Changed
  <2>3. ASSUME x.result = "true", NEW fd \in Changed(t, x.table) PROVE Holds(x.m, fd)
    <3>1. x.m.up /\ x.m.slots \in [Slots(KindOf[o]) -> Fds \cup {NoFd}]
      BY <2>3 DEF Inits, Members
    <3>2. fd \in {x.m.slots[s] : s \in Slots(KindOf[o])} /\ fd \in Fds
      BY <2>3 DEF Inits, Changed
    <3>3. fd # NoFd
      BY <3>2, LifecycleAssumption DEF Fds, NoFd
    <3> QED BY <3>1, <3>2, <3>3 DEF Holds, Numbers
  <2>4. x.result = "true" => Orphaned(x.table, new) \subseteq Orphaned(t, ms)
    BY <1>1, <2>2, <2>3 DEF Orphaned
  <2> QED BY <2>2, <2>4 DEF new
<1> QED BY <1>2, <1>3

(* A failed init() leaves no more open than it may. *)
LEMMA ChangedBound ==
  ASSUME NEW o \in Objects, NEW m, NEW t, NEW x, Inits(o, m, t, x)
  PROVE  /\ IsFiniteSet(Changed(t, x.table)) /\ MayLeave(o) \in Nat
         /\ Cardinality(Changed(t, x.table)) <= MayLeave(o)
<1> DEFINE S == Slots(KindOf[o])
<1>1. PICK fds \in [S -> Fds \cup {NoFd}] : Changed(t, x.table) \subseteq {fds[s] : s \in S}
  BY DEF Inits
<1>2. IsFiniteSet(S)
  <2>1. S \subseteq {"file", "recv", "send", "parent"} \cup {"child"}
    BY SlotsOf, LifecycleAssumption DEF Kinds
  <2>2. IsFiniteSet({"file", "recv", "send", "parent"} \cup {"child"})
    <3>1. IsFiniteSet({"file"}) /\ IsFiniteSet({"recv"}) /\ IsFiniteSet({"send"})
            /\ IsFiniteSet({"parent"}) /\ IsFiniteSet({"child"})
      BY FS_Singleton
    <3>2. IsFiniteSet({"file"} \cup {"recv"}) /\ IsFiniteSet({"send"} \cup {"parent"})
      BY <3>1, FS_Union
    <3>3. IsFiniteSet(({"file"} \cup {"recv"}) \cup ({"send"} \cup {"parent"}))
      BY <3>2, FS_Union
    <3>4. IsFiniteSet((({"file"} \cup {"recv"}) \cup ({"send"} \cup {"parent"})) \cup {"child"})
      BY <3>1, <3>3, FS_Union
    <3>5. (({"file"} \cup {"recv"}) \cup ({"send"} \cup {"parent"})) \cup {"child"}
             = {"file", "recv", "send", "parent"} \cup {"child"}
      OBVIOUS
    <3> QED BY <3>4, <3>5
  <2> QED BY <2>1, <2>2, FS_Subset
<1> DEFINE T == {fds[s] : s \in S}
<1> HIDE DEF S
<1>3. fds \in Surjection(S, T)
  BY DEF Surjection
<1>4. IsFiniteSet(T) /\ Cardinality(T) <= Cardinality(S)
  BY <1>2, <1>3, FS_Surjection
<1>5. Cardinality(S) \in Nat /\ Cardinality(T) \in Nat
  BY <1>2, <1>4, FS_CardinalityType
<1> HIDE DEF T
<1>6. Changed(t, x.table) \subseteq T
  BY <1>1 DEF T
<1>7. IsFiniteSet(Changed(t, x.table)) /\ Cardinality(Changed(t, x.table)) <= Cardinality(T)
  BY <1>4, <1>6, FS_Subset
<1>8. Cardinality(Changed(t, x.table)) \in Nat
  BY <1>7, FS_CardinalityType
<1> QED BY <1>4, <1>5, <1>7, <1>8 DEF MayLeave, S

(* Counting them. *)
LEMMA OrphansGrow ==
  ASSUME NEW A \in SUBSET Fds, NEW B \in SUBSET Fds, NEW C \in SUBSET Fds, NEW k \in Nat, NEW n \in Nat,
         A \subseteq B \cup C, Cardinality(B) <= k, Cardinality(C) <= n
  PROVE  Cardinality(A) <= k + n
<1>1. IsFiniteSet(A) /\ IsFiniteSet(B) /\ IsFiniteSet(C)
  BY FiniteFds, FS_Subset
<1>2. /\ IsFiniteSet(B \cup C)
      /\ Cardinality(B \cup C) = Cardinality(B) + Cardinality(C) - Cardinality(B \cap C)
  BY <1>1, FS_Union
<1>3. IsFiniteSet(B \cap C)
  BY <1>1, FS_Intersection
<1>4. Cardinality(A) <= Cardinality(B \cup C)
  BY <1>2, FS_Subset
<1>5. /\ Cardinality(A) \in Nat /\ Cardinality(B) \in Nat /\ Cardinality(C) \in Nat
      /\ Cardinality(B \cap C) \in Nat /\ Cardinality(B \cup C) \in Nat
  BY <1>1, <1>2, <1>3, FS_CardinalityType
<1> QED BY <1>2, <1>4, <1>5

(* A part of a set is no larger than the set. *)
LEMMA OrphansShrink ==
  ASSUME NEW A \in SUBSET Fds, NEW B \in SUBSET Fds, NEW k \in Nat,
         A \subseteq B, Cardinality(B) <= k
  PROVE  Cardinality(A) <= k
<1>1. IsFiniteSet(A) /\ IsFiniteSet(B)
  BY FiniteFds, FS_Subset
<1>2. Cardinality(A) <= Cardinality(B)
  BY <1>1, FS_Subset
<1>3. Cardinality(A) \in Nat /\ Cardinality(B) \in Nat
  BY <1>1, FS_CardinalityType
<1> QED BY <1>2, <1>3

-----------------------------------------------------------------------------
(* Steps of the program and of the rest of its process *)

(* A step in one process that keeps the program and does not fork. *)
LEMMA ProcessStep ==
  ASSUME ProcessesInv, ForkInv, LeaksBoundedByFailures, present' = present, forked' = forked,
         NEW p \in Processes, NEW t, NEW ms, NEW f, NEW r,
         tables'  = [q \in Processes |-> IF q = p THEN t ELSE tables[q]],
         members' = [q \in Processes |-> IF q = p THEN ms ELSE members[q]],
         foreign' = [q \in Processes |-> IF q = p THEN f ELSE foreign[q]],
         robbed'  = [q \in Processes |-> IF q = p THEN r ELSE robbed[q]],
         Sound(p, t, ms, f, r),
         ~forked => p = "parent" /\ Calm(ms, r),
         p = "parent" => /\ \A o \in Objects : KindOf[o] = "child" => ~ms[o].up
                         /\ Cardinality(Orphaned(t, ms)) <= failures',
         calls' \in 0..MaxCalls, failures' \in Nat, failures <= failures'
  PROVE  ProcessesInv' /\ ForkInv' /\ LeaksBoundedByFailures'
<1>1. ASSUME NEW q \in Processes
      PROVE  Sound(q, tables[q], members[q], foreign[q], robbed[q])'
  <2>1. Sound(q, tables'[q], members'[q], foreign'[q], robbed'[q])
    BY DEF ProcessesInv
  <2> QED BY <2>1 DEF Sound, Uses
<1>2. ProcessesInv'
  BY <1>1 DEF ProcessesInv
<1>3. ForkInv'
  BY DEF ForkInv, Processes
<1>4. LeaksBoundedByFailures'
  <2>1. Orphans' = Orphaned(tables'["parent"], members'["parent"])
    BY DEF Orphans, Orphaned, Holds
  <2>2. CASE p = "parent"
    BY <2>1, <2>2 DEF LeaksBoundedByFailures, Processes
  <2>3. CASE p # "parent"
    <3>1. Orphans' = Orphans
      BY <2>1, <2>3 DEF Orphans, Orphaned, Holds, Processes
    <3>2. Cardinality(Orphans) \in Nat
      BY FiniteFds, FS_Subset, FS_CardinalityType DEF Orphans
    <3> QED BY <3>1, <3>2 DEF LeaksBoundedByFailures, ProcessesInv
  <2> QED BY <2>2, <2>3
<1> QED BY <1>2, <1>3, <1>4

(* What the invariant says of a process. *)
LEMMA OfProcess ==
  ASSUME ProcessesInv, NEW p \in Processes
  PROVE  /\ Sound(p, tables[p], members[p], foreign[p], robbed[p])
         /\ IsTable(tables[p]) /\ members[p] = [o \in Objects |-> members[p][o]]
         /\ \A o \in Objects : /\ members[p][o] \in Members(o)
                               /\ members[p][o].up => Complete(o, members[p][o])
         /\ present \subseteq Objects
         /\ Orphaned(tables[p], members[p]) \subseteq Fds
         /\ Orphans = Orphaned(tables["parent"], members["parent"])
<1>1. Sound(p, tables[p], members[p], foreign[p], robbed[p]) /\ present \subseteq Objects
  BY DEF ProcessesInv
<1>2. Orphaned(tables[p], members[p]) \subseteq Fds
  BY DEF Orphaned
<1>3. Orphans = Orphaned(tables["parent"], members["parent"])
  BY DEF Orphans, Orphaned, Holds
<1> QED BY <1>1, <1>2, <1>3 DEF Sound

(* init() of a transceiver, successful or not. *)
LEMMA InitObjectKeeps ==
  ASSUME ProcessesInv, ForkInv, LeaksBoundedByFailures,
         NEW p \in Processes, NEW o \in Objects, InitObject(p, o)
  PROVE  ProcessesInv' /\ ForkInv' /\ LeaksBoundedByFailures'
<1> DEFINE t  == tables[p]
           ms == members[p]
           m  == members[p][o]
<1>1. PICK x \in InitOutcomes(o, m, t) :
        /\ tables' = [tables EXCEPT ![p] = x.table]
        /\ members' = [members EXCEPT ![p] = [ms EXCEPT ![o] = x.m]]
        /\ failures' = IF x.result = "true" THEN failures ELSE failures + MayLeave(o)
  BY DEF InitObject
<1>2. /\ Sound(p, t, ms, foreign[p], robbed[p]) /\ IsTable(t) /\ ms = [q \in Objects |-> ms[q]]
      /\ m \in Members(o) /\ (m.up => Complete(o, m)) /\ present \subseteq Objects
      /\ Orphaned(t, ms) \subseteq Fds
      /\ Orphans = Orphaned(tables["parent"], members["parent"])
  BY OfProcess
<1>3. o \in present /\ Uses(p, o) /\ (m.up => KindOf[o] = "pair")
  BY DEF InitObject, Uses
<1>4. Inits(o, m, t, x)
  BY <1>2, <1>3, ObjectInits
<1>5. x.m \in Members(o) /\ MayLeave(o) \in Nat
  BY <1>4, ChangedBound DEF Inits
<1> DEFINE new == [ms EXCEPT ![o] = x.m]
<1>6. Sound(p, x.table, new, foreign[p], robbed[p])
  BY <1>2, <1>3, <1>4, InitSound
<1>7. ~forked => p = "parent" /\ Calm(new, robbed[p])
  <2> SUFFICES ASSUME ~forked PROVE p = "parent" /\ Calm(new, robbed[p])
    OBVIOUS
  <2>1. p = "parent" /\ KindOf[o] # "child" /\ Calm(ms, robbed[p])
    BY <1>3 DEF Uses, ForkInv
  <2> QED BY <1>2, <1>4, <2>1, InitCalm
<1>8. ASSUME p = "parent"
      PROVE  /\ \A q \in Objects : KindOf[q] = "child" => ~new[q].up
             /\ Cardinality(Orphaned(x.table, new)) <= failures'
  <2>1. KindOf[o] # "child" /\ \A q \in Objects : KindOf[q] = "child" => ~ms[q].up
    BY <1>3, <1>8 DEF Uses, ForkInv
  <2>2. /\ Orphaned(x.table, new) \subseteq Orphaned(t, ms) \cup Changed(t, x.table)
        /\ x.result = "true" => Orphaned(x.table, new) \subseteq Orphaned(t, ms)
    BY <1>2, <1>3, <1>4, InitLeaks
  <2>3. Cardinality(Orphaned(t, ms)) <= failures /\ failures \in Nat
    BY <1>2, <1>8 DEF LeaksBoundedByFailures, ProcessesInv
  <2>4. Orphaned(x.table, new) \subseteq Fds /\ Changed(t, x.table) \subseteq Fds
    BY DEF Orphaned, Changed
  <2> HIDE DEF new
  <2>5. ASSUME x.result = "true" PROVE Cardinality(Orphaned(x.table, new)) <= failures'
    <3>1. failures' = failures
      BY <1>1, <2>5
    <3>2. Cardinality(Orphaned(x.table, new)) <= failures
      BY <1>2, <2>2, <2>3, <2>4, <2>5, OrphansShrink
    <3> QED BY <3>1, <3>2
  <2>6. ASSUME x.result # "true" PROVE Cardinality(Orphaned(x.table, new)) <= failures'
    <3>1. Cardinality(Changed(t, x.table)) <= MayLeave(o)
      BY <1>4, ChangedBound
    <3>2. Cardinality(Orphaned(x.table, new)) <= failures + MayLeave(o)
      BY <1>2, <1>5, <2>2, <2>3, <2>4, <3>1, OrphansGrow
    <3>3. failures' = failures + MayLeave(o)
      BY <1>1, <2>6
    <3> QED BY <3>2, <3>3
  <2>7. \A q \in Objects : KindOf[q] = "child" => ~new[q].up
    BY <2>1 DEF new
  <2> QED BY <2>5, <2>6, <2>7
<1>9. /\ tables'  = [q \in Processes |-> IF q = p THEN x.table ELSE tables[q]]
      /\ members' = [q \in Processes |-> IF q = p THEN new ELSE members[q]]
      /\ foreign' = [q \in Processes |-> IF q = p THEN foreign[p] ELSE foreign[q]]
      /\ robbed'  = [q \in Processes |-> IF q = p THEN robbed[p] ELSE robbed[q]]
  BY <1>1 DEF InitObject, ProcessesInv
<1>10. /\ present' = present /\ forked' = forked
       /\ calls' \in 0..MaxCalls /\ failures' \in Nat /\ failures <= failures'
  BY <1>1, <1>5, LifecycleAssumption DEF InitObject, ProcessesInv
<1> HIDE DEF new, t, ms, m
<1> QED BY <1>6, <1>7, <1>8, <1>9, <1>10, ProcessStep

(* deinit() of a transceiver. *)
LEMMA DeinitObjectKeeps ==
  ASSUME ProcessesInv, ForkInv, LeaksBoundedByFailures,
         NEW p \in Processes, NEW o \in Objects, DeinitObject(p, o)
  PROVE  ProcessesInv' /\ ForkInv' /\ LeaksBoundedByFailures'
<1> DEFINE t   == tables[p]
           ms  == members[p]
           fds == ToClose(o, ms[o])
           new == IF ms[o].up THEN [ms EXCEPT ![o] = Deinited(ms[o])] ELSE ms
           r   == robbed[p] \cup NotOwn(o, t, fds)
<1>1. /\ tables'  = [q \in Processes |-> IF q = p THEN Closed(t, fds) ELSE tables[q]]
      /\ members' = [q \in Processes |-> IF q = p THEN new ELSE members[q]]
      /\ foreign' = [q \in Processes |-> IF q = p THEN foreign[p] ELSE foreign[q]]
      /\ robbed'  = [q \in Processes |-> IF q = p THEN r ELSE robbed[q]]
  <2>1. ms = [q \in Objects |-> ms[q]]
    BY OfProcess
  <2>2. members' = [members EXCEPT ![p] = new]
    BY <2>1 DEF DeinitObject
  <2> QED BY <2>2 DEF DeinitObject, CloseAll, ProcessesInv
<1>2. /\ Sound(p, t, ms, foreign[p], robbed[p]) /\ IsTable(t) /\ ms = [q \in Objects |-> ms[q]]
      /\ ms[o] \in Members(o) /\ present \subseteq Objects /\ Orphaned(t, ms) \subseteq Fds
      /\ Orphans = Orphaned(tables["parent"], members["parent"])
  BY OfProcess
<1>3. o \in present /\ Uses(p, o) /\ (ms[o].up \/ KindOf[o] \in {"serial", "pair", "child"})
  BY DEF DeinitObject, Uses
<1>4. ASSUME ~ms[o].up
      PROVE  fds = {} /\ Closed(t, fds) = t /\ NotOwn(o, t, fds) = {} /\ new = ms
  <2>1. fds = {} /\ new = ms
    BY <1>3, <1>4 DEF ToClose, Guarded
  <2> QED BY <1>2, <2>1 DEF Closed, NotOwn, IsTable
<1>5. Sound(p, Closed(t, fds), new, foreign[p], r)
  <2>1. CASE ms[o].up
    BY <1>2, <1>3, <2>1, DeinitSound
  <2>2. CASE ~ms[o].up
    <3>1. r = robbed[p]
      BY <1>4, <2>2
    <3> QED BY <1>2, <1>4, <2>2, <3>1
  <2> QED BY <2>1, <2>2
<1>6. ~forked => p = "parent" /\ Calm(new, r)
  <2> SUFFICES ASSUME ~forked PROVE p = "parent" /\ Calm(new, r)
    OBVIOUS
  <2>1. p = "parent" /\ Calm(ms, robbed[p])
    BY <1>3 DEF Uses, ForkInv
  <2>2. CASE ms[o].up
    <3>1. NotOwn(o, t, fds) = {} /\ Calm([ms EXCEPT ![o] = Deinited(ms[o])], robbed[p])
      BY <1>2, <1>3, <2>1, <2>2, DeinitCalm
    <3>2. r = robbed[p] /\ new = [ms EXCEPT ![o] = Deinited(ms[o])]
      BY <2>2, <3>1
    <3> HIDE DEF r, new
    <3> QED BY <2>1, <3>1, <3>2
  <2>3. CASE ~ms[o].up
    <3>1. r = robbed[p]
      BY <1>4, <2>3
    <3> QED BY <1>4, <2>1, <2>3, <3>1
  <2> QED BY <2>2, <2>3
<1>7. ASSUME p = "parent"
      PROVE  /\ \A q \in Objects : KindOf[q] = "child" => ~new[q].up
             /\ Cardinality(Orphaned(Closed(t, fds), new)) <= failures
  <2>1. \A q \in Objects : KindOf[q] = "child" => ~ms[q].up
    BY <1>7 DEF ForkInv
  <2>2. \A q \in Objects : KindOf[q] = "child" => ~new[q].up
    BY <1>2, <2>1, DeinitMembers
  <2>3. Orphaned(Closed(t, fds), new) \subseteq Orphaned(t, ms)
    <3>1. CASE ms[o].up
      BY <1>2, <3>1, DeinitLeaks
    <3>2. CASE ~ms[o].up
      BY <1>4, <3>2
    <3> QED BY <3>1, <3>2
  <2>4. Cardinality(Orphaned(t, ms)) <= failures /\ failures \in Nat
    BY <1>2, <1>7 DEF LeaksBoundedByFailures, ProcessesInv
  <2> HIDE DEF new, fds
  <2>5. Cardinality(Orphaned(Closed(t, fds), new)) <= failures
    BY <1>2, <2>3, <2>4, OrphansShrink
  <2> QED BY <2>2, <2>5
<1>8. /\ present' = present /\ forked' = forked /\ failures' = failures
      /\ calls' \in 0..MaxCalls /\ failures' \in Nat /\ failures <= failures'
  BY DEF DeinitObject, ProcessesInv
<1> HIDE DEF new, t, ms, fds, r
<1> QED BY <1>1, <1>5, <1>6, <1>7, <1>8, ProcessStep

(* postForkInit(): the child of a socket pair closes an end. *)
LEMMA PostForkInitKeeps ==
  ASSUME ProcessesInv, ForkInv, LeaksBoundedByFailures, NEW o \in Objects, PostForkInit(o)
  PROVE  ProcessesInv' /\ ForkInv' /\ LeaksBoundedByFailures'
<1> DEFINE p   == "parent"
           t   == tables[p]
           ms  == members[p]
           m   == [ms[o] EXCEPT !.stale = @ \cup {"child"}]
           fds == Numbers(ms[o], {"child"})
           new == [ms EXCEPT ![o] = m]
           r   == robbed[p] \cup NotOwn(o, t, fds)
<1>0. p \in Processes
  BY DEF Processes
<1>1. /\ tables'  = [q \in Processes |-> IF q = p THEN Closed(t, fds) ELSE tables[q]]
      /\ members' = [q \in Processes |-> IF q = p THEN new ELSE members[q]]
      /\ foreign' = [q \in Processes |-> IF q = p THEN foreign[p] ELSE foreign[q]]
      /\ robbed'  = [q \in Processes |-> IF q = p THEN r ELSE robbed[q]]
  BY DEF PostForkInit, PostForkSlot, CloseAll, ProcessesInv
<1>2. /\ Sound(p, t, ms, foreign[p], robbed[p]) /\ IsTable(t) /\ ms = [q \in Objects |-> ms[q]]
      /\ ms[o] \in Members(o) /\ Complete(o, ms[o])
      /\ present \subseteq Objects /\ Orphaned(t, ms) \subseteq Fds
      /\ Orphans = Orphaned(t, ms)
  BY <1>0, OfProcess DEF PostForkInit
<1>3. o \in present /\ Uses(p, o) /\ KindOf[o] = "pair" /\ ms[o].up /\ forked
  BY DEF PostForkInit, Uses
<1>4. /\ m \in Members(o) /\ m.up /\ m.slots = ms[o].slots
      /\ m.stale = ms[o].stale \cup {"child"} /\ Complete(o, m)
      /\ Slots(KindOf[o]) = {"parent", "child"}
  BY <1>2, <1>3, SlotsOf DEF Members, Complete
<1>5. Owns(o, m, Closed(t, fds), r)
  <2> HIDE DEF m
  <2>1. Owns(o, ms[o], t, robbed[p])
    BY <1>2, <1>3 DEF Sound
  <2>2. m.slots["parent"] \in Fds /\ m.slots["child"] \in Fds /\ m.slots["parent"] \notin fds
    BY <1>4 DEF Complete, Numbers
  <2>3. Closed(t, fds)[m.slots["parent"]] = t[m.slots["parent"]]
    BY <1>2, <2>2, ClosedTable
  <2> QED BY <1>4, <2>1, <2>2, <2>3 DEF Owns
<1>6. Sound(p, Closed(t, fds), new, foreign[p], r)
  <2> HIDE DEF m, fds
  <2> QED BY <1>0, <1>2, <1>3, <1>4, <1>5, CloseSound
<1>7. /\ \A q \in Objects : KindOf[q] = "child" => ~new[q].up
      /\ Cardinality(Orphaned(Closed(t, fds), new)) <= failures
  <2>1. \A q \in Objects : KindOf[q] = "child" => ~new[q].up
    BY <1>2, <1>3 DEF ForkInv
  <2>2. ASSUME NEW q \in present, NEW fd \in Fds \ fds, Holds(ms[q], fd)
        PROVE  Holds(new[q], fd)
    <3>1. CASE q = o
      <4>1. new[q] = m
        BY <1>2, <3>1
      <4> HIDE DEF m, new
      <4> QED BY <1>4, <2>2, <3>1, <4>1 DEF Holds, Numbers
    <3>2. CASE q # o
      <4>1. new[q] = ms[q]
        BY <1>2, <3>2
      <4> QED BY <2>2, <4>1
    <3> QED BY <3>1, <3>2
  <2> HIDE DEF new, fds
  <2>3. Orphaned(Closed(t, fds), new) \subseteq Orphaned(t, ms)
    BY <1>2, <2>2, CloseLeaks
  <2>4. Cardinality(Orphaned(t, ms)) <= failures /\ failures \in Nat
    BY <1>2 DEF LeaksBoundedByFailures, ProcessesInv
  <2>5. Cardinality(Orphaned(Closed(t, fds), new)) <= failures
    BY <1>2, <2>3, <2>4, OrphansShrink
  <2> QED BY <2>1, <2>5
<1>8. /\ present' = present /\ forked' = forked /\ failures' = failures
      /\ calls' \in 0..MaxCalls /\ failures' \in Nat /\ failures <= failures'
  BY DEF PostForkInit, ProcessesInv
<1> HIDE DEF new, t, ms, fds, r, p
<1> QED BY <1>0, <1>1, <1>3, <1>6, <1>7, <1>8, ProcessStep

(* The rest of the program opens a file. *)
LEMMA OpenForeignKeeps ==
  ASSUME ProcessesInv, ForkInv, LeaksBoundedByFailures, NEW p \in Processes, OpenForeign(p)
  PROVE  ProcessesInv' /\ ForkInv' /\ LeaksBoundedByFailures'
<1> DEFINE t  == tables[p]
           ms == members[p]
           fd == Lowest(t)
           T  == Opened(t, Foreign)
           f  == foreign[p] \cup {fd}
<1>1. /\ tables'  = [q \in Processes |-> IF q = p THEN T ELSE tables[q]]
      /\ members' = [q \in Processes |-> IF q = p THEN ms ELSE members[q]]
      /\ foreign' = [q \in Processes |-> IF q = p THEN f ELSE foreign[q]]
      /\ robbed'  = [q \in Processes |-> IF q = p THEN robbed[p] ELSE robbed[q]]
  BY DEF OpenForeign, ProcessesInv
<1>2. /\ Sound(p, t, ms, foreign[p], robbed[p]) /\ IsTable(t)
      /\ present \subseteq Objects /\ Orphaned(t, ms) \subseteq Fds
      /\ Orphans = Orphaned(tables["parent"], members["parent"])
  BY OfProcess
<1>3. /\ fd \in Fds /\ t[fd] = Free /\ IsTable(T) /\ T[fd] = Foreign
      /\ \A other \in Fds \ {fd} : T[other] = t[other]
  <2>1. FreeFds(t) # {}
    BY DEF OpenForeign
  <2>2. Foreign.by \in Owners
    BY DEF Owners
  <2> QED BY <1>2, <2>1, <2>2, LowestIsFree, OpenedTable
<1> HIDE DEF T, fd
<1>4. Sound(p, T, ms, f, robbed[p])
  <2>1. \A o \in present : Uses(p, o) /\ (ms[o].up \/ KindOf[o] = "child")
                             => Owns(o, ms[o], T, robbed[p])
    BY <1>2, <1>3, OwnsWhileOpening DEF Sound
  <2>2. \A other \in f : T[other] = Foreign \/ other \in robbed[p]
    BY <1>2, <1>3 DEF Sound
  <2> QED BY <1>2, <1>3, <2>1, <2>2 DEF Sound
<1>5. ~forked => p = "parent" /\ Calm(ms, robbed[p])
  BY DEF OpenForeign, Runs, ForkInv
<1>6. ASSUME p = "parent"
      PROVE  /\ \A o \in Objects : KindOf[o] = "child" => ~ms[o].up
             /\ Cardinality(Orphaned(T, ms)) <= failures
  <2>1. Orphaned(T, ms) \subseteq Orphaned(t, ms)
    BY <1>3, FreeOrForeign DEF Orphaned
  <2>2. Cardinality(Orphaned(t, ms)) <= failures /\ failures \in Nat
    BY <1>2, <1>6 DEF LeaksBoundedByFailures, ProcessesInv
  <2>3. Cardinality(Orphaned(T, ms)) <= failures
    BY <1>2, <2>1, <2>2, OrphansShrink
  <2> QED BY <1>6, <2>3 DEF ForkInv
<1>7. /\ present' = present /\ forked' = forked /\ failures' = failures
      /\ calls' \in 0..MaxCalls /\ failures' \in Nat /\ failures <= failures'
  BY DEF OpenForeign, ProcessesInv
<1> HIDE DEF t, ms, f
<1> QED BY <1>1, <1>4, <1>5, <1>6, <1>7, ProcessStep

(* The rest of the program closes a file of its own. *)
LEMMA CloseForeignKeeps ==
  ASSUME ProcessesInv, ForkInv, LeaksBoundedByFailures, NEW p \in Processes, CloseForeign(p)
  PROVE  ProcessesInv' /\ ForkInv' /\ LeaksBoundedByFailures'
<1> DEFINE t  == tables[p]
           ms == members[p]
<1>0. PICK fd \in foreign[p] :
        /\ t[fd] = Foreign
        /\ tables' = [tables EXCEPT ![p] = Closed(t, {fd})]
        /\ foreign' = [foreign EXCEPT ![p] = foreign[p] \ {fd}]
  BY DEF CloseForeign
<1> DEFINE T == Closed(t, {fd})
           f == foreign[p] \ {fd}
<1>1. /\ tables'  = [q \in Processes |-> IF q = p THEN T ELSE tables[q]]
      /\ members' = [q \in Processes |-> IF q = p THEN ms ELSE members[q]]
      /\ foreign' = [q \in Processes |-> IF q = p THEN f ELSE foreign[q]]
      /\ robbed'  = [q \in Processes |-> IF q = p THEN robbed[p] ELSE robbed[q]]
  BY <1>0 DEF CloseForeign, ProcessesInv
<1>2. /\ Sound(p, t, ms, foreign[p], robbed[p]) /\ IsTable(t)
      /\ present \subseteq Objects /\ Orphaned(t, ms) \subseteq Fds
      /\ Orphans = Orphaned(tables["parent"], members["parent"])
  BY OfProcess
<1>3. IsTable(T) /\ \A other \in Fds \ {fd} : T[other] = t[other]
  BY <1>2, ClosedTable
<1>4. Orphaned(T, ms) \subseteq Orphaned(t, ms)
  BY <1>2, CloseLeaks
<1> HIDE DEF T
<1>5. Sound(p, T, ms, f, robbed[p])
  <2>1. ASSUME NEW o \in present, Uses(p, o), ms[o].up \/ KindOf[o] = "child"
        PROVE  Owns(o, ms[o], T, robbed[p])
    <3>1. Owns(o, ms[o], t, robbed[p])
      BY <1>2, <2>1 DEF Sound
    <3>2. \A s \in Slots(KindOf[o]) : FileOf(o, s) # Foreign
      BY <1>2, FilesAreNotFree
    <3> QED BY <1>0, <1>3, <3>1, <3>2 DEF Owns
  <2>2. \A other \in f : T[other] = Foreign \/ other \in robbed[p]
    BY <1>2, <1>3 DEF Sound
  <2> QED BY <1>2, <1>3, <2>1, <2>2 DEF Sound
<1>6. ~forked => p = "parent" /\ Calm(ms, robbed[p])
  BY DEF CloseForeign, Runs, ForkInv
<1>7. ASSUME p = "parent"
      PROVE  /\ \A o \in Objects : KindOf[o] = "child" => ~ms[o].up
             /\ Cardinality(Orphaned(T, ms)) <= failures
  <2>1. Cardinality(Orphaned(t, ms)) <= failures /\ failures \in Nat
    BY <1>2, <1>7 DEF LeaksBoundedByFailures, ProcessesInv
  <2>2. Cardinality(Orphaned(T, ms)) <= failures
    BY <1>2, <1>4, <2>1, OrphansShrink
  <2> QED BY <1>7, <2>2 DEF ForkInv
<1>8. /\ present' = present /\ forked' = forked /\ failures' = failures
      /\ calls' \in 0..MaxCalls /\ failures' \in Nat /\ failures <= failures'
  BY DEF CloseForeign, ProcessesInv
<1> HIDE DEF t, ms, f
<1> QED BY <1>1, <1>5, <1>6, <1>7, <1>8, ProcessStep

(* fork(): the child gets a copy of the table and of the members. *)
LEMMA ForkKeeps ==
  ASSUME ProcessesInv, ForkInv, LeaksBoundedByFailures, NEW o \in Objects, Fork(o)
  PROVE  ProcessesInv' /\ ForkInv' /\ LeaksBoundedByFailures'
<1> DEFINE t   == tables["parent"]
           ms  == members["parent"]
           new == [c \in Objects |->
                     IF KindOf[c] = "child"
                     THEN [Constructed(c) EXCEPT !.slots["child"] = ms[o].slots["child"]]
                     ELSE ms[c]]
<1>1. /\ tables' = [tables EXCEPT !["child"] = t] /\ members' = [members EXCEPT !["child"] = new]
      /\ foreign' = [foreign EXCEPT !["child"] = foreign["parent"]] /\ robbed' = robbed
      /\ present' = present /\ calls' = calls /\ failures' = failures /\ forked' /\ ~forked
      /\ o \in present /\ KindOf[o] = "pair" /\ ms[o].up
  BY DEF Fork
<1>2. /\ Sound("parent", t, ms, foreign["parent"], robbed["parent"])
      /\ ms[o] \in Members(o) /\ Complete(o, ms[o]) /\ present \subseteq Objects
  BY <1>1, OfProcess DEF Processes
<1>3. /\ robbed["parent"] = {} /\ robbed["child"] = {} /\ ms[o].stale = {}
  BY <1>1 DEF ForkInv, Calm
<1>4. /\ ms[o].slots["child"] \in Fds
      /\ t[ms[o].slots["child"]] = FileOf(o, "child")
  <2>1. Uses("parent", o) /\ "child" \in Slots(KindOf[o])
    BY <1>1, SlotsOf DEF Uses
  <2>2. Owns(o, ms[o], t, {})
    BY <1>1, <1>2, <1>3, <2>1 DEF Sound
  <2> QED BY <1>3, <2>1, <2>2 DEF Owns
<1>5. ASSUME NEW c \in Objects, KindOf[c] = "child"
      PROVE  /\ new[c] \in Members(c) /\ ~new[c].up
             /\ Owns(c, new[c], t, {})
  <2>1. Slots(KindOf[c]) = {"child"}
    BY <1>5, SlotsOf
  <2>2. new[c] = [up |-> FALSE, slots |-> [s \in {"child"} |-> ms[o].slots["child"]], stale |-> {}]
    BY <1>5, <2>1 DEF Constructed
  <2>3. FileOf(c, "child") = FileOf(o, "child")
    <3>1. Maker(c) = o
      <4>1. \A m \in Objects : KindOf[m] = "pair" <=> m = o
        BY <1>1, LifecycleAssumption
      <4> QED BY <1>5, <4>1 DEF Maker
    <3>2. Maker(o) = o
      BY <1>1 DEF Maker
    <3> QED BY <3>1, <3>2 DEF FileOf
  <2>4. new[c] \in Members(c) /\ ~new[c].up
    <3>1. PICK slots : slots = [s \in {"child"} |-> ms[o].slots["child"]]
      OBVIOUS
    <3>2. slots \in [Slots(KindOf[c]) -> Fds \cup {NoFd}]
      BY <1>4, <2>1, <3>1
    <3>3. new[c] = [up |-> FALSE, slots |-> slots, stale |-> {}]
      BY <2>2, <3>1
    <3> HIDE DEF new
    <3> QED BY <3>2, <3>3 DEF Members
  <2>5. new[c].slots["child"] = ms[o].slots["child"]
    BY <2>2
  <2> HIDE DEF new
  <2>6. Owns(c, new[c], t, {})
    BY <1>4, <2>1, <2>3, <2>5 DEF Owns
  <2> QED BY <2>4, <2>6
<1>6. ASSUME NEW c \in Objects, KindOf[c] # "child"
      PROVE  new[c] = ms[c]
  BY <1>6
<1>7. new = [c \in Objects |-> new[c]]
  OBVIOUS
<1> HIDE DEF new
<1>8. /\ tables'["child"] = t /\ members'["child"] = new
      /\ foreign'["child"] = foreign["parent"] /\ robbed'["child"] = {}
      /\ tables'["parent"] = t /\ members'["parent"] = ms
      /\ foreign'["parent"] = foreign["parent"] /\ robbed'["parent"] = robbed["parent"]
  BY <1>1, <1>3 DEF ProcessesInv, Processes
<1> HIDE DEF t, ms
<1>9. Sound("child", tables["child"], members["child"], foreign["child"], robbed["child"])'
  <2>1. \A c \in Objects : new[c] \in Members(c) /\ (new[c].up => Complete(c, new[c]))
    BY <1>2, <1>5, <1>6 DEF Sound
  <2>2. ASSUME NEW c \in present', Uses("child", c)' PROVE Owns(c, new[c], t, {})
    <3>1. c \in Objects /\ KindOf[c] = "child"
      BY <1>1, <1>2, <2>2 DEF Uses
    <3> QED BY <1>5, <3>1
  <2>3. \A fd \in foreign["parent"] : t[fd] = Foreign
    BY <1>2, <1>3 DEF Sound
  <2>4. IsTable(t) /\ foreign["parent"] \subseteq Fds
    BY <1>2 DEF Sound
  <2> QED BY <1>7, <1>8, <2>1, <2>2, <2>3, <2>4 DEF Sound
<1>10. Sound("parent", tables["parent"], members["parent"], foreign["parent"], robbed["parent"])'
  <2>1. \A c : Uses("parent", c)' <=> Uses("parent", c)
    BY <1>1 DEF Uses
  <2> QED BY <1>1, <1>2, <1>8, <2>1 DEF Sound
<1>11. ProcessesInv'
  <2>1. \A p \in Processes : Sound(p, tables[p], members[p], foreign[p], robbed[p])'
    BY <1>9, <1>10 DEF Processes
  <2> QED BY <1>1, <1>2, <2>1 DEF ProcessesInv
<1>12. ForkInv'
  BY <1>1, <1>8 DEF ForkInv, ms
<1>13. LeaksBoundedByFailures'
  <2>1. Orphans' = Orphans
    BY <1>1, <1>8 DEF Orphans, t, ms
  <2> QED BY <1>1, <2>1 DEF LeaksBoundedByFailures
<1> QED BY <1>11, <1>12, <1>13

-----------------------------------------------------------------------------
(* The node's processor *)

(* Without a fork, the parent process has everything, and nobody is robbed. *)
Parent(t, ms) ==
  /\ Sound("parent", t, ms, foreign["parent"], {}) /\ Calm(ms, {})
  /\ \A o \in Objects : KindOf[o] = "child" => ~ms[o].up

(* In a program with a node, one process has all the files, and only the   *)
(* transceiver in the slot is up.                                          *)
LEMMA NodeFiles ==
  ASSUME ProcessesInv, ForkInv, NodeInv, LeaksBoundedByFailures, transport # "none"
  PROVE  /\ Parent(table, member) /\ robbed["parent"] = {} /\ ~forked
         /\ Cardinality(Orphaned(table, member)) <= failures /\ failures \in Nat
         /\ present \subseteq Objects /\ NoObject \notin Objects
         /\ slot # NoObject => slot \in present /\ member[slot].up
         /\ \A o \in present : o # slot => ~member[o].up
<1>1. Parent(table, member) /\ robbed["parent"] = {} /\ ~forked
  BY DEF NodeInv, ForkInv, ProcessesInv, Parent, Calm, Processes, table, member
<1>2. "parent" \in Processes
  BY DEF Processes
<1>3. Cardinality(Orphaned(table, member)) <= failures /\ failures \in Nat
  BY <1>2, OfProcess DEF LeaksBoundedByFailures, ProcessesInv, table, member
<1> QED BY <1>1, <1>3, NodeAssumption DEF ProcessesInv, NodeInv, member

ParentBecomes(t, ms) ==
  /\ tables' = [tables EXCEPT !["parent"] = t]
  /\ members' = [members EXCEPT !["parent"] = ms]
  /\ UNCHANGED <<present, foreign, forked, robbed>>

(* A step on the files of a program with a node keeps what is said of      *)
(* processes.                                                              *)
LEMMA ParentStep ==
  ASSUME ProcessesInv, ForkInv, NodeInv, LeaksBoundedByFailures, transport # "none",
         NEW t, NEW ms, Parent(t, ms), Cardinality(Orphaned(t, ms)) <= failures',
         ParentBecomes(t, ms), calls' \in 0..MaxCalls, failures' \in Nat, failures <= failures'
  PROVE  ProcessesInv' /\ ForkInv' /\ LeaksBoundedByFailures' /\ members'["parent"] = ms
<1>1. PICK p \in Processes : p = "parent"
  BY DEF Processes
<1>2. robbed[p] = {} /\ ~forked
  BY <1>1, NodeFiles
<1>3. /\ Sound(p, t, ms, foreign[p], robbed[p])
      /\ ~forked => p = "parent" /\ Calm(ms, robbed[p])
      /\ p = "parent" => /\ \A o \in Objects : KindOf[o] = "child" => ~ms[o].up
                         /\ Cardinality(Orphaned(t, ms)) <= failures'
  BY <1>1, <1>2 DEF Parent
<1>4. /\ tables'  = [q \in Processes |-> IF q = p THEN t ELSE tables[q]]
      /\ members' = [q \in Processes |-> IF q = p THEN ms ELSE members[q]]
      /\ foreign' = [q \in Processes |-> IF q = p THEN foreign[p] ELSE foreign[q]]
      /\ robbed'  = [q \in Processes |-> IF q = p THEN robbed[p] ELSE robbed[q]]
  BY <1>1 DEF ProcessesInv, ParentBecomes
<1>5. present' = present /\ forked' = forked
  BY DEF ParentBecomes
<1>6. ProcessesInv' /\ ForkInv' /\ LeaksBoundedByFailures'
  BY <1>3, <1>4, <1>5, ProcessStep
<1> QED BY <1>1, <1>4, <1>6

(* A transceiver that is made and inited. *)
FreshlyInited(o, t, ms, x, new) ==
  /\ Inits(o, Constructed(o), t, x)
  /\ Parent(x.table, new)
  /\ \A q \in Objects : new[q] = IF q = o THEN x.m ELSE ms[q]
  /\ Orphaned(x.table, new) \subseteq Orphaned(t, ms) \cup Changed(t, x.table)
  /\ x.result = "true" => Orphaned(x.table, new) \subseteq Orphaned(t, ms)

(* A new transceiver is inited by the constructor of a processor or by     *)
(* setTransceiver().                                                       *)
LEMMA FreshInits ==
  ASSUME present \subseteq Objects, NEW t, NEW ms, Parent(t, ms),
         NEW o \in present, ~ms[o].up, NEW x \in InitOutcomes(o, Constructed(o), t),
         NEW new, new = [ms EXCEPT ![o] = x.m]
  PROVE  FreshlyInited(o, t, ms, x, new)
<1> DEFINE m == Constructed(o)
<1>1. m \in Members(o) /\ ~m.up /\ m.slots = [s \in Slots(KindOf[o]) |-> NoFd] /\ m.stale = {}
  BY DEF Constructed, Members
<1>2. /\ Sound("parent", t, ms, foreign["parent"], {}) /\ IsTable(t)
      /\ ms = [q \in Objects |-> ms[q]]
  BY DEF Parent, Sound
<1> HIDE DEF m
<1>3. Inits(o, m, t, x)
  BY <1>1, <1>2, ObjectInits DEF m
<1>4. KindOf[o] = "child" => ~x.m.up
  <2> SUFFICES ASSUME KindOf[o] = "child", x.m.up PROVE FALSE
    OBVIOUS
  <2>1. x.m.slots["child"] \in Fds /\ x.m.slots["child"] = NoFd
    BY <1>1, <1>3, SlotsOf DEF Inits, Complete
  <2> QED BY <2>1, LifecycleAssumption DEF Fds, NoFd
<1>5. ~Uses("parent", o) \/ KindOf[o] # "child"
  BY DEF Uses
<1>6. "parent" \in Processes
  BY DEF Processes
<1>7. Sound("parent", x.table, new, foreign["parent"], {})
  BY <1>1, <1>2, <1>3, <1>5, <1>6, InitSound
<1>8. Calm(new, {})
  BY <1>1, <1>2, <1>3, <1>4, InitCalm DEF Parent
<1>9. /\ \A q \in Objects : new[q] = IF q = o THEN x.m ELSE ms[q]
      /\ \A q \in Objects : KindOf[q] = "child" => ~new[q].up
  BY <1>2, <1>4 DEF Parent
<1>10. /\ Orphaned(x.table, new) \subseteq Orphaned(t, ms) \cup Changed(t, x.table)
       /\ x.result = "true" => Orphaned(x.table, new) \subseteq Orphaned(t, ms)
  BY <1>1, <1>2, <1>3, InitLeaks
<1> QED BY <1>3, <1>7, <1>8, <1>9, <1>10 DEF FreshlyInited, Parent, m

(* The transceiver in the slot is deinited. *)
LEMMA SlotDeinits ==
  ASSUME present \subseteq Objects, NEW t, NEW ms, Parent(t, ms), NoObject \notin Objects,
         slot # NoObject => slot \in present /\ ms[slot].up,
         NEW fds, fds = IF slot = NoObject THEN {} ELSE ToClose(slot, ms[slot]),
         NEW new, new = [o \in Objects |-> IF o = slot THEN Deinited(ms[o]) ELSE ms[o]],
         slot \in present \cup {NoObject}
  PROVE  /\ Parent(Closed(t, fds), new)
         /\ Orphaned(Closed(t, fds), new) \subseteq Orphaned(t, ms)
         /\ slot # NoObject => NotOwn(slot, t, fds) = {}
         /\ \A o \in Objects : o # slot => new[o] = ms[o]
         /\ slot # NoObject => ~new[slot].up
<1>1. /\ Sound("parent", t, ms, foreign["parent"], {}) /\ IsTable(t) /\ Calm(ms, {})
      /\ ms = [q \in Objects |-> ms[q]]
  BY DEF Parent, Sound
<1>2. CASE slot = NoObject
  <2>1. fds = {} /\ new = ms
    BY <1>1, <1>2
  <2>2. Closed(t, fds) = t
    BY <1>1, <2>1 DEF Closed, IsTable
  <2> QED BY <1>2, <2>1, <2>2
<1>3. CASE slot # NoObject
  <2>1. new = [ms EXCEPT ![slot] = Deinited(ms[slot])] /\ fds = ToClose(slot, ms[slot])
    BY <1>1, <1>3
  <2>2. "parent" \in Processes /\ Uses("parent", slot) /\ slot \in present /\ ms[slot].up
    BY <1>3 DEF Parent, Uses, Processes
  <2>3. NotOwn(slot, t, fds) = {} /\ Calm(new, {})
    BY <1>1, <2>1, <2>2, DeinitCalm
  <2>4. Sound("parent", Closed(t, fds), new, foreign["parent"], {})
    <3>1. Sound("parent", Closed(t, fds), new, foreign["parent"], {} \cup NotOwn(slot, t, fds))
      BY <1>1, <2>1, <2>2, DeinitSound
    <3> QED BY <2>3, <3>1
  <2>5. ~Deinited(ms[slot]).up
    BY <1>1, <2>2, DeinitMembers DEF Sound
  <2>6. \A q \in Objects : KindOf[q] = "child" => ~new[q].up
    BY <2>5 DEF Parent
  <2>7. Orphaned(Closed(t, fds), new) \subseteq Orphaned(t, ms)
    BY <1>1, <2>1, <2>2, DeinitLeaks
  <2> QED BY <2>3, <2>4, <2>5, <2>6, <2>7 DEF Parent
<1> QED BY <1>2, <1>3

(* The slot tells which object is initialized. *)
SlotIsUp == \A o \in present : members["parent"][o].up <=> slot = o

Kept == ProcessesInv /\ ForkInv /\ LeaksBoundedByFailures

(* The transceiver that leaves the slot has no stale numbers, and robs     *)
(* nobody.                                                                 *)
LEMMA RobbedByNone ==
  ASSUME Kept, NodeInv, transport # "none", RobbedBySlot
  PROVE  robbed' = robbed
<1>1. /\ Parent(table, member) /\ present \subseteq Objects /\ NoObject \notin Objects
      /\ slot # NoObject => slot \in present /\ member[slot].up
      /\ slot \in present \cup {NoObject}
  BY NodeFiles DEF Kept, NodeInv
<1>2. slot # NoObject => NotOwn(slot, table, SlotFds) = {}
  <2>1. SlotDeinited = [o \in Objects |-> IF o = slot THEN Deinited(member[o]) ELSE member[o]]
    BY DEF SlotDeinited
  <2>2. SlotFds = IF slot = NoObject THEN {} ELSE ToClose(slot, member[slot])
    BY DEF SlotFds
  <2> QED BY <1>1, <2>1, <2>2, SlotDeinits
<1>3. robbed' = [robbed EXCEPT !["parent"] = robbed["parent"]]
  BY <1>2 DEF RobbedBySlot
<1> QED BY <1>3 DEF Kept, ProcessesInv

(* setTransceiver(): deinit() of the one in the slot, init() of the other. *)
LEMMA SetTransceiverKeeps ==
  ASSUME Kept, NodeInv, transport # "none", NEW o \in present, o # slot, NEW result,
         SetTransceiver(o, result), UNCHANGED <<present, foreign, forked>>, calls' \in 0..MaxCalls
  PROVE  Kept' /\ SlotIsUp' /\ slot' \in present \cup {NoObject}
<1> DEFINE t1  == Closed(table, SlotFds)
           ms1 == SlotDeinited
<1>1. /\ Parent(table, member) /\ present \subseteq Objects /\ NoObject \notin Objects
      /\ slot # NoObject => slot \in present /\ member[slot].up
      /\ slot \in present \cup {NoObject}
      /\ Cardinality(Orphaned(table, member)) <= failures /\ failures \in Nat
      /\ \A q \in present : q # slot => ~member[q].up
  BY NodeFiles DEF Kept, NodeInv
<1>2. /\ Parent(t1, ms1) /\ Orphaned(t1, ms1) \subseteq Orphaned(table, member)
      /\ \A q \in Objects : q # slot => ms1[q] = member[q]
      /\ slot # NoObject => ~ms1[slot].up
  <2>1. ms1 = [q \in Objects |-> IF q = slot THEN Deinited(member[q]) ELSE member[q]]
    BY DEF SlotDeinited
  <2>2. SlotFds = IF slot = NoObject THEN {} ELSE ToClose(slot, member[slot])
    BY DEF SlotFds
  <2> HIDE DEF ms1
  <2> QED BY <1>1, <2>1, <2>2, SlotDeinits
<1>3. \A q \in present : ~ms1[q].up
  BY <1>1, <1>2
<1>4. PICK x \in InitOutcomes(o, Constructed(o), t1) :
        /\ x.result = result
        /\ tables' = [tables EXCEPT !["parent"] = x.table]
        /\ members' = [members EXCEPT !["parent"] = [ms1 EXCEPT ![o] = x.m]]
  BY DEF SetTransceiver, TableForInit
<1> DEFINE new == [ms1 EXCEPT ![o] = x.m]
<1> HIDE DEF t1, ms1
<1>5. /\ Inits(o, Constructed(o), t1, x) /\ Parent(x.table, new)
      /\ \A q \in Objects : new[q] = IF q = o THEN x.m ELSE ms1[q]
      /\ Orphaned(x.table, new) \subseteq Orphaned(t1, ms1) \cup Changed(t1, x.table)
      /\ x.result = "true" => Orphaned(x.table, new) \subseteq Orphaned(t1, ms1)
  <2>1. ~ms1[o].up /\ Parent(t1, ms1) /\ x \in InitOutcomes(o, Constructed(o), t1)
    BY <1>2, <1>3, <1>4
  <2>2. present \subseteq Objects /\ new = [ms1 EXCEPT ![o] = x.m]
    BY <1>1
  <2> HIDE DEF new
  <2>3. FreshlyInited(o, t1, ms1, x, new)
    BY <2>1, <2>2, FreshInits
  <2> QED BY <2>3 DEF FreshlyInited
<1> HIDE DEF new
<1>6. MayLeave(o) \in Nat /\ Cardinality(Changed(t1, x.table)) <= MayLeave(o)
  BY <1>1, <1>5, ChangedBound
<1>7. /\ Orphaned(x.table, new) \subseteq Fds /\ Changed(t1, x.table) \subseteq Fds
      /\ Orphaned(table, member) \subseteq Fds
  BY DEF Orphaned, Changed
<1>8. /\ Cardinality(Orphaned(x.table, new)) <= failures'
      /\ failures' \in Nat /\ failures <= failures'
  <2>1. CASE result = "true"
    <3>1. failures' = failures
      BY <2>1 DEF SetTransceiver, Count
    <3>2. Orphaned(x.table, new) \subseteq Orphaned(table, member)
      BY <1>2, <1>4, <1>5, <2>1
    <3>3. Cardinality(Orphaned(x.table, new)) <= failures
      BY <1>1, <1>7, <3>2, OrphansShrink
    <3> QED BY <1>1, <3>1, <3>3
  <2>2. CASE result # "true"
    <3>1. failures' = failures + MayLeave(o)
      BY <2>2 DEF SetTransceiver, Count
    <3>2. Orphaned(x.table, new) \subseteq Orphaned(table, member) \cup Changed(t1, x.table)
      BY <1>2, <1>5
    <3>3. Cardinality(Orphaned(x.table, new)) <= failures + MayLeave(o)
      BY <1>1, <1>6, <1>7, <3>2, OrphansGrow
    <3> QED BY <1>1, <1>6, <3>1, <3>3
  <2> QED BY <2>1, <2>2
<1>9. ParentBecomes(x.table, new)
  <2>1. robbed' = robbed
    BY RobbedByNone DEF SetTransceiver
  <2> QED BY <1>4, <2>1 DEF ParentBecomes, new
<1>10. Kept' /\ members'["parent"] = new
  BY <1>5, <1>8, <1>9, ParentStep DEF Kept
<1>11. slot' = IF result = "true" THEN o ELSE NoObject
  BY DEF SetTransceiver
<1>12. x.m.up <=> result = "true"
  BY <1>4, <1>5 DEF Inits
<1>13. \A q \in present : new[q].up <=> slot' = q
  BY <1>1, <1>3, <1>5, <1>11, <1>12
<1> QED BY <1>10, <1>11, <1>13 DEF SlotIsUp

(* The slot is emptied. *)
LEMMA SlotEmptied ==
  ASSUME Kept, NodeInv, transport # "none", RobbedBySlot, slot' = NoObject,
         tables' = [tables EXCEPT !["parent"] = Closed(tables["parent"], SlotFds)],
         members' = [members EXCEPT !["parent"] = SlotDeinited],
         UNCHANGED <<present, foreign, forked, failures>>, calls' \in 0..MaxCalls
  PROVE  Kept' /\ SlotIsUp'
<1> DEFINE t1  == Closed(table, SlotFds)
           ms1 == SlotDeinited
<1>1. /\ Parent(table, member) /\ present \subseteq Objects /\ NoObject \notin Objects
      /\ slot # NoObject => slot \in present /\ member[slot].up
      /\ slot \in present \cup {NoObject}
      /\ Cardinality(Orphaned(table, member)) <= failures /\ failures \in Nat
      /\ \A q \in present : q # slot => ~member[q].up
  BY NodeFiles DEF Kept, NodeInv
<1>2. /\ Parent(t1, ms1) /\ Orphaned(t1, ms1) \subseteq Orphaned(table, member)
      /\ \A q \in Objects : q # slot => ms1[q] = member[q]
      /\ slot # NoObject => ~ms1[slot].up
  <2>1. ms1 = [q \in Objects |-> IF q = slot THEN Deinited(member[q]) ELSE member[q]]
    BY DEF SlotDeinited
  <2>2. SlotFds = IF slot = NoObject THEN {} ELSE ToClose(slot, member[slot])
    BY DEF SlotFds
  <2> HIDE DEF ms1
  <2> QED BY <1>1, <2>1, <2>2, SlotDeinits
<1>3. ParentBecomes(t1, ms1)
  <2>1. robbed' = robbed
    BY RobbedByNone
  <2> QED BY <2>1 DEF ParentBecomes, table
<1> HIDE DEF t1, ms1
<1>4. Cardinality(Orphaned(t1, ms1)) <= failures
  <2>1. Orphaned(t1, ms1) \subseteq Fds /\ Orphaned(table, member) \subseteq Fds
    BY DEF Orphaned
  <2> QED BY <1>1, <1>2, <2>1, OrphansShrink
<1>5. failures' = failures
  OBVIOUS
<1>6. Kept' /\ members'["parent"] = ms1
  BY <1>1, <1>2, <1>3, <1>4, <1>5, ParentStep DEF Kept
<1>7. \A q \in present : ~ms1[q].up /\ q # NoObject
  BY <1>1, <1>2
<1> QED BY <1>6, <1>7 DEF SlotIsUp

(* The new transceiver is inited, the old one is deinited, and the slot    *)
(* holds the new one.                                                      *)
LEMMA SlotReplaced ==
  ASSUME Kept, NodeInv, transport # "none", NEW o \in present, o # slot, slot' = o, RobbedBySlot,
         NEW x \in InitOutcomes(o, Constructed(o), table), x.result = "true",
         tables' = [tables EXCEPT !["parent"] = Closed(x.table, SlotFds)],
         members' = [members EXCEPT !["parent"] = [SlotDeinited EXCEPT ![o] = x.m]],
         UNCHANGED <<present, foreign, forked, failures>>, calls' \in 0..MaxCalls
  PROVE  Kept' /\ SlotIsUp'
<1> DEFINE ms1 == [member EXCEPT ![o] = x.m]
           new == [SlotDeinited EXCEPT ![o] = x.m]
           t1  == Closed(x.table, SlotFds)
<1>1. /\ Parent(table, member) /\ present \subseteq Objects /\ NoObject \notin Objects
      /\ slot # NoObject => slot \in present /\ member[slot].up
      /\ slot \in present \cup {NoObject}
      /\ Cardinality(Orphaned(table, member)) <= failures /\ failures \in Nat
      /\ \A q \in present : q # slot => ~member[q].up
  BY NodeFiles DEF Kept, NodeInv
<1>2. FreshlyInited(o, table, member, x, ms1)
  <2>1. ms1 = [member EXCEPT ![o] = x.m] /\ ~member[o].up
    BY <1>1
  <2> HIDE DEF ms1
  <2> QED BY <1>1, <2>1, FreshInits
<1>3. /\ Parent(x.table, ms1) /\ ms1 = [q \in Objects |-> ms1[q]]
      /\ \A q \in Objects : ms1[q] = IF q = o THEN x.m ELSE member[q]
      /\ Orphaned(x.table, ms1) \subseteq Orphaned(table, member)
      /\ x.m.up
  <2> HIDE DEF ms1
  <2> QED BY <1>2 DEF FreshlyInited, Inits, Parent, Sound
<1>4. /\ new = [q \in Objects |-> IF q = slot THEN Deinited(ms1[q]) ELSE ms1[q]]
      /\ SlotFds = IF slot = NoObject THEN {} ELSE ToClose(slot, ms1[slot])
  <2> HIDE DEF ms1
  <2>1. slot # NoObject => ms1[slot] = member[slot]
    BY <1>1, <1>3
  <2>2. SlotFds = IF slot = NoObject THEN {} ELSE ToClose(slot, ms1[slot])
    BY <2>1 DEF SlotFds
  <2>3. new = [q \in Objects |-> IF q = o THEN x.m ELSE SlotDeinited[q]]
    BY DEF SlotDeinited
  <2>4. ASSUME NEW q \in Objects
        PROVE  (IF q = o THEN x.m ELSE SlotDeinited[q])
                 = IF q = slot THEN Deinited(ms1[q]) ELSE ms1[q]
    <3>1. SlotDeinited[q] = IF q = slot THEN Deinited(member[q]) ELSE member[q]
      BY DEF SlotDeinited
    <3>2. ms1[q] = IF q = o THEN x.m ELSE member[q]
      BY <1>3
    <3> QED BY <3>1, <3>2
  <2> HIDE DEF new
  <2> QED BY <2>2, <2>3, <2>4
<1> HIDE DEF ms1, new
<1>5. /\ Parent(t1, new) /\ Orphaned(t1, new) \subseteq Orphaned(x.table, ms1)
      /\ \A q \in Objects : q # slot => new[q] = ms1[q]
      /\ slot # NoObject => ~new[slot].up
  <2>1. slot # NoObject => slot \in present /\ ms1[slot].up
    BY <1>1, <1>3
  <2> QED BY <1>1, <1>3, <1>4, <2>1, SlotDeinits
<1>6. ParentBecomes(t1, new)
  <2>1. robbed' = robbed
    BY RobbedByNone
  <2> QED BY <2>1 DEF ParentBecomes, new
<1> HIDE DEF t1
<1>7. Cardinality(Orphaned(t1, new)) <= failures
  <2>1. /\ Orphaned(t1, new) \subseteq Fds /\ Orphaned(table, member) \subseteq Fds
        /\ Orphaned(t1, new) \subseteq Orphaned(table, member)
    BY <1>3, <1>5 DEF Orphaned
  <2> QED BY <1>1, <2>1, OrphansShrink
<1>8. failures' = failures
  OBVIOUS
<1>9. Kept' /\ members'["parent"] = new
  BY <1>1, <1>5, <1>6, <1>7, <1>8, ParentStep DEF Kept
<1>10. \A q \in present : new[q].up <=> slot' = q
  BY <1>1, <1>3, <1>5
<1> QED BY <1>9, <1>10 DEF SlotIsUp

(* A constructor that throws drops a transceiver that may have left files  *)
(* open.                                                                   *)
LEMMA ConstructorThrowsKeeps ==
  ASSUME Kept, NodeInv, transport # "none", NEW o \in present, ConstructorThrows(o), o # slot
  PROVE  Kept' /\ SlotIsUp'
<1>1. /\ Parent(table, member) /\ present \subseteq Objects
      /\ Cardinality(Orphaned(table, member)) <= failures /\ failures \in Nat
      /\ ~member[o].up
  BY NodeFiles DEF Kept, NodeInv
<1>2. PICK x \in InitOutcomes(o, Constructed(o), table) :
        tables' = [tables EXCEPT !["parent"] = x.table]
  BY DEF ConstructorThrows
<1>3. Inits(o, Constructed(o), table, x)
  <2>1. PICK new : new = [member EXCEPT ![o] = x.m]
    OBVIOUS
  <2>2. FreshlyInited(o, table, member, x, new)
    BY <1>1, <2>1, FreshInits
  <2> QED BY <2>2 DEF FreshlyInited
<1>4. Opens(o, table, x.table) /\ IsTable(x.table)
  BY <1>3 DEF Inits, Opens
<1>5. Parent(x.table, member)
  <2>1. \A fd \in Fds : x.table[fd] = table[fd] \/ table[fd] = Free
    BY <1>4, OpeningFrees
  <2>2. Foreign # Free
    BY DEF Foreign, Free
  <2>3. ASSUME NEW q \in present, Owns(q, member[q], table, {})
        PROVE  Owns(q, member[q], x.table, {})
    BY <1>1, <2>1, <2>3, OwnsWhileOpening
  <2>4. \A fd \in foreign["parent"] : x.table[fd] = Foreign
    BY <1>1, <2>1, <2>2 DEF Parent, Sound
  <2> QED BY <1>1, <1>4, <2>3, <2>4 DEF Parent, Sound
<1>6. /\ MayLeave(o) \in Nat /\ failures' = failures + MayLeave(o)
      /\ Cardinality(Orphaned(x.table, member)) <= failures'
  <2>1. MayLeave(o) \in Nat /\ Cardinality(Changed(table, x.table)) <= MayLeave(o)
    BY <1>1, <1>3, ChangedBound
  <2>2. /\ Orphaned(x.table, member) \subseteq Fds /\ Orphaned(table, member) \subseteq Fds
        /\ Changed(table, x.table) \subseteq Fds
        /\ Orphaned(x.table, member) \subseteq Orphaned(table, member) \cup Changed(table, x.table)
    BY DEF Orphaned, Changed
  <2>3. Cardinality(Orphaned(x.table, member)) <= failures + MayLeave(o)
    BY <1>1, <2>1, <2>2, OrphansGrow
  <2> QED BY <2>1, <2>3 DEF ConstructorThrows
<1>7. ParentBecomes(x.table, member)
  <2>1. members' = [members EXCEPT !["parent"] = member]
    BY DEF ConstructorThrows, Kept, ProcessesInv, member
  <2> QED BY <1>2, <2>1 DEF ParentBecomes, ConstructorThrows, Unchanged
<1>8. calls' \in 0..MaxCalls
  BY LifecycleAssumption DEF ConstructorThrows, MayCall, Kept, ProcessesInv
<1>9. Kept'
  BY <1>1, <1>5, <1>6, <1>7, <1>8, ParentStep DEF Kept
<1>10. SlotIsUp'
  BY DEF ConstructorThrows, Unchanged, SlotIsUp, NodeInv
<1> QED BY <1>9, <1>10

(* Calls are made only while there are any left. *)
LEMMA CallsBounded ==
  ASSUME Kept, MayCall
  PROVE  calls' \in 0..MaxCalls
BY LifecycleAssumption DEF MayCall, Kept, ProcessesInv

(* A transceiver that is made is new. *)
LEMMA FreshObject ==
  ASSUME NEW kind, \E o \in present : KindOf[o] = kind /\ o \notin InUse
  PROVE  Fresh(kind) \in present /\ Fresh(kind) # slot /\ Fresh(kind) # made
BY DEF Fresh, InUse

(* A step of the node or of the processor's owner. *)
LEMMA NodeStep ==
  ASSUME NodeInv, transport # "none", Kept', SlotIsUp', slot' \in present \cup {NoObject},
         UNCHANGED <<present, forked, transport>>,
         processor' \in BOOLEAN, locked' \in BOOLEAN, made' \in present \cup {NoObject},
         node' \in {"idle", "check", "make", "recheck", "install", "process",
                    "crashed", "exited", "hung"},
         made' # NoObject <=> node' \in {"recheck", "install"},
         made' = slot' => made' = NoObject
  PROVE  FilesInv'
<1>1. SlotIsUp' <=> \A o \in present : members'["parent"][o].up <=> slot' = o
  BY DEF SlotIsUp
<1>2. NodeInv'
  BY <1>1 DEF NodeInv
<1> QED BY <1>2 DEF Kept, FilesInv

(* A step that changes no file. *)
LEMMA KeptUnchanged ==
  ASSUME Kept, UNCHANGED lifecycleVars
  PROVE  Kept'
<1>1. Orphans' = Orphans
  BY DEF Orphans, lifecycleVars
<1>2. LeaksBoundedByFailures'
  BY <1>1 DEF Kept, LeaksBoundedByFailures, lifecycleVars
<1>3. ForkInv'
  BY DEF Kept, ForkInv, Calm, lifecycleVars
<1>4. ProcessesInv'
  BY DEF Kept, ProcessesInv, Sound, IsTable, Owns, Uses, lifecycleVars
<1> QED BY <1>2, <1>3, <1>4 DEF Kept

(* A step that changes neither the slot nor a transceiver. *)
LEMMA SlotUnchanged ==
  ASSUME NodeInv, transport # "none", UNCHANGED <<members, present, slot>>
  PROVE  SlotIsUp'
BY DEF NodeInv, SlotIsUp

(* update() of the node, cut where it lets other threads in. *)
LEMMA UpdateKeeps ==
  ASSUME FilesInv, transport # "none", Update
  PROVE  FilesInv'
<1>0. Kept /\ NodeInv
  BY DEF FilesInv, Kept
<1>1. ASSUME UNCHANGED <<lifecycleVars, transport, processor, slot, locked>>,
             made' \in present \cup {NoObject},
             node' \in {"idle", "check", "make", "recheck", "install", "process",
                        "crashed", "exited", "hung"},
             made' # NoObject <=> node' \in {"recheck", "install"},
             made' = slot => made' = NoObject
      PROVE  FilesInv'
  <2>1. Kept'
    BY <1>0, <1>1, KeptUnchanged
  <2>2. SlotIsUp'
    BY <1>0, <1>1, SlotUnchanged DEF lifecycleVars
  <2>3. UNCHANGED <<present, forked, transport>>
    BY <1>1 DEF lifecycleVars
  <2>4. /\ slot' \in present \cup {NoObject} /\ processor' \in BOOLEAN /\ locked' \in BOOLEAN
        /\ made' = slot' => made' = NoObject
    BY <1>0, <1>1 DEF NodeInv
  <2> QED BY <1>0, <1>1, <2>1, <2>2, <2>3, <2>4, NodeStep
<1>2. CASE BeginUpdate
  BY <1>0, <1>1, <1>2 DEF BeginUpdate, NodeInv
<1>3. CASE HasTransceiver
  BY <1>0, <1>1, <1>3 DEF HasTransceiver, Goto, NodeInv
<1>4. CASE Process
  BY <1>0, <1>1, <1>4 DEF Process, Goto, NodeInv
<1>5. CASE Make
  <2>1. present = NodeObjects[transport] /\ transport \in Transports /\ made = NoObject
    BY <1>0, <1>5 DEF NodeInv, Make, Goto
  <2>2. PICK o \in present, other \in present :
          o # other /\ KindOf[o] = transport /\ KindOf[other] = transport
    <3>1. PICK o \in NodeObjects[transport], other \in NodeObjects[transport] :
            o # other /\ {KindOf[o], KindOf[other]} = {transport}
      BY <1>5, <2>1, NodeAssumption DEF Make, Known
    <3> QED BY <2>1, <3>1
  <2>3. NoObject \notin present
    BY <1>0, NodeAssumption DEF Kept, ProcessesInv
  <2>4. \E q \in present : KindOf[q] = transport /\ q \notin InUse
    BY <2>1, <2>2, <2>3 DEF InUse
  <2>5. Fresh(transport) \in present /\ Fresh(transport) # slot
    BY <2>4, FreshObject
  <2> QED BY <1>1, <1>5, <2>3, <2>5 DEF Make, Goto
<1>6. CASE UnknownType
  BY <1>0, <1>1, <1>6 DEF UnknownType, Goto, NodeInv
<1>7. CASE Recheck
  BY <1>0, <1>1, <1>7 DEF Recheck, Goto, NodeInv
<1>8. CASE Install
  <2>1. PICK result \in {"true", "false", "fatal"} :
          /\ Goto("install", IF result = "fatal" THEN "exited" ELSE "idle")
          /\ SetTransceiver(made, result)
    BY <1>8 DEF Install
  <2>2. made \in present /\ made # slot
    BY <1>0, <2>1 DEF NodeInv, Goto
  <2>3. UNCHANGED <<present, foreign, forked>> /\ calls' \in 0..MaxCalls
    BY <1>0, <1>8 DEF Install, Unchanged, Kept, ProcessesInv
  <2>4. Kept' /\ SlotIsUp' /\ slot' \in present \cup {NoObject}
    BY <1>0, <2>1, <2>2, <2>3, SetTransceiverKeeps
  <2>5. /\ UNCHANGED <<present, forked, transport>> /\ processor' \in BOOLEAN
        /\ locked' \in BOOLEAN /\ made' = NoObject /\ node' \in {"idle", "exited"}
    BY <1>0, <1>8, <2>1 DEF Install, Unchanged, Goto, SetTransceiver, NodeInv
  <2> QED BY <1>0, <2>4, <2>5, NodeStep
<1> QED BY <1>2, <1>3, <1>4, <1>5, <1>6, <1>7, <1>8 DEF Update

(* What other threads do with the processor of the node. *)
LEMMA OthersKeep ==
  ASSUME FilesInv, transport # "none", Others
  PROVE  FilesInv'
<1>0. Kept /\ NodeInv
  BY DEF FilesInv, Kept
<1>1. MayCall /\ calls' \in 0..MaxCalls
  <2>1. MayCall
    BY DEF Others, OtherSets, OtherResets, NewProcessor, NewProcessorWith, ConstructorThrows
  <2> QED BY <1>0, <2>1, CallsBounded
<1>2. \A kind \in FreshKinds :
        Fresh(kind) \in present /\ Fresh(kind) # slot /\ Fresh(kind) # made
  BY FreshObject DEF FreshKinds
<1>3. ASSUME Kept', SlotIsUp', UNCHANGED <<present, forked, transport, made>>,
             slot' \in present \cup {NoObject}, processor' \in BOOLEAN, locked' \in BOOLEAN,
             \/ node' = node
             \/ node = "idle" /\ node' \in {"idle", "hung"},
             slot' = made => made = NoObject
      PROVE  FilesInv'
  <2>1. /\ made' \in present \cup {NoObject}
        /\ node' \in {"idle", "check", "make", "recheck", "install", "process",
                      "crashed", "exited", "hung"}
        /\ made' # NoObject <=> node' \in {"recheck", "install"}
        /\ made' = slot' => made' = NoObject
    BY <1>0, <1>3 DEF NodeInv
  <2> QED BY <1>0, <1>3, <2>1, NodeStep
<1>4. CASE OtherSets
  <2>1. PICK kind \in FreshKinds, result \in {"true", "false", "nonfatal", "fatal"} :
          SetTransceiver(Fresh(kind), result)
    BY <1>4 DEF OtherSets
  <2>2. Kept' /\ SlotIsUp' /\ slot' \in present \cup {NoObject}
    BY <1>0, <1>1, <1>2, <1>4, <2>1, SetTransceiverKeeps DEF OtherSets, Unchanged
  <2>3. /\ UNCHANGED <<present, forked, transport, made>> /\ node' = node /\ processor' \in BOOLEAN
        /\ locked' \in BOOLEAN /\ (slot' = made => made = NoObject)
    BY <1>0, <1>2, <1>4, <2>1 DEF OtherSets, Unchanged, SetTransceiver, NodeInv
  <2> QED BY <1>3, <2>2, <2>3
<1>5. CASE OtherResets
  <2>1. Kept' /\ SlotIsUp'
    BY <1>0, <1>1, <1>5, SlotEmptied DEF OtherResets, ResetTransceiver, Unchanged
  <2>2. /\ UNCHANGED <<present, forked, transport, made>> /\ node' = node /\ slot' = NoObject
        /\ processor' \in BOOLEAN /\ locked' \in BOOLEAN
    BY <1>0, <1>5 DEF OtherResets, ResetTransceiver, Unchanged, NodeInv
  <2> QED BY <1>3, <2>1, <2>2
<1>6. CASE NewProcessor
  <2>1. Kept' /\ SlotIsUp'
    BY <1>0, <1>1, <1>6, SlotEmptied DEF NewProcessor, Replaced, Unchanged
  <2>2. /\ UNCHANGED <<present, forked, transport, made>> /\ slot' = NoObject
        /\ processor' \in BOOLEAN /\ locked' \in BOOLEAN
        /\ node = "idle" /\ node' \in {"idle", "hung"}
    BY <1>6 DEF NewProcessor, Replaced, Unchanged
  <2> QED BY <1>3, <2>1, <2>2
<1>7. ASSUME NEW kind \in FreshKinds, NewProcessorWith(Fresh(kind))
      PROVE  FilesInv'
  <2>1. Kept' /\ SlotIsUp'
    <3>1. PICK x \in InitOutcomes(Fresh(kind), Constructed(Fresh(kind)), table) :
            /\ x.result = "true"
            /\ tables' = [tables EXCEPT !["parent"] = Closed(x.table, SlotFds)]
            /\ members' = [members EXCEPT !["parent"] = [SlotDeinited EXCEPT ![Fresh(kind)] = x.m]]
      BY <1>7 DEF NewProcessorWith
    <3>2. /\ RobbedBySlot /\ slot' = Fresh(kind)
          /\ UNCHANGED <<present, foreign, forked, failures>>
      BY <1>7 DEF NewProcessorWith, Replaced, Unchanged
    <3>3. Fresh(kind) \in present /\ Fresh(kind) # slot
      BY <1>2
    <3> QED BY <1>0, <1>1, <3>1, <3>2, <3>3, SlotReplaced
  <2>2. /\ UNCHANGED <<present, forked, transport, made>> /\ slot' = Fresh(kind)
        /\ processor' \in BOOLEAN /\ locked' \in BOOLEAN
        /\ node = "idle" /\ node' \in {"idle", "hung"}
    BY <1>7 DEF NewProcessorWith, Replaced, Unchanged
  <2> QED BY <1>2, <1>3, <2>1, <2>2
<1>8. ASSUME NEW kind \in FreshKinds, ConstructorThrows(Fresh(kind))
      PROVE  FilesInv'
  <2>1. Kept' /\ SlotIsUp'
    BY <1>0, <1>2, <1>8, ConstructorThrowsKeeps
  <2>2. /\ UNCHANGED <<present, forked, transport, made>> /\ node' = node /\ slot' = slot
        /\ processor' \in BOOLEAN /\ locked' \in BOOLEAN /\ slot' \in present \cup {NoObject}
        /\ slot' = made => made = NoObject
    BY <1>0, <1>8 DEF ConstructorThrows, Unchanged, NodeInv
  <2> QED BY <1>3, <2>1, <2>2
<1> QED BY <1>4, <1>5, <1>6, <1>7, <1>8 DEF Others

-----------------------------------------------------------------------------
(* The theorems *)

(* At first no file is open and no transceiver is made. *)
LEMMA InitFiles == Init => FilesInv
<1> SUFFICES ASSUME Init PROVE FilesInv
  OBVIOUS
<1>1. present \subseteq Objects
  BY LifecycleAssumption, NodeAssumption DEF Init
<1>2. /\ tables = [p \in Processes |-> [fd \in Fds |-> Free]]
      /\ members = [p \in Processes |-> [o \in Objects |-> Constructed(o)]]
      /\ foreign = [p \in Processes |-> {}] /\ robbed = [p \in Processes |-> {}]
      /\ forked = FALSE /\ calls = MaxCalls /\ failures = 0
  BY DEF Init, LifecycleInit
<1>3. \A o \in Objects : Constructed(o) \in Members(o) /\ ~Constructed(o).up
  BY DEF Constructed, Members
<1>4. ASSUME NEW p \in Processes
      PROVE  Sound(p, tables[p], members[p], foreign[p], robbed[p])
  <2>1. IsTable(tables[p])
    BY <1>2 DEF IsTable, Owners
  <2>2. ASSUME NEW o \in Objects, Uses(p, o) PROVE KindOf[o] # "child"
    BY <1>2, <2>2 DEF Uses
  <2>3. \A o \in Objects : members[p][o] = Constructed(o)
    BY <1>2
  <2>4. /\ foreign[p] = {} /\ robbed[p] = {} /\ members[p] = [o \in Objects |-> members[p][o]]
    BY <1>2
  <2> QED BY <1>1, <1>3, <2>1, <2>2, <2>3, <2>4 DEF Sound
<1>5. /\ tables = [p \in Processes |-> tables[p]] /\ foreign = [p \in Processes |-> foreign[p]]
      /\ robbed = [p \in Processes |-> robbed[p]] /\ members = [p \in Processes |-> members[p]]
  BY <1>2
<1>6. ProcessesInv
  <2>1. MaxCalls \in Nat
    BY LifecycleAssumption
  <2>2. calls = MaxCalls /\ failures = 0
    BY <1>2
  <2>3. calls \in 0..MaxCalls /\ failures \in Nat
    BY <2>1, <2>2
  <2>4. forked \in BOOLEAN
    BY <1>2
  <2> QED BY <1>1, <1>4, <1>5, <2>3, <2>4 DEF ProcessesInv
<1>7. /\ \A o \in Objects : ~members["parent"][o].up
      /\ robbed["parent"] = {} /\ robbed["child"] = {}
      /\ \A fd \in Fds : tables["parent"][fd] = Free
  BY <1>2, <1>3 DEF Processes
<1>8. ForkInv
  BY <1>2, <1>7 DEF ForkInv, Calm
<1>9. NodeInv
  BY <1>1, <1>2, <1>7, NodeAssumption DEF Init, NodeInv
<1>10. LeaksBoundedByFailures
  <2>1. Orphans = {}
    BY <1>7, FreeOrForeign DEF Orphans
  <2> QED BY <1>2, <2>1, FS_EmptySet DEF LeaksBoundedByFailures
<1> QED BY <1>6, <1>8, <1>9, <1>10 DEF FilesInv

(* A step of the program, of its node, or of the rest. *)
LEMMA FilesStep == FilesInv /\ [Next]_vars => FilesInv'
<1> SUFFICES ASSUME FilesInv, [Next]_vars PROVE FilesInv'
  OBVIOUS
<1>0. Kept /\ NodeInv /\ ProcessesInv /\ ForkInv /\ LeaksBoundedByFailures
  BY DEF FilesInv, Kept
<1>1. CASE WithoutNode
  <2>1. Kept' /\ UNCHANGED present
    <3>1. ASSUME NEW p \in Processes, NEW o \in Objects, InitObject(p, o)
          PROVE  Kept' /\ UNCHANGED present
      BY <1>0, <3>1, InitObjectKeeps DEF Kept, InitObject
    <3>2. ASSUME NEW p \in Processes, NEW o \in Objects, DeinitObject(p, o)
          PROVE  Kept' /\ UNCHANGED present
      BY <1>0, <3>2, DeinitObjectKeeps DEF Kept, DeinitObject
    <3>3. ASSUME NEW o \in Objects, Fork(o)
          PROVE  Kept' /\ UNCHANGED present
      BY <1>0, <3>3, ForkKeeps DEF Kept, Fork
    <3>4. ASSUME NEW o \in Objects, PostForkInit(o)
          PROVE  Kept' /\ UNCHANGED present
      BY <1>0, <3>4, PostForkInitKeeps DEF Kept, PostForkInit
    <3>5. ASSUME NEW p \in Processes, OpenForeign(p)
          PROVE  Kept' /\ UNCHANGED present
      BY <1>0, <3>5, OpenForeignKeeps DEF Kept, OpenForeign
    <3>6. ASSUME NEW p \in Processes, CloseForeign(p)
          PROVE  Kept' /\ UNCHANGED present
      BY <1>0, <3>6, CloseForeignKeeps DEF Kept, CloseForeign
    <3> QED BY <1>1, <3>1, <3>2, <3>3, <3>4, <3>5, <3>6 DEF WithoutNode, Lifecycle
  <2>2. NodeInv'
    BY <1>0, <1>1, <2>1 DEF WithoutNode, nodeVars, NodeInv
  <2> QED BY <2>1, <2>2 DEF Kept, FilesInv
<1>2. ASSUME transport # "none", Update PROVE FilesInv'
  BY <1>2, UpdateKeeps
<1>3. ASSUME transport # "none", Others PROVE FilesInv'
  BY <1>3, OthersKeep
<1>4. ASSUME transport # "none", OpenForeign("parent") \/ CloseForeign("parent"),
             UNCHANGED nodeVars
      PROVE  FilesInv'
  <2>1. Kept'
    <3>1. "parent" \in Processes
      BY DEF Processes
    <3> QED BY <1>0, <1>4, <3>1, OpenForeignKeeps, CloseForeignKeeps DEF Kept
  <2>2. UNCHANGED <<present, members, forked>>
    BY <1>4 DEF OpenForeign, CloseForeign
  <2>3. NodeInv'
    BY <1>0, <1>4, <2>2 DEF NodeInv, nodeVars
  <2> QED BY <2>1, <2>3 DEF Kept, FilesInv
<1>5. CASE UNCHANGED vars
  <2>1. UNCHANGED lifecycleVars /\ UNCHANGED nodeVars
    BY <1>5 DEF vars
  <2>2. Kept'
    BY <1>0, <2>1, KeptUnchanged
  <2>3. NodeInv'
    BY <1>0, <2>1 DEF NodeInv, nodeVars, lifecycleVars
  <2> QED BY <2>2, <2>3 DEF Kept, FilesInv
<1> QED BY <1>1, <1>2, <1>3, <1>4, <1>5 DEF Next, WithNode

(* In every state of every program, what FilesInv says of the processes,   *)
(* of the fork, of the node's slot and of the leaks holds.                 *)
THEOREM FilesInvariant == Spec => []FilesInv
BY InitFiles, FilesStep, PTL DEF Spec

(* The tables, the objects' members, the node's slot and its place in      *)
(* update() stay of their types, whatever init(), deinit(), fork(),        *)
(* setTransceiver() and the constructors do.                               *)
THEOREM LifecycleTypeCorrect == Spec => []TypeOK
<1>1. FilesInv => TypeOK
  <2> SUFFICES ASSUME FilesInv PROVE TypeOK
    OBVIOUS
  <2>1. ProcessesInv /\ NodeInv
    BY DEF FilesInv
  <2>2. ASSUME NEW p \in Processes
        PROVE  /\ DOMAIN tables[p] = Fds
               /\ \A fd \in Fds : tables[p][fd].by \in Owners
               /\ foreign[p] \subseteq Fds /\ robbed[p] \subseteq Fds
    <3>1. IsTable(tables[p])
      BY <2>1 DEF ProcessesInv, Sound
    <3>2. DOMAIN tables[p] = Fds
      BY <3>1 DEF IsTable
    <3> QED BY <2>1, <3>1, <3>2 DEF ProcessesInv, Sound, IsTable
  <2>3. ASSUME NEW p \in Processes, NEW o \in Objects
        PROVE  /\ members[p][o].up \in BOOLEAN
               /\ members[p][o].slots \in [Slots(KindOf[o]) -> Fds \cup {NoFd}]
               /\ members[p][o].up =>
                    NoFd \notin {members[p][o].slots[s] : s \in Slots(KindOf[o])}
               /\ members[p][o].stale \subseteq Slots(KindOf[o])
    <3>1. members[p][o] \in Members(o) /\ (members[p][o].up => Complete(o, members[p][o]))
      BY <2>1 DEF ProcessesInv, Sound
    <3>2. NoFd \notin Fds
      BY LifecycleAssumption DEF Fds, NoFd
    <3> QED BY <3>1, <3>2 DEF Members, Complete
  <2> QED BY <2>1, <2>2, <2>3 DEF TypeOK, ProcessesInv, NodeInv
<1> QED BY <1>1, FilesInvariant, PTL

(* An initialized transceiver reads and writes the file that it opened     *)
(* itself, or the end it was given, however often init() has failed before *)
(* and whatever was opened and closed meanwhile; the socket pair's stale   *)
(* numbers (LinuxSocketpairTransceiver.cpp:51) are the exception.          *)
THEOREM OwnFilesCorrect == Spec => []UsesOwnFiles
<1>1. FilesInv => UsesOwnFiles
  <2> SUFFICES ASSUME FilesInv, NEW p \in Processes, NEW o \in present,
                      members[p][o].up, Uses(p, o),
                      NEW s \in DOMAIN members[p][o].slots
               PROVE  \/ tables[p][members[p][o].slots[s]] = FileOf(o, s)
                      \/ s = "child" /\ s \in members[p][o].stale
                      \/ members[p][o].slots[s] \in robbed[p]
    BY DEF UsesOwnFiles
  <2>1. /\ Sound(p, tables[p], members[p], foreign[p], robbed[p]) /\ o \in Objects
    BY DEF FilesInv, ProcessesInv
  <2>2. Owns(o, members[p][o], tables[p], robbed[p]) /\ s \in Slots(KindOf[o])
    BY <2>1 DEF Sound, Members
  <2> QED BY <2>2 DEF Owns
<1> QED BY <1>1, FilesInvariant, PTL

(* deinit() of a transceiver closes no file that is not its own, unless    *)
(* the program has a socket pair.                                          *)
THEOREM RobbedOnlyByPairs == Spec => []OnlyPairsRob
<1>1. FilesInv => OnlyPairsRob
  <2> SUFFICES ASSUME FilesInv PROVE OnlyPairsRob
    OBVIOUS
  <2>1. \A p \in Processes : \A fd \in foreign[p] : tables[p][fd] = Foreign \/ fd \in robbed[p]
    BY DEF FilesInv, ProcessesInv, Sound
  <2>2. ASSUME \A o \in present : KindOf[o] \notin {"pair", "child"}, NEW p \in Processes
        PROVE  robbed[p] = {}
    <3>1. ~forked /\ ForkInv
      BY <2>2 DEF FilesInv, ForkInv
    <3> QED BY <3>1 DEF ForkInv, Calm, Processes
  <2> QED BY <2>1, <2>2 DEF OnlyPairsRob
<1> QED BY <1>1, FilesInvariant, PTL

(* A program loses no more descriptors than its failed calls of init() and *)
(* its failed constructors have left open.                                 *)
THEOREM LeaksBounded == Spec => []LeaksBoundedByFailures
BY FilesInvariant, PTL DEF FilesInv

(* The node's open transceiver is the one in its processor's slot, however *)
(* update(), setTransceiver(), resetTransceiver() and the owner interleave.*)
THEOREM OpenIsInstalled == Spec => []OpenIffInstalled
<1>1. FilesInv => OpenIffInstalled
  BY DEF FilesInv, NodeInv, OpenIffInstalled
<1> QED BY <1>1, FilesInvariant, PTL
=============================================================================
