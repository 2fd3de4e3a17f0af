------------------------ MODULE TransceiverLifecycle ------------------------
(***************************************************************************)
(* init(), deinit() and postForkInit() of the transceivers, by what they   *)
(* do to the open files of the process, in a program that calls them       *)
(* itself, retries an init() that failed, forks once it has a socket pair, *)
(* and opens and closes files of its own.                                  *)
(*                                                                         *)
(* A program deinits a transceiver only when its init() returned true, as  *)
(* SerialProcessor does; those that look at their own initialized flag it  *)
(* may deinit at any time.                                                 *)
(*                                                                         *)
(* A definition named ..._Mutant is a plausible mistake in the one after   *)
(* it, to check the properties with; no specification uses it.             *)
(***************************************************************************)
EXTENDS Descriptors, Sequences

CONSTANTS
  KindOf,      \* the kind of each object, by the object's name
  Programs,    \* the sets of objects a program without a node may have
  MaxFds,      \* how many files a process may have open
  MaxCalls,    \* bound of the calls of init()
  MaxForeign   \* bound of the other files a process has open at a time

Objects   == DOMAIN KindOf
Kinds     == {"serial", "udp", "dual", "windows", "pair", "child", "ros"}
Processes == {"parent", "child"}
Fds       == 0..(MaxFds - 1)
Foreign   == [by |-> "the rest of the program", end |-> "file"]

ASSUME LifecycleAssumption ==
  /\ \A o \in Objects : KindOf[o] \in Kinds
  /\ Programs \subseteq SUBSET Objects
  /\ {MaxFds, MaxCalls, MaxForeign} \subseteq Nat
  /\ {Free.by, Foreign.by} \cap Objects = {}
  /\ \A o, other \in Objects :   \* a program has one pair, and one end to give away
       KindOf[o] = KindOf[other] /\ KindOf[o] \in {"pair", "child"} => o = other

VARIABLES
  present,    \* the program's objects
  tables,     \* the open files of each process
  members,    \* the objects' members, in each process
  foreign,    \* the descriptors the rest of the program holds
  forked,     \* does the child process run?
  calls,      \* how many calls of init() may still be made
  failures,   \* history: how many files failed calls may have left open
  robbed      \* history: descriptors that an object closed under another owner

lifecycleVars == <<present, tables, members, foreign, forked, calls, failures, robbed>>

-----------------------------------------------------------------------------
(* The members that hold descriptors, and the files they stand for. *)

Slots(kind) ==
  CASE kind \in {"serial", "udp", "windows"} -> {"file"}
    [] kind = "dual"                         -> {"recv", "send"}
    [] kind = "pair"                         -> {"parent", "child"}
    [] kind = "child"                        -> {"child"}
    [] kind = "ros"                          -> {}

(* The object that opened the file of an object's slot: the child's end of *)
(* a socket pair was opened by the pair in the parent process.             *)
Maker(o) == IF KindOf[o] = "child" THEN CHOOSE m \in Objects : KindOf[m] = "pair" ELSE o

FileOf(o, slot) == [by |-> Maker(o), end |-> slot]

(* An object: initialized, the descriptors it holds, and those of them     *)
(* that it has closed itself, which may be another file's by now.          *)
Constructed(o) ==
  [up |-> FALSE, slots |-> [s \in Slots(KindOf[o]) |-> NoFd], stale |-> {}]

-----------------------------------------------------------------------------
(* The system calls of init(), in their order: what init() does when one   *)
(* fails, and whether it closes the file then.  The first opens the file.  *)

Step(onFailure, closes) == [onFailure |-> onFailure, closes |-> closes]

SerialCalls ==
  <<Step("fatal", FALSE),    \* open()
    Step("fatal", FALSE),    \* tcgetattr()
    Step("fatal", FALSE)>>   \* tcsetattr()

(* A failing setsockopt() of SO_REUSEADDR is only logged. *)
UDPCalls(skipBind, skipConnect) ==
  <<Step("fatal", FALSE),    \* socket()
    Step("fatal", TRUE)>>    \* setsockopt() of SO_RCVTIMEO
  \o (IF skipBind THEN <<>> ELSE <<Step("fatal", FALSE)>>)
  \o (IF skipConnect THEN <<>> ELSE <<Step("false", TRUE),      \* getaddrinfo()
                                      Step("fatal", FALSE)>>)   \* connect()

(* CreateFileA(), GetCommState(), SetCommState() and SetCommTimeouts() *)
WindowsCalls == [i \in 1..4 |-> Step("nonfatal", FALSE)]

(* An outcome of opening and setting up a file: the table, the descriptor  *)
(* that the member holds, and the result.                                  *)
Outcome(table, fd, result) == [table |-> table, fd |-> fd, result |-> result]

SetUp_Mutant(table, file, steps) ==   \* the result of the calls is not looked at
  {Outcome(IF FreeFds(table) = {} THEN table ELSE Opened(table, file), Lowest(table), "true")}

SetUp(table, file, steps) ==
  {Outcome(table, NoFd, Head(steps).onFailure)}
  \cup
  IF FreeFds(table) = {} THEN {}
  ELSE LET fd == Lowest(table)
       IN  {Outcome(Opened(table, file), fd, "true")}
             \cup {Outcome(IF steps[n].closes THEN table ELSE Opened(table, file),
                           fd, steps[n].onFailure) : n \in 2..Len(steps)}

-----------------------------------------------------------------------------
(* init() of an object with the members m, in a process with this table:   *)
(* the tables, members and results it may end in.                          *)

Result(table, slots, stale, result) ==
  [table |-> table, result |-> result,
   m |-> [up |-> result = "true", slots |-> slots, stale |-> stale]]

OneFile(o, table, steps) ==
  {Result(x.table, [s \in {"file"} |-> x.fd], {}, x.result) :
     x \in SetUp(table, FileOf(o, "file"), steps)}

(* recvUDP.init() && sendUDP.init() *)
InitDual(o, m, table) ==
  UNION {IF x.result # "true"
         THEN {Result(x.table, [m.slots EXCEPT !["recv"] = x.fd], m.stale, x.result)}
         ELSE {Result(y.table, [s \in {"recv", "send"} |-> IF s = "recv" THEN x.fd ELSE y.fd],
                      {}, y.result) :
                 y \in SetUp(x.table, FileOf(o, "send"), UDPCalls(TRUE, FALSE))} :
           x \in SetUp(table, FileOf(o, "recv"), UDPCalls(FALSE, TRUE))}

(* socketpair(), then two calls of fcntl() before the members are assigned *)
(* and up to four after it.  Every failure is fatal, and closes nothing.   *)
InitPair(o, m, table) ==
  LET one == Opened(table, FileOf(o, "parent"))
      two == Opened(one, FileOf(o, "child"))
      ends == [s \in {"parent", "child"} |-> IF s = "parent" THEN Lowest(table) ELSE Lowest(one)]
  IN  IF m.up THEN {[table |-> table, result |-> "true", m |-> m]}   \* already initialized
      ELSE {Result(table, m.slots, m.stale, "fatal")}
             \cup
             IF Cardinality(FreeFds(table)) < 2 THEN {}
             ELSE {Result(two, m.slots, m.stale, "fatal"), Result(two, ends, {}, "fatal"),
                   Result(two, ends, {}, "true")}

(* The child's end opens nothing: it sets flags of the inherited file, or  *)
(* of whatever file its number stands for, and fails if there is none.     *)
InitChild(o, m, table) ==
  {Result(table, m.slots, m.stale,
          IF m.slots["child"] \in FreeFds(table) \cup {NoFd} THEN "fatal" ELSE "true")}

InitOutcomes(o, m, table) ==
  CASE KindOf[o] = "serial"  -> OneFile(o, table, SerialCalls)
    [] KindOf[o] = "udp"     -> OneFile(o, table, UDPCalls(FALSE, FALSE))
    [] KindOf[o] = "windows" -> OneFile(o, table, WindowsCalls)
    [] KindOf[o] = "dual"    -> InitDual(o, m, table)
    [] KindOf[o] = "pair"    -> InitPair(o, m, table)
    [] KindOf[o] = "child"   -> InitChild(o, m, table)
    [] KindOf[o] = "ros"     -> {Result(table, m.slots, {}, "true")}

(* How many files a failed init() may leave open. *)
MayLeave(o) == Cardinality(Slots(KindOf[o]))

-----------------------------------------------------------------------------
(* deinit() *)

(* Kinds whose deinit() does nothing unless they are initialized. *)
Guarded_Mutant == {"pair", "child", "ros"}   \* no if(initialized)

Guarded == {"serial", "pair", "child", "ros"}

Numbers(m, slots) == {m.slots[s] : s \in slots} \ {NoFd}

(* The descriptors deinit() closes, open or not. *)
ToClose(o, m) ==
  IF KindOf[o] \in Guarded /\ ~m.up THEN {} ELSE Numbers(m, DOMAIN m.slots)

Deinited(m) == [m EXCEPT !.up = FALSE, !.stale = DOMAIN m.slots]

(* The descriptors among fds that stand for other files than the object's. *)
NotOwn(o, table, fds) ==
  {fd \in fds \cap DOMAIN table :
     table[fd] # Free /\ \A s \in Slots(KindOf[o]) : table[fd] # FileOf(o, s)}

(* An object closes descriptors in a process. *)
CloseAll(p, o, fds) ==
  /\ tables' = [tables EXCEPT ![p] = Closed(@, fds)]
  /\ robbed' = [robbed EXCEPT ![p] = @ \cup NotOwn(o, tables[p], fds)]

-----------------------------------------------------------------------------
LifecycleInit ==
  /\ tables = [p \in Processes |-> [fd \in Fds |-> Free]]
  /\ members = [p \in Processes |-> [o \in Objects |-> Constructed(o)]]
  /\ foreign = [p \in Processes |-> {}]
  /\ forked = FALSE
  /\ calls = MaxCalls
  /\ failures = 0
  /\ robbed = [p \in Processes |-> {}]

(* The child process works with the child's end of the pair, the parent    *)
(* process with everything else.                                           *)
Uses(p, o) ==
  /\ o \in present
  /\ IF KindOf[o] = "child" THEN p = "child" /\ forked ELSE p = "parent"

InitObject(p, o) ==
  /\ Uses(p, o)
  /\ members[p][o].up => KindOf[o] = "pair"
  /\ calls > 0 /\ calls' = calls - 1
  /\ \E x \in InitOutcomes(o, members[p][o], tables[p]) :
       /\ tables' = [tables EXCEPT ![p] = x.table]
       /\ members' = [members EXCEPT ![p][o] = x.m]
       /\ failures' = IF x.result = "true" THEN failures ELSE failures + MayLeave(o)
  /\ UNCHANGED <<present, foreign, forked, robbed>>

DeinitObject(p, o) ==
  /\ Uses(p, o)
  /\ members[p][o].up \/ KindOf[o] \in {"serial", "pair", "child"}
  /\ CloseAll(p, o, ToClose(o, members[p][o]))
  /\ members' = [members EXCEPT ![p][o] =
                   IF members[p][o].up THEN Deinited(@) ELSE @]
  /\ UNCHANGED <<present, foreign, forked, calls, failures>>

(* The child constructs its end with childFd() of the pair it inherited.   *)
Fork(o) ==
  /\ o \in present /\ KindOf[o] = "pair" /\ members["parent"][o].up
  /\ ~forked /\ forked' = TRUE
  /\ tables' = [tables EXCEPT !["child"] = tables["parent"]]
  /\ foreign' = [foreign EXCEPT !["child"] = foreign["parent"]]
  /\ members' = [members EXCEPT !["child"] =
       [c \in Objects |->
          IF KindOf[c] = "child"
          THEN [Constructed(c) EXCEPT !.slots["child"] = members["parent"][o].slots["child"]]
          ELSE members["parent"][c]]]
  /\ UNCHANGED <<present, calls, failures, robbed>>

PostForkSlot_Mutant == "parent"   \* the parent closes its own end

PostForkSlot == "child"

(* After the fork, the parent closes the child's end, and keeps its        *)
(* number.  The child's end does nothing: its _parentFd is -1, always.     *)
PostForkInit(o) ==
  /\ forked
  /\ Uses("parent", o) /\ KindOf[o] = "pair" /\ members["parent"][o].up
  /\ CloseAll("parent", o, Numbers(members["parent"][o], {PostForkSlot}))
  /\ members' = [members EXCEPT !["parent"][o].stale = @ \cup {PostForkSlot}]
  /\ UNCHANGED <<present, foreign, forked, calls, failures>>

(* The rest of a process opens and closes files. *)
Runs(p) == p = "parent" \/ forked

OpenForeign(p) ==
  /\ Runs(p)
  /\ Cardinality(foreign[p]) < MaxForeign
  /\ FreeFds(tables[p]) # {}
  /\ tables' = [tables EXCEPT ![p] = Opened(@, Foreign)]
  /\ foreign' = [foreign EXCEPT ![p] = @ \cup {Lowest(tables[p])}]
  /\ UNCHANGED <<present, members, forked, calls, failures, robbed>>

CloseForeign(p) ==
  /\ Runs(p)
  /\ \E fd \in {fd \in foreign[p] : tables[p][fd] = Foreign} :
       /\ tables' = [tables EXCEPT ![p] = Closed(@, {fd})]
       /\ foreign' = [foreign EXCEPT ![p] = @ \ {fd}]
  /\ UNCHANGED <<present, members, forked, calls, failures, robbed>>

Lifecycle ==
  \/ \E p \in Processes, o \in Objects : InitObject(p, o) \/ DeinitObject(p, o)
  \/ \E o \in Objects : Fork(o) \/ PostForkInit(o)
  \/ \E p \in Processes : OpenForeign(p) \/ CloseForeign(p)
=============================================================================
