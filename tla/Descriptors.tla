---------------------------- MODULE Descriptors ----------------------------
(***************************************************************************)
(* The table of open files of a process, as the system calls of the        *)
(* transceivers change it.  A table is a function from descriptors to      *)
(* files; a descriptor that is free is taken by the next file that is      *)
(* opened, whoever opens it, so a number that is kept after close() may be *)
(* another file's.  The handles of Windows are treated alike.              *)
(***************************************************************************)
EXTENDS Integers, FiniteSets

Free == [by |-> "nobody", end |-> "none"]
NoFd == -1

FreeFds(table) == {fd \in DOMAIN table : table[fd] = Free}

(* The lowest descriptor that is free; NoFd, and an error, if none is. *)
Lowest(table) ==
  IF FreeFds(table) = {} THEN NoFd
  ELSE CHOOSE fd \in FreeFds(table) : \A other \in FreeFds(table) : fd <= other

(* open(), socket(), CreateFileA() *)
Opened(table, file) == [table EXCEPT ![Lowest(table)] = file]

(* close(), CloseHandle(): an error, which nobody looks at, if not open. *)
Closed(table, fds) == [fd \in DOMAIN table |-> IF fd \in fds THEN Free ELSE table[fd]]
=============================================================================
