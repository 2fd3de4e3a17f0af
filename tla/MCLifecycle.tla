---------------------------- MODULE MCLifecycle ----------------------------
(***************************************************************************)
(* Programs with a transceiver or two of their own, and programs with a    *)
(* node whose processor's owner uses UDP transceivers beside the node's.   *)
(***************************************************************************)
EXTENDS LifecycleProperties

MCKindOf ==
  [serial |-> "serial", udp |-> "udp", dual |-> "dual", windows |-> "windows",
   pair |-> "pair", end |-> "child",
   n1 |-> "serial", n2 |-> "serial", n3 |-> "serial",
   r1 |-> "ros", r2 |-> "ros", r3 |-> "ros", u1 |-> "udp", u2 |-> "udp"]

MCPrograms == {{"serial", "udp"}, {"dual"}, {"windows"}, {"pair", "end", "udp"}}

MCNodeObjects ==
  [serial  |-> {"n1", "n2", "n3", "u1", "u2"},
   ros     |-> {"r1", "r2", "r3", "u1", "u2"},
   unknown |-> {"n1", "n2", "n3"}]
=============================================================================
