----------------------------- MODULE MCThreads -----------------------------
(***************************************************************************)
(* A processor with two frames that share a field, for the threads to      *)
(* update, send, set, read and manage at a time.                           *)
(***************************************************************************)
EXTENDS ThreadProperties

MCFrames == [id \in {0, 1} |-> IF id = 0 THEN <<1, 2>> ELSE <<2>>]
=============================================================================
