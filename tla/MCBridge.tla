------------------------------ MODULE MCBridge ------------------------------
(***************************************************************************)
(* Every pair of transceivers, with a buffer that is smaller than what may *)
(* wait, and packets that may be longer than the buffer.                   *)
(***************************************************************************)
EXTENDS BridgeProperties
=============================================================================
