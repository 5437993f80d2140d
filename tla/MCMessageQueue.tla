---------------------------- MODULE MCMessageQueue ----------------------------
(***************************************************************************)
(* A small queue that grows twice, the second time with more wrapped       *)
(* entries than there are new slots.                                       *)
(***************************************************************************)
EXTENDS MessageQueue
=============================================================================
