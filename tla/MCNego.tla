------------------------------- MODULE MCNego -------------------------------
(***************************************************************************)
(* Every combination of protocols at the client and at the server, with    *)
(* and without the two modes of RDP_NEG_REQ, against each kind of server.  *)
(***************************************************************************)
EXTENDS Nego
=============================================================================
