--------------------------- MODULE MCRdpClientOpen ---------------------------
(***************************************************************************)
(* A small instance of RdpClientOpen: every combination of the settings    *)
(* that select a path.  rdpSecurity, cal and heartbeat only select which   *)
(* PDU is sent and are fixed.                                              *)
(***************************************************************************)
EXTENDS RdpClientOpen

MCClientConfigs ==
    {s \in ClientSettings : ~s.heartbeat /\ ~s.rdpSecurity /\ ~s.cal}
=============================================================================
