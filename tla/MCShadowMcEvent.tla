--------------------------- MODULE MCShadowMcEvent ---------------------------
(***************************************************************************)
(* Three clients: one that sends, one that waits and one that comes or     *)
(* goes.                                                                   *)
(***************************************************************************)
EXTENDS ShadowMcEvent
=============================================================================
