--------------------------- MODULE MCStaticChannel ---------------------------
(***************************************************************************)
(* Two sessions, for what is left from one to the next; two messages of up *)
(* to two chunks, or two writes of the application and one of the plugin.  *)
(***************************************************************************)
EXTENDS StaticChannel
=============================================================================
