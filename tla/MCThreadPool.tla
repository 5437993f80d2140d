---------------------------- MODULE MCThreadPool ----------------------------
(***************************************************************************)
(* Two submitters and up to two workers, which the owner replaces while    *)
(* there is work.                                                          *)
(***************************************************************************)
EXTENDS ThreadPool
=============================================================================
