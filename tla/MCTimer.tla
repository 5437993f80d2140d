------------------------------- MODULE MCTimer -------------------------------
(***************************************************************************)
(* Two timers, for one that removes or adds the other and two that race    *)
(* for an id; two users for adding at the same time.                       *)
(***************************************************************************)
EXTENDS Timer
=============================================================================
