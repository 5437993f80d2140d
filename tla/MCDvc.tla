-------------------------------- MODULE MCDvc --------------------------------
(***************************************************************************)
(* Two channels are enough for fragments of different channels to mix and  *)
(* for one to close under the other; two messages for order and loss.      *)
(***************************************************************************)
EXTENDS Dvc
==============================================================================
