---------------------------- MODULE MCListeners ----------------------------
(* The instance of Listeners that TLC checks. *)
EXTENDS Listeners
=============================================================================
