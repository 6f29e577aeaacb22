---------------------------- MODULE MCConnection ----------------------------
(* Instances of Connection. *)
EXTENDS Connection

(* An endpoint with a heartbeat and one with an idle timeout. *)
MCTimers == {{"heartbeat"}, {"idle"}}
=============================================================================
