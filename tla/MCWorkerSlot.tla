---------------------------- MODULE MCWorkerSlot ----------------------------
(* Instances of WorkerSlot for TLC. *)
EXTENDS WorkerSlot, TLC

CONSTANTS c1, c2, c3

Perms == Permutations({c1, c2, c3})
=============================================================================
