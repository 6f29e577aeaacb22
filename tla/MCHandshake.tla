---------------------------- MODULE MCHandshake ----------------------------
(* Instances of Handshake for TLC. *)
EXTENDS Handshake, TLC

CONSTANTS c1, c2

Perms == Permutations({c1, c2})
=============================================================================
