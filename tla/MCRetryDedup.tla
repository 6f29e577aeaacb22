---------------------------- MODULE MCRetryDedup ----------------------------
(* Small instances of RetryDedup: two sessions that call and may register, *)
(* and calls of both that share a hash.                                    *)
EXTENDS RetryDedup

CONSTANTS alice, bob, c1, c2, c3, h1, h2

CallerOfAll == [c \in Call |-> IF c = c2 THEN bob ELSE alice]
HashOfAll == [c \in Call |-> IF c = c3 THEN h2 ELSE h1]
=============================================================================
