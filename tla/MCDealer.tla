------------------------------ MODULE MCDealer ------------------------------
(* Small instances of Dealer: one caller c1 and, where there are two calls, *)
(* their caller's two request ids; one or two callees.                      *)
EXTENDS Dealer

CONSTANTS caller, callee1, callee2, c1, c2

OneCallee == {caller, callee1}
TwoCallees == {caller, callee1, callee2}
CallerOfAll == [c \in Call |-> caller]
Nobody == {}
=============================================================================
