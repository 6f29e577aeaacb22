------------------------------- MODULE Loans -------------------------------
(***************************************************************************)
(* What the native library promises a producer that lends it memory        *)
(* (external_leases.rs): a lent span stays untouched while anything in the *)
(* library can still read it, and then the producer's release callback     *)
(* runs, once.                                                             *)
(***************************************************************************)
CONSTANT Token      (* one resource reference of a producer                  *)

VARIABLES held,     (* "producer", "lent" or "returned"                      *)
          readable  (* tokens the library can read                           *)

loanVars == <<held, readable>>

LoanInit ==
    /\ held = [t \in Token |-> "producer"]
    /\ readable = {}

Lend(t) ==
    /\ held[t] = "producer"
    /\ held' = [held EXCEPT ![t] = "lent"]
    /\ readable' = readable \cup {t}

Forget(ts) ==
    /\ ts # {} /\ ts \subseteq readable
    /\ readable' = readable \ ts
    /\ UNCHANGED held

Return(t) ==
    /\ held[t] = "lent" /\ t \notin readable
    /\ held' = [held EXCEPT ![t] = "returned"]
    /\ UNCHANGED readable

LoanNext ==
    \/ \E t \in Token : Lend(t) \/ Return(t)
    \/ \E ts \in SUBSET Token : Forget(ts)

LoanSpec == LoanInit /\ [][LoanNext]_loanVars
=============================================================================
