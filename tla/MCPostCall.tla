----------------------------- MODULE MCPostCall -----------------------------
(* One job with a budget of two attempts: the smallest budget at which a     *)
(* second attempt meets what the first one left behind.                      *)
EXTENDS PostCall, TLC

MCMaxAttempts == [r \in Requests |-> 2]
=============================================================================
