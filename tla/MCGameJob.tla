------------------------------ MODULE MCGameJob ------------------------------
(***************************************************************************)
(* The load test of the gaming pool, run with two wallets, which fit into  *)
(* one batch, and with three, which do not.                                *)
(***************************************************************************)
EXTENDS GameJob, TLC

CONSTANTS w1, w2, w3   \* wallets

TwoOrThree == {<<w1, w2>>, <<w1, w2, w3>>}

(* The pool has room for the wallets and two teams of each other gamer. *)
TestType == [fee |-> 2, min |-> 1, max |-> 7, perGamer |-> 2, rakes |-> <<100>>]
TestTypes == {TestType}
NoBatches == {<<>>}
=============================================================================
