---------------------------- MODULE MCGamingPool -----------------------------
(***************************************************************************)
(* Inputs of the runs on the gaming pool.                                  *)
(***************************************************************************)
EXTENDS GamingPool, TLC

CONSTANTS g1, g2, a   \* two gamers, the name of every team

Type(fee, min, max, perGamer) ==
  [fee |-> fee, min |-> min, max |-> max, perGamer |-> perGamer, rakes |-> <<50, 50>>]

(* A duel a gamer may fight alone, and a dearer type that takes one team. *)
DuelsAndSingles == {Type(1, 2, 2, 2), Type(2, 1, 1, 1)}

Result(g, id, r) == [gamer |-> g, team |-> id, reward |-> r]

(* A list of winners that names a team twice. *)
TeamTwice == <<Result(g1, a, 1), Result(g2, a, 1), Result(g1, a, 2)>>
BothWinners == {TeamTwice}
=============================================================================
