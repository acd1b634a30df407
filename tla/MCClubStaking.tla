---------------------------- MODULE MCClubStaking ----------------------------
(***************************************************************************)
(* Inputs for model-checking ClubStaking with two wallets, and a state to  *)
(* begin in where they own the clubs already.                              *)
(***************************************************************************)
EXTENDS ClubStaking, TLC

CONSTANTS u1, u2

UserSymmetry == Permutations({u1, u2})

NoBatches == {}
(* Lists as the administrator may send them: one that names a wallet twice. *)
AnyBatches == {<<u1>>, <<u2>>, <<u1, u2>>, <<u1, u1>>}

(* States where u1 owns club 1 and u2 owns club 2, each with a stake of 0:   *)
(* before the first reward, or after a round of 100 that paid only u1's list *)
(* and left u1's stake a reward of `due'.                                    *)
OwnerOf(c) == IF c = 1 THEN u1 ELSE u2
SoldClub(c) ==
  [owner |-> OwnerOf(c), start |-> StartTime, released |-> FALSE, reward |-> 0, total |-> 0]
OwnersStake(c, due) ==
  [start |-> StartTime, amount |-> 0, reward |-> IF c = 1 THEN due ELSE 0, auto |-> FALSE]
FirstTime == IF FirstRewardTime = 0 THEN StartTime - 1 ELSE FirstRewardTime

Owned(due) ==
  /\ now = StartTime
  /\ club = [c \in Clubs |-> SoldClub(c)]
  /\ prevOwnerReward = [u \in Users |-> 0]
  /\ stake = [c \in Clubs |->
              [u \in Users |-> IF u = OwnerOf(c) THEN OwnersStake(c, due) ELSE NoStake]]
  /\ bonds = [c \in Clubs |-> [u \in Users |-> <<>>]]
  /\ rewardGiven = due
  /\ snapshot = [c \in Clubs |-> 0]
  /\ balance = 0
  /\ consent = [c \in Clubs |-> NoUser]

OwnedInit == Owned(0) /\ reward = 0 /\ nextRewardTime = FirstTime /\ winning = NoWinners

PaidInit ==
  /\ Owned(1)
  /\ reward = 99
  /\ nextRewardTime = FirstTime + RewardPeriodicity
  /\ winning = [NoWinners EXCEPT !.count = NumClubs, !.winners = Clubs]

OwnershipSpec == (Init \/ PaidInit) /\ [][Next]_vars
=============================================================================
