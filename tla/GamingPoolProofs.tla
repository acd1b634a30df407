-------------------------- MODULE GamingPoolProofs ---------------------------
(***************************************************************************)
(* What holds of the gaming pool for any number of gamers, pools and pool  *)
(* types and any inputs of the administrator: the promise of GameTickets,  *)
(* and that the queries and the claims agree, because the stored numbers   *)
(* of teams are right and teams of one name fare alike.  At the end, what  *)
(* holds of the load test, whoever else plays meanwhile.                   *)
(***************************************************************************)
EXTENDS GameJob, InductionLemmas, SequenceTheorems

TeamTable == [PoolIds -> [Gamers -> Seq(Team)]]

(* The history of a team agrees with its flags. *)
Recorded(t) ==
  /\ t.refunds = IF t.claimedRefund THEN 1 ELSE 0
  /\ t.rewards = IF t.claimedReward THEN 1 ELSE 0

HistoryMatchesFlags ==
  \A p \in PoolIds, g \in Gamers : \A i \in DOMAIN teams[p][g] : Recorded(teams[p][g][i])

(* A team has a reward only in a pool whose rewards can be claimed. *)
AwardsAreAnnounced ==
  \A p \in PoolIds, g \in Gamers : \A i \in DOMAIN teams[p][g] :
    teams[p][g][i].reward > 0 => p \in Pools /\ pool[p].reward

TeamsFit ==
  /\ \A t \in PoolTypes : types[t] # NoType => types[t].perGamer <= MaxTeams
  /\ \A p \in PoolIds, g \in Gamers : Len(teams[p][g]) <= MaxTeams

Inv ==
  /\ TypeOK
  /\ OpenGameKeepsDeposits
  /\ CancelledGameRefundsAll
  /\ ShortPoolsAreRefunded
  /\ PoolWithinType
  /\ AwardsAreAnnounced
  /\ HistoryMatchesFlags
  /\ TeamsFit

-----------------------------------------------------------------------------
(* Maps over sequences *)

LEMMA MapSeq ==
  ASSUME NEW S, NEW T, NEW s \in Seq(S), NEW f,
         f = [i \in DOMAIN s |-> f[i]], \A i \in DOMAIN s : f[i] \in T
  PROVE  f \in Seq(T) /\ Len(f) = Len(s) /\ DOMAIN f = DOMAIN s
<1>1. Len(s) \in Nat /\ DOMAIN s = 1..Len(s)
  OBVIOUS
<1>2. f \in [1..Len(s) -> T]
  BY <1>1
<1> QED BY <1>1, <1>2, IsASeq

(* The last winner that names a team is one of the winners. *)
LEMMA LastWinnerWins ==
  ASSUME NEW ts, NEW i, NEW g, NEW winners \in Seq(GameResult), Wins(ts, i, g, winners) # {}
  PROVE  Max(Wins(ts, i, g, winners)) \in DOMAIN winners
<1> DEFINE W == Wins(ts, i, g, winners)
<1>1. W \in SUBSET (1..Len(winners)) /\ Len(winners) \in Nat
  BY DEF Wins
<1>2. W # {}
  OBVIOUS
<1> HIDE DEF W
<1>3. \E x \in W : \A y \in W : x >= y
  BY <1>1, <1>2, MaximumExists
<1>4. Max(W) \in W
  BY <1>3 DEF Max
<1> QED BY <1>1, <1>4 DEF W

(* The tables of teams of a gamer keep their length, and their history      *)
(* keeps agreeing with their flags.                                         *)
Kept(us, ts) ==
  /\ us \in Seq(Team)
  /\ Len(us) = Len(ts)
  /\ \A i \in DOMAIN ts : Recorded(ts[i]) => Recorded(us[i])

LEMMA RewardedTeamsKept ==
  ASSUME NEW ts \in Seq(Team)
  PROVE  /\ Kept(RewardedTeams(ts), ts)
         /\ \A i \in DOMAIN ts :
              /\ RewardedTeams(ts)[i].reward = ts[i].reward
              /\ RewardedTeams(ts)[i].refunds = ts[i].refunds
              /\ RewardedTeams(ts)[i].rewards =
                   IF ts[i].claimedReward THEN ts[i].rewards ELSE ts[i].rewards + 1
<1> DEFINE us == RewardedTeams(ts)
<1>1. \A i \in DOMAIN ts : /\ us[i] \in Team
                           /\ us[i].reward = ts[i].reward
                           /\ us[i].refunds = ts[i].refunds
                           /\ us[i].rewards =
                                IF ts[i].claimedReward THEN ts[i].rewards ELSE ts[i].rewards + 1
                           /\ Recorded(ts[i]) => Recorded(us[i])
  <2> TAKE i \in DOMAIN ts
  <2>1. ts[i] \in Team
    OBVIOUS
  <2>2. CASE ts[i].claimedReward
    BY <2>1, <2>2 DEF RewardedTeams
  <2>3. CASE ~ts[i].claimedReward
    <3>1. us[i] = [ts[i] EXCEPT !.claimedReward = TRUE, !.rewards = @ + 1]
      BY <2>3 DEF RewardedTeams
    <3>2. ts[i].rewards + 1 \in Nat
      BY <2>1 DEF Team
    <3> HIDE DEF us
    <3>3. us[i] \in Team /\ us[i].reward = ts[i].reward
      BY <2>1, <3>1, <3>2 DEF Team
    <3>4. /\ us[i].claimedReward /\ us[i].rewards = ts[i].rewards + 1
          /\ us[i].claimedRefund = ts[i].claimedRefund /\ us[i].refunds = ts[i].refunds
      BY <2>1, <3>1 DEF Team
    <3> QED BY <2>3, <3>3, <3>4 DEF Recorded
  <2> QED BY <2>2, <2>3
<1>2. us = [i \in DOMAIN ts |-> us[i]]
  BY DEF RewardedTeams
<1> HIDE DEF us
<1>3. us \in Seq(Team) /\ Len(us) = Len(ts)
  BY <1>1, <1>2, MapSeq
<1> QED BY <1>1, <1>3 DEF us, Kept

LEMMA RefundedTeamsKept ==
  ASSUME NEW ts \in Seq(Team), NEW fee \in Nat, \A i \in DOMAIN ts : ~ts[i].claimedRefund
  PROVE  /\ Kept(RefundedTeams(ts, fee), ts)
         /\ \A i \in DOMAIN ts :
              /\ RefundedTeams(ts, fee)[i].reward = ts[i].reward
              /\ RefundedTeams(ts, fee)[i].rewards = ts[i].rewards
              /\ RefundedTeams(ts, fee)[i].refunds = ts[i].refunds + 1
<1> DEFINE us == RefundedTeams(ts, fee)
<1>1. \A i \in DOMAIN ts : /\ us[i] \in Team
                           /\ us[i].reward = ts[i].reward
                           /\ us[i].rewards = ts[i].rewards
                           /\ us[i].refunds = ts[i].refunds + 1
                           /\ Recorded(ts[i]) => Recorded(us[i])
  <2> TAKE i \in DOMAIN ts
  <2>1. ts[i] \in Team
    OBVIOUS
  <2>2. us[i] = [ts[i] EXCEPT !.refund = fee, !.claimedRefund = TRUE, !.refunds = @ + 1]
    BY DEF RefundedTeams
  <2>3. ts[i].refunds + 1 \in Nat
    BY <2>1 DEF Team
  <2> HIDE DEF us
  <2>4. us[i] \in Team /\ us[i].reward = ts[i].reward
    BY <2>1, <2>2, <2>3 DEF Team
  <2>5. /\ us[i].claimedRefund /\ us[i].refunds = ts[i].refunds + 1
        /\ us[i].claimedReward = ts[i].claimedReward /\ us[i].rewards = ts[i].rewards
    BY <2>1, <2>2 DEF Team
  <2> QED BY <2>4, <2>5 DEF Recorded
<1>2. us = [i \in DOMAIN ts |-> us[i]]
  BY DEF RefundedTeams
<1> HIDE DEF us
<1>3. us \in Seq(Team) /\ Len(us) = Len(ts)
  BY <1>1, <1>2, MapSeq
<1> QED BY <1>1, <1>3 DEF us, Kept

LEMMA TeamsWithRewardsKept ==
  ASSUME NEW ts \in Seq(Team), NEW g \in Gamers, NEW winners \in Seq(GameResult)
  PROVE  /\ Kept(TeamsWithRewards(ts, g, winners), ts)
         /\ \A i \in DOMAIN ts :
              /\ TeamsWithRewards(ts, g, winners)[i].refunds = ts[i].refunds
              /\ TeamsWithRewards(ts, g, winners)[i].rewards = ts[i].rewards
<1> DEFINE us == TeamsWithRewards(ts, g, winners)
<1>1. \A i \in DOMAIN ts : /\ us[i] \in Team
                           /\ us[i].refunds = ts[i].refunds
                           /\ us[i].rewards = ts[i].rewards
                           /\ Recorded(ts[i]) => Recorded(us[i])
  <2> TAKE i \in DOMAIN ts
  <2>1. ts[i] \in Team
    OBVIOUS
  <2>2. CASE Wins(ts, i, g, winners) = {}
    BY <2>1, <2>2 DEF TeamsWithRewards
  <2>3. CASE Wins(ts, i, g, winners) # {}
    <3>1. winners[Max(Wins(ts, i, g, winners))].reward \in Nat
      <4> DEFINE m == Max(Wins(ts, i, g, winners))
      <4>1. m \in DOMAIN winners
        BY <2>3, LastWinnerWins
      <4> HIDE DEF m
      <4>2. winners[m] \in GameResult
        BY <4>1
      <4> QED BY <4>2 DEF GameResult, m
    <3> QED BY <2>1, <2>3, <3>1 DEF TeamsWithRewards, Team, Recorded
  <2> QED BY <2>2, <2>3
<1>2. us = [i \in DOMAIN ts |-> us[i]]
  BY DEF TeamsWithRewards
<1> HIDE DEF us
<1>3. us \in Seq(Team) /\ Len(us) = Len(ts)
  BY <1>1, <1>2, MapSeq
<1> QED BY <1>1, <1>3 DEF us, Kept
-----------------------------------------------------------------------------
(* The steps *)

LEMMA PoolsAreDetails ==
  ASSUME TypeOK
  PROVE  /\ \A p \in Pools : pool[p] \in PoolDetails
         /\ Pools = 1..Len(pool) /\ Len(pool) \in Nat
         /\ Pools \subseteq PoolIds
  BY ConstantsAssumption DEF TypeOK, Pools, PoolIds

(* What is left to show of a step that changes no team table but by entries *)
(* that are kept.                                                           *)
LEMMA KeptTables ==
  ASSUME Inv, types' = types, teams' = [p \in PoolIds |-> [g \in Gamers |-> teams'[p][g]]],
         \A p \in PoolIds, g \in Gamers : Kept(teams'[p][g], teams[p][g])
  PROVE  teams' \in TeamTable /\ HistoryMatchesFlags' /\ TeamsFit'
<1>1. teams \in TeamTable
  BY DEF Inv, TypeOK, TeamTable
<1>2. teams' \in TeamTable
  BY DEF TeamTable, Kept
<1>3. \A p \in PoolIds, g \in Gamers :
        Len(teams'[p][g]) = Len(teams[p][g]) /\ DOMAIN teams'[p][g] = DOMAIN teams[p][g]
  <2> TAKE p \in PoolIds, g \in Gamers
  <2>1. teams[p][g] \in Seq(Team) /\ teams'[p][g] \in Seq(Team)
    BY <1>1, <1>2 DEF TeamTable
  <2>2. Len(teams'[p][g]) = Len(teams[p][g])
    BY DEF Kept
  <2> QED BY <2>1, <2>2
<1>4. HistoryMatchesFlags'
  BY <1>3 DEF Inv, HistoryMatchesFlags, Kept
<1>5. TeamsFit'
  BY <1>3 DEF Inv, TeamsFit
<1> QED BY <1>2, <1>4, <1>5

LEMMA SetPoolTypeParamsInv ==
  ASSUME Inv, NEW sender \in Accounts, NEW t \in PoolTypes, NEW details \in TypeInputs,
         SetPoolTypeParams(sender, t, details)
  PROVE  Inv'
<1> USE DEF Inv, SetPoolTypeParams, poolVars, funds
<1>1. details \in TypeDetails /\ details.perGamer <= MaxTeams /\ details # NoType
  BY ConstantsAssumption
<1>2. TypeOK'
  BY <1>1 DEF TypeOK
<1>3. PoolWithinType'
  <2> SUFFICES ASSUME NEW p \in Pools, pool[p].count > 0
               PROVE  types'[pool[p].type] # NoType /\ pool[p].count <= types'[pool[p].type].max
    BY DEF PoolWithinType, Pools, TypeOf
  <2>1. types[pool[p].type] # NoType /\ pool[p].count <= types[pool[p].type].max
    BY DEF PoolWithinType, TypeOf
  <2>2. pool[p].type \in PoolTypes
    BY PoolsAreDetails DEF PoolDetails
  <2>3. types'[pool[p].type] = types[pool[p].type]
    BY <2>1, <2>2 DEF TypeOK
  <2> QED BY <2>1, <2>3
<1>4. TeamsFit'
  BY <1>1 DEF TeamsFit, TypeOK
<1>6. ShortPoolsAreRefunded'
  <2> SUFFICES ASSUME status \in {"closed", "completed"}, NEW p \in Pools
               PROVE  /\ types'[pool[p].type] # NoType
                      /\ pool[p].refund <=> /\ pool[p].count < types'[pool[p].type].min
                                            /\ ~pool[p].reward
    BY DEF ShortPoolsAreRefunded, Pools, TypeOf
  <2>1. types[pool[p].type] # NoType
    BY DEF ShortPoolsAreRefunded, TypeOf
  <2>2. pool[p].type \in PoolTypes
    BY PoolsAreDetails DEF PoolDetails
  <2>3. types'[pool[p].type] = types[pool[p].type]
    BY <2>1, <2>2 DEF TypeOK
  <2> QED BY <2>1, <2>3 DEF ShortPoolsAreRefunded, TypeOf
<1>5. OpenGameKeepsDeposits' /\ CancelledGameRefundsAll' /\ AwardsAreAnnounced'
      /\ HistoryMatchesFlags'
  BY DEF OpenGameKeepsDeposits, CancelledGameRefundsAll, AwardsAreAnnounced,
         HistoryMatchesFlags, Pools
<1> QED BY <1>2, <1>3, <1>4, <1>5, <1>6

LEMMA CreatePoolInv ==
  ASSUME Inv, NEW sender \in Accounts, NEW t \in PoolTypes, CreatePool(sender, t)
  PROVE  Inv'
<1> USE DEF Inv, CreatePool, funds, OpenForBids
<1> DEFINE new == [type |-> t, count |-> 0, distributed |-> FALSE,
                   refund |-> FALSE, reward |-> FALSE]
<1>1. new \in PoolDetails
  BY DEF PoolDetails
<1>2. pool' = Append(pool, new) /\ pool \in Seq(PoolDetails)
  BY DEF TypeOK
<1>3. new.count = 0 /\ ~new.distributed /\ ~new.refund /\ ~new.reward
  OBVIOUS
<1> HIDE DEF new
<1>4. /\ pool' \in Seq(PoolDetails)
      /\ Len(pool') = Len(pool) + 1
      /\ Pools' = Pools \cup {Len(pool) + 1}
      /\ pool'[Len(pool) + 1] = new
      /\ \A p \in Pools : pool'[p] = pool[p]
  BY <1>1, <1>2, AppendProperties DEF Pools
<1>5. TypeOK'
  BY <1>4, ConstantsAssumption DEF TypeOK
<1>6. OpenGameKeepsDeposits' /\ CancelledGameRefundsAll' /\ ShortPoolsAreRefunded'
  BY <1>3, <1>4 DEF OpenGameKeepsDeposits, CancelledGameRefundsAll, ShortPoolsAreRefunded
<1>7. PoolWithinType'
  <2> SUFFICES ASSUME NEW p \in Pools', pool'[p].count > 0
               PROVE  types'[pool'[p].type] # NoType /\ pool'[p].count <= types'[pool'[p].type].max
    BY DEF PoolWithinType, TypeOf
  <2>1. CASE p = Len(pool) + 1
    <3>1. pool'[p].count = 0
      BY <1>3, <1>4, <2>1
    <3> DEFINE n == pool'[p].count
    <3>2. n = 0
      BY <3>1
    <3> HIDE DEF n
    <3>3. ~ (n > 0)
      BY <3>2
    <3> QED BY <3>3, Zenon DEF n
  <2>2. CASE p \in Pools
    BY <1>4, <2>2 DEF PoolWithinType, TypeOf
  <2> QED BY <1>4, <2>1, <2>2
<1>8. AwardsAreAnnounced'
  BY <1>4 DEF AwardsAreAnnounced
<1>9. HistoryMatchesFlags' /\ TeamsFit'
  BY DEF HistoryMatchesFlags, TeamsFit
<1> QED BY <1>5, <1>6, <1>7, <1>8, <1>9

(* A bid adds one team, which has no claims, at the end of one table.       *)
LEMMA BidTables ==
  ASSUME Inv, NEW sender \in Accounts, NEW g \in Gamers, NEW t \in PoolTypes,
         NEW p \in PoolIds, NEW id \in TeamIds, GamePoolBidSubmit(sender, g, t, p, id)
  PROVE  \E new \in Team :
           /\ Recorded(new) /\ new.reward = 0 /\ ~new.claimedReward /\ ~new.claimedRefund
           /\ new.id = id
           /\ teams' \in TeamTable
           /\ \A q \in PoolIds, h \in Gamers :
                <<q, h>> # <<p, g>> => teams'[q][h] = teams[q][h]
           /\ Len(teams'[p][g]) = Len(teams[p][g]) + 1
           /\ DOMAIN teams'[p][g] = DOMAIN teams[p][g] \cup {Len(teams[p][g]) + 1}
           /\ \A i \in DOMAIN teams[p][g] : teams'[p][g][i] = teams[p][g][i]
           /\ teams'[p][g][Len(teams[p][g]) + 1] = new
           /\ Len(teams[p][g]) \in Nat /\ DOMAIN teams[p][g] = 1..Len(teams[p][g])
           /\ Len(teams[p][g]) + 1 <= MaxTeams
<1> DEFINE new == NewTeam(id, types[t].fee)
           ts == teams[p][g]
<1>1. teams \in TeamTable /\ types[t] \in TypeDetails /\ types[t] # NoType
      /\ Len(ts) < types[t].perGamer
  BY DEF Inv, TypeOK, TeamTable, GamePoolBidSubmit, SaveTeamDetails
<1>2. new \in Team /\ Recorded(new) /\ new.reward = 0 /\ ~new.claimedReward
      /\ ~new.claimedRefund /\ new.id = id
  BY <1>1 DEF NewTeam, Team, TypeDetails, Recorded
<1>3. /\ teams' \in TeamTable
      /\ teams'[p][g] = Append(ts, new) /\ ts \in Seq(Team)
      /\ \A q \in PoolIds, h \in Gamers : <<q, h>> # <<p, g>> => teams'[q][h] = teams[q][h]
  <2> HIDE DEF new
  <2>1. teams' = [teams EXCEPT ![p] = [teams[p] EXCEPT ![g] = Append(ts, new)]]
    BY <1>1 DEF GamePoolBidSubmit, SaveTeamDetails, TeamTable, new
  <2>2. Append(ts, new) \in Seq(Team)
    BY <1>1, <1>2, AppendProperties DEF TeamTable
  <2> QED BY <1>1, <2>1, <2>2 DEF TeamTable
<1> HIDE DEF new
<1>4. /\ Len(teams'[p][g]) = Len(ts) + 1 /\ teams'[p][g][Len(ts) + 1] = new
      /\ DOMAIN teams'[p][g] = DOMAIN ts \cup {Len(ts) + 1}
      /\ \A i \in DOMAIN ts : teams'[p][g][i] = ts[i]
      /\ Len(ts) \in Nat /\ DOMAIN ts = 1..Len(ts)
  BY <1>2, <1>3, AppendProperties
<1>5. Len(ts) + 1 <= MaxTeams
  BY <1>1, <1>4, ConstantsAssumption DEF Inv, TeamsFit, TypeDetails
<1> QED BY <1>2, <1>3, <1>4, <1>5

LEMMA GamePoolBidSubmitInv ==
  ASSUME Inv, NEW sender \in Accounts, NEW g \in Gamers, NEW t \in PoolTypes,
         NEW p \in PoolIds, NEW id \in TeamIds, GamePoolBidSubmit(sender, g, t, p, id)
  PROVE  Inv'
<1>1. p \in Pools /\ pool[p] \in PoolDetails /\ pool \in Seq(PoolDetails)
      /\ types[t] \in TypeDetails /\ status = "open"
  BY PoolsAreDetails DEF Inv, TypeOK, GamePoolBidSubmit, OpenForBids
<1>2. EnteredPool(p, t) \in PoolDetails
  <2>1. pool[p].count + 1 \in Nat
    BY <1>1 DEF PoolDetails
  <2> QED BY <1>1, <2>1 DEF EnteredPool, QueryPoolDetails, PoolDetails
<1>3. /\ EnteredPool(p, t).type = t /\ EnteredPool(p, t).count = pool[p].count + 1
      /\ EnteredPool(p, t).distributed = pool[p].distributed
      /\ ~EnteredPool(p, t).refund /\ ~EnteredPool(p, t).reward
  BY <1>1 DEF EnteredPool, QueryPoolDetails, PoolDetails
<1>4. /\ pool' \in Seq(PoolDetails) /\ Len(pool') = Len(pool) /\ Pools' = Pools
      /\ pool'[p] = EnteredPool(p, t)
      /\ \A q \in Pools \ {p} : pool'[q] = pool[q]
  BY <1>1, <1>2 DEF GamePoolBidSubmit, Pools
<1>5. PICK new \in Team :
        /\ Recorded(new) /\ new.reward = 0 /\ ~new.claimedReward /\ ~new.claimedRefund
        /\ teams' \in TeamTable
        /\ \A q \in PoolIds, h \in Gamers :
             <<q, h>> # <<p, g>> => teams'[q][h] = teams[q][h]
        /\ Len(teams'[p][g]) = Len(teams[p][g]) + 1
        /\ DOMAIN teams'[p][g] = DOMAIN teams[p][g] \cup {Len(teams[p][g]) + 1}
        /\ \A i \in DOMAIN teams[p][g] : teams'[p][g][i] = teams[p][g][i]
        /\ teams'[p][g][Len(teams[p][g]) + 1] = new
        /\ Len(teams[p][g]) + 1 <= MaxTeams
  BY BidTables
<1>6. \A q \in PoolIds, h \in Gamers : \A i \in DOMAIN teams'[q][h] :
        \/ i \in DOMAIN teams[q][h] /\ teams'[q][h][i] = teams[q][h][i]
        \/ teams'[q][h][i] = new
  BY <1>5
<1>7. TypeOK'
  <2>1. ust' \in Nat
    BY <1>1 DEF GamePoolBidSubmit, FeeSwapped, Inv, TypeOK, TypeDetails
  <2> QED BY <1>4, <1>5, <2>1 DEF GamePoolBidSubmit, Inv, TypeOK, TeamTable
<1>8. OpenGameKeepsDeposits'
  <2>1. \A q \in Pools' : ~pool'[q].refund /\ ~pool'[q].reward /\ ~pool'[q].distributed
    BY <1>1, <1>3, <1>4 DEF Inv, OpenGameKeepsDeposits
  <2>2. \A q \in PoolIds, h \in Gamers : \A i \in DOMAIN teams'[q][h] :
          ~teams'[q][h][i].claimedReward /\ ~teams'[q][h][i].claimedRefund
    BY <1>1, <1>5, <1>6 DEF Inv, OpenGameKeepsDeposits
  <2> QED BY <2>1, <2>2 DEF OpenGameKeepsDeposits
<1>9. CancelledGameRefundsAll' /\ ShortPoolsAreRefunded'
  BY <1>1 DEF GamePoolBidSubmit, CancelledGameRefundsAll, ShortPoolsAreRefunded
<1>10. PoolWithinType'
  <2> SUFFICES ASSUME NEW q \in Pools, pool'[q].count > 0
               PROVE  types[pool'[q].type] # NoType /\ pool'[q].count <= types[pool'[q].type].max
    BY <1>4 DEF PoolWithinType, TypeOf, GamePoolBidSubmit
  <2>1. CASE q = p
    <3>1. pool[p].count < types[t].max /\ types[t] # NoType
      BY DEF GamePoolBidSubmit, RoomForTeam
    <3>2. pool[p].count \in Nat /\ types[t].max \in Nat
      BY <1>1 DEF PoolDetails, TypeDetails
    <3> QED BY <1>3, <1>4, <2>1, <3>1, <3>2
  <2>2. CASE q # p
    BY <1>4, <2>2 DEF Inv, PoolWithinType, TypeOf
  <2> QED BY <2>1, <2>2
<1>11. AwardsAreAnnounced'
  <2>1. \A q \in PoolIds, h \in Gamers : \A i \in DOMAIN teams[q][h] :
          ~(teams[q][h][i].reward > 0)
    BY <1>1 DEF Inv, OpenGameKeepsDeposits, AwardsAreAnnounced
  <2>2. \A q \in PoolIds, h \in Gamers : \A i \in DOMAIN teams'[q][h] :
          ~(teams'[q][h][i].reward > 0)
    BY <1>5, <1>6, <2>1
  <2> QED BY <2>2 DEF AwardsAreAnnounced
<1>12. HistoryMatchesFlags'
  BY <1>5, <1>6 DEF Inv, HistoryMatchesFlags
<1>13. TeamsFit'
  BY <1>5 DEF GamePoolBidSubmit, Inv, TeamsFit
<1> QED BY <1>7, <1>8, <1>9, <1>10, <1>11, <1>12, <1>13 DEF Inv

(* The game is locked or cancelled: only flags of the pools change.         *)
LEMMA FlagsInv ==
  ASSUME Inv, UNCHANGED <<types, teams, record, funds>>,
         NEW f, pool' = [p \in Pools |-> [pool[p] EXCEPT !.refund = f[p]]],
         \A p \in Pools : f[p] \in BOOLEAN,
         \/ status' = "cancelled" /\ \A p \in Pools : f[p]
         \/ /\ status = "open" /\ status' = "closed" /\ TypesKnown
            /\ \A p \in Pools : f[p] = (pool[p].refund \/ Underfilled(p))
  PROVE  Inv'
<1>1. pool \in Seq(PoolDetails) /\ \A p \in Pools : pool[p] \in PoolDetails
  BY PoolsAreDetails DEF Inv, TypeOK
<1>2. \A p \in Pools : /\ pool'[p] \in PoolDetails
                       /\ pool'[p].type = pool[p].type /\ pool'[p].count = pool[p].count
                       /\ pool'[p].reward = pool[p].reward
                       /\ pool'[p].refund = f[p]
  BY <1>1 DEF PoolDetails
<1>3. pool' \in Seq(PoolDetails) /\ Len(pool') = Len(pool) /\ Pools' = Pools
  <2>1. pool' = [p \in DOMAIN pool |-> pool'[p]]
    BY DEF Pools
  <2>2. \A p \in DOMAIN pool : pool'[p] \in PoolDetails
    BY <1>2 DEF Pools
  <2> QED BY <1>1, <2>1, <2>2, MapSeq DEF Pools
<1>4. TypeOK'
  BY <1>3 DEF Inv, TypeOK, funds
<1>5. OpenGameKeepsDeposits'
  BY DEF OpenGameKeepsDeposits
<1>6. CancelledGameRefundsAll' /\ ShortPoolsAreRefunded'
  <2>1. CASE status' = "cancelled" /\ \A p \in Pools : f[p]
    BY <1>2, <1>3, <2>1 DEF CancelledGameRefundsAll, ShortPoolsAreRefunded
  <2>2. CASE /\ status = "open" /\ TypesKnown
             /\ status' = "closed"
             /\ \A p \in Pools : f[p] = (pool[p].refund \/ Underfilled(p))
    <3>1. \A p \in Pools : ~pool[p].refund /\ ~pool[p].reward
      BY <2>2 DEF Inv, OpenGameKeepsDeposits
    <3>2. \A p \in Pools' : /\ TypeOf(p)' # NoType
                            /\ pool'[p].refund <=> pool'[p].count < TypeOf(p)'.min
                            /\ ~pool'[p].reward
      BY <1>2, <1>3, <2>2, <3>1 DEF TypesKnown, TypeOf, Underfilled
    <3> QED BY <2>2, <3>2 DEF CancelledGameRefundsAll, ShortPoolsAreRefunded
  <2> QED BY <2>1, <2>2
<1>7. PoolWithinType'
  BY <1>2, <1>3 DEF Inv, PoolWithinType, TypeOf
<1>8. AwardsAreAnnounced'
  BY <1>2, <1>3 DEF Inv, AwardsAreAnnounced
<1>9. HistoryMatchesFlags' /\ TeamsFit'
  BY DEF Inv, HistoryMatchesFlags, TeamsFit
<1> QED BY <1>4, <1>5, <1>6, <1>7, <1>8, <1>9 DEF Inv

LEMMA LockGameInv ==
  ASSUME Inv, NEW sender \in Accounts, LockGame(sender)
  PROVE  Inv'
<1> DEFINE f == [p \in Pools |-> pool[p].refund \/ Underfilled(p)]
<1>1. \A p \in Pools : f[p] \in BOOLEAN
  <2>1. \A p \in Pools : Underfilled(p) \in BOOLEAN
    BY DEF Underfilled
  <2> QED BY <2>1, PoolsAreDetails DEF Inv, PoolDetails
<1>2. pool' = [p \in Pools |-> [pool[p] EXCEPT !.refund = f[p]]]
  BY DEF LockGame
<1>3. \A p \in Pools : f[p] = (pool[p].refund \/ Underfilled(p))
  OBVIOUS
<1> HIDE DEF f
<1> QED BY <1>1, <1>2, <1>3, FlagsInv DEF LockGame, OpenForBids

LEMMA CancelGameInv ==
  ASSUME Inv, NEW sender \in Accounts, CancelGame(sender)
  PROVE  Inv'
<1> DEFINE f == [p \in Pools |-> TRUE]
<1>1. \A p \in Pools : f[p] \in BOOLEAN /\ f[p]
  OBVIOUS
<1>2. pool' = [p \in Pools |-> [pool[p] EXCEPT !.refund = f[p]]]
  BY DEF CancelGame
<1> HIDE DEF f
<1> QED BY <1>1, <1>2, FlagsInv DEF CancelGame

(* A claim changes nothing but the flags of teams, and pays something, so   *)
(* that the game is not open.                                               *)
LEMMA ClaimInv ==
  ASSUME Inv, UNCHANGED <<status, types, pool, record>>, ust' \in Nat, fury' \in Nat,
         teams' = [p \in PoolIds |-> [g \in Gamers |-> teams'[p][g]]],
         \A p \in PoolIds, g \in Gamers : Kept(teams'[p][g], teams[p][g]),
         \A p \in PoolIds, g \in Gamers : \A i \in DOMAIN teams[p][g] :
           teams'[p][g][i].reward = teams[p][g][i].reward,
         status = "open" => teams' = teams
  PROVE  Inv'
<1>1. teams' \in TeamTable /\ HistoryMatchesFlags' /\ TeamsFit'
  BY KeptTables
<1>2. \A p \in PoolIds, g \in Gamers : DOMAIN teams'[p][g] = DOMAIN teams[p][g]
  <2> TAKE p \in PoolIds, g \in Gamers
  <2>1. teams[p][g] \in Seq(Team) /\ teams'[p][g] \in Seq(Team)
        /\ Len(teams'[p][g]) = Len(teams[p][g])
    BY <1>1 DEF Inv, TypeOK, TeamTable, Kept
  <2> QED BY <2>1
<1>3. TypeOK'
  BY <1>1 DEF Inv, TypeOK, TeamTable
<1>4. OpenGameKeepsDeposits'
  BY DEF Inv, OpenGameKeepsDeposits, Pools
<1>5. CancelledGameRefundsAll' /\ ShortPoolsAreRefunded' /\ PoolWithinType'
  BY DEF Inv, CancelledGameRefundsAll, ShortPoolsAreRefunded, PoolWithinType, Pools, TypeOf
<1>6. AwardsAreAnnounced'
  BY <1>2 DEF Inv, AwardsAreAnnounced, Pools
<1> QED BY <1>1, <1>3, <1>4, <1>5, <1>6 DEF Inv

LEMMA ClaimRewardTables ==
  ASSUME Inv, NEW sender \in Accounts, NEW g \in Gamers, ClaimReward(sender, g)
  PROVE  /\ \A p \in PoolIds, h \in Gamers :
              teams'[p][h] = IF p \in RewardPools /\ h = g THEN RewardedTeams(teams[p][g])
                             ELSE teams[p][h]
         /\ teams' = [p \in PoolIds |-> [h \in Gamers |-> teams'[p][h]]]
         /\ status = "open" => teams' = teams
<1> DEFINE F == [p \in PoolIds |-> RewardedTeams(teams[p][g])]
<1>1. teams' = [p \in PoolIds |-> IF p \in RewardPools THEN [teams[p] EXCEPT ![g] = F[p]]
                                ELSE teams[p]]
  <2>1. \A p \in PoolIds : [teams[p] EXCEPT ![g] = RewardedTeams(@)]
                           = [teams[p] EXCEPT ![g] = RewardedTeams(teams[p][g])]
    OBVIOUS
  <2> QED BY <2>1 DEF ClaimReward
<1>2. \A p \in PoolIds : F[p] = RewardedTeams(teams[p][g])
  OBVIOUS
<1>3. teams \in TeamTable
  BY DEF Inv, TypeOK, TeamTable
<1> HIDE DEF F
<1>4. /\ \A p \in PoolIds, h \in Gamers :
           teams'[p][h] = IF p \in RewardPools /\ h = g THEN F[p] ELSE teams[p][h]
      /\ teams' = [p \in PoolIds |-> [h \in Gamers |-> teams'[p][h]]]
      /\ RewardPools \cap PoolIds = {} => teams' = teams
  BY <1>1, <1>3 DEF TeamTable
<1>5. status = "open" => RewardPools = {}
  BY DEF RewardPools, Inv, OpenGameKeepsDeposits
<1> QED BY <1>2, <1>4, <1>5

LEMMA ClaimRewardInv ==
  ASSUME Inv, NEW sender \in Accounts, NEW g \in Gamers, ClaimReward(sender, g)
  PROVE  Inv'
<1>1. \A p \in PoolIds, h \in Gamers :
        /\ Kept(teams'[p][h], teams[p][h])
        /\ \A i \in DOMAIN teams[p][h] : teams'[p][h][i].reward = teams[p][h][i].reward
  <2> TAKE p \in PoolIds, h \in Gamers
  <2>1. teams[p][h] \in Seq(Team)
    BY DEF Inv, TypeOK
  <2>2. CASE p \in RewardPools /\ h = g
    BY <2>1, <2>2, ClaimRewardTables, RewardedTeamsKept
  <2>3. CASE ~(p \in RewardPools /\ h = g)
    <3>1. teams'[p][h] = teams[p][h]
      BY <2>3, ClaimRewardTables
    <3> QED BY <2>1, <3>1 DEF Kept
  <2> QED BY <2>2, <2>3
<1>2. ust' \in Nat /\ fury' \in Nat /\ UNCHANGED <<status, types, pool, record>>
  BY DEF ClaimReward, Inv, TypeOK
<1> QED BY <1>1, <1>2, ClaimRewardTables, ClaimInv

LEMMA ClaimRefundTables ==
  ASSUME Inv, NEW sender \in Accounts, NEW g \in Gamers, ClaimRefund(sender, g)
  PROVE  /\ \A p \in PoolIds, h \in Gamers :
              teams'[p][h] = IF p \in RefundPools /\ h = g
                             THEN RefundedTeams(teams[p][g], TypeOf(p).fee)
                             ELSE teams[p][h]
         /\ teams' = [p \in PoolIds |-> [h \in Gamers |-> teams'[p][h]]]
         /\ status = "open" => teams' = teams
         /\ \A p \in RefundPools \cap PoolIds :
              /\ TypeOf(p).fee \in Nat
              /\ \A i \in DOMAIN teams[p][g] : ~teams[p][g][i].claimedRefund
<1> DEFINE F == [p \in PoolIds |-> RefundedTeams(teams[p][g], TypeOf(p).fee)]
<1>1. teams' = [p \in PoolIds |-> IF p \in RefundPools THEN [teams[p] EXCEPT ![g] = F[p]]
                                ELSE teams[p]]
  <2>1. \A p \in PoolIds : [teams[p] EXCEPT ![g] = RefundedTeams(@, TypeOf(p).fee)]
                           = [teams[p] EXCEPT ![g] = RefundedTeams(teams[p][g], TypeOf(p).fee)]
    OBVIOUS
  <2> QED BY <2>1 DEF ClaimRefund
<1>2. \A p \in PoolIds : F[p] = RefundedTeams(teams[p][g], TypeOf(p).fee)
  OBVIOUS
<1>3. teams \in TeamTable
  BY DEF Inv, TypeOK, TeamTable
<1> HIDE DEF F
<1>4. /\ \A p \in PoolIds, h \in Gamers :
           teams'[p][h] = IF p \in RefundPools /\ h = g THEN F[p] ELSE teams[p][h]
      /\ teams' = [p \in PoolIds |-> [h \in Gamers |-> teams'[p][h]]]
      /\ RefundPools \cap PoolIds = {} => teams' = teams
  BY <1>1, <1>3 DEF TeamTable
<1>5. status = "open" => RefundPools = {}
  BY DEF RefundPools, Inv, OpenGameKeepsDeposits
<1>6. ASSUME NEW p \in RefundPools
      PROVE  /\ TypeOf(p).fee \in Nat
             /\ \A i \in DOMAIN teams[p][g] : ~teams[p][g][i].claimedRefund
  <2>1. p \in Pools /\ pool[p].type \in PoolTypes
    BY PoolsAreDetails DEF RefundPools, PoolDetails, Inv
  <2>2. TypeOf(p) \in TypeDetails
    BY <2>1 DEF ClaimRefund, NothingRefunded, TypeOf, Inv, TypeOK
  <2> QED BY <2>2 DEF TypeDetails, ClaimRefund, NothingRefunded, RefundClaimed
<1> QED BY <1>2, <1>4, <1>5, <1>6

LEMMA ClaimRefundInv ==
  ASSUME Inv, NEW sender \in Accounts, NEW g \in Gamers, ClaimRefund(sender, g)
  PROVE  Inv'
<1>1. \A p \in PoolIds, h \in Gamers :
        /\ Kept(teams'[p][h], teams[p][h])
        /\ \A i \in DOMAIN teams[p][h] : teams'[p][h][i].reward = teams[p][h][i].reward
  <2> TAKE p \in PoolIds, h \in Gamers
  <2>1. teams[p][h] \in Seq(Team)
    BY DEF Inv, TypeOK
  <2>2. CASE p \in RefundPools /\ h = g
    BY <2>1, <2>2, ClaimRefundTables, RefundedTeamsKept
  <2>3. CASE ~(p \in RefundPools /\ h = g)
    <3>1. teams'[p][h] = teams[p][h]
      BY <2>3, ClaimRefundTables
    <3> QED BY <2>1, <3>1 DEF Kept
  <2> QED BY <2>2, <2>3
<1>2. ust' \in Nat /\ fury' \in Nat /\ UNCHANGED <<status, types, pool, record>>
  BY DEF ClaimRefund, Inv, TypeOK
<1> QED BY <1>1, <1>2, ClaimRefundTables, ClaimInv

LEMMA GamePoolRewardDistributeInv ==
  ASSUME Inv, NEW sender \in Accounts, NEW p \in PoolIds, NEW winners \in Seq(GameResult),
         NEW final \in BOOLEAN, NEW rake,
         GamePoolRewardDistribute(sender, p, winners, final, rake)
  PROVE  Inv'
<1>1. /\ p \in Pools /\ pool[p] \in PoolDetails /\ pool \in Seq(PoolDetails)
      /\ teams \in TeamTable /\ winners \in Seq(GameResult)
      /\ status' \in {"closed", "completed"} /\ types' = types
  BY PoolsAreDetails, ConstantsAssumption
     DEF Inv, TypeOK, TeamTable, GamePoolRewardDistribute
<1> DEFINE new == PoolWithRewards(p, final)
<1>2. /\ new \in PoolDetails /\ new.type = pool[p].type /\ new.count = pool[p].count
      /\ new.reward /\ ~new.refund
  BY <1>1 DEF PoolWithRewards, PoolDetails
<1>3. pool' = [pool EXCEPT ![p] = new]
  BY DEF GamePoolRewardDistribute
<1> HIDE DEF new
<1>4. /\ pool' \in Seq(PoolDetails) /\ Len(pool') = Len(pool) /\ Pools' = Pools
      /\ pool'[p] = new
      /\ \A q \in Pools \ {p} : pool'[q] = pool[q]
  BY <1>1, <1>2, <1>3 DEF Pools
<1>5. \A q \in PoolIds, h \in Gamers :
        teams'[q][h] = IF q = p THEN TeamsWithRewards(teams[p][h], h, winners) ELSE teams[q][h]
  BY <1>1 DEF GamePoolRewardDistribute, TeamTable
<1>6. teams' = [q \in PoolIds |-> [h \in Gamers |-> teams'[q][h]]]
  BY <1>1 DEF GamePoolRewardDistribute, TeamTable
<1>7. \A q \in PoolIds, h \in Gamers : Kept(teams'[q][h], teams[q][h])
  <2> TAKE q \in PoolIds, h \in Gamers
  <2>1. teams[q][h] \in Seq(Team)
    BY <1>1 DEF TeamTable
  <2> QED BY <1>1, <1>5, <2>1, TeamsWithRewardsKept DEF Kept
<1>8. teams' \in TeamTable /\ HistoryMatchesFlags' /\ TeamsFit'
  BY <1>1, <1>6, <1>7, KeptTables
<1>9. TypeOK'
  <2>1. ust' \in Nat
    BY DEF GamePoolRewardDistribute, TransferToMultipleWallets, Inv, TypeOK
  <2>2. record' \in [PoolIds -> Record]
    BY DEF GamePoolRewardDistribute, StoreRewardTotal, Inv, TypeOK, Record
  <2> QED BY <1>1, <1>4, <1>8, <2>1, <2>2
        DEF GamePoolRewardDistribute, Inv, TypeOK, TeamTable
<1>10. OpenGameKeepsDeposits' /\ CancelledGameRefundsAll'
  BY <1>1 DEF OpenGameKeepsDeposits, CancelledGameRefundsAll
<1>11. PoolWithinType'
  BY <1>1, <1>2, <1>4 DEF Inv, PoolWithinType, TypeOf
<1>12. AwardsAreAnnounced'
  <2> SUFFICES ASSUME NEW q \in PoolIds, NEW h \in Gamers, NEW i \in DOMAIN teams'[q][h],
                      teams'[q][h][i].reward > 0
               PROVE  q \in Pools /\ pool'[q].reward
    BY <1>4 DEF AwardsAreAnnounced
  <2>1. CASE q = p
    BY <1>1, <1>2, <1>4, <2>1
  <2>2. CASE q # p
    BY <1>4, <1>5, <2>2 DEF Inv, AwardsAreAnnounced
  <2> QED BY <2>1, <2>2
<1>13. ShortPoolsAreRefunded'
  <2>1. status \in {"closed", "completed"}
    BY DEF Inv, TypeOK, GamePoolRewardDistribute, GameRunsOrIsOver
  <2> QED BY <1>1, <1>2, <1>4, <2>1 DEF Inv, ShortPoolsAreRefunded, TypeOf
<1> QED BY <1>8, <1>9, <1>10, <1>11, <1>12, <1>13 DEF Inv

LEMMA SwapInv ==
  ASSUME Inv, NEW sender \in Accounts, NEW p \in PoolIds, NEW amount \in Nat,
         NEW gain \in Nat, Swap(sender, p, amount, gain)
  PROVE  Inv'
<1>2. RakeAfterSwap(p, amount) \in Nat
  <2> DEFINE collection == TypeOf(p).fee * pool[p].count
  <2>1. pool[p].count \in Nat /\ pool[p].type \in PoolTypes
    BY PoolsAreDetails DEF Swap, PoolDetails, Inv
  <2>2. TypeOf(p).fee \in Nat
    BY <2>1 DEF Swap, TypeOf, TypeDetails, Inv, TypeOK
  <2>3. collection \in Nat
    BY <2>1, <2>2
  <2> HIDE DEF collection
  <2>4. (IF amount >= collection THEN 0 ELSE collection - amount) \in Nat
    BY <2>3
  <2> QED BY <2>4 DEF RakeAfterSwap, collection
<1>3. TypeOK'
  <2>1. ust' \in Nat /\ fury' \in Nat
    BY DEF Swap, Inv, TypeOK
  <2>2. record' \in [PoolIds -> Record]
    BY <1>2 DEF Swap, Inv, TypeOK, Record
  <2> QED BY <2>1, <2>2 DEF Swap, Inv, TypeOK, poolVars
<1>4. UNCHANGED <<status, types, pool, teams>>
  BY DEF Swap, poolVars
<1> QED BY <1>3, <1>4 DEF Inv, OpenGameKeepsDeposits, CancelledGameRefundsAll,
             ShortPoolsAreRefunded, PoolWithinType,
             AwardsAreAnnounced, HistoryMatchesFlags, TeamsFit, Pools, TypeOf

LEMMA SweepInv ==
  ASSUME Inv, NEW sender \in Accounts, NEW amount \in SweepAmounts, Sweep(sender, amount)
  PROVE  Inv'
<1>1. amount \in Nat
  BY ConstantsAssumption
<1>2. TypeOK'
  BY <1>1 DEF Sweep, Inv, TypeOK, poolVars
<1>3. UNCHANGED <<status, types, pool, teams>>
  BY DEF Sweep, poolVars
<1> QED BY <1>2, <1>3 DEF Inv, OpenGameKeepsDeposits, CancelledGameRefundsAll,
             ShortPoolsAreRefunded, PoolWithinType,
             AwardsAreAnnounced, HistoryMatchesFlags, TeamsFit, Pools, TypeOf

LEMMA InitInv == Init => Inv
<1> SUFFICES ASSUME Init PROVE Inv
  OBVIOUS
<1>1. TypeOK
  <2>1. pool \in Seq(PoolDetails) /\ Len(pool) = 0
    BY DEF Init
  <2>2. teams \in [PoolIds -> [Gamers -> Seq(Team)]]
    BY DEF Init
  <2> QED BY <2>1, <2>2, ConstantsAssumption DEF Init, TypeOK, Record
<1>2. Pools = {} /\ \A p \in PoolIds, g \in Gamers :
                     DOMAIN teams[p][g] = {} /\ Len(teams[p][g]) = 0
  BY DEF Init, Pools
<1> QED BY <1>1, <1>2, ConstantsAssumption
        DEF Init, Inv, OpenGameKeepsDeposits, CancelledGameRefundsAll,
             ShortPoolsAreRefunded, PoolWithinType,
             AwardsAreAnnounced, HistoryMatchesFlags, TeamsFit

(* What the administrator sends lies in the types the lemmas are about.     *)
LEMMA PayoutInputs ==
  ASSUME NEW sender, PayoutCall(sender)
  PROVE  \/ \E p \in PoolIds, winners \in Seq(GameResult), rake \in RakeAmounts, final \in BOOLEAN :
              GamePoolRewardDistribute(sender, p, winners, final, rake)
         \/ \E p \in PoolIds, amount \in Nat, gain \in Nat : Swap(sender, p, amount, gain)
         \/ \E amount \in SweepAmounts : Sweep(sender, amount)
<1>1. Batches \subseteq Seq(GameResult) /\ SwapAmounts \subseteq Nat /\ Gains \subseteq Nat
  BY ConstantsAssumption
<1> QED BY <1>1 DEF PayoutCall

LEMMA StepInv ==
  ASSUME Inv, [Next]_vars
  PROVE  Inv'
<1>1. CASE UNCHANGED vars
  BY <1>1 DEF vars, poolVars, funds, Inv, TypeOK, OpenGameKeepsDeposits,
       CancelledGameRefundsAll, ShortPoolsAreRefunded, PoolWithinType, AwardsAreAnnounced, HistoryMatchesFlags,
       TeamsFit, Pools, TypeOf
<1>2. ASSUME NEW sender \in Accounts, GamerCall(sender) PROVE Inv'
  BY <1>2, GamePoolBidSubmitInv, ClaimRewardInv, ClaimRefundInv DEF GamerCall
<1>3. ASSUME NEW sender \in Accounts, GameCall(sender) PROVE Inv'
  BY <1>3, SetPoolTypeParamsInv, CreatePoolInv, LockGameInv, CancelGameInv DEF GameCall
<1>4. ASSUME NEW sender \in Accounts, PayoutCall(sender) PROVE Inv'
  BY <1>4, PayoutInputs, GamePoolRewardDistributeInv, SwapInv, SweepInv
<1> QED BY <1>1, <1>2, <1>3, <1>4 DEF Next

(* The inductive invariant of the gaming pool: whatever the administrator   *)
(* and the gamers call, in any order.                                       *)
THEOREM Invariance == Spec => []Inv
BY InitInv, StepInv, PTL DEF Spec

(* Every stored value stays in its type, the funds of the contract included. *)
THEOREM TypeCorrect == Spec => []TypeOK
BY Invariance, PTL DEF Inv

(* While the game takes bids nothing is refundable, awarded or claimed.     *)
THEOREM DepositsAreKept == Spec => []OpenGameKeepsDeposits
BY Invariance, PTL DEF Inv

(* Every pool of a cancelled game is refundable.                            *)
THEOREM CancelledGamesRefund == Spec => []CancelledGameRefundsAll
BY Invariance, PTL DEF Inv

(* Once the game is locked, the pools short of teams are the refundable ones. *)
THEOREM ShortPoolsRefund == Spec => []ShortPoolsAreRefunded
BY Invariance, PTL DEF Inv

(* No pool outgrows its type, whatever types the bids name.                 *)
THEOREM PoolsFitTheirTypes == Spec => []PoolWithinType
BY Invariance, PTL DEF Inv

(* A game that was cancelled stays cancelled, and its pools refundable.     *)
THEOREM CancellationStands == Spec => CancellationIsFinal
<1> DEFINE Stands == status = "cancelled" => /\ status' = "cancelled"
                                             /\ RefundPools \subseteq RefundPools'
<1>1. ASSUME NEW sender \in Accounts, GamerCall(sender) PROVE Stands
  BY <1>1 DEF GamerCall, GamePoolBidSubmit, ClaimReward, ClaimRefund, OpenForBids, RefundPools, Pools
<1>2. ASSUME NEW sender \in Accounts, GameCall(sender) PROVE Stands
  BY <1>2 DEF GameCall, SetPoolTypeParams, CreatePool, LockGame, CancelGame, OpenForBids,
       RefundPools, Pools, poolVars
<1>3. ASSUME NEW sender \in Accounts, PayoutCall(sender) PROVE Stands
  BY <1>3 DEF PayoutCall, GamePoolRewardDistribute, Swap, Sweep, GameRunsOrIsOver,
       RefundPools, Pools, poolVars
<1>4. Next => Stands
  BY <1>1, <1>2, <1>3 DEF Next
<1> QED BY <1>4, PTL DEF Spec, CancellationIsFinal

-----------------------------------------------------------------------------
(* The promise *)

LEMMA EnteredTickets ==
  ASSUME TypeOK
  PROVE  /\ Entered \subseteq Ticket
         /\ \A t \in Ticket : /\ t[1] \in PoolIds /\ t[2] \in Gamers
                             /\ t = <<t[1], t[2], t[3]>>
                             /\ t \in Entered <=> t[3] \in DOMAIN teams[t[1]][t[2]]
  BY DEF Entered, Ticket

(* A step that keeps the status, the teams and what was paid for them is a  *)
(* stutter of the promise.                                                  *)
LEMMA NothingPaid ==
  ASSUME status = "open" <=> status' = "open",
         \A p \in PoolIds, g \in Gamers :
           /\ DOMAIN teams'[p][g] = DOMAIN teams[p][g]
           /\ \A i \in DOMAIN teams[p][g] :
                /\ teams'[p][g][i].refunds = teams[p][g][i].refunds
                /\ teams'[p][g][i].rewards = teams[p][g][i].rewards
  PROVE  UNCHANGED Promise!ticketVars
<1>1. Entered' = Entered
  BY DEF Entered, Ticket
<1>2. \A t \in Ticket : t \in Entered =>
        TeamOf(t)'.refunds = TeamOf(t).refunds /\ TeamOf(t)'.rewards = TeamOf(t).rewards
  BY DEF Entered, Ticket, TeamOf
<1>3. (status = "open") = (status' = "open")
  OBVIOUS
<1> QED BY <1>1, <1>2, <1>3 DEF Promise!ticketVars

LEMMA BidSells ==
  ASSUME Inv, NEW sender \in Accounts, NEW g \in Gamers, NEW t \in PoolTypes,
         NEW p \in PoolIds, NEW id \in TeamIds, GamePoolBidSubmit(sender, g, t, p, id)
  PROVE  \E ticket \in Ticket : Promise!Sell(ticket)
<1>0. PICK n : n = Len(teams[p][g]) + 1
  OBVIOUS
<1> DEFINE ticket == <<p, g, n>>
<1>1. PICK new \in Team :
        /\ Recorded(new) /\ new.reward = 0 /\ ~new.claimedReward /\ ~new.claimedRefund
        /\ \A q \in PoolIds, h \in Gamers :
             <<q, h>> # <<p, g>> => teams'[q][h] = teams[q][h]
        /\ DOMAIN teams'[p][g] = DOMAIN teams[p][g] \cup {n}
        /\ \A i \in DOMAIN teams[p][g] : teams'[p][g][i] = teams[p][g][i]
        /\ teams'[p][g][n] = new
        /\ Len(teams[p][g]) \in Nat /\ DOMAIN teams[p][g] = 1..Len(teams[p][g])
        /\ n <= MaxTeams
  BY <1>0, BidTables
<1>2. n \in 1..MaxTeams /\ n \notin DOMAIN teams[p][g]
  BY <1>0, <1>1, ConstantsAssumption
<1>3. ticket \in Ticket /\ ticket \notin Entered
  BY <1>2 DEF Ticket, Entered
<1>4. Entered' = Entered \cup {ticket}
  BY <1>1, <1>3 DEF Ticket, Entered
<1>5. \A u \in Ticket : u \in Entered => TeamOf(u)' = TeamOf(u)
  BY <1>1 DEF Ticket, Entered, TeamOf
<1>6. TeamOf(ticket)'.refunds = 0 /\ TeamOf(ticket)'.rewards = 0
  BY <1>1 DEF TeamOf, Recorded
<1>7. status = "open" /\ status' = "open"
  BY DEF GamePoolBidSubmit, OpenForBids
<1> HIDE DEF ticket
<1> QED BY <1>3, <1>4, <1>5, <1>6, <1>7 DEF Promise!Sell

LEMMA ClosingCloses ==
  ASSUME teams' = teams, status' # "open"
  PROVE  IF status = "open" THEN Promise!Close ELSE UNCHANGED Promise!ticketVars
<1>1. Entered' = Entered
  BY DEF Entered, Ticket
<1>2. \A t \in Ticket : TeamOf(t)' = TeamOf(t)
  BY DEF TeamOf
<1>3. CASE status = "open"
  BY <1>1, <1>2, <1>3 DEF Promise!Close
<1>4. CASE status # "open"
  BY <1>1, <1>2, <1>4 DEF Promise!ticketVars
<1> QED BY <1>3, <1>4

(* The flags of a team that was entered count how often it was paid.        *)
LEMMA TicketHistory ==
  ASSUME Inv, NEW t \in Entered
  PROVE  /\ TeamOf(t) \in Team
         /\ TeamOf(t).rewards = IF TeamOf(t).claimedReward THEN 1 ELSE 0
         /\ TeamOf(t).refunds = IF TeamOf(t).claimedRefund THEN 1 ELSE 0
<1>1. t[1] \in PoolIds /\ t[2] \in Gamers /\ t[3] \in DOMAIN teams[t[1]][t[2]]
  BY DEF Entered, Ticket
<1>2. teams[t[1]][t[2]] \in Seq(Team)
  BY <1>1 DEF Inv, TypeOK
<1> QED BY <1>1, <1>2 DEF TeamOf, Inv, HistoryMatchesFlags, Recorded

LEMMA ClaimPaysPrizes ==
  ASSUME Inv, NEW sender \in Accounts, NEW g \in Gamers, ClaimReward(sender, g)
  PROVE  \/ \E ts \in SUBSET Ticket : Promise!PayPrizes(ts)
         \/ UNCHANGED Promise!ticketVars
<1>1. CASE status = "open"
  <2>1. teams' = teams /\ status' = status
    BY <1>1, ClaimRewardTables DEF ClaimReward
  <2> QED BY <2>1, NothingPaid
<1>2. CASE status # "open"
  <2>0. PICK ts : ts = {t \in Entered : /\ t[1] \in RewardPools /\ t[2] = g
                                       /\ ~TeamOf(t).claimedReward}
    OBVIOUS
  <2>1. ASSUME NEW p \in PoolIds, NEW h \in Gamers
        PROVE  /\ DOMAIN teams'[p][h] = DOMAIN teams[p][h]
               /\ \A i \in DOMAIN teams[p][h] :
                    /\ teams'[p][h][i].refunds = teams[p][h][i].refunds
                    /\ teams'[p][h][i].rewards =
                         IF p \in RewardPools /\ h = g /\ ~teams[p][h][i].claimedReward
                         THEN teams[p][h][i].rewards + 1 ELSE teams[p][h][i].rewards
    <3>1. teams[p][h] \in Seq(Team)
      BY DEF Inv, TypeOK
    <3>2. CASE p \in RewardPools /\ h = g
      <4>1. teams'[p][h] = RewardedTeams(teams[p][h])
        BY <3>2, ClaimRewardTables
      <4>2. DOMAIN teams'[p][h] = DOMAIN teams[p][h]
        BY <4>1 DEF RewardedTeams
      <4> QED BY <3>1, <3>2, <4>1, <4>2, RewardedTeamsKept
    <3>3. CASE ~(p \in RewardPools /\ h = g)
      <4>1. teams'[p][h] = teams[p][h]
        BY <3>3, ClaimRewardTables
      <4> QED BY <3>3, <4>1
    <3> QED BY <3>2, <3>3
  <2>2. Entered' = Entered /\ Entered \subseteq Ticket
    BY <2>1 DEF Entered, Ticket
  <2>3. \A t \in Entered : /\ TeamOf(t)'.refunds = TeamOf(t).refunds
                           /\ TeamOf(t)'.rewards = IF t \in ts THEN 1 ELSE TeamOf(t).rewards
    <3> TAKE t \in Entered
    <3>1. t[1] \in PoolIds /\ t[2] \in Gamers /\ t[3] \in DOMAIN teams[t[1]][t[2]]
      BY DEF Entered, Ticket
    <3>2. TeamOf(t).rewards = IF TeamOf(t).claimedReward THEN 1 ELSE 0
      BY TicketHistory
    <3>3. TeamOf(t)' = teams'[t[1]][t[2]][t[3]] /\ TeamOf(t) = teams[t[1]][t[2]][t[3]]
      BY DEF TeamOf
    <3>4. t \in ts <=> t[1] \in RewardPools /\ t[2] = g /\ ~TeamOf(t).claimedReward
      BY <2>0
    <3>5. /\ TeamOf(t)'.refunds = TeamOf(t).refunds
          /\ TeamOf(t)'.rewards = IF t \in ts THEN TeamOf(t).rewards + 1 ELSE TeamOf(t).rewards
      BY <2>1, <3>1, <3>3, <3>4
    <3>6. t \in ts => TeamOf(t).rewards = 0
      BY <3>2, <3>4
    <3> QED BY <3>5, <3>6
  <2>4. \A t \in ts : t \in Entered /\ TeamOf(t).rewards = 0
    BY <2>0, TicketHistory
  <2>5. ts \in SUBSET Ticket
    BY <2>0, <2>2
  <2>6. status' = status
    BY DEF ClaimReward
  <2>7. Promise!PayPrizes(ts)
    BY <1>2, <2>2, <2>3, <2>4, <2>5, <2>6 DEF Promise!PayPrizes, Promise!Once
  <2> QED BY <2>5, <2>7
<1> QED BY <1>1, <1>2

LEMMA ClaimPaysRefunds ==
  ASSUME Inv, NEW sender \in Accounts, NEW g \in Gamers, ClaimRefund(sender, g)
  PROVE  \/ \E ts \in SUBSET Ticket : Promise!Refund(ts)
         \/ UNCHANGED Promise!ticketVars
<1>1. CASE status = "open"
  <2>1. teams' = teams /\ status' = status
    BY <1>1, ClaimRefundTables DEF ClaimRefund
  <2> QED BY <2>1, NothingPaid
<1>2. CASE status # "open"
  <2>0. PICK ts : ts = {t \in Entered : t[1] \in RefundPools /\ t[2] = g}
    OBVIOUS
  <2>1. ASSUME NEW p \in PoolIds, NEW h \in Gamers
        PROVE  /\ DOMAIN teams'[p][h] = DOMAIN teams[p][h]
               /\ \A i \in DOMAIN teams[p][h] :
                    /\ teams'[p][h][i].rewards = teams[p][h][i].rewards
                    /\ teams'[p][h][i].refunds =
                         IF p \in RefundPools /\ h = g
                         THEN teams[p][h][i].refunds + 1 ELSE teams[p][h][i].refunds
                    /\ p \in RefundPools /\ h = g => ~teams[p][h][i].claimedRefund
    <3>1. teams[p][h] \in Seq(Team)
      BY DEF Inv, TypeOK
    <3>2. CASE p \in RefundPools /\ h = g
      <4>1. teams'[p][h] = RefundedTeams(teams[p][h], TypeOf(p).fee)
        BY <3>2, ClaimRefundTables
      <4>2. /\ TypeOf(p).fee \in Nat
            /\ \A i \in DOMAIN teams[p][h] : ~teams[p][h][i].claimedRefund
        BY <3>2, ClaimRefundTables
      <4>3. DOMAIN teams'[p][h] = DOMAIN teams[p][h]
        BY <4>1 DEF RefundedTeams
      <4> QED BY <3>1, <3>2, <4>1, <4>2, <4>3, RefundedTeamsKept
    <3>3. CASE ~(p \in RefundPools /\ h = g)
      <4>1. teams'[p][h] = teams[p][h]
        BY <3>3, ClaimRefundTables
      <4> QED BY <3>3, <4>1
    <3> QED BY <3>2, <3>3
  <2>2. Entered' = Entered /\ Entered \subseteq Ticket
    BY <2>1 DEF Entered, Ticket
  <2>3. ASSUME NEW t \in Entered
        PROVE  /\ t \in ts => TeamOf(t).refunds = 0
               /\ TeamOf(t)'.rewards = TeamOf(t).rewards
               /\ TeamOf(t)'.refunds = IF t \in ts THEN 1 ELSE TeamOf(t).refunds
    <3>1. t[1] \in PoolIds /\ t[2] \in Gamers /\ t[3] \in DOMAIN teams[t[1]][t[2]]
      BY DEF Entered, Ticket
    <3>2. TeamOf(t).refunds = IF TeamOf(t).claimedRefund THEN 1 ELSE 0
      BY TicketHistory
    <3> QED BY <2>0, <2>1, <3>1, <3>2 DEF TeamOf
  <2>4. ts \in SUBSET Ticket /\ \A t \in ts : t \in Entered
    BY <2>0, <2>2
  <2>5. status' = status
    BY DEF ClaimRefund
  <2>6. Promise!Refund(ts)
    BY <1>2, <2>2, <2>3, <2>4, <2>5 DEF Promise!Refund, Promise!Once
  <2> QED BY <2>4, <2>6
<1> QED BY <1>1, <1>2

LEMMA DistributionPaysNothing ==
  ASSUME Inv, NEW sender \in Accounts, NEW p \in PoolIds, NEW winners \in Seq(GameResult),
         NEW final \in BOOLEAN, NEW rake,
         GamePoolRewardDistribute(sender, p, winners, final, rake)
  PROVE  UNCHANGED Promise!ticketVars
<1>1. teams \in TeamTable /\ winners \in Seq(GameResult)
  BY ConstantsAssumption DEF Inv, TypeOK, TeamTable
<1>2. status = "open" <=> status' = "open"
  BY DEF GamePoolRewardDistribute, GameRunsOrIsOver
<1>3. ASSUME NEW q \in PoolIds, NEW h \in Gamers
      PROVE  /\ DOMAIN teams'[q][h] = DOMAIN teams[q][h]
             /\ \A i \in DOMAIN teams[q][h] :
                  /\ teams'[q][h][i].refunds = teams[q][h][i].refunds
                  /\ teams'[q][h][i].rewards = teams[q][h][i].rewards
  <2>1. teams'[q][h] = IF q = p THEN TeamsWithRewards(teams[p][h], h, winners) ELSE teams[q][h]
    BY <1>1 DEF GamePoolRewardDistribute, TeamTable
  <2>2. CASE q = p
    <3>1. teams[q][h] \in Seq(Team)
      BY <1>1 DEF TeamTable
    <3>2. DOMAIN teams'[q][h] = DOMAIN teams[q][h]
      BY <2>1, <2>2 DEF TeamsWithRewards
    <3> QED BY <1>1, <2>1, <2>2, <3>1, <3>2, TeamsWithRewardsKept
  <2>3. CASE q # p
    BY <2>1, <2>3
  <2> QED BY <2>2, <2>3
<1> QED BY <1>2, <1>3, NothingPaid

LEMMA StepKeepsPromise ==
  ASSUME Inv, [Next]_vars
  PROVE  Promise!TicketNext \/ UNCHANGED Promise!ticketVars
<1>1. ASSUME UNCHANGED <<status, teams>> PROVE UNCHANGED Promise!ticketVars
  BY <1>1, NothingPaid
<1>2. CASE UNCHANGED vars
  BY <1>1, <1>2 DEF vars, poolVars
<1>3. ASSUME NEW sender \in Accounts, GamerCall(sender)
      PROVE  Promise!TicketNext \/ UNCHANGED Promise!ticketVars
  <2> USE DEF Promise!TicketNext
  <2>1. ASSUME NEW g \in Gamers, NEW t \in PoolTypes, NEW p \in PoolIds, NEW id \in TeamIds,
               GamePoolBidSubmit(sender, g, t, p, id)
        PROVE  Promise!TicketNext
    BY <2>1, BidSells
  <2>2. ASSUME NEW g \in Gamers, ClaimReward(sender, g)
        PROVE  Promise!TicketNext \/ UNCHANGED Promise!ticketVars
    BY <2>2, ClaimPaysPrizes
  <2>3. ASSUME NEW g \in Gamers, ClaimRefund(sender, g)
        PROVE  Promise!TicketNext \/ UNCHANGED Promise!ticketVars
    BY <2>3, ClaimPaysRefunds
  <2> HIDE DEF Promise!TicketNext
  <2> QED BY <1>3, <2>1, <2>2, <2>3 DEF GamerCall
<1>4. ASSUME NEW sender \in Accounts, GameCall(sender)
      PROVE  Promise!TicketNext \/ UNCHANGED Promise!ticketVars
  <2>1. ASSUME teams' = teams, status' # "open"
        PROVE  Promise!TicketNext \/ UNCHANGED Promise!ticketVars
    BY <2>1, ClosingCloses DEF Promise!TicketNext
  <2>2. ASSUME LockGame(sender) \/ CancelGame(sender)
        PROVE  teams' = teams /\ status' # "open"
    BY <2>2 DEF LockGame, CancelGame
  <2>3. ASSUME NEW t \in PoolTypes, NEW details \in TypeInputs,
               SetPoolTypeParams(sender, t, details)
        PROVE  UNCHANGED <<status, teams>>
    BY <2>3 DEF SetPoolTypeParams, poolVars
  <2>4. ASSUME NEW t \in PoolTypes, CreatePool(sender, t)
        PROVE  UNCHANGED <<status, teams>>
    BY <2>4 DEF CreatePool
  <2> QED BY <1>1, <1>4, <2>1, <2>2, <2>3, <2>4 DEF GameCall
<1>5. ASSUME NEW sender \in Accounts, PayoutCall(sender)
      PROVE  UNCHANGED Promise!ticketVars
  <2>1. ASSUME NEW p \in PoolIds, NEW amount \in Nat, NEW gain \in Nat,
               Swap(sender, p, amount, gain)
        PROVE  UNCHANGED <<status, teams>>
    BY <2>1 DEF Swap, poolVars
  <2>2. ASSUME NEW amount \in SweepAmounts, Sweep(sender, amount)
        PROVE  UNCHANGED <<status, teams>>
    BY <2>2 DEF Sweep, poolVars
  <2> QED BY <1>1, <1>5, <2>1, <2>2, PayoutInputs, DistributionPaysNothing
<1> QED BY <1>2, <1>3, <1>4, <1>5 DEF Next

(* The gaming pool implements the promise of GameTickets.                   *)
THEOREM PromiseIsKept == Spec => KeepsPromise
<1>1. Init => Promise!TicketInit
  <2> SUFFICES ASSUME Init PROVE Promise!TicketInit
    OBVIOUS
  <2>1. Entered = {}
    BY DEF Init, Entered, Ticket
  <2> QED BY <2>1 DEF Init, Promise!TicketInit
<1>2. Inv /\ [Next]_vars => [Promise!TicketNext]_(Promise!ticketVars)
  BY StepKeepsPromise
<1> QED BY <1>1, <1>2, Invariance, PTL DEF Spec, KeepsPromise, Promise!TicketSpec


-----------------------------------------------------------------------------
(* Bookkeeping: the number of teams stored with a pool is that of the teams *)
(* the gamers have in it, and teams of one name share what they won.        *)

TeamCounts(table) == [g \in Gamers |-> Len(table[g])]
TeamsIn(table) == SumFunctionOnSet(TeamCounts(table), Gamers)

TeamsAreCounted ==
  \A p \in PoolIds : TeamsIn(teams[p]) = IF p \in Pools THEN pool[p].count ELSE 0

(* Teams of one name have one reward and were paid together. *)
Alike(ts) ==
  \A i, j \in DOMAIN ts :
    ts[i].id = ts[j].id => /\ ts[i].reward = ts[j].reward
                           /\ ts[i].claimedReward = ts[j].claimedReward

NamesakesAlike == \A p \in PoolIds, g \in Gamers : Alike(teams[p][g])

BooksInv == TeamsAreCounted /\ NamesakesAlike

LEMMA CountTypes ==
  ASSUME NEW table \in [Gamers -> Seq(Team)]
  PROVE  /\ \A g \in Gamers : TeamCounts(table)[g] = Len(table[g]) /\ Len(table[g]) \in Nat
         /\ TeamsIn(table) \in Nat
<1>1. \A g \in Gamers : TeamCounts(table)[g] = Len(table[g]) /\ Len(table[g]) \in Nat
  BY DEF TeamCounts
<1> QED BY <1>1, SumNat, ConstantsAssumption DEF TeamsIn

LEMMA SameCount ==
  ASSUME NEW table \in [Gamers -> Seq(Team)], NEW new \in [Gamers -> Seq(Team)],
         \A g \in Gamers : Len(new[g]) = Len(table[g])
  PROVE  TeamsIn(new) = TeamsIn(table)
<1>1. TeamCounts(new) = TeamCounts(table)
  BY DEF TeamCounts
<1> QED BY <1>1 DEF TeamsIn

LEMMA OneHigher ==
  ASSUME NEW S, IsFiniteSet(S), NEW e \in S, NEW f, NEW n,
         \A x \in S : f[x] \in Int /\ n[x] \in Int, \A x \in S \ {e} : f[x] = n[x]
  PROVE  n[e] = f[e] + 1 => SumFunctionOnSet(n, S) = SumFunctionOnSet(f, S) + 1
<1>1. SumFunctionOnSet(n, S) = SumFunctionOnSet(f, S) + (n[e] - f[e])
  BY SumUpdate
<1>2. n[e] = f[e] + 1 => n[e] - f[e] = 1
  OBVIOUS
<1> QED BY <1>1, <1>2

LEMMA OneMoreTeam ==
  ASSUME NEW table \in [Gamers -> Seq(Team)], NEW new \in [Gamers -> Seq(Team)],
         NEW g \in Gamers, Len(new[g]) = Len(table[g]) + 1,
         \A h \in Gamers \ {g} : new[h] = table[h]
  PROVE  TeamsIn(new) = TeamsIn(table) + 1
<1> DEFINE f == TeamCounts(table)
           n == TeamCounts(new)
<1>0. IsFiniteSet(Gamers)
  BY ConstantsAssumption
<1>1. \A h \in Gamers : f[h] \in Int /\ n[h] \in Int
  BY CountTypes
<1>2. n[g] = f[g] + 1
  BY DEF TeamCounts
<1>3. \A h \in Gamers \ {g} : f[h] = n[h]
  BY DEF TeamCounts
<1> HIDE DEF f, n
<1>4. SumFunctionOnSet(n, Gamers) = SumFunctionOnSet(f, Gamers) + 1
  BY <1>0, <1>1, <1>2, <1>3, OneHigher
<1> QED BY <1>4 DEF TeamsIn, f, n

(* Only bids change how many teams there are.                               *)
LEMMA CountsKept ==
  ASSUME Inv, Inv', BooksInv, Pools' = Pools,
         \A p \in Pools : pool'[p].count = pool[p].count,
         \A p \in PoolIds, g \in Gamers : Len(teams'[p][g]) = Len(teams[p][g])
  PROVE  TeamsAreCounted'
<1> SUFFICES ASSUME NEW p \in PoolIds
             PROVE  TeamsIn(teams'[p]) = IF p \in Pools THEN pool'[p].count ELSE 0
  BY DEF TeamsAreCounted
<1>1. teams[p] \in [Gamers -> Seq(Team)] /\ teams'[p] \in [Gamers -> Seq(Team)]
  BY DEF Inv, TypeOK
<1>2. TeamsIn(teams'[p]) = TeamsIn(teams[p])
  BY <1>1, SameCount
<1> QED BY <1>2 DEF BooksInv, TeamsAreCounted

LEMMA CreatePoolBooks ==
  ASSUME Inv, Inv', BooksInv, NEW sender \in Accounts, NEW t \in PoolTypes,
         CreatePool(sender, t)
  PROVE  BooksInv'
<1>1. teams' = teams /\ pool \in Seq(PoolDetails)
  BY DEF CreatePool, Inv, TypeOK
<1>2. /\ Pools' = Pools \cup {Len(pool) + 1} /\ Len(pool) + 1 \notin Pools
      /\ pool'[Len(pool) + 1].count = 0
      /\ \A q \in Pools : pool'[q] = pool[q]
  BY <1>1 DEF CreatePool, Pools
<1>3. TeamsAreCounted'
  <2> SUFFICES ASSUME NEW p \in PoolIds
               PROVE  TeamsIn(teams[p]) = IF p \in Pools' THEN pool'[p].count ELSE 0
    BY <1>1 DEF TeamsAreCounted
  <2> QED BY <1>2 DEF BooksInv, TeamsAreCounted
<1> QED BY <1>1, <1>3 DEF BooksInv, NamesakesAlike

LEMMA BidBooks ==
  ASSUME Inv, Inv', BooksInv, NEW sender \in Accounts, NEW g \in Gamers, NEW t \in PoolTypes,
         NEW p \in PoolIds, NEW id \in TeamIds, GamePoolBidSubmit(sender, g, t, p, id)
  PROVE  BooksInv'
<1>1. p \in Pools /\ pool[p] \in PoolDetails /\ pool \in Seq(PoolDetails) /\ status = "open"
  BY PoolsAreDetails DEF Inv, TypeOK, GamePoolBidSubmit, OpenForBids
<1>2. PICK new \in Team :
        /\ Recorded(new) /\ new.reward = 0 /\ ~new.claimedReward /\ ~new.claimedRefund
        /\ teams' \in TeamTable
        /\ \A q \in PoolIds, h \in Gamers :
             <<q, h>> # <<p, g>> => teams'[q][h] = teams[q][h]
        /\ Len(teams'[p][g]) = Len(teams[p][g]) + 1
        /\ DOMAIN teams'[p][g] = DOMAIN teams[p][g] \cup {Len(teams[p][g]) + 1}
        /\ \A i \in DOMAIN teams[p][g] : teams'[p][g][i] = teams[p][g][i]
        /\ teams'[p][g][Len(teams[p][g]) + 1] = new
        /\ Len(teams[p][g]) + 1 <= MaxTeams
  BY BidTables
<1>3. \A q \in PoolIds : teams[q] \in [Gamers -> Seq(Team)] /\ teams'[q] \in [Gamers -> Seq(Team)]
  BY <1>2 DEF Inv, TypeOK, TeamTable
<1>4. /\ Pools' = Pools
      /\ pool'[p].count = pool[p].count + 1
      /\ \A q \in Pools \ {p} : pool'[q] = pool[q]
  <2> DEFINE entered == EnteredPool(p, t)
  <2>1. entered.count = pool[p].count + 1
    BY <1>1 DEF EnteredPool, QueryPoolDetails, PoolDetails
  <2>2. pool' = [pool EXCEPT ![p] = entered]
    BY DEF GamePoolBidSubmit
  <2> HIDE DEF entered
  <2> QED BY <1>1, <2>1, <2>2 DEF Pools
<1>5. TeamsAreCounted'
  <2> SUFFICES ASSUME NEW q \in PoolIds
               PROVE  TeamsIn(teams'[q]) = IF q \in Pools THEN pool'[q].count ELSE 0
    BY <1>4 DEF TeamsAreCounted
  <2>1. TeamsIn(teams[q]) = IF q \in Pools THEN pool[q].count ELSE 0
    BY DEF BooksInv, TeamsAreCounted
  <2>2. CASE q = p
    <3>1. /\ Len(teams'[p][g]) = Len(teams[p][g]) + 1
          /\ \A h \in Gamers \ {g} : teams'[p][h] = teams[p][h]
      BY <1>2
    <3>2. TeamsIn(teams'[p]) = TeamsIn(teams[p]) + 1
      BY <1>3, <3>1, OneMoreTeam
    <3> QED BY <1>1, <1>4, <2>1, <2>2, <3>2
  <2>3. CASE q # p
    <3>1. \A h \in Gamers : Len(teams'[q][h]) = Len(teams[q][h])
      BY <1>2, <2>3
    <3>2. TeamsIn(teams'[q]) = TeamsIn(teams[q])
      BY <1>3, <3>1, SameCount
    <3> QED BY <1>4, <2>1, <2>3, <3>2
  <2> QED BY <2>2, <2>3
<1>6. NamesakesAlike'
  <2>1. \A q \in PoolIds, h \in Gamers : \A i \in DOMAIN teams[q][h] :
          teams[q][h][i].reward = 0 /\ ~teams[q][h][i].claimedReward
    <3> SUFFICES ASSUME NEW q \in PoolIds, NEW h \in Gamers, NEW i \in DOMAIN teams[q][h]
                 PROVE  teams[q][h][i].reward = 0 /\ ~teams[q][h][i].claimedReward
      OBVIOUS
    <3>1. teams[q][h][i] \in Team
      BY DEF Inv, TypeOK
    <3>2. ~(teams[q][h][i].reward > 0) /\ ~teams[q][h][i].claimedReward
      BY <1>1 DEF Inv, OpenGameKeepsDeposits, AwardsAreAnnounced
    <3> QED BY <3>1, <3>2 DEF Team
  <2>2. \A q \in PoolIds, h \in Gamers : \A i \in DOMAIN teams'[q][h] :
          teams'[q][h][i].reward = 0 /\ ~teams'[q][h][i].claimedReward
    BY <1>2, <2>1
  <2>3. \A q \in PoolIds, h \in Gamers : \A i \in DOMAIN teams'[q][h] :
          teams'[q][h][i] \in Team
    BY <1>3
  <2> QED BY <2>2, <2>3 DEF NamesakesAlike, Alike, Team
<1> QED BY <1>5, <1>6 DEF BooksInv


(* Every team is paid by a claim, and every team refunded by a refund.      *)
LEMMA PaidTeamsAlike ==
  ASSUME NEW ts \in Seq(Team), Alike(ts)
  PROVE  /\ Alike(RewardedTeams(ts))
         /\ \A i \in DOMAIN ts : RewardedTeams(ts)[i].claimedReward
<1> DEFINE us == RewardedTeams(ts)
<1>1. DOMAIN us = DOMAIN ts
  BY DEF RewardedTeams
<1>2. \A i \in DOMAIN ts : us[i].id = ts[i].id /\ us[i].reward = ts[i].reward /\ us[i].claimedReward = TRUE
  <2> TAKE i \in DOMAIN ts
  <2>1. ts[i] \in Team
    OBVIOUS
  <2>2. us[i] = IF ts[i].claimedReward THEN ts[i]
                ELSE [ts[i] EXCEPT !.claimedReward = TRUE, !.rewards = @ + 1]
    BY DEF RewardedTeams
  <2> HIDE DEF us
  <2> QED BY <2>1, <2>2 DEF Team
<1> HIDE DEF us
<1>3. Alike(us)
  <2> SUFFICES ASSUME NEW i \in DOMAIN ts, NEW j \in DOMAIN ts, us[i].id = us[j].id
               PROVE  us[i].reward = us[j].reward /\ us[i].claimedReward = us[j].claimedReward
    BY <1>1 DEF Alike
  <2>1. ts[i].reward = ts[j].reward
    BY <1>2 DEF Alike
  <2> QED BY <1>2, <2>1
<1> QED BY <1>2, <1>3 DEF us

LEMMA RefundedTeamsAlike ==
  ASSUME NEW ts \in Seq(Team), Alike(ts), NEW fee
  PROVE  Alike(RefundedTeams(ts, fee))
<1> DEFINE us == RefundedTeams(ts, fee)
<1>1. DOMAIN us = DOMAIN ts
  BY DEF RefundedTeams
<1>2. \A i \in DOMAIN ts : /\ us[i].id = ts[i].id /\ us[i].reward = ts[i].reward
                           /\ us[i].claimedReward = ts[i].claimedReward
  <2> TAKE i \in DOMAIN ts
  <2>1. ts[i] \in Team
    OBVIOUS
  <2>2. us[i] = [ts[i] EXCEPT !.refund = fee, !.claimedRefund = TRUE, !.refunds = @ + 1]
    BY DEF RefundedTeams
  <2> HIDE DEF us
  <2> QED BY <2>1, <2>2 DEF Team
<1> HIDE DEF us
<1> QED BY <1>1, <1>2 DEF Alike, us

LEMMA WinnersAlike ==
  ASSUME NEW ts \in Seq(Team), Alike(ts), NEW g \in Gamers, NEW winners \in Seq(GameResult)
  PROVE  Alike(TeamsWithRewards(ts, g, winners))
<1> DEFINE us == TeamsWithRewards(ts, g, winners)
           won == [id \in TeamIds |-> {w \in DOMAIN winners : winners[w].gamer = g /\ winners[w].team = id}]
           prize == [id \in TeamIds |-> winners[Max(won[id])].reward]
<1>1. DOMAIN us = DOMAIN ts
  BY DEF TeamsWithRewards
<1>2. \A i \in DOMAIN ts : ts[i] \in Team
  OBVIOUS
<1>3. \A i \in DOMAIN ts : ts[i].id \in TeamIds /\ Wins(ts, i, g, winners) = won[ts[i].id]
  BY <1>2 DEF Team, Wins
<1>4. \A i \in DOMAIN ts :
        us[i] = IF won[ts[i].id] = {} THEN ts[i] ELSE [ts[i] EXCEPT !.reward = prize[ts[i].id]]
  <2> TAKE i \in DOMAIN ts
  <2>1. us[i] = IF Wins(ts, i, g, winners) = {} THEN ts[i]
                ELSE [ts[i] EXCEPT !.reward = winners[Max(Wins(ts, i, g, winners))].reward]
    BY DEF TeamsWithRewards
  <2>2. ts[i].id \in TeamIds => prize[ts[i].id] = winners[Max(won[ts[i].id])].reward
    OBVIOUS
  <2> HIDE DEF us, won, prize
  <2> QED BY <1>3, <2>1, <2>2
<1> HIDE DEF us, won, prize
<1>5. \A i \in DOMAIN ts :
        /\ us[i].id = ts[i].id /\ us[i].claimedReward = ts[i].claimedReward
        /\ us[i].reward = IF won[ts[i].id] = {} THEN ts[i].reward ELSE prize[ts[i].id]
  BY <1>2, <1>4 DEF Team
<1>6. Alike(us)
  <2> SUFFICES ASSUME NEW i \in DOMAIN ts, NEW j \in DOMAIN ts, us[i].id = us[j].id
               PROVE  us[i].reward = us[j].reward /\ us[i].claimedReward = us[j].claimedReward
    BY <1>1 DEF Alike
  <2>1. /\ ts[i].id = ts[j].id /\ ts[i].reward = ts[j].reward
        /\ ts[i].claimedReward = ts[j].claimedReward
    BY <1>5 DEF Alike
  <2> QED BY <1>5, <2>1
<1> QED BY <1>6 DEF us

LEMMA ClaimRewardBooks ==
  ASSUME Inv, Inv', BooksInv, NEW sender \in Accounts, NEW g \in Gamers, ClaimReward(sender, g)
  PROVE  BooksInv'
<1>1. pool' = pool
  BY DEF ClaimReward
<1>2. \A p \in PoolIds, h \in Gamers :
        Len(teams'[p][h]) = Len(teams[p][h]) /\ Alike(teams'[p][h])
  <2> TAKE p \in PoolIds, h \in Gamers
  <2>1. teams[p][h] \in Seq(Team) /\ Alike(teams[p][h])
    BY DEF Inv, TypeOK, BooksInv, NamesakesAlike
  <2>2. CASE p \in RewardPools /\ h = g
    BY <2>1, <2>2, ClaimRewardTables, RewardedTeamsKept, PaidTeamsAlike DEF Kept
  <2>3. CASE ~(p \in RewardPools /\ h = g)
    <3>1. teams'[p][h] = teams[p][h]
      BY <2>3, ClaimRewardTables
    <3> QED BY <2>1, <3>1
  <2> QED BY <2>2, <2>3
<1>3. TeamsAreCounted'
  BY <1>1, <1>2, CountsKept DEF Pools
<1> QED BY <1>2, <1>3 DEF BooksInv, NamesakesAlike

LEMMA ClaimRefundBooks ==
  ASSUME Inv, Inv', BooksInv, NEW sender \in Accounts, NEW g \in Gamers, ClaimRefund(sender, g)
  PROVE  BooksInv'
<1>1. pool' = pool
  BY DEF ClaimRefund
<1>2. \A p \in PoolIds, h \in Gamers :
        Len(teams'[p][h]) = Len(teams[p][h]) /\ Alike(teams'[p][h])
  <2> TAKE p \in PoolIds, h \in Gamers
  <2>1. teams[p][h] \in Seq(Team) /\ Alike(teams[p][h])
    BY DEF Inv, TypeOK, BooksInv, NamesakesAlike
  <2>2. CASE p \in RefundPools /\ h = g
    BY <2>1, <2>2, ClaimRefundTables, RefundedTeamsKept, RefundedTeamsAlike DEF Kept
  <2>3. CASE ~(p \in RefundPools /\ h = g)
    <3>1. teams'[p][h] = teams[p][h]
      BY <2>3, ClaimRefundTables
    <3> QED BY <2>1, <3>1
  <2> QED BY <2>2, <2>3
<1>3. TeamsAreCounted'
  BY <1>1, <1>2, CountsKept DEF Pools
<1> QED BY <1>2, <1>3 DEF BooksInv, NamesakesAlike

LEMMA DistributionTables ==
  ASSUME Inv, NEW sender \in Accounts, NEW p \in PoolIds, NEW winners \in Seq(GameResult),
         NEW final \in BOOLEAN, NEW rake,
         GamePoolRewardDistribute(sender, p, winners, final, rake)
  PROVE  /\ winners \in Seq(GameResult) /\ Pools' = Pools
         /\ \A q \in Pools : pool'[q].count = pool[q].count
         /\ \A q \in PoolIds, h \in Gamers :
              teams'[q][h] = IF q = p THEN TeamsWithRewards(teams[p][h], h, winners)
                             ELSE teams[q][h]
<1>1. /\ p \in Pools /\ pool[p] \in PoolDetails /\ pool \in Seq(PoolDetails)
      /\ teams \in TeamTable /\ winners \in Seq(GameResult)
  BY PoolsAreDetails, ConstantsAssumption DEF Inv, TypeOK, TeamTable, GamePoolRewardDistribute
<1> DEFINE new == PoolWithRewards(p, final)
<1>2. new.count = pool[p].count
  BY <1>1 DEF PoolWithRewards, PoolDetails
<1>3. pool' = [pool EXCEPT ![p] = new]
  BY DEF GamePoolRewardDistribute
<1> HIDE DEF new
<1>4. Pools' = Pools /\ \A q \in Pools : pool'[q].count = pool[q].count
  BY <1>1, <1>2, <1>3 DEF Pools
<1>5. \A q \in PoolIds, h \in Gamers :
        teams'[q][h] = IF q = p THEN TeamsWithRewards(teams[p][h], h, winners) ELSE teams[q][h]
  BY <1>1 DEF GamePoolRewardDistribute, TeamTable
<1> QED BY <1>1, <1>4, <1>5

LEMMA DistributionBooks ==
  ASSUME Inv, Inv', BooksInv, NEW sender \in Accounts, NEW p \in PoolIds, NEW winners \in Seq(GameResult),
         NEW final \in BOOLEAN, NEW rake,
         GamePoolRewardDistribute(sender, p, winners, final, rake)
  PROVE  BooksInv'
<1>1. \A q \in PoolIds, h \in Gamers :
        Len(teams'[q][h]) = Len(teams[q][h]) /\ Alike(teams'[q][h])
  <2> TAKE q \in PoolIds, h \in Gamers
  <2>1. teams[q][h] \in Seq(Team) /\ Alike(teams[q][h])
    BY DEF Inv, TypeOK, BooksInv, NamesakesAlike
  <2>2. CASE q = p
    BY <2>1, <2>2, DistributionTables, TeamsWithRewardsKept, WinnersAlike DEF Kept
  <2>3. CASE q # p
    BY <2>1, <2>3, DistributionTables
  <2> QED BY <2>2, <2>3
<1>2. TeamsAreCounted'
  BY <1>1, DistributionTables, CountsKept
<1> QED BY <1>1, <1>2 DEF BooksInv, NamesakesAlike

LEMMA FlagsBooks ==
  ASSUME Inv, Inv', BooksInv, NEW sender \in Accounts, LockGame(sender) \/ CancelGame(sender)
  PROVE  BooksInv'
<1>1. teams' = teams /\ \A p \in Pools : pool[p] \in PoolDetails
  BY PoolsAreDetails DEF LockGame, CancelGame, Inv
<1>2. PICK f : pool' = [p \in Pools |-> [pool[p] EXCEPT !.refund = f[p]]]
  <2>1. CASE LockGame(sender)
    <3> DEFINE f == [p \in Pools |-> pool[p].refund \/ Underfilled(p)]
    <3>1. pool' = [p \in Pools |-> [pool[p] EXCEPT !.refund = f[p]]]
      BY <2>1 DEF LockGame
    <3> HIDE DEF f
    <3> QED BY <3>1
  <2>2. CASE CancelGame(sender)
    <3> DEFINE f == [p \in Pools |-> TRUE]
    <3>1. pool' = [p \in Pools |-> [pool[p] EXCEPT !.refund = f[p]]]
      BY <2>2 DEF CancelGame
    <3> HIDE DEF f
    <3> QED BY <3>1
  <2> QED BY <2>1, <2>2
<1>3. Pools' = Pools /\ \A p \in Pools : pool'[p].count = pool[p].count
  BY <1>1, <1>2 DEF Pools, PoolDetails
<1>4. TeamsAreCounted'
  BY <1>1, <1>3, CountsKept
<1> QED BY <1>1, <1>4 DEF BooksInv, NamesakesAlike


LEMMA BooksInitInv == Init => BooksInv
<1> SUFFICES ASSUME Init PROVE BooksInv
  OBVIOUS
<1>1. Pools = {} /\ \A p \in PoolIds, g \in Gamers : teams[p][g] = <<>>
  BY DEF Init, Pools
<1>2. TeamsAreCounted
  <2> SUFFICES ASSUME NEW p \in PoolIds PROVE TeamsIn(teams[p]) = 0
    BY <1>1 DEF TeamsAreCounted
  <2>1. IsFiniteSet(Gamers)
    BY ConstantsAssumption
  <2>2. \A g \in Gamers : TeamCounts(teams[p])[g] = 0
    BY <1>1 DEF TeamCounts
  <2> QED BY <2>1, <2>2, SumZero DEF TeamsIn
<1> QED BY <1>1, <1>2 DEF BooksInv, NamesakesAlike, Alike

LEMMA BooksNextInv ==
  ASSUME Inv, Inv', BooksInv, [Next]_vars
  PROVE  BooksInv'
<1>1. ASSUME UNCHANGED <<pool, teams>> PROVE BooksInv'
  <2>1. TeamsAreCounted'
    BY <1>1 DEF BooksInv, TeamsAreCounted, Pools
  <2> QED BY <1>1, <2>1 DEF BooksInv, NamesakesAlike
<1>2. CASE UNCHANGED vars
  BY <1>1, <1>2 DEF vars, poolVars
<1>3. ASSUME NEW sender \in Accounts, GamerCall(sender) PROVE BooksInv'
  BY <1>3, BidBooks, ClaimRewardBooks, ClaimRefundBooks DEF GamerCall
<1>4. ASSUME NEW sender \in Accounts, GameCall(sender) PROVE BooksInv'
  <2>1. CASE \E t \in PoolTypes, details \in TypeInputs : SetPoolTypeParams(sender, t, details)
    BY <1>1, <2>1 DEF SetPoolTypeParams, poolVars
  <2> QED BY <1>4, <2>1, CreatePoolBooks, FlagsBooks DEF GameCall
<1>5. ASSUME NEW sender \in Accounts, PayoutCall(sender) PROVE BooksInv'
  <2>1. CASE \E p \in PoolIds, amount \in Nat, gain \in Nat : Swap(sender, p, amount, gain)
    BY <1>1, <2>1 DEF Swap, poolVars
  <2>2. CASE \E amount \in SweepAmounts : Sweep(sender, amount)
    BY <1>1, <2>2 DEF Sweep, poolVars
  <2> QED BY <1>5, <2>1, <2>2, PayoutInputs, DistributionBooks
<1> QED BY <1>2, <1>3, <1>4, <1>5 DEF Next

LEMMA BooksInvariance == Spec => [](Inv /\ BooksInv)
<1>1. Inv /\ BooksInv /\ [Next]_vars => (Inv /\ BooksInv)'
  BY StepInv, BooksNextInv
<1> QED BY <1>1, InitInv, BooksInitInv, PTL DEF Spec

-----------------------------------------------------------------------------
(* What the queries answer *)

RewardsOf(ts) == [i \in DOMAIN ts |-> ts[i].reward]
UnclaimedIn(ts) == {i \in DOMAIN ts : ~ts[i].claimedReward}

LEMMA RewardTypes ==
  ASSUME NEW ts \in Seq(Team), NEW is \in SUBSET DOMAIN ts
  PROVE  /\ IsFiniteSet(DOMAIN ts) /\ IsFiniteSet(is)
         /\ \A i \in DOMAIN ts : RewardsOf(ts)[i] = ts[i].reward /\ RewardsOf(ts)[i] \in Nat
         /\ SumFunctionOnSet(RewardsOf(ts), is) \in Nat
<1>1. DOMAIN ts = 1..Len(ts) /\ Len(ts) \in Nat
  OBVIOUS
<1>2. IsFiniteSet(DOMAIN ts) /\ IsFiniteSet(is)
  <2>1. IsFiniteSet(1..Len(ts))
    BY <1>1, FS_Interval
  <2>2. IsFiniteSet(DOMAIN ts)
    BY <1>1, <2>1
  <2> QED BY <2>2, FS_Subset
<1>3. \A i \in DOMAIN ts : RewardsOf(ts)[i] = ts[i].reward /\ RewardsOf(ts)[i] \in Nat
  <2> TAKE i \in DOMAIN ts
  <2>1. ts[i] \in Team
    OBVIOUS
  <2> QED BY <2>1 DEF RewardsOf, Team
<1>4. \A i \in is : RewardsOf(ts)[i] \in Nat
  BY <1>3
<1> QED BY <1>2, <1>3, <1>4, SumNat

(* The reward of some of the teams a gamer has in a pool. *)
LEMMA RewardIsSum ==
  ASSUME TypeOK, NEW p \in PoolIds, NEW g \in Gamers, NEW is \in SUBSET DOMAIN teams[p][g]
  PROVE  /\ RewardOfTeams(p, g, is) = SumFunctionOnSet(RewardsOf(teams[p][g]), is)
         /\ RewardOfTeams(p, g, is) \in Nat
<1> DEFINE ts == teams[p][g]
           f == [i \in is |-> ts[i].reward]
<1>1. ts \in Seq(Team)
  BY DEF TypeOK
<1>2. RewardOfTeams(p, g, is) = SumFunctionOnSet(f, is)
  BY DEF RewardOfTeams, SumFunction
<1>3. IsFiniteSet(is) /\ SumFunctionOnSet(RewardsOf(ts), is) \in Nat
  BY <1>1, RewardTypes
<1>4. \A i \in is : f[i] \in Int /\ f[i] = RewardsOf(ts)[i]
  <2> TAKE i \in is
  <2>1. RewardsOf(ts)[i] = ts[i].reward /\ RewardsOf(ts)[i] \in Nat
    BY <1>1, RewardTypes
  <2> QED BY <2>1
<1> HIDE DEF f, ts
<1>5. SumFunctionOnSet(f, is) = SumFunctionOnSet(RewardsOf(ts), is)
  BY <1>3, <1>4, SumSame
<1> QED BY <1>2, <1>3, <1>5 DEF ts


(* What a claim over a set of pools pays.                                   *)
LEMMA UnclaimedTypes ==
  ASSUME TypeOK, NEW g \in Gamers, NEW ps \in SUBSET PoolIds
  PROVE  LET owed == [p \in PoolIds |-> RewardOfTeams(p, g, Unclaimed(p, g))]
         IN  /\ IsFiniteSet(PoolIds) /\ IsFiniteSet(ps)
             /\ \A p \in PoolIds : owed[p] \in Nat
             /\ UnclaimedReward(g, ps) = SumFunctionOnSet(owed, ps)
<1> DEFINE owed == [p \in PoolIds |-> RewardOfTeams(p, g, Unclaimed(p, g))]
           f == [p \in ps |-> RewardOfTeams(p, g, Unclaimed(p, g))]
<1>1. IsFiniteSet(PoolIds)
  BY ConstantsAssumption, FS_Interval DEF PoolIds
<1>2. IsFiniteSet(ps)
  BY <1>1, FS_Subset
<1>3. \A p \in PoolIds : owed[p] \in Nat
  <2> TAKE p \in PoolIds
  <2>1. RewardOfTeams(p, g, Unclaimed(p, g)) \in Nat
    BY RewardIsSum DEF Unclaimed
  <2> QED BY <2>1
<1>4. \A p \in ps : f[p] \in Int /\ f[p] = owed[p]
  <2> TAKE p \in ps
  <2>1. f[p] = owed[p]
    OBVIOUS
  <2> QED BY <1>3, <2>1
<1>5. UnclaimedReward(g, ps) = SumFunctionOnSet(f, ps)
  BY DEF UnclaimedReward, SumFunction
<1> HIDE DEF owed, f
<1>6. SumFunctionOnSet(f, ps) = SumFunctionOnSet(owed, ps)
  BY <1>2, <1>4, SumSame
<1> QED BY <1>1, <1>2, <1>3, <1>5, <1>6 DEF owed

(* Nothing is owed on a pool whose rewards were not announced.              *)
LEMMA NothingOwed ==
  ASSUME Inv, NEW p \in PoolIds, p \notin RewardPools, NEW g \in Gamers
  PROVE  RewardOfTeams(p, g, Unclaimed(p, g)) = 0
<1> DEFINE ts == teams[p][g]
           is == Unclaimed(p, g)
<1>1. ts \in Seq(Team) /\ TypeOK /\ is \in SUBSET DOMAIN ts
  BY DEF Inv, TypeOK, Unclaimed
<1>2. \A i \in DOMAIN ts : ts[i].reward = 0
  <2> TAKE i \in DOMAIN ts
  <2>1. ts[i] \in Team
    BY <1>1
  <2>2. ~(ts[i].reward > 0)
    BY DEF Inv, AwardsAreAnnounced, RewardPools
  <2> HIDE DEF ts
  <2> QED BY <2>1, <2>2 DEF Team
<1>3. \A i \in is : RewardsOf(ts)[i] = 0
  BY <1>1, <1>2 DEF RewardsOf
<1>4. IsFiniteSet(is)
  BY <1>1, RewardTypes
<1>5. SumFunctionOnSet(RewardsOf(ts), is) = 0
  <2> HIDE DEF ts, is
  <2> QED BY <1>3, <1>4, SumZero
<1> QED BY <1>1, <1>5, RewardIsSum

(* query_reward looks at all pools, a claim at those open for claims.       *)
LEMMA RewardQueryAgrees ==
  ASSUME Inv, NEW g \in Gamers
  PROVE  QueryReward(g) = UnclaimedReward(g, RewardPools)
<1> DEFINE owed == [p \in PoolIds |-> RewardOfTeams(p, g, Unclaimed(p, g))]
<1>1. RewardPools \in SUBSET Pools /\ Pools \in SUBSET PoolIds /\ RewardPools \in SUBSET PoolIds /\ TypeOK
  BY PoolsAreDetails DEF Inv, RewardPools
<1>2. /\ IsFiniteSet(Pools)
      /\ \A p \in PoolIds : owed[p] \in Nat
      /\ UnclaimedReward(g, Pools) = SumFunctionOnSet(owed, Pools)
      /\ UnclaimedReward(g, RewardPools) = SumFunctionOnSet(owed, RewardPools)
  BY <1>1, UnclaimedTypes
<1>3. \A p \in Pools \ RewardPools : owed[p] = 0
  BY <1>1, NothingOwed
<1>4. \A p \in Pools : owed[p] \in Int
  <2> HIDE DEF owed
  <2> QED BY <1>1, <1>2
<1>5. IsFiniteSet(Pools)
  BY <1>2
<1> HIDE DEF owed
<1>6. SumFunctionOnSet(owed, Pools) = SumFunctionOnSet(owed, RewardPools)
  BY <1>1, <1>3, <1>4, <1>5, SumPart
<1> QED BY <1>2, <1>6 DEF QueryReward

LEMMA RewardQueryStillAgrees ==
  Inv' => (\A g \in Gamers : QueryReward(g) = UnclaimedReward(g, RewardPools))'
<1>1. Inv => \A g \in Gamers : QueryReward(g) = UnclaimedReward(g, RewardPools)
  BY RewardQueryAgrees
<1> QED BY <1>1, PTL

(* query_game_result, team name by team name, adds up to what a claim pays. *)
LEMMA ResultsAgree ==
  ASSUME Inv, NEW g \in Gamers, NEW p \in Pools
  PROVE  SumFunction([id \in TeamIds |-> QueryGameResult(g, p, id).reward])
           = UnclaimedReward(g, {p})
<1> DEFINE ts == teams[p][g]
           f == RewardsOf(ts)
           S == Unclaimed(p, g)
           name == [i \in DOMAIN ts |-> ts[i].id]
           answers == [id \in TeamIds |-> QueryGameResult(g, p, id).reward]
           owed == [q \in PoolIds |-> RewardOfTeams(q, g, Unclaimed(q, g))]
<1>1. p \in PoolIds /\ TypeOK /\ ts \in Seq(Team) /\ S \in SUBSET DOMAIN ts
  BY PoolsAreDetails DEF Inv, TypeOK, Unclaimed
<1>2. IsFiniteSet(S)
  BY <1>1, RewardTypes
<1>3. \A i \in S : f[i] \in Int /\ name[i] \in TeamIds
  <2> TAKE i \in S
  <2>1. f[i] \in Nat
    BY <1>1, RewardTypes
  <2>2. ts[i] \in Team
    BY <1>1
  <2> HIDE DEF f
  <2> QED BY <1>1, <2>1, <2>2 DEF Team
<1>4. \A id \in TeamIds : answers[id] = PartsBy(f, name, TeamIds, S)[id]
  <2> TAKE id \in TeamIds
  <2> DEFINE T == {i \in S : ts[i].id = id}
  <2>1. T \in SUBSET DOMAIN ts /\ T = {i \in S : name[i] = id}
    BY <1>1
  <2>2. answers[id] = RewardOfTeams(p, g, T)
    BY DEF QueryGameResult
  <2> HIDE DEF T, ts, f, S, name
  <2>3. RewardOfTeams(p, g, T) = SumFunctionOnSet(f, T)
    BY <1>1, <2>1, RewardIsSum DEF ts, f
  <2>4. PartsBy(f, name, TeamIds, S)[id] = SumFunctionOnSet(f, T)
    BY <2>1 DEF PartsBy
  <2> QED BY <2>2, <2>3, <2>4
<1>5. IsFiniteSet(TeamIds)
  BY ConstantsAssumption
<1>6. DOMAIN answers = TeamIds
  OBVIOUS
<1>7. RewardOfTeams(p, g, S) = SumFunctionOnSet(f, S)
  BY <1>1, RewardIsSum
<1>8. owed[p] = SumFunctionOnSet(f, S) /\ owed[p] \in Nat
  BY <1>1, <1>7, RewardIsSum
<1>9. UnclaimedReward(g, {p}) = SumFunctionOnSet(owed, {p})
  BY <1>1, UnclaimedTypes
<1> HIDE DEF answers, owed, name, f, S, ts
<1>10. SumFunctionOnSet(owed, {p}) = owed[p]
  <2>1. owed[p] \in Int
    BY <1>8
  <2> QED BY <2>1, SumSingle
<1>11. \A i \in S : f[i] \in Int
  BY <1>3
<1>12. \A id \in TeamIds : PartsBy(f, name, TeamIds, S)[id] \in Int
  BY <1>2, <1>11, PartsAreInt
<1>13. \A id \in TeamIds : answers[id] \in Int /\ answers[id] = PartsBy(f, name, TeamIds, S)[id]
  BY <1>4, <1>12
<1>14. SumFunctionOnSet(answers, TeamIds) = SumFunctionOnSet(PartsBy(f, name, TeamIds, S), TeamIds)
  BY <1>5, <1>13, SumSame
<1>15. SumFunctionOnSet(PartsBy(f, name, TeamIds, S), TeamIds) = SumFunctionOnSet(f, S)
  BY <1>2, <1>3, <1>5, SumByKey
<1>16. SumFunction(answers) = SumFunctionOnSet(answers, TeamIds)
  BY <1>6 DEF SumFunction
<1> QED BY <1>8, <1>9, <1>10, <1>14, <1>15, <1>16 DEF answers


(* query_refund leaves out the teams that were refunded, a first claim has  *)
(* none to leave out.                                                       *)
LEMMA RefundQueryAgrees ==
  ASSUME Inv, NEW g \in Gamers, NothingRefunded(g)
  PROVE  QueryRefund(g) = RefundOf(g, RefundPools)
<1>1. \A p \in RefundPools :
        TypeOf(p).fee * Cardinality(Unrefunded(p, g)) = TypeOf(p).fee * Len(teams[p][g])
  <2> TAKE p \in RefundPools
  <2>1. p \in PoolIds
    BY PoolsAreDetails DEF RefundPools, Inv
  <2>2. teams[p][g] \in Seq(Team)
    BY <2>1 DEF Inv, TypeOK
  <2>3. Unrefunded(p, g) = 1..Len(teams[p][g])
    BY <2>2 DEF Unrefunded, NothingRefunded, RefundClaimed
  <2> DEFINE n == Len(teams[p][g])
  <2>4. n \in Nat
    BY <2>2
  <2> HIDE DEF n
  <2>5. Cardinality(1..n) = n
    BY <2>4, FS_Interval
  <2> QED BY <2>3, <2>5 DEF n
<1>2. [p \in RefundPools |-> TypeOf(p).fee * Cardinality(Unrefunded(p, g))]
        = [p \in RefundPools |-> TypeOf(p).fee * Len(teams[p][g])]
  BY <1>1
<1> QED BY <1>2 DEF QueryRefund, RefundOf

(* The stored number of teams is that of the teams.                         *)
LEMMA CollectionAgrees ==
  ASSUME Inv, BooksInv, NEW p \in Pools
  PROVE  QueryPoolCollection(p)
           = TypeOf(p).fee * SumFunction([g \in Gamers |-> Len(QueryPoolTeamDetails(p, g))])
<1>1. p \in PoolIds
  BY PoolsAreDetails DEF Inv
<1>2. TeamsIn(teams[p]) = pool[p].count
  BY <1>1 DEF BooksInv, TeamsAreCounted
<1>3. SumFunction([g \in Gamers |-> Len(QueryPoolTeamDetails(p, g))]) = TeamsIn(teams[p])
  BY DEF SumFunction, TeamsIn, TeamCounts, QueryPoolTeamDetails
<1> QED BY <1>2, <1>3 DEF QueryPoolCollection

(* There are teams only in pools that were created, and query_all_teams     *)
(* lists them all.                                                          *)
LEMMA TeamsAreListed ==
  ASSUME Inv, BooksInv
  PROVE  QueryAllTeams(Gamers) = Entered
<1>1. ASSUME NEW p \in PoolIds, NEW g \in Gamers, NEW i \in DOMAIN teams[p][g]
      PROVE  p \in Pools /\ i \in 1..MaxTeams
  <2>1. teams[p] \in [Gamers -> Seq(Team)] /\ teams[p][g] \in Seq(Team)
    BY DEF Inv, TypeOK
  <2>2. Len(teams[p][g]) \in Nat /\ i \in 1..Len(teams[p][g]) /\ Len(teams[p][g]) <= MaxTeams
    BY <2>1 DEF Inv, TeamsFit
  <2>3. \A h \in Gamers : TeamCounts(teams[p])[h] \in Nat
    BY <2>1, CountTypes
  <2>4. IsFiniteSet(Gamers)
    BY ConstantsAssumption
  <2>5. TeamCounts(teams[p])[g] <= TeamsIn(teams[p])
    BY <2>3, <2>4, SumBoundsTerm DEF TeamsIn
  <2>6. TeamCounts(teams[p])[g] = Len(teams[p][g]) /\ TeamsIn(teams[p]) \in Nat
    BY <2>1, CountTypes
  <2>7. TeamsIn(teams[p]) # 0
    BY <2>2, <2>5, <2>6
  <2>8. p \in Pools
    BY <2>7 DEF BooksInv, TeamsAreCounted
  <2> QED BY <2>2, <2>8, ConstantsAssumption
<1>2. Pools \subseteq PoolIds
  BY PoolsAreDetails DEF Inv
<1>3. \A t \in QueryAllTeams(Gamers) : t \in Entered
  <2> TAKE t \in QueryAllTeams(Gamers)
  <2>1. PICK pg \in Pools \X Gamers : t \in {pg[1]} \X {pg[2]} \X DOMAIN teams[pg[1]][pg[2]]
    BY DEF QueryAllTeams
  <2>2. /\ t = <<t[1], t[2], t[3]>> /\ t[1] \in PoolIds /\ t[2] \in Gamers
        /\ t[3] \in DOMAIN teams[t[1]][t[2]]
    BY <1>2, <2>1
  <2>3. t[3] \in 1..MaxTeams
    BY <1>1, <2>2
  <2>4. t \in Ticket
    BY <2>2, <2>3 DEF Ticket
  <2> QED BY <2>2, <2>4 DEF Entered
<1>4. \A t \in Entered : t \in QueryAllTeams(Gamers)
  <2> TAKE t \in Entered
  <2>1. /\ t = <<t[1], t[2], t[3]>> /\ t[1] \in PoolIds /\ t[2] \in Gamers
        /\ t[3] \in DOMAIN teams[t[1]][t[2]]
    BY DEF Entered, Ticket
  <2> DEFINE pg == <<t[1], t[2]>>
  <2>2. pg \in Pools \X Gamers
    BY <1>1, <2>1
  <2>3. t \in {pg[1]} \X {pg[2]} \X DOMAIN teams[pg[1]][pg[2]]
    BY <2>1
  <2> HIDE DEF pg
  <2> QED BY <2>2, <2>3 DEF QueryAllTeams
<1> QED BY <1>3, <1>4

(* query_team_details, the first team of a name, speaks for all of them.    *)
LEMMA DetailsSpeakForAll ==
  ASSUME Inv, BooksInv, NEW t \in Entered
  PROVE  LET first == QueryTeamDetails(t[1], TeamOf(t).id, t[2])
         IN  first.reward = TeamOf(t).reward /\ first.claimedReward = TeamOf(t).claimedReward
<1> DEFINE p == t[1]
           g == t[2]
           ts == teams[p][g]
           id == TeamOf(t).id
           named == {i \in DOMAIN ts : ts[i].id = id}
<1>1. p \in PoolIds /\ g \in Gamers /\ t[3] \in DOMAIN ts /\ TeamOf(t) = ts[t[3]]
  BY DEF Entered, Ticket, TeamOf
<1>2. ts \in Seq(Team) /\ Alike(ts)
  BY <1>1 DEF Inv, TypeOK, BooksInv, NamesakesAlike
<1>3. t[3] \in named /\ named \in SUBSET (1..Len(ts)) /\ Len(ts) \in Nat
  BY <1>1, <1>2
<1>4. \E i \in named : \A j \in named : i <= j
  <2> HIDE DEF named
  <2> QED BY <1>3, MinimumExists
<1> DEFINE f == CHOOSE i \in named : \A j \in named : i <= j
<1>5. f \in named
  <2> HIDE DEF named
  <2> QED BY <1>4
<1>6. QueryTeamDetails(p, id, g) = ts[f]
  BY DEF QueryTeamDetails
<1> HIDE DEF f
<1>7. f \in DOMAIN ts /\ ts[f].id = ts[t[3]].id
  BY <1>1, <1>5
<1>8. ts[f].reward = ts[t[3]].reward /\ ts[f].claimedReward = ts[t[3]].claimedReward
  BY <1>1, <1>2, <1>7 DEF Alike
<1> QED BY <1>1, <1>6, <1>8

(* The queries answer from other places, and with other filters, what the   *)
(* calls go by.                                                             *)
THEOREM AnswersAgree == Spec => []QueriesAgree
<1>1. Inv /\ BooksInv => QueriesAgree
  <2> SUFFICES ASSUME Inv, BooksInv PROVE QueriesAgree
    OBVIOUS
  <2>1. \A g \in Gamers :
          /\ QueryReward(g) = UnclaimedReward(g, RewardPools)
          /\ \A p \in QueryAllPoolsInGame :
               SumFunction([id \in TeamIds |-> QueryGameResult(g, p, id).reward])
                 = UnclaimedReward(g, {p})
          /\ NothingRefunded(g) => QueryRefund(g) = RefundOf(g, RefundPools)
    BY RewardQueryAgrees, ResultsAgree, RefundQueryAgrees DEF QueryAllPoolsInGame
  <2>2. \A p \in QueryAllPoolsInGame :
          QueryPoolCollection(p)
            = TypeOf(p).fee * SumFunction([g \in Gamers |-> Len(QueryPoolTeamDetails(p, g))])
    BY CollectionAgrees DEF QueryAllPoolsInGame
  <2> QED BY <2>1, <2>2, TeamsAreListed, DetailsSpeakForAll DEF QueriesAgree
<1> QED BY <1>1, BooksInvariance, PTL

(* A claim of g leaves nothing owed to g, and everybody else what they had. *)
LEMMA ClaimSettles ==
  ASSUME Inv, Inv', BooksInv, NEW sender \in Accounts, NEW g \in Gamers, ClaimReward(sender, g)
  PROVE  /\ fury - fury' = QueryReward(g) - QueryReward(g)'
         /\ \A h \in Gamers \ {g} : QueryReward(h)' = QueryReward(h)
<1>1. /\ TypeOK /\ TypeOK' /\ Pools' = Pools /\ RewardPools' = RewardPools
      /\ Pools \in SUBSET PoolIds /\ RewardPools \in SUBSET PoolIds
  BY PoolsAreDetails DEF Inv, ClaimReward, Pools, RewardPools
<1>2. ASSUME NEW p \in RewardPools PROVE Unclaimed(p, g)' = {}
  <2>1. teams[p][g] \in Seq(Team) /\ Alike(teams[p][g])
    BY <1>1 DEF TypeOK, BooksInv, NamesakesAlike
  <2>2. teams'[p][g] = RewardedTeams(teams[p][g])
    BY <1>1, ClaimRewardTables
  <2>3. DOMAIN teams'[p][g] = DOMAIN teams[p][g]
    BY <2>2 DEF RewardedTeams
  <2> QED BY <2>1, <2>2, <2>3, PaidTeamsAlike DEF Unclaimed
<1>3. ASSUME NEW p \in RewardPools PROVE RewardOfTeams(p, g, Unclaimed(p, g))' = 0
  <2>1. RewardOfTeams(p, g, Unclaimed(p, g))'
          = SumFunction([i \in {} |-> teams'[p][g][i].reward])
    BY <1>2 DEF RewardOfTeams
  <2>2. DOMAIN [i \in {} |-> teams'[p][g][i].reward] = {}
    OBVIOUS
  <2> QED BY <2>1, <2>2, SumEmpty DEF SumFunction
<1>4. UnclaimedReward(g, RewardPools)' = 0
  <2> DEFINE f == [p \in RewardPools |-> RewardOfTeams(p, g, Unclaimed(p, g))']
  <2>1. UnclaimedReward(g, RewardPools)' = SumFunctionOnSet(f, RewardPools)
    BY <1>1 DEF UnclaimedReward, SumFunction
  <2>2. \A p \in RewardPools : f[p] = 0
    BY <1>3
  <2>3. IsFiniteSet(RewardPools)
    BY <1>1, UnclaimedTypes
  <2> HIDE DEF f
  <2> QED BY <2>1, <2>2, <2>3, SumZero
<1>5. QueryReward(g) = UnclaimedReward(g, RewardPools)
      /\ QueryReward(g)' = UnclaimedReward(g, RewardPools)'
  <2>1. QueryReward(g) = UnclaimedReward(g, RewardPools)
    BY RewardQueryAgrees
  <2>2. QueryReward(g)' = UnclaimedReward(g, RewardPools)'
    BY RewardQueryStillAgrees
  <2> QED BY <2>1, <2>2
<1>6. fury - fury' = QueryReward(g) - QueryReward(g)'
  <2> DEFINE amount == UnclaimedReward(g, RewardPools)
  <2>1. amount \in 1..fury /\ fury' = fury - amount /\ fury \in Nat
    BY DEF ClaimReward, Inv, TypeOK
  <2> HIDE DEF amount
  <2>2. fury - fury' = amount - 0
    BY <2>1
  <2> QED BY <1>4, <1>5, <2>2 DEF amount
<1>7. \A h \in Gamers \ {g} : QueryReward(h)' = QueryReward(h)
  <2> TAKE h \in Gamers \ {g}
  <2>1. \A p \in Pools : teams'[p][h] = teams[p][h]
    BY <1>1, ClaimRewardTables
  <2>2. \A p \in Pools : RewardOfTeams(p, h, Unclaimed(p, h))' = RewardOfTeams(p, h, Unclaimed(p, h))
    BY <2>1 DEF RewardOfTeams, Unclaimed
  <2>3. [p \in Pools' |-> RewardOfTeams(p, h, Unclaimed(p, h))']
          = [p \in Pools |-> RewardOfTeams(p, h, Unclaimed(p, h))]
    BY <1>1, <2>2
  <2> QED BY <2>3 DEF QueryReward, UnclaimedReward
<1> QED BY <1>6, <1>7

(* Tokens leave the contract only for a gamer who is owed as much and then  *)
(* is owed nothing; nobody else's claim changes.                            *)
THEOREM ClaimsAreSettled == Spec => ClaimsSettleRewards
<1>1. Inv /\ BooksInv /\ (Inv /\ BooksInv)' /\ [Next]_vars =>
        [fury' < fury =>
           \E g \in Gamers : /\ fury - fury' = QueryReward(g) - QueryReward(g)'
                             /\ \A h \in Gamers \ {g} : QueryReward(h)' = QueryReward(h)]_vars
  <2> SUFFICES ASSUME Inv, BooksInv, Inv', Next, fury' < fury
               PROVE  \E g \in Gamers :
                        /\ fury - fury' = QueryReward(g) - QueryReward(g)'
                        /\ \A h \in Gamers \ {g} : QueryReward(h)' = QueryReward(h)
    OBVIOUS
  <2>1. ~(fury' = fury) /\ fury \in Nat
    BY DEF Inv, TypeOK
  <2>2. PICK sender \in Accounts : GamerCall(sender) \/ GameCall(sender) \/ PayoutCall(sender)
    BY DEF Next
  <2>3. ~GameCall(sender)
    BY <2>1 DEF GameCall, SetPoolTypeParams, CreatePool, LockGame, CancelGame, funds
  <2>4. ~PayoutCall(sender)
    <3>1. \A p \in PoolIds, amount \in SwapAmounts, gain \in Gains : ~Swap(sender, p, amount, gain)
      <4> SUFFICES ASSUME NEW p \in PoolIds, NEW amount \in SwapAmounts, NEW gain \in Gains,
                          Swap(sender, p, amount, gain)
                   PROVE  FALSE
        OBVIOUS
      <4>1. fury' = fury + gain /\ gain \in Nat
        BY ConstantsAssumption DEF Swap
      <4> QED BY <2>1, <4>1
    <3> QED BY <2>1, <3>1 DEF PayoutCall, GamePoolRewardDistribute, Sweep
  <2>5. PICK g \in Gamers :
          \/ \E t \in PoolTypes, p \in PoolIds, id \in TeamIds : GamePoolBidSubmit(sender, g, t, p, id)
          \/ ClaimReward(sender, g) \/ ClaimRefund(sender, g)
    BY <2>2, <2>3, <2>4 DEF GamerCall
  <2>6. ClaimReward(sender, g)
    BY <2>1, <2>5 DEF GamePoolBidSubmit, ClaimRefund
  <2> QED BY <2>6, ClaimSettles
<1> QED BY <1>1, BooksInvariance, PTL DEF Spec, ClaimsSettleRewards


-----------------------------------------------------------------------------
(* The load test: other gamers bid and claim between any two of its calls.  *)

Begun == pc \notin {"type", "pool"}
Bids == IF pc = "bid" THEN done ELSE Len(wallets)

(* What a team of wallet w in pool p has been awarded.                      *)
DueTo(p, w) == IF p = 1 /\ pc \in {"claim", "end"} /\ w \in Sent THEN Award ELSE 0

(* The wallets of the script bid through it alone: their teams have its     *)
(* name, each wallet it went through has one, and those of the batch it     *)
(* sent are awarded.                                                        *)
ScriptInv ==
  /\ Inv
  /\ JobTypeOK
  /\ IF Begun THEN 1 \in Pools ELSE done = 0
  /\ \A p \in PoolIds, w \in Gamers \ Others : \A j \in DOMAIN teams[p][w] :
       teams[p][w][j].id = TeamId
  /\ Begun => \A i \in 1..Bids : teams[1][wallets[i]] # <<>>
  /\ \A p \in PoolIds, w \in Gamers \ Others : \A j \in DOMAIN teams[p][w] :
       teams[p][w][j].reward = DueTo(p, w)

LEMMA WalletTypes ==
  ASSUME wallets \in WalletLists
  PROVE  /\ wallets \in Seq(Gamers) /\ Len(wallets) \in Nat /\ Len(wallets) > 0
         /\ DOMAIN wallets = 1..Len(wallets)
         /\ \A i \in 1..Len(wallets) : wallets[i] \in Gamers \ Others
<1>1. wallets \in Seq(Gamers) /\ Len(wallets) > 0
  BY JobAssumption
<1> QED BY <1>1 DEF Others

LEMMA SameBatch ==
  ASSUME wallets' = wallets
  PROVE  FirstBatch' = FirstBatch /\ Sent' = Sent
BY DEF FirstBatch, Sent

(* What the script announces is a list of results.                          *)
LEMMA ResultsAreResults ==
  ASSUME NEW ws \in Seq(Gamers)
  PROVE  /\ Results(ws) \in Seq(GameResult) /\ DOMAIN Results(ws) = DOMAIN ws
         /\ \A i \in DOMAIN ws : Results(ws)[i] = [gamer |-> ws[i], team |-> TeamId, reward |-> Award]
<1> DEFINE f == Results(ws)
<1>1. \A i \in DOMAIN ws : f[i] = [gamer |-> ws[i], team |-> TeamId, reward |-> Award]
  BY DEF Results
<1>2. \A i \in DOMAIN ws : f[i] \in GameResult
  <2> TAKE i \in DOMAIN ws
  <2> DEFINE w == ws[i]
  <2>1. w \in Gamers
    OBVIOUS
  <2>2. TeamId \in TeamIds /\ Award \in Nat
    BY JobAssumption
  <2>3. f[i] = [gamer |-> w, team |-> TeamId, reward |-> Award]
    BY <1>1
  <2> HIDE DEF f, w
  <2> QED BY <2>1, <2>2, <2>3 DEF GameResult
<1>3. f = [i \in DOMAIN ws |-> f[i]]
  BY DEF Results
<1> HIDE DEF f
<1>4. f \in Seq(GameResult) /\ DOMAIN f = DOMAIN ws
  BY <1>2, <1>3, MapSeq
<1> QED BY <1>1, <1>4 DEF f

LEMMA FirstBatchIsList ==
  ASSUME wallets \in WalletLists
  PROVE  FirstBatch \in Seq(Gamers)
<1>1. wallets \in Seq(Gamers) /\ SingleBatch \in Nat /\ ChunkSize \in Nat /\ ChunkSize <= SingleBatch
  BY JobAssumption
<1>2. CASE Len(wallets) > SingleBatch
  <2>1. 1..ChunkSize \subseteq DOMAIN wallets
    BY <1>1, <1>2
  <2>2. SubSeq(wallets, 1, ChunkSize) \in Seq(Gamers)
    BY <1>1, <1>2, SubSeqProperties
  <2> QED BY <1>1, <1>2, <2>2 DEF FirstBatch
<1>3. CASE ~(Len(wallets) > SingleBatch)
  BY <1>1, <1>3 DEF FirstBatch
<1> QED BY <1>2, <1>3

(* Every call of the script and of the other gamers is one the invariant of *)
(* the contract allows for.                                                 *)
LEMMA JobStepInv ==
  ASSUME ScriptInv, [JobNext]_allVars
  PROVE  Inv'
<1>1. /\ Inv /\ Admin \in Accounts /\ wallets \in WalletLists
      /\ \A i \in 1..Len(wallets) : wallets[i] \in Gamers
  BY WalletTypes DEF ScriptInv, JobTypeOK, Accounts
<1>2. Pools \subseteq PoolIds
  BY <1>1, PoolsAreDetails DEF Inv
<1>3. CASE Setup
  BY <1>1, <1>3, SetPoolTypeParamsInv, CreatePoolInv, JobAssumption DEF Setup
<1>4. CASE PerformBids
  <2> DEFINE w == wallets[done + 1]
  <2>1. GamePoolBidSubmit(w, w, PoolType, 1, TeamId) /\ w \in Gamers
    <3>1. done + 1 \in 1..Len(wallets)
      BY WalletTypes DEF ScriptInv, JobTypeOK
    <3> QED BY <1>1, <1>4, <3>1 DEF PerformBids
  <2>2. 1 \in PoolIds /\ w \in Accounts
    BY <1>2, <2>1 DEF GamePoolBidSubmit, Accounts
  <2> QED BY <1>1, <2>1, <2>2, GamePoolBidSubmitInv, JobAssumption
<1>5. CASE LockAndSwap
  <2>1. CASE LockGame(Admin)
    BY <1>1, <2>1, LockGameInv
  <2>2. CASE \E gain \in Gains : Swap(Admin, 1, Details.fee * Len(wallets) - Reserve, gain)
    <3>1. PICK gain \in Gains : Swap(Admin, 1, Details.fee * Len(wallets) - Reserve, gain)
      BY <2>2
    <3> DEFINE amount == Details.fee * Len(wallets) - Reserve
    <3> HIDE DEF amount
    <3>2. Swap(Admin, 1, amount, gain)
      BY <3>1 DEF amount
    <3>3. amount \in Nat /\ gain \in Nat /\ 1 \in PoolIds
      <4>1. ust \in Nat
        BY <1>1 DEF Inv, TypeOK
      <4> QED BY <1>2, <3>2, <4>1, ConstantsAssumption DEF Swap
    <3> QED BY <1>1, <3>2, <3>3, SwapInv
  <2> QED BY <1>5, <2>1, <2>2 DEF LockAndSwap
<1>6. CASE DistributeRewards
  <2>1. PICK rake : GamePoolRewardDistribute(Admin, 1, Results(FirstBatch), FirstBatch = wallets, rake)
    BY <1>6 DEF DistributeRewards
  <2>2. Results(FirstBatch) \in Seq(GameResult)
    BY <1>1, FirstBatchIsList, ResultsAreResults
  <2>3. 1 \in PoolIds
    BY <1>2, <2>1 DEF GamePoolRewardDistribute
  <2>4. PICK final \in BOOLEAN : final = (FirstBatch = wallets)
    OBVIOUS
  <2>5. GamePoolRewardDistribute(Admin, 1, Results(FirstBatch), final, rake)
    BY <2>1, <2>4
  <2> QED BY <1>1, <2>2, <2>3, <2>5, GamePoolRewardDistributeInv
<1>7. CASE ClaimRewards
  <2> DEFINE w == wallets[done + 1]
  <2>1. ClaimReward(w, w) /\ w \in Gamers
    <3>1. done + 1 \in 1..Len(wallets)
      BY WalletTypes DEF ScriptInv, JobTypeOK
    <3> QED BY <1>1, <1>7, <3>1 DEF ClaimRewards
  <2> QED BY <1>1, <2>1, ClaimRewardInv DEF Accounts
<1>8. CASE OtherGamers
  <2>1. PICK sender \in Others : GamerCall(sender)
    BY <1>8 DEF OtherGamers
  <2>2. sender \in Accounts
    BY DEF Others, Accounts
  <2> QED BY <1>1, <2>1, <2>2, StepInv DEF Next
<1>9. CASE UNCHANGED allVars
  <2>1. UNCHANGED vars
    BY <1>9 DEF allVars
  <2> QED BY <1>1, <2>1, StepInv
<1> QED BY <1>3, <1>4, <1>5, <1>6, <1>7, <1>8, <1>9 DEF JobNext, ScriptStep


(* What a step may do to the teams of the script's wallets: no team goes,   *)
(* and each keeps its name and its reward.                                  *)
Untouched(old, new) ==
  \A p \in PoolIds, w \in Gamers \ Others :
    /\ DOMAIN new[p][w] = DOMAIN old[p][w]
    /\ \A j \in DOMAIN old[p][w] : /\ new[p][w][j].id = old[p][w][j].id
                                   /\ new[p][w][j].reward = old[p][w][j].reward

LEMMA NamesStay ==
  ASSUME NEW ts \in Seq(Team)
  PROVE  /\ DOMAIN RewardedTeams(ts) = DOMAIN ts
         /\ \A i \in DOMAIN ts : /\ RewardedTeams(ts)[i].id = ts[i].id
                                 /\ RewardedTeams(ts)[i].reward = ts[i].reward
         /\ \A g \in Gamers, winners \in Seq(GameResult) :
              /\ DOMAIN TeamsWithRewards(ts, g, winners) = DOMAIN ts
              /\ \A i \in DOMAIN ts : TeamsWithRewards(ts, g, winners)[i].id = ts[i].id
<1>1. DOMAIN RewardedTeams(ts) = DOMAIN ts
  BY DEF RewardedTeams
<1>2. \A i \in DOMAIN ts : /\ RewardedTeams(ts)[i].id = ts[i].id
                           /\ RewardedTeams(ts)[i].reward = ts[i].reward
  <2> TAKE i \in DOMAIN ts
  <2>1. ts[i] \in Team
    OBVIOUS
  <2>2. RewardedTeams(ts)[i] = IF ts[i].claimedReward THEN ts[i]
                ELSE [ts[i] EXCEPT !.claimedReward = TRUE, !.rewards = @ + 1]
    BY DEF RewardedTeams
  <2> QED BY <2>1, <2>2 DEF Team
<1>3. ASSUME NEW g \in Gamers, NEW winners \in Seq(GameResult)
      PROVE  /\ DOMAIN TeamsWithRewards(ts, g, winners) = DOMAIN ts
             /\ \A i \in DOMAIN ts : TeamsWithRewards(ts, g, winners)[i].id = ts[i].id
  <2>1. DOMAIN TeamsWithRewards(ts, g, winners) = DOMAIN ts
    BY DEF TeamsWithRewards
  <2>2. ASSUME NEW i \in DOMAIN ts PROVE TeamsWithRewards(ts, g, winners)[i].id = ts[i].id
    <3>1. ts[i] \in Team
      OBVIOUS
    <3>2. TeamsWithRewards(ts, g, winners)[i] =
            IF Wins(ts, i, g, winners) = {} THEN ts[i]
            ELSE [ts[i] EXCEPT !.reward = winners[Max(Wins(ts, i, g, winners))].reward]
      BY DEF TeamsWithRewards
    <3> QED BY <3>1, <3>2 DEF Team
  <2> QED BY <2>1, <2>2
<1> QED BY <1>1, <1>2, <1>3

LEMMA ClaimLeavesAwards ==
  ASSUME Inv, NEW g \in Gamers, ClaimReward(g, g)
  PROVE  Untouched(teams, teams') /\ Pools' = Pools
<1>1. g \in Accounts
  BY DEF Accounts
<1>2. ASSUME NEW p \in PoolIds, NEW w \in Gamers
      PROVE  /\ DOMAIN teams'[p][w] = DOMAIN teams[p][w]
             /\ \A j \in DOMAIN teams[p][w] : /\ teams'[p][w][j].id = teams[p][w][j].id
                                              /\ teams'[p][w][j].reward = teams[p][w][j].reward
  <2>1. teams[p][w] \in Seq(Team)
    BY DEF Inv, TypeOK
  <2>2. CASE p \in RewardPools /\ w = g
    <3>1. teams'[p][w] = RewardedTeams(teams[p][w])
      BY <1>1, <2>2, ClaimRewardTables
    <3> QED BY <2>1, <3>1, NamesStay
  <2>3. CASE ~(p \in RewardPools /\ w = g)
    <3>1. teams'[p][w] = teams[p][w]
      BY <1>1, <2>3, ClaimRewardTables
    <3> QED BY <3>1
  <2> QED BY <2>2, <2>3
<1>3. Untouched(teams, teams')
  BY <1>2 DEF Untouched
<1> QED BY <1>3 DEF ClaimReward, Pools

LEMMA OthersLeaveWallets ==
  ASSUME Inv, NEW sender \in Others, GamerCall(sender)
  PROVE  Untouched(teams, teams') /\ Pools' = Pools
<1>1. sender \in Gamers /\ sender \in Accounts /\ Others \subseteq Gamers
  BY DEF Others, Accounts
<1>2. ASSUME \A p \in PoolIds, w \in Gamers \ Others : teams'[p][w] = teams[p][w]
      PROVE  Untouched(teams, teams')
  BY <1>2 DEF Untouched
<1>3. PICK g \in Gamers :
        \/ \E t \in PoolTypes, p \in PoolIds, id \in TeamIds : GamePoolBidSubmit(sender, g, t, p, id)
        \/ ClaimReward(sender, g)
        \/ ClaimRefund(sender, g)
  BY DEF GamerCall
<1>4. g = sender /\ \A w \in Gamers \ Others : w # g
  BY <1>3 DEF GamePoolBidSubmit, ClaimReward, ClaimRefund
<1>5. CASE \E t \in PoolTypes, p \in PoolIds, id \in TeamIds : GamePoolBidSubmit(sender, g, t, p, id)
  <2>1. PICK t \in PoolTypes, p \in PoolIds, id \in TeamIds : GamePoolBidSubmit(sender, g, t, p, id)
    BY <1>5
  <2>2. \A q \in PoolIds, h \in Gamers : <<q, h>> # <<p, g>> => teams'[q][h] = teams[q][h]
    BY <1>1, <2>1, BidTables
  <2>3. Pools' = Pools
    <3> DEFINE entered == EnteredPool(p, t)
    <3>1. pool' = [pool EXCEPT ![p] = entered]
      BY <2>1 DEF GamePoolBidSubmit
    <3> HIDE DEF entered
    <3> QED BY <3>1 DEF Pools
  <2> QED BY <1>2, <1>4, <2>2, <2>3
<1>6. CASE ClaimReward(sender, g)
  <2>1. ClaimReward(g, g)
    BY <1>4, <1>6
  <2> QED BY <2>1, ClaimLeavesAwards
<1>7. CASE ClaimRefund(sender, g)
  <2>1. \A p \in PoolIds, w \in Gamers \ Others : teams'[p][w] = teams[p][w]
    BY <1>1, <1>4, <1>7, ClaimRefundTables
  <2> QED BY <1>2, <1>7, <2>1 DEF ClaimRefund, Pools
<1> QED BY <1>3, <1>5, <1>6, <1>7


(* A step that touches no team of the wallets, whatever it does to pc.      *)
LEMMA UntouchedKeeps ==
  ASSUME ScriptInv, Inv', JobTypeOK', Untouched(teams, teams'), wallets' = wallets,
         IF Begun' THEN 1 \in Pools' ELSE done' = 0,
         Begun' => Bids' = 0 \/ (Begun /\ Bids' <= Bids),
         pc' \in {"claim", "end"} <=> pc \in {"claim", "end"}
  PROVE  ScriptInv'
<1>1. /\ Inv /\ JobTypeOK /\ TypeOK'
      /\ Pools \subseteq PoolIds /\ \A i \in DOMAIN wallets : wallets[i] \in Gamers \ Others
      /\ DOMAIN wallets = 1..Len(wallets) /\ Len(wallets) \in Nat
  BY WalletTypes, PoolsAreDetails DEF ScriptInv, Inv, JobTypeOK
<1>3. \A p \in PoolIds, w \in Gamers \ Others : \A j \in DOMAIN teams'[p][w] :
        teams'[p][w][j].id = TeamId
  BY DEF ScriptInv, Untouched
<1>4. Begun => \A w \in Gamers \ Others :
                 /\ teams[1][w] # <<>> => teams'[1][w] # <<>> /\ 1 \in DOMAIN teams[1][w]
                 /\ DOMAIN teams'[1][w] = DOMAIN teams[1][w]
                 /\ \A j \in DOMAIN teams[1][w] : teams'[1][w][j].reward = teams[1][w][j].reward
  <2> SUFFICES ASSUME Begun, NEW w \in Gamers \ Others
               PROVE  /\ teams[1][w] # <<>> => teams'[1][w] # <<>> /\ 1 \in DOMAIN teams[1][w]
                      /\ DOMAIN teams'[1][w] = DOMAIN teams[1][w]
                      /\ \A j \in DOMAIN teams[1][w] : teams'[1][w][j].reward = teams[1][w][j].reward
    OBVIOUS
  <2>1. 1 \in PoolIds
    BY <1>1 DEF ScriptInv
  <2>2. teams[1][w] \in Seq(Team)
    BY <1>1, <2>1 DEF Inv, TypeOK
  <2>3. /\ DOMAIN teams'[1][w] = DOMAIN teams[1][w]
        /\ \A j \in DOMAIN teams[1][w] : teams'[1][w][j].reward = teams[1][w][j].reward
    BY <2>1 DEF Untouched
  <2>4. teams[1][w] # <<>> => 1 \in DOMAIN teams[1][w]
    BY <2>2
  <2> QED BY <2>3, <2>4
<1>5. Bids \in 0..Len(wallets) /\ Bids' \in 0..Len(wallets)
  <2>1. done \in 0..Len(wallets) - 1 /\ done' \in 0..Len(wallets) - 1
    BY <1>1 DEF JobTypeOK
  <2> QED BY <1>1, <2>1 DEF Bids
<1>6. Begun' => \A i \in 1..Bids' : teams'[1][wallets[i]] # <<>>
  <2> SUFFICES ASSUME Begun', NEW i \in 1..Bids' PROVE teams'[1][wallets[i]] # <<>>
    OBVIOUS
  <2>1. Begun /\ i \in 1..Bids
    BY <1>5
  <2>2. i \in DOMAIN wallets
    BY <1>1, <1>5, <2>1
  <2> QED BY <1>1, <1>4, <2>1, <2>2 DEF ScriptInv
<1>7. \A p \in PoolIds, w \in Gamers \ Others : \A j \in DOMAIN teams'[p][w] :
        teams'[p][w][j].reward = DueTo(p, w)'
  <2>1. \A p, w : DueTo(p, w)' = DueTo(p, w)
    BY SameBatch DEF DueTo
  <2> QED BY <2>1 DEF ScriptInv, Untouched
<1> QED BY <1>3, <1>6, <1>7 DEF ScriptInv

LEMMA SameTables ==
  ASSUME teams' = teams
  PROVE  Untouched(teams, teams')
BY DEF Untouched


LEMMA NextInLoop ==
  ASSUME NEW n \in Nat, n > 0, NEW k \in 0 .. n - 1
  PROVE  (k + 1) % n = IF k + 1 = n THEN 0 ELSE k + 1
<1>1. CASE k + 1 = n
  <2>1. n % n = 0
    OBVIOUS
  <2> QED BY <1>1, <2>1
<1>2. CASE k + 1 # n
  <2>1. k + 1 \in 0 .. n - 1
    BY <1>2
  <2>2. \A m \in 0 .. n - 1 : m % n = m
    OBVIOUS
  <2> QED BY <1>2, <2>1, <2>2
<1> QED BY <1>1, <1>2

LEMMA LoopTypes ==
  ASSUME ScriptInv, NEW next, NextWallet(next)
  PROVE  /\ done' = IF done + 1 = Len(wallets) THEN 0 ELSE done + 1
         /\ done' \in 0 .. Len(wallets) - 1 /\ done + 1 \in 1..Len(wallets)
         /\ pc' = IF done + 1 = Len(wallets) THEN next ELSE pc
         /\ wallets' = wallets
<1>1. /\ Len(wallets) \in Nat /\ Len(wallets) > 0 /\ done \in 0 .. Len(wallets) - 1
      /\ done' = (done + 1) % Len(wallets)
  BY WalletTypes DEF ScriptInv, JobTypeOK, NextWallet
<1>2. pc' = (IF done + 1 = Len(wallets) THEN next ELSE pc) /\ wallets' = wallets
  BY DEF NextWallet
<1> DEFINE n == Len(wallets)
           k == done
           j == done'
<1>3. n \in Nat /\ n > 0 /\ k \in 0 .. n - 1 /\ j = (k + 1) % n
  BY <1>1
<1> HIDE DEF n, k, j
<1>4. j = IF k + 1 = n THEN 0 ELSE k + 1
  BY <1>3, NextInLoop
<1>5. j \in 0 .. n - 1 /\ k + 1 \in 1..n
  BY <1>3, <1>4
<1> QED BY <1>2, <1>4, <1>5 DEF n, k, j

(* A bid of the script gives its wallet one more team of the script's name. *)
LEMMA BidKeepsScript ==
  ASSUME ScriptInv, Inv', PerformBids
  PROVE  ScriptInv'
<1> DEFINE w == wallets[done + 1]
<1>1. /\ pc = "bid" /\ NextWallet("lock") /\ GamePoolBidSubmit(w, w, PoolType, 1, TeamId)
      /\ Inv /\ JobTypeOK /\ TypeOK'
  BY DEF PerformBids, ScriptInv, Inv
<1>2. /\ done' = IF done + 1 = Len(wallets) THEN 0 ELSE done + 1
      /\ done' \in 0 .. Len(wallets) - 1 /\ done + 1 \in 1..Len(wallets)
      /\ pc' = IF done + 1 = Len(wallets) THEN "lock" ELSE "bid"
      /\ wallets' = wallets
  BY <1>1, LoopTypes
<1>3. /\ Len(wallets) \in Nat /\ \A i \in 1..Len(wallets) : wallets[i] \in Gamers \ Others
  BY <1>1, WalletTypes DEF JobTypeOK
<1>4. w \in Gamers \ Others /\ w \in Accounts /\ 1 \in Pools /\ 1 \in PoolIds
  <2>1. 1 \in Pools
    BY <1>1 DEF GamePoolBidSubmit
  <2> QED BY <1>1, <1>2, <1>3, <2>1, PoolsAreDetails DEF Accounts, Inv
<1>5. Pools' = Pools
  <2> DEFINE entered == EnteredPool(1, PoolType)
  <2>1. pool' = [pool EXCEPT ![1] = entered]
    BY <1>1 DEF GamePoolBidSubmit
  <2> HIDE DEF entered
  <2> QED BY <2>1 DEF Pools
<1>6. JobTypeOK'
  BY <1>1, <1>2 DEF JobTypeOK
<1> HIDE DEF w
<1>7. PICK new \in Team :
        /\ Recorded(new) /\ new.reward = 0 /\ ~new.claimedReward /\ ~new.claimedRefund
        /\ new.id = TeamId
        /\ teams' \in TeamTable
        /\ \A q \in PoolIds, h \in Gamers : <<q, h>> # <<1, w>> => teams'[q][h] = teams[q][h]
        /\ Len(teams'[1][w]) = Len(teams[1][w]) + 1
        /\ DOMAIN teams'[1][w] = DOMAIN teams[1][w] \cup {Len(teams[1][w]) + 1}
        /\ \A i \in DOMAIN teams[1][w] : teams'[1][w][i] = teams[1][w][i]
        /\ teams'[1][w][Len(teams[1][w]) + 1] = new
        /\ Len(teams[1][w]) \in Nat /\ DOMAIN teams[1][w] = 1..Len(teams[1][w])
        /\ Len(teams[1][w]) + 1 <= MaxTeams
  BY <1>1, <1>4, BidTables, JobAssumption
<1>8. \A q \in PoolIds, h \in Gamers \ Others : \A i \in DOMAIN teams'[q][h] :
        teams'[q][h][i].id = TeamId
  <2> TAKE q \in PoolIds, h \in Gamers \ Others
  <2>1. \A i \in DOMAIN teams[q][h] : teams[q][h][i].id = TeamId
    BY DEF ScriptInv
  <2>2. CASE q = 1 /\ h = w
    <3> TAKE i \in DOMAIN teams'[q][h]
    <3>1. i \in DOMAIN teams[1][w] \/ i = Len(teams[1][w]) + 1
      BY <1>7, <2>2
    <3>2. CASE i \in DOMAIN teams[1][w]
      BY <1>7, <2>1, <2>2, <3>2
    <3>3. CASE i = Len(teams[1][w]) + 1
      BY <1>7, <2>2, <3>3
    <3> QED BY <3>1, <3>2, <3>3
  <2>3. CASE ~(q = 1 /\ h = w)
    <3>1. teams'[q][h] = teams[q][h]
      BY <1>7, <2>3
    <3> QED BY <2>1, <3>1
  <2> QED BY <2>2, <2>3
<1>9. teams'[1][w] # <<>>
  <2>1. 1 \in DOMAIN teams'[1][w]
    BY <1>7
  <2> QED BY <2>1
<1>10. \A i \in 1 .. done + 1 : teams'[1][wallets[i]] # <<>>
  <2> TAKE i \in 1 .. done + 1
  <2>1. i \in 1..Len(wallets) /\ wallets[i] \in Gamers
    BY <1>2, <1>3
  <2>2. CASE wallets[i] = w
    BY <1>9, <2>2
  <2>3. CASE wallets[i] # w
    <3>1. teams'[1][wallets[i]] = teams[1][wallets[i]]
      BY <1>4, <1>7, <2>1, <2>3
    <3>2. i \in 1..done
      <4>1. i # done + 1
        BY <2>3 DEF w
      <4>2. done \in Nat
        BY <1>1, <1>3 DEF JobTypeOK
      <4> QED BY <4>1, <4>2
    <3>3. teams[1][wallets[i]] # <<>>
      BY <1>1, <3>2 DEF ScriptInv, Begun, Bids
    <3> QED BY <3>1, <3>3
  <2> QED BY <2>2, <2>3
<1>11. Bids' = done + 1
  BY <1>2 DEF Bids
<1>12. \A i \in 1..Bids' : teams'[1][wallets[i]] # <<>>
  BY <1>10, <1>11
<1>13. 1 \in Pools' /\ Begun'
  BY <1>2, <1>4, <1>5 DEF Begun
<1>14. \A q \in PoolIds, h \in Gamers \ Others : \A i \in DOMAIN teams'[q][h] :
         teams'[q][h][i].reward = DueTo(q, h)'
  <2> TAKE q \in PoolIds, h \in Gamers \ Others
  <2>1. DueTo(q, h)' = 0 /\ DueTo(q, h) = 0
    BY <1>1, <1>2 DEF DueTo
  <2>2. \A i \in DOMAIN teams[q][h] : teams[q][h][i].reward = 0
    BY <2>1 DEF ScriptInv
  <2>3. CASE q = 1 /\ h = w
    <3> TAKE i \in DOMAIN teams'[q][h]
    <3>1. i \in DOMAIN teams[1][w] \/ i = Len(teams[1][w]) + 1
      BY <1>7, <2>3
    <3> QED BY <1>7, <2>1, <2>2, <2>3, <3>1
  <2>4. CASE ~(q = 1 /\ h = w)
    <3>1. teams'[q][h] = teams[q][h]
      BY <1>7, <2>4
    <3> QED BY <2>1, <2>2, <3>1
  <2> QED BY <2>3, <2>4
<1> QED BY <1>2, <1>6, <1>8, <1>12, <1>13, <1>14 DEF ScriptInv


(* The winners of the batch are its wallets, each with the award.           *)
LEMMA AwardReachesSent ==
  ASSUME wallets \in WalletLists, NEW ts \in Seq(Team), NEW g, NEW j \in DOMAIN ts, ts[j].id = TeamId, ts[j].reward = 0
  PROVE  TeamsWithRewards(ts, g, Results(FirstBatch))[j].reward
           = IF g \in Sent THEN Award ELSE 0
<1> DEFINE winners == Results(FirstBatch)
           won == Wins(ts, j, g, winners)
<1>1. /\ winners \in Seq(GameResult) /\ DOMAIN winners = DOMAIN FirstBatch
      /\ \A i \in DOMAIN FirstBatch :
           winners[i] = [gamer |-> FirstBatch[i], team |-> TeamId, reward |-> Award]
  BY FirstBatchIsList, ResultsAreResults
<1>2. ts[j] \in Team
  OBVIOUS
<1> HIDE DEF winners
<1>3. \A i \in DOMAIN FirstBatch : winners[i].gamer = FirstBatch[i] /\ winners[i].team = TeamId
  BY <1>1
<1>4. won = {i \in DOMAIN FirstBatch : FirstBatch[i] = g}
  BY <1>1, <1>3 DEF Wins
<1>5. CASE g \in Sent
  <2>1. PICK k \in DOMAIN FirstBatch : FirstBatch[k] = g
    BY <1>5 DEF Sent
  <2>2. k \in won
    BY <1>4, <2>1
  <2>3. Max(won) \in DOMAIN winners
    BY <1>1, <2>2, LastWinnerWins
  <2> DEFINE m == Max(won)
  <2>4. TeamsWithRewards(ts, g, winners)[j] = [ts[j] EXCEPT !.reward = winners[m].reward]
    BY <2>2 DEF TeamsWithRewards
  <2> HIDE DEF m
  <2>5. winners[m].reward = Award
    BY <1>1, <2>3 DEF m
  <2>6. TeamsWithRewards(ts, g, winners)[j].reward = Award
    BY <1>2, <2>4, <2>5 DEF Team
  <2> QED BY <1>5, <2>6 DEF winners
<1>6. CASE g \notin Sent
  <2>1. won = {}
    BY <1>4, <1>6 DEF Sent
  <2>2. TeamsWithRewards(ts, g, winners)[j] = ts[j]
    BY <2>1 DEF TeamsWithRewards
  <2> QED BY <1>6, <2>2 DEF winners
<1> QED BY <1>5, <1>6

LEMMA DistributeKeepsScript ==
  ASSUME ScriptInv, Inv', DistributeRewards
  PROVE  ScriptInv'
<1> DEFINE winners == Results(FirstBatch)
<1>1. /\ wallets \in WalletLists /\ wallets \in Seq(Gamers) /\ DOMAIN wallets = 1..Len(wallets)
      /\ Len(wallets) \in Nat /\ \A i \in DOMAIN wallets : wallets[i] \in Gamers \ Others
  BY WalletTypes DEF ScriptInv, JobTypeOK
<1>2. /\ pc = "award" /\ pc' = "claim" /\ done' = done /\ wallets' = wallets
      /\ \E final \in BOOLEAN : \E rake :
           GamePoolRewardDistribute(Admin, 1, winners, final, rake)
  <2>1. PICK final \in BOOLEAN : final = (FirstBatch = wallets)
    OBVIOUS
  <2> QED BY <2>1 DEF DistributeRewards, Then
<1>a. PICK final \in BOOLEAN :
        \E rake : GamePoolRewardDistribute(Admin, 1, winners, final, rake)
  BY <1>2
<1>3. PICK rake : GamePoolRewardDistribute(Admin, 1, winners, final, rake)
  BY <1>a
<1>4. /\ Inv /\ JobTypeOK /\ TypeOK' /\ 1 \in Pools /\ 1 \in PoolIds /\ Admin \in Accounts
      /\ winners \in Seq(GameResult)
  <2>1. Inv /\ JobTypeOK /\ TypeOK' /\ 1 \in Pools
    BY <1>3 DEF ScriptInv, Inv, GamePoolRewardDistribute
  <2>2. Pools \subseteq PoolIds
    BY <2>1, PoolsAreDetails DEF Inv
  <2> QED BY <1>1, <2>1, <2>2, FirstBatchIsList, ResultsAreResults DEF Accounts
<1> HIDE DEF winners
<1>5. /\ Pools' = Pools
      /\ \A q \in PoolIds, h \in Gamers :
           teams'[q][h] = IF q = 1 THEN TeamsWithRewards(teams[1][h], h, winners)
                          ELSE teams[q][h]
  BY <1>3, <1>4, DistributionTables
<1>6. \A q \in PoolIds, h \in Gamers \ Others :
        /\ DOMAIN teams'[q][h] = DOMAIN teams[q][h]
        /\ \A j \in DOMAIN teams'[q][h] :
             teams'[q][h][j].id = TeamId /\ teams'[q][h][j].reward = DueTo(q, h)'
  <2> TAKE q \in PoolIds, h \in Gamers \ Others
  <2>1. /\ teams[q][h] \in Seq(Team)
        /\ \A j \in DOMAIN teams[q][h] : teams[q][h][j].id = TeamId /\ teams[q][h][j].reward = 0
    BY <1>2, <1>4 DEF Inv, TypeOK, ScriptInv, DueTo
  <2>2. CASE q = 1
    <3>1. /\ DOMAIN teams'[q][h] = DOMAIN teams[q][h]
          /\ \A j \in DOMAIN teams'[q][h] : teams'[q][h][j].id = TeamId
      BY <1>4, <1>5, <2>1, <2>2, NamesStay
    <3>2. \A j \in DOMAIN teams[q][h] :
            teams'[q][h][j].reward = IF h \in Sent THEN Award ELSE 0
      BY <1>1, <1>5, <2>1, <2>2, AwardReachesSent DEF winners
    <3> QED BY <1>2, <2>2, <3>1, <3>2, SameBatch DEF DueTo
  <2>3. CASE q # 1
    BY <1>5, <2>1, <2>3 DEF DueTo
  <2> QED BY <2>2, <2>3
<1>7. \A i \in DOMAIN wallets : teams'[1][wallets[i]] # <<>>
  <2> TAKE i \in DOMAIN wallets
  <2> DEFINE w == wallets[i]
  <2>1. w \in Gamers \ Others
    BY <1>1
  <2>2. teams[1][w] \in Seq(Team) /\ teams[1][w] # <<>>
    BY <1>1, <1>2, <1>4, <2>1 DEF Inv, TypeOK, ScriptInv, Begun, Bids
  <2>3. 1 \in DOMAIN teams[1][w]
    BY <2>2
  <2>4. 1 \in DOMAIN teams'[1][w]
    BY <1>4, <1>6, <2>1, <2>3
  <2> QED BY <2>4
<1>8. JobTypeOK'
  BY <1>2, <1>4 DEF JobTypeOK
<1>9. Bids' = Len(wallets) /\ 1 \in Pools' /\ Begun'
  BY <1>2, <1>4, <1>5 DEF Bids, Begun
<1> QED BY <1>1, <1>2, <1>6, <1>7, <1>8, <1>9 DEF ScriptInv

LEMMA ScriptNextInv ==
  ASSUME ScriptInv, [JobNext]_allVars
  PROVE  ScriptInv'
<1>1. Inv' /\ TypeOK' /\ Inv /\ JobTypeOK
  BY JobStepInv DEF ScriptInv, Inv
<1>2. /\ Len(wallets) \in Nat /\ Len(wallets) > 0
      /\ done \in 0 .. Len(wallets) - 1 /\ Bids \in 0..Len(wallets)
  BY <1>1, WalletTypes DEF JobTypeOK, Bids
<1>3. ASSUME pc' \in {"pool", "bid", "swap", "award"}, done' = done, teams' = teams,
             wallets' = wallets,
             IF Begun' THEN 1 \in Pools' ELSE done' = 0,
             pc \notin {"claim", "end"},
             Begun' => Bids' = 0 \/ (Begun /\ Bids' <= Bids)
      PROVE  ScriptInv'
  <2>1. JobTypeOK'
    BY <1>1, <1>3 DEF JobTypeOK
  <2>2. Untouched(teams, teams')
    BY <1>3, SameTables
  <2>3. pc' \in {"claim", "end"} <=> pc \in {"claim", "end"}
    BY <1>3
  <2> QED BY <1>1, <1>3, <2>1, <2>2, <2>3, UntouchedKeeps
<1>4. CASE pc = "type" /\ SetPoolTypeParams(Admin, PoolType, Details) /\ Then("pool")
  <2>1. /\ pc' = "pool" /\ done' = done /\ teams' = teams /\ wallets' = wallets
        /\ done = 0 /\ ~Begun'
    BY <1>4 DEF SetPoolTypeParams, poolVars, Then, Begun, ScriptInv
  <2> QED BY <1>3, <1>4, <2>1
<1>5. CASE pc = "pool" /\ CreatePool(Admin, PoolType) /\ Then("bid")
  <2>1. /\ pc' = "bid" /\ done' = done /\ teams' = teams /\ wallets' = wallets
        /\ done = 0 /\ Begun' /\ Bids' = 0
    BY <1>5 DEF CreatePool, Then, Begun, Bids, ScriptInv
  <2>2. pool \in Seq(PoolDetails)
    BY <1>1 DEF Inv, TypeOK
  <2>3. 1 \in Pools'
    BY <1>5, <2>2 DEF CreatePool, Pools
  <2>4. IF Begun' THEN 1 \in Pools' ELSE done' = 0
    BY <2>1, <2>3
  <2>5. Begun' => Bids' = 0 \/ (Begun /\ Bids' <= Bids)
    BY <2>1
  <2>6. pc' \in {"pool", "bid", "swap", "award"}
    BY <2>1
  <2> QED BY <1>3, <1>5, <2>1, <2>4, <2>5, <2>6
<1>10. CASE LockAndSwap
  <2>1. teams' = teams /\ Pools \subseteq Pools' /\ done' = done /\ wallets' = wallets
    BY <1>10 DEF LockAndSwap, LockGame, Swap, poolVars, Pools, Then
  <2>2. pc \in {"lock", "swap"} /\ pc' \in {"swap", "award"}
    BY <1>10 DEF LockAndSwap, Then
  <2>3. Begun /\ Begun' /\ Bids' = Bids /\ 1 \in Pools'
    BY <2>1, <2>2 DEF Begun, Bids, ScriptInv
  <2> QED BY <1>2, <1>3, <2>1, <2>2, <2>3
<1>6. CASE PerformBids
  BY <1>1, <1>6, BidKeepsScript
<1>7. CASE DistributeRewards
  BY <1>1, <1>7, DistributeKeepsScript
<1>8. CASE ClaimRewards
  <2> DEFINE w == wallets[done + 1]
  <2>1. pc = "claim" /\ ClaimReward(w, w) /\ NextWallet("end")
    BY <1>8 DEF ClaimRewards
  <2>2. /\ done' \in 0 .. Len(wallets) - 1 /\ done + 1 \in 1..Len(wallets)
        /\ pc' \in {"claim", "end"} /\ wallets' = wallets
    BY <2>1, LoopTypes
  <2>3. w \in Gamers
    BY <1>1, <2>2, WalletTypes DEF JobTypeOK
  <2> HIDE DEF w
  <2>4. Untouched(teams, teams') /\ Pools' = Pools
    BY <1>1, <2>1, <2>3, ClaimLeavesAwards
  <2>5. JobTypeOK'
    BY <1>1, <2>2 DEF JobTypeOK
  <2>6. Bids' = Len(wallets) /\ Bids = Len(wallets) /\ Begun /\ Begun'
    BY <2>1, <2>2 DEF Bids, Begun
  <2>7. 1 \in Pools' /\ Bids' <= Bids
    BY <1>2, <2>4, <2>6 DEF ScriptInv
  <2>8. pc' \in {"claim", "end"} <=> pc \in {"claim", "end"}
    BY <2>1, <2>2
  <2> QED BY <1>1, <2>2, <2>4, <2>5, <2>6, <2>7, <2>8, UntouchedKeeps
<1>9. CASE OtherGamers \/ UNCHANGED allVars
  <2>1. Untouched(teams, teams') /\ Pools' = Pools
    <3>1. CASE OtherGamers
      BY <1>1, <3>1, OthersLeaveWallets DEF OtherGamers
    <3>2. CASE UNCHANGED allVars
      BY <3>2, SameTables DEF allVars, vars, poolVars, Pools
    <3> QED BY <1>9, <3>1, <3>2
  <2>2. pc' = pc /\ done' = done /\ wallets' = wallets
    BY <1>9 DEF OtherGamers, allVars, jobVars
  <2>3. JobTypeOK' /\ Bids' = Bids /\ (Begun' <=> Begun)
    BY <1>1, <2>2 DEF JobTypeOK, Bids, Begun
  <2>4. IF Begun' THEN 1 \in Pools' ELSE done' = 0
    BY <2>1, <2>2, <2>3 DEF ScriptInv
  <2>5. Begun' => Bids' = 0 \/ (Begun /\ Bids' <= Bids)
    BY <1>2, <2>3
  <2>6. pc' \in {"claim", "end"} <=> pc \in {"claim", "end"}
    BY <2>2
  <2> QED BY <1>1, <2>1, <2>2, <2>3, <2>4, <2>5, <2>6, UntouchedKeeps
<1> QED BY <1>4, <1>5, <1>6, <1>7, <1>8, <1>9, <1>10 DEF JobNext, ScriptStep, Setup


(* For any list of wallets, those of the batch the script sent have their *)
(* award when it claims, and the others have none, whatever the other       *)
(* gamers do in between.                                                    *)
THEOREM BatchIsAwarded == JobSpec => []FirstBatchIsAwarded
<1>1. JobInit => ScriptInv
  <2> SUFFICES ASSUME JobInit PROVE ScriptInv
    OBVIOUS
  <2>1. Inv /\ TypeOK
    BY InitInv DEF JobInit, Inv
  <2>2. /\ wallets \in WalletLists /\ pc = "type" /\ done = 0
        /\ \A p \in PoolIds, g \in Gamers : teams[p][g] = <<>>
    BY DEF JobInit, Init
  <2>3. JobTypeOK /\ ~Begun
    BY <2>1, <2>2, WalletTypes DEF JobTypeOK, Begun
  <2> QED BY <2>1, <2>2, <2>3 DEF ScriptInv
<1>2. ScriptInv /\ [JobNext]_allVars => ScriptInv'
  BY ScriptNextInv
<1>3. ScriptInv => FirstBatchIsAwarded
  <2> SUFFICES ASSUME ScriptInv, pc = "claim", NEW i \in DOMAIN wallets
               PROVE  teams[1][wallets[i]][1].reward = IF wallets[i] \in Sent THEN Award ELSE 0
    BY DEF FirstBatchIsAwarded
  <2> DEFINE w == wallets[i]
  <2>1. w \in Gamers \ Others /\ i \in 1..Len(wallets)
    BY WalletTypes DEF ScriptInv, JobTypeOK
  <2>2. Inv /\ 1 \in PoolIds /\ teams[1][w] # <<>>
    BY <2>1, PoolsAreDetails DEF ScriptInv, Inv, Begun, Bids
  <2>3. teams[1][w] \in Seq(Team)
    BY <2>1, <2>2 DEF Inv, TypeOK
  <2>4. 1 \in DOMAIN teams[1][w]
    BY <2>2, <2>3
  <2> HIDE DEF w
  <2>5. teams[1][w][1].reward = DueTo(1, w)
    BY <2>1, <2>2, <2>4 DEF ScriptInv
  <2> QED BY <2>5 DEF DueTo, w
<1> QED BY <1>1, <1>2, <1>3, PTL DEF JobSpec
=============================================================================
