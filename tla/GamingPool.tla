----------------------------- MODULE GamingPool ------------------------------
(***************************************************************************)
(* The gaming-pool contract: one game with pools that gamers enter teams   *)
(* into for a fee.  Locking the game turns pools with too few teams into   *)
(* refunds, cancelling it all of them; the administrator swaps the         *)
(* collected fees and announces rewards in batches, pool by pool, which    *)
(* the winners then claim.                                                 *)
(*                                                                         *)
(* A transaction either commits or leaves no trace, so every execute       *)
(* handler is one action, together with the messages it ends with and the  *)
(* reply it awaits.                                                        *)
(*                                                                         *)
(* Data that is abstracted: the price of the token (a bid is swapped into  *)
(* exactly the fee it is meant to pay, a swap for rewards gains any of     *)
(* Gains), platform fees (a call without them is rejected, a refund gives  *)
(* them back), ranks and points, and the running total of the rewards of a *)
(* pool, which nothing reads.                                              *)
(***************************************************************************)
EXTENDS Integers, Sequences, FiniteSets, FiniteSetsExt, Functions

CONSTANTS
  Gamers,          \* wallets that enter teams
  Admin,           \* config.admin_address
  PoolTypes,       \* names of pool types
  NoType,          \* no entry under the name of a pool type
  TeamIds,         \* names of teams; a gamer may enter one name twice
  MaxPools,        \* bound: pools that are created
  MaxTeams,        \* teams any pool type lets a gamer enter into a pool
  TypeInputs,      \* parameters the administrator may give a pool type
  Batches,         \* lists of winners the administrator may send
  SwapAmounts, RakeAmounts, SweepAmounts,   \* amounts of the administrator's calls
  Gains            \* tokens a swap may bring

Accounts == Gamers \cup {Admin}
PoolIds == 1..MaxPools

TypeDetails == [fee : Nat, min : Nat, max : Nat, perGamer : Nat, rakes : Seq(Nat)]
PoolDetails == [type : PoolTypes, count : Nat, distributed : BOOLEAN,
                refund : BOOLEAN, reward : BOOLEAN]
GameResult == [gamer : Gamers, team : TeamIds, reward : Nat]

(* The last three fields are history: the fee paid for the team, how often  *)
(* its refund and how often its reward was paid out.                        *)
Team == [id : TeamIds, reward : Nat, claimedReward : BOOLEAN,
         refund : Nat, claimedRefund : BOOLEAN,
         fee : Nat, refunds : Nat, rewards : Nat]

(* CURRENT_REWARD_FOR_POOL and SWAP_BALANCE_INFO share one key: what is     *)
(* stored for a pool is a reward total or the outcome of a swap, and each   *)
(* reader takes the other one for a missing entry.                          *)
Record == [kind : {"none", "total", "swap"}, rake : Nat]

ASSUME ConstantsAssumption ==
  /\ IsFiniteSet(Gamers) /\ IsFiniteSet(TeamIds)
  /\ NoType \notin TypeDetails
  /\ MaxPools \in Nat
  /\ MaxTeams \in Nat
  /\ TypeInputs \subseteq {d \in TypeDetails : d.perGamer <= MaxTeams}
  /\ Batches \subseteq Seq(GameResult)
  /\ SwapAmounts \subseteq Nat
  /\ RakeAmounts \subseteq Nat
  /\ SweepAmounts \subseteq Nat
  /\ Gains \subseteq Nat

VARIABLES
  status,    \* GAME_DETAILS: the status of the game
  types,     \* POOL_TYPE_DETAILS
  pool,      \* POOL_DETAILS, in the order of creation; CONTRACT_POOL_COUNT is its length
  teams,     \* POOL_TEAM_DETAILS
  record,    \* CURRENT_REWARD_FOR_POOL and SWAP_BALANCE_INFO
  ust,       \* native tokens of the contract
  fury       \* tokens the token contract holds for this contract

poolVars == <<pool, teams>>
funds == <<ust, fury>>
vars == <<status, types, poolVars, record, funds>>

TypeOK ==
  /\ status \in {"open", "closed", "cancelled", "completed"}
  /\ types \in [PoolTypes -> TypeDetails \cup {NoType}]
  /\ pool \in Seq(PoolDetails)
  /\ Len(pool) <= MaxPools
  /\ teams \in [PoolIds -> [Gamers -> Seq(Team)]]
  /\ record \in [PoolIds -> Record]
  /\ ust \in Nat
  /\ fury \in Nat

Init ==
  /\ status = "open"
  /\ types = [t \in PoolTypes |-> NoType]
  /\ pool = <<>>
  /\ teams = [p \in PoolIds |-> [g \in Gamers |-> <<>>]]
  /\ record = [p \in PoolIds |-> [kind |-> "none", rake |-> 0]]
  /\ ust = 0
  /\ fury = 0

-----------------------------------------------------------------------------
(* Pools *)

Pools == DOMAIN pool
TypeOf(p) == types[pool[p].type]

(* The loops over all pools fail on a pool whose type was never set.        *)
TypesKnown == \A p \in Pools : TypeOf(p) # NoType

SetPoolTypeParams(sender, t, details) ==
  /\ sender = Admin
  /\ types[t] = NoType
  /\ types' = [types EXCEPT ![t] = details]
  /\ UNCHANGED <<status, poolVars, record, funds>>

(* Mutant: a cancelled game still takes pools and teams. *)
NotStarted == status \notin {"closed", "completed"}

OpenForBids == status = "open"

(* The type need not exist yet. *)
CreatePool(sender, t) ==
  /\ sender = Admin
  /\ OpenForBids
  /\ Len(pool) < MaxPools
  /\ pool' = Append(pool, [type |-> t, count |-> 0, distributed |-> FALSE,
                           refund |-> FALSE, reward |-> FALSE])
  /\ UNCHANGED <<status, types, teams, record, funds>>

NewTeam(id, fee) ==
  [id |-> id, reward |-> 0, claimedReward |-> FALSE, refund |-> 0,
   claimedRefund |-> FALSE, fee |-> fee, refunds |-> 0, rewards |-> 0]

SaveTeamDetails(ts, id, fee) == Append(ts, NewTeam(id, fee))

(* The fee comes in fury and is swapped for native tokens at once.          *)
FeeSwapped(fee) == ust' = ust + fee

(* Mutant: the room is that of the type the pool had so far. *)
RoomOfPreviousType(p, t) ==
  TypeOf(p) # NoType /\ pool[p].count < TypeOf(p).max

RoomForTeam(p, t) == pool[p].count < types[t].max

(* Mutant: the number of teams is not stored. *)
EnteredUncounted(p, t) ==
  [pool[p] EXCEPT !.type = t, !.refund = FALSE, !.reward = FALSE]

QueryPoolDetails(p) == pool[p]

(* The pool takes over the type the bid names, which need not be the one it *)
(* was created with.                                                        *)
EnteredPool(p, t) ==
  [QueryPoolDetails(p) EXCEPT !.type = t, !.count = @ + 1, !.refund = FALSE, !.reward = FALSE]

GamePoolBidSubmit(sender, g, t, p, id) ==
  /\ g = sender
  /\ OpenForBids
  /\ types[t] # NoType
  /\ Len(teams[p][g]) < types[t].perGamer
  /\ p \in Pools
  /\ RoomForTeam(p, t)
  /\ pool' = [pool EXCEPT ![p] = EnteredPool(p, t)]
  /\ teams' = [teams EXCEPT ![p][g] = SaveTeamDetails(@, id, types[t].fee)]
  /\ FeeSwapped(types[t].fee)
  /\ UNCHANGED <<status, types, record, fury>>

(* Mutant: the minimum itself is not enough. *)
AtMostMin(p) == pool[p].count <= TypeOf(p).min

Underfilled(p) == pool[p].count < TypeOf(p).min

LockGame(sender) ==
  /\ sender = Admin
  /\ OpenForBids
  /\ TypesKnown
  /\ status' = "closed"
  /\ pool' = [p \in Pools |-> [pool[p] EXCEPT !.refund = @ \/ Underfilled(p)]]
  /\ UNCHANGED <<types, teams, record, funds>>

CancelGame(sender) ==
  /\ sender = Admin
  /\ status \notin {"completed", "cancelled"}
  /\ TypesKnown
  /\ status' = "cancelled"
  /\ pool' = [p \in Pools |-> [pool[p] EXCEPT !.refund = TRUE]]
  /\ UNCHANGED <<types, teams, record, funds>>

-----------------------------------------------------------------------------
(* Claims *)

Unclaimed(p, g) == {i \in DOMAIN teams[p][g] : ~teams[p][g][i].claimedReward}

RewardOfTeams(p, g, is) == SumFunction([i \in is |-> teams[p][g][i].reward])
UnclaimedReward(g, ps) == SumFunction([p \in ps |-> RewardOfTeams(p, g, Unclaimed(p, g))])

RewardPools == {p \in Pools : pool[p].reward}

(* What query_reward answers: it does not look at the flag of the pool.     *)
QueryReward(g) == UnclaimedReward(g, Pools)

(* query_game_result: the teams of one name that were not paid, together.   *)
QueryGameResult(g, p, id) ==
  [gamer |-> g, team |-> id,
   reward |-> RewardOfTeams(p, g, {i \in Unclaimed(p, g) : teams[p][g][i].id = id})]

(* Mutant: the payout is not recorded. *)
UnmarkedTeams(ts) == [i \in DOMAIN ts |-> ts[i]]

(* A team without a reward is marked as well. *)
RewardedTeams(ts) ==
  [i \in DOMAIN ts |-> IF ts[i].claimedReward THEN ts[i]
                       ELSE [ts[i] EXCEPT !.claimedReward = TRUE, !.rewards = @ + 1]]

ClaimReward(sender, g) ==
  /\ g = sender
  /\ LET amount == UnclaimedReward(g, RewardPools)
     IN  /\ amount \in 1..fury
         /\ fury' = fury - amount
  /\ teams' = [p \in PoolIds |->
                 IF p \in RewardPools
                 THEN [teams[p] EXCEPT ![g] = RewardedTeams(@)]
                 ELSE teams[p]]
  /\ UNCHANGED <<status, types, pool, record, ust>>

(* Mutant: whether the pool is refundable is not looked at. *)
EveryPool == Pools

RefundPools == {p \in Pools : pool[p].refund}

RefundClaimed(p, g) == \E i \in DOMAIN teams[p][g] : teams[p][g][i].claimedRefund

(* Mutant: teams that were refunded before are refunded again. *)
NothingChecked(g) == \A p \in RefundPools : TypeOf(p) # NoType

(* A single team that was refunded before makes the whole call fail.        *)
NothingRefunded(g) ==
  \A p \in RefundPools : TypeOf(p) # NoType /\ ~RefundClaimed(p, g)

RefundOf(g, ps) == SumFunction([p \in ps |-> TypeOf(p).fee * Len(teams[p][g])])

(* What query_refund answers: it leaves out the teams that were refunded.   *)
Unrefunded(p, g) == {i \in DOMAIN teams[p][g] : ~teams[p][g][i].claimedRefund}
QueryRefund(g) ==
  SumFunction([p \in RefundPools |-> TypeOf(p).fee * Cardinality(Unrefunded(p, g))])

RefundedTeams(ts, fee) ==
  [i \in DOMAIN ts |->
     [ts[i] EXCEPT !.refund = fee, !.claimedRefund = TRUE, !.refunds = @ + 1]]

ClaimRefund(sender, g) ==
  /\ g = sender
  /\ NothingRefunded(g)
  /\ LET amount == RefundOf(g, RefundPools)
     IN  /\ amount \in 1..ust
         /\ ust' = ust - amount
  /\ teams' = [p \in PoolIds |->
                 IF p \in RefundPools
                 THEN [teams[p] EXCEPT ![g] = RefundedTeams(@, TypeOf(p).fee)]
                 ELSE teams[p]]
  /\ UNCHANGED <<status, types, pool, record, fury>>

-----------------------------------------------------------------------------
(* Rewards *)

GameRunsOrIsOver == status \notin {"cancelled", "open"}

PoolWithRewards(p, final) ==
  [pool[p] EXCEPT !.distributed = final, !.refund = FALSE, !.reward = TRUE]

(* Mutant: only the last winner of a batch is stored. *)
LastWinner(ts, i, g, winners) ==
  {w \in {Len(winners)} : winners[w].gamer = g /\ winners[w].team = ts[i].id}

(* Winners of a batch that name team ts[i] of gamer g.                      *)
Wins(ts, i, g, winners) ==
  {w \in DOMAIN winners : winners[w].gamer = g /\ winners[w].team = ts[i].id}

(* The last winner that names a team decides, for all teams of that name    *)
(* and whether or not the reward of the team was claimed.                   *)
TeamsWithRewards(ts, g, winners) ==
  [i \in DOMAIN ts |->
     IF Wins(ts, i, g, winners) = {} THEN ts[i]
     ELSE [ts[i] EXCEPT !.reward = winners[Max(Wins(ts, i, g, winners))].reward]]

RakePaid(p, rake) ==
  [k \in DOMAIN TypeOf(p).rakes |-> (rake * TypeOf(p).rakes[k]) \div 100]

TransferToMultipleWallets(amounts) ==
  /\ SumFunction(amounts) \in 0..ust
  /\ ust' = ust - SumFunction(amounts)

(* The pool has a reward total from now on. *)
StoreRewardTotal(p) == record' = [record EXCEPT ![p] = [kind |-> "total", rake |-> 0]]

(* game_pool_reward_distribute: also after the game is over, for a pool     *)
(* whose last batch is still to come; a batch that is not a last one opens  *)
(* the game again.                                                          *)
GamePoolRewardDistribute(sender, p, winners, final, rake) ==
  /\ sender = Admin
  /\ GameRunsOrIsOver
  /\ p \in Pools
  /\ ~pool[p].distributed
  /\ TypeOf(p) # NoType
  /\ status' = IF final THEN "completed" ELSE "closed"
  /\ pool' = [pool EXCEPT ![p] = PoolWithRewards(p, final)]
  /\ teams' = [teams EXCEPT ![p] = [g \in Gamers |-> TeamsWithRewards(@[g], g, winners)]]
  /\ StoreRewardTotal(p)
  /\ IF final THEN TransferToMultipleWallets(RakePaid(p, rake)) ELSE UNCHANGED ust
  /\ UNCHANGED <<types, fury>>


QueryPoolCollection(p) == TypeOf(p).fee * pool[p].count

RakeAfterSwap(p, amount) ==
  LET collection == TypeOf(p).fee * pool[p].count
  IN  IF amount >= collection THEN 0 ELSE collection - amount

(* swap and the reply to it; an amount of 0 makes the reply divide by zero. *)
Swap(sender, p, amount, gain) ==
  /\ sender = Admin
  /\ p \in Pools
  /\ TypeOf(p) # NoType
  /\ amount \in 1..ust
  /\ record' = [record EXCEPT ![p] = [kind |-> "swap", rake |-> RakeAfterSwap(p, amount)]]
  /\ ust' = ust - amount
  /\ fury' = fury + gain
  /\ UNCHANGED <<status, types, poolVars>>

Sweep(sender, amount) ==
  /\ sender = Admin
  /\ amount <= ust
  /\ ust' = ust - amount
  /\ UNCHANGED <<status, types, poolVars, record, fury>>

-----------------------------------------------------------------------------
GamerCall(sender) ==
  \E g \in Gamers :
    \/ \E t \in PoolTypes, p \in PoolIds, id \in TeamIds :
         GamePoolBidSubmit(sender, g, t, p, id)
    \/ ClaimReward(sender, g)
    \/ ClaimRefund(sender, g)

GameCall(sender) ==
  \/ \E t \in PoolTypes, details \in TypeInputs : SetPoolTypeParams(sender, t, details)
  \/ \E t \in PoolTypes : CreatePool(sender, t)
  \/ LockGame(sender)
  \/ CancelGame(sender)

PayoutCall(sender) ==
  \/ \E p \in PoolIds, winners \in Batches, rake \in RakeAmounts, final \in BOOLEAN :
       GamePoolRewardDistribute(sender, p, winners, final, rake)
  \/ \E p \in PoolIds, amount \in SwapAmounts, gain \in Gains : Swap(sender, p, amount, gain)
  \/ \E amount \in SweepAmounts : Sweep(sender, amount)

Next ==
  \E sender \in Accounts : GamerCall(sender) \/ GameCall(sender) \/ PayoutCall(sender)

Spec == Init /\ [][Next]_vars

-----------------------------------------------------------------------------
(* Further queries.  A list of teams names each one by its pool, gamer and  *)
(* position.                                                                *)
QueryAllPoolsInGame == Pools
QueryPoolTeamDetails(p, g) == teams[p][g]
QueryAllTeams(users) ==
  UNION {{pg[1]} \X {pg[2]} \X DOMAIN teams[pg[1]][pg[2]] : pg \in Pools \X users}
QueryTeamDetails(p, id, g) ==
  LET named == {i \in DOMAIN teams[p][g] : teams[p][g][i].id = id}
  IN  teams[p][g][CHOOSE i \in named : \A j \in named : i <= j]

(* The data of a swap; there are none while the record is a reward total.   *)
QuerySwapDataForPool(p) == IF record[p].kind = "swap" THEN {record[p].rake} ELSE {}

-----------------------------------------------------------------------------
(* The promise: a team is a ticket, named by its pool, gamer and position.  *)
Ticket == PoolIds \X Gamers \X (1..MaxTeams)
TeamOf(t) == teams[t[1]][t[2]][t[3]]
Entered == {t \in Ticket : t[3] \in DOMAIN teams[t[1]][t[2]]}

Promise == INSTANCE GameTickets WITH
  Tickets <- Ticket,
  open <- status = "open",
  sold <- Entered,
  refunds <- [t \in Ticket |-> IF t \in Entered THEN TeamOf(t).refunds ELSE 0],
  prizes <- [t \in Ticket |-> IF t \in Entered THEN TeamOf(t).rewards ELSE 0]

(* The game keeps the promise of GameTickets: no team enters once the game  *)
(* was locked or cancelled, and none is refunded or rewarded before that,   *)
(* nor twice.                                                               *)
KeepsPromise == Promise!TicketSpec

(* A pool never holds more teams than its type allows, although every bid   *)
(* may give it another type.                                                *)
PoolWithinType ==
  \A p \in Pools : pool[p].count > 0 => TypeOf(p) # NoType /\ pool[p].count <= TypeOf(p).max

(* While the game takes bids nobody has a claim and nothing was paid, so    *)
(* that a bid, which clears both flags of its pool, takes nothing away.     *)
OpenGameKeepsDeposits ==
  status = "open" =>
    /\ \A p \in Pools : ~pool[p].refund /\ ~pool[p].reward /\ ~pool[p].distributed
    /\ \A p \in PoolIds, g \in Gamers : \A i \in DOMAIN teams[p][g] :
         ~teams[p][g][i].claimedReward /\ ~teams[p][g][i].claimedRefund

(* A cancelled game refunds the teams of every pool, those of pools created *)
(* or paid out around the cancellation included.                            *)
CancelledGameRefundsAll == status = "cancelled" => \A p \in Pools : pool[p].refund

(* A cancelled game stays cancelled, and no pool stops being refundable.    *)
CancellationIsFinal ==
  [][status = "cancelled" => status' = "cancelled" /\ RefundPools \subseteq RefundPools']_vars

(* Once locked, a pool is refundable exactly while it is short of teams     *)
(* and none of its rewards was announced: no later bid, type or batch of    *)
(* another pool changes who gets the fees back.                             *)
ShortPoolsAreRefunded ==
  status \in {"closed", "completed"} =>
    \A p \in Pools : /\ TypeOf(p) # NoType
                     /\ pool[p].refund <=> pool[p].count < TypeOf(p).min /\ ~pool[p].reward

(* The queries answer from other places what the calls go by: query_reward, *)
(* which looks at all pools, and query_game_result, team name by team name, *)
(* what a claim would pay from the pools open for claims; query_refund what *)
(* a first refund would pay; query_pool_collection, from the stored number  *)
(* of teams, which also decides on refunds and the rake, the fee of every   *)
(* team the gamers have in the pool; query_all_teams misses no team; and    *)
(* query_team_details, the first team of a name, speaks for all of them.    *)
QueriesAgree ==
  /\ \A g \in Gamers :
       /\ QueryReward(g) = UnclaimedReward(g, RewardPools)
       /\ \A p \in QueryAllPoolsInGame :
            SumFunction([id \in TeamIds |-> QueryGameResult(g, p, id).reward])
              = UnclaimedReward(g, {p})
       /\ NothingRefunded(g) => QueryRefund(g) = RefundOf(g, RefundPools)
  /\ \A p \in QueryAllPoolsInGame :
       TypeOf(p) # NoType =>
         QueryPoolCollection(p)
           = TypeOf(p).fee * SumFunction([g \in Gamers |-> Len(QueryPoolTeamDetails(p, g))])
  /\ QueryAllTeams(Gamers) = Entered
  /\ \A t \in QueryAllTeams(Gamers) :
       LET first == QueryTeamDetails(t[1], TeamOf(t).id, t[2])
       IN  first.reward = TeamOf(t).reward /\ first.claimedReward = TeamOf(t).claimedReward

(* Tokens leave the contract only to gamers, and what a gamer is paid is    *)
(* what it was owed before and no longer is.                                *)
ClaimsSettleRewards ==
  [][fury' < fury =>
       \E g \in Gamers : /\ fury - fury' = QueryReward(g) - QueryReward(g)'
                         /\ \A h \in Gamers \ {g} : QueryReward(h)' = QueryReward(h)]_vars
=============================================================================
