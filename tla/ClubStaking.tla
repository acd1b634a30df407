----------------------------- MODULE ClubStaking -----------------------------
(***************************************************************************)
(* The club-staking contract: clubs are bought, assigned and released;     *)
(* tokens are staked on them, unstaked into bonds and withdrawn once the   *)
(* bonds mature; an administrator distributes a reward pool over the       *)
(* stakers in batches.                                                     *)
(*                                                                         *)
(* A transaction either commits or leaves no trace, so every execute       *)
(* handler is one action whose guard is the conjunction of its early       *)
(* returns, of the checked arithmetic that would abort it and of the token *)
(* message it ends with.  Several transactions may share a block time.     *)
(*                                                                         *)
(* Data that is abstracted: platform fees (a call without them is          *)
(* rejected), names of clubs (1..NumClubs in the order of their storage    *)
(* keys) and the fields that never change after instantiation.  The vector *)
(* stored per (club, staker) never holds more than one entry, because it   *)
(* is keyed by the staker and only extended when no entry is found: it is  *)
(* an entry or NoStake.                                                    *)
(***************************************************************************)
EXTENDS Integers, Sequences, FiniteSets, Functions

CONSTANTS
  NumClubs,            \* clubs that can be founded; keys are read in ascending order
  Users,               \* wallets that own clubs and stake
  Admin,               \* config.admin_address
  NoUser,              \* no address (None, or the empty string)
  NoClub, NoStake,     \* no entry under a storage key
  MaxBondingLimit,     \* config.max_bonding_limit_per_user
  BondingDuration,     \* config.bonding_duration
  OwnerReleaseLock,    \* config.owner_release_locking_duration
  RewardPeriodicity,   \* config.reward_periodicity
  FirstRewardTime,     \* msg.club_reward_next_timestamp of instantiate
  ClubBuyingReward,    \* CLUB_BUYING_REWARD_AMOUNT
  MaxUfuryCount,       \* MAX_UFURY_COUNT
  StakeAmounts, WithdrawAmounts, RewardAmounts, Batches,   \* inputs of the calls
  MaxTime, MaxStake, MaxAmount   \* bounds: block time, deposits into a club, any amount

Clubs == 1..NumClubs
Accounts == Users \cup {Admin}
StartTime == 1

ClubDetails == [owner : Users, start : Nat, released : BOOLEAN, reward : Nat, total : Nat]
Stake == [start : Nat, amount : Nat, reward : Nat, auto : BOOLEAN]
Bond == [start : Nat, amount : Nat]
WinningDetails == [count : Nat, total : Nat, inWinning : Nat, winners : SUBSET Clubs]

ASSUME ConstantsAssumption ==
  /\ NumClubs \in Nat \ {0}
  /\ IsFiniteSet(Users)
  /\ NoUser \notin Accounts
  /\ NoClub \notin ClubDetails
  /\ NoStake \notin Stake
  /\ MaxBondingLimit \in Nat
  /\ BondingDuration \in Nat
  /\ OwnerReleaseLock \in Nat
  /\ RewardPeriodicity \in Nat
  /\ FirstRewardTime \in Nat
  /\ ClubBuyingReward \in Nat
  /\ MaxUfuryCount \in Nat
  /\ StakeAmounts \subseteq Nat
  /\ WithdrawAmounts \subseteq Nat
  /\ RewardAmounts \subseteq Nat
  /\ Batches \subseteq Seq(Users)
  /\ {MaxTime, MaxStake, MaxAmount} \subseteq Nat

(* MAX_UFURY_COUNT is the whole supply of the token. *)
ASSUME SupplyAssumption == MaxStake <= MaxUfuryCount /\ MaxAmount <= MaxUfuryCount

VARIABLES
  now,              \* env.block.time
  club,             \* CLUB_OWNERSHIP_DETAILS
  prevOwnerReward,  \* CLUB_PREVIOUS_OWNER_DETAILS, 0 when there is no entry
  stake,            \* CLUB_STAKING_DETAILS
  bonds,            \* CLUB_BONDING_DETAILS, in the order the withdrawal sorts them
  reward,           \* REWARD
  rewardGiven,      \* REWARD_GIVEN_IN_CURRENT_TIMESTAMP
  nextRewardTime,   \* CLUB_REWARD_NEXT_TIMESTAMP
  snapshot,         \* CLUB_STAKING_SNAPSHOT, 0 when there is no entry
  winning,          \* WINNING_CLUB_DETAILS_SNAPSHOT
  balance,          \* tokens the token contract holds for this contract
  consent           \* history: who released the club since it was last acquired

ownerVars  == <<club, prevOwnerReward, consent>>
stakeVars  == <<stake, bonds>>
rewardVars == <<reward, rewardGiven, nextRewardTime, snapshot, winning>>
vars == <<now, ownerVars, stakeVars, rewardVars, balance>>

TypeOK ==
  /\ now \in Nat
  /\ club \in [Clubs -> ClubDetails \cup {NoClub}]
  /\ prevOwnerReward \in [Users -> Nat]
  /\ stake \in [Clubs -> [Users -> Stake \cup {NoStake}]]
  /\ bonds \in [Clubs -> [Users -> Seq(Bond)]]
  /\ reward \in Nat
  /\ rewardGiven \in Nat
  /\ nextRewardTime \in Nat
  /\ snapshot \in [Clubs -> Nat]
  /\ winning \in WinningDetails
  /\ balance \in Nat
  /\ consent \in [Clubs -> Accounts \cup {NoUser}]

NoWinners == [count |-> 0, total |-> 0, inWinning |-> 0, winners |-> {}]

Init ==
  /\ now = StartTime
  /\ club = [c \in Clubs |-> NoClub]
  /\ prevOwnerReward = [u \in Users |-> 0]
  /\ stake = [c \in Clubs |-> [u \in Users |-> NoStake]]
  /\ bonds = [c \in Clubs |-> [u \in Users |-> <<>>]]
  /\ reward = 0
  /\ rewardGiven = 0
  /\ nextRewardTime = IF FirstRewardTime = 0 THEN StartTime - 1 ELSE FirstRewardTime
  /\ snapshot = [c \in Clubs |-> 0]
  /\ winning = NoWinners
  /\ balance = 0
  /\ consent = [c \in Clubs |-> NoUser]

-----------------------------------------------------------------------------
(* Clubs *)

Founded(c) == club[c] # NoClub

(* Mutant: a wallet that has released its club counts as having none. *)
OwnsNoUnreleasedClub(u) ==
  \A c \in Clubs : Founded(c) /\ ~club[c].released => club[c].owner # u

OwnsNoClub(u) == \A c \in Clubs : Founded(c) => club[c].owner # u

(* Mutant: any club can be bought from the owner the call names. *)
ForSaleUnreleased(c, seller) == Founded(c) => club[c].owner = seller

(* A club nobody owns is free; another one must be released by the named    *)
(* seller, and the release must not have expired.                           *)
ForSale(c, seller) ==
  Founded(c) => /\ club[c].released
                /\ now <= club[c].start + OwnerReleaseLock
                /\ club[c].owner = seller

NewStake(amount, auto) == [start |-> now, amount |-> amount, reward |-> 0, auto |-> auto]

(* The new owner starts with the club's stakes, with no reward of the       *)
(* previous owner (moved to that owner's own record), and with a stake of 0 *)
(* when it has none.                                                        *)
BoughtClub(c, buyer) ==
  [owner |-> buyer, start |-> now, released |-> FALSE, reward |-> ClubBuyingReward,
   total |-> IF Founded(c) THEN club[c].total ELSE 0]

(* Mutant: the dues of the seller replace those of its earlier sale. *)
DuesOverwritten(c, seller) ==
  IF Founded(c) THEN [prevOwnerReward EXCEPT ![seller] = club[c].reward] ELSE prevOwnerReward

DuesAfterSale(c, seller) ==
  IF Founded(c) THEN [prevOwnerReward EXCEPT ![seller] = @ + club[c].reward]
                ELSE prevOwnerReward

TakeOver(buyer, seller, c, auto) ==
  /\ OwnsNoClub(buyer)
  /\ ForSale(c, seller)
  /\ \A u \in Users : DuesAfterSale(c, seller)[u] <= MaxAmount
  /\ club' = [club EXCEPT ![c] = BoughtClub(c, buyer)]
  /\ prevOwnerReward' = DuesAfterSale(c, seller)
  /\ stake' = IF stake[c][buyer] = NoStake
              THEN [stake EXCEPT ![c][buyer] = NewStake(0, auto)]
              ELSE stake
  /\ consent' = [consent EXCEPT ![c] = NoUser]
  /\ UNCHANGED <<now, bonds, rewardVars, balance>>

(* The price goes from the buyer to the fee collector, not to this contract. *)
BuyAClub(sender, buyer, seller, c, auto) ==
  /\ sender = buyer
  /\ TakeOver(buyer, seller, c, auto)

AssignAClub(sender, buyer, seller, c, auto) ==
  /\ sender = Admin
  /\ TakeOver(buyer, seller, c, auto)

ReleaseClub(sender, owner, c) ==
  /\ sender = owner
  /\ Founded(c)
  /\ club[c].owner = owner
  /\ club' = [club EXCEPT ![c].start = now, ![c].released = TRUE]
  /\ consent' = [consent EXCEPT ![c] = sender]
  /\ UNCHANGED <<now, prevOwnerReward, stakeVars, rewardVars, balance>>

(* A token transfer out of the contract, of a reward. *)
PayReward(amount) ==
  /\ amount > 0
  /\ amount <= balance
  /\ balance' = balance - amount

ClaimOwnerRewards(sender, owner, c) ==
  /\ sender = owner
  /\ Founded(c)
  /\ club[c].owner = owner
  /\ PayReward(club[c].reward)
  /\ club' = [club EXCEPT ![c].reward = 0]
  /\ UNCHANGED <<now, prevOwnerReward, stakeVars, rewardVars, consent>>

ClaimPreviousOwnerRewards(sender, owner) ==
  /\ sender = owner
  /\ PayReward(prevOwnerReward[owner])
  /\ prevOwnerReward' = [prevOwnerReward EXCEPT ![owner] = 0]
  /\ UNCHANGED <<now, club, stakeVars, rewardVars, consent>>

-----------------------------------------------------------------------------
(* Stakes and bonds *)

(* save_staking_details with INCREASE_STAKE: switching to auto-stake folds  *)
(* the pending reward into the stake, but only the amount reaches the club's *)
(* total.                                                                   *)
FoldedReward(s, auto) == IF s # NoStake /\ auto THEN s.reward ELSE 0

IncreasedStake(s, amount, auto) ==
  IF s = NoStake
  THEN NewStake(amount, auto)
  ELSE [s EXCEPT !.amount = @ + amount + FoldedReward(s, auto),
                 !.reward = @ - FoldedReward(s, auto),
                 !.auto   = auto]

Deposit(staker, c, amount, auto) ==
  /\ Founded(c)
  /\ club[c].total + amount <= MaxStake
  /\ stake' = [stake EXCEPT ![c][staker] = IncreasedStake(@, amount, auto)]
  /\ club' = [club EXCEPT ![c].total = @ + amount]
  /\ balance' = balance + amount
  /\ UNCHANGED <<now, prevOwnerReward, consent, bonds, rewardVars>>

StakeOnAClub(sender, staker, c, amount, auto) ==
  /\ sender = staker
  /\ Deposit(staker, c, amount, auto)

(* One entry of stake_list: the handler treats the entries one after the    *)
(* other, so a longer list is this action repeated at the same block time.  *)
AssignStakesToAClub(sender, staker, c, amount, auto) ==
  /\ sender = Admin
  /\ Deposit(staker, c, amount, auto)

(* The bonds are sorted by falling start time, stably, whenever they are    *)
(* used; here they are stored that way.                                     *)
AddBond(s, b) ==
  LET k == Cardinality({i \in DOMAIN s : s[i].start >= b.start})
  IN  SubSeq(s, 1, k) \o <<b>> \o SubSeq(s, k + 1, Len(s))

(* What withdraw_stake_from_a_club asks of both its steps. *)
MayWithdraw(sender, staker, c) ==
  /\ sender = staker
  /\ Founded(c)
  /\ stake[c][staker] # NoStake

MayBond(c, staker) == Len(bonds[c][staker]) < MaxBondingLimit

BondStake(sender, staker, c, amount) ==
  /\ MayWithdraw(sender, staker, c)
  /\ amount <= stake[c][staker].amount
  /\ MayBond(c, staker)
  /\ amount <= club[c].total
  /\ stake' = [stake EXCEPT ![c][staker].amount = @ - amount]
  /\ club' = [club EXCEPT ![c].total = @ - amount]
  /\ bonds' = [bonds EXCEPT ![c][staker] = AddBond(@, [start |-> now, amount |-> amount])]
  /\ UNCHANGED <<now, prevOwnerReward, consent, rewardVars, balance>>

(* Mutant: a bond matures at the end of its period instead of after it. *)
MatureAtEnd(b) == b.start + BondingDuration <= now

Mature(b) == b.start + BondingDuration < now

(* Mutant: a bond that covers more than is left is kept whole. *)
KeepWholeBond(d, b) ==
  IF ~Mature(b) \/ d.left = 0 THEN [d EXCEPT !.kept = Append(@, b)]
  ELSE IF b.amount > d.left THEN [left |-> 0, kept |-> Append(d.kept, b)]
       ELSE [d EXCEPT !.left = @ - b.amount]

(* The withdrawal loop: d.left is still to be found, d.kept goes back to    *)
(* storage.                                                                 *)
TakeFromBond(d, b) ==
  IF ~Mature(b) \/ d.left = 0 THEN [d EXCEPT !.kept = Append(@, b)]
  ELSE IF b.amount > d.left
       THEN [left |-> 0, kept |-> Append(d.kept, [b EXCEPT !.amount = @ - d.left])]
       ELSE [d EXCEPT !.left = @ - b.amount]

DrainBonds(s, amount) ==
  LET drain[i \in 0..Len(s)] ==
        IF i = 0 THEN [left |-> amount, kept |-> <<>>]
                 ELSE TakeFromBond(drain[i-1], s[i])
  IN  drain[Len(s)]

(* Second step of unstaking: matured bonds are paid out, most recent first. *)
(* The token contract refuses a transfer of 0.                              *)
WithdrawMatured(sender, staker, c, amount) ==
  /\ MayWithdraw(sender, staker, c)
  /\ DrainBonds(bonds[c][staker], amount).left = 0
  /\ amount \in 1..balance
  /\ bonds' = [bonds EXCEPT ![c][staker] = DrainBonds(@, amount).kept]
  /\ balance' = balance - amount
  /\ UNCHANGED <<now, ownerVars, stake, rewardVars>>

(* The handler pays the pending reward but stores the stake it read, with   *)
(* the reward still in it.                                                  *)
ClaimStakerRewards(sender, staker, c) ==
  /\ sender = staker
  /\ stake[c][staker] # NoStake
  /\ PayReward(stake[c][staker].reward)
  /\ UNCHANGED <<now, ownerVars, stakeVars, rewardVars>>

-----------------------------------------------------------------------------
(* Rewards *)

(* Ranking of the clubs: a scan in key order.  inc and best are the largest *)
(* increase since the last ranking and the largest total among the clubs    *)
(* with that increase.                                                      *)
StartOfScan == [count |-> 0, total |-> 0, inWinning |-> 0, winners |-> {},
                inc |-> -MaxUfuryCount, best |-> 0]

(* Mutant: the last club with the largest increase is the only winner. *)
ScanLastBest(a, c) ==
  LET diff == club[c].total - snapshot[c]
  IN  IF Founded(c) /\ diff >= a.inc
      THEN [count |-> a.count + 1, total |-> a.total + club[c].total, inc |-> diff,
            best |-> club[c].total, inWinning |-> club[c].total, winners |-> {c}]
      ELSE a

ScanClub(a, c) ==
  LET t       == club[c].total
      diff    == t - snapshot[c]
      counted == [a EXCEPT !.count = @ + 1, !.total = @ + t]
  IN  CASE ~Founded(c) -> a
        [] Founded(c) /\ diff > a.inc ->
             [counted EXCEPT !.inc = diff, !.best = t, !.inWinning = t, !.winners = {c}]
        [] Founded(c) /\ diff = a.inc /\ t >= a.best ->
             [counted EXCEPT !.best = t, !.inWinning = t, !.winners = @ \cup {c}]
        [] OTHER -> counted

WinningClubs ==
  LET scan[c \in 0..NumClubs] ==
        IF c = 0 THEN StartOfScan ELSE ScanClub(scan[c-1], c)
      end == scan[NumClubs]
  IN  [count |-> end.count, total |-> end.total, inWinning |-> end.inWinning,
       winners |-> end.winners]

(* Mutant: the club that is being paid is taken off the others as well. *)
OthersThanThisClub(w) == w.count - Cardinality(w.winners) - 1

OtherClubCount(w) == w.count - Cardinality(w.winners)

IsWinningClub(c, w) == c \in w.winners

(* checked_div(..).unwrap_or_default() *)
Div(a, b) == IF b = 0 THEN 0 ELSE a \div b

OwnerShare(c, w) ==
  CASE IsWinningClub(c, w) /\ OtherClubCount(w) > 0 ->
         Div(reward \div 100, Cardinality(w.winners))
    [] IsWinningClub(c, w) /\ OtherClubCount(w) <= 0 ->
         Div((reward * 3) \div 100, Cardinality(w.winners))
    [] OTHER -> Div((reward * 2) \div 100, OtherClubCount(w))

WinningStakersShare(c, w) ==
  IF IsWinningClub(c, w) THEN Div((reward * 19) \div 100, Cardinality(w.winners)) ELSE 0

RewardOfStake(s, u, c, w) ==
  Div(((reward * 78) \div 100) * s.amount, w.total)
  + Div(WinningStakersShare(c, w) * s.amount, w.inWinning)
  + (IF u = club[c].owner THEN OwnerShare(c, w) ELSE 0)

NextRound == IF nextRewardTime < now THEN nextRewardTime + RewardPeriodicity ELSE nextRewardTime

(* Mutant: an auto-staked reward replaces the stake. *)
RewardReplacesStake(s, r) ==
  IF s.auto
  THEN [s EXCEPT !.start = NextRound, !.amount = r + s.reward, !.reward = 0]
  ELSE [s EXCEPT !.start = NextRound, !.reward = @ + r]

RewardedStake(s, r) ==
  IF s.auto
  THEN [s EXCEPT !.start = NextRound, !.amount = @ + r + s.reward, !.reward = 0]
  ELSE [s EXCEPT !.start = NextRound, !.reward = @ + r]

(* Mutants: an entry that starts now is dropped too; every reward is added  *)
(* to the club's total.                                                     *)
PayStakerDroppingToday(p, u, c, w) ==
  LET s == p.stakes[u]
      r == RewardOfStake(s, u, c, w)
  IN  CASE s = NoStake -> p
        [] s # NoStake /\ s.start >= now -> [p EXCEPT !.stakes = [@ EXCEPT ![u] = NoStake]]
        [] OTHER -> [stakes |-> [p.stakes EXCEPT ![u] = RewardedStake(s, r)],
                     given  |-> p.given + r,
                     added  |-> p.added + (IF s.auto THEN r ELSE 0)]
PayStakerAddingAll(p, u, c, w) ==
  LET s == p.stakes[u]
      r == RewardOfStake(s, u, c, w)
  IN  CASE s = NoStake -> p
        [] s # NoStake /\ s.start > now -> [p EXCEPT !.stakes = [@ EXCEPT ![u] = NoStake]]
        [] OTHER -> [stakes |-> [p.stakes EXCEPT ![u] = RewardedStake(s, r)],
                     given  |-> p.given + r,
                     added  |-> p.added + r]

(* The batch loop.  An entry that starts in the future is not written back. *)
PayStaker(p, u, c, w) ==
  LET s == p.stakes[u]
      r == RewardOfStake(s, u, c, w)
  IN  CASE s = NoStake -> p
        [] s # NoStake /\ s.start > now -> [p EXCEPT !.stakes = [@ EXCEPT ![u] = NoStake]]
        [] OTHER -> [stakes |-> [p.stakes EXCEPT ![u] = RewardedStake(s, r)],
                     given  |-> p.given + r,
                     added  |-> p.added + (IF s.auto THEN r ELSE 0)]

PayBatch(batch, c, w) ==
  LET pay[i \in 0..Len(batch)] ==
        IF i = 0 THEN [stakes |-> stake[c], given |-> 0, added |-> 0]
                 ELSE PayStaker(pay[i-1], batch[i], c, w)
  IN  pay[Len(batch)]

(* Mutant: what was given before the announcement counts for this round. *)
IncreaseWithoutReset(sender, amount) ==
  /\ sender = Admin
  /\ reward + amount <= MaxAmount
  /\ reward' = reward + amount
  /\ UNCHANGED <<now, ownerVars, stakeVars, rewardGiven, nextRewardTime, snapshot, winning,
                 balance>>

(* Announces a reward; the tokens are sent to the contract separately. *)
IncreaseRewardAmount(sender, amount) ==
  /\ sender = Admin
  /\ reward + amount <= MaxAmount
  /\ reward' = reward + amount
  /\ rewardGiven' = 0
  /\ UNCHANGED <<now, ownerVars, stakeVars, nextRewardTime, snapshot, winning, balance>>

TokensArrive(amount) ==
  /\ balance + amount <= MaxAmount
  /\ balance' = balance + amount
  /\ UNCHANGED <<now, ownerVars, stakeVars, rewardVars>>

RewardTimeReached(sender) ==
  /\ sender = Admin
  /\ now >= nextRewardTime

(* CalculateAndDistributeRewards when no reward has been announced. *)
DistributeNothing(sender, final) ==
  /\ RewardTimeReached(sender)
  /\ reward = 0
  /\ nextRewardTime' = IF final THEN NextRound ELSE nextRewardTime
  /\ UNCHANGED <<now, ownerVars, stakeVars, reward, rewardGiven, snapshot, winning, balance>>

WinnersUsed(first) == IF first THEN WinningClubs ELSE winning

CreditWithinBounds(c, p) ==
  /\ club[c].total + p.added <= MaxAmount
  /\ rewardGiven + p.given <= MaxAmount
  /\ \A u \in Users : p.stakes[u] # NoStake => p.stakes[u].amount + p.stakes[u].reward <= MaxAmount

Leftover(given) == IF reward > given THEN reward - given ELSE 0

(* CalculateAndDistributeRewards: the first batch of a round ranks the clubs *)
(* and records their totals, the last one closes the round.                  *)
DistributeBatch(sender, batch, c, first, final) ==
  /\ RewardTimeReached(sender)
  /\ reward > 0
  /\ Founded(c)
  /\ \E w \in {WinnersUsed(first)} :
       /\ IsWinningClub(c, w) \/ OtherClubCount(w) > 0
       /\ winning' = w
       /\ \E p \in {PayBatch(batch, c, w)} :
            /\ CreditWithinBounds(c, p)
            /\ stake' = [stake EXCEPT ![c] = p.stakes]
            /\ club' = [club EXCEPT ![c].total = @ + p.added]
            /\ rewardGiven' = rewardGiven + p.given
            /\ reward' = IF final THEN Leftover(rewardGiven + p.given) ELSE reward
  /\ snapshot' = [d \in Clubs |-> IF first /\ Founded(d) THEN club[d].total ELSE snapshot[d]]
  /\ nextRewardTime' = IF final THEN NextRound ELSE nextRewardTime
  /\ UNCHANGED <<now, prevOwnerReward, consent, bonds, balance>>

CalculateAndDistributeRewards(sender, batch, c, first, final) ==
  \/ DistributeNothing(sender, final)
  \/ DistributeBatch(sender, batch, c, first, final)

-----------------------------------------------------------------------------
Tick ==
  /\ now < MaxTime
  /\ now' = now + 1
  /\ UNCHANGED <<ownerVars, stakeVars, rewardVars, balance>>

OwnerCall(sender) ==
  \E c \in Clubs, u \in Users :
    \/ \E seller \in Users \cup {NoUser}, auto \in BOOLEAN :
         \/ BuyAClub(sender, u, seller, c, auto)
         \/ AssignAClub(sender, u, seller, c, auto)
    \/ ReleaseClub(sender, u, c)
    \/ ClaimOwnerRewards(sender, u, c)
    \/ ClaimPreviousOwnerRewards(sender, u)

StakerCall(sender) ==
  \E c \in Clubs, u \in Users :
    \/ \E amount \in StakeAmounts, auto \in BOOLEAN :
         \/ StakeOnAClub(sender, u, c, amount, auto)
         \/ AssignStakesToAClub(sender, u, c, amount, auto)
    \/ \E amount \in WithdrawAmounts :
         \/ BondStake(sender, u, c, amount)
         \/ WithdrawMatured(sender, u, c, amount)
    \/ ClaimStakerRewards(sender, u, c)

RewardCall(sender) ==
  \/ \E amount \in RewardAmounts : IncreaseRewardAmount(sender, amount)
  \/ \E batch \in Batches, c \in Clubs, first \in BOOLEAN, final \in BOOLEAN :
       CalculateAndDistributeRewards(sender, batch, c, first, final)

Environment ==
  \/ Tick
  \/ \E amount \in RewardAmounts : TokensArrive(amount)

Next ==
  \/ \E sender \in Accounts : OwnerCall(sender) \/ StakerCall(sender) \/ RewardCall(sender)
  \/ Environment

Spec == Init /\ [][Next]_vars

-----------------------------------------------------------------------------
(* Queries.  A list of clubs is the set of their names, a list of stakes    *)
(* the set of their stakers, or of club and staker, and a list of bonds     *)
(* names each one by club, staker and position.                             *)
QueryAllClubs == {c \in Clubs : Founded(c)}
QueryClubOwnershipDetails(c) == club[c]
QueryClubOwnershipDetailsForOwner(u) == {c \in QueryAllClubs : club[c].owner = u}
QueryClubPreviousOwnerDetails(u) == prevOwnerReward[u]
QueryClubStakingDetails(c, users) == {u \in users : stake[c][u] # NoStake}
QueryClubBondingDetailsForUser(c, u) == bonds[c][u]
QueryAllStakes(users) == {p \in QueryAllClubs \X users : stake[p[1]][p[2]] # NoStake}
QueryAllBonds(users) ==
  UNION {{p} \X DOMAIN bonds[p[1]][p[2]] : p \in QueryAllClubs \X users}
QueryStakerRewards(u, c) ==
  IF u \in QueryClubStakingDetails(c, {u}) THEN stake[c][u].reward ELSE 0

-----------------------------------------------------------------------------
(* Safety *)

(* No wallet owns two clubs, whatever the order of purchases, assignments   *)
(* and releases (buy_a_club and assign_a_club scan every owned club).       *)
OneClubPerOwner ==
  \A c, d \in Clubs :
    Founded(c) /\ Founded(d) /\ club[c].owner = club[d].owner => c = d

(* A club is only ever marked as released by the wallet that owns it now:   *)
(* a release granted by an earlier owner does not survive the sale.         *)
ReleasedByOwner ==
  \A c \in Clubs : Founded(c) /\ club[c].released => consent[c] = club[c].owner

(* A club changes hands only if its owner released it after acquiring it.   *)
SaleNeedsConsent ==
  [][\A c \in Clubs :
       Founded(c) /\ club'[c].owner # club[c].owner => consent[c] = club[c].owner]_vars

(* A stake on auto-stake never has a pending reward: save_staking_details   *)
(* and the distribution fold it in, so nothing is left behind to claim.     *)
AutoStakeHasNoPendingReward ==
  \A c \in Clubs, u \in Users :
    stake[c][u] # NoStake /\ stake[c][u].auto => stake[c][u].reward = 0

(* The bonds of a staker on a club never exceed max_bonding_limit_per_user. *)
BondsWithinLimit == \A c \in Clubs, u \in Users : Len(bonds[c][u]) <= MaxBondingLimit

(* What of a bond is still inside the bonding period. *)
Immature(b) == IF now <= b.start + BondingDuration THEN b.amount ELSE 0

Staked(c, u) == IF stake[c][u] = NoStake THEN 0 ELSE stake[c][u].amount
AmountOf(bs) == SumFunction([i \in DOMAIN bs |-> bs[i].amount])
ImmatureAmountOf(bs) == SumFunction([i \in DOMAIN bs |-> Immature(bs[i])])
Bonded(c, u) == AmountOf(QueryClubBondingDetailsForUser(c, u))
Unbonding(c, u) == ImmatureAmountOf(bonds[c][u])
Holding(c, u) == Staked(c, u) + Bonded(c, u)
Pairs == Clubs \X Users

(* What a staker holds on a club, staked and bonded, only shrinks by what   *)
(* the contract pays out in that very call, to that staker alone.           *)
HoldingsNeverVanish ==
  [][\A p \in Pairs :
       Holding(p[1], p[2])' < Holding(p[1], p[2]) =>
         balance - balance' = Holding(p[1], p[2]) - Holding(p[1], p[2])']_vars

(* An immature bond is never paid out: the part of a staker's bonds that is *)
(* still inside the bonding period only shrinks when time passes.           *)
BondingPeriodIsServed ==
  [][now' = now => \A p \in Pairs : Unbonding(p[1], p[2])' >= Unbonding(p[1], p[2])]_vars

OwnerDues(u) ==
  QueryClubPreviousOwnerDetails(u)
  + SumFunction([c \in QueryClubOwnershipDetailsForOwner(u) |->
                   QueryClubOwnershipDetails(c).reward])
Debts ==
  SumFunction([p \in Pairs |-> Bonded(p[1], p[2]) + QueryStakerRewards(p[2], p[1])])
  + SumFunction([u \in Users |-> OwnerDues(u)])

(* Every token that leaves settles a debt of the contract: a bond, a        *)
(* pending reward or an owner's reward shrinks by what is paid out.         *)
PayoutsSettleDebts ==
  [][balance' < balance => Debts - Debts' = balance - balance']_vars

(* Selling a club, any number of times, loses no owner reward: what was due *)
(* to the seller is still due to the seller afterwards.                     *)
OwnerDuesSurviveSales ==
  [][balance' = balance => \A u \in Users : OwnerDues(u)' >= OwnerDues(u)]_vars

(* The total of a club never claims more than its stakes hold, so that      *)
(* every staker's share of a reward is computed over at most the real sum.  *)
StakesOn(c) == SumFunction([u \in QueryClubStakingDetails(c, Users) |-> stake[c][u].amount])
TotalNeverOverstates == \A c \in Clubs : Founded(c) => club[c].total <= StakesOn(c)

(* Ranking, stated over the set of clubs instead of the scan in key order.  *)
Increase(c) == club[c].total - snapshot[c]
GrewMost == {c \in QueryAllClubs : \A d \in QueryAllClubs : Increase(d) <= Increase(c)}
Leads(c) == \A d \in GrewMost : d < c => club[d].total <= club[c].total

(* In every state exactly those clubs win that grew most and hold at least  *)
(* as much as every club of that growth that is read before them.  So the   *)
(* largest of the clubs that grew most always win, and none that grew less; *)
(* a smaller one of that growth wins only by being read first.              *)
BestClubsWin == WinningClubs.winners = {c \in GrewMost : Leads(c)}
=============================================================================
