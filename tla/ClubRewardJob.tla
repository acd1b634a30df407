---------------------------- MODULE ClubRewardJob ----------------------------
(***************************************************************************)
(* The administrator's reward job composed with the club-staking contract. *)
(* One round announces a reward and then pays every founded club, list by  *)
(* list: the first call of the round is marked as its first batch, the     *)
(* last one as its final batch.  The wallets keep calling the contract     *)
(* between two calls of the job.                                           *)
(***************************************************************************)
EXTENDS ClubStaking

CONSTANTS
  StakerLists,   \* the lists of wallets the job sends for each club
  MaxRounds      \* bound: rounds the job runs

ASSUME JobAssumption ==
  /\ StakerLists \in Seq(Batches)
  /\ MaxRounds \in Nat

(* The scripts name every wallet once: one list of distinct wallets, or the *)
(* batches a list of distinct wallets is divided into.                      *)
ASSUME ListsAssumption ==
  \A i, j \in DOMAIN StakerLists :
    \A k \in DOMAIN StakerLists[i], l \in DOMAIN StakerLists[j] :
      StakerLists[i][k] = StakerLists[j][l] => i = j /\ k = l

VARIABLES
  todo,      \* calls the round has yet to make
  rounds,    \* rounds started so far
  paid       \* history: what the batches of this round have given

jobVars == <<todo, rounds, paid>>
allVars == <<vars, jobVars>>

Call == [c : Clubs, batch : Batches, first : BOOLEAN, final : BOOLEAN]

JobTypeOK ==
  /\ TypeOK
  /\ todo \in Seq(Call)
  /\ rounds \in 0..MaxRounds
  /\ paid \in Nat

JobInit ==
  /\ Init
  /\ todo = <<>>
  /\ rounds = 0
  /\ paid = 0

(* Call i of a round over n lists of the clubs in cs. *)
CallOfRound(i, n, cs) ==
  [c |-> cs[((i - 1) \div n) + 1], batch |-> StakerLists[((i - 1) % n) + 1],
   first |-> i = 1, final |-> i = n * Len(cs)]

Schedule(cs) ==
  [i \in 1..(Len(StakerLists) * Len(cs)) |-> CallOfRound(i, Len(StakerLists), cs)]

IncreasingOrder(S) ==
  CHOOSE cs \in [1..Cardinality(S) -> S] : \A i, j \in DOMAIN cs : i < j => cs[i] < cs[j]

(* The script announces the reward whether or not the round is due. *)
StartRound ==
  /\ todo = <<>>
  /\ rounds < MaxRounds
  /\ \E amount \in RewardAmounts : IncreaseRewardAmount(Admin, amount)
  /\ todo' = Schedule(IncreasingOrder(QueryAllClubs))
  /\ rounds' = rounds + 1
  /\ paid' = 0

PayNextBatch ==
  /\ todo # <<>>
  /\ LET call == Head(todo)
     IN  CalculateAndDistributeRewards(Admin, call.batch, call.c, call.first, call.final)
  /\ todo' = Tail(todo)
  /\ paid' = paid + (rewardGiven' - rewardGiven)
  /\ UNCHANGED rounds

(* A round that is not due yet: its first call is rejected and the script   *)
(* stops.  What it announced stays announced.                               *)
CallTooEarly ==
  /\ todo # <<>>
  /\ now < nextRewardTime
  /\ todo' = <<>>
  /\ UNCHANGED <<vars, rounds, paid>>

(* The script is killed between two calls, and a later run starts over. *)
JobCrash ==
  /\ todo # <<>>
  /\ todo' = <<>>
  /\ UNCHANGED <<vars, rounds, paid>>

WalletStep ==
  /\ \/ \E sender \in Accounts : OwnerCall(sender) \/ StakerCall(sender)
     \/ Environment
  /\ UNCHANGED jobVars

JobNext == StartRound \/ PayNextBatch \/ CallTooEarly \/ JobCrash \/ WalletStep

(* The script calls as soon as the previous call has returned. *)
JobSpec == JobInit /\ [][JobNext]_allVars /\ WF_allVars(PayNextBatch)

(* The rounds that no failed script cuts short. *)
UninterruptedNext == StartRound \/ PayNextBatch \/ CallTooEarly \/ WalletStep
UninterruptedSpec == JobInit /\ [][UninterruptedNext]_allVars

-----------------------------------------------------------------------------
(* Once a round is due no call of it is rejected, whatever the wallets did  *)
(* since the previous call and also when the round before it was cut short: *)
(* the job gets to its last call.                                           *)
RoundCloses == (todo # <<>> /\ now >= nextRewardTime) ~> todo = <<>>

(* No stake or bond is missing from the lists the administrator reads, and  *)
(* bonds never lose the stake entry the withdrawal insists on.              *)
BondsHaveStake ==
  /\ \A p \in Pairs : stake[p[1]][p[2]] # NoStake => p \in QueryAllStakes(Users)
  /\ \A p \in Pairs : \A i \in DOMAIN bonds[p[1]][p[2]] : <<p, i>> \in QueryAllBonds(Users)
  /\ \A b \in QueryAllBonds(Users) : b[1] \in QueryAllStakes(Users)

(* The pool never loses tokens nobody was credited with: what a round takes *)
(* out of it was given to stakers in that round.                            *)
PoolLosesOnlyWhatIsPaid == [][reward' < reward => reward - reward' <= paid']_allVars
=============================================================================
