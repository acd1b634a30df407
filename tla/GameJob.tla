------------------------------- MODULE GameJob -------------------------------
(***************************************************************************)
(* The load test of the gaming pool, run_test_1, composed with the         *)
(* contract: a script that opens a game with one pool, enters a team per   *)
(* wallet, locks the game, swaps what the wallets paid, announces the      *)
(* rewards and claims them.  Other gamers bid and claim in between.        *)
(***************************************************************************)
EXTENDS GamingPool

CONSTANTS
  WalletLists,   \* the lists of wallets the script may be run with
  PoolType, Details, TeamId,   \* "H2H" with its parameters, "Team001"
  Award,         \* the reward of every wallet
  Reserve,       \* what the script keeps back from the swap
  SingleBatch,   \* up to this many wallets go into one batch
  ChunkSize      \* wallets in a batch otherwise

ASSUME JobAssumption ==
  /\ WalletLists \subseteq Seq(Gamers)
  /\ \A ws \in WalletLists : Len(ws) > 0
  /\ {Award, Reserve, SingleBatch} \subseteq Nat
  /\ ChunkSize \in 1..SingleBatch
  /\ PoolType \in PoolTypes /\ Details \in TypeInputs /\ TeamId \in TeamIds

VARIABLES
  wallets,   \* the wallets of this run of the script
  pc,        \* the call the script is at
  done       \* wallets that went through the loop of this call

jobVars == <<wallets, pc, done>>
allVars == <<vars, jobVars>>

JobTypeOK ==
  /\ TypeOK
  /\ wallets \in WalletLists
  /\ pc \in {"type", "pool", "bid", "lock", "swap", "award", "claim", "end"}
  /\ done \in 0 .. Len(wallets) - 1

JobInit == Init /\ wallets \in WalletLists /\ pc = "type" /\ done = 0

Then(next) == pc' = next /\ UNCHANGED <<wallets, done>>

(* One turn of a loop over the wallets. *)
NextWallet(next) ==
  /\ done' = (done + 1) % Len(wallets)
  /\ pc' = IF done + 1 = Len(wallets) THEN next ELSE pc
  /\ UNCHANGED wallets

Setup ==
  \/ pc = "type" /\ SetPoolTypeParams(Admin, PoolType, Details) /\ Then("pool")
  \/ pc = "pool" /\ CreatePool(Admin, PoolType) /\ Then("bid")

PerformBids ==
  /\ pc = "bid"
  /\ LET w == wallets[done + 1] IN GamePoolBidSubmit(w, w, PoolType, 1, TeamId)
  /\ NextWallet("lock")

LockAndSwap ==
  \/ pc = "lock" /\ LockGame(Admin) /\ Then("swap")
  \/ /\ pc = "swap"
     /\ \E gain \in Gains : Swap(Admin, 1, Details.fee * Len(wallets) - Reserve, gain)
     /\ Then("award")

Results(ws) == [i \in DOMAIN ws |-> [gamer |-> ws[i], team |-> TeamId, reward |-> Award]]

(* The batches are a generator: asking it for its last batch, to tell       *)
(* whether this one is the last, uses it up, and the loop ends.             *)
FirstBatch ==
  IF Len(wallets) > SingleBatch THEN SubSeq(wallets, 1, ChunkSize) ELSE wallets

Sent == {FirstBatch[i] : i \in DOMAIN FirstBatch}

DistributeRewards ==
  /\ pc = "award"
  /\ \E rake \in QuerySwapDataForPool(1) :
       GamePoolRewardDistribute(Admin, 1, Results(FirstBatch), FirstBatch = wallets, rake)
  /\ Then("claim")

ClaimRewards ==
  /\ pc = "claim"
  /\ LET w == wallets[done + 1] IN ClaimReward(w, w)
  /\ NextWallet("end")

ScriptStep == Setup \/ PerformBids \/ LockAndSwap \/ DistributeRewards \/ ClaimRewards

(* The gamers no run of the script has as a wallet. *)
Others == {g \in Gamers : \A ws \in WalletLists : \A i \in DOMAIN ws : ws[i] # g}

OtherGamers == (\E sender \in Others : GamerCall(sender)) /\ UNCHANGED jobVars

JobNext == ScriptStep \/ OtherGamers

(* The script makes its next call when the previous one has returned. *)
JobSpec == JobInit /\ [][JobNext]_allVars /\ WF_allVars(ScriptStep)

-----------------------------------------------------------------------------

(* When the script claims, whatever the other gamers did since, the wallets *)
(* of the batch it sent have their award, and the others have none.         *)
FirstBatchIsAwarded ==
  pc = "claim" =>
    \A i \in DOMAIN wallets :
      teams[1][wallets[i]][1].reward = IF wallets[i] \in Sent THEN Award ELSE 0
=============================================================================
