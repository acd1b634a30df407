-------------------------------- MODULE Cw20 --------------------------------
(***************************************************************************)
(* The cw20-base token: balances, supply, allowances, and the restriction  *)
(* that keeps listed wallets from moving tokens before a point in time.    *)
(* terraswap_token passes every message on to it.                          *)
(*                                                                         *)
(* One action per handler.  Send and SendFrom also deliver a message to    *)
(* the receiving contract, which belongs to the composition that knows the *)
(* contract.  What a module that composes the token needs of it are the    *)
(* operators Moved, MayDeduct and Deducted.  Names, decimals and the       *)
(* attributes of a response are abstracted.                                *)
(***************************************************************************)
EXTENDS Sequences, Expirations

CONSTANTS
  Accounts,           \* wallets and contracts
  Minter,             \* mint.minter of TOKEN_INFO; not an account if there is none
  Cap, NoCap,         \* mint.cap
  InitialBalances,    \* lists of [address, amount] the token may start with
  NoAllowance,        \* no entry in ALLOWANCES
  NoTimestamp,        \* RESTRICTED_TIMESTAMP was not set
  Amounts,            \* amounts of the calls
  Expiries,           \* expirations of the calls
  Timestamps,         \* restriction times of the calls
  Lists,              \* sets of addresses of the list updates
  MaxAmount,          \* bound: supply, and what one owner grants one spender
  MaxHeight           \* bound: block height

CoinList == Seq([address : Accounts, amount : Nat])
Allowance == [amount : Nat, expires : Expiration]

ASSUME TokenAssumption ==
  /\ Cap = NoCap \/ Cap \in Nat
  /\ InitialBalances \subseteq CoinList
  /\ NoAllowance \notin Allowance
  /\ Amounts \subseteq Nat
  /\ Expiries \subseteq Expiration
  /\ NoTimestamp \notin Nat
  /\ Timestamps \subseteq Nat
  /\ Lists \subseteq SUBSET Accounts
  /\ MaxAmount \in Nat
  /\ MaxHeight \in Nat

VARIABLES
  block,              \* env.block
  balance,            \* BALANCES
  supply,             \* TOKEN_INFO.total_supply
  allowance,          \* ALLOWANCES, by owner and spender
  restrictedUntil,    \* RESTRICTED_TIMESTAMP
  restrictedWallets,  \* RESTRICTED_WALLET_LIST
  restrictedContracts, \* RESTRICTED_CONTRACT_LIST
  caller,             \* history: who made the last call
  granted,            \* history: what an owner allowed a spender, altogether
  spent               \* history: what the spender took of it

ledger == <<balance, supply>>
restriction == <<restrictedUntil, restrictedWallets, restrictedContracts>>
history == <<caller, granted, spent>>
tokenVars == <<block, ledger, allowance, restriction, history>>

TokenTypeOK ==
  /\ block \in Block
  /\ balance \in [Accounts -> Nat]
  /\ supply \in Nat
  /\ allowance \in [Accounts -> [Accounts -> Allowance \cup {NoAllowance}]]
  /\ restrictedUntil \in Nat \cup {NoTimestamp}
  /\ restrictedWallets \subseteq Accounts
  /\ restrictedContracts \subseteq Accounts
  /\ granted \in [Accounts -> [Accounts -> Nat]]
  /\ spent \in [Accounts -> [Accounts -> Nat]]

(* create_accounts: an address listed twice keeps its last amount, while    *)
(* both count for the supply.                                               *)
RowsOf(list, a) == {i \in DOMAIN list : list[i].address = a}
InitialBalance(list, a) ==
  IF RowsOf(list, a) = {} THEN 0
  ELSE list[CHOOSE i \in RowsOf(list, a) : \A j \in RowsOf(list, a) : i >= j].amount
InitialSupply(list) ==
  LET total[i \in 0..Len(list)] == IF i = 0 THEN 0 ELSE total[i-1] + list[i].amount
  IN total[Len(list)]

WithinCap(total) == Cap # NoCap => total <= Cap

TokenInit ==
  \E list \in InitialBalances :
    /\ WithinCap(InitialSupply(list))
    /\ block = [height |-> 1, time |-> 1]
    /\ balance = [a \in Accounts |-> InitialBalance(list, a)]
    /\ supply = InitialSupply(list)
    /\ allowance = [o \in Accounts |-> [s \in Accounts |-> NoAllowance]]
    /\ restrictedUntil = NoTimestamp
    /\ restrictedWallets = {}
    /\ restrictedContracts = {}
    /\ caller = Minter
    /\ granted = [o \in Accounts |-> [s \in Accounts |-> 0]]
    /\ spent = [o \in Accounts |-> [s \in Accounts |-> 0]]

-----------------------------------------------------------------------------
(* Restrictions: query_white_list_restrictions *)

(* Mutant: a listed contract or no contract, whichever, lifts it. *)
RestrictedForListed(wallet, contract, contractCheck) ==
  /\ restrictedUntil # NoTimestamp
  /\ block.time < restrictedUntil
  /\ wallet \in restrictedWallets
  /\ contractCheck /\ contract \notin restrictedContracts

Restricted(wallet, contract, contractCheck) ==
  /\ restrictedUntil # NoTimestamp
  /\ block.time < restrictedUntil
  /\ wallet \in restrictedWallets
  /\ ~ (contractCheck /\ contract \in restrictedContracts)

SetWhitelistExpirationTimestamp(sender, timestamp) ==
  /\ sender = Minter
  /\ restrictedUntil = NoTimestamp
  /\ block.time <= timestamp
  /\ restrictedUntil' = timestamp
  /\ UNCHANGED <<restrictedWallets, restrictedContracts>>

(* An address in both lists ends up not listed. *)
RestrictedWalletListUpdate(sender, add, remove) ==
  /\ sender = Minter
  /\ restrictedWallets' = (restrictedWallets \cup add) \ remove
  /\ UNCHANGED <<restrictedUntil, restrictedContracts>>

RestrictedContractListUpdate(sender, add, remove) ==
  /\ sender = Minter
  /\ restrictedContracts' = (restrictedContracts \cup add) \ remove
  /\ UNCHANGED <<restrictedUntil, restrictedWallets>>

-----------------------------------------------------------------------------
(* Balances *)

(* The recipient's balance is read after the sender's was stored.           *)
Moved(from, to, n) == [[balance EXCEPT ![from] = @ - n] EXCEPT ![to] = @ + n]

Transfer(sender, recipient, n) ==
  /\ n > 0
  /\ ~ Restricted(sender, recipient, FALSE)
  /\ n <= balance[sender]
  /\ balance' = Moved(sender, recipient, n)
  /\ UNCHANGED supply

Send(sender, contract, n) ==
  /\ n > 0
  /\ ~ Restricted(sender, contract, TRUE)
  /\ n <= balance[sender]
  /\ balance' = Moved(sender, contract, n)
  /\ UNCHANGED supply

(* Not subject to the restriction.                                          *)
Burn(sender, n) ==
  /\ n > 0
  /\ n <= balance[sender]
  /\ n <= supply
  /\ balance' = [balance EXCEPT ![sender] = @ - n]
  /\ supply' = supply - n

Mint(sender, recipient, n) ==
  /\ n > 0
  /\ sender = Minter
  /\ WithinCap(supply + n)
  /\ supply + n <= MaxAmount
  /\ balance' = [balance EXCEPT ![recipient] = @ + n]
  /\ supply' = supply + n

-----------------------------------------------------------------------------
(* Allowances *)

AllowanceOf(owner, spender) ==
  IF allowance[owner][spender] = NoAllowance THEN [amount |-> 0, expires |-> Never]
  ELSE allowance[owner][spender]

(* Without an expiration the present one stays, even if it is over.         *)
IncreaseAllowance(sender, spender, n, expires) ==
  /\ spender # sender
  /\ ~ Restricted(sender, spender, TRUE)
  /\ granted[sender][spender] + n <= MaxAmount
  /\ allowance' = [allowance EXCEPT ![sender][spender] =
                     [amount |-> AllowanceOf(sender, spender).amount + n, expires |-> expires]]
  /\ granted' = [granted EXCEPT ![sender][spender] = @ + n]

(* Mutant: what is taken back beyond the allowance wraps into a new one.    *)
LoweredNeverGone(sender, spender, n, expires) ==
  [amount |-> IF n < allowance[sender][spender].amount
              THEN allowance[sender][spender].amount - n ELSE n,
   expires |-> expires]

Lowered(sender, spender, n, expires) ==
  IF n < allowance[sender][spender].amount
  THEN [amount |-> allowance[sender][spender].amount - n, expires |-> expires]
  ELSE NoAllowance

DecreaseAllowance(sender, spender, n, expires) ==
  /\ spender # sender
  /\ allowance[sender][spender] # NoAllowance
  /\ allowance' = [allowance EXCEPT ![sender][spender] = Lowered(sender, spender, n, expires)]

(* deduct_allowance *)
MayDeduct(owner, spender, n) ==
  /\ allowance[owner][spender] # NoAllowance
  /\ ~ IsExpired(allowance[owner][spender].expires, block)
  /\ n <= allowance[owner][spender].amount

(* Mutant: an allowance used up is left as it was. *)
DeductedUnlessAll(owner, spender, n) ==
  [allowance EXCEPT ![owner][spender].amount = IF @ = n THEN @ ELSE @ - n]

Deducted(owner, spender, n) == [allowance EXCEPT ![owner][spender].amount = @ - n]

Spend(owner, spender, n) ==
  /\ MayDeduct(owner, spender, n)
  /\ allowance' = Deducted(owner, spender, n)
  /\ spent' = [spent EXCEPT ![owner][spender] = @ + n]
  /\ UNCHANGED granted

(* transfer_from and send_from change the token alike; an amount of 0 passes. *)
TransferFrom(sender, owner, recipient, n) ==
  /\ Spend(owner, sender, n)
  /\ n <= balance[owner]
  /\ balance' = Moved(owner, recipient, n)
  /\ UNCHANGED supply

SendFrom(sender, owner, contract, n) == TransferFrom(sender, owner, contract, n)

BurnFrom(sender, owner, n) ==
  /\ Spend(owner, sender, n)
  /\ n <= balance[owner]
  /\ n <= supply
  /\ balance' = [balance EXCEPT ![owner] = @ - n]
  /\ supply' = supply - n

-----------------------------------------------------------------------------
HolderCall(sender) ==
  /\ \E a \in Accounts, n \in Amounts :
       \/ Transfer(sender, a, n)
       \/ Send(sender, a, n)
       \/ Burn(sender, n)
       \/ Mint(sender, a, n)
  /\ UNCHANGED <<allowance, restriction, granted, spent>>

OwnerCall(sender) ==
  /\ \E spender \in Accounts, n \in Amounts :
       \E expires \in Expiries \cup {AllowanceOf(sender, spender).expires} :
         \/ IncreaseAllowance(sender, spender, n, expires)
         \/ DecreaseAllowance(sender, spender, n, expires) /\ UNCHANGED granted
  /\ UNCHANGED <<ledger, restriction, spent>>

SpenderCall(sender) ==
  /\ \E owner \in Accounts, n \in Amounts :
       \/ \E a \in Accounts : TransferFrom(sender, owner, a, n) \/ SendFrom(sender, owner, a, n)
       \/ BurnFrom(sender, owner, n)
  /\ UNCHANGED restriction

MinterCall(sender) ==
  /\ \/ \E timestamp \in Timestamps : SetWhitelistExpirationTimestamp(sender, timestamp)
     \/ \E add \in Lists, remove \in Lists :
          \/ RestrictedWalletListUpdate(sender, add, remove)
          \/ RestrictedContractListUpdate(sender, add, remove)
  /\ UNCHANGED <<ledger, allowance, granted, spent>>

TokenCall(sender) ==
  /\ HolderCall(sender) \/ OwnerCall(sender) \/ SpenderCall(sender) \/ MinterCall(sender)
  /\ caller' = sender
  /\ UNCHANGED block

NextBlock ==
  /\ block.height < MaxHeight
  /\ block' = [height |-> block.height + 1, time |-> block.time + 1]
  /\ UNCHANGED <<ledger, allowance, restriction, history>>

TokenNext == NextBlock \/ \E sender \in Accounts : TokenCall(sender)

TokenSpec == TokenInit /\ [][TokenNext]_tokenVars

-----------------------------------------------------------------------------
(* Properties *)

(* The handlers together keep the promise of TokenLedger: every token an    *)
(* account loses went to another account or left the supply, was moved by   *)
(* its owner or by a spender who, over all calls, took no more than the     *)
(* owner granted.                                                           *)
Promise == INSTANCE TokenLedger
  WITH Holders <- Accounts, Quantities <- Amounts, Issuer <- Minter,
       actor <- caller, held <- balance, issued <- supply

KeepsLedger == [][Promise!LedgerNext]_(Promise!ledgerVars)

(* The spender of an allowance, present or expired, has at least that much  *)
(* left of what it was granted.                                             *)
AllowancesAreGranted ==
  \A o \in Accounts, s \in Accounts :
    spent[o][s] + AllowanceOf(o, s).amount <= granted[o][s]

(* "Wallets that need to be restricted in token movement" (state.rs:38):    *)
(* while a wallet is restricted it can have fewer tokens after a call only  *)
(* because it burned them, because they went to a listed contract, or       *)
(* because an allowance it gave was used, and the only allowances that      *)
(* grow are those of listed contracts.                                      *)
Uses(o) == \E s \in Accounts : spent'[o][s] > spent[o][s]
RestrictedTokensStay ==
  [][\A w \in restrictedWallets :
       restrictedUntil # NoTimestamp /\ block.time < restrictedUntil =>
         /\ balance'[w] < balance[w] =>
              \/ supply' < supply
              \/ \E c \in restrictedContracts : balance'[c] > balance[c]
              \/ Uses(w)
         /\ \A s \in Accounts \ restrictedContracts : granted'[w][s] = granted[w][s]]_tokenVars
=============================================================================
