------------------------------ MODULE Cw20Proofs ------------------------------
(***************************************************************************)
(* What holds of the token for any accounts, amounts, lists and times.     *)
(***************************************************************************)
EXTENDS Cw20, InductionLemmas

TokenInv == TokenTypeOK /\ AllowancesAreGranted

-----------------------------------------------------------------------------
(* Types *)

LEMMA ListType ==
  ASSUME NEW list \in CoinList
  PROVE  /\ Len(list) \in Nat /\ DOMAIN list = 1..Len(list)
         /\ \A i \in 1..Len(list) : list[i].amount \in Nat
<1> DEFINE Row == [address : Accounts, amount : Nat]
<1>1. list \in Seq(Row)
  BY DEF CoinList
<1>2. \A r \in Row : r.amount \in Nat
  OBVIOUS
<1> HIDE DEF Row
<1> QED BY <1>1, <1>2

LEMMA InitialBalanceType ==
  ASSUME NEW list \in CoinList, NEW a \in Accounts
  PROVE  InitialBalance(list, a) \in Nat
<1> DEFINE R == RowsOf(list, a)
<1>2. /\ Len(list) \in Nat /\ DOMAIN list = 1..Len(list)
      /\ \A i \in DOMAIN list : list[i].amount \in Nat
  BY ListType
<1>3. R \in SUBSET (1..Len(list))
  BY <1>2 DEF RowsOf
<1>4. CASE R # {}
  <2>1. PICK i \in R : \A j \in R : i >= j
    <3> HIDE DEF R
    <3> QED BY <1>2, <1>3, <1>4, MaximumExists
  <2>2. (CHOOSE i2 \in R : \A j \in R : i2 >= j) \in R
    BY <2>1
  <2> QED BY <1>2, <1>3, <1>4, <2>2 DEF InitialBalance
<1>5. CASE R = {}
  BY <1>5 DEF InitialBalance
<1> QED BY <1>4, <1>5

LEMMA InitialSupplyType ==
  ASSUME NEW list \in CoinList
  PROVE  InitialSupply(list) \in Nat
<1> DEFINE N == Len(list)
           total == CHOOSE f : f = [i \in 0..N |->
                      IF i = 0 THEN 0 ELSE f[i-1] + list[i].amount]
           step == [i \in 1..N |-> [n \in Nat |-> n + list[i].amount]]
<1>1. N \in Nat /\ \A i \in 1..N : list[i].amount \in Nat
  BY ListType
<1>2. step \in [1..N -> [Nat -> Nat]]
  BY <1>1
<1>3. InitialSupply(list) = total[N]
  BY DEF InitialSupply
<1> HIDE DEF N
<1>4. PICK f : IsLoop(f, N, Nat, 0, step)
  <2> HIDE DEF step
  <2> QED BY <1>1, <1>2, LoopExists
<1>5. f = [i \in 0..N |-> IF i = 0 THEN 0 ELSE f[i-1] + list[i].amount]
  <2>1. ASSUME NEW i \in 1..N PROVE f[i] = f[i-1] + list[i].amount
    <3>1. i - 1 \in 0..N
      BY <1>1
    <3>2. f[i-1] \in Nat
      BY <1>4, <3>1 DEF IsLoop
    <3> QED BY <1>4, <3>2 DEF IsLoop
  <2> HIDE DEF step
  <2> QED BY <1>4, <2>1 DEF IsLoop
<1>6. total = [i \in 0..N |-> IF i = 0 THEN 0 ELSE total[i-1] + list[i].amount]
  BY <1>5
<1> HIDE DEF total
<1> DEFINE P == {i \in 0..N : total[i] \in Nat}
<1>7. 0 \in P
  BY <1>1, <1>6
<1>8. \A i \in 1..N : i - 1 \in P => i \in P
  BY <1>1, <1>6
<1>9. N \in P
  <2> HIDE DEF P
  <2>1. 0..N \subseteq P
    BY <1>1, <1>7, <1>8, UpTo
  <2> QED BY <1>1, <2>1
<1> QED BY <1>3, <1>9

LEMMA InitInv == TokenInit => TokenInv
<1> SUFFICES ASSUME TokenInit PROVE TokenInv
  OBVIOUS
<1>1. PICK list \in InitialBalances :
        /\ balance = [a \in Accounts |-> InitialBalance(list, a)]
        /\ supply = InitialSupply(list)
  BY DEF TokenInit
<1>2. list \in CoinList
  BY TokenAssumption DEF TokenAssumption
<1>3. balance \in [Accounts -> Nat] /\ supply \in Nat
  BY <1>1, <1>2, InitialBalanceType, InitialSupplyType
<1>4. /\ block \in Block
      /\ allowance \in [Accounts -> [Accounts -> Allowance \cup {NoAllowance}]]
      /\ restrictedUntil \in Nat \cup {NoTimestamp}
      /\ restrictedWallets \subseteq Accounts
      /\ restrictedContracts \subseteq Accounts
      /\ granted \in [Accounts -> [Accounts -> Nat]]
      /\ spent \in [Accounts -> [Accounts -> Nat]]
  BY DEF TokenInit, Block
<1>5. \A o \in Accounts, s \in Accounts :
        spent[o][s] = 0 /\ granted[o][s] = 0 /\ AllowanceOf(o, s).amount = 0
  BY DEF TokenInit, AllowanceOf
<1>6. AllowancesAreGranted
  BY <1>5 DEF AllowancesAreGranted
<1> QED BY <1>3, <1>4, <1>6 DEF TokenInv, TokenTypeOK

LEMMA AllowanceOfType ==
  ASSUME TokenTypeOK, NEW o \in Accounts, NEW s \in Accounts
  PROVE  AllowanceOf(o, s) \in Allowance
<1>1. allowance[o][s] \in Allowance \cup {NoAllowance}
  BY DEF TokenTypeOK
<1> QED BY <1>1 DEF AllowanceOf, Allowance, Never, Expiration

LEMMA MovedType ==
  ASSUME TokenTypeOK, NEW from \in Accounts, NEW to \in Accounts, NEW n \in Nat,
         n <= balance[from]
  PROVE  Moved(from, to, n) \in [Accounts -> Nat]
BY DEF TokenTypeOK, Moved

(* A call on behalf of the holder changes balances and the supply.          *)
LEMMA HolderCallInv ==
  ASSUME TokenInv, NEW sender \in Accounts, HolderCall(sender), UNCHANGED block
  PROVE  TokenInv'
<1>1. PICK a \in Accounts, n \in Amounts :
        \/ Transfer(sender, a, n)
        \/ Send(sender, a, n)
        \/ Burn(sender, n)
        \/ Mint(sender, a, n)
  BY DEF HolderCall
<1>2. n \in Nat /\ TokenTypeOK
  BY TokenAssumption DEF TokenAssumption, TokenInv
<1>3. balance' \in [Accounts -> Nat] /\ supply' \in Nat
  <2>1. CASE Transfer(sender, a, n) \/ Send(sender, a, n)
    <3>1. /\ n <= balance[sender] /\ balance' = Moved(sender, a, n)
          /\ supply' = supply
      BY <2>1 DEF Transfer, Send
    <3>2. supply \in Nat
      BY <1>2 DEF TokenTypeOK
    <3> QED BY <1>2, <3>1, <3>2, MovedType
  <2>2. CASE Burn(sender, n)
    <3>1. balance \in [Accounts -> Nat] /\ supply \in Nat /\ n <= balance[sender] /\ n <= supply
      BY <1>2, <2>2 DEF Burn, TokenTypeOK
    <3>2. balance' = [balance EXCEPT ![sender] = @ - n] /\ supply' = supply - n
      BY <2>2 DEF Burn
    <3> QED BY <1>2, <3>1, <3>2
  <2>3. CASE Mint(sender, a, n)
    <3>1. balance \in [Accounts -> Nat] /\ supply \in Nat
      BY <1>2 DEF TokenTypeOK
    <3>2. balance' = [balance EXCEPT ![a] = @ + n] /\ supply' = supply + n
      BY <2>3 DEF Mint
    <3> QED BY <1>2, <3>1, <3>2
  <2> QED BY <1>1, <2>1, <2>2, <2>3
<1>4. UNCHANGED <<allowance, restriction, granted, spent>>
  BY DEF HolderCall
<1> QED BY <1>3, <1>4 DEF TokenInv, TokenTypeOK, AllowancesAreGranted, AllowanceOf, restriction

LEMMA OwnerCallInv ==
  ASSUME TokenInv, NEW sender \in Accounts, OwnerCall(sender), UNCHANGED block
  PROVE  TokenInv'
<1>1. PICK spender \in Accounts, n \in Amounts :
        \E expires \in Expiries \cup {AllowanceOf(sender, spender).expires} :
          \/ IncreaseAllowance(sender, spender, n, expires)
          \/ DecreaseAllowance(sender, spender, n, expires) /\ UNCHANGED granted
  BY DEF OwnerCall
<1>2. PICK expires \in Expiries \cup {AllowanceOf(sender, spender).expires} :
        \/ IncreaseAllowance(sender, spender, n, expires)
        \/ DecreaseAllowance(sender, spender, n, expires) /\ UNCHANGED granted
  BY <1>1
<1>3. n \in Nat /\ TokenTypeOK /\ AllowancesAreGranted
  BY TokenAssumption DEF TokenAssumption, TokenInv
<1>4. AllowanceOf(sender, spender) \in Allowance
  BY <1>3, AllowanceOfType
<1>5. expires \in Expiration
  BY <1>4, TokenAssumption DEF TokenAssumption, Allowance
<1>6. UNCHANGED <<ledger, restriction, spent>>
  BY DEF OwnerCall
<1>7. NoAllowance \notin Allowance
  BY TokenAssumption DEF TokenAssumption
<1>8. spent[sender][spender] \in Nat /\ granted[sender][spender] \in Nat
  BY <1>3 DEF TokenTypeOK
<1>9. spent[sender][spender] + AllowanceOf(sender, spender).amount <= granted[sender][spender]
  BY <1>3 DEF AllowancesAreGranted
<1> DEFINE New == allowance'[sender][spender]
<1>10. /\ allowance' \in [Accounts -> [Accounts -> Allowance \cup {NoAllowance}]]
       /\ granted' \in [Accounts -> [Accounts -> Nat]]
       /\ \A o \in Accounts, s \in Accounts :
            o # sender \/ s # spender =>
              allowance'[o][s] = allowance[o][s] /\ granted'[o][s] = granted[o][s]
       /\ New # NoAllowance => spent[sender][spender] + New.amount <= granted'[sender][spender]
       /\ spent[sender][spender] <= granted'[sender][spender]
  <2>1. CASE IncreaseAllowance(sender, spender, n, expires)
    <3> DEFINE e == [amount |-> AllowanceOf(sender, spender).amount + n, expires |-> expires]
    <3>1. e \in Allowance /\ e.amount = AllowanceOf(sender, spender).amount + n
      BY <1>3, <1>4, <1>5 DEF Allowance
    <3>2. allowance' = [allowance EXCEPT ![sender][spender] = e]
          /\ granted' = [granted EXCEPT ![sender][spender] = @ + n]
      BY <2>1 DEF IncreaseAllowance
    <3> HIDE DEF e
    <3>3. AllowanceOf(sender, spender).amount \in Nat
      BY <1>4 DEF Allowance
    <3>4. New = e /\ granted'[sender][spender] = granted[sender][spender] + n
      BY <1>3, <3>2 DEF TokenTypeOK
    <3>5. /\ allowance' \in [Accounts -> [Accounts -> Allowance \cup {NoAllowance}]]
          /\ granted' \in [Accounts -> [Accounts -> Nat]]
      BY <1>3, <3>1, <3>2 DEF TokenTypeOK
    <3>6. \A o \in Accounts, s \in Accounts :
            o # sender \/ s # spender =>
              allowance'[o][s] = allowance[o][s] /\ granted'[o][s] = granted[o][s]
      BY <1>3, <3>2 DEF TokenTypeOK
    <3> HIDE DEF New
    <3> QED BY <1>3, <1>8, <1>9, <3>1, <3>3, <3>4, <3>5, <3>6
  <2>2. CASE DecreaseAllowance(sender, spender, n, expires) /\ UNCHANGED granted
    <3> DEFINE e == Lowered(sender, spender, n, expires)
    <3>1. allowance[sender][spender] \in Allowance
          /\ AllowanceOf(sender, spender) = allowance[sender][spender]
      BY <1>3, <2>2 DEF DecreaseAllowance, TokenTypeOK, AllowanceOf
    <3>2. allowance[sender][spender].amount \in Nat
      BY <3>1 DEF Allowance
    <3>3. e \in Allowance \cup {NoAllowance}
      BY <1>3, <1>5, <3>2 DEF Lowered, Allowance
    <3>4. e # NoAllowance => e.amount <= allowance[sender][spender].amount /\ e.amount \in Nat
      BY <1>3, <3>2 DEF Lowered
    <3>5. allowance' = [allowance EXCEPT ![sender][spender] = e] /\ granted' = granted
      BY <2>2 DEF DecreaseAllowance
    <3> HIDE DEF e
    <3>6. New = e
      BY <1>3, <3>5 DEF TokenTypeOK
    <3>7. /\ allowance' \in [Accounts -> [Accounts -> Allowance \cup {NoAllowance}]]
          /\ granted' \in [Accounts -> [Accounts -> Nat]]
      BY <1>3, <3>3, <3>5 DEF TokenTypeOK
    <3>8. \A o \in Accounts, s \in Accounts :
            o # sender \/ s # spender => allowance'[o][s] = allowance[o][s]
      BY <1>3, <3>5 DEF TokenTypeOK
    <3> HIDE DEF New
    <3> QED BY <1>8, <1>9, <3>1, <3>2, <3>4, <3>5, <3>6, <3>7, <3>8
  <2> QED BY <1>2, <2>1, <2>2
<1>11. TokenTypeOK'
  BY <1>3, <1>6, <1>10 DEF TokenTypeOK, ledger, restriction
<1>12. AllowancesAreGranted'
  <2>1. ASSUME NEW o \in Accounts, NEW s \in Accounts
        PROVE  spent'[o][s] + AllowanceOf(o, s)'.amount <= granted'[o][s]
    <3>1. spent' = spent /\ spent[o][s] \in Nat
      BY <1>3, <1>6 DEF TokenTypeOK
    <3>2. CASE o = sender /\ s = spender
      BY <1>10, <3>1, <3>2 DEF AllowanceOf
    <3>3. CASE o # sender \/ s # spender
      <4>1. spent[o][s] + AllowanceOf(o, s).amount <= granted[o][s]
        BY <1>3 DEF AllowancesAreGranted
      <4> QED BY <1>10, <3>1, <3>3, <4>1 DEF AllowanceOf
    <3> QED BY <3>2, <3>3
  <2> QED BY <2>1 DEF AllowancesAreGranted
<1> QED BY <1>11, <1>12 DEF TokenInv

(* A spender leaves what remains of its allowance, and changes no other.    *)
LEMMA SpendInv ==
  ASSUME TokenInv, NEW owner \in Accounts, NEW spender \in Accounts, NEW n \in Nat,
         Spend(owner, spender, n)
  PROVE  /\ allowance' \in [Accounts -> [Accounts -> Allowance \cup {NoAllowance}]]
         /\ spent' \in [Accounts -> [Accounts -> Nat]]
         /\ granted' = granted
         /\ spent[owner][spender] + n <= granted[owner][spender]
         /\ AllowancesAreGranted'
<1> DEFINE a == allowance[owner][spender]
           e == [a EXCEPT !.amount = @ - n]
<1>1. /\ allowance \in [Accounts -> [Accounts -> Allowance \cup {NoAllowance}]]
      /\ spent \in [Accounts -> [Accounts -> Nat]]
      /\ granted \in [Accounts -> [Accounts -> Nat]]
      /\ AllowancesAreGranted
  BY DEF TokenInv, TokenTypeOK
<1>2. a \in Allowance /\ n <= a.amount
  BY <1>1 DEF Spend, MayDeduct
<1>3. NoAllowance \notin Allowance
  BY TokenAssumption DEF TokenAssumption
<1>4. a.amount \in Nat /\ e \in Allowance /\ e.amount = a.amount - n
  BY <1>2 DEF Allowance
<1>5. spent[owner][spender] + a.amount <= granted[owner][spender]
  BY <1>1, <1>2, <1>3 DEF AllowancesAreGranted, AllowanceOf
<1>6. /\ allowance' = [allowance EXCEPT ![owner][spender] = e]
      /\ spent' = [spent EXCEPT ![owner][spender] = @ + n]
      /\ granted' = granted
  BY <1>1 DEF Spend, Deducted
<1>7. spent[owner][spender] \in Nat /\ granted[owner][spender] \in Nat
  BY <1>1
<1> HIDE DEF e
<1>8. /\ allowance' \in [Accounts -> [Accounts -> Allowance \cup {NoAllowance}]]
      /\ spent' \in [Accounts -> [Accounts -> Nat]]
  BY <1>1, <1>4, <1>6
<1>9. /\ allowance'[owner][spender] = e
      /\ spent'[owner][spender] = spent[owner][spender] + n
      /\ \A o \in Accounts, s \in Accounts :
           o # owner \/ s # spender =>
             allowance'[o][s] = allowance[o][s] /\ spent'[o][s] = spent[o][s]
  BY <1>1, <1>6
<1> HIDE DEF a
<1>10. ASSUME NEW o \in Accounts, NEW s \in Accounts
       PROVE  spent'[o][s] + AllowanceOf(o, s)'.amount <= granted[o][s]
  <2>1. CASE o = owner /\ s = spender
    <3>1. AllowanceOf(o, s)' = e
      BY <1>3, <1>4, <1>9, <2>1 DEF AllowanceOf
    <3> QED BY <1>4, <1>5, <1>7, <1>9, <2>1, <3>1
  <2>2. CASE o # owner \/ s # spender
    <3>1. AllowanceOf(o, s)' = AllowanceOf(o, s) /\ spent'[o][s] = spent[o][s]
      BY <1>9, <2>2 DEF AllowanceOf
    <3> QED BY <1>1, <3>1 DEF AllowancesAreGranted
  <2> QED BY <2>1, <2>2
<1>11. AllowancesAreGranted'
  BY <1>6, <1>10 DEF AllowancesAreGranted
<1> QED BY <1>2, <1>4, <1>5, <1>6, <1>7, <1>8, <1>11

LEMMA SpenderCallInv ==
  ASSUME TokenInv, NEW sender \in Accounts, SpenderCall(sender), UNCHANGED block
  PROVE  TokenInv'
<1>1. PICK owner \in Accounts, n \in Amounts :
        \/ \E a \in Accounts : TransferFrom(sender, owner, a, n)
        \/ BurnFrom(sender, owner, n)
  BY DEF SpenderCall, SendFrom
<1>2. n \in Nat /\ TokenTypeOK
  BY TokenAssumption DEF TokenAssumption, TokenInv
<1>3. Spend(owner, sender, n)
  BY <1>1 DEF TransferFrom, BurnFrom
<1>4. balance' \in [Accounts -> Nat] /\ supply' \in Nat
  <2>1. ASSUME NEW a \in Accounts, TransferFrom(sender, owner, a, n)
        PROVE  balance' \in [Accounts -> Nat] /\ supply' \in Nat
    <3>1. n <= balance[owner] /\ balance' = Moved(owner, a, n) /\ supply' = supply
      BY <2>1 DEF TransferFrom
    <3>2. supply \in Nat
      BY <1>2 DEF TokenTypeOK
    <3> QED BY <1>2, <3>1, <3>2, MovedType
  <2>2. CASE BurnFrom(sender, owner, n)
    <3>1. balance \in [Accounts -> Nat] /\ supply \in Nat /\ n <= balance[owner] /\ n <= supply
      BY <1>2, <2>2 DEF BurnFrom, TokenTypeOK
    <3>2. balance' = [balance EXCEPT ![owner] = @ - n] /\ supply' = supply - n
      BY <2>2 DEF BurnFrom
    <3> QED BY <1>2, <3>1, <3>2
  <2> QED BY <1>1, <2>1, <2>2
<1>5. UNCHANGED <<block, restriction>>
  BY DEF SpenderCall
<1>6. TokenTypeOK'
  BY <1>2, <1>3, <1>4, <1>5, SpendInv DEF TokenTypeOK, restriction
<1> QED BY <1>2, <1>3, <1>6, SpendInv DEF TokenInv

LEMMA MinterCallInv ==
  ASSUME TokenInv, NEW sender \in Accounts, MinterCall(sender), UNCHANGED block
  PROVE  TokenInv'
<1>1. Timestamps \subseteq Nat /\ Lists \subseteq SUBSET Accounts
  BY TokenAssumption DEF TokenAssumption
<1>2. UNCHANGED <<block, balance, supply, allowance, granted, spent>>
  BY DEF MinterCall, ledger
<1>3. AllowancesAreGranted'
  BY <1>2 DEF TokenInv, AllowancesAreGranted, AllowanceOf
<1>4. /\ restrictedUntil' \in Nat \cup {NoTimestamp}
      /\ restrictedWallets' \subseteq Accounts
      /\ restrictedContracts' \subseteq Accounts
  BY <1>1 DEF TokenInv, TokenTypeOK, MinterCall, SetWhitelistExpirationTimestamp,
              RestrictedWalletListUpdate, RestrictedContractListUpdate
<1> QED BY <1>2, <1>3, <1>4 DEF TokenInv, TokenTypeOK

LEMMA NextBlockInv == TokenInv /\ NextBlock => TokenInv'
<1> SUFFICES ASSUME TokenInv, NextBlock PROVE TokenInv'
  OBVIOUS
<1>1. block' \in Block
  BY DEF TokenInv, TokenTypeOK, NextBlock, Block
<1> QED BY <1>1 DEF TokenInv, TokenTypeOK, NextBlock, AllowancesAreGranted, AllowanceOf,
                    ledger, restriction, history

LEMMA NextInv ==
  ASSUME TokenInv, [TokenNext]_tokenVars
  PROVE  TokenInv'
<1>1. CASE NextBlock
  BY <1>1, NextBlockInv
<1>2. ASSUME NEW sender \in Accounts, TokenCall(sender) PROVE TokenInv'
  BY <1>2, HolderCallInv, OwnerCallInv, SpenderCallInv, MinterCallInv DEF TokenCall
<1>3. CASE UNCHANGED tokenVars
  BY <1>3 DEF tokenVars, TokenInv, TokenTypeOK, AllowancesAreGranted, AllowanceOf,
              ledger, restriction, history
<1> QED BY <1>1, <1>2, <1>3 DEF TokenNext

-----------------------------------------------------------------------------
(* Theorems *)

LEMMA Invariance == TokenSpec => []TokenInv
<1>1. TokenInit => TokenInv
  BY InitInv
<1>2. TokenInv /\ [TokenNext]_tokenVars => TokenInv'
  BY NextInv
<1> QED BY <1>1, <1>2, PTL DEF TokenSpec

(* Balances, the supply and the allowances are amounts after any calls: no  *)
(* transfer, burn or deduction goes below zero.                             *)
THEOREM TypeCorrect == TokenSpec => []TokenTypeOK
<1>1. TokenInv => TokenTypeOK
  BY DEF TokenInv
<1> QED BY <1>1, Invariance, PTL

(* No sequence of increases, decreases and uses of an allowance leaves a    *)
(* spender more than the owner granted it and it has not spent.             *)
THEOREM NoMoreThanGranted == TokenSpec => []AllowancesAreGranted
<1>1. TokenInv => AllowancesAreGranted
  BY DEF TokenInv
<1> QED BY <1>1, Invariance, PTL

-----------------------------------------------------------------------------
(* The promise of TokenLedger *)

LEMMA HolderKeepsLedger ==
  ASSUME NEW sender \in Accounts, HolderCall(sender), caller' = sender
  PROVE  Promise!LedgerNext
<1>1. PICK a \in Accounts, n \in Amounts :
        \/ Transfer(sender, a, n)
        \/ Send(sender, a, n)
        \/ Burn(sender, n)
        \/ Mint(sender, a, n)
  BY DEF HolderCall
<1>2. UNCHANGED <<granted, spent>>
  BY DEF HolderCall
<1>3. Promise!Entitled(sender, n)
  BY <1>2 DEF Promise!Entitled
<1>4. CASE Transfer(sender, a, n) \/ Send(sender, a, n)
  <2>1. Promise!Move(sender, a, n)
    BY <1>3, <1>4 DEF Promise!Move, Transfer, Send, Moved
  <2> QED BY <2>1 DEF Promise!LedgerNext
<1>5. CASE Burn(sender, n)
  <2>1. Promise!Destroy(sender, n)
    BY <1>3, <1>5 DEF Promise!Destroy, Burn
  <2> QED BY <2>1 DEF Promise!LedgerNext
<1>6. CASE Mint(sender, a, n)
  <2>1. Promise!Issue(a, n)
    BY <1>2, <1>6 DEF Promise!Issue, Mint, WithinCap
  <2> QED BY <2>1 DEF Promise!LedgerNext
<1> QED BY <1>1, <1>4, <1>5, <1>6

LEMMA OwnerKeepsLedger ==
  ASSUME NEW sender \in Accounts, OwnerCall(sender), caller' = sender
  PROVE  Promise!LedgerNext
<1>1. PICK spender \in Accounts, n \in Amounts :
        \E expires \in Expiries \cup {AllowanceOf(sender, spender).expires} :
          \/ IncreaseAllowance(sender, spender, n, expires)
          \/ DecreaseAllowance(sender, spender, n, expires) /\ UNCHANGED granted
  BY DEF OwnerCall
<1>2. UNCHANGED <<balance, supply, spent>>
  BY DEF OwnerCall, ledger
<1>3. CASE granted' = [granted EXCEPT ![sender][spender] = @ + n]
  <2>1. Promise!Grant(sender, spender, n)
    BY <1>2, <1>3 DEF Promise!Grant
  <2> QED BY <2>1 DEF Promise!LedgerNext
<1>4. CASE UNCHANGED granted
  BY <1>2, <1>4 DEF Promise!LedgerNext, Promise!Other
<1> QED BY <1>1, <1>3, <1>4 DEF IncreaseAllowance

LEMMA SpenderKeepsLedger ==
  ASSUME TokenInv, NEW sender \in Accounts, SpenderCall(sender), caller' = sender
  PROVE  Promise!LedgerNext
<1>1. PICK owner \in Accounts, n \in Amounts :
        \/ \E a \in Accounts : TransferFrom(sender, owner, a, n)
        \/ BurnFrom(sender, owner, n)
  BY DEF SpenderCall, SendFrom
<1>2. n \in Nat
  BY TokenAssumption DEF TokenAssumption
<1>3. Spend(owner, sender, n)
  BY <1>1 DEF TransferFrom, BurnFrom
<1>4. spent[owner][sender] + n <= granted[owner][sender]
  BY <1>2, <1>3, SpendInv
<1>5. Promise!Entitled(owner, n)
  BY <1>3, <1>4 DEF Promise!Entitled, Spend
<1>6. ASSUME NEW a \in Accounts, TransferFrom(sender, owner, a, n)
      PROVE  Promise!LedgerNext
  <2>1. Promise!Move(owner, a, n)
    BY <1>5, <1>6 DEF Promise!Move, TransferFrom, Moved
  <2> QED BY <2>1 DEF Promise!LedgerNext
<1>7. CASE BurnFrom(sender, owner, n)
  <2>1. Promise!Destroy(owner, n)
    BY <1>5, <1>7 DEF Promise!Destroy, BurnFrom
  <2> QED BY <2>1 DEF Promise!LedgerNext
<1> QED BY <1>1, <1>6, <1>7

LEMMA NextKeepsLedger ==
  ASSUME TokenInv, [TokenNext]_tokenVars
  PROVE  [Promise!LedgerNext]_(Promise!ledgerVars)
<1>1. ASSUME NEW sender \in Accounts, TokenCall(sender) PROVE Promise!LedgerNext
  <2>1. CASE MinterCall(sender)
    BY <2>1 DEF MinterCall, ledger, Promise!LedgerNext, Promise!Other
  <2> QED BY <1>1, <2>1, HolderKeepsLedger, OwnerKeepsLedger, SpenderKeepsLedger
      DEF TokenCall
<1>2. CASE NextBlock
  BY <1>2 DEF NextBlock, ledger, history, Promise!ledgerVars
<1>3. CASE UNCHANGED tokenVars
  BY <1>3 DEF tokenVars, ledger, history, Promise!ledgerVars
<1> QED BY <1>1, <1>2, <1>3 DEF TokenNext

(* The handlers of the token keep the ledger of TokenLedger: tokens leave   *)
(* an account only by its owner or within what it granted, into another     *)
(* account or out of the supply, and only the minter issues, up to the cap. *)
THEOREM LedgerIsKept == TokenSpec => KeepsLedger
<1>1. TokenInv /\ [TokenNext]_tokenVars => [Promise!LedgerNext]_(Promise!ledgerVars)
  BY NextKeepsLedger
<1> QED BY <1>1, Invariance, PTL DEF TokenSpec, KeepsLedger

-----------------------------------------------------------------------------
(* The restriction *)

Kept(w) ==
  restrictedUntil # NoTimestamp /\ block.time < restrictedUntil =>
    /\ balance'[w] < balance[w] =>
         \/ supply' < supply
         \/ \E c \in restrictedContracts : balance'[c] > balance[c]
         \/ Uses(w)
    /\ \A s \in Accounts \ restrictedContracts : granted'[w][s] = granted[w][s]

LEMMA HolderKeepsTokens ==
  ASSUME TokenInv, NEW sender \in Accounts, HolderCall(sender),
         NEW w \in restrictedWallets, w \in Accounts
  PROVE  Kept(w)
<1>1. PICK a \in Accounts, n \in Amounts :
        \/ Transfer(sender, a, n)
        \/ Send(sender, a, n)
        \/ Burn(sender, n)
        \/ Mint(sender, a, n)
  BY DEF HolderCall
<1>2. /\ n \in Nat /\ balance \in [Accounts -> Nat] /\ supply \in Nat
      /\ restrictedContracts \subseteq Accounts
  BY TokenAssumption DEF TokenAssumption, TokenInv, TokenTypeOK
<1>3. granted' = granted
  BY DEF HolderCall
<1> SUFFICES ASSUME restrictedUntil # NoTimestamp, block.time < restrictedUntil,
                    balance'[w] < balance[w]
             PROVE  \/ supply' < supply
                    \/ \E c \in restrictedContracts : balance'[c] > balance[c]
  BY <1>3 DEF Kept
<1>4. CASE Transfer(sender, a, n) \/ Send(sender, a, n)
  <2>1. n > 0 /\ n <= balance[sender] /\ balance' = Moved(sender, a, n)
    BY <1>4 DEF Transfer, Send
  <2>2. w = sender /\ a # sender /\ balance'[a] = balance[a] + n
    BY <1>2, <2>1 DEF Moved
  <2>3. a \in restrictedContracts
    BY <1>4, <2>2 DEF Transfer, Send, Restricted
  <2> QED BY <1>2, <2>1, <2>2, <2>3
<1>5. CASE Burn(sender, n)
  <2>1. supply' = supply - n /\ n > 0
    BY <1>5 DEF Burn
  <2> QED BY <1>2, <2>1
<1>6. CASE Mint(sender, a, n)
  <2>1. balance' = [balance EXCEPT ![a] = @ + n] /\ balance[w] \in Nat
    BY <1>2, <1>6 DEF Mint
  <2>2. balance'[w] >= balance[w]
    BY <1>2, <2>1
  <2> QED BY <1>2, <2>1, <2>2
<1> QED BY <1>1, <1>4, <1>5, <1>6

LEMMA OwnerKeepsTokens ==
  ASSUME TokenInv, NEW sender \in Accounts, OwnerCall(sender),
         NEW w \in restrictedWallets, w \in Accounts
  PROVE  Kept(w)
<1>1. PICK spender \in Accounts, n \in Amounts :
        \E expires \in Expiries \cup {AllowanceOf(sender, spender).expires} :
          \/ IncreaseAllowance(sender, spender, n, expires)
          \/ DecreaseAllowance(sender, spender, n, expires) /\ UNCHANGED granted
  BY DEF OwnerCall
<1>2. balance' = balance /\ balance[w] \in Nat /\ granted \in [Accounts -> [Accounts -> Nat]]
  BY DEF OwnerCall, ledger, TokenInv, TokenTypeOK
<1>3. CASE UNCHANGED granted
  BY <1>2, <1>3 DEF Kept
<1>4. ASSUME NEW expires, IncreaseAllowance(sender, spender, n, expires) PROVE Kept(w)
  <2> SUFFICES ASSUME restrictedUntil # NoTimestamp, block.time < restrictedUntil,
                      NEW s \in Accounts \ restrictedContracts
               PROVE  granted'[w][s] = granted[w][s]
    BY <1>2 DEF Kept
  <2>1. w = sender => spender # s
    BY <1>4 DEF IncreaseAllowance, Restricted
  <2>2. granted' = [granted EXCEPT ![sender][spender] = @ + n]
    BY <1>4 DEF IncreaseAllowance
  <2> QED BY <1>2, <2>1, <2>2
<1> QED BY <1>1, <1>3, <1>4

LEMMA SpenderKeepsTokens ==
  ASSUME TokenInv, NEW sender \in Accounts, SpenderCall(sender),
         NEW w \in restrictedWallets, w \in Accounts
  PROVE  Kept(w)
<1>1. PICK owner \in Accounts, n \in Amounts :
        \/ \E a \in Accounts : TransferFrom(sender, owner, a, n)
        \/ BurnFrom(sender, owner, n)
  BY DEF SpenderCall, SendFrom
<1>2. /\ n \in Nat /\ balance \in [Accounts -> Nat]
      /\ spent \in [Accounts -> [Accounts -> Nat]]
  BY TokenAssumption DEF TokenAssumption, TokenInv, TokenTypeOK
<1>3. /\ spent' = [spent EXCEPT ![owner][sender] = @ + n]
      /\ granted' = granted
      /\ n <= balance[owner]
  BY <1>1 DEF TransferFrom, BurnFrom, Spend
<1> SUFFICES ASSUME balance'[w] < balance[w] PROVE Uses(w)
  BY <1>3 DEF Kept
<1>4. w = owner /\ n > 0
  <2>1. ASSUME NEW a \in Accounts, TransferFrom(sender, owner, a, n) PROVE w = owner /\ n > 0
    <3>1. balance' = Moved(owner, a, n)
      BY <2>1 DEF TransferFrom
    <3> QED BY <1>2, <3>1 DEF Moved
  <2>2. CASE BurnFrom(sender, owner, n)
    <3>1. balance' = [balance EXCEPT ![owner] = @ - n]
      BY <2>2 DEF BurnFrom
    <3> QED BY <1>2, <3>1
  <2> QED BY <1>1, <2>1, <2>2
<1>5. spent'[w][sender] > spent[w][sender]
  BY <1>2, <1>3, <1>4
<1> QED BY <1>5 DEF Uses

LEMMA NextKeepsTokens ==
  ASSUME TokenInv, [TokenNext]_tokenVars, NEW w \in restrictedWallets
  PROVE  Kept(w)
<1>1. w \in Accounts /\ balance[w] \in Nat
  BY DEF TokenInv, TokenTypeOK
<1>2. ASSUME UNCHANGED <<balance, granted>> PROVE Kept(w)
  BY <1>1, <1>2 DEF Kept
<1>3. ASSUME NEW sender \in Accounts, TokenCall(sender) PROVE Kept(w)
  <2>1. CASE MinterCall(sender)
    BY <1>2, <2>1 DEF MinterCall, ledger
  <2> QED BY <1>1, <1>3, <2>1, HolderKeepsTokens, OwnerKeepsTokens, SpenderKeepsTokens
      DEF TokenCall
<1>4. CASE NextBlock \/ UNCHANGED tokenVars
  BY <1>2, <1>4 DEF NextBlock, tokenVars, ledger, history
<1> QED BY <1>3, <1>4 DEF TokenNext

(* Before the time the minter set, a listed wallet loses tokens only by     *)
(* burning them, to a listed contract or through an allowance, and grants   *)
(* allowances to listed contracts alone.                                    *)
THEOREM RestrictionHolds == TokenSpec => RestrictedTokensStay
<1>1. TokenInv /\ [TokenNext]_tokenVars => [\A w \in restrictedWallets : Kept(w)]_tokenVars
  BY NextKeepsTokens
<1>2. (\A w \in restrictedWallets : Kept(w)) =>
        \A w \in restrictedWallets :
          restrictedUntil # NoTimestamp /\ block.time < restrictedUntil =>
            /\ balance'[w] < balance[w] =>
                 \/ supply' < supply
                 \/ \E c \in restrictedContracts : balance'[c] > balance[c]
                 \/ Uses(w)
            /\ \A s \in Accounts \ restrictedContracts : granted'[w][s] = granted[w][s]
  BY DEF Kept
<1> QED BY <1>1, <1>2, Invariance, PTL DEF TokenSpec, RestrictedTokensStay
=============================================================================
