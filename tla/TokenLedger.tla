---------------------------- MODULE TokenLedger -----------------------------
(***************************************************************************)
(* What a token promises its holders.  What one account loses another one  *)
(* receives, or the supply falls with it.  Only the minter issues tokens,  *)
(* and not beyond the cap.  Tokens of an account are moved by the account  *)
(* itself, or by a spender that takes, altogether, at most what the        *)
(* account granted it.                                                     *)
(***************************************************************************)
EXTENDS Integers

CONSTANTS Holders, Quantities, Issuer, Cap, NoCap

VARIABLES
  actor,      \* who made the last call
  held,       \* tokens of each account
  issued,     \* the supply
  granted,    \* what an owner allowed a spender, altogether
  spent       \* what the spender took of it

ledgerVars == <<actor, held, issued, granted, spent>>

Nothing == [o \in Holders |-> [s \in Holders |-> 0]]

LedgerInit ==
  /\ held \in [Holders -> Nat]
  /\ issued \in Nat
  /\ granted = Nothing
  /\ spent = Nothing

Entitled(owner, n) ==
  \/ actor' = owner /\ UNCHANGED <<granted, spent>>
  \/ \E spender \in Holders :
       /\ actor' = spender
       /\ spent[owner][spender] + n <= granted[owner][spender]
       /\ spent' = [spent EXCEPT ![owner][spender] = @ + n]
       /\ UNCHANGED granted

Move(from, to, n) ==
  /\ Entitled(from, n)
  /\ n <= held[from]
  /\ held' = [[held EXCEPT ![from] = @ - n] EXCEPT ![to] = @ + n]
  /\ UNCHANGED issued

Destroy(from, n) ==
  /\ Entitled(from, n)
  /\ n <= held[from]
  /\ held' = [held EXCEPT ![from] = @ - n]
  /\ issued' = issued - n

Issue(to, n) ==
  /\ actor' = Issuer
  /\ Cap # NoCap => issued + n <= Cap
  /\ held' = [held EXCEPT ![to] = @ + n]
  /\ issued' = issued + n
  /\ UNCHANGED <<granted, spent>>

Grant(owner, spender, n) ==
  /\ actor' = owner
  /\ granted' = [granted EXCEPT ![owner][spender] = @ + n]
  /\ UNCHANGED <<held, issued, spent>>

(* Calls that move nothing: settings, lists, an allowance that is lowered.  *)
Other == UNCHANGED <<held, issued, granted, spent>>

LedgerNext ==
  \/ Other
  \/ \E a \in Holders, n \in Quantities :
       \/ \E b \in Holders : Move(a, b, n) \/ Grant(a, b, n)
       \/ Destroy(a, n)
       \/ Issue(a, n)

LedgerSpec == LedgerInit /\ [][LedgerNext]_ledgerVars
=============================================================================
