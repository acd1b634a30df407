------------------------------- MODULE MCCw20 -------------------------------
(***************************************************************************)
(* Inputs for model-checking the token: a minter, a wallet and a contract; *)
(* of the three only the wallet grants allowances.                         *)
(***************************************************************************)
EXTENDS Cw20, TLC

CONSTANTS minter, w1, pool

Rows(list) == [i \in DOMAIN list |-> [address |-> list[i][1], amount |-> list[i][2]]]

(* The second list names a wallet twice. *)
TwoStarts == {Rows(<< <<w1, 2>> >>), Rows(<< <<w1, 1>>, <<w1, 1>> >>)}
HeightAndTime == {[kind |-> "height", at |-> 2]}
WalletAndPool == {{}, {w1, pool}}

WalletGrantsNext ==
  \/ NextBlock
  \/ \E sender \in Accounts :
       /\ TokenCall(sender)
       /\ sender # w1 => UNCHANGED granted

WalletGrantsSpec == TokenInit /\ [][WalletGrantsNext]_tokenVars
=============================================================================
