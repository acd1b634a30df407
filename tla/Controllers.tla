----------------------------- MODULE Controllers -----------------------------
(***************************************************************************)
(* The controllers package as a contract holds it: an Admin, the Hooks the *)
(* admin registers, and the Claims of tokens that unbond.                  *)
(***************************************************************************)
EXTENDS Expirations, SequencesExt

CONSTANTS
  Admins, Holders,    \* addresses
  NoAdmin,            \* the admin is given up
  ClaimAmounts, Caps, \* of create_claim and claim_tokens
  NoCap,              \* claim_tokens without a cap
  Periods,            \* durations after which the contract releases a claim
  MaxChainHeight, MaxClaims \* bounds: the height; claims created per holder

ASSUME ControllersAssumption ==
  /\ NoAdmin \notin Admins
  /\ ClaimAmounts \subseteq Nat /\ Caps \subseteq Nat /\ NoCap \notin Nat
  /\ Periods \subseteq Duration
  /\ MaxChainHeight \in Nat /\ MaxClaims \in Nat

VARIABLES
  admin,     \* Admin
  hooks,     \* Hooks
  claims,    \* Claims
  chain,     \* the block
  entered,   \* claims created so far, per holder: all of them, in order
  released   \* tokens paid, per holder

controllersVars == <<admin, hooks, claims, chain, entered, released>>

Claim == [amount : ClaimAmounts, release : Expiration]

ControllersTypeOK ==
  /\ admin \in Admins \cup {NoAdmin}
  /\ hooks \in Seq(Admins)
  /\ claims \in [Holders -> Seq(Claim)]
  /\ chain \in Block
  /\ entered \in [Holders -> Seq(Claim)]
  /\ released \in [Holders -> Nat]

ControllersInit ==
  /\ admin \in Admins
  /\ hooks = <<>>
  /\ claims = [h \in Holders |-> <<>>]
  /\ chain = [height |-> 1, time |-> 1]
  /\ entered = [h \in Holders |-> <<>>]
  /\ released = [h \in Holders |-> 0]

-----------------------------------------------------------------------------
(* Admin and Hooks *)

IsAdmin(caller) == admin # NoAdmin /\ caller = admin

ExecuteUpdateAdmin(caller, new) ==
  /\ IsAdmin(caller)
  /\ admin' = new
  /\ UNCHANGED <<hooks, claims, chain, entered, released>>

AddHook(hook) == ~ Contains(hooks, hook) /\ hooks' = Append(hooks, hook)
RemoveHook(hook) == Contains(hooks, hook) /\ hooks' = RemoveFirst(hooks, hook)

ExecuteAddHook(caller, hook) ==
  /\ IsAdmin(caller)
  /\ AddHook(hook)
  /\ UNCHANGED <<admin, claims, chain, entered, released>>

ExecuteRemoveHook(caller, hook) ==
  /\ IsAdmin(caller)
  /\ RemoveHook(hook)
  /\ UNCHANGED <<admin, claims, chain, entered, released>>

-----------------------------------------------------------------------------
(* Claims *)

Within(amount, cap) == cap = NoCap \/ amount <= cap

(* Mutant: the claim is compared with the cap alone, not with what the      *)
(* earlier claims have taken of it.                                         *)
PayOneByOne(split, claim, cap) ==
  IF IsExpired(claim.release, chain) /\ Within(claim.amount, cap)
  THEN [split EXCEPT !.toSend = @ + claim.amount]
  ELSE [split EXCEPT !.waiting = Append(@, claim)]

(* The partition's closure: pay a claim or keep it waiting. *)
PayOrKeep(split, claim, cap) ==
  IF IsExpired(claim.release, chain) /\ Within(split.toSend + claim.amount, cap)
  THEN [split EXCEPT !.toSend = @ + claim.amount]
  ELSE [split EXCEPT !.waiting = Append(@, claim)]

Partition(holder, cap) ==
  LET list == claims[holder]
      split[n \in 0..Len(list)] ==
        IF n = 0 THEN [toSend |-> 0, waiting |-> <<>>]
        ELSE PayOrKeep(split[n - 1], list[n], cap)
  IN  split[Len(list)]

(* A contract asks for a release after a period from now, for one a second *)
(* period later, which fails if one is of heights and the other of times,  *)
(* or for none.                                                            *)
Releases ==
  LET once == {Never} \cup {After(d, chain) : d \in Periods}
  IN  once \cup {Later(r[1], r[2]) : r \in {q \in once \X Periods : Addable(q[1], q[2])}}

CreateClaim(holder, claim) ==
  /\ Len(entered[holder]) < MaxClaims
  /\ claims' = [claims EXCEPT ![holder] = Append(@, claim)]
  /\ entered' = [entered EXCEPT ![holder] = Append(@, claim)]
  /\ UNCHANGED <<admin, hooks, chain, released>>

ClaimTokens(holder, cap) ==
  LET split == Partition(holder, cap) IN
  /\ claims' = [claims EXCEPT ![holder] = split.waiting]
  /\ released' = [released EXCEPT ![holder] = @ + split.toSend]
  /\ UNCHANGED <<admin, hooks, chain, entered>>

Tick ==
  /\ chain.height < MaxChainHeight
  /\ chain' = [height |-> chain.height + 1, time |-> chain.time + 2]
  /\ UNCHANGED <<admin, hooks, claims, entered, released>>

ControllersNext ==
  \/ \E caller \in Admins, new \in Admins \cup {NoAdmin} : ExecuteUpdateAdmin(caller, new)
  \/ \E caller, hook \in Admins : ExecuteAddHook(caller, hook) \/ ExecuteRemoveHook(caller, hook)
  \/ \E h \in Holders, a \in ClaimAmounts, r \in Releases :
       CreateClaim(h, [amount |-> a, release |-> r])
  \/ \E h \in Holders, cap \in Caps \cup {NoCap} : ClaimTokens(h, cap)
  \/ Tick

ControllersSpec == ControllersInit /\ [][ControllersNext]_controllersVars

-----------------------------------------------------------------------------

Amounts(seq) == SumFunction([i \in DOMAIN seq |-> seq[i].amount])

(* Position n of list is position place[n] of the longer list all, in the  *)
(* same order, and whatever else is in all has expired.                    *)
StayInOrder(place, list, all) ==
  /\ \A m, n \in DOMAIN list : m < n => place[m] < place[n]
  /\ \A n \in DOMAIN list : list[n] = all[place[n]]
  /\ \A i \in DOMAIN all : (\A n \in DOMAIN list : place[n] # i) => IsExpired(all[i].release, chain)

(* claim_tokens pays whole claims that are mature and no more than the cap, *)
(* and stops only for want of room: a mature claim that stays does not fit  *)
(* in what is left of the cap.  The claims that stay keep their order, and  *)
(* over the life of a holder's claims each token is pending or paid once.   *)
ClaimsTakeWhatFits ==
  [][\A h \in Holders :
       /\ Amounts(entered'[h]) = Amounts(claims'[h]) + released'[h]
       /\ \E place \in [DOMAIN claims'[h] -> DOMAIN entered'[h]] :
            StayInOrder(place, claims'[h], entered'[h])
       /\ \A cap \in Caps \cup {NoCap} :
            (claims'[h] # claims[h] /\ ClaimTokens(h, cap)) =>
              LET sent == released'[h] - released[h] IN
              /\ Within(sent, cap)
              /\ \A i \in DOMAIN claims'[h] :
                   IsExpired(claims'[h][i].release, chain)
                     => ~ Within(sent + claims'[h][i].amount, cap)]_controllersVars
=============================================================================
