------------------------- MODULE ClubRewardJobProofs -------------------------
(***************************************************************************)
(* What holds of the contract together with the reward job, for any lists  *)
(* of wallets, any number of rounds and any calls of the wallets between   *)
(* the calls of the job.                                                   *)
(***************************************************************************)
EXTENDS ClubRewardJob, ClubStakingProofs

-----------------------------------------------------------------------------
(* What a batch does to the stakes of a club *)

NamesOnce(batch) == \A i, j \in DOMAIN batch : batch[i] = batch[j] => i = j

(* What the stakes m of a club come to. *)
AmountIn(m, u) == IF m[u] = NoStake THEN 0 ELSE m[u].amount
AmountsIn(m) == [u \in Users |-> AmountIn(m, u)]
TotalIn(m) == SumFunctionOnSet(AmountsIn(m), Users)

LEMMA AmountTypes ==
  ASSUME NEW m \in StakeMap
  PROVE  /\ \A u \in Users : AmountsIn(m)[u] \in Nat /\ AmountsIn(m)[u] = AmountIn(m, u)
         /\ TotalIn(m) \in Nat
<1>1. \A u \in Users : AmountsIn(m)[u] \in Nat /\ AmountsIn(m)[u] = AmountIn(m, u)
  BY DEF StakeMap, AmountsIn, AmountIn, Stake
<1>2. IsFiniteSet(Users)
  BY ConstantsAssumption
<1> QED BY <1>1, <1>2, SumNat DEF TotalIn

LEMMA TotalUpdated ==
  ASSUME NEW m \in StakeMap, NEW n \in StakeMap, NEW u \in Users,
         \A v \in Users \ {u} : n[v] = m[v]
  PROVE  TotalIn(n) = TotalIn(m) + (AmountIn(n, u) - AmountIn(m, u))
<1>1. \A v \in Users : AmountsIn(m)[v] \in Int /\ AmountsIn(n)[v] \in Int
  BY AmountTypes
<1>2. \A v \in Users \ {u} : AmountsIn(m)[v] = AmountsIn(n)[v]
  BY DEF AmountsIn, AmountIn
<1>3. IsFiniteSet(Users)
  BY ConstantsAssumption
<1>4. SumFunctionOnSet(AmountsIn(n), Users)
        = SumFunctionOnSet(AmountsIn(m), Users) + (AmountsIn(n)[u] - AmountsIn(m)[u])
  BY <1>1, <1>2, <1>3, SumUpdate
<1> QED BY <1>4, AmountTypes DEF TotalIn

(* n is what became of the stakes m once the wallets in paid were paid: no  *)
(* entry appears, vanishes or shrinks, and who was not paid keeps it.       *)
Grown(m, n, paidWallets) ==
  \A u \in Users :
    /\ n[u] = NoStake <=> m[u] = NoStake
    /\ m[u] # NoStake => /\ m[u].amount <= n[u].amount
                         /\ n[u].start = m[u].start \/ n[u].start = NextRound
    /\ u \notin paidWallets => n[u] = m[u]

(* The wallets of the first i places of the batch. *)
Named(batch, i) == {batch[j] : j \in 1..i}

Started(m, u) == m[u] # NoStake => m[u].start <= now

LEMMA PayStakerGrows ==
  ASSUME TypeOK, NEW c \in Clubs, NEW w \in WinningDetails, MayBePaid(c, w),
         NEW u \in Users, NEW p \in Payment, Started(p.stakes, u)
  PROVE  LET q == PayStaker(p, u, c, w)
         IN  /\ q \in Payment
             /\ Grown(p.stakes, q.stakes, {u})
             /\ TotalIn(q.stakes) - q.added >= TotalIn(p.stakes) - p.added
<1> DEFINE s == p.stakes[u]
           r == RewardOfStake(s, u, c, w)
           q == PayStaker(p, u, c, w)
<1>1. p.stakes \in StakeMap /\ p.given \in Nat /\ p.added \in Nat /\ NothingPending(p.stakes)
  BY DEF Payment
<1>2. q \in Payment
  BY PayStakerType
<1>3. CASE s = NoStake
  <2>1. q = p
    BY <1>3 DEF PayStaker
  <2>2. TotalIn(p.stakes) \in Nat
    BY <1>1, AmountTypes
  <2>3. \A v \in Users : p.stakes[v] # NoStake => p.stakes[v].amount \in Nat
    BY <1>1 DEF StakeMap, Stake
  <2>4. Grown(p.stakes, p.stakes, {u})
    BY <2>3 DEF Grown
  <2> QED BY <1>1, <2>1, <2>2, <2>4, <1>2
<1>4. CASE s # NoStake
  <2>1. s \in Stake /\ now \in Nat
    BY <1>1, <1>4 DEF StakeMap, TypeOK
  <2>2. s.start <= now /\ ~(s.start > now)
    BY <1>4, <2>1 DEF Started, Stake
  <2>3. r \in Nat
    BY <2>1, RewardOfStakeNat
  <2> DEFINE new == RewardedStake(s, r)
             more == IF s.auto THEN r ELSE 0
             m == [p.stakes EXCEPT ![u] = new]
  <2>4. q = [stakes |-> m, given |-> p.given + r, added |-> p.added + more]
    BY <1>4, <2>2 DEF PayStaker
  <2> HIDE DEF r, q
  <2>5. /\ new \in Stake /\ new.start = NextRound
        /\ new.amount >= s.amount + more
    <3>1. s.amount \in Nat /\ s.reward \in Nat /\ s.auto \in BOOLEAN
      BY <2>1 DEF Stake
    <3>2. s.amount + r + s.reward \in Nat /\ s.reward + r \in Nat /\ NextRound \in Nat
      BY <2>3, <3>1, NextRoundNat
    <3>3. CASE s.auto
      <4>1. new = [s EXCEPT !.start = NextRound, !.amount = s.amount + r + s.reward, !.reward = 0]
        BY <3>3 DEF RewardedStake
      <4> HIDE DEF new
      <4> DEFINE grown == s.amount + r + s.reward
      <4>a. grown \in Nat /\ new = [s EXCEPT !.start = NextRound, !.amount = grown, !.reward = 0]
        BY <3>2, <4>1
      <4> HIDE DEF grown
      <4>2. new \in Stake /\ new.start = NextRound /\ new.amount = grown
        BY <2>1, <3>2, <4>a DEF Stake
      <4> USE DEF grown
      <4> QED BY <3>1, <3>3, <4>2, <2>3
    <3>4. CASE ~s.auto
      <4>1. new = [s EXCEPT !.start = NextRound, !.reward = s.reward + r]
        BY <3>4 DEF RewardedStake
      <4>2. new \in Stake /\ new.start = NextRound /\ new.amount = s.amount
        BY <2>1, <3>2, <4>1 DEF Stake
      <4> HIDE DEF new
      <4> QED BY <3>1, <3>4, <4>2
    <3> QED BY <3>1, <3>3, <3>4
  <2>6. more \in Nat
    BY <2>3
  <2> HIDE DEF new, more
  <2>7. /\ m \in StakeMap /\ m[u] = new
        /\ \A v \in Users \ {u} : m[v] = p.stakes[v]
    BY <1>1, <2>5 DEF StakeMap
  <2> HIDE DEF m
  <2>8. q.stakes = m /\ q.added = p.added + more
    BY <2>4
  <2>9. new # NoStake
    BY <2>5, ConstantsAssumption
  <2>10. Grown(p.stakes, m, {u})
    <3> SUFFICES ASSUME NEW v \in Users
                 PROVE  /\ m[v] = NoStake <=> p.stakes[v] = NoStake
                        /\ p.stakes[v] # NoStake =>
                             /\ p.stakes[v].amount <= m[v].amount
                             /\ m[v].start = p.stakes[v].start \/ m[v].start = NextRound
                        /\ v \notin {u} => m[v] = p.stakes[v]
      BY DEF Grown
    <3>1. CASE v = u
      <4>1. s.amount \in Nat /\ new.amount \in Nat
        BY <2>1, <2>5 DEF Stake
      <4>2. s.amount <= new.amount
        BY <2>5, <2>6, <4>1
      <4> QED BY <3>1, <4>2, <1>4, <2>5, <2>7, <2>9
    <3>2. CASE v # u
      <4>1. p.stakes[v] # NoStake => p.stakes[v].amount \in Nat
        BY <1>1 DEF StakeMap, Stake
      <4>2. m[v] = p.stakes[v]
        BY <2>7, <3>2
      <4> QED BY <4>1, <4>2, <3>2
    <3> QED BY <3>1, <3>2
  <2>11. TotalIn(m) = TotalIn(p.stakes) + (new.amount - s.amount)
    BY <1>1, <1>4, <2>7, <2>9, TotalUpdated DEF AmountIn
  <2>12. TotalIn(m) \in Nat /\ TotalIn(p.stakes) \in Nat /\ new.amount \in Nat /\ s.amount \in Nat
    BY <1>1, <2>1, <2>5, <2>7, AmountTypes DEF Stake
  <2>13. TotalIn(m) - (p.added + more) >= TotalIn(p.stakes) - p.added
    BY <1>1, <2>5, <2>6, <2>11, <2>12
  <2> QED BY <1>2, <2>8, <2>10, <2>13 DEF q
<1> QED BY <1>3, <1>4

LEMMA GrownType ==
  ASSUME NEW m \in StakeMap, NEW n \in StakeMap, NEW S, NEW T, NEW l \in StakeMap,
         Grown(m, n, S), Grown(n, l, T)
  PROVE  Grown(m, l, S \cup T)
<1> SUFFICES ASSUME NEW u \in Users
             PROVE  /\ l[u] = NoStake <=> m[u] = NoStake
                    /\ m[u] # NoStake => /\ m[u].amount <= l[u].amount
                                         /\ l[u].start = m[u].start \/ l[u].start = NextRound
                    /\ u \notin S \cup T => l[u] = m[u]
  BY DEF Grown
<1>1. CASE m[u] = NoStake
  BY <1>1 DEF Grown
<1>2. CASE m[u] # NoStake
  <2>1. n[u] # NoStake /\ l[u] # NoStake
    BY <1>2 DEF Grown
  <2>2. m[u].amount \in Nat /\ n[u].amount \in Nat /\ l[u].amount \in Nat
    BY <1>2, <2>1 DEF StakeMap, Stake
  <2>3. m[u].amount <= n[u].amount /\ n[u].amount <= l[u].amount
    BY <1>2, <2>1 DEF Grown
  <2> QED BY <1>2, <2>1, <2>2, <2>3 DEF Grown
<1> QED BY <1>1, <1>2

(* A batch that names every wallet once, all of whose stakes have started,  *)
(* loses no entry, and adds to the total at most what the stakes grow by.   *)
LEMMA PayBatchGrows ==
  ASSUME TypeOK, AutoStakeHasNoPendingReward, NEW c \in Clubs, NEW w \in WinningDetails,
         MayBePaid(c, w), NEW batch \in Seq(Users), NamesOnce(batch),
         \A i \in DOMAIN batch : Started(stake[c], batch[i])
  PROVE  LET q == PayBatch(batch, c, w)
         IN  /\ q \in Payment
             /\ Grown(stake[c], q.stakes, Named(batch, Len(batch)))
             /\ TotalIn(q.stakes) - q.added >= TotalIn(stake[c])
<1> DEFINE N == Len(batch)
           m == stake[c]
           base == [stakes |-> stake[c], given |-> 0, added |-> 0]
           P == {x \in (0..N) \X Payment :
                   /\ Grown(m, x[2].stakes, Named(batch, x[1]))
                   /\ TotalIn(x[2].stakes) - x[2].added >= TotalIn(m)}
<1>1. N \in Nat /\ DOMAIN batch = 1..N /\ \A i \in 1..N : batch[i] \in Users
  OBVIOUS
<1>2. m \in StakeMap /\ TotalIn(m) \in Nat
  <2>1. m \in StakeMap
    BY DEF TypeOK, StakeMap
  <2> QED BY <2>1, AmountTypes
<1>3. <<0, base>> \in P
  <2>1. base \in Payment
    BY DEF Payment, StakeMap, NothingPending, TypeOK, AutoStakeHasNoPendingReward
  <2>2. Grown(m, m, Named(batch, 0))
    BY <1>2 DEF Grown, StakeMap, Stake
  <2>3. TotalIn(m) - 0 >= TotalIn(m)
    BY <1>2
  <2> HIDE DEF m
  <2>4. base.stakes = m /\ base.added = 0
    BY DEF m
  <2> HIDE DEF base
  <2> QED BY <1>1, <2>1, <2>2, <2>3, <2>4
<1>4. ASSUME NEW i \in 1..N, NEW p \in Payment, <<i-1, p>> \in P
      PROVE  <<i, PayStaker(p, batch[i], c, w)>> \in P
  <2> DEFINE q == PayStaker(p, batch[i], c, w)
  <2>1. /\ Grown(m, p.stakes, Named(batch, i-1))
        /\ TotalIn(p.stakes) - p.added >= TotalIn(m)
    BY <1>4
  <2>2. batch[i] \notin Named(batch, i-1) /\ batch[i] \in Users
    BY <1>1 DEF Named, NamesOnce
  <2>3. Started(p.stakes, batch[i])
    BY <1>1, <2>1, <2>2 DEF Grown, Started
  <2>4. /\ q \in Payment
        /\ Grown(p.stakes, q.stakes, {batch[i]})
        /\ TotalIn(q.stakes) - q.added >= TotalIn(p.stakes) - p.added
    BY <2>2, <2>3, PayStakerGrows
  <2>5. Named(batch, i) = Named(batch, i-1) \cup {batch[i]}
    BY <1>1 DEF Named
  <2>6. p.stakes \in StakeMap /\ q.stakes \in StakeMap /\ p.added \in Nat /\ q.added \in Nat
    BY <2>4 DEF Payment
  <2> HIDE DEF m, q
  <2>7. Grown(m, q.stakes, Named(batch, i))
    BY <1>2, <2>1, <2>4, <2>5, <2>6, GrownType
  <2>8. TotalIn(p.stakes) \in Nat /\ TotalIn(q.stakes) \in Nat
    BY <2>6, AmountTypes
  <2>9. TotalIn(q.stakes) - q.added >= TotalIn(m)
    BY <1>2, <2>1, <2>4, <2>6, <2>8
  <2>10. <<i, q>> \in P
    BY <1>1, <2>4, <2>7, <2>9
  <2> QED BY <2>10 DEF q
<1> HIDE DEF P
<1>5. <<N, PayBatch(batch, c, w)>> \in P /\ PayBatch(batch, c, w) \in Payment
  BY <1>3, <1>4, PayBatchLoop
<1> HIDE DEF N
<1> DEFINE q == PayBatch(batch, c, w)
<1> HIDE DEF q
<1>6. <<N, q>> \in P /\ q \in Payment
  BY <1>5 DEF q
<1>7. Grown(m, q.stakes, Named(batch, N)) /\ TotalIn(q.stakes) - q.added >= TotalIn(m)
  BY <1>6 DEF P
<1> QED BY <1>6, <1>7 DEF q, N

-----------------------------------------------------------------------------
(* The calls of a round *)

Increasing(cs) == \A i, j \in DOMAIN cs : i < j => cs[i] < cs[j]

LEMMA OrderExists ==
  ASSUME NEW S \in SUBSET Clubs
  PROVE  /\ IncreasingOrder(S) \in [1..Cardinality(S) -> S]
         /\ Increasing(IncreasingOrder(S))
<1> DEFINE T(n) == S \cap (1..n)
           Found(n) == \E cs \in [1..Cardinality(T(n)) -> T(n)] : Increasing(cs)
           P == {n \in 0..NumClubs : Found(n)}
<1>0. NumClubs \in Nat /\ S \subseteq 1..NumClubs
  BY ConstantsAssumption DEF Clubs
<1>1. 0 \in P
  <2>1. T(0) = {} /\ Cardinality(T(0)) = 0 /\ 1..0 = {}
    BY FS_EmptySet
  <2>2. [i \in {} |-> i] \in [{} -> {}] /\ Increasing([i \in {} |-> i])
    BY DEF Increasing
  <2> DEFINE none == [i \in {} |-> i]
  <2> HIDE DEF T, none
  <2>3. none \in [1..Cardinality(T(0)) -> T(0)] /\ Increasing(none)
    BY <2>1, <2>2 DEF none
  <2>4. Found(0)
    BY <2>3
  <2> HIDE DEF Found
  <2> QED BY <1>0, <2>4
<1>2. ASSUME NEW n \in 1..NumClubs, n - 1 \in P PROVE n \in P
  <2>1. PICK cs \in [1..Cardinality(T(n-1)) -> T(n-1)] : Increasing(cs)
    BY <1>2
  <2>2. IsFiniteSet(T(n-1)) /\ Cardinality(T(n-1)) \in Nat
    <3>1. IsFiniteSet(S)
      BY ClubsFinite, FS_Subset
    <3> QED BY <3>1, FS_Subset, FS_CardinalityType
  <2>3. CASE n \notin S
    <3>1. T(n) = T(n-1)
      BY <1>0, <2>3
    <3> HIDE DEF T
    <3> QED BY <2>1, <3>1
  <2>4. CASE n \in S
    <3> DEFINE k == Cardinality(T(n-1))
               new == [i \in 1..(k+1) |-> IF i = k + 1 THEN n ELSE cs[i]]
    <3>1. T(n) = T(n-1) \cup {n} /\ n \notin T(n-1)
      BY <1>0, <2>4
    <3>2. \A x \in T(n-1) : x \in Int /\ x < n
      BY <1>0
    <3> HIDE DEF T
    <3>3. Cardinality(T(n)) = k + 1 /\ k \in Nat
      BY <2>2, <3>1, FS_AddElement
    <3>4. cs \in [1..k -> T(n-1)]
      BY <2>1
    <3> HIDE DEF k
    <3>5. new \in [1..(k+1) -> T(n)]
      <4>1. \A i \in 1..(k+1) : i = k + 1 \/ i \in 1..k
        BY <3>3
      <4>2. \A i \in 1..k : cs[i] \in T(n)
        BY <3>1, <3>4
      <4>3. \A i \in 1..(k+1) : new[i] \in T(n)
        BY <3>1, <4>1, <4>2
      <4> QED BY <4>3
    <3>6. Increasing(new)
      <4> SUFFICES ASSUME NEW i \in 1..(k+1), NEW j \in 1..(k+1), i < j
                   PROVE  new[i] < new[j]
        BY DEF Increasing
      <4>1. i \in 1..k /\ i # k + 1
        BY <3>3
      <4>2. cs[i] < n
        BY <3>2, <3>4, <4>1
      <4>3. CASE j = k + 1
        BY <4>1, <4>2, <4>3
      <4>4. CASE j # k + 1
        <5>1. j \in 1..k
          BY <3>3, <4>4
        <5>2. cs[i] < cs[j]
          BY <2>1, <3>4, <4>1, <5>1 DEF Increasing
        <5> QED BY <4>1, <4>4, <5>2
      <4> QED BY <4>3, <4>4
    <3> HIDE DEF new
    <3>7. Found(n)
      BY <3>3, <3>5, <3>6
    <3> QED BY <3>7
  <2> QED BY <2>3, <2>4
<1>3. NumClubs \in P
  <2> HIDE DEF P
  <2>1. 0..NumClubs \subseteq P
    BY <1>0, <1>1, <1>2, UpTo
  <2> QED BY <1>0, <2>1
<1>4. T(NumClubs) = S
  BY <1>0
<1>5. \E cs \in [1..Cardinality(S) -> S] : Increasing(cs)
  <2> HIDE DEF T
  <2> QED BY <1>3, <1>4
<1> QED BY <1>5 DEF IncreasingOrder, Increasing

(* The places of call a + 1 in the lists of clubs and of wallets.           *)
LEMMA Places ==
  ASSUME NEW n \in Nat, n > 0, NEW m \in Nat, NEW a \in 0..(n * m - 1)
  PROVE  /\ a \div n \in 0..(m-1) /\ a % n \in 0..(n-1)
         /\ a = n * (a \div n) + (a % n)
<1>1. a \in Nat /\ a < n * m
  OBVIOUS
<1>2. a \div n \in Nat /\ a % n \in 0..(n-1) /\ a = n * (a \div n) + (a % n)
  BY <1>1
<1> DEFINE q == a \div n
<1>3. q < m
  <2>1. q \in Nat /\ n * q <= a
    BY <1>1, <1>2
  <2> HIDE DEF q
  <2>2. n * q < n * m
    BY <1>1, <2>1
  <2> QED BY <2>1, <2>2
<1> QED BY <1>2, <1>3

(* A wallet is named once for a club, only the last call closes the round,  *)
(* and only the first one may rank the clubs.                               *)
IsRound(calls) ==
  /\ \A k, l \in DOMAIN calls :
       calls[k].c = calls[l].c =>
         \A i \in DOMAIN calls[k].batch, j \in DOMAIN calls[l].batch :
           calls[k].batch[i] = calls[l].batch[j] => k = l /\ i = j
  /\ \A k \in DOMAIN calls : calls[k].final <=> k = Len(calls)
  /\ \A k \in DOMAIN calls : calls[k].first => k = 1

LEMMA ScheduleIsRound ==
  ASSUME NEW S \in SUBSET Clubs
  PROVE  /\ Schedule(IncreasingOrder(S)) \in Seq(Call)
         /\ IsRound(Schedule(IncreasingOrder(S)))
         /\ Schedule(IncreasingOrder(S)) # <<>> => Head(Schedule(IncreasingOrder(S))).first
<1> DEFINE cs == IncreasingOrder(S)
           n == Len(StakerLists)
           m == Len(cs)
           calls == Schedule(cs)
<1>1. n \in Nat /\ DOMAIN StakerLists = 1..n /\ \A i \in 1..n : StakerLists[i] \in Batches
  BY JobAssumption
<1>2. /\ cs \in Seq(Clubs) /\ DOMAIN cs = 1..m /\ m \in Nat
      /\ \A i \in 1..m : cs[i] \in Clubs
      /\ \A i, j \in 1..m : cs[i] = cs[j] => i = j
  <2>1. cs \in [1..Cardinality(S) -> S] /\ Increasing(cs) /\ Cardinality(S) \in Nat
    BY OrderExists, CountOfClubs
  <2> HIDE DEF cs
  <2>2. cs \in Seq(Clubs) /\ DOMAIN cs = 1..m /\ m \in Nat /\ \A i \in 1..m : cs[i] \in Clubs
    BY <2>1
  <2>3. \A i, j \in 1..m : cs[i] = cs[j] => i = j
    <3>1. \A i \in 1..m : cs[i] \in Int
      BY <2>2 DEF Clubs
    <3>2. \A i, j \in 1..m : i < j => cs[i] < cs[j]
      BY <2>1, <2>2 DEF Increasing
    <3> QED BY <2>2, <3>1, <3>2
  <2> QED BY <2>2, <2>3
<1> HIDE DEF cs
<1>3. calls = [k \in 1..(n * m) |-> CallOfRound(k, n, cs)] /\ n * m \in Nat
  BY <1>1, <1>2, MulNat DEF Schedule
<1> HIDE DEF calls, n, m
<1>4. ASSUME NEW k \in 1..(n * m)
      PROVE  /\ n > 0
             /\ ((k-1) \div n) + 1 \in 1..m /\ ((k-1) % n) + 1 \in 1..n
             /\ k - 1 = n * ((k-1) \div n) + ((k-1) % n)
             /\ calls[k] = CallOfRound(k, n, cs)
  <2>1. n > 0
    <3>1. CASE n = 0
      <4>1. n * m = 0
        BY <1>2, <3>1
      <4> QED BY <4>1
    <3> QED BY <1>1, <3>1
  <2>2. k - 1 \in 0..(n * m - 1)
    BY <1>3
  <2>3. /\ (k-1) \div n \in 0..(m-1) /\ (k-1) % n \in 0..(n-1)
        /\ k - 1 = n * ((k-1) \div n) + ((k-1) % n)
    BY <1>1, <1>2, <2>1, <2>2, Places
  <2>4. calls[k] = CallOfRound(k, n, cs)
    BY <1>3
  <2> DEFINE q == (k-1) \div n
             r == (k-1) % n
  <2> HIDE DEF q, r
  <2>5. q + 1 \in 1..m /\ r + 1 \in 1..n
    BY <1>1, <1>2, <2>3 DEF q, r
  <2> QED BY <2>1, <2>3, <2>4, <2>5 DEF q, r
<1>5. /\ DOMAIN calls = 1..(n * m) /\ Len(calls) = n * m
      /\ \A k \in 1..(n * m) :
           /\ calls[k].c = cs[((k-1) \div n) + 1] /\ calls[k].batch = StakerLists[((k-1) % n) + 1]
           /\ calls[k].first = (k = 1) /\ calls[k].final = (k = n * m) /\ calls[k] \in Call
  <2>1. DOMAIN calls = 1..(n * m) /\ Len(calls) = n * m
    BY <1>3
  <2>2. ASSUME NEW k \in 1..(n * m)
        PROVE  /\ calls[k].c = cs[((k-1) \div n) + 1]
               /\ calls[k].batch = StakerLists[((k-1) % n) + 1]
               /\ calls[k].first = (k = 1) /\ calls[k].final = (k = n * m) /\ calls[k] \in Call
    <3>1. calls[k] = [c |-> cs[((k-1) \div n) + 1], batch |-> StakerLists[((k-1) % n) + 1],
                      first |-> k = 1, final |-> k = n * m]
      BY <1>4 DEF CallOfRound, n, m
    <3>2. cs[((k-1) \div n) + 1] \in Clubs /\ StakerLists[((k-1) % n) + 1] \in Batches
      BY <1>1, <1>2, <1>4
    <3> QED BY <3>1, <3>2 DEF Call
  <2> QED BY <2>1, <2>2
<1>6. calls \in Seq(Call)
  BY <1>3, <1>5
<1>7. ASSUME NEW k \in 1..(n * m), NEW l \in 1..(n * m), calls[k].c = calls[l].c,
             NEW i \in DOMAIN calls[k].batch, NEW j \in DOMAIN calls[l].batch,
             calls[k].batch[i] = calls[l].batch[j]
      PROVE  k = l /\ i = j
  <2>1. ((k-1) \div n) + 1 = ((l-1) \div n) + 1
    BY <1>2, <1>4, <1>5, <1>7
  <2>2. ((k-1) % n) + 1 = ((l-1) % n) + 1 /\ i = j
    <3> DEFINE x == ((k-1) % n) + 1
               y == ((l-1) % n) + 1
    <3>1. x \in 1..n /\ y \in 1..n
      BY <1>4
    <3>2. calls[k].batch = StakerLists[x] /\ calls[l].batch = StakerLists[y]
      BY <1>5
    <3> HIDE DEF x, y
    <3>3. x = y /\ i = j
      BY <1>1, <1>7, <3>1, <3>2, ListsAssumption
    <3> QED BY <3>3 DEF x, y
  <2>3. k - 1 = l - 1
    <3>1. (k-1) \div n = (l-1) \div n /\ (k-1) % n = (l-1) % n
      <4>1. /\ (k-1) \div n \in Int /\ (l-1) \div n \in Int
            /\ (k-1) % n \in Int /\ (l-1) % n \in Int
        BY <1>1, <1>4
      <4> QED BY <2>1, <2>2, <4>1
    <3> QED BY <1>4, <3>1
  <2> QED BY <2>2, <2>3
<1>8. \A k \in DOMAIN calls : (calls[k].final <=> k = Len(calls)) /\ (calls[k].first => k = 1)
  BY <1>5
<1>9. IsRound(calls)
  BY <1>5, <1>7, <1>8 DEF IsRound
<1>10. calls # <<>> => Head(calls).first
  <2> SUFFICES ASSUME calls # <<>> PROVE Head(calls).first
    OBVIOUS
  <2>1. Head(calls) = calls[1] /\ 1 \in DOMAIN calls
    BY <1>6
  <2> QED BY <1>5, <2>1
<1> QED BY <1>6, <1>9, <1>10 DEF calls, cs

-----------------------------------------------------------------------------
(* The job, interrupted or not *)

(* A call of the present round has been accepted, and calls are left. *)
Opened == todo # <<>> /\ ~Head(todo).first

JobInv ==
  /\ Inv
  /\ JobTypeOK
  /\ IsRound(todo)
  /\ Opened => now >= nextRewardTime
  /\ paid = rewardGiven

LEMMA SameGain ==
  ASSUME NEW a \in Nat, NEW b \in Nat, NEW given \in Nat, NEW x, x = a + (given - b), a = b
  PROVE  x = given
OBVIOUS

LEMMA LossWithinGiven ==
  ASSUME NEW pool \in Nat, NEW left \in Nat, NEW given \in Nat, left < pool,
         left = (IF pool > given THEN pool - given ELSE 0)
  PROVE  pool - left <= given
OBVIOUS

LEMMA TailOfRound ==
  ASSUME NEW calls \in Seq(Call), calls # <<>>, IsRound(calls)
  PROVE  /\ Head(calls) \in Call /\ Head(calls) = calls[1]
         /\ Tail(calls) \in Seq(Call) /\ Len(Tail(calls)) = Len(calls) - 1
         /\ \A k \in DOMAIN Tail(calls) : k + 1 \in DOMAIN calls /\ Tail(calls)[k] = calls[k+1]
         /\ IsRound(Tail(calls))
         /\ Head(calls).final <=> Tail(calls) = <<>>
         /\ Tail(calls) # <<>> => ~Head(Tail(calls)).first
<1>1. /\ Head(calls) \in Call /\ Head(calls) = calls[1]
      /\ Tail(calls) \in Seq(Call) /\ Len(Tail(calls)) = Len(calls) - 1
      /\ DOMAIN calls = 1..Len(calls) /\ DOMAIN Tail(calls) = 1..(Len(calls) - 1)
      /\ Len(calls) \in Nat \ {0}
  OBVIOUS
<1>2. \A k \in DOMAIN Tail(calls) : k + 1 \in DOMAIN calls /\ Tail(calls)[k] = calls[k+1]
  BY <1>1
<1>3. ASSUME NEW k \in DOMAIN Tail(calls), NEW l \in DOMAIN Tail(calls),
             Tail(calls)[k].c = Tail(calls)[l].c,
             NEW i \in DOMAIN Tail(calls)[k].batch, NEW j \in DOMAIN Tail(calls)[l].batch,
             Tail(calls)[k].batch[i] = Tail(calls)[l].batch[j]
      PROVE  k = l /\ i = j
  <2>1. k + 1 = l + 1 /\ i = j
    BY <1>2, <1>3 DEF IsRound
  <2>2. k \in Nat /\ l \in Nat
    BY <1>1
  <2> QED BY <2>1, <2>2
<1>4. \A k \in DOMAIN Tail(calls) : Tail(calls)[k].final <=> k = Len(Tail(calls))
  <2> TAKE k \in DOMAIN Tail(calls)
  <2>1. calls[k+1].final <=> k + 1 = Len(calls)
    BY <1>2 DEF IsRound
  <2>2. k \in Nat /\ Len(calls) \in Nat
    BY <1>1
  <2>3. k + 1 = Len(calls) <=> k = Len(Tail(calls))
    BY <1>1, <2>2
  <2> QED BY <1>2, <2>1, <2>3
<1>5. Head(calls).final <=> Len(calls) = 1
  BY <1>1 DEF IsRound
<1>6. Len(calls) = 1 <=> Tail(calls) = <<>>
  <2> DEFINE t == Tail(calls)
  <2>1. t \in Seq(Call) /\ Len(t) = Len(calls) - 1
    BY <1>1
  <2> HIDE DEF t
  <2>2. t = <<>> <=> Len(t) = 0
    BY <2>1
  <2>3. Len(calls) = 1 <=> Len(t) = 0
    BY <1>1, <2>1
  <2> QED BY <2>2, <2>3 DEF t
<1>7. \A k \in DOMAIN Tail(calls) : ~Tail(calls)[k].first
  <2> TAKE k \in DOMAIN Tail(calls)
  <2>1. k \in Nat /\ k >= 1
    BY <1>1
  <2>2. k + 1 # 1
    BY <2>1
  <2> QED BY <1>2, <2>2 DEF IsRound
<1>8. IsRound(Tail(calls))
  BY <1>3, <1>4, <1>7 DEF IsRound
<1>9. Tail(calls) # <<>> => ~Head(Tail(calls)).first
  <2> DEFINE t == Tail(calls)
  <2>1. t \in Seq(Call) /\ \A k \in DOMAIN t : ~t[k].first
    BY <1>1, <1>7
  <2> HIDE DEF t
  <2>2. t # <<>> => Head(t) = t[1] /\ 1 \in DOMAIN t
    BY <2>1
  <2> QED BY <2>1, <2>2 DEF t
<1> QED BY <1>1, <1>2, <1>5, <1>6, <1>8, <1>9

LEMMA CallTypes ==
  ASSUME JobInv, todo # <<>>
  PROVE  /\ Head(todo).c \in Clubs /\ Head(todo).batch \in Batches
         /\ Head(todo).first \in BOOLEAN /\ Head(todo).final \in BOOLEAN
BY TailOfRound DEF JobInv, JobTypeOK, Call

(* Every step of the composition is a step of the contract. *)
LEMMA JobStepsAreCalls ==
  ASSUME JobInv, [JobNext]_allVars
  PROVE  [Next]_vars
<1>1. CASE StartRound
  BY <1>1 DEF StartRound, Next, RewardCall, Accounts
<1>2. CASE PayNextBatch
  BY <1>2, CallTypes DEF PayNextBatch, Next, RewardCall, Accounts
<1>3. CASE CallTooEarly \/ JobCrash
  BY <1>3 DEF CallTooEarly, JobCrash
<1>4. CASE WalletStep
  BY <1>4 DEF WalletStep, Next
<1> QED BY <1>1, <1>2, <1>3, <1>4 DEF JobNext, allVars, vars

(* The wallets touch neither the pool nor its clock, and time only passes.  *)
LEMMA WalletsLeaveRewards ==
  ASSUME TypeOK, WalletStep
  PROVE  /\ UNCHANGED jobVars
         /\ reward' = reward /\ rewardGiven' = rewardGiven /\ nextRewardTime' = nextRewardTime
         /\ now' >= now
<1>0. now \in Nat
  BY DEF TypeOK
<1>1. CASE \E sender \in Accounts : OwnerCall(sender)
  <2>1. UNCHANGED <<now, rewardVars>>
    BY <1>1 DEF OwnerCall, BuyAClub, AssignAClub, TakeOver, ReleaseClub, ClaimOwnerRewards,
                ClaimPreviousOwnerRewards
  <2> QED BY <1>0, <2>1 DEF rewardVars, WalletStep
<1>2. CASE \E sender \in Accounts : StakerCall(sender)
  <2>1. PICK sender \in Accounts, c \in Clubs, u \in Users :
          \/ \E amount \in StakeAmounts, auto \in BOOLEAN : Deposit(u, c, amount, auto)
          \/ \E amount \in WithdrawAmounts :
               BondStake(sender, u, c, amount) \/ WithdrawMatured(sender, u, c, amount)
          \/ ClaimStakerRewards(sender, u, c)
    BY <1>2 DEF StakerCall, StakeOnAClub, AssignStakesToAClub
  <2>2. UNCHANGED <<now, rewardVars>>
    BY <2>1 DEF Deposit, BondStake, WithdrawMatured, ClaimStakerRewards
  <2> QED BY <1>0, <2>2 DEF rewardVars, WalletStep
<1>3. CASE Environment
  <2>1. UNCHANGED rewardVars /\ (now' = now \/ now' = now + 1)
    BY <1>3 DEF Environment, Tick, TokensArrive
  <2> QED BY <1>0, <2>1 DEF rewardVars, WalletStep
<1> QED BY <1>1, <1>2, <1>3 DEF WalletStep

LEMMA JobInitInv == JobInit => JobInv
<1> SUFFICES ASSUME JobInit PROVE JobInv
  OBVIOUS
<1>1. Inv
  BY InitInv DEF JobInit
<1>2. todo = <<>> /\ rounds = 0 /\ paid = 0 /\ rewardGiven = 0
  BY DEF JobInit, Init
<1>3. todo \in Seq(Call) /\ IsRound(todo)
  BY <1>2 DEF IsRound
<1>4. JobTypeOK
  BY <1>1, <1>2, <1>3, JobAssumption DEF JobTypeOK, Inv
<1> QED BY <1>1, <1>2, <1>3, <1>4 DEF JobInv, Opened

LEMMA JobNextInv ==
  ASSUME JobInv, [JobNext]_allVars
  PROVE  JobInv'
<1>0. Inv' /\ TypeOK'
  <2>1. Inv'
    BY JobStepsAreCalls, NextInv DEF JobInv
  <2> QED BY <2>1 DEF Inv
<1>a. /\ todo \in Seq(Call) /\ rounds \in 0..MaxRounds /\ paid = rewardGiven
      /\ IsRound(todo) /\ MaxRounds \in Nat
      /\ Opened => now >= nextRewardTime
      /\ now \in Nat /\ now' \in Nat /\ nextRewardTime \in Nat
      /\ rewardGiven \in Nat /\ rewardGiven' \in Nat
  BY <1>0, JobAssumption DEF JobInv, JobTypeOK, TypeOK
<1> SUFFICES /\ todo' \in Seq(Call) /\ rounds' \in 0..MaxRounds
             /\ IsRound(todo') /\ paid' = rewardGiven'
             /\ Opened' => now' >= nextRewardTime'
  BY <1>0, <1>a DEF JobInv, JobTypeOK
<1>1. CASE StartRound
  <2>1. QueryAllClubs \in SUBSET Clubs
    BY DEF QueryAllClubs
  <2>2. todo' \in Seq(Call) /\ IsRound(todo') /\ ~Opened'
    BY <1>1, <2>1, ScheduleIsRound DEF StartRound, Opened
  <2>3. rewardGiven' = 0 /\ paid' = 0
    BY <1>1 DEF StartRound, IncreaseRewardAmount
  <2>4. rounds' \in 0..MaxRounds
    BY <1>1, <1>a DEF StartRound
  <2> QED BY <2>2, <2>3, <2>4
<1>2. CASE PayNextBatch
  <2>1. /\ todo # <<>> /\ todo' = Tail(todo) /\ rounds' = rounds
        /\ paid' = paid + (rewardGiven' - rewardGiven)
    BY <1>2 DEF PayNextBatch
  <2>2. todo' \in Seq(Call) /\ IsRound(todo') /\ (Head(todo).final <=> todo' = <<>>)
    BY <1>a, <2>1, TailOfRound
  <2>3. /\ now >= nextRewardTime /\ now' = now
        /\ ~Head(todo).final => nextRewardTime' = nextRewardTime
    BY <1>2 DEF RewardTimeReached, PayNextBatch, CalculateAndDistributeRewards, DistributeNothing, DistributeBatch
  <2>4. paid' = rewardGiven'
    <3> DEFINE given == rewardGiven'
    <3>1. given \in Nat /\ paid' = paid + (given - rewardGiven)
      BY <1>a, <2>1
    <3> HIDE DEF given
    <3>2. paid' = given
      BY <1>a, <3>1, SameGain
    <3> QED BY <3>2 DEF given
  <2>6. rounds' \in 0..MaxRounds
    BY <1>a, <2>1
  <2>5. Opened' => now' >= nextRewardTime'
    BY <2>2, <2>3 DEF Opened
  <2> QED BY <2>2, <2>4, <2>5, <2>6
<1>3. CASE CallTooEarly \/ JobCrash
  <2>1. /\ todo' = <<>> /\ rounds' = rounds /\ paid' = paid /\ rewardGiven' = rewardGiven
    BY <1>3 DEF CallTooEarly, JobCrash, vars, rewardVars
  <2>2. todo' \in Seq(Call) /\ IsRound(todo') /\ ~Opened'
    BY <2>1 DEF IsRound, Opened
  <2> QED BY <1>a, <2>1, <2>2
<1>4. CASE WalletStep
  <2>1. /\ todo' = todo /\ rounds' = rounds /\ paid' = paid /\ rewardGiven' = rewardGiven
        /\ nextRewardTime' = nextRewardTime /\ now' >= now
    BY <1>4, WalletsLeaveRewards DEF JobInv, Inv, jobVars
  <2>2. Opened' <=> Opened
    BY <2>1 DEF Opened
  <2> QED BY <1>a, <2>1, <2>2
<1>5. CASE UNCHANGED allVars
  BY <1>5, <1>a DEF allVars, vars, jobVars, rewardVars, Opened
<1> QED BY <1>1, <1>2, <1>3, <1>4, <1>5 DEF JobNext

(* The conjunction behind everything proved of the job is inductive for the *)
(* interrupted job too.                                                     *)
THEOREM JobInvariance == JobSpec => []JobInv
BY JobInitInv, JobNextInv, PTL DEF JobSpec

LEMMA NextPoolLoss ==
  ASSUME JobInv, JobInv', [JobNext]_allVars, reward' < reward
  PROVE  reward - reward' <= paid'
<1>0. /\ reward \in Nat /\ reward' \in Nat /\ rewardGiven \in Nat /\ rewardGiven' \in Nat
      /\ paid' = rewardGiven' /\ paid' \in Nat
  BY DEF JobInv, Inv, TypeOK, JobTypeOK
<1>1. CASE StartRound
  <2>1. PICK amount \in RewardAmounts : reward' = reward + amount
    BY <1>1 DEF StartRound, IncreaseRewardAmount
  <2>2. amount \in Nat
    BY ConstantsAssumption
  <2> QED BY <1>0, <2>1, <2>2
<1>2. CASE PayNextBatch
  <2>1. reward' = reward \/ reward' = Leftover(rewardGiven')
    BY <1>2 DEF PayNextBatch, CalculateAndDistributeRewards, DistributeNothing, DistributeBatch
  <2> DEFINE given == rewardGiven'
             left == reward'
  <2>2. left = reward \/ left = (IF reward > given THEN reward - given ELSE 0)
    BY <2>1 DEF Leftover
  <2>3. given \in Nat /\ left \in Nat /\ left < reward
    BY <1>0
  <2> HIDE DEF given, left
  <2>4. reward - left <= given
    BY <1>0, <2>2, <2>3, LossWithinGiven
  <2> QED BY <1>0, <2>4 DEF given, left
<1>3. CASE WalletStep
  <2>1. reward' = reward
    BY <1>3, WalletsLeaveRewards DEF JobInv, Inv
  <2> QED BY <1>0, <2>1
<1>4. CASE CallTooEarly \/ JobCrash \/ UNCHANGED allVars
  BY <1>0, <1>4 DEF CallTooEarly, JobCrash, allVars, vars, rewardVars
<1> QED BY <1>1, <1>2, <1>3, <1>4 DEF JobNext

(* Rounds that crash, start over and share the pool with later ones never   *)
(* take tokens out of it that the batches of the present round have not     *)
(* given.                                                                   *)
THEOREM PoolLossIsPaid == JobSpec => PoolLosesOnlyWhatIsPaid
<1>1. JobInv /\ JobInv' /\ [JobNext]_allVars =>
        [reward' < reward => reward - reward' <= paid']_allVars
  BY NextPoolLoss
<1> QED BY <1>1, JobInvariance, PTL DEF JobSpec, PoolLosesOnlyWhatIsPaid

-----------------------------------------------------------------------------
(* The uninterrupted job *)

(* When the stakes paid in the present round, or in the last one, start. *)
Horizon == IF Opened THEN NextRound ELSE nextRewardTime

StakesAreOfClubs == \A c \in Clubs, u \in Users : stake[c][u] # NoStake => Founded(c)
BondsAreOfStakers ==
  \A c \in Clubs, u \in Users : bonds[c][u] # <<>> => stake[c][u] # NoStake

(* A stake that has been paid starts in the future at most until the next   *)
(* round is due, and no call that is left of an opened round names it.      *)
StartsWithinRound ==
  \A c \in Clubs, u \in Users : stake[c][u] # NoStake =>
    stake[c][u].start <= now \/ stake[c][u].start <= Horizon
UnpaidHaveStarted ==
  Opened => \A k \in DOMAIN todo : \A i \in DOMAIN todo[k].batch :
    Started(stake[todo[k].c], todo[k].batch[i])

StakesInv ==
  /\ StakesAreOfClubs
  /\ BondsAreOfStakers
  /\ StartsWithinRound
  /\ UnpaidHaveStarted
  /\ TotalNeverOverstates

LEMMA StakesOnTotal ==
  ASSUME NEW st \in [Clubs -> StakeMap], NEW c \in Clubs
  PROVE  SumFunction([u \in {v \in Users : st[c][v] # NoStake} |-> st[c][u].amount]) = TotalIn(st[c])
<1> DEFINE R == {v \in Users : st[c][v] # NoStake}
           f == [u \in R |-> st[c][u].amount]
           g == AmountsIn(st[c])
<1>1. IsFiniteSet(Users) /\ IsFiniteSet(R) /\ R \in SUBSET Users
  BY ConstantsAssumption, FS_Subset
<1>2. \A u \in Users : g[u] \in Nat /\ g[u] = AmountIn(st[c], u)
  BY AmountTypes
<1>3. \A u \in R : f[u] \in Int /\ f[u] = g[u]
  BY <1>2 DEF AmountIn
<1>4. \A u \in Users : g[u] \in Int
  BY <1>2
<1>5. \A u \in Users \ R : g[u] = 0
  BY <1>2 DEF AmountIn
<1>6. DOMAIN f = R
  OBVIOUS
<1> HIDE DEF f, g, R
<1>7. SumFunctionOnSet(f, R) = SumFunctionOnSet(g, R)
  BY <1>1, <1>3, SumSame
<1>8. SumFunctionOnSet(g, Users) = SumFunctionOnSet(g, R)
  BY <1>1, <1>4, <1>5, SumPart
<1> QED BY <1>6, <1>7, <1>8 DEF TotalIn, SumFunction, f, g, R

LEMMA StakesOnIsTotal ==
  ASSUME TypeOK, TypeOK', NEW c \in Clubs
  PROVE  /\ StakesOn(c) = TotalIn(stake[c]) /\ StakesOn(c)' = TotalIn(stake'[c])
         /\ stake[c] \in StakeMap /\ stake'[c] \in StakeMap
         /\ TotalIn(stake[c]) \in Nat /\ TotalIn(stake'[c]) \in Nat
<1>1. stake \in [Clubs -> StakeMap] /\ stake' \in [Clubs -> StakeMap]
  BY DEF TypeOK, StakeMap
<1>2. StakesOn(c) = TotalIn(stake[c]) /\ StakesOn(c)' = TotalIn(stake'[c])
  BY <1>1, StakesOnTotal DEF StakesOn, QueryClubStakingDetails
<1> QED BY <1>1, <1>2, AmountTypes

(* What a call may do to the stakes and the total of club c: entries are    *)
(* changed one by one; none vanishes, one that appears starts now.          *)
StakesKept ==
  \A c \in Clubs, u \in Users :
    stake[c][u] # NoStake => /\ stake'[c][u] # NoStake
                             /\ stake'[c][u].start = stake[c][u].start
NewStakesStart ==
  \A c \in Clubs, u \in Users :
    stake[c][u] = NoStake /\ stake'[c][u] # NoStake => stake'[c][u].start = now

LEMMA OneStakeChanged ==
  ASSUME TypeOK, TypeOK', NEW c \in Clubs, NEW u \in Users, NEW s \in Stake,
         stake' = [stake EXCEPT ![c] = [@ EXCEPT ![u] = s]],
         IF stake[c][u] = NoStake THEN s.start = now ELSE s.start = stake[c][u].start
  PROVE  /\ StakesKept /\ NewStakesStart
         /\ \A d \in Clubs : d # c => stake'[d] = stake[d]
         /\ stake'[c][u] = s
         /\ \A v \in Users : v # u => stake'[c][v] = stake[c][v]
         /\ TotalIn(stake'[c]) = TotalIn(stake[c]) + (s.amount - AmountIn(stake[c], u))
<1>1. /\ \A d \in Clubs : d # c => stake'[d] = stake[d]
      /\ stake'[c][u] = s
      /\ \A v \in Users : v # u => stake'[c][v] = stake[c][v]
  BY DEF TypeOK
<1>2. s # NoStake
  BY ConstantsAssumption
<1>3. StakesKept /\ NewStakesStart
  BY <1>1, <1>2 DEF StakesKept, NewStakesStart
<1>4. AmountIn(stake'[c], u) = s.amount
  BY <1>1, <1>2 DEF AmountIn
<1>5. stake[c] \in StakeMap /\ stake'[c] \in StakeMap
  BY DEF TypeOK, StakeMap
<1>6. TotalIn(stake'[c]) = TotalIn(stake[c]) + (AmountIn(stake'[c], u) - AmountIn(stake[c], u))
  BY <1>1, <1>5, TotalUpdated
<1> QED BY <1>1, <1>3, <1>4, <1>6

HoldingsKept ==
  \A p \in Pairs : Holding(p[1], p[2])' < Holding(p[1], p[2]) =>
                     balance - balance' = Holding(p[1], p[2]) - Holding(p[1], p[2])'

(* What every step but a batch keeps of the stakes. *)
Keeps ==
  /\ StakesKept /\ NewStakesStart
  /\ StakesAreOfClubs' /\ BondsAreOfStakers' /\ TotalNeverOverstates'
  /\ HoldingsKept

LEMMA HoldingTypes ==
  ASSUME TypeOK, TypeOK', NEW c \in Clubs, NEW u \in Users
  PROVE  /\ Staked(c, u) \in Nat /\ Staked(c, u)' \in Nat
         /\ Bonded(c, u) \in Nat /\ Bonded(c, u)' \in Nat
         /\ Holding(c, u) \in Nat /\ Holding(c, u)' \in Nat
         /\ Staked(c, u) = AmountIn(stake[c], u) /\ Staked(c, u)' = AmountIn(stake'[c], u)
<1>1. Staked(c, u) \in Nat /\ Staked(c, u)' \in Nat
  BY DEF Staked, TypeOK, Stake
<1>2. Bonded(c, u) \in Nat /\ Bonded(c, u)' \in Nat
  BY BondWeights
<1>3. Holding(c, u) \in Nat /\ Holding(c, u)' \in Nat
  BY <1>1, <1>2 DEF Holding
<1> QED BY <1>1, <1>2, <1>3 DEF Staked, AmountIn

LEMMA SameHolding ==
  ASSUME TypeOK, TypeOK', NEW c \in Clubs, NEW u \in Users,
         stake'[c][u] = stake[c][u], bonds'[c][u] = bonds[c][u]
  PROVE  ~(Holding(c, u)' < Holding(c, u))
<1>1. Holding(c, u)' = Holding(c, u)
  BY DEF Holding, Staked, Bonded, AmountOf, QueryClubBondingDetailsForUser
<1> QED BY <1>1, HoldingTypes

LEMMA StakesUntouched ==
  ASSUME StakesInv, TypeOK, TypeOK', stake' = stake, bonds' = bonds,
         \A c \in Clubs : Founded(c) => Founded(c)',
         \A c \in Clubs : Founded(c)' => \/ Founded(c) /\ club'[c].total = club[c].total
                                         \/ club'[c].total = 0
  PROVE  Keeps
<1>1. StakesKept /\ NewStakesStart
  BY DEF StakesKept, NewStakesStart
<1>2. StakesAreOfClubs' /\ BondsAreOfStakers'
  BY DEF StakesInv, StakesAreOfClubs, BondsAreOfStakers, Founded
<1>3. TotalNeverOverstates'
  <2> SUFFICES ASSUME NEW c \in Clubs, Founded(c)' PROVE club'[c].total <= StakesOn(c)'
    BY DEF TotalNeverOverstates
  <2>1. StakesOn(c)' = StakesOn(c) /\ StakesOn(c) \in Nat
    BY StakesOnIsTotal
  <2>2. Founded(c) => club[c].total <= StakesOn(c)
    BY DEF StakesInv, TotalNeverOverstates
  <2> QED BY <2>1, <2>2
<1>4. HoldingsKept
  BY SameHolding DEF HoldingsKept, Pairs
<1> QED BY <1>1, <1>2, <1>3, <1>4 DEF Keeps

(* One stake of a founded club is set, and the club's total with it. *)
LEMMA OneStakeTotals ==
  ASSUME StakesInv, TypeOK, TypeOK', NEW c \in Clubs, NEW u \in Users, NEW s \in Stake,
         stake' = [stake EXCEPT ![c] = [@ EXCEPT ![u] = s]],
         IF stake[c][u] = NoStake THEN s.start = now ELSE s.start = stake[c][u].start,
         \A d \in Clubs : d # c => club'[d] = club[d],
         Founded(c)', NEW old \in Nat, NEW total \in Nat,
         IF Founded(c) THEN old = club[c].total ELSE old = 0, total = club'[c].total,
         total <= old + (s.amount - AmountIn(stake[c], u)),
         \A d \in Clubs, v \in Users :
           bonds'[d][v] # <<>> => bonds[d][v] # <<>> \/ stake'[d][v] # NoStake
  PROVE  /\ StakesKept /\ NewStakesStart
         /\ StakesAreOfClubs' /\ BondsAreOfStakers' /\ TotalNeverOverstates'
<1>1. /\ StakesKept /\ NewStakesStart
      /\ \A d \in Clubs : d # c => stake'[d] = stake[d]
      /\ stake'[c][u] = s
      /\ \A v \in Users : v # u => stake'[c][v] = stake[c][v]
      /\ TotalIn(stake'[c]) = TotalIn(stake[c]) + (s.amount - AmountIn(stake[c], u))
  BY OneStakeChanged
<1>2. StakesAreOfClubs'
  BY <1>1 DEF StakesInv, StakesAreOfClubs, Founded
<1>3. BondsAreOfStakers'
  BY <1>1 DEF StakesInv, BondsAreOfStakers, StakesKept
<1>4. TotalNeverOverstates'
  <2> SUFFICES ASSUME NEW d \in Clubs, Founded(d)' PROVE club'[d].total <= StakesOn(d)'
    BY DEF TotalNeverOverstates
  <2>1. /\ StakesOn(d) = TotalIn(stake[d]) /\ StakesOn(d)' = TotalIn(stake'[d])
        /\ TotalIn(stake[d]) \in Nat
    BY StakesOnIsTotal
  <2>2. Founded(d) => club[d].total <= TotalIn(stake[d])
    BY <2>1 DEF StakesInv, TotalNeverOverstates
  <2>3. CASE d # c
    <3>1. Founded(d) /\ club'[d] = club[d] /\ stake'[d] = stake[d]
      BY <1>1, <2>3 DEF Founded
    <3> QED BY <2>1, <2>2, <3>1
  <2>4. CASE d = c
    <3>1. old <= TotalIn(stake[c])
      BY <2>1, <2>2, <2>4
    <3>2. s.amount \in Nat /\ AmountIn(stake[c], u) \in Nat
      BY HoldingTypes DEF Stake
    <3> DEFINE after == TotalIn(stake'[c])
               more == s.amount - AmountIn(stake[c], u)
    <3>3. after = TotalIn(stake[c]) + more /\ more \in Int
      BY <1>1, <3>2
    <3>4. total <= old + more
      BY <3>2
    <3>5. TotalIn(stake[c]) \in Nat
      BY <2>1, <2>4
    <3> HIDE DEF after, more
    <3>6. total <= after
      BY <3>1, <3>3, <3>4, <3>5
    <3> QED BY <2>1, <2>4, <3>6 DEF after
  <2> QED BY <2>3, <2>4
<1> QED BY <1>1, <1>2, <1>3, <1>4

LEMMA TakeOverKeeps ==
  ASSUME StakesInv, TypeOK, TypeOK', NEW buyer \in Users, NEW seller, NEW c \in Clubs,
         NEW auto \in BOOLEAN, TakeOver(buyer, seller, c, auto)
  PROVE  Keeps
<1>1. /\ bonds' = bonds /\ club' = [club EXCEPT ![c] = BoughtClub(c, buyer)]
      /\ now \in Nat
  BY DEF TakeOver, TypeOK
<1>2. /\ \A d \in Clubs : d # c => club'[d] = club[d]
      /\ club'[c] = BoughtClub(c, buyer)
      /\ club'[c].total = IF Founded(c) THEN club[c].total ELSE 0
      /\ club'[c] \in ClubDetails
  <2>1. club'[c] = BoughtClub(c, buyer) /\ \A d \in Clubs : d # c => club'[d] = club[d]
    BY <1>1 DEF TypeOK
  <2>2. BoughtClub(c, buyer).total = IF Founded(c) THEN club[c].total ELSE 0
    BY DEF BoughtClub
  <2>3. BoughtClub(c, buyer) \in ClubDetails
    BY <1>1, ConstantsAssumption DEF BoughtClub, ClubDetails, TypeOK, Founded
  <2> QED BY <2>1, <2>2, <2>3
<1>3. Founded(c)'
  BY <1>2, ConstantsAssumption DEF Founded
<1>4. CASE stake[c][buyer] # NoStake
  <2>1. stake' = stake
    BY <1>4 DEF TakeOver
  <2>2. \A d \in Clubs : Founded(d) => Founded(d)'
    BY <1>2, <1>3 DEF Founded
  <2>3. \A d \in Clubs : Founded(d)' => \/ Founded(d) /\ club'[d].total = club[d].total
                                        \/ club'[d].total = 0
    BY <1>2 DEF Founded
  <2> QED BY <1>1, <2>1, <2>2, <2>3, StakesUntouched
<1>5. CASE stake[c][buyer] = NoStake
  <2> DEFINE s == NewStake(0, auto)
             total == IF Founded(c) THEN club[c].total ELSE 0
  <2>1. s \in Stake /\ s.start = now /\ s.amount = 0
    BY <1>1 DEF NewStake, Stake
  <2>2. stake' = [stake EXCEPT ![c] = [@ EXCEPT ![buyer] = s]]
    BY <1>5 DEF TakeOver
  <2>3. AmountIn(stake[c], buyer) = 0
    BY <1>5 DEF AmountIn
  <2>4. total \in Nat
    BY DEF TypeOK, Founded, ClubDetails
  <2>5. total = club'[c].total /\ (IF Founded(c) THEN total = club[c].total ELSE total = 0)
    BY <1>2
  <2> HIDE DEF s, total
  <2>6. total <= total + (s.amount - AmountIn(stake[c], buyer))
    BY <2>1, <2>3, <2>4
  <2>7. \A d \in Clubs, v \in Users :
           bonds'[d][v] # <<>> => bonds[d][v] # <<>> \/ stake'[d][v] # NoStake
    BY <1>1
  <2>8. /\ StakesKept /\ NewStakesStart
        /\ StakesAreOfClubs' /\ BondsAreOfStakers' /\ TotalNeverOverstates'
    BY <1>2, <1>3, <1>5, <2>1, <2>2, <2>4, <2>5, <2>6, <2>7, OneStakeTotals
  <2>9. HoldingsKept
    <3> SUFFICES ASSUME NEW d \in Clubs, NEW v \in Users
                 PROVE  ~(Holding(d, v)' < Holding(d, v))
      BY DEF HoldingsKept, Pairs
    <3>1. stake'[c][buyer] = s /\ (~(d = c /\ v = buyer) => stake'[d][v] = stake[d][v])
      BY <2>2 DEF TypeOK
    <3>2. CASE d = c /\ v = buyer
      <4>1. Staked(d, v) = 0 /\ Staked(d, v)' = 0
        BY <1>5, <2>1, <3>1, <3>2, ConstantsAssumption DEF Staked
      <4>2. Bonded(d, v)' = Bonded(d, v)
        BY <1>1 DEF Bonded, AmountOf, QueryClubBondingDetailsForUser
      <4>3. Holding(d, v)' = Holding(d, v)
        BY <4>1, <4>2 DEF Holding
      <4> QED BY <4>3, HoldingTypes
    <3>3. CASE ~(d = c /\ v = buyer)
      BY <1>1, <3>1, <3>3, SameHolding
    <3> QED BY <3>2, <3>3
  <2> QED BY <2>8, <2>9 DEF Keeps
<1> QED BY <1>4, <1>5

LEMMA OwnerCallKeeps ==
  ASSUME StakesInv, TypeOK, TypeOK', NEW sender \in Accounts, OwnerCall(sender)
  PROVE  Keeps
<1>1. PICK c \in Clubs, u \in Users :
        \/ \E seller \in Users \cup {NoUser}, auto \in BOOLEAN : TakeOver(u, seller, c, auto)
        \/ ReleaseClub(sender, u, c)
        \/ ClaimOwnerRewards(sender, u, c)
        \/ ClaimPreviousOwnerRewards(sender, u)
  BY DEF OwnerCall, BuyAClub, AssignAClub
<1>2. ASSUME NEW new, Founded(c), club' = [club EXCEPT ![c] = new], new \in ClubDetails,
             new.total = club[c].total
      PROVE  /\ \A d \in Clubs : Founded(d) => Founded(d)'
             /\ \A d \in Clubs : Founded(d)' => Founded(d) /\ club'[d].total = club[d].total
  BY <1>2, ConstantsAssumption DEF TypeOK, Founded
<1>3. CASE ReleaseClub(sender, u, c)
  <2> DEFINE new == [club[c] EXCEPT !.start = now, !.released = TRUE]
  <2>1. Founded(c) /\ club' = [club EXCEPT ![c] = new] /\ stake' = stake /\ bonds' = bonds
    BY <1>3 DEF ReleaseClub, stakeVars
  <2>2. new \in ClubDetails /\ new.total = club[c].total
    BY <2>1 DEF TypeOK, Founded, ClubDetails
  <2> HIDE DEF new
  <2> QED BY <1>2, <2>1, <2>2, StakesUntouched
<1>4. CASE ClaimOwnerRewards(sender, u, c)
  <2> DEFINE new == [club[c] EXCEPT !.reward = 0]
  <2>1. Founded(c) /\ club' = [club EXCEPT ![c] = new] /\ stake' = stake /\ bonds' = bonds
    BY <1>4 DEF ClaimOwnerRewards, stakeVars
  <2>2. new \in ClubDetails /\ new.total = club[c].total
    BY <2>1 DEF TypeOK, Founded, ClubDetails
  <2> HIDE DEF new
  <2> QED BY <1>2, <2>1, <2>2, StakesUntouched
<1>5. CASE ClaimPreviousOwnerRewards(sender, u)
  <2>1. club' = club /\ stake' = stake /\ bonds' = bonds
    BY <1>5 DEF ClaimPreviousOwnerRewards, stakeVars
  <2> QED BY <2>1, StakesUntouched DEF Founded
<1> QED BY <1>1, <1>3, <1>4, <1>5, TakeOverKeeps

LEMMA DepositKeeps ==
  ASSUME StakesInv, TypeOK, TypeOK', NEW u \in Users, NEW c \in Clubs,
         NEW amount \in StakeAmounts, NEW auto \in BOOLEAN, Deposit(u, c, amount, auto)
  PROVE  Keeps
<1> DEFINE s == IncreasedStake(stake[c][u], amount, auto)
           old == club[c].total
           total == club[c].total + amount
           before == AmountIn(stake[c], u)
<1>1. /\ Founded(c) /\ amount \in Nat /\ bonds' = bonds
      /\ stake' = [stake EXCEPT ![c] = [@ EXCEPT ![u] = s]]
      /\ club' = [club EXCEPT ![c].total = total]
  BY ConstantsAssumption DEF Deposit, TypeOK
<1>2. old \in Nat /\ total \in Nat /\ before \in Nat
  <2>1. old \in Nat
    BY <1>1 DEF TypeOK, Founded, ClubDetails
  <2> QED BY <1>1, <2>1, HoldingTypes
<1>3. /\ s \in Stake /\ s.amount >= before + amount
      /\ IF stake[c][u] = NoStake THEN s.start = now ELSE s.start = stake[c][u].start
  <2>1. CASE stake[c][u] = NoStake
    <3>1. s = NewStake(amount, auto) /\ before = 0
      BY <2>1 DEF IncreasedStake, AmountIn
    <3> QED BY <1>1, <2>1, <3>1 DEF NewStake, Stake, TypeOK
  <2>2. CASE stake[c][u] # NoStake
    <3> DEFINE o == stake[c][u]
               f == FoldedReward(o, auto)
    <3>1. o \in Stake /\ before = o.amount
      BY <2>2 DEF TypeOK, AmountIn
    <3>2. f \in Nat /\ o.reward - f \in Nat
      BY <3>1 DEF FoldedReward, Stake
    <3>3. s = [o EXCEPT !.amount = o.amount + amount + f, !.reward = o.reward - f, !.auto = auto]
      BY <2>2 DEF IncreasedStake
    <3> HIDE DEF o, f, s, before
    <3> DEFINE sum == o.amount + amount + f
               rest == o.reward - f
    <3>4. sum \in Nat /\ sum >= before + amount /\ rest \in Nat
      BY <1>1, <3>1, <3>2 DEF Stake
    <3>5. s = [o EXCEPT !.amount = sum, !.reward = rest, !.auto = auto]
      BY <3>3
    <3> HIDE DEF sum, rest
    <3>6. s \in Stake /\ s.start = o.start /\ s.amount = sum
      BY <3>1, <3>4, <3>5 DEF Stake
    <3> QED BY <2>2, <3>4, <3>6 DEF o
  <2> QED BY <2>1, <2>2
<1>4. /\ \A d \in Clubs : d # c => club'[d] = club[d]
      /\ Founded(c)' /\ total = club'[c].total
  <2>1. club[c] \in ClubDetails
    BY <1>1 DEF TypeOK, Founded
  <2>2. club'[c] = [club[c] EXCEPT !.total = total] /\ \A d \in Clubs : d # c => club'[d] = club[d]
    BY <1>1 DEF TypeOK
  <2> HIDE DEF total
  <2>3. club'[c].total = total
    BY <2>1, <2>2 DEF ClubDetails
  <2>4. club'[c] \in ClubDetails
    BY <1>2, <2>1, <2>2 DEF ClubDetails
  <2> QED BY <2>2, <2>3, <2>4, ConstantsAssumption DEF Founded
<1>5. s.amount \in Nat
  BY <1>3 DEF Stake
<1>6. total = old + amount
  OBVIOUS
<1>7. IF Founded(c) THEN old = club[c].total ELSE old = 0
  BY <1>1
<1> HIDE DEF s, old, total
<1>8. total <= old + (s.amount - before)
  <2> HIDE DEF before
  <2> QED BY <1>1, <1>2, <1>3, <1>5, <1>6
<1>9. \A d \in Clubs, v \in Users :
           bonds'[d][v] # <<>> => bonds[d][v] # <<>> \/ stake'[d][v] # NoStake
  BY <1>1
<1>10. /\ StakesKept /\ NewStakesStart
       /\ StakesAreOfClubs' /\ BondsAreOfStakers' /\ TotalNeverOverstates'
  BY <1>1, <1>2, <1>3, <1>4, <1>7, <1>8, <1>9, OneStakeTotals
<1>11. HoldingsKept
  <2> SUFFICES ASSUME NEW d \in Clubs, NEW v \in Users
               PROVE  ~(Holding(d, v)' < Holding(d, v))
    BY DEF HoldingsKept, Pairs
  <2>1. stake'[c][u] = s /\ (~(d = c /\ v = u) => stake'[d][v] = stake[d][v])
    BY <1>1 DEF TypeOK
  <2>2. CASE d = c /\ v = u
    <3>1. Bonded(d, v)' = Bonded(d, v)
      BY <1>1 DEF Bonded, AmountOf, QueryClubBondingDetailsForUser
    <3>2. Staked(d, v) = before /\ Staked(d, v)' = s.amount
      BY <1>3, <2>1, <2>2, ConstantsAssumption DEF Staked, AmountIn
    <3> DEFINE b == Bonded(d, v)
    <3>3. Holding(d, v) = before + b /\ Holding(d, v)' = s.amount + b /\ b \in Nat
      BY <3>1, <3>2, HoldingTypes DEF Holding
    <3> HIDE DEF b, before
    <3> QED BY <1>1, <1>2, <1>3, <1>5, <3>3
  <2>3. CASE ~(d = c /\ v = u)
    BY <1>1, <2>1, <2>3, SameHolding
  <2> QED BY <2>2, <2>3
<1> QED BY <1>10, <1>11 DEF Keeps

LEMMA BondStakeKeeps ==
  ASSUME StakesInv, TypeOK, TypeOK', NEW sender, NEW u \in Users, NEW c \in Clubs,
         NEW amount \in WithdrawAmounts, BondStake(sender, u, c, amount)
  PROVE  Keeps
<1> DEFINE o == stake[c][u]
           s == [o EXCEPT !.amount = o.amount - amount]
           old == club[c].total
           total == club[c].total - amount
           b == [start |-> now, amount |-> amount]
<1>1. /\ Founded(c) /\ amount \in Nat /\ o # NoStake /\ amount <= o.amount /\ amount <= old
      /\ stake' = [stake EXCEPT ![c] = [@ EXCEPT ![u] = s]]
      /\ club' = [club EXCEPT ![c].total = total]
      /\ bonds' = [bonds EXCEPT ![c] = [@ EXCEPT ![u] = AddBond(bonds[c][u], b)]]
  BY ConstantsAssumption DEF BondStake, MayWithdraw, TypeOK
<1>2. club[c] \in ClubDetails /\ old \in Nat /\ total \in Nat
  <2>1. club[c] \in ClubDetails
    BY <1>1 DEF TypeOK, Founded
  <2> QED BY <1>1, <2>1 DEF ClubDetails
<1>3. o \in Stake /\ s \in Stake /\ s.start = o.start /\ s.amount = o.amount - amount
  <2>1. o \in Stake
    BY <1>1 DEF TypeOK
  <2>2. o.amount - amount \in Nat
    BY <1>1, <2>1 DEF Stake
  <2> HIDE DEF o
  <2> QED BY <2>1, <2>2 DEF Stake
<1>4. AmountIn(stake[c], u) = o.amount /\ o.amount \in Nat
  BY <1>1, <1>3 DEF AmountIn, Stake
<1>5. /\ \A d \in Clubs : d # c => club'[d] = club[d]
      /\ Founded(c)' /\ total = club'[c].total
  <2>1. club'[c] = [club[c] EXCEPT !.total = total] /\ \A d \in Clubs : d # c => club'[d] = club[d]
    BY <1>1 DEF TypeOK
  <2> HIDE DEF total
  <2>2. club'[c].total = total /\ club'[c] \in ClubDetails
    BY <1>2, <2>1 DEF ClubDetails
  <2> QED BY <2>1, <2>2, ConstantsAssumption DEF Founded
<1>6. /\ bonds'[c][u] = AddBond(bonds[c][u], b)
      /\ stake'[c][u] = s
      /\ \A d \in Clubs, v \in Users : ~(d = c /\ v = u) =>
           bonds'[d][v] = bonds[d][v] /\ stake'[d][v] = stake[d][v]
  <2> DEFINE more == AddBond(bonds[c][u], b)
  <2>1. /\ stake' = [stake EXCEPT ![c] = [@ EXCEPT ![u] = s]]
        /\ bonds' = [bonds EXCEPT ![c] = [@ EXCEPT ![u] = more]]
    BY <1>1
  <2> HIDE DEF s, more
  <2>2. stake'[c][u] = s /\ bonds'[c][u] = more
    BY <2>1 DEF TypeOK
  <2>3. \A d \in Clubs, v \in Users : ~(d = c /\ v = u) => stake'[d][v] = stake[d][v]
    BY <2>1 DEF TypeOK
  <2>4. \A d \in Clubs, v \in Users : ~(d = c /\ v = u) => bonds'[d][v] = bonds[d][v]
    BY <2>1 DEF TypeOK
  <2> QED BY <2>2, <2>3, <2>4 DEF more
<1>7. s # NoStake
  BY <1>3, ConstantsAssumption
<1>8. total = old - amount
  OBVIOUS
<1>9. IF Founded(c) THEN old = club[c].total ELSE old = 0
  BY <1>1
<1>10. IF stake[c][u] = NoStake THEN s.start = now ELSE s.start = stake[c][u].start
  BY <1>1, <1>3
<1> HIDE DEF o, s, old, total
<1>11. total <= old + (s.amount - AmountIn(stake[c], u))
  <2>1. s.amount = o.amount - amount /\ AmountIn(stake[c], u) = o.amount /\ o.amount \in Nat
        /\ amount \in Nat /\ old \in Nat
    BY <1>1, <1>2, <1>3, <1>4
  <2> QED BY <1>8, <2>1
<1>12. \A d \in Clubs, v \in Users :
           bonds'[d][v] # <<>> => bonds[d][v] # <<>> \/ stake'[d][v] # NoStake
  BY <1>6, <1>7
<1>13. /\ StakesKept /\ NewStakesStart
       /\ StakesAreOfClubs' /\ BondsAreOfStakers' /\ TotalNeverOverstates'
  BY <1>1, <1>2, <1>3, <1>5, <1>9, <1>10, <1>11, <1>12, OneStakeTotals
<1>14. HoldingsKept
  <2> SUFFICES ASSUME NEW d \in Clubs, NEW v \in Users
               PROVE  ~(Holding(d, v)' < Holding(d, v))
    BY DEF HoldingsKept, Pairs
  <2>1. CASE d = c /\ v = u
    <3>1. b \in Bond /\ Amounts \in Measures /\ Amounts[b] = amount /\ bonds[c][u] \in Seq(Bond)
      BY <1>1, MeasureTypes DEF TypeOK, Bond, Amounts
    <3> HIDE DEF b
    <3>2. Weight(Amounts, AddBond(bonds[c][u], b)) = Weight(Amounts, bonds[c][u]) + amount
      BY <3>1, WeightAddBond
    <3> DEFINE x == Weight(Amounts, bonds[c][u])
    <3>3. Bonded(d, v) = x /\ Bonded(d, v)' = x + amount /\ x \in Nat
      BY <1>6, <2>1, <3>1, <3>2, BondWeights
    <3>4. Staked(d, v) = o.amount /\ Staked(d, v)' = o.amount - amount
      BY <1>3, <1>4, <1>6, <1>7, <2>1, HoldingTypes DEF AmountIn
    <3> HIDE DEF x
    <3>5. Holding(d, v) = o.amount + x /\ Holding(d, v)' = (o.amount - amount) + (x + amount)
      BY <3>3, <3>4 DEF Holding
    <3> QED BY <1>1, <1>4, <3>3, <3>5
  <2>2. CASE ~(d = c /\ v = u)
    BY <1>6, <2>2, SameHolding
  <2> QED BY <2>1, <2>2
<1> QED BY <1>13, <1>14 DEF Keeps

LEMMA HoldingPaid ==
  ASSUME NEW s \in Nat, NEW b \in Nat, NEW b2 \in Nat, NEW x, b - b2 = x
  PROVE  x = (s + b) - (s + b2)
OBVIOUS

LEMMA WithdrawMaturedKeeps ==
  ASSUME StakesInv, Inv, Inv', NEW sender \in Accounts, NEW u \in Users, NEW c \in Clubs,
         NEW amount \in WithdrawAmounts, WithdrawMatured(sender, u, c, amount)
  PROVE  Keeps
<1>0. TypeOK /\ TypeOK'
  BY DEF Inv
<1>1. /\ stake[c][u] # NoStake /\ stake' = stake /\ club' = club
      /\ bonds' = [bonds EXCEPT ![c] = [@ EXCEPT ![u] = DrainBonds(bonds[c][u], amount).kept]]
  BY <1>0 DEF WithdrawMatured, MayWithdraw, ownerVars, TypeOK
<1>2. \A d \in Clubs, v \in Users : ~(d = c /\ v = u) => bonds'[d][v] = bonds[d][v]
  BY <1>0, <1>1 DEF TypeOK
<1>3. StakesKept /\ NewStakesStart /\ StakesAreOfClubs'
  BY <1>1 DEF StakesKept, NewStakesStart, StakesInv, StakesAreOfClubs, Founded
<1>4. BondsAreOfStakers'
  BY <1>1, <1>2 DEF StakesInv, BondsAreOfStakers
<1>5. TotalNeverOverstates'
  BY <1>1 DEF StakesInv, TotalNeverOverstates, Founded, StakesOn, QueryClubStakingDetails
<1>6. HoldingsKept
  <2> SUFFICES ASSUME NEW d \in Clubs, NEW v \in Users, Holding(d, v)' < Holding(d, v)
               PROVE  balance - balance' = Holding(d, v) - Holding(d, v)'
    BY DEF HoldingsKept, Pairs
  <2>1. d = c /\ v = u
    BY <1>0, <1>1, <1>2, SameHolding
  <2>2. Bonded(c, u) - Bonded(c, u)' = balance - balance'
    BY WithdrawMaturedSettles
  <2>3. /\ Staked(c, u) \in Nat /\ Staked(c, u)' = Staked(c, u)
        /\ Bonded(c, u) \in Nat /\ Bonded(c, u)' \in Nat
    BY <1>0, <1>1, HoldingTypes DEF Staked
  <2> DEFINE s == Staked(c, u)
             b == Bonded(c, u)
             b2 == Bonded(c, u)'
             x == balance - balance'
  <2>4. Holding(d, v) = s + b /\ Holding(d, v)' = s + b2
    BY <2>1, <2>3 DEF Holding
  <2>5. s \in Nat /\ b \in Nat /\ b2 \in Nat /\ b - b2 = x
    BY <2>2, <2>3
  <2> HIDE DEF s, b, b2, x
  <2>6. x = (s + b) - (s + b2)
    BY <2>5, HoldingPaid
  <2> QED BY <2>4, <2>6 DEF x
<1> QED BY <1>3, <1>4, <1>5, <1>6 DEF Keeps

LEMMA WalletKeeps ==
  ASSUME StakesInv, Inv, Inv', WalletStep
  PROVE  Keeps
<1>0. TypeOK /\ TypeOK'
  BY DEF Inv
<1>1. CASE \E sender \in Accounts : OwnerCall(sender)
  BY <1>0, <1>1, OwnerCallKeeps
<1>2. CASE \E sender \in Accounts : StakerCall(sender)
  <2>1. PICK sender \in Accounts, c \in Clubs, u \in Users :
          \/ \E amount \in StakeAmounts, auto \in BOOLEAN : Deposit(u, c, amount, auto)
          \/ \E amount \in WithdrawAmounts :
               BondStake(sender, u, c, amount) \/ WithdrawMatured(sender, u, c, amount)
          \/ ClaimStakerRewards(sender, u, c)
    BY <1>2 DEF StakerCall, StakeOnAClub, AssignStakesToAClub
  <2>2. CASE ClaimStakerRewards(sender, u, c)
    <3>1. stake' = stake /\ bonds' = bonds /\ club' = club
      BY <2>2 DEF ClaimStakerRewards, stakeVars, ownerVars
    <3> QED BY <1>0, <3>1, StakesUntouched DEF Founded
  <2> QED BY <1>0, <2>1, <2>2, DepositKeeps, BondStakeKeeps, WithdrawMaturedKeeps
<1>3. CASE Environment
  <2>1. stake' = stake /\ bonds' = bonds /\ club' = club
    BY <1>3 DEF Environment, Tick, TokensArrive, stakeVars, ownerVars
  <2> QED BY <1>0, <2>1, StakesUntouched DEF Founded
<1> QED BY <1>1, <1>2, <1>3 DEF WalletStep

LEMMA CallNames ==
  ASSUME NEW calls \in Seq(Call), NEW k \in DOMAIN calls, NEW i \in DOMAIN calls[k].batch
  PROVE  calls[k].c \in Clubs /\ calls[k].batch[i] \in Users
<1>1. calls[k] \in Call
  OBVIOUS
<1>2. calls[k].c \in Clubs /\ calls[k].batch \in Seq(Users)
  BY <1>1, ConstantsAssumption DEF Call
<1> DEFINE batch == calls[k].batch
<1>3. batch \in Seq(Users) /\ i \in DOMAIN batch
  BY <1>2
<1> HIDE DEF batch
<1>4. batch[i] \in Users
  BY <1>3
<1> QED BY <1>2, <1>4 DEF batch

LEMMA StartRoundKeeps ==
  ASSUME JobInv, JobInv', StakesInv, StartRound
  PROVE  StakesInv' /\ HoldingsKept
<1>0. TypeOK /\ TypeOK'
  BY DEF JobInv, Inv
<1>1. /\ stake' = stake /\ bonds' = bonds /\ club' = club /\ now' = now
      /\ nextRewardTime' = nextRewardTime /\ todo = <<>>
  BY DEF StartRound, IncreaseRewardAmount, stakeVars, ownerVars
<1>2. Keeps
  BY <1>0, <1>1, StakesUntouched DEF Founded
<1>3. ~Opened /\ ~Opened'
  <2>1. QueryAllClubs \in SUBSET Clubs
    BY DEF QueryAllClubs
  <2> QED BY <1>1, <2>1, ScheduleIsRound DEF StartRound, Opened
<1>4. StartsWithinRound'
  BY <1>1, <1>3 DEF StakesInv, StartsWithinRound, Horizon
<1>5. UnpaidHaveStarted'
  BY <1>3 DEF UnpaidHaveStarted
<1> QED BY <1>2, <1>4, <1>5 DEF Keeps, StakesInv

(* The script stops before its first call was accepted. *)
LEMMA CallTooEarlyKeeps ==
  ASSUME JobInv, JobInv', StakesInv, CallTooEarly
  PROVE  StakesInv' /\ HoldingsKept
<1>0. TypeOK /\ TypeOK'
  BY DEF JobInv, Inv
<1>1. /\ stake' = stake /\ bonds' = bonds /\ club' = club /\ now' = now
      /\ nextRewardTime' = nextRewardTime /\ now < nextRewardTime /\ ~Opened'
  BY DEF CallTooEarly, vars, stakeVars, ownerVars, rewardVars, Opened
<1>2. Keeps
  BY <1>0, <1>1, StakesUntouched DEF Founded
<1>3. ~Opened
  BY <1>0, <1>1 DEF JobInv, TypeOK
<1>4. StartsWithinRound'
  BY <1>1, <1>3 DEF StakesInv, StartsWithinRound, Horizon
<1>5. UnpaidHaveStarted'
  BY <1>1 DEF UnpaidHaveStarted
<1> QED BY <1>2, <1>4, <1>5 DEF Keeps, StakesInv

(* When a batch is accepted, every stake the rest of the round names has    *)
(* started: the first call is accepted only once the round is due.          *)
LEMMA NamedHaveStarted ==
  ASSUME JobInv, StakesInv, PayNextBatch,
         NEW k \in DOMAIN todo, NEW i \in DOMAIN todo[k].batch
  PROVE  Started(stake[todo[k].c], todo[k].batch[i])
<1>1. CASE Opened
  BY <1>1 DEF StakesInv, UnpaidHaveStarted
<1>2. CASE ~Opened
  <2> DEFINE c == todo[k].c
             u == todo[k].batch[i]
  <2>1. c \in Clubs /\ u \in Users
    BY CallNames DEF JobInv, JobTypeOK
  <2>2. now >= nextRewardTime /\ now \in Nat /\ nextRewardTime \in Nat
    BY DEF PayNextBatch, CalculateAndDistributeRewards, DistributeNothing, DistributeBatch,
           RewardTimeReached, JobInv, Inv, TypeOK
  <2> HIDE DEF c, u
  <2>3. ASSUME stake[c][u] # NoStake PROVE stake[c][u].start <= now
    <3>1. stake[c][u].start \in Nat
      BY <2>1, <2>3 DEF JobInv, Inv, TypeOK, Stake
    <3>2. stake[c][u].start <= now \/ stake[c][u].start <= nextRewardTime
      BY <1>2, <2>1, <2>3 DEF StakesInv, StartsWithinRound, Horizon
    <3> QED BY <2>2, <3>1, <3>2
  <2> QED BY <2>3 DEF Started, c, u
<1> QED BY <1>1, <1>2

LEMMA HorizonOfNow ==
  ASSUME NEW t \in Nat, NEW now1 \in Nat, NEW now2 \in Nat, now1 <= now2
  PROVE  (IF t < now1 THEN t + RewardPeriodicity ELSE t)
           <= (IF t < now2 THEN t + RewardPeriodicity ELSE t)
<1>1. RewardPeriodicity \in Nat
  BY ConstantsAssumption
<1> QED BY <1>1

LEMMA WalletStepKeeps ==
  ASSUME JobInv, JobInv', StakesInv, WalletStep
  PROVE  StakesInv' /\ HoldingsKept
<1>0. TypeOK /\ TypeOK' /\ Inv /\ Inv'
  BY DEF JobInv, Inv
<1>1. /\ todo' = todo /\ nextRewardTime' = nextRewardTime /\ now <= now'
      /\ now \in Nat /\ now' \in Nat /\ nextRewardTime \in Nat /\ todo \in Seq(Call)
  <2>1. todo' = todo /\ nextRewardTime' = nextRewardTime /\ now' >= now
    BY <1>0, WalletsLeaveRewards DEF jobVars
  <2> QED BY <1>0, <2>1 DEF TypeOK, JobInv, JobTypeOK
<1>2. Keeps
  BY <1>0, WalletKeeps
<1>3. \A c \in Clubs, u \in Users : stake'[c][u] # NoStake =>
        /\ stake'[c][u].start \in Nat
        /\ \/ stake[c][u] # NoStake /\ stake'[c][u].start = stake[c][u].start
           \/ stake'[c][u].start = now
  BY <1>0, <1>2 DEF Keeps, StakesKept, NewStakesStart, TypeOK, Stake
<1>4. Horizon \in Nat /\ Horizon' \in Nat /\ Horizon <= Horizon'
  <2>1. Horizon \in Nat /\ Horizon' \in Nat
    <3>1. NextRound \in Nat /\ NextRound' \in Nat
      <4>1. RewardPeriodicity \in Nat /\ nextRewardTime' \in Nat
        BY <1>1, ConstantsAssumption
      <4> QED BY <1>1, <4>1 DEF NextRound
    <3> QED BY <1>1, <3>1 DEF Horizon
  <2>2. NextRound <= NextRound'
    BY <1>1, HorizonOfNow DEF NextRound
  <2>3. Opened' <=> Opened
    BY <1>1 DEF Opened
  <2> QED BY <1>1, <2>1, <2>2, <2>3 DEF Horizon
<1>5. StartsWithinRound'
  <2> SUFFICES ASSUME NEW c \in Clubs, NEW u \in Users, stake'[c][u] # NoStake
               PROVE  stake'[c][u].start <= now' \/ stake'[c][u].start <= Horizon'
    BY DEF StartsWithinRound
  <2> DEFINE x == stake'[c][u].start
  <2>1. x \in Nat /\ (x <= now \/ x <= Horizon)
    BY <1>1, <1>3 DEF StakesInv, StartsWithinRound
  <2> DEFINE now2 == now'
             horizon2 == Horizon'
  <2>2. now2 \in Nat /\ now <= now2 /\ horizon2 \in Nat /\ Horizon <= horizon2
    BY <1>1, <1>4
  <2> HIDE DEF x, now2, horizon2
  <2>3. x <= now2 \/ x <= horizon2
    BY <1>1, <1>4, <2>1, <2>2
  <2> QED BY <2>3 DEF x, now2, horizon2
<1>6. UnpaidHaveStarted'
  <2> SUFFICES ASSUME Opened, NEW k \in DOMAIN todo, NEW i \in DOMAIN todo[k].batch,
                      stake'[todo[k].c][todo[k].batch[i]] # NoStake
               PROVE  stake'[todo[k].c][todo[k].batch[i]].start <= now'
    BY <1>1 DEF UnpaidHaveStarted, Started, Opened
  <2>1. todo[k].c \in Clubs /\ todo[k].batch[i] \in Users
    BY <1>1, CallNames
  <2>2. Started(stake[todo[k].c], todo[k].batch[i])
    BY DEF StakesInv, UnpaidHaveStarted
  <2> DEFINE x == stake'[todo[k].c][todo[k].batch[i]].start
  <2>3. x \in Nat /\ x <= now
    BY <1>1, <1>3, <2>1, <2>2 DEF Started
  <2> DEFINE now2 == now'
  <2>4. now2 \in Nat /\ now <= now2
    BY <1>1
  <2> HIDE DEF x, now2
  <2>5. x <= now2
    BY <1>1, <2>3, <2>4
  <2> QED BY <2>5 DEF x, now2
<1> QED BY <1>2, <1>5, <1>6 DEF Keeps, StakesInv

(* What a batch of the job does to the stakes; when no reward is announced  *)
(* it does nothing.                                                         *)
LEMMA BatchGrows ==
  ASSUME JobInv, JobInv', StakesInv, PayNextBatch
  PROVE  LET c == Head(todo).c
             batch == Head(todo).batch
         IN  \E m \in StakeMap, added \in Nat :
               /\ Grown(stake[c], m, Named(batch, Len(batch)))
               /\ TotalIn(m) - added >= TotalIn(stake[c])
               /\ stake' = [stake EXCEPT ![c] = m]
               /\ \A d \in Clubs : Founded(d)' <=> Founded(d)
               /\ \A d \in Clubs : Founded(d) =>
                    club'[d].total = club[d].total + (IF d = c THEN added ELSE 0)
<1> DEFINE call == Head(todo)
           c == call.c
           batch == call.batch
<1>0. TypeOK /\ TypeOK' /\ Inv /\ AutoStakeHasNoPendingReward
  BY DEF JobInv, Inv
<1>1. /\ todo # <<>> /\ todo \in Seq(Call) /\ IsRound(todo) /\ 1 \in DOMAIN todo
      /\ call = todo[1] /\ c \in Clubs /\ batch \in Batches
      /\ call.first \in BOOLEAN /\ call.final \in BOOLEAN
      /\ CalculateAndDistributeRewards(Admin, batch, c, call.first, call.final)
  BY CallTypes DEF JobInv, JobTypeOK, PayNextBatch
<1>2. batch \in Seq(Users) /\ Admin \in Accounts
  BY <1>1, ConstantsAssumption DEF Accounts
<1>3. NamesOnce(batch)
  BY <1>1 DEF IsRound, NamesOnce
<1>4. \A i \in DOMAIN batch : Started(stake[c], batch[i])
  BY <1>1, NamedHaveStarted
<1>5. stake[c] \in StakeMap /\ TotalIn(stake[c]) \in Nat
  BY <1>0, <1>1, StakesOnIsTotal
<1>6. \A d \in Clubs : Founded(d) => club[d] \in ClubDetails /\ club[d].total \in Nat
  BY <1>0 DEF TypeOK, Founded, ClubDetails
<1>7. CASE DistributeNothing(Admin, call.final)
  <2>1. stake' = stake /\ club' = club
    BY <1>7 DEF DistributeNothing, stakeVars, ownerVars
  <2>2. stake' = [stake EXCEPT ![c] = stake[c]]
    BY <1>0, <2>1 DEF TypeOK
  <2>3. Grown(stake[c], stake[c], Named(batch, Len(batch)))
    BY <1>5 DEF Grown, StakeMap, Stake
  <2>4. \A d \in Clubs : Founded(d) => club'[d].total = club[d].total + (IF d = c THEN 0 ELSE 0)
    BY <1>6, <2>1
  <2>5. \A d \in Clubs : Founded(d)' <=> Founded(d)
    BY <2>1 DEF Founded
  <2>6. TotalIn(stake[c]) - 0 >= TotalIn(stake[c])
    BY <1>5
  <2> HIDE DEF c, batch
  <2> QED BY <1>5, <2>2, <2>3, <2>4, <2>5, <2>6 DEF c, batch
<1>8. CASE DistributeBatch(Admin, batch, c, call.first, call.final)
  <2>1. PICK p \in Payment : BatchPays(p, WinnersUsed(call.first), batch, c, call.first, call.final)
    BY <1>0, <1>1, <1>2, <1>8, BatchPayment
  <2> DEFINE w == WinnersUsed(call.first)
  <2>2. /\ w \in WinningDetails /\ MayBePaid(c, w) /\ p = PayBatch(batch, c, w) /\ Founded(c)
        /\ stake' = [stake EXCEPT ![c] = p.stakes]
        /\ club' = [club EXCEPT ![c].total = @ + p.added]
    BY <2>1 DEF BatchPays
  <2>3. p.stakes \in StakeMap /\ p.added \in Nat
    BY DEF Payment
  <2> HIDE DEF w, c, batch, call
  <2>4. /\ Grown(stake[c], p.stakes, Named(batch, Len(batch)))
        /\ TotalIn(p.stakes) - p.added >= TotalIn(stake[c])
    BY <1>0, <1>1, <1>2, <1>3, <1>4, <2>2, PayBatchGrows
  <2> DEFINE sum == club[c].total + p.added
             new == [club[c] EXCEPT !.total = sum]
  <2>5. club[c] \in ClubDetails /\ sum \in Nat /\ club' = [club EXCEPT ![c] = new]
    BY <1>1, <1>6, <2>2, <2>3
  <2>6. new \in ClubDetails /\ new.total = sum
    <3> HIDE DEF sum
    <3> QED BY <2>5 DEF ClubDetails
  <2>7. /\ club'[c] = new /\ \A d \in Clubs : d # c => club'[d] = club[d]
        /\ Founded(c) /\ new # NoClub
    <3> HIDE DEF new, sum
    <3>1. c \in Clubs
      BY <1>1 DEF c, call
    <3>2. club'[c] = new /\ \A d \in Clubs : d # c => club'[d] = club[d]
      BY <1>0, <2>5, <3>1 DEF TypeOK
    <3>3. new # NoClub
      BY <2>6, ConstantsAssumption
    <3> QED BY <2>2, <3>2, <3>3 DEF Founded
  <2>8. \A d \in Clubs : Founded(d)' <=> Founded(d)
    <3> SUFFICES ASSUME NEW d \in Clubs PROVE Founded(d)' <=> Founded(d)
      OBVIOUS
    <3> HIDE DEF new
    <3>1. CASE d = c
      BY <2>7, <3>1 DEF Founded
    <3>2. CASE d # c
      BY <2>7, <3>2 DEF Founded
    <3> QED BY <3>1, <3>2
  <2>9. \A d \in Clubs : Founded(d) =>
          club'[d].total = club[d].total + (IF d = c THEN p.added ELSE 0)
    <3> HIDE DEF new
    <3> QED BY <1>6, <2>6, <2>7
  <2> QED BY <2>2, <2>3, <2>4, <2>8, <2>9 DEF c, batch, call
<1> QED BY <1>1, <1>7, <1>8 DEF CalculateAndDistributeRewards

LEMMA PayNextBatchKeeps ==
  ASSUME JobInv, JobInv', StakesInv, PayNextBatch
  PROVE  StakesInv' /\ HoldingsKept
<1> DEFINE c == Head(todo).c
           batch == Head(todo).batch
<1>0. TypeOK /\ TypeOK'
  BY DEF JobInv, Inv
<1>1. /\ todo # <<>> /\ todo \in Seq(Call) /\ IsRound(todo) /\ 1 \in DOMAIN todo
      /\ Head(todo) = todo[1] /\ todo' = Tail(todo) /\ c \in Clubs /\ batch \in Seq(Users)
  BY CallTypes, ConstantsAssumption DEF JobInv, JobTypeOK, PayNextBatch
<1>2. /\ Tail(todo) \in Seq(Call)
      /\ \A k \in DOMAIN Tail(todo) : k \in Nat /\ k + 1 \in DOMAIN todo /\ Tail(todo)[k] = todo[k+1]
      /\ Head(todo).final <=> Tail(todo) = <<>>
  <2>1. \A k \in DOMAIN Tail(todo) : k \in Nat
    BY <1>1
  <2> QED BY <1>1, <2>1, TailOfRound
<1>3. PICK m \in StakeMap, added \in Nat :
        /\ Grown(stake[c], m, Named(batch, Len(batch)))
        /\ TotalIn(m) - added >= TotalIn(stake[c])
        /\ stake' = [stake EXCEPT ![c] = m]
        /\ \A d \in Clubs : Founded(d)' <=> Founded(d)
        /\ \A d \in Clubs : Founded(d) =>
             club'[d].total = club[d].total + (IF d = c THEN added ELSE 0)
  BY BatchGrows
<1>4. /\ now' = now /\ bonds' = bonds
      /\ nextRewardTime' = IF Head(todo).final THEN NextRound ELSE nextRewardTime
  BY <1>1 DEF PayNextBatch, CalculateAndDistributeRewards, DistributeNothing, DistributeBatch,
              stakeVars
<1>5. Horizon' = NextRound /\ Horizon <= NextRound /\ Horizon \in Nat /\ NextRound \in Nat
  <2>1. Opened' <=> Tail(todo) # <<>>
    BY <1>1, TailOfRound DEF Opened
  <2>2. /\ now \in Nat /\ nextRewardTime \in Nat /\ RewardPeriodicity \in Nat
        /\ NextRound \in Nat
    BY <1>0, NextRoundNat, ConstantsAssumption DEF TypeOK
  <2>3. nextRewardTime <= NextRound
    BY <2>2 DEF NextRound
  <2>4. Horizon' = NextRound
    BY <1>2, <1>4, <2>1 DEF Horizon, NextRound
  <2> QED BY <2>2, <2>3, <2>4 DEF Horizon
<1> HIDE DEF c, batch
<1>6. stake'[c] = m /\ \A d \in Clubs : d # c => stake'[d] = stake[d]
  BY <1>0, <1>1, <1>3 DEF TypeOK
<1>7. \A d \in Clubs, u \in Users :
        /\ stake'[d][u] = NoStake <=> stake[d][u] = NoStake
        /\ stake[d][u] # NoStake => /\ stake[d][u].amount <= stake'[d][u].amount
                                    /\ \/ stake'[d][u].start = stake[d][u].start
                                       \/ stake'[d][u].start = NextRound
        /\ ~(d = c /\ u \in Named(batch, Len(batch))) => stake'[d][u] = stake[d][u]
  <2> SUFFICES ASSUME NEW d \in Clubs, NEW u \in Users
               PROVE  /\ stake'[d][u] = NoStake <=> stake[d][u] = NoStake
                      /\ stake[d][u] # NoStake => /\ stake[d][u].amount <= stake'[d][u].amount
                                                  /\ \/ stake'[d][u].start = stake[d][u].start
                                                     \/ stake'[d][u].start = NextRound
                      /\ ~(d = c /\ u \in Named(batch, Len(batch))) => stake'[d][u] = stake[d][u]
    OBVIOUS
  <2>1. CASE d = c
    BY <1>3, <1>6, <2>1 DEF Grown
  <2>2. CASE d # c
    <3>1. stake[d][u] # NoStake => stake[d][u].amount \in Nat
      BY <1>0 DEF TypeOK, Stake
    <3> QED BY <1>6, <2>2, <3>1
  <2> QED BY <2>1, <2>2
<1>8. StakesAreOfClubs'
  <2>1. \A d \in Clubs, u \in Users : stake'[d][u] # NoStake => Founded(d)'
    BY <1>3, <1>7 DEF StakesInv, StakesAreOfClubs
  <2> QED BY <2>1 DEF StakesAreOfClubs
<1>9. BondsAreOfStakers'
  BY <1>4, <1>7 DEF StakesInv, BondsAreOfStakers
<1>10. StartsWithinRound'
  <2> SUFFICES ASSUME NEW d \in Clubs, NEW u \in Users, stake'[d][u] # NoStake
               PROVE  stake'[d][u].start <= now' \/ stake'[d][u].start <= Horizon'
    BY DEF StartsWithinRound
  <2>1. stake[d][u] # NoStake
    BY <1>7
  <2>2. stake[d][u].start <= now \/ stake[d][u].start <= NextRound
    <3>1. stake[d][u].start \in Nat
      BY <1>0, <2>1 DEF TypeOK, Stake
    <3>2. stake[d][u].start <= now \/ stake[d][u].start <= Horizon
      BY <2>1 DEF StakesInv, StartsWithinRound
    <3> QED BY <1>5, <3>1, <3>2
  <2>3. stake'[d][u].start = stake[d][u].start \/ stake'[d][u].start = NextRound
    BY <1>7, <2>1
  <2> QED BY <1>4, <1>5, <2>2, <2>3
<1>11. UnpaidHaveStarted'
  <2> SUFFICES ASSUME NEW k \in DOMAIN Tail(todo), NEW i \in DOMAIN Tail(todo)[k].batch,
                      stake'[Tail(todo)[k].c][Tail(todo)[k].batch[i]] # NoStake
               PROVE  stake'[Tail(todo)[k].c][Tail(todo)[k].batch[i]].start <= now'
    BY <1>1 DEF UnpaidHaveStarted, Started
  <2> DEFINE d == todo[k+1].c
             u == todo[k+1].batch[i]
  <2>1. /\ k + 1 \in DOMAIN todo /\ i \in DOMAIN todo[k+1].batch /\ k \in Nat
        /\ Tail(todo)[k] = todo[k+1] /\ k \in 1..Len(Tail(todo))
    BY <1>2
  <2>2. d \in Clubs /\ u \in Users
    BY <1>1, <2>1, CallNames
  <2>3. ~(d = c /\ u \in Named(batch, Len(batch)))
    <3> SUFFICES ASSUME d = c, u \in Named(batch, Len(batch)) PROVE FALSE
      OBVIOUS
    <3>1. PICK j \in 1..Len(batch) : u = batch[j]
      BY DEF Named
    <3>2. j \in DOMAIN batch
      BY <1>1
    <3>3. todo[1].c = todo[k+1].c /\ todo[1].batch[j] = todo[k+1].batch[i]
      BY <1>1, <3>1 DEF c, batch
    <3>4. j \in DOMAIN todo[1].batch
      BY <1>1, <3>2 DEF batch
    <3>5. 1 = k + 1
      BY <1>1, <2>1, <3>3, <3>4, ZenonT(30) DEF IsRound
    <3> QED BY <2>1, <3>5
  <2>4. Started(stake[d], u)
    BY <2>1, NamedHaveStarted
  <2>5. stake'[d][u] = stake[d][u]
    BY <1>7, <2>2, <2>3
  <2>6. stake'[d][u] # NoStake
    BY <2>1
  <2>7. stake'[d][u].start <= now'
    BY <1>4, <2>4, <2>5, <2>6 DEF Started
  <2> QED BY <2>1, <2>7
<1>12. TotalNeverOverstates'
  <2> SUFFICES ASSUME NEW d \in Clubs, Founded(d)' PROVE club'[d].total <= StakesOn(d)'
    BY DEF TotalNeverOverstates
  <2>1. /\ StakesOn(d) = TotalIn(stake[d]) /\ StakesOn(d)' = TotalIn(stake'[d])
        /\ TotalIn(stake[d]) \in Nat /\ TotalIn(stake'[d]) \in Nat
    BY <1>0, StakesOnIsTotal
  <2>2. Founded(d) /\ club[d].total <= TotalIn(stake[d]) /\ club[d].total \in Nat
    BY <1>0, <1>3, <2>1 DEF StakesInv, TotalNeverOverstates, TypeOK, Founded, ClubDetails
  <2>3. club'[d].total = club[d].total + (IF d = c THEN added ELSE 0)
    BY <1>3, <2>2
  <2>4. CASE d = c
    <3> DEFINE old == club[c].total
               before == TotalIn(stake[c])
               after == TotalIn(m)
    <3>1. /\ old \in Nat /\ before \in Nat /\ after \in Nat /\ old <= before
          /\ after - added >= before
      BY <1>3, <1>6, <2>1, <2>2, <2>4
    <3>2. club'[d].total = old + added /\ StakesOn(d)' = after
      BY <1>6, <2>1, <2>3, <2>4
    <3> HIDE DEF old, before, after
    <3>3. old + added <= after
      BY <3>1
    <3> QED BY <3>2, <3>3
  <2>5. CASE d # c
    <3>1. club'[d].total = club[d].total /\ stake'[d] = stake[d]
      BY <1>6, <2>2, <2>3, <2>5
    <3> QED BY <2>1, <2>2, <3>1
  <2> QED BY <2>4, <2>5
<1>13. HoldingsKept
  <2> SUFFICES ASSUME NEW d \in Clubs, NEW u \in Users
               PROVE  ~(Holding(d, u)' < Holding(d, u))
    BY DEF HoldingsKept, Pairs
  <2>1. Bonded(d, u)' = Bonded(d, u) /\ Bonded(d, u) \in Nat
    BY <1>0, <1>4, HoldingTypes DEF Bonded, AmountOf, QueryClubBondingDetailsForUser
  <2>2. Staked(d, u) \in Nat /\ Staked(d, u)' \in Nat /\ Staked(d, u) <= Staked(d, u)'
    BY <1>0, <1>7, HoldingTypes DEF Staked
  <2> DEFINE s == Staked(d, u)
             s2 == Staked(d, u)'
             b == Bonded(d, u)
  <2>3. Holding(d, u) = s + b /\ Holding(d, u)' = s2 + b
    BY <2>1 DEF Holding
  <2>4. s \in Nat /\ s2 \in Nat /\ b \in Nat /\ s <= s2
    BY <2>1, <2>2
  <2> HIDE DEF s, s2, b
  <2> QED BY <2>3, <2>4
<1> QED BY <1>8, <1>9, <1>10, <1>11, <1>12, <1>13 DEF StakesInv


(* No deposit is anywhere before the first call.                            *)
LEMMA StakesInitInv == JobInit => StakesInv
<1> SUFFICES ASSUME JobInit PROVE StakesInv
  OBVIOUS
<1>1. /\ todo = <<>> /\ \A c \in Clubs : club[c] = NoClub
      /\ \A c \in Clubs, u \in Users : stake[c][u] = NoStake /\ bonds[c][u] = <<>>
  BY DEF JobInit, Init
<1> QED BY <1>1 DEF StakesInv, StakesAreOfClubs, BondsAreOfStakers, StartsWithinRound,
                    UnpaidHaveStarted, TotalNeverOverstates, Founded, Opened

LEMMA StakesNextInv ==
  ASSUME JobInv, JobInv', StakesInv, [UninterruptedNext]_allVars
  PROVE  StakesInv' /\ [HoldingsKept]_vars
<1>1. CASE StartRound
  BY <1>1, StartRoundKeeps
<1>2. CASE PayNextBatch
  BY <1>2, PayNextBatchKeeps
<1>3. CASE WalletStep
  BY <1>3, WalletStepKeeps
<1>4. CASE CallTooEarly
  BY <1>4, CallTooEarlyKeeps
<1>5. CASE UNCHANGED allVars
  <2>1. /\ todo' = todo /\ UNCHANGED vars
        /\ stake' = stake /\ bonds' = bonds /\ club' = club /\ now' = now
        /\ nextRewardTime' = nextRewardTime
    BY <1>5 DEF allVars, jobVars, vars, stakeVars, ownerVars, rewardVars
  <2>2. StakesAreOfClubs' /\ BondsAreOfStakers'
    BY <2>1 DEF StakesInv, StakesAreOfClubs, BondsAreOfStakers, Founded
  <2>3. StartsWithinRound' /\ UnpaidHaveStarted'
    BY <2>1 DEF StakesInv, StartsWithinRound, UnpaidHaveStarted, Started, Horizon, NextRound,
                  Opened
  <2>4. TotalNeverOverstates'
    <3> SUFFICES ASSUME NEW c \in Clubs, Founded(c)' PROVE club'[c].total <= StakesOn(c)'
      BY DEF TotalNeverOverstates
    <3>1. TypeOK /\ TypeOK'
      BY DEF JobInv, Inv
    <3>2. StakesOn(c)' = StakesOn(c)
      BY <2>1, <3>1, StakesOnIsTotal
    <3>3. club[c].total <= StakesOn(c)
      BY <2>1 DEF StakesInv, TotalNeverOverstates, Founded
    <3> QED BY <2>1, <3>2, <3>3
  <2> QED BY <2>1, <2>2, <2>3, <2>4 DEF StakesInv
<1> QED BY <1>1, <1>2, <1>3, <1>4, <1>5 DEF UninterruptedNext

LEMMA UninterruptedInvariance == UninterruptedSpec => [](JobInv /\ StakesInv)
<1>1. JobInit => JobInv /\ StakesInv
  BY JobInitInv, StakesInitInv
<1>2. JobInv /\ StakesInv /\ [UninterruptedNext]_allVars => (JobInv /\ StakesInv)'
  <2> SUFFICES ASSUME JobInv, StakesInv, [UninterruptedNext]_allVars
               PROVE  JobInv' /\ StakesInv'
    OBVIOUS
  <2>1. [JobNext]_allVars
    BY DEF UninterruptedNext, JobNext
  <2>2. JobInv'
    BY <2>1, JobNextInv
  <2> QED BY <2>2, StakesNextInv
<1> QED BY <1>1, <1>2, PTL DEF UninterruptedSpec

(* While no round is cut short, the total a club is ranked by never exceeds *)
(* the stakes on it: wallets may deposit, bond, withdraw and take clubs     *)
(* over between any two batches.                                            *)
THEOREM TotalsAreCovered == UninterruptedSpec => []TotalNeverOverstates
<1>1. StakesInv => TotalNeverOverstates
  BY DEF StakesInv
<1> QED BY <1>1, UninterruptedInvariance, PTL

(* While no round is cut short, what a wallet has staked and bonded on a    *)
(* club shrinks only by what the contract sends that wallet in that step.   *)
THEOREM HoldingsAreKept == UninterruptedSpec => HoldingsNeverVanish
<1>1. /\ JobInv /\ StakesInv /\ (JobInv /\ StakesInv)' /\ [UninterruptedNext]_allVars
      => [\A p \in Pairs :
            Holding(p[1], p[2])' < Holding(p[1], p[2]) =>
              balance - balance' = Holding(p[1], p[2]) - Holding(p[1], p[2])']_vars
  BY StakesNextInv DEF HoldingsKept
<1> QED BY <1>1, UninterruptedInvariance, PTL DEF UninterruptedSpec, HoldingsNeverVanish

(* While no round is cut short, the administrator's queries list every      *)
(* stake and every bond, and a bond is never left without the stake entry   *)
(* its withdrawal insists on.                                               *)
THEOREM StakesAreListed == UninterruptedSpec => []BondsHaveStake
<1>1. JobInv /\ StakesInv => BondsHaveStake
  <2> SUFFICES ASSUME JobInv, StakesInv PROVE BondsHaveStake
    OBVIOUS
  <2>1. \A p \in Pairs : stake[p[1]][p[2]] # NoStake => p \in QueryAllStakes(Users)
    BY DEF StakesInv, StakesAreOfClubs, Pairs, QueryAllStakes, QueryAllClubs
  <2>2. ASSUME NEW p \in Pairs, NEW i \in DOMAIN bonds[p[1]][p[2]]
        PROVE  p \in QueryAllClubs \X Users
    <3>1. p[1] \in Clubs /\ p[2] \in Users /\ p = <<p[1], p[2]>>
      BY DEF Pairs
    <3>2. bonds[p[1]][p[2]] # <<>>
      BY <2>2
    <3>3. stake[p[1]][p[2]] # NoStake
      BY <3>1, <3>2 DEF StakesInv, BondsAreOfStakers
    <3>4. p[1] \in QueryAllClubs
      BY <3>1, <3>3 DEF StakesInv, StakesAreOfClubs, QueryAllClubs
    <3> QED BY <3>1, <3>4
  <2>3. \A p \in Pairs : \A i \in DOMAIN bonds[p[1]][p[2]] : <<p, i>> \in QueryAllBonds(Users)
    BY <2>2 DEF QueryAllBonds
  <2>4. ASSUME NEW b \in QueryAllBonds(Users) PROVE b[1] \in QueryAllStakes(Users)
    <3>1. PICK p \in QueryAllClubs \X Users : b \in {p} \X DOMAIN bonds[p[1]][p[2]]
      BY DEF QueryAllBonds
    <3>2. b[1] = p /\ b[2] \in DOMAIN bonds[p[1]][p[2]]
      BY <3>1
    <3>3. p[1] \in Clubs /\ p[2] \in Users /\ bonds[p[1]][p[2]] # <<>>
      BY <3>1, <3>2 DEF QueryAllClubs
    <3>4. stake[p[1]][p[2]] # NoStake
      BY <3>3 DEF StakesInv, BondsAreOfStakers
    <3> QED BY <3>1, <3>2, <3>4 DEF QueryAllStakes
  <2> QED BY <2>1, <2>3, <2>4 DEF BondsHaveStake
<1> QED BY <1>1, UninterruptedInvariance, PTL
=============================================================================
