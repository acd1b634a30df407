-------------------------- MODULE ClubStakingProofs --------------------------
(***************************************************************************)
(* What holds of the club-staking contract for any number of clubs and     *)
(* wallets and any values of its configuration.  The invariant Inv is      *)
(* inductive: its parts use each other only through TypeOK, except that    *)
(* the bonds a withdrawal stores must not be longer than those it read.    *)
(* On it rest the sums: what owners are due, what lists of bonds weigh,    *)
(* and what the contract owes altogether.  The ranking needs, besides,     *)
(* that no club counts more than the supply of the token.                  *)
(***************************************************************************)
EXTENDS ClubStaking, InductionLemmas, FiniteSetTheorems, SequenceTheorems

StakeMap == [Users -> Stake \cup {NoStake}]
NothingPending(m) == \A u \in Users : m[u] # NoStake /\ m[u].auto => m[u].reward = 0

(* Arithmetic the provers do not find by themselves. *)
LEMMA MulNat ==
  ASSUME NEW a \in Nat, NEW b \in Nat
  PROVE  a * b \in Nat
OBVIOUS

LEMMA DivNat ==
  ASSUME NEW a \in Nat, NEW b \in Nat
  PROVE  Div(a, b) \in Nat
BY DEF Div

LEMMA ClubsFinite == IsFiniteSet(Clubs)
BY ConstantsAssumption, FS_Interval DEF Clubs

LEMMA CountOfClubs ==
  ASSUME NEW S \in SUBSET Clubs
  PROVE  Cardinality(S) \in Nat
<1>1. IsFiniteSet(Clubs)
  BY ConstantsAssumption, FS_Interval DEF Clubs
<1> QED BY <1>1, FS_Subset, FS_CardinalityType

-----------------------------------------------------------------------------
(* The ranking of the clubs *)

ScanState == [count : Nat, total : Nat, inWinning : Nat, winners : SUBSET Clubs,
              inc : Int, best : Nat]

LEMMA ScanClubType ==
  ASSUME TypeOK, NEW a \in ScanState, NEW c \in Clubs
  PROVE  ScanClub(a, c) \in ScanState
<1>1. CASE ~Founded(c)
  BY <1>1 DEF ScanClub
<1>2. CASE Founded(c)
  <2> DEFINE t == club[c].total
             diff == t - snapshot[c]
             counted == [a EXCEPT !.count = @ + 1, !.total = @ + t]
  <2>1. t \in Nat /\ diff \in Int
    BY <1>2 DEF TypeOK, Founded, ClubDetails
  <2> HIDE DEF t, diff
  <2>2. counted \in ScanState
    <3>1. a.count + 1 \in Nat /\ a.total + t \in Nat
      BY <2>1 DEF ScanState
    <3> QED BY <3>1 DEF ScanState
  <2>3. [counted EXCEPT !.inc = diff, !.best = t, !.inWinning = t, !.winners = {c}] \in ScanState
    BY <2>1, <2>2 DEF ScanState
  <2>4. [counted EXCEPT !.best = t, !.inWinning = t, !.winners = @ \cup {c}] \in ScanState
    BY <2>1, <2>2 DEF ScanState
  <2> QED BY <1>2, <2>2, <2>3, <2>4 DEF ScanClub, t, diff
<1> QED BY <1>1, <1>2

(* The values of the scan, club by club. *)
IsScan(scan) ==
  /\ scan[0] = StartOfScan
  /\ \A c \in Clubs : scan[c] = ScanClub(scan[c-1], c)
  /\ \A c \in 0..NumClubs : scan[c] \in ScanState
  /\ WinningClubs = [count |-> scan[NumClubs].count, total |-> scan[NumClubs].total,
                     inWinning |-> scan[NumClubs].inWinning,
                     winners |-> scan[NumClubs].winners]

LEMMA ScanExists ==
  ASSUME TypeOK
  PROVE  \E scan : IsScan(scan)
<1> DEFINE scan == CHOOSE f : f = [c \in 0..NumClubs |->
                     IF c = 0 THEN StartOfScan ELSE ScanClub(f[c-1], c)]
           step == [c \in 1..NumClubs |-> [a \in ScanState |-> ScanClub(a, c)]]
<1>1. NumClubs \in Nat /\ StartOfScan \in ScanState
  BY ConstantsAssumption DEF StartOfScan, ScanState
<1>2. step \in [1..NumClubs -> [ScanState -> ScanState]]
  BY ScanClubType DEF Clubs
<1>3. PICK f : IsLoop(f, NumClubs, ScanState, StartOfScan, step)
  <2> HIDE DEF step
  <2> QED BY <1>1, <1>2, LoopExists
<1>4. f = [c \in 0..NumClubs |-> IF c = 0 THEN StartOfScan ELSE ScanClub(f[c-1], c)]
  <2>1. ASSUME NEW c \in 1..NumClubs PROVE f[c] = ScanClub(f[c-1], c)
    <3>1. c - 1 \in 0..NumClubs
      BY <1>1
    <3>2. f[c-1] \in ScanState
      BY <1>3, <3>1 DEF IsLoop
    <3> QED BY <1>3, <3>2 DEF IsLoop
  <2> HIDE DEF step
  <2> QED BY <1>3, <2>1 DEF IsLoop
<1>5. scan = [c \in 0..NumClubs |-> IF c = 0 THEN StartOfScan ELSE ScanClub(scan[c-1], c)]
  BY <1>4
<1> DEFINE P == {c \in 0..NumClubs : scan[c] \in ScanState}
<1>9. WinningClubs = [count |-> scan[NumClubs].count, total |-> scan[NumClubs].total,
                      inWinning |-> scan[NumClubs].inWinning,
                      winners |-> scan[NumClubs].winners]
  BY DEF WinningClubs, scan
<1> HIDE DEF scan
<1>6. 0 \in P
  BY <1>1, <1>5
<1>7. ASSUME NEW c \in 1..NumClubs, c - 1 \in P PROVE c \in P
  BY <1>5, <1>7, ScanClubType DEF Clubs
<1>8. \A c \in 0..NumClubs : scan[c] \in ScanState
  <2> HIDE DEF P
  <2>1. 0..NumClubs \subseteq P
    BY <1>1, <1>6, <1>7, UpTo
  <2> QED BY <1>1, <2>1 DEF P
<1>10. scan[0] = StartOfScan /\ \A c \in Clubs : scan[c] = ScanClub(scan[c-1], c)
  BY <1>1, <1>5 DEF Clubs
<1> QED BY <1>8, <1>9, <1>10 DEF IsScan

LEMMA WinningClubsType ==
  ASSUME TypeOK
  PROVE  WinningClubs \in WinningDetails
<1>1. PICK scan : IsScan(scan)
  BY ScanExists
<1>2. NumClubs \in 0..NumClubs
  BY ConstantsAssumption
<1>3. scan[NumClubs] \in ScanState
  BY <1>1, <1>2 DEF IsScan
<1> QED BY <1>1, <1>3 DEF IsScan, ScanState, WinningDetails

-----------------------------------------------------------------------------
(* The batch loop of the distribution *)

(* A club outside the winners is only paid if there is such a club.         *)
MayBePaid(c, w) == IsWinningClub(c, w) \/ OtherClubCount(w) > 0

Payment == {p \in [stakes : StakeMap, given : Nat, added : Nat] : NothingPending(p.stakes)}

LEMMA PercentNat ==
  ASSUME TypeOK, NEW k \in Nat
  PROVE  (reward * k) \div 100 \in Nat
<1>1. reward \in Nat
  BY DEF TypeOK
<1> DEFINE n == reward * k
<1>2. n \in Nat
  BY <1>1, MulNat
<1> HIDE DEF n
<1>3. n \div 100 \in Nat
  BY <1>2
<1> QED BY <1>3 DEF n

LEMMA OwnerShareNat ==
  ASSUME TypeOK, NEW c \in Clubs, NEW w \in WinningDetails, MayBePaid(c, w)
  PROVE  OwnerShare(c, w) \in Nat
<1>1. Cardinality(w.winners) \in Nat /\ w.count \in Nat
  BY CountOfClubs DEF WinningDetails
<1>2. reward \div 100 \in Nat /\ (reward * 3) \div 100 \in Nat /\ (reward * 2) \div 100 \in Nat
  BY PercentNat DEF TypeOK
<1>3. CASE c \in w.winners /\ OtherClubCount(w) > 0
  BY <1>1, <1>2, <1>3, DivNat DEF OwnerShare, IsWinningClub
<1>4. CASE c \in w.winners /\ ~(OtherClubCount(w) > 0)
  <2>1. OtherClubCount(w) <= 0
    BY <1>1, <1>4 DEF OtherClubCount
  <2> QED BY <1>1, <1>2, <1>4, <2>1, DivNat DEF OwnerShare, IsWinningClub
<1>5. CASE c \notin w.winners
  <2>1. OtherClubCount(w) \in Nat
    BY <1>1, <1>5 DEF MayBePaid, IsWinningClub, OtherClubCount
  <2> QED BY <1>2, <1>5, <2>1, DivNat DEF OwnerShare, IsWinningClub
<1> QED BY <1>3, <1>4, <1>5

LEMMA RewardOfStakeNat ==
  ASSUME TypeOK, NEW c \in Clubs, NEW w \in WinningDetails, MayBePaid(c, w),
         NEW u \in Users, NEW s \in Stake
  PROVE  RewardOfStake(s, u, c, w) \in Nat
<1>1. s.amount \in Nat /\ w.total \in Nat /\ w.inWinning \in Nat
  BY DEF Stake, WinningDetails
<1>2. WinningStakersShare(c, w) \in Nat
  <2>1. Cardinality(w.winners) \in Nat
    BY CountOfClubs DEF WinningDetails
  <2> QED BY <2>1, PercentNat, DivNat DEF WinningStakersShare, IsWinningClub
<1>3. Div(((reward * 78) \div 100) * s.amount, w.total) \in Nat
  <2>1. (reward * 78) \div 100 \in Nat
    BY PercentNat
  <2> QED BY <1>1, <2>1, MulNat, DivNat
<1>4. Div(WinningStakersShare(c, w) * s.amount, w.inWinning) \in Nat
  BY <1>1, <1>2, MulNat, DivNat
<1>5. (IF u = club[c].owner THEN OwnerShare(c, w) ELSE 0) \in Nat
  BY OwnerShareNat
<1> QED BY <1>3, <1>4, <1>5 DEF RewardOfStake

LEMMA NextRoundNat ==
  ASSUME TypeOK
  PROVE  NextRound \in Nat
BY ConstantsAssumption DEF TypeOK, NextRound

LEMMA PayStakerType ==
  ASSUME TypeOK, NEW c \in Clubs, NEW w \in WinningDetails, MayBePaid(c, w),
         NEW u \in Users, NEW p \in Payment
  PROVE  PayStaker(p, u, c, w) \in Payment
<1> DEFINE s == p.stakes[u]
           r == RewardOfStake(s, u, c, w)
<1>1. p.stakes \in StakeMap /\ p.given \in Nat /\ p.added \in Nat /\ NothingPending(p.stakes)
  BY DEF Payment
<1>2. CASE s = NoStake
  BY <1>2 DEF PayStaker
<1>3. CASE s # NoStake /\ s.start > now
  <2>1. [p.stakes EXCEPT ![u] = NoStake] \in StakeMap
    BY <1>1 DEF StakeMap
  <2>2. NothingPending([p.stakes EXCEPT ![u] = NoStake])
    BY <1>1 DEF StakeMap, NothingPending
  <2> QED BY <1>1, <1>3, <2>1, <2>2 DEF PayStaker, Payment
<1>4. CASE s # NoStake /\ ~(s.start > now)
  <2>1. s \in Stake
    BY <1>1, <1>4 DEF StakeMap
  <2>2. r \in Nat
    BY <2>1, RewardOfStakeNat
  <2> HIDE DEF r
  <2>3. RewardedStake(s, r) \in Stake
    <3>1. s.amount + r + s.reward \in Nat /\ s.reward + r \in Nat
      BY <2>1, <2>2 DEF Stake
    <3> QED BY <2>1, <3>1, NextRoundNat DEF RewardedStake, Stake
  <2>4. RewardedStake(s, r).auto => RewardedStake(s, r).reward = 0
    BY <2>1 DEF RewardedStake, Stake
  <2> DEFINE m == [p.stakes EXCEPT ![u] = RewardedStake(s, r)]
  <2>5. m \in StakeMap
    BY <1>1, <2>3 DEF StakeMap
  <2>6. NothingPending(m)
    BY <1>1, <2>4 DEF StakeMap, NothingPending
  <2>7. p.given + r \in Nat /\ p.added + (IF s.auto THEN r ELSE 0) \in Nat
    BY <1>1, <2>2
  <2>8. PayStaker(p, u, c, w) = [stakes |-> m, given |-> p.given + r,
                                 added |-> p.added + (IF s.auto THEN r ELSE 0)]
    BY <1>4 DEF PayStaker, r
  <2> HIDE DEF m
  <2> QED BY <2>5, <2>6, <2>7, <2>8 DEF Payment
<1> QED BY <1>2, <1>3, <1>4

(* What holds before the loop and is kept by its body holds of the batch.  *)
LEMMA PayBatchLoop ==
  ASSUME TypeOK, AutoStakeHasNoPendingReward, NEW c \in Clubs, NEW w \in WinningDetails,
         MayBePaid(c, w), NEW batch \in Seq(Users), NEW P,
         <<0, [stakes |-> stake[c], given |-> 0, added |-> 0]>> \in P,
         \A i \in 1..Len(batch), p \in Payment :
           <<i-1, p>> \in P => <<i, PayStaker(p, batch[i], c, w)>> \in P
  PROVE  /\ PayBatch(batch, c, w) \in Payment
         /\ <<Len(batch), PayBatch(batch, c, w)>> \in P
<1> DEFINE N == Len(batch)
           base == [stakes |-> stake[c], given |-> 0, added |-> 0]
           pay == CHOOSE f : f = [i \in 0..N |->
                    IF i = 0 THEN base ELSE PayStaker(f[i-1], batch[i], c, w)]
           step == [i \in 1..N |-> [p \in Payment |-> PayStaker(p, batch[i], c, w)]]
<1>1. N \in Nat /\ \A i \in 1..N : batch[i] \in Users
  OBVIOUS
<1>2. base \in Payment
  BY DEF Payment, StakeMap, NothingPending, TypeOK, AutoStakeHasNoPendingReward
<1>3. step \in [1..N -> [Payment -> Payment]]
  BY <1>1, PayStakerType
<1>4. PayBatch(batch, c, w) = pay[N]
  BY DEF PayBatch
<1>0. /\ <<0, base>> \in P
      /\ \A i \in 1..N, p \in Payment :
           <<i-1, p>> \in P => <<i, PayStaker(p, batch[i], c, w)>> \in P
  OBVIOUS
<1> HIDE DEF N, base
<1>5. PICK f : IsLoop(f, N, Payment, base, step)
  <2> HIDE DEF step
  <2> QED BY <1>1, <1>2, <1>3, LoopExists
<1>6. f = [i \in 0..N |-> IF i = 0 THEN base ELSE PayStaker(f[i-1], batch[i], c, w)]
  <2>1. ASSUME NEW i \in 1..N PROVE f[i] = PayStaker(f[i-1], batch[i], c, w)
    <3>1. i - 1 \in 0..N
      BY <1>1
    <3>2. f[i-1] \in Payment
      BY <1>5, <3>1 DEF IsLoop
    <3> QED BY <1>5, <3>2 DEF IsLoop
  <2> HIDE DEF step
  <2> QED BY <1>5, <2>1 DEF IsLoop
<1>7. pay = [i \in 0..N |-> IF i = 0 THEN base ELSE PayStaker(pay[i-1], batch[i], c, w)]
  BY <1>6
<1> HIDE DEF pay
<1> DEFINE Q == {i \in 0..N : pay[i] \in Payment /\ <<i, pay[i]>> \in P}
<1>8. 0 \in Q
  BY <1>0, <1>1, <1>2, <1>7
<1>9. ASSUME NEW i \in 1..N, i - 1 \in Q PROVE i \in Q
  <2>1. pay[i] = PayStaker(pay[i-1], batch[i], c, w) /\ pay[i-1] \in Payment
    BY <1>1, <1>7, <1>9
  <2>2. pay[i] \in Payment
    BY <1>1, <2>1, PayStakerType
  <2>3. <<i, pay[i]>> \in P
    BY <1>0, <1>9, <2>1
  <2> QED BY <2>2, <2>3
<1>10. N \in Q
  <2> HIDE DEF Q
  <2>1. 0..N \subseteq Q
    BY <1>1, <1>8, <1>9, UpTo
  <2> QED BY <1>1, <2>1
<1> QED BY <1>4, <1>10 DEF N

LEMMA PayBatchType ==
  ASSUME TypeOK, AutoStakeHasNoPendingReward, NEW c \in Clubs, NEW w \in WinningDetails,
         MayBePaid(c, w), NEW batch \in Seq(Users)
  PROVE  PayBatch(batch, c, w) \in Payment
<1> DEFINE P == Nat \X Payment
           base == [stakes |-> stake[c], given |-> 0, added |-> 0]
<1>1. <<0, base>> \in P
  BY DEF Payment, StakeMap, NothingPending, TypeOK, AutoStakeHasNoPendingReward
<1>2. \A i \in 1..Len(batch), p \in Payment :
        <<i-1, p>> \in P => <<i, PayStaker(p, batch[i], c, w)>> \in P
  BY PayStakerType
<1> HIDE DEF P
<1> QED BY <1>1, <1>2, PayBatchLoop

-----------------------------------------------------------------------------
(* Bonds *)

LEMMA AddBondType ==
  ASSUME NEW s \in Seq(Bond), NEW b \in Bond
  PROVE  /\ AddBond(s, b) \in Seq(Bond)
         /\ Len(AddBond(s, b)) = Len(s) + 1
<1> DEFINE later == {i \in DOMAIN s : s[i].start >= b.start}
           k == Cardinality(later)
<1>1. k \in 0..Len(s)
  <2>1. IsFiniteSet(1..Len(s)) /\ Cardinality(1..Len(s)) = Len(s)
    <3>1. Len(s) \in Nat
      OBVIOUS
    <3> QED BY <3>1, FS_Interval
  <2>2. later \subseteq 1..Len(s)
    OBVIOUS
  <2> HIDE DEF later
  <2>3. k \in Nat /\ k <= Cardinality(1..Len(s))
    BY <2>1, <2>2, FS_Subset, FS_CardinalityType
  <2> QED BY <2>1, <2>3
<1> HIDE DEF k
<1>2. SubSeq(s, 1, k) \in Seq(Bond) /\ Len(SubSeq(s, 1, k)) = k
  BY <1>1
<1>3. SubSeq(s, k + 1, Len(s)) \in Seq(Bond) /\ Len(SubSeq(s, k + 1, Len(s))) = Len(s) - k
  BY <1>1
<1>4. AddBond(s, b) = SubSeq(s, 1, k) \o <<b>> \o SubSeq(s, k + 1, Len(s))
  BY DEF AddBond, k
<1> DEFINE head == SubSeq(s, 1, k)
           tail == SubSeq(s, k + 1, Len(s))
<1> HIDE DEF head, tail
<1>5. head \in Seq(Bond) /\ Len(head) = k /\ <<b>> \in Seq(Bond) /\ Len(<<b>>) = 1
  BY <1>1, <1>2 DEF head
<1>6. tail \in Seq(Bond) /\ Len(tail) = Len(s) - k
  BY <1>1, <1>3 DEF tail
<1>7. head \o <<b>> \in Seq(Bond) /\ Len(head \o <<b>>) = k + 1
  BY <1>1, <1>5, ConcatProperties
<1> DEFINE front == head \o <<b>>
<1> HIDE DEF front
<1>8. front \o tail \in Seq(Bond) /\ Len(front \o tail) = Len(front) + Len(tail)
  <2>1. front \in Seq(Bond) /\ tail \in Seq(Bond)
    BY <1>6, <1>7 DEF front
  <2> QED BY <2>1, ConcatProperties, Zenon
<1>9. AddBond(s, b) = front \o tail
  BY <1>4 DEF head, tail, front
<1>10. Len(s) \in Nat /\ k \in Nat
  BY <1>1
<1>11. Len(front) = k + 1
  BY <1>7 DEF front
<1> HIDE DEF tail
<1> DEFINE whole == front \o tail
<1>12. whole \in Seq(Bond) /\ Len(whole) = Len(front) + Len(tail) /\ AddBond(s, b) = whole
  BY <1>8, <1>9
<1> HIDE DEF whole
<1> QED BY <1>6, <1>10, <1>11, <1>12

Drained == [left : Nat, kept : Seq(Bond)]

LEMMA TakeFromBondType ==
  ASSUME NEW d \in Drained, NEW b \in Bond
  PROVE  /\ TakeFromBond(d, b) \in Drained
         /\ Len(TakeFromBond(d, b).kept) <= Len(d.kept) + 1
<1>1. d.left \in Nat /\ d.kept \in Seq(Bond) /\ b.amount \in Nat
  BY DEF Drained, Bond
<1>2. CASE ~Mature(b) \/ d.left = 0
  <2>1. TakeFromBond(d, b) = [d EXCEPT !.kept = Append(@, b)]
    BY <1>2 DEF TakeFromBond
  <2>2. Append(d.kept, b) \in Seq(Bond) /\ Len(Append(d.kept, b)) = Len(d.kept) + 1
    BY <1>1
  <2> QED BY <1>1, <2>1, <2>2, SMTT(20) DEF Drained
<1>3. CASE ~(~Mature(b) \/ d.left = 0) /\ b.amount > d.left
  <2>1. [b EXCEPT !.amount = @ - d.left] \in Bond
    BY <1>1, <1>3 DEF Bond
  <2> DEFINE rest == [b EXCEPT !.amount = @ - d.left]
  <2> HIDE DEF rest
  <2>2. TakeFromBond(d, b) = [left |-> 0, kept |-> Append(d.kept, rest)]
    BY <1>3 DEF TakeFromBond, rest
  <2> QED BY <1>1, <2>1, <2>2 DEF Drained, rest
<1>4. CASE ~(~Mature(b) \/ d.left = 0) /\ ~(b.amount > d.left)
  <2>1. d.left - b.amount \in Nat
    BY <1>1, <1>4
  <2>2. TakeFromBond(d, b) = [d EXCEPT !.left = @ - b.amount]
    BY <1>4 DEF TakeFromBond
  <2> QED BY <1>1, <2>1, <2>2 DEF Drained
<1> QED BY <1>2, <1>3, <1>4

(* A withdrawal stores at most as many bonds as it read.                    *)
LEMMA DrainBondsType ==
  ASSUME NEW s \in Seq(Bond), NEW amount \in Nat
  PROVE  /\ DrainBonds(s, amount) \in Drained
         /\ Len(DrainBonds(s, amount).kept) <= Len(s)
<1> DEFINE N == Len(s)
           base == [left |-> amount, kept |-> <<>>]
           drain == CHOOSE f : f = [i \in 0..N |->
                      IF i = 0 THEN base ELSE TakeFromBond(f[i-1], s[i])]
           step == [i \in 1..N |-> [d \in Drained |-> TakeFromBond(d, s[i])]]
<1>1. N \in Nat /\ \A i \in 1..N : s[i] \in Bond
  OBVIOUS
<1>2. base \in Drained /\ Len(base.kept) = 0
  BY DEF Drained
<1>3. step \in [1..N -> [Drained -> Drained]]
  BY <1>1, TakeFromBondType
<1>4. DrainBonds(s, amount) = drain[N]
  BY DEF DrainBonds
<1> HIDE DEF N, base
<1>5. PICK f : IsLoop(f, N, Drained, base, step)
  <2> HIDE DEF step
  <2> QED BY <1>1, <1>2, <1>3, LoopExists
<1>6. f = [i \in 0..N |-> IF i = 0 THEN base ELSE TakeFromBond(f[i-1], s[i])]
  <2>1. ASSUME NEW i \in 1..N PROVE f[i] = TakeFromBond(f[i-1], s[i])
    <3>1. i - 1 \in 0..N
      BY <1>1
    <3>2. f[i-1] \in Drained
      BY <1>5, <3>1 DEF IsLoop
    <3> QED BY <1>5, <3>2 DEF IsLoop
  <2> HIDE DEF step
  <2> QED BY <1>5, <2>1 DEF IsLoop
<1>7. drain = [i \in 0..N |-> IF i = 0 THEN base ELSE TakeFromBond(drain[i-1], s[i])]
  BY <1>6
<1> HIDE DEF drain
<1> DEFINE P == {i \in 0..N : drain[i] \in Drained /\ Len(drain[i].kept) <= i}
<1>8. 0 \in P
  BY <1>1, <1>2, <1>7
<1>9. ASSUME NEW i \in 1..N, i - 1 \in P PROVE i \in P
  <2>1. drain[i-1] \in Drained /\ Len(drain[i-1].kept) <= i - 1
    BY <1>9
  <2>2. drain[i] = TakeFromBond(drain[i-1], s[i])
    BY <1>1, <1>7
  <2>3. drain[i] \in Drained /\ Len(drain[i].kept) <= Len(drain[i-1].kept) + 1
    BY <1>1, <2>1, <2>2, TakeFromBondType
  <2>4. Len(drain[i-1].kept) \in Nat /\ Len(drain[i].kept) \in Nat
    BY <2>1, <2>3 DEF Drained
  <2> QED BY <1>1, <2>1, <2>3, <2>4
<1>10. N \in P
  <2> HIDE DEF P
  <2>1. \A i \in 1..N : i - 1 \in P => i \in P
    BY <1>9
  <2>2. 0..N \subseteq P
    BY <1>1, <1>8, <2>1, UpTo
  <2> QED BY <1>1, <2>2
<1> QED BY <1>4, <1>10 DEF N

-----------------------------------------------------------------------------
(* The inductive invariant *)

Inv ==
  /\ TypeOK
  /\ OneClubPerOwner
  /\ ReleasedByOwner
  /\ AutoStakeHasNoPendingReward
  /\ BondsWithinLimit

LEMMA InitInv ==
  ASSUME Init
  PROVE  Inv
<1> USE ConstantsAssumption DEF Init
<1>1. TypeOK
  <2>1. NoWinners \in WinningDetails
    BY DEF NoWinners, WinningDetails
  <2>2. nextRewardTime \in Nat
    BY DEF StartTime
  <2> QED BY <2>1, <2>2 DEF TypeOK, StartTime
<1>2. OneClubPerOwner /\ ReleasedByOwner
  BY DEF OneClubPerOwner, ReleasedByOwner, Founded
<1>3. AutoStakeHasNoPendingReward /\ BondsWithinLimit
  BY DEF AutoStakeHasNoPendingReward, BondsWithinLimit
<1> QED BY <1>1, <1>2, <1>3 DEF Inv

(* What SaleNeedsConsent says of one step. *)
SoldWithConsent ==
  \A c \in Clubs :
    Founded(c) /\ club'[c].owner # club[c].owner => consent[c] = club[c].owner

LEMMA TakeOverInv ==
  ASSUME Inv, NEW buyer \in Users, NEW seller \in Users \cup {NoUser}, NEW c \in Clubs,
         NEW auto \in BOOLEAN, TakeOver(buyer, seller, c, auto)
  PROVE  Inv' /\ SoldWithConsent
<1> USE ConstantsAssumption DEF Inv, TakeOver
<1>1. BoughtClub(c, buyer) \in ClubDetails
  BY DEF BoughtClub, ClubDetails, TypeOK, Founded
<1>2. DuesAfterSale(c, seller) \in [Users -> Nat]
  <2>1. CASE Founded(c)
    <3>1. seller \in Users /\ club[c].reward \in Nat
      BY <2>1 DEF ForSale, TypeOK, Founded, ClubDetails
    <3> QED BY <2>1, <3>1 DEF DuesAfterSale, TypeOK
  <2>2. CASE ~Founded(c)
    BY <2>2 DEF DuesAfterSale, TypeOK
  <2> QED BY <2>1, <2>2
<1>3. NewStake(0, auto) \in Stake
  BY DEF NewStake, Stake, TypeOK
<1>4. TypeOK'
  <2>1. club' \in [Clubs -> ClubDetails \cup {NoClub}]
    BY <1>1 DEF TypeOK
  <2>2. stake' \in [Clubs -> [Users -> Stake \cup {NoStake}]]
    BY <1>3 DEF TypeOK
  <2>3. consent' \in [Clubs -> Accounts \cup {NoUser}]
    BY DEF TypeOK
  <2> QED BY <1>2, <2>1, <2>2, <2>3 DEF TypeOK, rewardVars
<1>5. club'[c].owner = buyer /\ club'[c].released = FALSE /\ club'[c] # NoClub
  BY <1>1 DEF TypeOK, BoughtClub
<1>6. \A d \in Clubs : d # c => club'[d] = club[d]
  BY DEF TypeOK
<1>7. OneClubPerOwner'
  BY <1>5, <1>6 DEF OneClubPerOwner, OwnsNoClub, Founded
<1>8. ReleasedByOwner'
  BY <1>5, <1>6 DEF ReleasedByOwner, Founded, TypeOK
<1>9. AutoStakeHasNoPendingReward'
  <2>1. NewStake(0, auto).reward = 0
    BY DEF NewStake
  <2> QED BY <2>1 DEF AutoStakeHasNoPendingReward, TypeOK
<1>10. BondsWithinLimit'
  BY DEF BondsWithinLimit
<1>11. SoldWithConsent
  BY <1>6 DEF SoldWithConsent, ForSale, ReleasedByOwner
<1> QED BY <1>4, <1>7, <1>8, <1>9, <1>10, <1>11

LEMMA ReleaseClubInv ==
  ASSUME Inv, NEW sender \in Accounts, NEW owner \in Users, NEW c \in Clubs,
         ReleaseClub(sender, owner, c)
  PROVE  Inv' /\ SoldWithConsent
<1> USE ConstantsAssumption DEF Inv, ReleaseClub
<1>1. club[c] \in ClubDetails
  BY DEF TypeOK, Founded
<1>2. TypeOK'
  <2>1. club' \in [Clubs -> ClubDetails \cup {NoClub}]
    BY <1>1 DEF TypeOK, ClubDetails
  <2> QED BY <2>1 DEF TypeOK, stakeVars, rewardVars
<1>3. \A d \in Clubs : club'[d] # NoClub => club[d] # NoClub /\ club'[d].owner = club[d].owner
  BY <1>1 DEF TypeOK, ClubDetails, Founded
<1>4. OneClubPerOwner'
  BY <1>3 DEF OneClubPerOwner, Founded
<1>5. ReleasedByOwner'
  BY <1>1, <1>3 DEF ReleasedByOwner, Founded, TypeOK
<1>6. AutoStakeHasNoPendingReward' /\ BondsWithinLimit'
  BY DEF AutoStakeHasNoPendingReward, BondsWithinLimit, stakeVars
<1>7. SoldWithConsent
  <2>1. \A d \in Clubs : Founded(d) => club'[d].owner = club[d].owner
    BY <1>1 DEF TypeOK, ClubDetails, Founded
  <2> QED BY <2>1 DEF SoldWithConsent
<1> QED BY <1>2, <1>4, <1>5, <1>6, <1>7

(* Owners, release flags and consent as a step that only credits a club     *)
(* leaves them.                                                             *)
OwnersKept ==
  /\ consent' = consent
  /\ \A d \in Clubs : /\ club'[d] # NoClub <=> club[d] # NoClub
                      /\ club[d] # NoClub => /\ club'[d].owner = club[d].owner
                                             /\ club'[d].released = club[d].released

LEMMA OwnersKeptInv ==
  ASSUME Inv, OwnersKept
  PROVE  OneClubPerOwner' /\ ReleasedByOwner' /\ SoldWithConsent
BY DEF Inv, OwnersKept, OneClubPerOwner, ReleasedByOwner, SoldWithConsent, Founded

(* The details of one club change, but neither its owner nor its release.   *)
LEMMA ClubUpdate ==
  ASSUME TypeOK, NEW c \in Clubs, Founded(c), NEW new \in ClubDetails,
         new.owner = club[c].owner, new.released = club[c].released,
         club' = [club EXCEPT ![c] = new], consent' = consent
  PROVE  OwnersKept /\ club' \in [Clubs -> ClubDetails \cup {NoClub}]
<1>1. new # NoClub
  BY ConstantsAssumption
<1>2. club' \in [Clubs -> ClubDetails \cup {NoClub}]
  BY DEF TypeOK
<1>3. \A d \in Clubs : club'[d] = IF d = c THEN new ELSE club[d]
  BY DEF TypeOK
<1> QED BY <1>1, <1>2, <1>3 DEF OwnersKept, Founded

LEMMA ClaimOwnerRewardsInv ==
  ASSUME Inv, NEW sender \in Accounts, NEW owner \in Users, NEW c \in Clubs,
         ClaimOwnerRewards(sender, owner, c)
  PROVE  Inv' /\ SoldWithConsent
<1> USE DEF Inv, ClaimOwnerRewards, PayReward
<1> DEFINE new == [club[c] EXCEPT !.reward = 0]
<1>1. club[c] \in ClubDetails /\ club[c].reward \in Nat
  BY DEF TypeOK, Founded, ClubDetails
<1>2. new \in ClubDetails /\ new.owner = club[c].owner /\ new.released = club[c].released
  BY <1>1 DEF ClubDetails
<1>3. club' = [club EXCEPT ![c] = new]
  OBVIOUS
<1> HIDE DEF new
<1>4. OwnersKept /\ club' \in [Clubs -> ClubDetails \cup {NoClub}]
  BY <1>2, <1>3, ClubUpdate
<1>5. TypeOK'
  <2>1. balance' \in Nat
    BY <1>1 DEF TypeOK
  <2> QED BY <1>4, <2>1 DEF TypeOK, stakeVars, rewardVars
<1>6. AutoStakeHasNoPendingReward' /\ BondsWithinLimit'
  BY DEF AutoStakeHasNoPendingReward, BondsWithinLimit, stakeVars
<1> QED BY <1>4, <1>5, <1>6, OwnersKeptInv

LEMMA ClaimPreviousOwnerRewardsInv ==
  ASSUME Inv, NEW sender \in Accounts, NEW owner \in Users,
         ClaimPreviousOwnerRewards(sender, owner)
  PROVE  Inv' /\ SoldWithConsent
<1> USE DEF Inv, ClaimPreviousOwnerRewards, PayReward
<1>1. TypeOK'
  BY DEF TypeOK, stakeVars, rewardVars
<1>2. OwnersKept
  BY DEF OwnersKept
<1>3. AutoStakeHasNoPendingReward' /\ BondsWithinLimit'
  BY DEF AutoStakeHasNoPendingReward, BondsWithinLimit, stakeVars
<1> QED BY <1>1, <1>2, <1>3, OwnersKeptInv

(* One stake changes, to one without a pending reward if it is on auto-stake. *)
LEMMA StakeUpdate ==
  ASSUME TypeOK, AutoStakeHasNoPendingReward, NEW c \in Clubs, NEW u \in Users,
         NEW new \in Stake, new.auto => new.reward = 0,
         stake' = [stake EXCEPT ![c][u] = new]
  PROVE  /\ stake' \in [Clubs -> [Users -> Stake \cup {NoStake}]]
         /\ AutoStakeHasNoPendingReward'
<1>1. stake \in [Clubs -> [Users -> Stake \cup {NoStake}]]
  BY DEF TypeOK
<1>2. stake' \in [Clubs -> [Users -> Stake \cup {NoStake}]]
  BY <1>1
<1>3. \A d \in Clubs, v \in Users :
        stake'[d][v] = IF d = c /\ v = u THEN new ELSE stake[d][v]
  BY <1>1
<1>4. \A d \in Clubs, v \in Users :
        stake'[d][v] # NoStake /\ stake'[d][v].auto => stake'[d][v].reward = 0
  BY <1>3 DEF AutoStakeHasNoPendingReward
<1> QED BY <1>2, <1>4 DEF AutoStakeHasNoPendingReward

LEMMA DepositInv ==
  ASSUME Inv, NEW staker \in Users, NEW c \in Clubs, NEW amount \in StakeAmounts,
         NEW auto \in BOOLEAN, Deposit(staker, c, amount, auto)
  PROVE  Inv' /\ SoldWithConsent
<1> USE DEF Inv, Deposit
<1> DEFINE new == [club[c] EXCEPT !.total = @ + amount]
           s == stake[c][staker]
           t == IncreasedStake(s, amount, auto)
<1>1. amount \in Nat
  BY ConstantsAssumption
<1>2. club[c] \in ClubDetails /\ club[c].total + amount \in Nat
  BY <1>1 DEF TypeOK, Founded, ClubDetails
<1>3. new \in ClubDetails /\ new.owner = club[c].owner /\ new.released = club[c].released
  BY <1>2 DEF ClubDetails
<1>4. club' = [club EXCEPT ![c] = new]
  OBVIOUS
<1> HIDE DEF new
<1>5. OwnersKept /\ club' \in [Clubs -> ClubDetails \cup {NoClub}]
  BY <1>3, <1>4, ClubUpdate
<1>6. t \in Stake /\ (t.auto => t.reward = 0)
  <2>1. CASE s = NoStake
    BY <1>1, <2>1 DEF IncreasedStake, NewStake, Stake, TypeOK
  <2>2. CASE s # NoStake
    <3>1. s \in Stake
      BY <2>2 DEF TypeOK
    <3>2. FoldedReward(s, auto) = IF auto THEN s.reward ELSE 0
      BY <2>2 DEF FoldedReward
    <3>3. s.amount \in Nat /\ s.reward \in Nat /\ s.start \in Nat
      BY <3>1 DEF Stake
    <3>4. /\ s.amount + amount + FoldedReward(s, auto) \in Nat
          /\ s.reward - FoldedReward(s, auto) = IF auto THEN 0 ELSE s.reward
      BY <1>1, <3>2, <3>3
    <3>5. t = [s EXCEPT !.amount = s.amount + amount + FoldedReward(s, auto),
                        !.reward = s.reward - FoldedReward(s, auto), !.auto = auto]
      BY <2>2 DEF IncreasedStake
    <3> DEFINE a == s.amount + amount + FoldedReward(s, auto)
               r == s.reward - FoldedReward(s, auto)
    <3>6. a \in Nat /\ r \in Nat /\ (auto => r = 0) /\ t = [s EXCEPT !.amount = a, !.reward = r, !.auto = auto]
      BY <3>3, <3>4, <3>5
    <3> HIDE DEF s, t, a, r
    <3> QED BY <3>1, <3>6 DEF Stake
  <2> QED BY <2>1, <2>2
<1>7. stake' = [stake EXCEPT ![c][staker] = t]
  OBVIOUS
<1> HIDE DEF t
<1>8. stake' \in [Clubs -> [Users -> Stake \cup {NoStake}]] /\ AutoStakeHasNoPendingReward'
  BY <1>6, <1>7, StakeUpdate
<1>9. TypeOK'
  <2>1. balance' \in Nat
    BY <1>1 DEF TypeOK
  <2> QED BY <1>5, <1>8, <2>1 DEF TypeOK, rewardVars
<1>10. BondsWithinLimit'
  BY DEF BondsWithinLimit
<1> QED BY <1>5, <1>8, <1>9, <1>10, OwnersKeptInv

LEMMA BondStakeInv ==
  ASSUME Inv, NEW sender \in Accounts, NEW staker \in Users, NEW c \in Clubs,
         NEW amount \in WithdrawAmounts, BondStake(sender, staker, c, amount)
  PROVE  Inv' /\ SoldWithConsent
<1> USE DEF Inv, BondStake, MayWithdraw
<1> DEFINE new == [club[c] EXCEPT !.total = @ - amount]
           t == [stake[c][staker] EXCEPT !.amount = @ - amount]
           b == [start |-> now, amount |-> amount]
           bs == AddBond(bonds[c][staker], b)
<1>1. amount \in Nat
  BY ConstantsAssumption
<1>2. club[c] \in ClubDetails /\ club[c].total - amount \in Nat
  BY <1>1 DEF TypeOK, Founded, ClubDetails
<1>3. new \in ClubDetails /\ new.owner = club[c].owner /\ new.released = club[c].released
  BY <1>2 DEF ClubDetails
<1>4. club' = [club EXCEPT ![c] = new]
  OBVIOUS
<1> HIDE DEF new
<1>5. OwnersKept /\ club' \in [Clubs -> ClubDetails \cup {NoClub}]
  BY <1>3, <1>4, ClubUpdate
<1>6. stake[c][staker] \in Stake /\ stake[c][staker].amount - amount \in Nat
  BY <1>1 DEF TypeOK, Stake
<1>7. t \in Stake /\ t.auto = stake[c][staker].auto /\ t.reward = stake[c][staker].reward
  BY <1>6 DEF Stake
<1>8. stake' = [stake EXCEPT ![c][staker] = t]
  OBVIOUS
<1> HIDE DEF t
<1>9. stake' \in [Clubs -> [Users -> Stake \cup {NoStake}]] /\ AutoStakeHasNoPendingReward'
  <2>1. t.auto => t.reward = 0
    BY <1>7 DEF AutoStakeHasNoPendingReward
  <2>2. TypeOK /\ AutoStakeHasNoPendingReward
    OBVIOUS
  <2> HIDE DEF Inv, BondStake, MayWithdraw
  <2> QED BY <1>7, <1>8, <2>1, <2>2, StakeUpdate
<1>10. bs \in Seq(Bond) /\ Len(bs) = Len(bonds[c][staker]) + 1
  <2>1. bonds[c][staker] \in Seq(Bond) /\ b \in Bond
    BY <1>1 DEF TypeOK, Bond
  <2> QED BY <2>1, AddBondType
<1>11. bonds' = [bonds EXCEPT ![c][staker] = bs]
  OBVIOUS
<1>12. Len(bs) <= MaxBondingLimit
  <2>1. Len(bonds[c][staker]) \in Nat /\ MaxBondingLimit \in Nat
    BY ConstantsAssumption DEF TypeOK
  <2> QED BY <1>10, <2>1 DEF MayBond
<1> HIDE DEF bs
<1>13. bonds' \in [Clubs -> [Users -> Seq(Bond)]]
  BY <1>10, <1>11 DEF TypeOK
<1>14. TypeOK'
  BY <1>5, <1>9, <1>13 DEF TypeOK, rewardVars
<1>15. BondsWithinLimit'
  BY <1>11, <1>12 DEF BondsWithinLimit, TypeOK
<1> QED BY <1>5, <1>9, <1>14, <1>15, OwnersKeptInv

LEMMA WithdrawMaturedInv ==
  ASSUME Inv, NEW sender \in Accounts, NEW staker \in Users, NEW c \in Clubs,
         NEW amount \in WithdrawAmounts, WithdrawMatured(sender, staker, c, amount)
  PROVE  Inv' /\ SoldWithConsent
<1> USE DEF Inv, WithdrawMatured, MayWithdraw
<1> DEFINE bs == DrainBonds(bonds[c][staker], amount).kept
<1>1. amount \in Nat /\ MaxBondingLimit \in Nat
  BY ConstantsAssumption
<1>2. bonds[c][staker] \in Seq(Bond)
  BY DEF TypeOK
<1>3. bs \in Seq(Bond) /\ Len(bs) <= Len(bonds[c][staker])
  BY <1>1, <1>2, DrainBondsType DEF Drained
<1>4. bonds' = [bonds EXCEPT ![c][staker] = bs]
  OBVIOUS
<1> HIDE DEF bs
<1>5. Len(bs) <= MaxBondingLimit
  <2>1. Len(bonds[c][staker]) \in Nat /\ Len(bs) \in Nat
    BY <1>2, <1>3
  <2> QED BY <1>1, <1>3, <2>1 DEF BondsWithinLimit
<1>6. TypeOK'
  <2>1. bonds' \in [Clubs -> [Users -> Seq(Bond)]]
    BY <1>3, <1>4 DEF TypeOK
  <2>2. balance' \in Nat
    BY <1>1 DEF TypeOK
  <2> QED BY <2>1, <2>2 DEF TypeOK, ownerVars, rewardVars
<1>7. OwnersKept
  BY DEF OwnersKept, ownerVars
<1>8. AutoStakeHasNoPendingReward'
  BY DEF AutoStakeHasNoPendingReward
<1>9. BondsWithinLimit'
  BY <1>4, <1>5 DEF BondsWithinLimit, TypeOK
<1> QED BY <1>6, <1>7, <1>8, <1>9, OwnersKeptInv

LEMMA ClaimStakerRewardsInv ==
  ASSUME Inv, NEW sender \in Accounts, NEW staker \in Users, NEW c \in Clubs,
         ClaimStakerRewards(sender, staker, c)
  PROVE  Inv' /\ SoldWithConsent
<1> USE DEF Inv, ClaimStakerRewards, PayReward
<1>1. stake[c][staker].reward \in Nat
  BY DEF TypeOK, Stake
<1>2. TypeOK'
  <2>1. balance' \in Nat
    BY <1>1 DEF TypeOK
  <2> QED BY <2>1 DEF TypeOK, ownerVars, stakeVars, rewardVars
<1>3. OwnersKept
  BY DEF OwnersKept, ownerVars
<1>4. AutoStakeHasNoPendingReward' /\ BondsWithinLimit'
  BY DEF AutoStakeHasNoPendingReward, BondsWithinLimit, stakeVars
<1> QED BY <1>2, <1>3, <1>4, OwnersKeptInv

LEMMA IncreaseRewardAmountInv ==
  ASSUME Inv, NEW sender \in Accounts, NEW amount \in RewardAmounts,
         IncreaseRewardAmount(sender, amount)
  PROVE  Inv' /\ SoldWithConsent
<1> USE ConstantsAssumption DEF Inv, IncreaseRewardAmount
<1>1. TypeOK'
  BY DEF TypeOK, ownerVars, stakeVars
<1>2. OwnersKept
  BY DEF OwnersKept, ownerVars
<1>3. AutoStakeHasNoPendingReward' /\ BondsWithinLimit'
  BY DEF AutoStakeHasNoPendingReward, BondsWithinLimit, stakeVars
<1> QED BY <1>1, <1>2, <1>3, OwnersKeptInv

LEMMA DistributeNothingInv ==
  ASSUME Inv, NEW sender \in Accounts, NEW final \in BOOLEAN, DistributeNothing(sender, final)
  PROVE  Inv' /\ SoldWithConsent
<1> USE DEF Inv, DistributeNothing
<1>1. TypeOK'
  BY NextRoundNat DEF TypeOK, ownerVars, stakeVars
<1>2. OwnersKept
  BY DEF OwnersKept, ownerVars
<1>3. AutoStakeHasNoPendingReward' /\ BondsWithinLimit'
  BY DEF AutoStakeHasNoPendingReward, BondsWithinLimit, stakeVars
<1> QED BY <1>1, <1>2, <1>3, OwnersKeptInv

(* What a batch does, with the loop's result p and the ranking w it is paid by. *)
BatchPays(p, w, batch, c, first, final) ==
  /\ w \in WinningDetails /\ p = PayBatch(batch, c, w)
  /\ Founded(c) /\ MayBePaid(c, w) /\ CreditWithinBounds(c, p)
  /\ winning' = w
  /\ stake' = [stake EXCEPT ![c] = p.stakes]
  /\ club' = [club EXCEPT ![c].total = @ + p.added]
  /\ rewardGiven' = rewardGiven + p.given
  /\ reward' = IF final THEN Leftover(rewardGiven + p.given) ELSE reward
  /\ snapshot' = [d \in Clubs |-> IF first /\ Founded(d) THEN club[d].total ELSE snapshot[d]]
  /\ nextRewardTime' = IF final THEN NextRound ELSE nextRewardTime
  /\ UNCHANGED <<now, prevOwnerReward, consent, bonds, balance>>

LEMMA BatchPayment ==
  ASSUME Inv, NEW sender, NEW batch \in Batches, NEW c \in Clubs,
         NEW first \in BOOLEAN, NEW final \in BOOLEAN,
         DistributeBatch(sender, batch, c, first, final)
  PROVE  \E p \in Payment : BatchPays(p, WinnersUsed(first), batch, c, first, final)
<1> DEFINE w == WinnersUsed(first)
           p == PayBatch(batch, c, w)
<1>1. w \in WinningDetails
  BY WinningClubsType DEF Inv, WinnersUsed, TypeOK
<1>2. BatchPays(p, w, batch, c, first, final)
  BY <1>1 DEF DistributeBatch, MayBePaid, BatchPays
<1>3. p \in Payment
  <2>1. batch \in Seq(Users)
    BY ConstantsAssumption
  <2> HIDE DEF w
  <2> QED BY <1>1, <1>2, <2>1, PayBatchType DEF Inv, BatchPays
<1> HIDE DEF p, w
<1> QED BY <1>2, <1>3 DEF w

LEMMA DistributeBatchInv ==
  ASSUME Inv, NEW sender \in Accounts, NEW batch \in Batches, NEW c \in Clubs,
         NEW first \in BOOLEAN, NEW final \in BOOLEAN,
         DistributeBatch(sender, batch, c, first, final)
  PROVE  Inv' /\ SoldWithConsent
<1> USE DEF Inv
<1>0. PICK p \in Payment : BatchPays(p, WinnersUsed(first), batch, c, first, final)
  BY BatchPayment
<1> DEFINE w == WinnersUsed(first)
           new == [club[c] EXCEPT !.total = @ + p.added]
<1>1. /\ Founded(c)
      /\ winning' = w
      /\ stake' = [stake EXCEPT ![c] = p.stakes]
      /\ club' = [club EXCEPT ![c] = new]
      /\ rewardGiven' = rewardGiven + p.given
      /\ reward' = IF final THEN Leftover(rewardGiven + p.given) ELSE reward
      /\ snapshot' = [d \in Clubs |-> IF first /\ Founded(d) THEN club[d].total ELSE snapshot[d]]
      /\ nextRewardTime' = IF final THEN NextRound ELSE nextRewardTime
      /\ UNCHANGED <<now, prevOwnerReward, consent, bonds, balance>>
  BY <1>0 DEF BatchPays
<1>2. w \in WinningDetails
  BY <1>0 DEF BatchPays
<1> HIDE DEF w
<1>4. p.stakes \in StakeMap /\ NothingPending(p.stakes) /\ p.given \in Nat /\ p.added \in Nat
  BY DEF Payment
<1>5. new \in ClubDetails /\ new.owner = club[c].owner /\ new.released = club[c].released
  <2>1. club[c] \in ClubDetails /\ club[c].total + p.added \in Nat
    BY <1>1, <1>4 DEF TypeOK, Founded, ClubDetails
  <2> QED BY <2>1 DEF ClubDetails
<1> HIDE DEF new
<1>6. OwnersKept /\ club' \in [Clubs -> ClubDetails \cup {NoClub}]
  BY <1>1, <1>5, ClubUpdate
<1>7. stake' \in [Clubs -> [Users -> Stake \cup {NoStake}]]
  BY <1>1, <1>4 DEF TypeOK, StakeMap
<1>8. rewardGiven' \in Nat /\ reward' \in Nat
  BY <1>1, <1>4 DEF TypeOK, Leftover
<1>9. snapshot' \in [Clubs -> Nat]
  BY <1>1 DEF TypeOK, Founded, ClubDetails
<1>10. nextRewardTime' \in Nat
  BY <1>1, NextRoundNat DEF TypeOK
<1>11. TypeOK'
  BY <1>1, <1>2, <1>6, <1>7, <1>8, <1>9, <1>10 DEF TypeOK
<1>12. AutoStakeHasNoPendingReward'
  BY <1>1, <1>4 DEF AutoStakeHasNoPendingReward, NothingPending, StakeMap, TypeOK
<1>13. BondsWithinLimit'
  BY <1>1 DEF BondsWithinLimit
<1> QED BY <1>6, <1>11, <1>12, <1>13, OwnersKeptInv

LEMMA EnvironmentInv ==
  ASSUME Inv, Environment
  PROVE  Inv' /\ SoldWithConsent
<1> USE DEF Inv
<1>1. now' \in Nat /\ balance' \in Nat
  BY ConstantsAssumption DEF Environment, Tick, TokensArrive, TypeOK
<1>2. UNCHANGED <<ownerVars, stakeVars, rewardVars>>
  BY DEF Environment, Tick, TokensArrive
<1>3. TypeOK'
  BY <1>1, <1>2 DEF TypeOK, ownerVars, stakeVars, rewardVars
<1>4. OwnersKept
  BY <1>2 DEF OwnersKept, ownerVars
<1>5. AutoStakeHasNoPendingReward' /\ BondsWithinLimit'
  BY <1>2 DEF AutoStakeHasNoPendingReward, BondsWithinLimit, stakeVars
<1> QED BY <1>3, <1>4, <1>5, OwnersKeptInv

LEMMA StutterInv ==
  ASSUME Inv, UNCHANGED vars
  PROVE  Inv' /\ SoldWithConsent
<1> USE DEF Inv, vars, ownerVars, stakeVars, rewardVars
<1>1. TypeOK'
  BY DEF TypeOK
<1>2. OwnersKept
  BY DEF OwnersKept
<1>3. AutoStakeHasNoPendingReward' /\ BondsWithinLimit'
  BY DEF AutoStakeHasNoPendingReward, BondsWithinLimit
<1> QED BY <1>1, <1>2, <1>3, OwnersKeptInv

LEMMA OwnerCallInv ==
  ASSUME Inv, NEW sender \in Accounts, OwnerCall(sender)
  PROVE  Inv' /\ SoldWithConsent
<1>1. PICK c \in Clubs, u \in Users :
        \/ \E seller \in Users \cup {NoUser}, auto \in BOOLEAN :
             BuyAClub(sender, u, seller, c, auto) \/ AssignAClub(sender, u, seller, c, auto)
        \/ ReleaseClub(sender, u, c)
        \/ ClaimOwnerRewards(sender, u, c)
        \/ ClaimPreviousOwnerRewards(sender, u)
  BY DEF OwnerCall
<1>2. CASE \E seller \in Users \cup {NoUser}, auto \in BOOLEAN :
             BuyAClub(sender, u, seller, c, auto) \/ AssignAClub(sender, u, seller, c, auto)
  BY <1>2, TakeOverInv DEF BuyAClub, AssignAClub
<1>3. CASE ReleaseClub(sender, u, c)
  BY <1>3, ReleaseClubInv
<1>4. CASE ClaimOwnerRewards(sender, u, c)
  BY <1>4, ClaimOwnerRewardsInv
<1>5. CASE ClaimPreviousOwnerRewards(sender, u)
  BY <1>5, ClaimPreviousOwnerRewardsInv
<1> QED BY <1>1, <1>2, <1>3, <1>4, <1>5

LEMMA StakerCallInv ==
  ASSUME Inv, NEW sender \in Accounts, StakerCall(sender)
  PROVE  Inv' /\ SoldWithConsent
<1>1. PICK c \in Clubs, u \in Users :
        \/ \E amount \in StakeAmounts, auto \in BOOLEAN :
             \/ StakeOnAClub(sender, u, c, amount, auto)
             \/ AssignStakesToAClub(sender, u, c, amount, auto)
        \/ \E amount \in WithdrawAmounts :
             BondStake(sender, u, c, amount) \/ WithdrawMatured(sender, u, c, amount)
        \/ ClaimStakerRewards(sender, u, c)
  BY DEF StakerCall
<1>2. CASE \E amount \in StakeAmounts, auto \in BOOLEAN :
             \/ StakeOnAClub(sender, u, c, amount, auto)
             \/ AssignStakesToAClub(sender, u, c, amount, auto)
  BY <1>2, DepositInv DEF StakeOnAClub, AssignStakesToAClub
<1>3. CASE \E amount \in WithdrawAmounts :
             BondStake(sender, u, c, amount) \/ WithdrawMatured(sender, u, c, amount)
  BY <1>3, BondStakeInv, WithdrawMaturedInv
<1>4. CASE ClaimStakerRewards(sender, u, c)
  BY <1>4, ClaimStakerRewardsInv
<1> QED BY <1>1, <1>2, <1>3, <1>4

LEMMA RewardCallInv ==
  ASSUME Inv, NEW sender \in Accounts, RewardCall(sender)
  PROVE  Inv' /\ SoldWithConsent
BY IncreaseRewardAmountInv, DistributeNothingInv, DistributeBatchInv
   DEF RewardCall, CalculateAndDistributeRewards

LEMMA NextInv ==
  ASSUME Inv, [Next]_vars
  PROVE  Inv' /\ SoldWithConsent
BY OwnerCallInv, StakerCallInv, RewardCallInv, EnvironmentInv, StutterInv DEF Next

-----------------------------------------------------------------------------
(* The invariant holds in every reachable state of the contract.            *)
THEOREM Invariance == Spec => []Inv
<1>1. Init => Inv
  BY InitInv
<1>2. Inv /\ [Next]_vars => Inv'
  BY NextInv
<1> QED BY <1>1, <1>2, PTL DEF Spec

(* Stored values stay in the ranges their Rust types and the arithmetic of  *)
(* the handlers promise, for any batch list and any ranking.                *)
THEOREM TypeCorrect == Spec => []TypeOK
<1>1. Inv => TypeOK
  BY DEF Inv
<1> QED BY <1>1, Invariance, PTL

(* However purchases, assignments, releases and expiries follow each other, *)
(* nobody comes to own a second club.                                       *)
THEOREM OwnersAreDistinct == Spec => []OneClubPerOwner
<1>1. Inv => OneClubPerOwner
  BY DEF Inv
<1> QED BY <1>1, Invariance, PTL

(* A release is never inherited: it is the current owner's own.             *)
THEOREM ReleasesAreTheOwners == Spec => []ReleasedByOwner
<1>1. Inv => ReleasedByOwner
  BY DEF Inv
<1> QED BY <1>1, Invariance, PTL

(* No sequence of calls takes a club from an owner that did not release it. *)
THEOREM SalesAreConsented == Spec => SaleNeedsConsent
<1>1. Inv /\ [Next]_vars => [SoldWithConsent]_vars
  BY NextInv
<1>2. SoldWithConsent =>
        \A c \in Clubs :
          Founded(c) /\ club'[c].owner # club[c].owner => consent[c] = club[c].owner
  BY DEF SoldWithConsent
<1> QED BY <1>1, <1>2, Invariance, PTL DEF Spec, SaleNeedsConsent

(* Automatic staking never leaves a reward behind.                          *)
THEOREM AutoStakeFolds == Spec => []AutoStakeHasNoPendingReward
<1>1. Inv => AutoStakeHasNoPendingReward
  BY DEF Inv
<1> QED BY <1>1, Invariance, PTL

(* The bonding limit holds whatever is bonded, withdrawn and bonded again.  *)
THEOREM BondsAreLimited == Spec => []BondsWithinLimit
<1>1. Inv => BondsWithinLimit
  BY DEF Inv
<1> QED BY <1>1, Invariance, PTL

-----------------------------------------------------------------------------
(* Owner rewards *)

(* What every club adds to the dues of wallet u, club by club.              *)
DuesOf(cl, u) ==
  [c \in Clubs |-> IF cl[c] # NoClub /\ cl[c].owner = u THEN cl[c].reward ELSE 0]

LEMMA DuesOfClubs ==
  ASSUME NEW cl \in [Clubs -> ClubDetails \cup {NoClub}], NEW u
  PROVE  /\ \A c \in Clubs : DuesOf(cl, u)[c] \in Nat
         /\ SumFunction([c \in {c \in {d \in Clubs : cl[d] # NoClub} : cl[c].owner = u} |->
                           cl[c].reward])
              = SumFunctionOnSet(DuesOf(cl, u), Clubs)
<1> DEFINE S == {c \in {d \in Clubs : cl[d] # NoClub} : cl[c].owner = u}
           f == [c \in S |-> cl[c].reward]
<1>1. \A c \in Clubs : DuesOf(cl, u)[c] \in Nat
  BY DEF DuesOf, ClubDetails
<1>2. S \in SUBSET Clubs /\ IsFiniteSet(S)
  BY ClubsFinite, FS_Subset
<1>3. \A c \in S : f[c] \in Int /\ f[c] = DuesOf(cl, u)[c]
  BY DEF DuesOf, ClubDetails
<1>4. \A c \in Clubs \ S : DuesOf(cl, u)[c] = 0
  BY DEF DuesOf
<1>5. SumFunction(f) = SumFunctionOnSet(f, S)
  BY DEF SumFunction
<1> HIDE DEF S, f
<1>6. SumFunctionOnSet(f, S) = SumFunctionOnSet(DuesOf(cl, u), S)
  BY <1>2, <1>3, SumSame
<1>7. \A c \in Clubs : DuesOf(cl, u)[c] \in Int
  BY <1>1
<1>8. SumFunctionOnSet(DuesOf(cl, u), Clubs) = SumFunctionOnSet(DuesOf(cl, u), S)
  BY <1>2, <1>4, <1>7, ClubsFinite, SumPart
<1> QED BY <1>1, <1>5, <1>6, <1>8 DEF S, f

LEMMA OwnerDuesSum ==
  ASSUME TypeOK, TypeOK', NEW u
  PROVE  /\ OwnerDues(u) = prevOwnerReward[u] + SumFunctionOnSet(DuesOf(club, u), Clubs)
         /\ OwnerDues(u)' = prevOwnerReward'[u] + SumFunctionOnSet(DuesOf(club', u), Clubs)
         /\ u \in Users => OwnerDues(u) \in Nat /\ OwnerDues(u)' \in Nat
<1>1. /\ club \in [Clubs -> ClubDetails \cup {NoClub}]
      /\ club' \in [Clubs -> ClubDetails \cup {NoClub}]
  BY DEF TypeOK
<1>2. /\ SumFunctionOnSet(DuesOf(club, u), Clubs) \in Nat
      /\ SumFunctionOnSet(DuesOf(club', u), Clubs) \in Nat
  BY <1>1, DuesOfClubs, ClubsFinite, SumNat
<1>3. /\ OwnerDues(u) = prevOwnerReward[u] + SumFunctionOnSet(DuesOf(club, u), Clubs)
      /\ OwnerDues(u)' = prevOwnerReward'[u] + SumFunctionOnSet(DuesOf(club', u), Clubs)
  BY <1>1, DuesOfClubs
     DEF OwnerDues, QueryClubPreviousOwnerDetails, QueryClubOwnershipDetails,
         QueryClubOwnershipDetailsForOwner, QueryAllClubs, Founded
<1>4. u \in Users => prevOwnerReward[u] \in Nat /\ prevOwnerReward'[u] \in Nat
  BY DEF TypeOK
<1> QED BY <1>2, <1>3, <1>4

(* Every club keeps its owner and its reward, and nobody else has dues.     *)
DuesKept ==
  /\ prevOwnerReward' = prevOwnerReward
  /\ \A c \in Clubs : /\ club'[c] # NoClub <=> club[c] # NoClub
                      /\ club[c] # NoClub => /\ club'[c].owner = club[c].owner
                                             /\ club'[c].reward = club[c].reward

DuesSurvive == \A u \in Users : OwnerDues(u)' >= OwnerDues(u)

LEMMA DuesKeptEqual ==
  ASSUME TypeOK, TypeOK', DuesKept, NEW u \in Users
  PROVE  OwnerDues(u)' = OwnerDues(u)
<1>1. DuesOf(club', u) = DuesOf(club, u)
  BY DEF DuesKept, DuesOf
<1> QED BY <1>1, OwnerDuesSum DEF DuesKept

LEMMA DuesKeptSurvive ==
  ASSUME TypeOK, TypeOK', DuesKept
  PROVE  DuesSurvive
BY DuesKeptEqual, OwnerDuesSum DEF DuesSurvive

(* The details of one club change, but neither its owner nor its reward.    *)
LEMMA ClubUpdateDues ==
  ASSUME TypeOK, NEW c \in Clubs, Founded(c), NEW new \in ClubDetails,
         new.owner = club[c].owner, new.reward = club[c].reward,
         club' = [club EXCEPT ![c] = new], prevOwnerReward' = prevOwnerReward
  PROVE  DuesKept
<1>1. new # NoClub
  BY ConstantsAssumption
<1>2. \A d \in Clubs : club'[d] = IF d = c THEN new ELSE club[d]
  BY DEF TypeOK
<1> QED BY <1>1, <1>2 DEF DuesKept, Founded

LEMMA ClubTotalDues ==
  ASSUME TypeOK, NEW c \in Clubs, Founded(c), NEW total, total \in Nat,
         club' = [club EXCEPT ![c] = [@ EXCEPT !.total = total]],
         prevOwnerReward' = prevOwnerReward
  PROVE  DuesKept
<1> DEFINE new == [club[c] EXCEPT !.total = total]
<1>1. club[c] \in ClubDetails
  BY DEF TypeOK, Founded
<1>2. new \in ClubDetails /\ new.owner = club[c].owner /\ new.reward = club[c].reward
  BY <1>1 DEF ClubDetails
<1>3. club' = [club EXCEPT ![c] = new]
  OBVIOUS
<1> HIDE DEF new
<1> QED BY <1>2, <1>3, ClubUpdateDues

LEMMA TakeOverDues ==
  ASSUME Inv, Inv', NEW buyer \in Users, NEW seller \in Users \cup {NoUser}, NEW c \in Clubs,
         NEW auto \in BOOLEAN, TakeOver(buyer, seller, c, auto)
  PROVE  DuesSurvive
<1> SUFFICES ASSUME NEW u \in Users PROVE OwnerDues(u)' >= OwnerDues(u)
  BY DEF DuesSurvive
<1> DEFINE f == DuesOf(club, u)
           g == DuesOf(club', u)
<1>1. TypeOK /\ TypeOK'
  BY DEF Inv
<1>2. \A d \in Clubs : f[d] \in Nat /\ g[d] \in Nat
  BY <1>1, DuesOfClubs DEF TypeOK
<1>3. \A d \in Clubs \ {c} : f[d] = g[d]
  BY <1>1 DEF TakeOver, TypeOK, DuesOf
<1>4. prevOwnerReward[u] \in Nat /\ prevOwnerReward'[u] \in Nat
  BY <1>1 DEF TypeOK
<1>5. prevOwnerReward'[u] + g[c] >= prevOwnerReward[u] + f[c]
  <2>1. CASE Founded(c) /\ u = seller
    <3>1. prevOwnerReward'[u] = prevOwnerReward[u] + club[c].reward
      BY <1>1, <2>1 DEF TakeOver, DuesAfterSale, TypeOK
    <3>2. f[c] = club[c].reward
      BY <2>1 DEF TakeOver, ForSale, DuesOf, Founded
    <3> QED BY <1>2, <1>4, <3>1, <3>2
  <2>2. CASE ~Founded(c) \/ u # seller
    <3>1. prevOwnerReward'[u] = prevOwnerReward[u]
      BY <1>1, <2>2 DEF TakeOver, DuesAfterSale, TypeOK
    <3>2. f[c] = 0
      BY <2>2 DEF TakeOver, ForSale, DuesOf, Founded
    <3> QED BY <1>2, <1>4, <3>1, <3>2
  <2> QED BY <2>1, <2>2
<1>6. /\ OwnerDues(u) = prevOwnerReward[u] + SumFunctionOnSet(f, Clubs)
      /\ OwnerDues(u)' = prevOwnerReward'[u] + SumFunctionOnSet(g, Clubs)
  BY <1>1, OwnerDuesSum
<1> HIDE DEF f, g
<1>7. SumFunctionOnSet(g, Clubs) = SumFunctionOnSet(f, Clubs) + (g[c] - f[c])
  BY <1>2, <1>3, ClubsFinite, SumUpdate
<1>8. SumFunctionOnSet(f, Clubs) \in Int
  BY <1>2, ClubsFinite, SumInt
<1> QED BY <1>2, <1>4, <1>5, <1>6, <1>7, <1>8

LEMMA OwnerCallDues ==
  ASSUME Inv, Inv', NEW sender \in Accounts, OwnerCall(sender), balance' = balance
  PROVE  DuesSurvive
<1> USE DEF Inv
<1>1. PICK c \in Clubs, u \in Users :
        \/ \E seller \in Users \cup {NoUser}, auto \in BOOLEAN :
             BuyAClub(sender, u, seller, c, auto) \/ AssignAClub(sender, u, seller, c, auto)
        \/ ReleaseClub(sender, u, c)
        \/ ClaimOwnerRewards(sender, u, c)
        \/ ClaimPreviousOwnerRewards(sender, u)
  BY DEF OwnerCall
<1>2. CASE \E seller \in Users \cup {NoUser}, auto \in BOOLEAN :
             BuyAClub(sender, u, seller, c, auto) \/ AssignAClub(sender, u, seller, c, auto)
  BY <1>2, TakeOverDues DEF BuyAClub, AssignAClub
<1>3. CASE ReleaseClub(sender, u, c)
  <2> DEFINE new == [club[c] EXCEPT !.start = now, !.released = TRUE]
  <2>1. club[c] \in ClubDetails /\ now \in Nat /\ Founded(c)
    BY <1>3 DEF ReleaseClub, TypeOK, Founded
  <2>2. new \in ClubDetails /\ new.owner = club[c].owner /\ new.reward = club[c].reward
    BY <2>1 DEF ClubDetails
  <2>3. club' = [club EXCEPT ![c] = new] /\ prevOwnerReward' = prevOwnerReward
    BY <1>3, <2>1 DEF ReleaseClub, ClubDetails
  <2> HIDE DEF new
  <2>4. DuesKept
    BY <2>1, <2>2, <2>3, ClubUpdateDues
  <2> QED BY <2>4, DuesKeptSurvive
<1>4. CASE ClaimOwnerRewards(sender, u, c)
  <2>1. club[c].reward \in Nat /\ balance \in Nat
    BY <1>4 DEF ClaimOwnerRewards, TypeOK, ClubDetails, Founded
  <2> QED BY <1>4, <2>1 DEF ClaimOwnerRewards, PayReward
<1>5. CASE ClaimPreviousOwnerRewards(sender, u)
  <2>1. prevOwnerReward[u] \in Nat /\ balance \in Nat
    BY DEF TypeOK
  <2> QED BY <1>5, <2>1 DEF ClaimPreviousOwnerRewards, PayReward
<1> QED BY <1>1, <1>2, <1>3, <1>4, <1>5

LEMMA StakerCallDues ==
  ASSUME Inv, Inv', NEW sender \in Accounts, StakerCall(sender)
  PROVE  DuesKept
<1>1. PICK c \in Clubs, u \in Users :
        \/ \E amount \in StakeAmounts, auto \in BOOLEAN : Deposit(u, c, amount, auto)
        \/ \E amount \in WithdrawAmounts :
             BondStake(sender, u, c, amount) \/ WithdrawMatured(sender, u, c, amount)
        \/ ClaimStakerRewards(sender, u, c)
  BY DEF StakerCall, StakeOnAClub, AssignStakesToAClub
<1>2. ASSUME NEW total \in Nat, Founded(c),
             club' = [club EXCEPT ![c].total = total], prevOwnerReward' = prevOwnerReward
      PROVE  DuesKept
  BY <1>2, ClubTotalDues DEF Inv
<1>3. CASE \/ \E amount \in StakeAmounts, auto \in BOOLEAN : Deposit(u, c, amount, auto)
           \/ \E amount \in WithdrawAmounts : BondStake(sender, u, c, amount)
  <2>1. Founded(c) /\ club[c].total \in Nat
    BY <1>3 DEF Deposit, BondStake, MayWithdraw, Inv, TypeOK, Founded, ClubDetails
  <2>2. CASE \E amount \in StakeAmounts, auto \in BOOLEAN : Deposit(u, c, amount, auto)
    <3>1. PICK amount \in StakeAmounts :
            club' = [club EXCEPT ![c].total = @ + amount] /\ prevOwnerReward' = prevOwnerReward
      BY <2>2 DEF Deposit
    <3>2. club[c].total + amount \in Nat
      BY <2>1, ConstantsAssumption
    <3> QED BY <1>2, <2>1, <3>1, <3>2
  <2>3. CASE \E amount \in WithdrawAmounts : BondStake(sender, u, c, amount)
    <3>1. PICK amount \in WithdrawAmounts :
            /\ club' = [club EXCEPT ![c].total = @ - amount] /\ amount <= club[c].total
            /\ prevOwnerReward' = prevOwnerReward
      BY <2>3 DEF BondStake
    <3>2. club[c].total - amount \in Nat
      BY <2>1, <3>1, ConstantsAssumption
    <3> QED BY <1>2, <2>1, <3>1, <3>2
  <2> QED BY <1>3, <2>2, <2>3
<1>4. CASE \/ \E amount \in WithdrawAmounts : WithdrawMatured(sender, u, c, amount)
           \/ ClaimStakerRewards(sender, u, c)
  BY <1>4 DEF WithdrawMatured, ClaimStakerRewards, DuesKept, ownerVars
<1> QED BY <1>1, <1>2, <1>3, <1>4

LEMMA RewardCallDues ==
  ASSUME Inv, Inv', NEW sender \in Accounts, RewardCall(sender)
  PROVE  DuesKept
<1>1. CASE \/ \E amount \in RewardAmounts : IncreaseRewardAmount(sender, amount)
           \/ \E final \in BOOLEAN : DistributeNothing(sender, final)
  BY <1>1 DEF IncreaseRewardAmount, DistributeNothing, DuesKept, ownerVars
<1>2. CASE \E batch \in Batches, c \in Clubs, first \in BOOLEAN, final \in BOOLEAN :
             DistributeBatch(sender, batch, c, first, final)
  <2>1. PICK batch \in Batches, c \in Clubs, first \in BOOLEAN, final \in BOOLEAN :
          DistributeBatch(sender, batch, c, first, final)
    BY <1>2
  <2>2. PICK p \in Payment : BatchPays(p, WinnersUsed(first), batch, c, first, final)
    BY <2>1, BatchPayment
  <2>3. /\ Founded(c) /\ p.added \in Nat
        /\ club' = [club EXCEPT ![c].total = @ + p.added]
        /\ prevOwnerReward' = prevOwnerReward
    BY <2>2 DEF BatchPays, Payment
  <2>4. club[c].total \in Nat
    BY <2>3 DEF Inv, TypeOK, Founded, ClubDetails
  <2>5. club[c].total + p.added \in Nat
    BY <2>3, <2>4
  <2> QED BY <2>3, <2>5, ClubTotalDues DEF Inv
<1> QED BY <1>1, <1>2 DEF RewardCall, CalculateAndDistributeRewards

LEMMA NextDues ==
  ASSUME Inv, Inv', [Next]_vars, balance' = balance
  PROVE  DuesSurvive
<1>1. CASE \E sender \in Accounts : OwnerCall(sender)
  BY <1>1, OwnerCallDues
<1>2. CASE \E sender \in Accounts : StakerCall(sender) \/ RewardCall(sender)
  BY <1>2, StakerCallDues, RewardCallDues, DuesKeptSurvive DEF Inv
<1>3. CASE Environment \/ UNCHANGED vars
  <2>1. UNCHANGED ownerVars
    BY <1>3 DEF Environment, Tick, TokensArrive, vars
  <2>2. DuesKept
    BY <2>1 DEF DuesKept, ownerVars
  <2> QED BY <2>2, DuesKeptSurvive DEF Inv
<1> QED BY <1>1, <1>2, <1>3 DEF Next

(* No order of sales, assignments and releases forgets a reward that is due *)
(* to a present or a previous owner.                                        *)
THEOREM OwnerDuesAreKept == Spec => OwnerDuesSurviveSales
<1>1. Inv /\ Inv' /\ [Next]_vars =>
        [balance' = balance => \A u \in Users : OwnerDues(u)' >= OwnerDues(u)]_vars
  BY NextDues DEF DuesSurvive
<1> QED BY <1>1, Invariance, PTL DEF Spec, OwnerDuesSurviveSales

-----------------------------------------------------------------------------
(* Weights of bonds *)

(* What a list of bonds comes to when v[b] is counted for bond b.           *)
Weights(v, bs) == [i \in 1..Len(bs) |-> v[bs[i]]]
Weight(v, bs) == SumFunctionOnSet(Weights(v, bs), 1..Len(bs))

Measures == [Bond -> Nat]
Amounts == [b \in Bond |-> b.amount]
ImmatureAmounts(t) == [b \in Bond |-> IF t <= b.start + BondingDuration THEN b.amount ELSE 0]

LEMMA MeasureTypes ==
  /\ Amounts \in Measures
  /\ \A t \in Nat : ImmatureAmounts(t) \in Measures
BY DEF Amounts, ImmatureAmounts, Measures, Bond

LEMMA WeightNat ==
  ASSUME NEW v \in Measures, NEW bs \in Seq(Bond)
  PROVE  /\ \A i \in 1..Len(bs) : Weights(v, bs)[i] \in Nat
         /\ Weight(v, bs) \in Nat
<1>1. \A i \in 1..Len(bs) : Weights(v, bs)[i] \in Nat
  BY DEF Weights, Measures
<1>2. Len(bs) \in Nat /\ IsFiniteSet(1..Len(bs))
  BY FS_Interval
<1> QED BY <1>1, <1>2, SumNat DEF Weight

LEMMA WeightEmpty ==
  ASSUME NEW v
  PROVE  Weight(v, <<>>) = 0
<1>1. 1..Len(<<>>) = {}
  OBVIOUS
<1> QED BY <1>1, SumEmpty DEF Weight

LEMMA WeightAppend ==
  ASSUME NEW v \in Measures, NEW bs \in Seq(Bond), NEW b \in Bond
  PROVE  Weight(v, Append(bs, b)) = Weight(v, bs) + v[b]
<1> DEFINE n == Len(bs)
           f == Weights(v, bs)
           g == Weights(v, Append(bs, b))
<1>1. n \in Nat /\ Append(bs, b) \in Seq(Bond) /\ Len(Append(bs, b)) = n + 1
  OBVIOUS
<1>2. \A i \in 1..n : f[i] \in Int /\ g[i] = f[i]
  BY DEF Weights, Measures
<1>3. g[n+1] = v[b] /\ v[b] \in Int
  BY <1>1 DEF Weights, Measures
<1>4. Weight(v, bs) = SumFunctionOnSet(f, 1..n) /\ Weight(v, Append(bs, b)) = SumFunctionOnSet(g, 1..(n+1))
  BY <1>1 DEF Weight
<1> HIDE DEF n, f, g
<1>5. SumFunctionOnSet(g, 1..(n+1)) = SumFunctionOnSet(f, 1..n) + v[b]
  <2>1. n \in 0..n
    BY <1>1
  <2> QED BY <1>1, <1>2, <1>3, <2>1, SumInserted
<1> QED BY <1>4, <1>5

(* A new bond adds its weight wherever it is sorted in.                     *)
LEMMA WeightAddBond ==
  ASSUME NEW v \in Measures, NEW bs \in Seq(Bond), NEW b \in Bond
  PROVE  Weight(v, AddBond(bs, b)) = Weight(v, bs) + v[b]
<1> DEFINE n == Len(bs)
           k == Cardinality({i \in DOMAIN bs : bs[i].start >= b.start})
           head == SubSeq(bs, 1, k)
           tail == SubSeq(bs, k + 1, n)
           new == AddBond(bs, b)
           f == Weights(v, bs)
           g == Weights(v, new)
<1>1. n \in Nat /\ k \in 0..n
  <2>1. n \in Nat
    OBVIOUS
  <2>2. IsFiniteSet(1..n) /\ Cardinality(1..n) = n
    BY <2>1, FS_Interval
  <2>3. {i \in DOMAIN bs : bs[i].start >= b.start} \subseteq 1..n
    OBVIOUS
  <2>4. k \in Nat /\ k <= Cardinality(1..n)
    BY <2>2, <2>3, FS_Subset, FS_CardinalityType
  <2> HIDE DEF k, n
  <2> QED BY <2>1, <2>2, <2>4
<1>2. new = (head \o <<b>>) \o tail
  BY DEF AddBond
<1>3. new \in Seq(Bond) /\ Len(new) = n + 1
  BY AddBondType
<1> HIDE DEF k, new
<1>4. /\ head \in Seq(Bond) /\ Len(head) = k /\ \A i \in 1..k : head[i] = bs[i]
      /\ tail \in Seq(Bond) /\ Len(tail) = n - k /\ \A i \in 1..(n-k) : tail[i] = bs[k+i]
  BY <1>1, SubSeqProperties
<1> HIDE DEF head, tail, n
<1>5. /\ head \o <<b>> \in Seq(Bond) /\ Len(head \o <<b>>) = k + 1
      /\ \A i \in 1..k : (head \o <<b>>)[i] = bs[i]
      /\ (head \o <<b>>)[k+1] = b
  <2>1. <<b>> \in Seq(Bond) /\ Len(<<b>>) = 1 /\ <<b>>[1] = b
    OBVIOUS
  <2> QED BY <1>1, <1>4, <2>1, ConcatProperties
<1> DEFINE front == head \o <<b>>
<1>6. /\ \A i \in 1..k : new[i] = bs[i]
      /\ new[k+1] = b
      /\ \A i \in (k+1)..n : new[i+1] = bs[i]
  <2>a. front \in Seq(Bond) /\ tail \in Seq(Bond) /\ Len(front) = k + 1 /\ new = front \o tail
    BY <1>2, <1>4, <1>5
  <2> HIDE DEF front
  <2>1. \A i \in 1..(k+1) : new[i] = front[i]
    BY <1>1, <2>a, ConcatProperties
  <2>2. \A i \in (k+2)..(n+1) : new[i] = tail[i - (k+1)]
    BY <1>1, <1>3, <1>4, <2>a, ConcatProperties
  <2>3. \A i \in (k+1)..n : new[i+1] = bs[i]
    <3> TAKE i \in (k+1)..n
    <3>1. i + 1 \in (k+2)..(n+1) /\ i - k \in 1..(n-k) /\ (i + 1) - (k + 1) = i - k /\ k + (i - k) = i
      BY <1>1
    <3>2. new[i+1] = tail[i - k]
      BY <2>2, <3>1
    <3>3. tail[i - k] = bs[k + (i - k)]
      BY <1>4, <3>1
    <3> QED BY <3>1, <3>2, <3>3
  <2> QED BY <1>1, <1>5, <2>1, <2>3 DEF front
<1>7. /\ \A i \in 1..n : f[i] \in Int
      /\ \A i \in 1..k : g[i] = f[i]
      /\ g[k+1] = v[b]
      /\ \A i \in (k+1)..n : g[i+1] = f[i]
  <2>1. \A i \in 1..n : f[i] = v[bs[i]] /\ f[i] \in Int
    BY DEF Weights, Measures, n
  <2>2. \A i \in 1..(n+1) : g[i] = v[new[i]]
    BY <1>3 DEF Weights
  <2> QED BY <1>1, <1>6, <2>1, <2>2
<1>8. v[b] \in Int
  BY DEF Measures
<1>9. Weight(v, bs) = SumFunctionOnSet(f, 1..n) /\ Weight(v, new) = SumFunctionOnSet(g, 1..(n+1))
  BY <1>3 DEF Weight, n
<1> HIDE DEF f, g
<1>10. SumFunctionOnSet(g, 1..(n+1)) = SumFunctionOnSet(f, 1..n) + v[b]
  BY <1>1, <1>7, <1>8, SumInserted
<1> QED BY <1>9, <1>10 DEF new

(* One step of the withdrawal loop: what of the bond is immature is kept,   *)
(* and its amount is kept or taken.                                         *)
LEMMA TakeFromBondWeight ==
  ASSUME TypeOK, NEW d \in Drained, NEW b \in Bond
  PROVE  LET e == TakeFromBond(d, b)
             im == ImmatureAmounts(now)
         IN  /\ e \in Drained
             /\ Weight(im, e.kept) = Weight(im, d.kept) + im[b]
             /\ Weight(Amounts, e.kept) - e.left = Weight(Amounts, d.kept) - d.left + b.amount
<1> DEFINE e == TakeFromBond(d, b)
           im == ImmatureAmounts(now)
<1>1. d.left \in Nat /\ d.kept \in Seq(Bond) /\ b.amount \in Nat /\ b.start \in Nat
      /\ now \in Nat /\ BondingDuration \in Nat
  BY ConstantsAssumption DEF Drained, Bond, TypeOK
<1>2. /\ Amounts \in Measures /\ im \in Measures
      /\ \A x \in Bond : Amounts[x] = x.amount
      /\ \A x \in Bond : im[x] = IF now <= x.start + BondingDuration THEN x.amount ELSE 0
  BY <1>1, MeasureTypes DEF Amounts, ImmatureAmounts
<1> HIDE DEF im
<1>3. Weight(Amounts, d.kept) \in Nat /\ Weight(im, d.kept) \in Nat
  BY <1>1, <1>2, WeightNat
<1>4. e \in Drained
  BY TakeFromBondType
<1>5. CASE ~Mature(b) \/ d.left = 0
  <2>1. e = [d EXCEPT !.kept = Append(@, b)]
    BY <1>5 DEF TakeFromBond
  <2>2. e.kept = Append(d.kept, b) /\ e.left = d.left
    BY <2>1 DEF Drained
  <2>3. /\ Weight(im, e.kept) = Weight(im, d.kept) + im[b]
        /\ Weight(Amounts, e.kept) = Weight(Amounts, d.kept) + b.amount
    BY <1>1, <1>2, <2>2, WeightAppend
  <2> HIDE DEF e
  <2> QED BY <1>1, <1>3, <1>4, <2>2, <2>3 DEF e, im
<1>6. CASE ~(~Mature(b) \/ d.left = 0)
  <2>1. im[b] = 0
    BY <1>1, <1>2, <1>6 DEF Mature
  <2>2. CASE b.amount > d.left
    <3> DEFINE rest == [b EXCEPT !.amount = @ - d.left]
    <3>1. rest \in Bond /\ rest.amount = b.amount - d.left /\ rest.start = b.start
      BY <1>1, <2>2 DEF Bond
    <3>2. im[rest] = 0
      <4>1. ~(now <= rest.start + BondingDuration)
        BY <1>1, <1>6, <3>1 DEF Mature
      <4> HIDE DEF rest
      <4> QED BY <1>2, <3>1, <4>1
    <3> HIDE DEF rest
    <3>3. e.left = 0 /\ e.kept = Append(d.kept, rest)
      BY <1>6, <2>2 DEF TakeFromBond, rest
    <3>4. /\ Weight(im, e.kept) = Weight(im, d.kept) + im[rest]
          /\ Weight(Amounts, e.kept) = Weight(Amounts, d.kept) + rest.amount
      BY <1>1, <1>2, <3>1, <3>3, WeightAppend
    <3> HIDE DEF e
    <3> QED BY <1>1, <1>3, <1>4, <2>1, <3>1, <3>2, <3>3, <3>4 DEF e, im
  <2>3. CASE ~(b.amount > d.left)
    <3>1. e = [d EXCEPT !.left = @ - b.amount]
      BY <1>6, <2>3 DEF TakeFromBond
    <3>2. e.left = d.left - b.amount /\ e.kept = d.kept
      BY <3>1 DEF Drained
    <3> HIDE DEF e
    <3> QED BY <1>1, <1>3, <1>4, <2>1, <3>2 DEF e, im
  <2> QED BY <2>2, <2>3
<1> QED BY <1>5, <1>6 DEF e, im

(* The whole loop: a withdrawal takes exactly its amount from the bonds,    *)
(* and nothing that is immature.                                            *)
LEMMA DrainBondsWeight ==
  ASSUME TypeOK, NEW s \in Seq(Bond), NEW amount \in Nat, DrainBonds(s, amount).left = 0
  PROVE  LET kept == DrainBonds(s, amount).kept
             im == ImmatureAmounts(now)
         IN  /\ Weight(im, kept) = Weight(im, s)
             /\ Weight(Amounts, kept) + amount = Weight(Amounts, s)
<1> DEFINE N == Len(s)
           im == ImmatureAmounts(now)
           f == Weights(im, s)
           g == Weights(Amounts, s)
           base == [left |-> amount, kept |-> <<>>]
           drain == CHOOSE h : h = [i \in 0..N |->
                      IF i = 0 THEN base ELSE TakeFromBond(h[i-1], s[i])]
           step == [i \in 1..N |-> [d \in Drained |-> TakeFromBond(d, s[i])]]
<1>1. N \in Nat /\ \A i \in 1..N : s[i] \in Bond
  OBVIOUS
<1>2. base \in Drained
  BY DEF Drained
<1>3. step \in [1..N -> [Drained -> Drained]]
  BY <1>1, TakeFromBondType
<1>4. DrainBonds(s, amount) = drain[N]
  BY DEF DrainBonds
<1>w. /\ Amounts \in Measures /\ im \in Measures
      /\ \A i \in 1..N : /\ f[i] = im[s[i]] /\ f[i] \in Int
                          /\ g[i] = s[i].amount /\ g[i] \in Int
  <2>1. Amounts \in Measures /\ im \in Measures
    BY MeasureTypes DEF TypeOK
  <2>2. \A i \in 1..N : Amounts[s[i]] = s[i].amount
    BY <1>1 DEF Amounts
  <2> HIDE DEF im
  <2> QED BY <2>1, <2>2, WeightNat DEF Weights
<1>v. Weight(im, s) = SumFunctionOnSet(f, 1..N) /\ Weight(Amounts, s) = SumFunctionOnSet(g, 1..N)
  BY DEF Weight
<1> HIDE DEF N, f, g, im
<1>5. PICK h : IsLoop(h, N, Drained, base, step)
  <2> HIDE DEF step, base
  <2> QED BY <1>1, <1>2, <1>3, LoopExists
<1>6. h = [i \in 0..N |-> IF i = 0 THEN base ELSE TakeFromBond(h[i-1], s[i])]
  <2> HIDE DEF base
  <2>1. ASSUME NEW i \in 1..N PROVE h[i] = TakeFromBond(h[i-1], s[i])
    <3>1. i - 1 \in 0..N
      BY <1>1
    <3>2. h[i-1] \in Drained
      BY <1>5, <3>1 DEF IsLoop
    <3> QED BY <1>5, <3>2 DEF IsLoop
  <2> HIDE DEF step
  <2> QED BY <1>5, <2>1 DEF IsLoop
<1>7. drain = [i \in 0..N |-> IF i = 0 THEN base ELSE TakeFromBond(drain[i-1], s[i])]
  <2> HIDE DEF base
  <2> QED BY <1>6
<1> HIDE DEF drain
<1> DEFINE P == {i \in 0..N :
                   /\ drain[i] \in Drained
                   /\ Weight(im, drain[i].kept) = SumFunctionOnSet(f, 1..i)
                   /\ Weight(Amounts, drain[i].kept) - drain[i].left
                        = SumFunctionOnSet(g, 1..i) - amount}
<1>8. 0 \in P
  <2>1. drain[0] = base
    BY <1>1, <1>7
  <2>2. 1..0 = {}
    OBVIOUS
  <2>3. Weight(im, <<>>) = 0 /\ Weight(Amounts, <<>>) = 0
    BY WeightEmpty
  <2>4. SumFunctionOnSet(f, 1..0) = 0 /\ SumFunctionOnSet(g, 1..0) = 0
    BY <2>2, SumEmpty
  <2> QED BY <1>1, <1>2, <2>1, <2>3, <2>4
<1>9. ASSUME NEW i \in 1..N, i - 1 \in P PROVE i \in P
  <2> DEFINE d == drain[i-1]
             e == drain[i]
  <2>1. /\ d \in Drained
        /\ Weight(im, d.kept) = SumFunctionOnSet(f, 1..(i-1))
        /\ Weight(Amounts, d.kept) - d.left = SumFunctionOnSet(g, 1..(i-1)) - amount
    BY <1>9
  <2>2. e = TakeFromBond(d, s[i])
    BY <1>1, <1>7
  <2> HIDE DEF d, e
  <2>3. /\ e \in Drained
        /\ Weight(im, e.kept) = Weight(im, d.kept) + im[s[i]]
        /\ Weight(Amounts, e.kept) - e.left = Weight(Amounts, d.kept) - d.left + s[i].amount
    BY <1>1, <2>1, <2>2, TakeFromBondWeight DEF im
  <2>4. /\ SumFunctionOnSet(f, 1..i) = SumFunctionOnSet(f, 1..(i-1)) + f[i]
        /\ SumFunctionOnSet(g, 1..i) = SumFunctionOnSet(g, 1..(i-1)) + g[i]
    <3>1. i - 1 \in Nat /\ (i - 1) + 1 = i
      BY <1>1
    <3>2. \A j \in 1..i : f[j] \in Int /\ g[j] \in Int
      BY <1>1, <1>w
    <3> DEFINE m == i - 1
    <3>3. m \in Nat /\ m + 1 = i /\ \A j \in 1..(m+1) : f[j] \in Int /\ g[j] \in Int
      BY <3>1, <3>2
    <3> HIDE DEF m
    <3>4. /\ SumFunctionOnSet(f, 1..(m+1)) = SumFunctionOnSet(f, 1..m) + f[m+1]
          /\ SumFunctionOnSet(g, 1..(m+1)) = SumFunctionOnSet(g, 1..m) + g[m+1]
      BY <3>3, SumNext
    <3> QED BY <3>3, <3>4 DEF m
  <2>5. SumFunctionOnSet(g, 1..(i-1)) \in Int
    <3>1. i - 1 \in Int /\ \A j \in 1..(i-1) : j \in 1..N
      BY <1>1
    <3>2. IsFiniteSet(1..(i-1))
      BY <3>1, FS_Interval
    <3>3. \A j \in 1..(i-1) : g[j] \in Int
      BY <1>w, <3>1
    <3> QED BY <3>2, <3>3, SumInt
  <2>6. g[i] = s[i].amount /\ g[i] \in Int /\ f[i] = im[s[i]]
    BY <1>w
  <2>7. Weight(Amounts, e.kept) - e.left = SumFunctionOnSet(g, 1..i) - amount
    BY <2>1, <2>3, <2>4, <2>5, <2>6
  <2>8. Weight(im, e.kept) = SumFunctionOnSet(f, 1..i)
    BY <2>1, <2>3, <2>4, <2>6
  <2> QED BY <2>3, <2>7, <2>8 DEF e
<1>10. N \in P
  <2> HIDE DEF P
  <2>1. 0..N \subseteq P
    BY <1>1, <1>8, <1>9, UpTo
  <2> QED BY <1>1, <2>1
<1>11. drain[N] \in Drained /\ drain[N].left = 0
  BY <1>4, <1>10
<1>12. /\ Weight(im, drain[N].kept) = Weight(im, s)
       /\ Weight(Amounts, drain[N].kept) + amount = Weight(Amounts, s)
  <2>1. Weight(Amounts, drain[N].kept) \in Nat /\ Weight(Amounts, s) \in Nat
    BY <1>w, <1>11, WeightNat DEF Drained
  <2> QED BY <1>10, <1>11, <1>v, <2>1
<1> QED BY <1>4, <1>12 DEF im

-----------------------------------------------------------------------------
(* The bonding period *)

LEMMA BondSums ==
  ASSUME NEW t \in Nat, NEW bs \in Seq(Bond)
  PROVE  /\ SumFunction([i \in DOMAIN bs |-> IF t <= bs[i].start + BondingDuration
                                             THEN bs[i].amount ELSE 0])
              = Weight(ImmatureAmounts(t), bs)
         /\ SumFunction([i \in DOMAIN bs |-> bs[i].amount]) = Weight(Amounts, bs)
<1>1. DOMAIN bs = 1..Len(bs) /\ \A i \in 1..Len(bs) : bs[i] \in Bond
  OBVIOUS
<1>2. [i \in DOMAIN bs |-> IF t <= bs[i].start + BondingDuration THEN bs[i].amount ELSE 0]
        = Weights(ImmatureAmounts(t), bs)
  BY <1>1 DEF Weights, ImmatureAmounts
<1>3. [i \in DOMAIN bs |-> bs[i].amount] = Weights(Amounts, bs)
  BY <1>1 DEF Weights, Amounts
<1>4. /\ DOMAIN Weights(ImmatureAmounts(t), bs) = 1..Len(bs)
      /\ DOMAIN Weights(Amounts, bs) = 1..Len(bs)
  BY DEF Weights
<1> QED BY <1>2, <1>3, <1>4 DEF Weight, SumFunction

LEMMA BondWeights ==
  ASSUME TypeOK, TypeOK', NEW c \in Clubs, NEW u \in Users
  PROVE  /\ bonds[c][u] \in Seq(Bond) /\ bonds'[c][u] \in Seq(Bond)
         /\ Unbonding(c, u) = Weight(ImmatureAmounts(now), bonds[c][u])
         /\ Unbonding(c, u)' = Weight(ImmatureAmounts(now'), bonds'[c][u])
         /\ Bonded(c, u) = Weight(Amounts, bonds[c][u])
         /\ Bonded(c, u)' = Weight(Amounts, bonds'[c][u])
         /\ Unbonding(c, u) \in Nat /\ Bonded(c, u) \in Nat /\ Bonded(c, u)' \in Nat
<1>1. bonds[c][u] \in Seq(Bond) /\ bonds'[c][u] \in Seq(Bond) /\ now \in Nat /\ now' \in Nat
  BY DEF TypeOK
<1>2. /\ Unbonding(c, u) = Weight(ImmatureAmounts(now), bonds[c][u])
      /\ Unbonding(c, u)' = Weight(ImmatureAmounts(now'), bonds'[c][u])
  BY <1>1, BondSums DEF Unbonding, ImmatureAmountOf, Immature
<1>3. /\ Bonded(c, u) = Weight(Amounts, bonds[c][u])
      /\ Bonded(c, u)' = Weight(Amounts, bonds'[c][u])
  BY <1>1, BondSums DEF Bonded, AmountOf, QueryClubBondingDetailsForUser
<1>4. /\ Weight(ImmatureAmounts(now), bonds[c][u]) \in Nat
      /\ Weight(Amounts, bonds[c][u]) \in Nat
      /\ Weight(Amounts, bonds'[c][u]) \in Nat
  BY <1>1, MeasureTypes, WeightNat
<1> QED BY <1>1, <1>2, <1>3, <1>4

(* Only unstaking touches bonds. *)
BondsMove ==
  \/ bonds' = bonds
  \/ \E sender \in Accounts, u \in Users, c \in Clubs, amount \in WithdrawAmounts :
       BondStake(sender, u, c, amount) \/ WithdrawMatured(sender, u, c, amount)

LEMMA NextMovesBonds ==
  ASSUME [Next]_vars
  PROVE  BondsMove
<1>1. CASE \E sender \in Accounts : OwnerCall(sender)
  BY <1>1 DEF OwnerCall, BuyAClub, AssignAClub, TakeOver, ReleaseClub, ClaimOwnerRewards,
              ClaimPreviousOwnerRewards, stakeVars, BondsMove
<1>2. CASE \E sender \in Accounts : StakerCall(sender)
  BY <1>2 DEF StakerCall, StakeOnAClub, AssignStakesToAClub, Deposit, ClaimStakerRewards,
              stakeVars, BondsMove
<1>3. CASE \E sender \in Accounts : RewardCall(sender)
  BY <1>3 DEF RewardCall, IncreaseRewardAmount, CalculateAndDistributeRewards,
              DistributeNothing, DistributeBatch, stakeVars, BondsMove
<1>4. CASE Environment \/ UNCHANGED vars
  BY <1>4 DEF Environment, Tick, TokensArrive, stakeVars, vars, BondsMove
<1> QED BY <1>1, <1>2, <1>3, <1>4 DEF Next

LEMMA NextServesBonds ==
  ASSUME Inv, Inv', [Next]_vars, now' = now
  PROVE  \A p \in Pairs : Unbonding(p[1], p[2])' >= Unbonding(p[1], p[2])
<1> SUFFICES ASSUME NEW d \in Clubs, NEW v \in Users
             PROVE  Unbonding(d, v)' >= Unbonding(d, v)
  BY DEF Pairs
<1> DEFINE im == ImmatureAmounts(now)
<1>1. TypeOK /\ TypeOK'
  BY DEF Inv
<1>2. /\ bonds[d][v] \in Seq(Bond)
      /\ Unbonding(d, v) = Weight(im, bonds[d][v])
      /\ Unbonding(d, v)' = Weight(im, bonds'[d][v])
      /\ Unbonding(d, v) \in Nat
  BY <1>1, BondWeights
<1> HIDE DEF im
<1>3. CASE bonds'[d][v] = bonds[d][v]
  BY <1>2, <1>3
<1>4. ASSUME NEW sender \in Accounts, NEW amount \in WithdrawAmounts,
             BondStake(sender, v, d, amount)
      PROVE  Unbonding(d, v)' >= Unbonding(d, v)
  <2> DEFINE b == [start |-> now, amount |-> amount]
  <2>1. bonds'[d][v] = AddBond(bonds[d][v], b)
    BY <1>1, <1>4 DEF BondStake, TypeOK
  <2>2. b \in Bond /\ im \in Measures
    BY <1>1, ConstantsAssumption, MeasureTypes DEF TypeOK, Bond, im
  <2> HIDE DEF b
  <2>3. Weight(im, bonds'[d][v]) = Weight(im, bonds[d][v]) + im[b] /\ im[b] \in Nat
    BY <1>2, <2>1, <2>2, WeightAddBond DEF Measures
  <2> QED BY <1>2, <2>3
<1>5. ASSUME NEW sender \in Accounts, NEW amount \in WithdrawAmounts,
             WithdrawMatured(sender, v, d, amount)
      PROVE  Unbonding(d, v)' >= Unbonding(d, v)
  <2>1. bonds'[d][v] = DrainBonds(bonds[d][v], amount).kept
    BY <1>1, <1>5 DEF WithdrawMatured, TypeOK
  <2>2. amount \in Nat /\ DrainBonds(bonds[d][v], amount).left = 0
    BY <1>5, ConstantsAssumption DEF WithdrawMatured
  <2>3. Weight(im, bonds'[d][v]) = Weight(im, bonds[d][v])
    BY <1>1, <1>2, <2>1, <2>2, DrainBondsWeight DEF im
  <2> QED BY <1>2, <2>3
<1>6. ASSUME NEW sender \in Accounts, NEW c \in Clubs, NEW u \in Users,
             NEW amount \in WithdrawAmounts,
             BondStake(sender, u, c, amount) \/ WithdrawMatured(sender, u, c, amount),
             ~(c = d /\ u = v)
      PROVE  bonds'[d][v] = bonds[d][v]
  <2>1. PICK x : bonds' = [bonds EXCEPT ![c] = [@ EXCEPT ![u] = x]]
    BY <1>6 DEF BondStake, WithdrawMatured
  <2>2. bonds'[d] = IF c = d THEN [bonds[d] EXCEPT ![u] = x] ELSE bonds[d]
    BY <1>1, <2>1 DEF TypeOK
  <2> QED BY <1>1, <1>6, <2>2 DEF TypeOK
<1> QED BY <1>3, <1>4, <1>5, <1>6, NextMovesBonds DEF BondsMove

(* However stakes are bonded, sorted in and withdrawn, the bonding period   *)
(* of no token is cut short.                                                *)
THEOREM BondingIsServed == Spec => BondingPeriodIsServed
<1>1. Inv /\ Inv' /\ [Next]_vars =>
        [now' = now =>
           \A p \in Pairs : Unbonding(p[1], p[2])' >= Unbonding(p[1], p[2])]_vars
  BY NextServesBonds
<1> QED BY <1>1, Invariance, PTL DEF Spec, BondingPeriodIsServed

-----------------------------------------------------------------------------
(* Debts *)

(* What the contract owes the staker of a pair.                             *)
DueToStaker(p) == Bonded(p[1], p[2]) + QueryStakerRewards(p[2], p[1])

LEMMA DebtTypes ==
  ASSUME TypeOK, TypeOK'
  PROVE  /\ IsFiniteSet(Pairs)
         /\ \A p \in Pairs : DueToStaker(p) \in Nat /\ DueToStaker(p)' \in Nat
         /\ \A u \in Users : OwnerDues(u) \in Nat /\ OwnerDues(u)' \in Nat
         /\ SumFunction([p \in Pairs |-> DueToStaker(p)]) \in Nat
         /\ SumFunction([u \in Users |-> OwnerDues(u)]) \in Nat
<1>1. IsFiniteSet(Pairs)
  BY ClubsFinite, ConstantsAssumption, FS_Product DEF Pairs
<1>2. \A p \in Pairs : DueToStaker(p) \in Nat /\ DueToStaker(p)' \in Nat
  <2> SUFFICES ASSUME NEW c \in Clubs, NEW u \in Users
               PROVE  /\ Bonded(c, u) + QueryStakerRewards(u, c) \in Nat
                      /\ Bonded(c, u)' + QueryStakerRewards(u, c)' \in Nat
    BY DEF Pairs, DueToStaker
  <2>1. Bonded(c, u) \in Nat /\ Bonded(c, u)' \in Nat
    BY BondWeights
  <2>2. QueryStakerRewards(u, c) \in Nat /\ QueryStakerRewards(u, c)' \in Nat
    BY DEF QueryStakerRewards, QueryClubStakingDetails, TypeOK, Stake
  <2> QED BY <2>1, <2>2
<1>3. \A u \in Users : OwnerDues(u) \in Nat /\ OwnerDues(u)' \in Nat
  BY OwnerDuesSum
<1>4. SumFunction([p \in Pairs |-> DueToStaker(p)]) \in Nat
  BY <1>1, <1>2, SumNat DEF SumFunction
<1>5. SumFunction([u \in Users |-> OwnerDues(u)]) \in Nat
  BY <1>3, ConstantsAssumption, SumNat DEF SumFunction
<1> QED BY <1>1, <1>2, <1>3, <1>4, <1>5

(* Debts shrink by what one staker or one owner is owed less.               *)
LEMMA StakerDebtSettled ==
  ASSUME TypeOK, TypeOK', NEW q \in Pairs, NEW amount \in Nat,
         DueToStaker(q) - DueToStaker(q)' = amount,
         \A p \in Pairs \ {q} : DueToStaker(p)' = DueToStaker(p),
         \A u \in Users : OwnerDues(u)' = OwnerDues(u)
  PROVE  Debts - Debts' = amount
<1> DEFINE f == [p \in Pairs |-> DueToStaker(p)]
           g == [p \in Pairs |-> DueToStaker(p)']
           dues == [u \in Users |-> OwnerDues(u)]
<1>1. SumFunction(f) \in Nat /\ SumFunction(dues) \in Nat
  BY DebtTypes
<1>2. Debts = SumFunction(f) + SumFunction(dues)
  BY DEF Debts, DueToStaker
<1>3. [u \in Users |-> OwnerDues(u)'] = dues
  OBVIOUS
<1>4. Debts' = SumFunction(g) + SumFunction(dues)
  <2>1. Debts' = SumFunction(g) + SumFunction([u \in Users |-> OwnerDues(u)'])
    BY DEF Debts, DueToStaker
  <2> QED BY <1>3, <2>1
<1>5. SumFunctionOnSet(g, Pairs) = SumFunctionOnSet(f, Pairs) + (g[q] - f[q])
  <2>1. \A p \in Pairs : f[p] \in Int /\ g[p] \in Int
    BY DebtTypes
  <2>2. \A p \in Pairs \ {q} : f[p] = g[p]
    OBVIOUS
  <2>3. IsFiniteSet(Pairs)
    BY DebtTypes
  <2> HIDE DEF f, g
  <2> QED BY <2>1, <2>2, <2>3, SumUpdate
<1>6. SumFunction(f) = SumFunctionOnSet(f, Pairs) /\ SumFunction(g) = SumFunctionOnSet(g, Pairs)
  BY DEF SumFunction
<1>7. f[q] - g[q] = amount /\ f[q] \in Nat /\ g[q] \in Nat
  BY DebtTypes
<1> HIDE DEF f, g, dues
<1> QED BY <1>1, <1>2, <1>4, <1>5, <1>6, <1>7

LEMMA OwnerDebtSettled ==
  ASSUME TypeOK, TypeOK', NEW v \in Users, NEW amount \in Nat,
         OwnerDues(v) - OwnerDues(v)' = amount,
         \A u \in Users \ {v} : OwnerDues(u)' = OwnerDues(u),
         \A p \in Pairs : DueToStaker(p)' = DueToStaker(p)
  PROVE  Debts - Debts' = amount
<1> DEFINE f == [u \in Users |-> OwnerDues(u)]
           g == [u \in Users |-> OwnerDues(u)']
           stakers == [p \in Pairs |-> DueToStaker(p)]
<1>1. SumFunction(f) \in Nat /\ SumFunction(stakers) \in Nat
  BY DebtTypes
<1>2. Debts = SumFunction(stakers) + SumFunction(f)
  BY DEF Debts, DueToStaker
<1>3. [p \in Pairs |-> DueToStaker(p)'] = stakers
  OBVIOUS
<1>4. Debts' = SumFunction(stakers) + SumFunction(g)
  <2>1. Debts' = SumFunction([p \in Pairs |-> DueToStaker(p)']) + SumFunction(g)
    BY DEF Debts, DueToStaker
  <2> QED BY <1>3, <2>1
<1>5. SumFunctionOnSet(g, Users) = SumFunctionOnSet(f, Users) + (g[v] - f[v])
  <2>1. \A u \in Users : f[u] \in Int /\ g[u] \in Int
    BY DebtTypes
  <2>2. \A u \in Users \ {v} : f[u] = g[u]
    OBVIOUS
  <2>3. IsFiniteSet(Users)
    BY ConstantsAssumption
  <2> HIDE DEF f, g
  <2> QED BY <2>1, <2>2, <2>3, SumUpdate
<1>6. SumFunction(f) = SumFunctionOnSet(f, Users) /\ SumFunction(g) = SumFunctionOnSet(g, Users)
  BY DEF SumFunction
<1>7. f[v] - g[v] = amount /\ f[v] \in Nat /\ g[v] \in Nat
  BY DebtTypes
<1> HIDE DEF f, g, stakers
<1> QED BY <1>1, <1>2, <1>4, <1>5, <1>6, <1>7

(* Nothing changes for the stakers while stakes and bonds do not.           *)
LEMMA StakersKept ==
  ASSUME UNCHANGED stakeVars
  PROVE  \A p \in Pairs : DueToStaker(p)' = DueToStaker(p)
BY DEF stakeVars, DueToStaker, Bonded, AmountOf, QueryClubBondingDetailsForUser,
       QueryStakerRewards, QueryClubStakingDetails

LEMMA ClaimOwnerRewardsSettles ==
  ASSUME Inv, Inv', NEW sender \in Accounts, NEW owner \in Users, NEW c \in Clubs,
         ClaimOwnerRewards(sender, owner, c)
  PROVE  Debts - Debts' = balance - balance'
<1> DEFINE amount == club[c].reward
<1>1. TypeOK /\ TypeOK'
  BY DEF Inv
<1>2. /\ amount \in Nat /\ balance \in Nat /\ balance' = balance - amount
      /\ club[c] # NoClub /\ club[c].owner = owner /\ club[c] \in ClubDetails
      /\ club' = [club EXCEPT ![c].reward = 0]
      /\ prevOwnerReward' = prevOwnerReward /\ UNCHANGED stakeVars
  BY <1>1 DEF ClaimOwnerRewards, PayReward, TypeOK, ClubDetails, Founded
<1>3. \A d \in Clubs \ {c} : club'[d] = club[d]
  BY <1>1, <1>2 DEF TypeOK
<1>4. club'[c] # NoClub /\ club'[c].owner = owner /\ club'[c].reward = 0
  <2>1. club'[c] = [club[c] EXCEPT !.reward = 0]
    BY <1>1, <1>2 DEF TypeOK
  <2>2. [club[c] EXCEPT !.reward = 0] \in ClubDetails
    BY <1>2 DEF ClubDetails
  <2> QED BY <1>2, <2>1, <2>2, ConstantsAssumption DEF ClubDetails
<1>5. ASSUME NEW u \in Users
      PROVE  OwnerDues(u)' = OwnerDues(u) - (IF u = owner THEN amount ELSE 0)
  <2> DEFINE f == DuesOf(club, u)
             g == DuesOf(club', u)
  <2>1. \A d \in Clubs : f[d] \in Int /\ g[d] \in Int
    <3>1. \A d \in Clubs : f[d] \in Nat /\ g[d] \in Nat
      BY <1>1, DuesOfClubs DEF TypeOK
    <3> HIDE DEF f, g
    <3> QED BY <3>1
  <2>2. \A d \in Clubs \ {c} : f[d] = g[d]
    BY <1>3 DEF DuesOf
  <2>3. g[c] - f[c] = 0 - (IF u = owner THEN amount ELSE 0)
    BY <1>2, <1>4 DEF DuesOf
  <2>4. /\ OwnerDues(u) = prevOwnerReward[u] + SumFunctionOnSet(f, Clubs)
        /\ OwnerDues(u)' = prevOwnerReward[u] + SumFunctionOnSet(g, Clubs)
    BY <1>1, <1>2, OwnerDuesSum
  <2> HIDE DEF f, g, amount
  <2>5. SumFunctionOnSet(g, Clubs) = SumFunctionOnSet(f, Clubs) + (g[c] - f[c])
    BY <2>1, <2>2, ClubsFinite, SumUpdate
  <2>6. SumFunctionOnSet(f, Clubs) \in Int /\ prevOwnerReward[u] \in Int
    BY <1>1, <2>1, ClubsFinite, SumInt DEF TypeOK
  <2> QED BY <1>2, <2>3, <2>4, <2>5, <2>6
<1>6. \A u \in Users : OwnerDues(u) \in Nat
  BY <1>1, DebtTypes
<1> HIDE DEF amount
<1>7. Debts - Debts' = amount
  BY <1>1, <1>2, <1>5, <1>6, StakersKept, OwnerDebtSettled
<1> QED BY <1>2, <1>7

LEMMA ClaimPreviousOwnerRewardsSettles ==
  ASSUME Inv, Inv', NEW sender \in Accounts, NEW owner \in Users,
         ClaimPreviousOwnerRewards(sender, owner)
  PROVE  Debts - Debts' = balance - balance'
<1> DEFINE amount == prevOwnerReward[owner]
<1>1. TypeOK /\ TypeOK'
  BY DEF Inv
<1>2. /\ amount \in Nat /\ balance \in Nat /\ balance' = balance - amount
      /\ prevOwnerReward' = [prevOwnerReward EXCEPT ![owner] = 0]
      /\ club' = club /\ UNCHANGED stakeVars
  BY <1>1 DEF ClaimPreviousOwnerRewards, PayReward, TypeOK
<1>3. ASSUME NEW u \in Users
      PROVE  OwnerDues(u)' = OwnerDues(u) - (IF u = owner THEN amount ELSE 0)
  <2>1. prevOwnerReward'[u] = IF u = owner THEN 0 ELSE prevOwnerReward[u]
    BY <1>1, <1>2 DEF TypeOK
  <2>2. /\ OwnerDues(u) = prevOwnerReward[u] + SumFunctionOnSet(DuesOf(club, u), Clubs)
        /\ OwnerDues(u)' = prevOwnerReward'[u] + SumFunctionOnSet(DuesOf(club, u), Clubs)
    BY <1>1, <1>2, OwnerDuesSum
  <2>3. prevOwnerReward[u] \in Nat /\ SumFunctionOnSet(DuesOf(club, u), Clubs) \in Nat
    BY <1>1, DuesOfClubs, ClubsFinite, SumNat DEF TypeOK
  <2> QED BY <2>1, <2>2, <2>3
<1>4. \A u \in Users : OwnerDues(u) \in Nat
  BY <1>1, DebtTypes
<1> HIDE DEF amount
<1>5. Debts - Debts' = amount
  BY <1>1, <1>2, <1>3, <1>4, StakersKept, OwnerDebtSettled
<1> QED BY <1>2, <1>5

LEMMA WithdrawMaturedSettles ==
  ASSUME Inv, Inv', NEW sender \in Accounts, NEW staker \in Users, NEW c \in Clubs,
         NEW amount \in WithdrawAmounts, WithdrawMatured(sender, staker, c, amount)
  PROVE  /\ Debts - Debts' = balance - balance'
         /\ Bonded(c, staker) - Bonded(c, staker)' = balance - balance'
<1> DEFINE q == <<c, staker>>
<1>1. TypeOK /\ TypeOK'
  BY DEF Inv
<1>2. /\ amount \in Nat /\ balance' = balance - amount /\ balance \in Nat
      /\ DrainBonds(bonds[c][staker], amount).left = 0
      /\ bonds' = [bonds EXCEPT ![c] = [@ EXCEPT ![staker] = DrainBonds(bonds[c][staker], amount).kept]]
      /\ stake' = stake /\ UNCHANGED ownerVars
  BY <1>1, ConstantsAssumption DEF WithdrawMatured, TypeOK
<1>3. /\ bonds'[c][staker] = DrainBonds(bonds[c][staker], amount).kept
      /\ \A p \in Pairs \ {q} : bonds'[p[1]][p[2]] = bonds[p[1]][p[2]]
  BY <1>1, <1>2 DEF TypeOK, Pairs
<1>4. Bonded(c, staker)' + amount = Bonded(c, staker)
  <2>1. bonds[c][staker] \in Seq(Bond)
    BY <1>1 DEF TypeOK
  <2>2. Weight(Amounts, DrainBonds(bonds[c][staker], amount).kept) + amount
          = Weight(Amounts, bonds[c][staker])
    BY <1>1, <1>2, <2>1, DrainBondsWeight
  <2> QED BY <1>1, <1>3, <2>2, BondWeights
<1>5. \A p \in Pairs : QueryStakerRewards(p[2], p[1])' = QueryStakerRewards(p[2], p[1])
  BY <1>2 DEF QueryStakerRewards, QueryClubStakingDetails
<1>6. \A p \in Pairs \ {q} : DueToStaker(p)' = DueToStaker(p)
  BY <1>3, <1>5 DEF DueToStaker, Bonded, AmountOf, QueryClubBondingDetailsForUser
<1>7. q \in Pairs /\ DueToStaker(q) - DueToStaker(q)' = amount
  <2>1. q \in Pairs /\ q[1] = c /\ q[2] = staker
    BY DEF Pairs
  <2>2. QueryStakerRewards(staker, c)' = QueryStakerRewards(staker, c)
    BY <1>5, <2>1
  <2>3. QueryStakerRewards(staker, c) \in Nat
    BY <1>1 DEF QueryStakerRewards, QueryClubStakingDetails, TypeOK, Stake
  <2>4. Bonded(c, staker) \in Nat /\ Bonded(c, staker)' \in Nat
    BY <1>1, BondWeights
  <2> QED BY <1>2, <1>4, <2>1, <2>2, <2>3, <2>4 DEF DueToStaker
<1>8. \A u \in Users : OwnerDues(u)' = OwnerDues(u)
  <2>1. DuesKept
    BY <1>2 DEF DuesKept, ownerVars
  <2> QED BY <1>1, <2>1, DuesKeptEqual
<1> HIDE DEF q
<1>9. Debts - Debts' = amount
  BY <1>1, <1>2, <1>6, <1>7, <1>8, StakerDebtSettled
<1>10. Bonded(c, staker) \in Nat /\ Bonded(c, staker)' \in Nat
  BY <1>1, BondWeights
<1> QED BY <1>2, <1>4, <1>9, <1>10

(* Only four calls pay tokens. *)
Payout ==
  \E sender \in Accounts, u \in Users, c \in Clubs :
    \/ ClaimOwnerRewards(sender, u, c)
    \/ ClaimPreviousOwnerRewards(sender, u)
    \/ \E amount \in WithdrawAmounts : WithdrawMatured(sender, u, c, amount)
    \/ ClaimStakerRewards(sender, u, c)

LEMMA NextPays ==
  ASSUME Inv, [Next]_vars, balance' < balance
  PROVE  Payout
<1>0. balance \in Nat
  BY DEF Inv, TypeOK
<1>1. CASE \E sender \in Accounts : OwnerCall(sender)
  BY <1>0, <1>1 DEF OwnerCall, BuyAClub, AssignAClub, TakeOver, ReleaseClub, Payout
<1>2. CASE \E sender \in Accounts : StakerCall(sender)
  <2>1. \A amount \in StakeAmounts : ~(balance + amount < balance)
    BY <1>0, ConstantsAssumption
  <2>2. PICK sender \in Accounts, c \in Clubs, u \in Users :
          \/ \E amount \in StakeAmounts, auto \in BOOLEAN : Deposit(u, c, amount, auto)
          \/ \E amount \in WithdrawAmounts :
               BondStake(sender, u, c, amount) \/ WithdrawMatured(sender, u, c, amount)
          \/ ClaimStakerRewards(sender, u, c)
    BY <1>2 DEF StakerCall, StakeOnAClub, AssignStakesToAClub
  <2>3. \A amount \in StakeAmounts, auto \in BOOLEAN : ~Deposit(u, c, amount, auto)
    BY <2>1 DEF Deposit
  <2>4. \A amount \in WithdrawAmounts : ~BondStake(sender, u, c, amount)
    BY <1>0 DEF BondStake
  <2> QED BY <2>2, <2>3, <2>4 DEF Payout
<1>3. CASE \E sender \in Accounts : RewardCall(sender)
  BY <1>0, <1>3 DEF RewardCall, IncreaseRewardAmount, CalculateAndDistributeRewards,
                    DistributeNothing, DistributeBatch
<1>4. CASE Environment \/ UNCHANGED vars
  <2>1. \A amount \in RewardAmounts : ~(balance + amount < balance)
    BY <1>0, ConstantsAssumption
  <2> QED BY <1>0, <1>4, <2>1 DEF Environment, Tick, TokensArrive, vars
<1> QED BY <1>1, <1>2, <1>3, <1>4 DEF Next

StakerIsPaid ==
  \E sender \in Accounts, u \in Users, c \in Clubs : ClaimStakerRewards(sender, u, c)

PayoutSettles == balance' < balance => Debts - Debts' = balance - balance'

LEMMA NextSettles ==
  ASSUME Inv, Inv', [Next]_vars
  PROVE  PayoutSettles \/ StakerIsPaid
BY NextPays, ClaimOwnerRewardsSettles, ClaimPreviousOwnerRewardsSettles,
   WithdrawMaturedSettles DEF Payout, PayoutSettles, StakerIsPaid

(* Whoever is paid, a bond or a reward of that amount is no longer owed,    *)
(* except by a claim of a staker's reward (the finding of run club_claim).  *)
THEOREM PayoutsSettle == Spec => [][PayoutSettles \/ StakerIsPaid]_vars
<1>1. Inv /\ Inv' /\ [Next]_vars => [PayoutSettles \/ StakerIsPaid]_vars
  BY NextSettles
<1> QED BY <1>1, Invariance, PTL DEF Spec

(* As long as no staker claims a reward, every payment settles a debt.      *)
THEOREM DebtsAreSettled == Init /\ [][Next /\ ~StakerIsPaid]_vars => PayoutsSettleDebts
<1>1. Inv /\ [Next /\ ~StakerIsPaid]_vars => Inv'
  BY NextInv
<1>2. Inv /\ Inv' /\ [Next /\ ~StakerIsPaid]_vars =>
        [balance' < balance => Debts - Debts' = balance - balance']_vars
  BY NextSettles DEF PayoutSettles
<1> QED BY <1>1, <1>2, InitInv, PTL DEF PayoutsSettleDebts

-----------------------------------------------------------------------------
(* The ranking picks the clubs that grew most                              *)

(* No club ever counted more than the whole supply, so that none can have   *)
(* lost more than the ranking starts with.                                  *)
TotalsWithinSupply ==
  \A c \in Clubs : /\ Founded(c) => club[c].total <= MaxUfuryCount
                   /\ snapshot[c] <= MaxUfuryCount

FoundedUpTo(i) == {c \in Clubs : Founded(c) /\ c <= i}

(* Among the first i clubs c has increase inc, and none of that increase    *)
(* before it holds more.                                                    *)
LeadsUpTo(c, i, inc) ==
  /\ c \in FoundedUpTo(i)
  /\ Increase(c) = inc
  /\ \A d \in FoundedUpTo(i) : d < c /\ Increase(d) = inc => club[d].total <= club[c].total

(* After the first i clubs: nobody grew more than a.inc, a.best is the      *)
(* largest total of those that grew that much, and the winners lead them.   *)
Ranked(a, i) ==
  /\ a \in ScanState
  /\ FoundedUpTo(i) = {} => a.inc = -MaxUfuryCount /\ a.best = 0
  /\ FoundedUpTo(i) # {} => \E w \in FoundedUpTo(i) : Increase(w) = a.inc /\ club[w].total = a.best
  /\ \A c \in FoundedUpTo(i) : Increase(c) <= a.inc
  /\ \A c \in FoundedUpTo(i) : Increase(c) = a.inc => club[c].total <= a.best
  /\ \A c \in Clubs : c \in a.winners <=> LeadsUpTo(c, i, a.inc)

LEMMA ScanClubRanks ==
  ASSUME TypeOK, TotalsWithinSupply, NEW c \in Clubs, NEW a, Ranked(a, c - 1)
  PROVE  Ranked(ScanClub(a, c), c)
<1> DEFINE b == ScanClub(a, c)
           before == FoundedUpTo(c - 1)
           after == FoundedUpTo(c)
           t == club[c].total
           counted == [a EXCEPT !.count = @ + 1, !.total = @ + t]
<1>1. \A d \in Clubs : d <= c <=> d <= c - 1 \/ d = c
  BY DEF Clubs
<1>2. a \in ScanState /\ b \in ScanState
  BY ScanClubType DEF Ranked
<1>3. CASE ~Founded(c)
  <2>1. after = before
    BY <1>1, <1>3 DEF FoundedUpTo
  <2>2. b = a
    BY <1>3 DEF ScanClub
  <2> QED BY <2>1, <2>2 DEF Ranked, LeadsUpTo
<1>4. CASE Founded(c)
  <2>1. after = before \cup {c} /\ c \notin before
    <3>1. ~(c <= c - 1)
      BY DEF Clubs
    <3> QED BY <1>1, <1>4, <3>1 DEF FoundedUpTo
  <2>2. \A d \in after : club[d].total \in Nat /\ Increase(d) \in Int
    BY DEF FoundedUpTo, Founded, TypeOK, ClubDetails, Increase
  <2>3. t \in Nat /\ Increase(c) = t - snapshot[c] /\ Increase(c) \in Int
    BY <2>1, <2>2 DEF Increase
  <2>4. Increase(c) >= -MaxUfuryCount
    BY <2>3, ConstantsAssumption DEF TotalsWithinSupply, TypeOK
  <2>5. a.inc \in Int /\ a.best \in Nat
    BY <1>2 DEF ScanState
  <2>6. \A d \in before : d \in Clubs /\ d < c /\ ~(c < d)
    BY DEF FoundedUpTo, Clubs
  <2>7. CASE Increase(c) > a.inc
    <3>1. b = [counted EXCEPT !.inc = t - snapshot[c], !.best = t, !.inWinning = t, !.winners = {c}]
      BY <1>4, <2>3, <2>7 DEF ScanClub
    <3>2. b.inc = Increase(c) /\ b.best = t /\ b.winners = {c}
      BY <1>2, <2>3, <3>1 DEF ScanState
    <3> HIDE DEF b, before, after, t
    <3>3. \A d \in after : Increase(d) <= b.inc /\ (Increase(d) = b.inc => d = c)
      BY <2>1, <2>2, <2>3, <2>5, <2>7, <3>2 DEF Ranked, before
    <3>4. LeadsUpTo(c, c, b.inc)
      BY <2>1, <2>3, <3>2, <3>3 DEF LeadsUpTo, after, Clubs
    <3>5. \A d \in Clubs : d \in b.winners <=> LeadsUpTo(d, c, b.inc)
      BY <3>2, <3>3, <3>4 DEF LeadsUpTo, after
    <3> QED BY <1>2, <2>1, <2>3, <3>2, <3>3, <3>5 DEF Ranked, b, after, t
  <2>8. CASE Increase(c) = a.inc /\ t >= a.best
    <3>1. b = [counted EXCEPT !.best = t, !.inWinning = t, !.winners = @ \cup {c}]
      BY <1>4, <2>3, <2>5, <2>8 DEF ScanClub
    <3>2. b.inc = Increase(c) /\ b.best = t /\ b.winners = a.winners \cup {c}
      BY <1>2, <2>3, <2>8, <3>1 DEF ScanState
    <3> HIDE DEF b, before, after, t
    <3>3. \A d \in after : Increase(d) <= b.inc
      BY <2>1, <2>2, <2>3, <2>5, <2>8, <3>2 DEF Ranked, before
    <3>4. \A d \in after : Increase(d) = b.inc => club[d].total <= b.best
      BY <2>1, <2>2, <2>3, <2>5, <2>8, <3>2 DEF Ranked, before, t
    <3>5. LeadsUpTo(c, c, b.inc)
      BY <2>1, <2>3, <3>2, <3>4 DEF LeadsUpTo, after, t
    <3>6. \A d \in Clubs : d # c => (LeadsUpTo(d, c, b.inc) <=> LeadsUpTo(d, c - 1, a.inc))
      BY <2>1, <2>6, <2>8, <3>2 DEF LeadsUpTo, before, after
    <3>7. c \notin a.winners
      BY <2>1 DEF Ranked, LeadsUpTo, before
    <3>8. \A d \in Clubs : d \in b.winners <=> LeadsUpTo(d, c, b.inc)
      BY <3>2, <3>5, <3>6 DEF Ranked
    <3> QED BY <1>2, <2>1, <2>3, <3>2, <3>3, <3>4, <3>8 DEF Ranked, b, after, t
  <2>9. CASE ~(Increase(c) > a.inc) /\ ~(Increase(c) = a.inc /\ t >= a.best)
    <3>1. b = counted
      BY <1>4, <2>3, <2>5, <2>9 DEF ScanClub
    <3>2. b.inc = a.inc /\ b.best = a.best /\ b.winners = a.winners
      BY <1>2, <3>1 DEF ScanState
    <3> HIDE DEF b, before, after, t
    <3>3. before # {}
      BY <2>3, <2>4, <2>5, <2>9, ConstantsAssumption DEF Ranked, before
    <3>4. PICK w \in before : Increase(w) = a.inc /\ club[w].total = a.best
      BY <3>3 DEF Ranked, before
    <3>5. \A d \in after : Increase(d) <= b.inc
      BY <2>1, <2>2, <2>3, <2>5, <2>9, <3>2 DEF Ranked, before
    <3>6. \A d \in after : Increase(d) = b.inc => club[d].total <= b.best
      BY <2>1, <2>2, <2>3, <2>5, <2>9, <3>2 DEF Ranked, before, t
    <3>7. ~LeadsUpTo(c, c, b.inc)
      BY <2>1, <2>3, <2>5, <2>6, <2>9, <3>2, <3>4 DEF LeadsUpTo, after, t
    <3>8. \A d \in Clubs : d # c => (LeadsUpTo(d, c, b.inc) <=> LeadsUpTo(d, c - 1, a.inc))
      BY <2>1, <2>6, <3>2 DEF LeadsUpTo, before, after
    <3>9. c \notin a.winners
      BY <2>1 DEF Ranked, LeadsUpTo, before
    <3>10. \A d \in Clubs : d \in b.winners <=> LeadsUpTo(d, c, b.inc)
      BY <3>2, <3>7, <3>8, <3>9 DEF Ranked
    <3> QED BY <1>2, <2>1, <3>2, <3>4, <3>5, <3>6, <3>10 DEF Ranked, b, after
  <2> QED BY <2>3, <2>5, <2>7, <2>8, <2>9
<1> QED BY <1>3, <1>4

LEMMA RankingIsRight ==
  ASSUME TypeOK, TotalsWithinSupply
  PROVE  BestClubsWin
<1>1. PICK scan : IsScan(scan)
  BY ScanExists
<1> DEFINE P == {c \in 0..NumClubs : Ranked(scan[c], c)}
           a == scan[NumClubs]
<1>2. NumClubs \in Nat /\ MaxUfuryCount \in Nat
  BY ConstantsAssumption
<1>3. 0 \in P
  <2>1. FoundedUpTo(0) = {}
    BY DEF FoundedUpTo, Clubs
  <2>2. scan[0] = StartOfScan /\ scan[0] \in ScanState
    BY <1>1, <1>2 DEF IsScan
  <2>3. Ranked(StartOfScan, 0)
    BY <1>2, <2>1, <2>2 DEF Ranked, StartOfScan, LeadsUpTo
  <2> QED BY <1>2, <2>2, <2>3
<1>4. \A c \in 1..NumClubs : c - 1 \in P => c \in P
  BY <1>1, ScanClubRanks DEF IsScan, Clubs
<1>5. Ranked(a, NumClubs)
  <2> HIDE DEF P
  <2>1. 0..NumClubs \subseteq P
    BY <1>2, <1>3, <1>4, UpTo
  <2>2. NumClubs \in 0..NumClubs
    BY <1>2
  <2>3. NumClubs \in P
    BY <2>1, <2>2
  <2> QED BY <2>3 DEF P
<1>6. FoundedUpTo(NumClubs) = QueryAllClubs
  BY <1>2 DEF FoundedUpTo, QueryAllClubs, Clubs
<1>7. WinningClubs.winners = a.winners
  BY <1>1 DEF IsScan
<1>8. \A c \in QueryAllClubs : Increase(c) \in Int /\ club[c].total \in Nat
  BY DEF QueryAllClubs, Founded, TypeOK, ClubDetails, Increase
<1>9. a.inc \in Int /\ a.best \in Nat
  BY <1>5 DEF Ranked, ScanState
<1> HIDE DEF a
<1>10. a.winners \subseteq Clubs /\ QueryAllClubs \subseteq Clubs
  BY <1>5 DEF Ranked, ScanState, QueryAllClubs
<1>11. \A c \in QueryAllClubs : c \in GrewMost <=> Increase(c) = a.inc
  <2> SUFFICES ASSUME NEW c \in QueryAllClubs PROVE c \in GrewMost <=> Increase(c) = a.inc
    OBVIOUS
  <2>1. PICK w \in QueryAllClubs : Increase(w) = a.inc
    BY <1>5, <1>6 DEF Ranked
  <2>2. \A d \in QueryAllClubs : Increase(d) <= a.inc
    BY <1>5, <1>6 DEF Ranked
  <2> QED BY <1>8, <1>9, <2>1, <2>2 DEF GrewMost
<1>12. \A c \in Clubs : c \in a.winners <=> c \in GrewMost /\ Leads(c)
  <2>1. \A c \in Clubs : c \in a.winners <=> LeadsUpTo(c, NumClubs, a.inc)
    BY <1>5 DEF Ranked
  <2>2. GrewMost \subseteq QueryAllClubs
    BY DEF GrewMost
  <2> QED BY <1>6, <1>11, <2>1, <2>2 DEF LeadsUpTo, Leads
<1>13. GrewMost \subseteq Clubs
  BY <1>10 DEF GrewMost
<1> QED BY <1>7, <1>10, <1>12, <1>13 DEF BestClubsWin

LEMMA InitSupply ==
  ASSUME Init
  PROVE  TotalsWithinSupply
BY ConstantsAssumption DEF Init, TotalsWithinSupply, Founded

LEMMA SupplyBounds ==
  /\ MaxUfuryCount \in Nat /\ MaxStake \in Nat /\ MaxAmount \in Nat
  /\ MaxStake <= MaxUfuryCount /\ MaxAmount <= MaxUfuryCount
  /\ StakeAmounts \subseteq Nat /\ WithdrawAmounts \subseteq Nat
<1>1. /\ MaxUfuryCount \in Nat /\ MaxStake \in Nat /\ MaxAmount \in Nat
      /\ StakeAmounts \subseteq Nat /\ WithdrawAmounts \subseteq Nat
  BY ConstantsAssumption
<1> QED BY <1>1, SupplyAssumption

(* One club changes, to a total within the supply.                          *)
LEMMA TotalUpdate ==
  ASSUME TypeOK, TotalsWithinSupply, NEW c \in Clubs, NEW new,
         club' = [club EXCEPT ![c] = new], new.total <= MaxUfuryCount,
         \A d \in Clubs : snapshot'[d] <= MaxUfuryCount
  PROVE  TotalsWithinSupply'
<1>1. \A d \in Clubs : club'[d] = IF d = c THEN new ELSE club[d]
  BY DEF TypeOK
<1> QED BY <1>1 DEF TotalsWithinSupply, Founded

LEMMA TotalOfClub ==
  ASSUME TypeOK, TotalsWithinSupply, NEW c \in Clubs, Founded(c)
  PROVE  /\ club[c] \in ClubDetails /\ club[c].total \in 0..MaxUfuryCount
         /\ \A total \in Nat : [club[c] EXCEPT !.total = total].total = total
<1>1. club[c] \in ClubDetails
  BY DEF TypeOK, Founded
<1>2. club[c].total \in Nat /\ club[c].total <= MaxUfuryCount
  BY <1>1 DEF ClubDetails, TotalsWithinSupply
<1> QED BY <1>1, <1>2, ConstantsAssumption DEF ClubDetails

LEMMA OwnerCallTotals ==
  ASSUME Inv, TotalsWithinSupply, NEW sender \in Accounts, OwnerCall(sender)
  PROVE  TotalsWithinSupply'
<1> USE DEF Inv, rewardVars
<1>1. PICK c \in Clubs, u \in Users :
        \/ \E seller \in Users \cup {NoUser}, auto \in BOOLEAN : TakeOver(u, seller, c, auto)
        \/ ReleaseClub(sender, u, c)
        \/ ClaimOwnerRewards(sender, u, c)
        \/ ClaimPreviousOwnerRewards(sender, u)
  BY DEF OwnerCall, BuyAClub, AssignAClub
<1>2. snapshot' = snapshot
  BY <1>1 DEF TakeOver, ReleaseClub, ClaimOwnerRewards, ClaimPreviousOwnerRewards
<1>3. club' = club \/ \E new : /\ club' = [club EXCEPT ![c] = new]
                               /\ new.total = IF Founded(c) THEN club[c].total ELSE 0
  <2>1. CASE \E seller \in Users \cup {NoUser}, auto \in BOOLEAN : TakeOver(u, seller, c, auto)
    <3>1. club' = [club EXCEPT ![c] = BoughtClub(c, u)]
      BY <2>1 DEF TakeOver
    <3>2. BoughtClub(c, u).total = IF Founded(c) THEN club[c].total ELSE 0
      BY DEF BoughtClub
    <3> QED BY <3>1, <3>2
  <2>2. CASE ReleaseClub(sender, u, c)
    <3>1. Founded(c) /\ club[c] \in ClubDetails
      BY <2>2 DEF ReleaseClub, Founded, TypeOK
    <3>2. club' = [club EXCEPT ![c] = [club[c] EXCEPT !.start = now, !.released = TRUE]]
      BY <2>2 DEF ReleaseClub
    <3>3. [club[c] EXCEPT !.start = now, !.released = TRUE].total = club[c].total
      BY <3>1 DEF ClubDetails
    <3> QED BY <3>1, <3>2, <3>3
  <2>3. CASE ClaimOwnerRewards(sender, u, c)
    <3>1. Founded(c) /\ club[c] \in ClubDetails
      BY <2>3 DEF ClaimOwnerRewards, Founded, TypeOK
    <3>2. club' = [club EXCEPT ![c] = [club[c] EXCEPT !.reward = 0]]
      BY <2>3 DEF ClaimOwnerRewards
    <3>3. [club[c] EXCEPT !.reward = 0].total = club[c].total
      BY <3>1 DEF ClubDetails
    <3> QED BY <3>1, <3>2, <3>3
  <2>4. CASE ClaimPreviousOwnerRewards(sender, u)
    BY <2>4 DEF ClaimPreviousOwnerRewards
  <2> QED BY <1>1, <2>1, <2>2, <2>3, <2>4
<1>4. \A d \in Clubs : snapshot'[d] <= MaxUfuryCount
  BY <1>2 DEF TotalsWithinSupply
<1>5. CASE club' = club
  BY <1>2, <1>5 DEF TotalsWithinSupply, Founded
<1>6. CASE \E new : /\ club' = [club EXCEPT ![c] = new]
                   /\ new.total = IF Founded(c) THEN club[c].total ELSE 0
  <2>1. PICK new : /\ club' = [club EXCEPT ![c] = new]
                   /\ new.total = IF Founded(c) THEN club[c].total ELSE 0
    BY <1>6
  <2>2. new.total <= MaxUfuryCount
    BY <2>1, ConstantsAssumption DEF TotalsWithinSupply
  <2> QED BY <1>4, <2>1, <2>2, TotalUpdate
<1> QED BY <1>3, <1>5, <1>6

LEMMA StakerCallTotals ==
  ASSUME Inv, TotalsWithinSupply, NEW sender \in Accounts, StakerCall(sender)
  PROVE  TotalsWithinSupply'
<1> USE DEF Inv, rewardVars
<1>1. PICK c \in Clubs, u \in Users :
        \/ \E amount \in StakeAmounts, auto \in BOOLEAN : Deposit(u, c, amount, auto)
        \/ \E amount \in WithdrawAmounts :
             BondStake(sender, u, c, amount) \/ WithdrawMatured(sender, u, c, amount)
        \/ ClaimStakerRewards(sender, u, c)
  BY DEF StakerCall, StakeOnAClub, AssignStakesToAClub
<1>2. snapshot' = snapshot /\ \A d \in Clubs : snapshot'[d] <= MaxUfuryCount
  BY <1>1 DEF Deposit, BondStake, WithdrawMatured, ClaimStakerRewards, TotalsWithinSupply
<1>3. ASSUME NEW total \in 0..MaxUfuryCount, Founded(c),
             club' = [club EXCEPT ![c].total = total]
      PROVE  TotalsWithinSupply'
  <2> DEFINE new == [club[c] EXCEPT !.total = total]
  <2>1. new.total = total /\ club' = [club EXCEPT ![c] = new]
    BY <1>3, TotalOfClub
  <2>2. new.total <= MaxUfuryCount /\ TypeOK
    BY <2>1
  <2>3. club' = [club EXCEPT ![c] = new] /\ \A d \in Clubs : snapshot'[d] <= MaxUfuryCount
    BY <1>2, <2>1
  <2> HIDE DEF new, Inv
  <2> QED BY <2>2, <2>3, TotalUpdate
<1>4. CASE \E amount \in StakeAmounts, auto \in BOOLEAN : Deposit(u, c, amount, auto)
  <2>1. PICK amount \in StakeAmounts :
          /\ Founded(c) /\ club[c].total + amount <= MaxStake
          /\ club' = [club EXCEPT ![c].total = @ + amount]
    BY <1>4 DEF Deposit
  <2>2. club[c].total \in Nat
    BY <2>1, TotalOfClub
  <2> DEFINE total == club[c].total + amount
  <2>3. total \in 0..MaxUfuryCount
    BY <2>1, <2>2, SupplyBounds
  <2>4. club' = [club EXCEPT ![c].total = total]
    BY <2>1
  <2> HIDE DEF total
  <2> QED BY <1>3, <2>1, <2>3, <2>4
<1>5. CASE \E amount \in WithdrawAmounts : BondStake(sender, u, c, amount)
  <2>1. PICK amount \in WithdrawAmounts :
          /\ Founded(c) /\ amount <= club[c].total
          /\ club' = [club EXCEPT ![c].total = @ - amount]
    BY <1>5 DEF BondStake, MayWithdraw
  <2>2. club[c].total \in 0..MaxUfuryCount
    BY <2>1, TotalOfClub
  <2> DEFINE total == club[c].total - amount
  <2>3. total \in 0..MaxUfuryCount
    BY <2>1, <2>2, SupplyBounds
  <2>4. club' = [club EXCEPT ![c].total = total]
    BY <2>1
  <2> HIDE DEF total
  <2> QED BY <1>3, <2>1, <2>3, <2>4
<1>6. CASE \/ \E amount \in WithdrawAmounts : WithdrawMatured(sender, u, c, amount)
           \/ ClaimStakerRewards(sender, u, c)
  BY <1>2, <1>6 DEF WithdrawMatured, ClaimStakerRewards, ownerVars, TotalsWithinSupply, Founded
<1> QED BY <1>1, <1>4, <1>5, <1>6

LEMMA RewardCallTotals ==
  ASSUME Inv, TotalsWithinSupply, NEW sender \in Accounts, RewardCall(sender)
  PROVE  TotalsWithinSupply'
<1> USE DEF Inv
<1>1. CASE \/ \E amount \in RewardAmounts : IncreaseRewardAmount(sender, amount)
           \/ \E final \in BOOLEAN : DistributeNothing(sender, final)
  BY <1>1 DEF IncreaseRewardAmount, DistributeNothing, ownerVars, TotalsWithinSupply, Founded
<1>2. CASE \E batch \in Batches, c \in Clubs, first \in BOOLEAN, final \in BOOLEAN :
             DistributeBatch(sender, batch, c, first, final)
  <2>1. PICK batch \in Batches, c \in Clubs, first \in BOOLEAN, final \in BOOLEAN :
          DistributeBatch(sender, batch, c, first, final)
    BY <1>2
  <2>2. PICK added \in Nat :
          /\ Founded(c) /\ club[c].total + added <= MaxAmount
          /\ club' = [club EXCEPT ![c].total = @ + added]
          /\ snapshot' = [d \in Clubs |-> IF first /\ Founded(d) THEN club[d].total ELSE snapshot[d]]
    <3>1. PICK p \in Payment : BatchPays(p, WinnersUsed(first), batch, c, first, final)
      BY <2>1, BatchPayment
    <3>2. p.added \in Nat
      BY DEF Payment
    <3> QED BY <3>1, <3>2 DEF BatchPays, CreditWithinBounds
  <2>3. \A d \in Clubs : snapshot'[d] <= MaxUfuryCount
    BY <2>2 DEF TotalsWithinSupply
  <2> DEFINE new == [club[c] EXCEPT !.total = @ + added]
  <2>4. new.total <= MaxUfuryCount /\ club' = [club EXCEPT ![c] = new]
    <3>1. club[c] \in ClubDetails
      BY <2>2, TotalOfClub
    <3>2. new.total = club[c].total + added /\ club[c].total \in Nat
      BY <3>1 DEF ClubDetails
    <3> QED BY <2>2, <3>2, SupplyBounds
  <2> HIDE DEF new
  <2> QED BY <2>2, <2>3, <2>4, TotalUpdate
<1> QED BY <1>1, <1>2 DEF RewardCall, CalculateAndDistributeRewards

LEMMA NextTotals ==
  ASSUME Inv, TotalsWithinSupply, [Next]_vars
  PROVE  TotalsWithinSupply'
<1>1. CASE Environment \/ UNCHANGED vars
  BY <1>1 DEF Environment, Tick, TokensArrive, vars, ownerVars, rewardVars, TotalsWithinSupply,
              Founded
<1> QED BY <1>1, OwnerCallTotals, StakerCallTotals, RewardCallTotals DEF Next

(* Whatever was staked, bonded and ranked before, the scan in key order     *)
(* finds the clubs that grew most and the largest of those.                 *)
THEOREM BestClubsAreFound == Spec => []BestClubsWin
<1>1. Init => TotalsWithinSupply
  BY InitSupply
<1>2. Inv /\ TotalsWithinSupply /\ [Next]_vars => TotalsWithinSupply'
  BY NextTotals
<1>3. Inv /\ TotalsWithinSupply => BestClubsWin
  BY RankingIsRight DEF Inv
<1> QED BY <1>1, <1>2, <1>3, Invariance, PTL DEF Spec
=============================================================================
