----------------------------- MODULE VestingProofs -----------------------------
(***************************************************************************)
(* What holds of vest-n-distribute for any schedules, any amounts and any  *)
(* order of calls and claims, and of what wallets do with the token        *)
(* meanwhile: that schedules are met, that payments are recorded, and that *)
(* the contract is never short of the tokens that may be claimed of it.    *)
(***************************************************************************)
EXTENDS Vesting, InductionLemmas

(* What has been calculated was calculated after the cliff, in the past and *)
(* together with the seed, and stays within the total.                     *)
Consistent(v) ==
  /\ v.claimed + v.available <= v.total
  /\ v.lastVesting # NoTimestamp =>
       v.lastVesting <= block.time /\ CliffEnd(v) <= v.lastVesting /\ v.consumed = v.initial
  /\ v.lastVesting = NoTimestamp /\ ~ v.shouldTransfer => v.consumed = 0
  /\ v.shouldTransfer => v.available = 0

OnSchedule(v) ==
  v.claimed + v.available =
    IF v.lastVesting = NoTimestamp THEN 0
    ELSE Capped(v.initial + v.perPeriod * Intervals(v, v.lastVesting), v.total)

SchedulesKept ==
  \A a \in Accounts : vesting[a] # NoVesting =>
    Consistent(vesting[a]) /\ (~ vesting[a].shouldTransfer => OnSchedule(vesting[a]))

VestingInv ==
  /\ block \in Block
  /\ VestingTypeOK
  /\ SchedulesKept

-----------------------------------------------------------------------------
(* Schedules *)

LEMMA DetailTypes ==
  ASSUME NEW v \in VestingDetails
  PROVE  /\ v.start \in Nat /\ v.initial \in Nat /\ v.consumed \in Nat /\ v.perPeriod \in Nat
         /\ v.total \in Nat /\ v.claimed \in Nat /\ v.available \in Nat /\ v.cliff \in Nat
         /\ v.periodicity \in Nat
         /\ v.lastVesting \in Nat \cup {NoTimestamp}
         /\ v.hasParent \in BOOLEAN /\ v.shouldTransfer \in BOOLEAN
BY DEF VestingDetails

LEMMA CliffType ==
  ASSUME NEW v \in VestingDetails
  PROVE  CliffEnd(v) \in Nat
<1>1. v.cliff \in Nat /\ v.start \in Nat
  BY DetailTypes
<1>2. CliffPeriodUnit \in Nat
  BY VestingAssumption DEF VestingAssumption
<1>3. v.cliff * CliffPeriodUnit \in Nat
  BY <1>1, <1>2
<1> QED BY <1>1, <1>3 DEF CliffEnd

LEMMA IntervalsType ==
  ASSUME NEW v \in VestingDetails, v.periodicity > 0, NEW t \in Nat
  PROVE  Intervals(v, t) \in Int
<1>1. CliffEnd(v) \in Nat /\ v.periodicity \in Nat \ {0}
  BY CliffType, DetailTypes
<1>2. t - CliffEnd(v) \in Int
  BY <1>1
<1> QED BY <1>1, <1>2 DEF Intervals

LEMMA StartedSchedule ==
  ASSUME NEW s \in Schedule, block \in Block
  PROVE  /\ Started(s) \in VestingDetails
         /\ Consistent(Started(s)) /\ OnSchedule(Started(s))
<1>1. block.time \in Nat
  BY DEF Block
<1>2. Started(s) \in VestingDetails
  BY <1>1 DEF Started, Schedule, VestingDetails
<1>3. /\ Started(s).claimed = 0 /\ Started(s).available = 0 /\ Started(s).consumed = 0
      /\ Started(s).lastVesting = NoTimestamp /\ Started(s).total \in Nat
  BY DEF Started, Schedule
<1>4. Consistent(Started(s))
  BY <1>3 DEF Consistent
<1>5. OnSchedule(Started(s))
  BY <1>3 DEF OnSchedule
<1> QED BY <1>2, <1>4, <1>5

LEMMA LatestSchedule ==
  ASSUME NEW list \in Seq(Schedule), NEW a, ScheduleRows(list, a) # {}
  PROVE  \E s \in Schedule :
           s = list[CHOOSE i \in ScheduleRows(list, a) :
                      \A j \in ScheduleRows(list, a) : i >= j]
<1> DEFINE R == ScheduleRows(list, a)
           n == CHOOSE i \in R : \A j \in R : i >= j
<1>1. R \in SUBSET (1..Len(list)) /\ Len(list) \in Nat /\ R # {}
  BY DEF ScheduleRows
<1>2. \E i \in R : \A j \in R : i >= j
  <2> HIDE DEF R
  <2> QED BY <1>1, MaximumExists
<1>3. n \in 1..Len(list)
  BY <1>1, <1>2
<1> HIDE DEF n, Schedule
<1>4. list[n] \in Schedule
  BY <1>3
<1> QED BY <1>4 DEF n

LEMMA AddedSchedules ==
  ASSUME NEW old, NEW list \in Seq(Schedule), NEW a \in Accounts, block \in Block
  PROVE  \/ WithSchedules(old, list)[a] = old[a]
         \/ \E s \in Schedule : WithSchedules(old, list)[a] = Started(s)
<1>1. CASE ScheduleRows(list, a) = {}
  BY <1>1 DEF WithSchedules
<1>2. CASE ScheduleRows(list, a) # {}
  BY <1>2, LatestSchedule DEF WithSchedules
<1> QED BY <1>1, <1>2

LEMMA Distribute ==
  ASSUME NEW n \in Int, NEW i \in Int, NEW j \in Int
  PROVE  n * (i - j) = n * i - n * j /\ n * i \in Int /\ n * j \in Int
OBVIOUS

(* What is due, taken apart.                                                *)
LEMMA DueSplit ==
  ASSUME NEW v \in VestingDetails, v.periodicity > 0, block \in Block,
         Consistent(v), Due(v) > 0
  PROVE  /\ Due(v) \in Nat
         /\ CliffEnd(v) <= block.time
         /\ v.lastVesting = NoTimestamp =>
              Due(v) = Capped(v.perPeriod * Intervals(v, block.time),
                              v.total - (v.claimed + v.available)) + (v.initial - v.consumed)
         /\ v.lastVesting # NoTimestamp =>
              Due(v) = Capped(v.perPeriod * Intervals(v, block.time)
                                - v.perPeriod * Intervals(v, v.lastVesting),
                              v.total - (v.claimed + v.available))
         /\ v.consumed = v.initial => Due(v) <= v.total - (v.claimed + v.available)
<1>1. block.time \in Nat
  BY DEF Block
<1>2. /\ v.initial \in Nat /\ v.consumed \in Nat /\ v.perPeriod \in Nat /\ v.total \in Nat
      /\ v.claimed \in Nat /\ v.available \in Nat
      /\ v.lastVesting \in Nat \cup {NoTimestamp}
  BY DetailTypes
<1>3. CliffEnd(v) \in Nat /\ Intervals(v, block.time) \in Int
  BY <1>1, CliffType, IntervalsType
<1>4. v.lastVesting # NoTimestamp => Intervals(v, v.lastVesting) \in Int
  BY <1>2, IntervalsType
<1>5. v.claimed + v.available <= v.total
  BY DEF Consistent
<1>6. CliffEnd(v) <= block.time
  <2> SUFFICES ASSUME block.time < CliffEnd(v) PROVE FALSE
    BY <1>1, <1>3
  <2>1. NewIntervals(v) = 0
    BY DEF NewIntervals
  <2>2. v.perPeriod * NewIntervals(v) = 0
    BY <1>2, <2>1
  <2>3. Due(v) = 0
    BY <1>2, <1>5, <2>2 DEF Due, Capped
  <2> QED BY <2>3
<1>7. ~ (block.time < CliffEnd(v))
  BY <1>1, <1>3, <1>6
<1>8. Due(v) = Capped(v.perPeriod * NewIntervals(v), v.total - (v.claimed + v.available))
                 + (v.initial - v.consumed)
  BY <1>7 DEF Due
<1>9. CASE v.lastVesting = NoTimestamp
  <2>1. NewIntervals(v) = Intervals(v, block.time) - 0
    BY <1>7, <1>9 DEF NewIntervals
  <2>2. NewIntervals(v) = Intervals(v, block.time)
    BY <1>3, <2>1
  <2>3. v.perPeriod * Intervals(v, block.time) \in Int
    BY <1>2, <1>3, Distribute
  <2> QED BY <1>2, <1>6, <1>8, <1>9, <2>2, <2>3 DEF Capped
<1>10. CASE v.lastVesting # NoTimestamp
  <2>1. NewIntervals(v) = Intervals(v, block.time) - Intervals(v, v.lastVesting)
    BY <1>7, <1>10 DEF NewIntervals
  <2>2. /\ v.perPeriod * NewIntervals(v)
             = v.perPeriod * Intervals(v, block.time) - v.perPeriod * Intervals(v, v.lastVesting)
        /\ v.perPeriod * Intervals(v, block.time) \in Int
        /\ v.perPeriod * Intervals(v, v.lastVesting) \in Int
    BY <1>2, <1>3, <1>4, <1>10, <2>1, Distribute
  <2>3. v.consumed = v.initial
    BY <1>10 DEF Consistent
  <2> QED BY <1>2, <1>6, <1>8, <1>10, <2>2, <2>3 DEF Capped
<1> QED BY <1>9, <1>10

LEMMA VestedStep ==
  ASSUME NEW v \in VestingDetails, v.periodicity > 0, block \in Block,
         Consistent(v), Due(v) > 0, ~ v.shouldTransfer
  PROVE  /\ Vested(v) \in VestingDetails /\ Consistent(Vested(v))
         /\ Vested(v).claimed = v.claimed
         /\ Vested(v).shouldTransfer = v.shouldTransfer
         /\ OnSchedule(v) => OnSchedule(Vested(v))
<1> DEFINE w == Vested(v)
           t == block.time
<1>1. t \in Nat /\ NoTimestamp \notin Nat
  BY TokenAssumption DEF TokenAssumption, Block
<1>2. /\ v.initial \in Nat /\ v.consumed \in Nat /\ v.perPeriod \in Nat /\ v.total \in Nat
      /\ v.claimed \in Nat /\ v.available \in Nat
      /\ v.lastVesting \in Nat \cup {NoTimestamp}
  BY DetailTypes
<1>3. Due(v) \in Nat /\ CliffEnd(v) <= t /\ v.claimed + v.available <= v.total
  BY DueSplit DEF Consistent
<1>4. /\ w.available = Capped(v.available + Due(v), v.total - v.claimed)
      /\ w.consumed = IF v.lastVesting = NoTimestamp THEN v.initial ELSE v.consumed
      /\ w.lastVesting = t /\ w.claimed = v.claimed /\ w.total = v.total
      /\ w.initial = v.initial /\ w.perPeriod = v.perPeriod /\ w.periodicity = v.periodicity
      /\ w.cliff = v.cliff /\ w.start = v.start
      /\ w.shouldTransfer = v.shouldTransfer
  BY DEF Vested, VestingDetails
<1>5. w.available \in Nat /\ w.claimed + w.available <= w.total
  BY <1>2, <1>3, <1>4 DEF Capped
<1>6. w.consumed = v.initial
  BY <1>4 DEF Consistent
<1>7. w \in VestingDetails
  <2>1. Capped(v.available + Due(v), v.total - v.claimed) \in Nat
    BY <1>4, <1>5
  <2>2. (IF v.lastVesting = NoTimestamp THEN v.initial ELSE v.consumed) \in Nat
    BY <1>2
  <2> QED BY <1>1, <2>1, <2>2 DEF Vested, VestingDetails
<1>8. CliffEnd(w) = CliffEnd(v) /\ \A u : Intervals(w, u) = Intervals(v, u)
  BY <1>4 DEF CliffEnd, Intervals
<1>9. Consistent(w)
  BY <1>1, <1>3, <1>4, <1>5, <1>6, <1>8 DEF Consistent
<1>10. ASSUME OnSchedule(v) PROVE OnSchedule(w)
  <2> DEFINE p == v.perPeriod * Intervals(v, t)
             q == v.perPeriod * Intervals(v, v.lastVesting)
  <2>1. p \in Int
    <3>1. Intervals(v, t) \in Int
      BY <1>1, IntervalsType
    <3> QED BY <1>2, <3>1, Distribute
  <2>2. w.lastVesting # NoTimestamp
    BY <1>1, <1>4
  <2>3. SUFFICES w.claimed + w.available = Capped(v.initial + p, v.total)
    BY <1>4, <1>8, <2>2 DEF OnSchedule
  <2>4. CASE v.lastVesting = NoTimestamp
    <3>1. v.claimed = 0 /\ v.available = 0
      BY <1>2, <1>10, <2>4 DEF OnSchedule
    <3>2. Due(v) = Capped(p, v.total - 0) + (v.initial - v.consumed)
      BY <1>2, <2>4, <3>1, DueSplit
    <3>3. v.consumed = 0
      BY <2>4 DEF Consistent
    <3> HIDE DEF p, w
    <3> QED BY <1>2, <1>4, <2>1, <3>1, <3>2, <3>3 DEF Capped
  <2>5. CASE v.lastVesting # NoTimestamp
    <3>1. Due(v) = Capped(p - q, v.total - (v.claimed + v.available))
      BY <2>5, DueSplit
    <3>2. v.claimed + v.available = Capped(v.initial + q, v.total)
      BY <1>10, <2>5 DEF OnSchedule
    <3>3. q \in Int
      <4>1. Intervals(v, v.lastVesting) \in Int
        BY <1>2, <2>5, IntervalsType
      <4> QED BY <1>2, <4>1, Distribute
    <3> HIDE DEF p, q, w
    <3> QED BY <1>2, <1>3, <1>4, <2>1, <3>1, <3>2, <3>3 DEF Capped
  <2> QED BY <2>4, <2>5
<1> QED BY <1>4, <1>7, <1>9, <1>10

LEMMA TransferredStep ==
  ASSUME NEW v \in VestingDetails, v.periodicity > 0, block \in Block,
         Consistent(v), Due(v) > 0, v.shouldTransfer
  PROVE  /\ Transferred(v) \in VestingDetails /\ Consistent(Transferred(v))
         /\ Transferred(v).shouldTransfer
         /\ v.consumed = v.initial => Transferred(v).claimed = v.claimed + Due(v)
<1> DEFINE w == Transferred(v)
           t == block.time
<1>1. t \in Nat /\ NoTimestamp \notin Nat
  BY TokenAssumption DEF TokenAssumption, Block
<1>2. /\ v.initial \in Nat /\ v.consumed \in Nat /\ v.total \in Nat
      /\ v.claimed \in Nat /\ v.available \in Nat
      /\ v.lastVesting \in Nat \cup {NoTimestamp}
  BY DetailTypes
<1>3. /\ Due(v) \in Nat /\ CliffEnd(v) <= t /\ v.claimed + v.available <= v.total
      /\ v.available = 0
      /\ v.consumed = v.initial => Due(v) <= v.total - (v.claimed + v.available)
  BY DueSplit DEF Consistent
<1>4. CASE v.claimed + Due(v) <= v.total
  <2>1. /\ w.claimed = v.claimed + Due(v) /\ w.lastVesting = t /\ w.consumed = v.initial
        /\ w.available = v.available /\ w.total = v.total /\ w.initial = v.initial
        /\ w.periodicity = v.periodicity /\ w.cliff = v.cliff /\ w.start = v.start
        /\ w.shouldTransfer = v.shouldTransfer
    BY <1>4 DEF Transferred, VestingDetails
  <2>2. v.claimed + Due(v) \in Nat
    BY <1>2, <1>3
  <2>3. w \in VestingDetails
    BY <1>1, <1>2, <1>4, <2>2 DEF Transferred, VestingDetails
  <2>4. CliffEnd(w) = CliffEnd(v)
    BY <2>1 DEF CliffEnd
  <2>5. Consistent(w)
    BY <1>1, <1>2, <1>3, <1>4, <2>1, <2>4 DEF Consistent
  <2> QED BY <2>1, <2>3, <2>5
<1>5. CASE ~ (v.claimed + Due(v) <= v.total)
  <2>1. w = [v EXCEPT !.consumed = v.initial]
    BY <1>5 DEF Transferred
  <2>2. /\ w.claimed = v.claimed /\ w.lastVesting = v.lastVesting /\ w.consumed = v.initial
        /\ w.available = v.available /\ w.total = v.total /\ w.initial = v.initial
        /\ w.periodicity = v.periodicity /\ w.cliff = v.cliff /\ w.start = v.start
        /\ w.shouldTransfer = v.shouldTransfer
    BY <2>1 DEF VestingDetails
  <2>3. w \in VestingDetails
    BY <1>2, <2>1 DEF VestingDetails
  <2>4. CliffEnd(w) = CliffEnd(v)
    BY <2>2 DEF CliffEnd
  <2>5. Consistent(w)
    BY <2>2, <2>4 DEF Consistent
  <2>6. v.consumed # v.initial
    BY <1>2, <1>3, <1>5
  <2> QED BY <2>2, <2>3, <2>5, <2>6
<1> QED BY <1>4, <1>5

(* A claim moves tokens from what is available to what was claimed.         *)
AfterClaim(v, n) == [v EXCEPT !.claimed = @ + n, !.available = @ - n]

LEMMA ClaimStep ==
  ASSUME NEW v \in VestingDetails, Consistent(v), NEW n \in Nat, n <= v.available
  PROVE  /\ AfterClaim(v, n) \in VestingDetails /\ Consistent(AfterClaim(v, n))
         /\ AfterClaim(v, n).shouldTransfer = v.shouldTransfer
         /\ OnSchedule(v) => OnSchedule(AfterClaim(v, n))
         /\ AfterClaim(v, n).claimed = v.claimed + n
<1> DEFINE w == AfterClaim(v, n)
<1>1. v.claimed \in Nat /\ v.available \in Nat /\ v.total \in Nat
  BY DetailTypes
<1>2. /\ w.claimed = v.claimed + n /\ w.available = v.available - n
      /\ w.consumed = v.consumed /\ w.lastVesting = v.lastVesting
      /\ w.total = v.total /\ w.initial = v.initial /\ w.perPeriod = v.perPeriod
      /\ w.periodicity = v.periodicity /\ w.cliff = v.cliff /\ w.start = v.start
      /\ w.shouldTransfer = v.shouldTransfer
  BY DEF AfterClaim, VestingDetails
<1>3. v.claimed + n \in Nat /\ v.available - n \in Nat
  BY <1>1
<1>4. w \in VestingDetails
  BY <1>3 DEF AfterClaim, VestingDetails
<1>5. CliffEnd(w) = CliffEnd(v) /\ \A u : Intervals(w, u) = Intervals(v, u)
  BY <1>2 DEF CliffEnd, Intervals
<1>6. w.claimed + w.available = v.claimed + v.available
  BY <1>1, <1>2
<1>7. v.shouldTransfer => w.available = 0
  BY <1>1, <1>2 DEF Consistent
<1>8. Consistent(w)
  BY <1>2, <1>5, <1>6, <1>7 DEF Consistent
<1>9. OnSchedule(v) => OnSchedule(w)
  BY <1>2, <1>5, <1>6 DEF OnSchedule
<1> QED BY <1>2, <1>4, <1>8, <1>9

-----------------------------------------------------------------------------
(* The invariant *)

GoodRow(v) ==
  /\ v \in VestingDetails
  /\ Consistent(v)
  /\ ~ v.shouldTransfer => OnSchedule(v)

(* Rows that are good, or absent, at an unchanged or later time.            *)
LEMMA RowsToInv ==
  ASSUME VestingInv, block' \in Block, block'.time >= block.time,
         vesting' \in [Accounts -> VestingDetails \cup {NoVesting}],
         \A a \in Accounts : vesting'[a] = NoVesting \/ GoodRow(vesting'[a]),
         paid' \in [Accounts -> Nat]
  PROVE  VestingInv'
<1>1. VestingTypeOK'
  BY DEF VestingTypeOK
<1>2. block.time \in Nat /\ block'.time \in Nat
  BY DEF VestingInv, Block
<1>3. ASSUME NEW a \in Accounts, vesting'[a] # NoVesting
      PROVE  /\ Consistent(vesting[a])'
             /\ ~ vesting'[a].shouldTransfer => OnSchedule(vesting[a])'
  <2>1. PICK v \in VestingDetails : v = vesting'[a]
    BY <1>3
  <2>2. Consistent(v) /\ (~ v.shouldTransfer => OnSchedule(v))
    BY <1>3, <2>1 DEF GoodRow
  <2>3. v.lastVesting \in Nat \cup {NoTimestamp}
    BY DetailTypes
  <2>4. Consistent(v)'
    BY <1>2, <2>2, <2>3 DEF Consistent, CliffEnd
  <2>5. OnSchedule(v) => OnSchedule(v)'
    BY DEF OnSchedule, Intervals, CliffEnd
  <2> QED BY <2>1, <2>2, <2>4, <2>5 DEF Consistent, OnSchedule
<1>4. SchedulesKept'
  BY <1>3 DEF SchedulesKept
<1> QED BY <1>1, <1>4 DEF VestingInv

LEMMA RowsAreGood ==
  ASSUME VestingInv, NEW a \in Accounts, vesting[a] # NoVesting
  PROVE  GoodRow(vesting[a])
BY DEF VestingInv, VestingTypeOK, SchedulesKept, GoodRow

LEMMA CalculateRows ==
  ASSUME VestingInv, NEW sender, PeriodicallyCalculateVesting(sender)
  PROVE  /\ \A a \in Accounts : vesting'[a] = NoVesting \/ GoodRow(vesting'[a])
         /\ \A a \in Accounts : vesting[a] # NoVesting =>
              vesting'[a].claimed = vesting[a].claimed /\ paid'[a] = paid[a]
         /\ paid' = paid
<1>1. block \in Block /\ \A a \in Listed(FALSE) : vesting[a].periodicity > 0
  BY DEF VestingInv, PeriodicallyCalculateVesting, Calculable
<1>2. ASSUME NEW a \in Payees(FALSE)
      PROVE  GoodRow(Vested(vesting[a])) /\ Vested(vesting[a]).claimed = vesting[a].claimed
  <2>1. /\ a \in Accounts /\ vesting[a] # NoVesting /\ a \in Listed(FALSE)
        /\ Due(vesting[a]) > 0 /\ vesting[a].shouldTransfer = FALSE
    BY DEF Payees, Listed
  <2>2. GoodRow(vesting[a]) /\ vesting[a].periodicity > 0
    BY <1>1, <2>1, RowsAreGood
  <2>3. PICK v \in VestingDetails : v = vesting[a]
    BY <2>2 DEF GoodRow
  <2>4. Consistent(v) /\ OnSchedule(v) /\ v.periodicity > 0 /\ Due(v) > 0 /\ ~ v.shouldTransfer
    BY <2>1, <2>2, <2>3 DEF GoodRow
  <2>5. GoodRow(Vested(v)) /\ Vested(v).claimed = v.claimed
    BY <1>1, <2>4, VestedStep DEF GoodRow
  <2> QED BY <2>3, <2>5
<1>3. \A a \in Accounts :
        vesting'[a] = IF a \in Payees(FALSE) THEN Vested(vesting[a]) ELSE vesting[a]
  BY DEF PeriodicallyCalculateVesting
<1>4. paid' = paid
  BY DEF PeriodicallyCalculateVesting
<1> QED BY <1>2, <1>3, <1>4, RowsAreGood

LEMMA TransferRows ==
  ASSUME VestingInv, NEW sender, PeriodicallyTransferToCategories(sender)
  PROVE  /\ \A a \in Accounts : vesting'[a] = NoVesting \/ GoodRow(vesting'[a])
         /\ \A a \in Accounts :
              vesting[a] # NoVesting /\ vesting[a].consumed = vesting[a].initial =>
                vesting'[a].claimed - vesting[a].claimed = paid'[a] - paid[a]
         /\ paid' \in [Accounts -> Nat]
<1>1. /\ block \in Block /\ \A a \in Listed(TRUE) : vesting[a].periodicity > 0
      /\ paid \in [Accounts -> Nat]
  BY DEF VestingInv, VestingTypeOK, PeriodicallyTransferToCategories, Calculable
<1>2. ASSUME NEW a \in Payees(TRUE)
      PROVE  /\ GoodRow(Transferred(vesting[a])) /\ Due(vesting[a]) \in Nat
             /\ vesting[a].claimed \in Nat
             /\ vesting[a].consumed = vesting[a].initial =>
                  Transferred(vesting[a]).claimed = vesting[a].claimed + Due(vesting[a])
  <2>1. /\ a \in Accounts /\ vesting[a] # NoVesting /\ a \in Listed(TRUE)
        /\ Due(vesting[a]) > 0 /\ vesting[a].shouldTransfer = TRUE
    BY DEF Payees, Listed
  <2>2. GoodRow(vesting[a]) /\ vesting[a].periodicity > 0
    BY <1>1, <2>1, RowsAreGood
  <2>3. PICK v \in VestingDetails : v = vesting[a]
    BY <2>2 DEF GoodRow
  <2>4. Consistent(v) /\ v.periodicity > 0 /\ Due(v) > 0 /\ v.shouldTransfer
    BY <2>1, <2>2, <2>3 DEF GoodRow
  <2>5. /\ GoodRow(Transferred(v))
        /\ v.consumed = v.initial => Transferred(v).claimed = v.claimed + Due(v)
    BY <1>1, <2>4, TransferredStep DEF GoodRow
  <2>6. Due(v) \in Nat /\ v.claimed \in Nat
    BY <1>1, <2>4, DueSplit, DetailTypes
  <2> QED BY <2>3, <2>5, <2>6
<1>3. \A a \in Accounts :
        /\ vesting'[a] = IF a \in Payees(TRUE) THEN Transferred(vesting[a]) ELSE vesting[a]
        /\ paid'[a] = paid[a] + IF a \in Payees(TRUE) THEN Due(vesting[a]) ELSE 0
  BY DEF PeriodicallyTransferToCategories
<1>4. paid' \in [Accounts -> Nat]
  <2>1. ASSUME NEW a \in Accounts PROVE paid'[a] \in Nat
    <3>1. paid[a] \in Nat
      BY <1>1
    <3>2. CASE a \in Payees(TRUE)
      <4>1. Due(vesting[a]) \in Nat /\ paid'[a] = paid[a] + Due(vesting[a])
        BY <1>2, <1>3, <3>2
      <4> QED BY <3>1, <4>1
    <3>3. CASE a \notin Payees(TRUE)
      <4>1. paid'[a] = paid[a] + 0
        BY <1>3, <3>3
      <4> QED BY <3>1, <4>1
    <3> QED BY <3>2, <3>3
  <2>2. paid' = [a \in Accounts |-> paid'[a]]
    BY DEF PeriodicallyTransferToCategories
  <2> QED BY <2>1, <2>2
<1>5. ASSUME NEW a \in Accounts, vesting[a] # NoVesting, vesting[a].consumed = vesting[a].initial
      PROVE  vesting'[a].claimed - vesting[a].claimed = paid'[a] - paid[a]
  <2>1. paid[a] \in Nat /\ vesting[a].claimed \in Nat
    BY <1>1, <1>5, RowsAreGood, DetailTypes DEF GoodRow
  <2>2. CASE a \in Payees(TRUE)
    <3>1. /\ vesting'[a] = Transferred(vesting[a])
          /\ paid'[a] = paid[a] + Due(vesting[a])
      BY <1>3, <2>2
    <3>2. Due(vesting[a]) \in Nat
      BY <1>2, <2>2
    <3>3. Transferred(vesting[a]).claimed = vesting[a].claimed + Due(vesting[a])
      BY <1>2, <1>5, <2>2
    <3> QED BY <2>1, <3>1, <3>2, <3>3
  <2>3. CASE a \notin Payees(TRUE)
    <3>1. vesting'[a] = vesting[a] /\ paid'[a] = paid[a] + 0
      BY <1>3, <2>3
    <3> QED BY <2>1, <3>1
  <2> QED BY <2>2, <2>3
<1>6. \A a \in Accounts : vesting'[a] = NoVesting \/ GoodRow(vesting'[a])
  BY <1>2, <1>3, RowsAreGood
<1> QED BY <1>4, <1>5, <1>6

LEMMA ClaimRows ==
  ASSUME VestingInv, NEW sender \in Accounts, NEW n \in ClaimAmounts,
         ClaimVestedTokens(sender, n)
  PROVE  /\ \A a \in Accounts : vesting'[a] = NoVesting \/ GoodRow(vesting'[a])
         /\ \A a \in Accounts : vesting[a] # NoVesting =>
              vesting'[a].claimed - vesting[a].claimed = paid'[a] - paid[a]
         /\ paid' \in [Accounts -> Nat]
<1>1. /\ n \in Nat /\ block \in Block /\ paid \in [Accounts -> Nat]
      /\ vesting \in [Accounts -> VestingDetails \cup {NoVesting}]
  BY VestingAssumption DEF VestingAssumption, VestingInv, VestingTypeOK
<1>2. GoodRow(vesting[sender]) /\ n <= vesting[sender].available
  BY RowsAreGood DEF ClaimVestedTokens
<1>3. PICK v \in VestingDetails : v = vesting[sender]
  BY <1>2 DEF GoodRow
<1>4. PICK w : w = AfterClaim(v, n)
  OBVIOUS
<1>5. GoodRow(w) /\ w.claimed = v.claimed + n /\ v.claimed \in Nat
  <2>1. Consistent(v) /\ (~ v.shouldTransfer => OnSchedule(v)) /\ n <= v.available
    BY <1>2, <1>3 DEF GoodRow
  <2>2. v.claimed \in Nat
    BY DetailTypes
  <2>3. /\ w \in VestingDetails /\ Consistent(w) /\ w.shouldTransfer = v.shouldTransfer
        /\ OnSchedule(v) => OnSchedule(w)
        /\ w.claimed = v.claimed + n
    BY <1>1, <1>4, <2>1, ClaimStep
  <2> QED BY <2>1, <2>2, <2>3 DEF GoodRow
<1>6. vesting' = [vesting EXCEPT ![sender] = w]
  BY <1>3, <1>4 DEF ClaimVestedTokens, AfterClaim
<1>7. /\ vesting'[sender] = w
      /\ \A a \in Accounts : a # sender => vesting'[a] = vesting[a]
  BY <1>1, <1>6
<1>8. paid' = [paid EXCEPT ![sender] = @ + n]
  BY DEF ClaimVestedTokens
<1>9. /\ paid' \in [Accounts -> Nat] /\ paid'[sender] = paid[sender] + n
      /\ \A a \in Accounts : a # sender => paid'[a] = paid[a]
  BY <1>1, <1>8
<1>10. ASSUME NEW a \in Accounts, vesting[a] # NoVesting
       PROVE  vesting'[a].claimed - vesting[a].claimed = paid'[a] - paid[a]
  <2>1. CASE a = sender
    BY <1>1, <1>3, <1>5, <1>7, <1>9, <2>1
  <2>2. CASE a # sender
    <3>1. vesting[a].claimed \in Nat /\ paid[a] \in Nat
      BY <1>1, <1>10, DetailTypes
    <3> QED BY <1>7, <1>9, <2>2, <3>1
  <2> QED BY <2>1, <2>2
<1>11. \A a \in Accounts : vesting'[a] = NoVesting \/ GoodRow(vesting'[a])
  BY <1>5, <1>7, RowsAreGood
<1> QED BY <1>9, <1>10, <1>11

LEMMA AddRows ==
  ASSUME VestingInv, NEW sender, NEW list \in ScheduleLists, AddVestingSchedules(sender, list)
  PROVE  /\ \A a \in Accounts : vesting'[a] = NoVesting \/ GoodRow(vesting'[a])
         /\ \A a \in Accounts : vesting[a] # NoVesting => vesting'[a] = vesting[a]
         /\ paid' = paid
<1>1. list \in Seq(Schedule) /\ block \in Block
  BY VestingAssumption DEF VestingAssumption, VestingInv
<1>2. vesting' = WithSchedules(vesting, list) /\ paid' = paid
  BY DEF AddVestingSchedules
<1>3. ASSUME NEW a \in Accounts PROVE vesting'[a] = NoVesting \/ GoodRow(vesting'[a])
  <2>1. \/ vesting'[a] = vesting[a]
        \/ \E s \in Schedule : vesting'[a] = Started(s)
    BY <1>1, <1>2, AddedSchedules
  <2>2. ASSUME NEW s \in Schedule, vesting'[a] = Started(s) PROVE GoodRow(vesting'[a])
    BY <1>1, <2>2, StartedSchedule DEF GoodRow
  <2> QED BY <2>1, <2>2, RowsAreGood
<1>4. ASSUME NEW a \in Accounts, vesting[a] # NoVesting PROVE vesting'[a] = vesting[a]
  <2>1. ScheduleRows(list, a) = {}
    BY <1>4 DEF AddVestingSchedules, ScheduleRows
  <2> QED BY <1>2, <2>1 DEF WithSchedules
<1> QED BY <1>2, <1>3, <1>4

LEMMA InitInv == VestingInit => VestingInv
<1> SUFFICES ASSUME VestingInit PROVE VestingInv
  OBVIOUS
<1>1. block \in Block /\ paid \in [Accounts -> Nat]
  BY DEF VestingInit, TokenInit, Block
<1>2. PICK list \in ScheduleLists :
        vesting = WithSchedules([a \in Accounts |-> NoVesting], list)
  BY DEF VestingInit
<1>3. list \in Seq(Schedule)
  BY VestingAssumption DEF VestingAssumption
<1>4. ASSUME NEW a \in Accounts PROVE vesting[a] = NoVesting \/ GoodRow(vesting[a])
  <2>1. \/ vesting[a] = NoVesting
        \/ \E s \in Schedule : vesting[a] = Started(s)
    BY <1>1, <1>2, <1>3, AddedSchedules
  <2> QED BY <1>1, <2>1, StartedSchedule DEF GoodRow
<1>5. vesting = [a \in Accounts |-> vesting[a]]
  BY <1>2 DEF WithSchedules
<1>6. vesting \in [Accounts -> VestingDetails \cup {NoVesting}]
  BY <1>4, <1>5 DEF GoodRow
<1> QED BY <1>1, <1>4, <1>6 DEF VestingInv, VestingTypeOK, SchedulesKept, GoodRow

LEMMA CallInv ==
  ASSUME VestingInv, NEW sender \in Wallets, VestingCall(sender)
  PROVE  /\ VestingInv'
         /\ \A a \in Accounts :
              vesting[a] # NoVesting /\ vesting[a].consumed = vesting[a].initial =>
                vesting'[a].claimed - vesting[a].claimed = paid'[a] - paid[a]
<1>1. /\ sender \in Accounts /\ block' = block /\ block \in Block
      /\ block'.time >= block.time
  BY DEF Wallets, VestingCall, VestingInv, Block
<1>2. /\ vesting \in [Accounts -> VestingDetails \cup {NoVesting}]
      /\ paid \in [Accounts -> Nat]
  BY DEF VestingInv, VestingTypeOK
<1>3. \A a \in Accounts : vesting[a] # NoVesting => vesting[a].claimed \in Nat /\ paid[a] \in Nat
  BY <1>2, DetailTypes
<1>4. vesting' = [a \in Accounts |-> vesting'[a]]
  <2>1. CASE \E n \in ClaimAmounts : ClaimVestedTokens(sender, n)
    BY <1>2, <2>1 DEF ClaimVestedTokens
  <2>2. CASE PeriodicallyCalculateVesting(sender)
    BY <2>2 DEF PeriodicallyCalculateVesting
  <2>3. CASE PeriodicallyTransferToCategories(sender)
    BY <2>3 DEF PeriodicallyTransferToCategories
  <2>4. CASE \E list \in ScheduleLists : AddVestingSchedules(sender, list)
    BY <2>4 DEF AddVestingSchedules, WithSchedules
  <2> QED BY <2>1, <2>2, <2>3, <2>4 DEF VestingCall
<1>5. /\ \A a \in Accounts : vesting'[a] = NoVesting \/ GoodRow(vesting'[a])
      /\ paid' \in [Accounts -> Nat]
      /\ \A a \in Accounts :
           vesting[a] # NoVesting /\ vesting[a].consumed = vesting[a].initial =>
             vesting'[a].claimed - vesting[a].claimed = paid'[a] - paid[a]
  <2>1. CASE PeriodicallyCalculateVesting(sender)
    BY <1>2, <1>3, <2>1, CalculateRows
  <2>2. CASE PeriodicallyTransferToCategories(sender)
    BY <2>2, TransferRows
  <2>3. ASSUME NEW n \in ClaimAmounts, ClaimVestedTokens(sender, n)
        PROVE  /\ \A a \in Accounts : vesting'[a] = NoVesting \/ GoodRow(vesting'[a])
               /\ paid' \in [Accounts -> Nat]
               /\ \A a \in Accounts : vesting[a] # NoVesting =>
                    vesting'[a].claimed - vesting[a].claimed = paid'[a] - paid[a]
    BY <1>1, <2>3, ClaimRows
  <2>4. ASSUME NEW list \in ScheduleLists, AddVestingSchedules(sender, list)
        PROVE  /\ \A a \in Accounts : vesting'[a] = NoVesting \/ GoodRow(vesting'[a])
               /\ paid' \in [Accounts -> Nat]
               /\ \A a \in Accounts : vesting[a] # NoVesting =>
                    vesting'[a].claimed - vesting[a].claimed = paid'[a] - paid[a]
    BY <1>2, <1>3, <2>4, AddRows
  <2> QED BY <2>1, <2>2, <2>3, <2>4 DEF VestingCall
<1>6. vesting' \in [Accounts -> VestingDetails \cup {NoVesting}]
  <2>1. \A a \in Accounts : vesting'[a] \in VestingDetails \cup {NoVesting}
    BY <1>5 DEF GoodRow
  <2> QED BY <1>4, <2>1
<1> QED BY <1>1, <1>5, <1>6, RowsToInv

LEMMA TokenStepInv ==
  ASSUME VestingInv, UNCHANGED <<vesting, paid>>,
         NextBlock \/ UNCHANGED block
  PROVE  VestingInv'
<1>1. block' \in Block /\ block'.time >= block.time
  BY DEF VestingInv, NextBlock, Block
<1>2. /\ vesting' \in [Accounts -> VestingDetails \cup {NoVesting}]
      /\ paid' \in [Accounts -> Nat]
  BY DEF VestingInv, VestingTypeOK
<1>3. \A a \in Accounts : vesting'[a] = NoVesting \/ GoodRow(vesting'[a])
  BY RowsAreGood
<1> QED BY <1>1, <1>2, <1>3, RowsToInv

LEMMA NextInv ==
  ASSUME VestingInv, [VestingNext]_vestingVars
  PROVE  /\ VestingInv'
         /\ \A a \in Accounts :
              vesting[a] # NoVesting /\ vesting[a].consumed = vesting[a].initial =>
                vesting'[a].claimed - vesting[a].claimed = paid'[a] - paid[a]
<1>1. ASSUME NEW sender \in Wallets, VestingCall(sender)
      PROVE  /\ VestingInv'
             /\ \A a \in Accounts :
                  vesting[a] # NoVesting /\ vesting[a].consumed = vesting[a].initial =>
                    vesting'[a].claimed - vesting[a].claimed = paid'[a] - paid[a]
  BY <1>1, CallInv
<1>2. ASSUME UNCHANGED <<vesting, paid>>, NextBlock \/ UNCHANGED block
      PROVE  /\ VestingInv'
             /\ \A a \in Accounts : vesting[a] # NoVesting =>
                  vesting'[a].claimed - vesting[a].claimed = paid'[a] - paid[a]
  <2>1. \A a \in Accounts : vesting[a] # NoVesting =>
          vesting[a].claimed \in Nat /\ paid[a] \in Nat
    BY DetailTypes DEF VestingInv, VestingTypeOK
  <2> QED BY <1>2, <2>1, TokenStepInv
<1>3. CASE /\ NextBlock \/ \E sender \in Wallets : TokenCall(sender)
           /\ UNCHANGED <<vesting, paid>>
  BY <1>2, <1>3 DEF TokenCall
<1>4. CASE UNCHANGED vestingVars
  BY <1>2, <1>4 DEF vestingVars, tokenVars
<1> QED BY <1>1, <1>3, <1>4 DEF VestingNext

-----------------------------------------------------------------------------
(* Theorems *)

LEMMA Invariance == VestingSpec => []VestingInv
<1>1. VestingInit => VestingInv
  BY InitInv
<1>2. VestingInv /\ [VestingNext]_vestingVars => VestingInv'
  BY NextInv
<1> QED BY <1>1, <1>2, PTL DEF VestingSpec

(* No calculation, transfer or claim takes an amount below zero.            *)
THEOREM TypeCorrect == VestingSpec => []VestingTypeOK
<1>1. VestingInv => VestingTypeOK
  BY DEF VestingInv
<1> QED BY <1>1, Invariance, PTL

(* However late and irregular the calls, what a claimant had and can claim  *)
(* is the seed and the periods up to the last calculation, up to the total. *)
THEOREM SchedulesAreMet == VestingSpec => []VestedOnSchedule
<1>1. VestingInv => VestedOnSchedule
  BY DEF VestingInv, SchedulesKept, OnSchedule, VestedOnSchedule, Claimable
<1> QED BY <1>1, Invariance, PTL

(* After the seed, what an address is paid is what its schedule records.    *)
THEOREM RecordsMatchPayments == VestingSpec => PaymentsAreRecorded
<1>1. VestingInv /\ [VestingNext]_vestingVars =>
        [\A a \in Accounts :
           vesting[a] # NoVesting /\ vesting[a].consumed = vesting[a].initial =>
             vesting'[a].claimed - vesting[a].claimed = paid'[a] - paid[a]]_vestingVars
  BY NextInv
<1> QED BY <1>1, Invariance, PTL DEF VestingSpec, PaymentsAreRecorded

-----------------------------------------------------------------------------
(* The contract is never short of tokens.  What it holds for its claimants  *)
(* leaves it only with their claims, since it grants no allowance and makes *)
(* no other call to the token.                                              *)

AvailableTo(v) == [a \in Accounts |-> IF v[a] = NoVesting THEN 0 ELSE v[a].available]

GrantsNothing ==
  /\ DOMAIN allowance = Accounts
  /\ \A s \in Accounts : allowance[VestingContract][s] = NoAllowance

FundsInv ==
  /\ balance \in [Accounts -> Nat]
  /\ GrantsNothing
  /\ SumFunctionOnSet(AvailableTo(vesting), Accounts) <= balance[VestingContract]

LEMMA InitialBalanceType ==
  ASSUME NEW list \in CoinList, NEW a \in Accounts
  PROVE  InitialBalance(list, a) \in Nat
<1> DEFINE R == RowsOf(list, a)
           n == CHOOSE i \in R : \A j \in R : i >= j
           Row == [address : Accounts, amount : Nat]
<1>1. list \in Seq(Row) /\ \A r \in Row : r.amount \in Nat
  BY DEF CoinList
<1>2. R \in SUBSET (1..Len(list)) /\ Len(list) \in Nat
  <2> HIDE DEF Row
  <2> QED BY <1>1 DEF RowsOf
<1>3. CASE R # {}
  <2>1. \E i \in R : \A j \in R : i >= j
    <3> HIDE DEF R
    <3> QED BY <1>2, <1>3, MaximumExists
  <2>2. n \in 1..Len(list)
    BY <1>2, <2>1
  <2> HIDE DEF n, Row
  <2>3. list[n].amount \in Nat
    BY <1>1, <2>2
  <2> QED BY <1>3, <2>3 DEF InitialBalance, n
<1>4. CASE R = {}
  BY <1>4 DEF InitialBalance
<1> QED BY <1>3, <1>4

(* No entry, or one that has just started, makes nothing available.         *)
LEMMA FundsInit == VestingInit => FundsInv
<1> SUFFICES ASSUME VestingInit PROVE FundsInv
  OBVIOUS
<1>1. PICK coins \in InitialBalances :
        /\ balance = [a \in Accounts |-> InitialBalance(coins, a)]
        /\ allowance = [o \in Accounts |-> [s \in Accounts |-> NoAllowance]]
  BY DEF VestingInit, TokenInit
<1>2. PICK list \in ScheduleLists :
        vesting = WithSchedules([a \in Accounts |-> NoVesting], list)
  BY DEF VestingInit
<1>3. coins \in CoinList /\ list \in Seq(Schedule) /\ IsFiniteSet(Accounts)
  BY TokenAssumption, VestingAssumption DEF TokenAssumption, VestingAssumption
<1>4. balance \in [Accounts -> Nat] /\ VestingContract \in Accounts
  BY <1>1, <1>3, InitialBalanceType, VestingAssumption DEF VestingAssumption
<1>5. GrantsNothing
  BY <1>1, <1>4 DEF GrantsNothing
<1>6. \A a \in Accounts : AvailableTo(vesting)[a] = 0
  <2> TAKE a \in Accounts
  <2>1. block \in Block
    BY DEF VestingInit, TokenInit, Block
  <2>2. \/ vesting[a] = NoVesting
        \/ \E s \in Schedule : vesting[a] = Started(s)
    BY <1>2, <1>3, <2>1, AddedSchedules
  <2>3. ASSUME NEW s \in Schedule, vesting[a] = Started(s) PROVE vesting[a].available = 0
    BY <2>3 DEF Started
  <2>4. vesting[a] = NoVesting \/ vesting[a].available = 0
    BY <2>2, <2>3
  <2> QED BY <2>4 DEF AvailableTo
<1>7. SumFunctionOnSet(AvailableTo(vesting), Accounts) = 0
  BY <1>3, <1>6, SumZero
<1> QED BY <1>4, <1>5, <1>7 DEF FundsInv

LEMMA MovedType ==
  ASSUME balance \in [Accounts -> Nat], NEW from \in Accounts, NEW to \in Accounts,
         NEW n \in Nat, n <= balance[from]
  PROVE  /\ Moved(from, to, n) \in [Accounts -> Nat]
         /\ from # VestingContract /\ VestingContract \in Accounts =>
              Moved(from, to, n)[VestingContract]
                = balance[VestingContract] + IF to = VestingContract THEN n ELSE 0
BY DEF Moved

(* The calls of wallets to the token.                                       *)
LEMMA TokenKeepsFunds ==
  ASSUME balance \in [Accounts -> Nat], GrantsNothing,
         NEW sender \in Wallets, TokenCall(sender)
  PROVE  /\ balance' \in [Accounts -> Nat] /\ GrantsNothing'
         /\ balance'[VestingContract] >= balance[VestingContract]
<1>1. /\ sender \in Accounts /\ sender # VestingContract
      /\ VestingContract \in Accounts /\ balance[VestingContract] \in Nat
  BY VestingAssumption DEF VestingAssumption, Wallets
<1>2. Amounts \subseteq Nat
  BY TokenAssumption DEF TokenAssumption
<1>3. ASSUME HolderCall(sender)
      PROVE  /\ balance' \in [Accounts -> Nat] /\ GrantsNothing'
             /\ balance'[VestingContract] >= balance[VestingContract]
  <2>1. PICK a \in Accounts, n \in Amounts :
          \/ Transfer(sender, a, n) \/ Send(sender, a, n)
          \/ Burn(sender, n) \/ Mint(sender, a, n)
    BY <1>3 DEF HolderCall
  <2>2. n \in Nat
    BY <1>2
  <2>3. CASE Transfer(sender, a, n) \/ Send(sender, a, n)
    <3>1. n <= balance[sender] /\ balance' = Moved(sender, a, n)
      BY <2>3 DEF Transfer, Send
    <3> QED BY <1>1, <1>3, <2>2, <3>1, MovedType DEF HolderCall, GrantsNothing
  <2>4. CASE Burn(sender, n)
    <3>1. n <= balance[sender] /\ balance' = [balance EXCEPT ![sender] = @ - n]
      BY <2>4 DEF Burn
    <3> QED BY <1>1, <1>3, <2>2, <3>1 DEF HolderCall, GrantsNothing
  <2>5. CASE Mint(sender, a, n)
    <3>1. balance' = [balance EXCEPT ![a] = @ + n]
      BY <2>5 DEF Mint
    <3> QED BY <1>1, <1>3, <2>2, <3>1 DEF HolderCall, GrantsNothing
  <2> QED BY <2>1, <2>3, <2>4, <2>5
<1>4. ASSUME OwnerCall(sender) PROVE GrantsNothing' /\ balance' = balance
  <2>1. PICK spender, row : allowance' = [allowance EXCEPT ![sender][spender] = row]
    BY <1>4 DEF OwnerCall, IncreaseAllowance, DecreaseAllowance
  <2>2. DOMAIN allowance' = DOMAIN allowance /\ allowance'[VestingContract] = allowance[VestingContract]
    BY <1>1, <2>1 DEF GrantsNothing
  <2> QED BY <1>4, <2>2 DEF GrantsNothing, OwnerCall, ledger
<1>5. ASSUME SpenderCall(sender)
      PROVE  /\ balance' \in [Accounts -> Nat] /\ GrantsNothing'
             /\ balance'[VestingContract] >= balance[VestingContract]
  <2>1. PICK owner \in Accounts, n \in Amounts :
          \/ \E a \in Accounts : TransferFrom(sender, owner, a, n)
          \/ BurnFrom(sender, owner, n)
    BY <1>5 DEF SpenderCall, SendFrom
  <2>2. n \in Nat /\ Spend(owner, sender, n) /\ n <= balance[owner]
    BY <1>2, <2>1 DEF TransferFrom, BurnFrom
  <2>3. owner # VestingContract
    BY <1>1, <2>2 DEF Spend, MayDeduct, GrantsNothing
  <2>4. DOMAIN allowance' = DOMAIN allowance /\ allowance'[VestingContract] = allowance[VestingContract]
    BY <1>1, <2>2, <2>3 DEF Spend, Deducted, GrantsNothing
  <2>5. CASE \E a \in Accounts : TransferFrom(sender, owner, a, n)
    <3>1. PICK a \in Accounts : balance' = Moved(owner, a, n)
      BY <2>5 DEF TransferFrom
    <3>2. /\ Moved(owner, a, n) \in [Accounts -> Nat]
          /\ Moved(owner, a, n)[VestingContract]
               = balance[VestingContract] + IF a = VestingContract THEN n ELSE 0
      BY <1>1, <2>2, <2>3, MovedType
    <3>3. balance'[VestingContract] >= balance[VestingContract]
      BY <1>1, <2>2, <3>1, <3>2
    <3>4. GrantsNothing'
      BY <2>4 DEF GrantsNothing
    <3> QED BY <3>1, <3>2, <3>3, <3>4
  <2>6. CASE BurnFrom(sender, owner, n)
    <3>1. balance' = [balance EXCEPT ![owner] = @ - n]
      BY <2>6 DEF BurnFrom
    <3> QED BY <1>1, <2>2, <2>3, <2>4, <3>1 DEF GrantsNothing
  <2> QED BY <2>1, <2>5, <2>6
<1>6. ASSUME MinterCall(sender) PROVE GrantsNothing' /\ balance' = balance
  BY <1>6 DEF MinterCall, ledger, GrantsNothing
<1>7. ASSUME balance' = balance
      PROVE  /\ balance' \in [Accounts -> Nat]
             /\ balance'[VestingContract] >= balance[VestingContract]
  BY <1>1, <1>7
<1>8. HolderCall(sender) \/ OwnerCall(sender) \/ SpenderCall(sender) \/ MinterCall(sender)
  BY DEF TokenCall
<1>9. CASE HolderCall(sender) \/ SpenderCall(sender)
  BY <1>3, <1>5, <1>9
<1>10. CASE OwnerCall(sender) \/ MinterCall(sender)
  <2>1. GrantsNothing' /\ balance' = balance
    BY <1>4, <1>6, <1>10
  <2> QED BY <1>7, <2>1
<1> QED BY <1>8, <1>9, <1>10

-----------------------------------------------------------------------------
(* The calls to the contract                                                *)

(* What is available to each address is a count, and nothing for those that *)
(* are paid at once.                                                        *)
LEMMA AvailableTypes ==
  ASSUME VestingInv
  PROVE  /\ \A a \in Accounts : AvailableTo(vesting)[a] \in Nat
         /\ \A a \in Accounts : ~ Claimable(a) => AvailableTo(vesting)[a] = 0
<1> SUFFICES ASSUME NEW a \in Accounts
             PROVE  /\ AvailableTo(vesting)[a] \in Nat
                    /\ ~ Claimable(a) => AvailableTo(vesting)[a] = 0
  OBVIOUS
<1>1. CASE vesting[a] = NoVesting
  BY <1>1 DEF AvailableTo
<1>2. CASE vesting[a] # NoVesting
  <2>1. vesting[a].available \in Nat /\ (vesting[a].shouldTransfer => vesting[a].available = 0)
    BY <1>2, RowsAreGood, DetailTypes DEF GoodRow, Consistent
  <2> QED BY <1>2, <2>1 DEF AvailableTo, Claimable
<1> QED BY <1>1, <1>2

(* The payees of a call and what they are due.                              *)
DueTo(transfer) == [a \in Accounts |-> IF a \in Payees(transfer) THEN Due(vesting[a]) ELSE 0]

LEMMA DueTypes ==
  ASSUME VestingInv, NEW transfer \in BOOLEAN, Calculable(transfer)
  PROVE  \A a \in Accounts : DueTo(transfer)[a] \in Nat
<1> SUFFICES ASSUME NEW a \in Accounts PROVE DueTo(transfer)[a] \in Nat
  OBVIOUS
<1>1. CASE a \in Payees(transfer)
  <2>1. /\ vesting[a] # NoVesting /\ a \in Listed(transfer) /\ Due(vesting[a]) > 0
        /\ block \in Block
    BY <1>1 DEF Payees, Listed, VestingInv
  <2>2. GoodRow(vesting[a]) /\ vesting[a].periodicity > 0
    BY <2>1, RowsAreGood DEF Calculable
  <2>3. Due(vesting[a]) \in Nat
    BY <2>1, <2>2, DueSplit DEF GoodRow
  <2> QED BY <1>1, <2>3 DEF DueTo
<1>2. CASE a \notin Payees(transfer)
  BY <1>2 DEF DueTo
<1> QED BY <1>1, <1>2

LEMMA TotalIsDue ==
  ASSUME VestingInv, NEW transfer \in BOOLEAN, Calculable(transfer)
  PROVE  /\ TotalDue(transfer) = SumFunctionOnSet(DueTo(transfer), Accounts)
         /\ TotalDue(transfer) \in Nat
<1> DEFINE P == Payees(transfer)
           d == DueTo(transfer)
           e == [a \in P |-> Due(vesting[a])]
<1>1. IsFiniteSet(Accounts) /\ P \in SUBSET Accounts
  BY VestingAssumption DEF VestingAssumption, Payees, Listed
<1>2. IsFiniteSet(P)
  BY <1>1, FS_Subset
<1>3. \A a \in Accounts : d[a] \in Nat
  BY DueTypes
<1>4. \A a \in Accounts : d[a] \in Int
  BY <1>3
<1>5. \A a \in Accounts \ P : d[a] = 0
  BY DEF DueTo
<1>6. \A a \in P : d[a] \in Int /\ d[a] = e[a]
  BY <1>1, <1>4 DEF DueTo
<1>7. TotalDue(transfer) = SumFunctionOnSet(e, P)
  BY DEF TotalDue, SumFunction
<1> HIDE DEF P, d, e
<1>8. SumFunctionOnSet(d, Accounts) = SumFunctionOnSet(d, P)
  BY <1>1, <1>4, <1>5, SumPart
<1>9. SumFunctionOnSet(d, P) = SumFunctionOnSet(e, P)
  BY <1>2, <1>6, SumSame
<1>10. SumFunctionOnSet(d, Accounts) \in Nat
  BY <1>1, <1>3, SumNat
<1>11. TotalDue(transfer) = SumFunctionOnSet(d, Accounts)
  BY <1>7, <1>8, <1>9
<1> QED BY <1>10, <1>11 DEF d

LEMMA SpendAdminsKeeps ==
  ASSUME GrantsNothing, NEW n, SpendAdmins(n)
  PROVE  GrantsNothing'
<1>1. VestingAdmin # VestingContract /\ VestingContract \in Accounts
  BY VestingAssumption DEF VestingAssumption
<1>2. allowance' = allowance \/ allowance' = Deducted(VestingAdmin, VestingContract, n)
  BY DEF SpendAdmins
<1>3. DOMAIN allowance' = DOMAIN allowance /\ allowance'[VestingContract] = allowance[VestingContract]
  BY <1>1, <1>2 DEF Deducted, GrantsNothing
<1> QED BY <1>3 DEF GrantsNothing

(* A calculation makes no more available than it brings to the contract.    *)
LEMMA CalculateKeepsFunds ==
  ASSUME VestingInv, FundsInv, NEW sender, PeriodicallyCalculateVesting(sender)
  PROVE  FundsInv'
<1> DEFINE d == DueTo(FALSE)
           old == AvailableTo(vesting)
           new == AvailableTo(vesting')
           both == [a \in Accounts |-> old[a] + d[a]]
           n == TotalDue(FALSE)
<1>1. Calculable(FALSE) /\ n <= balance[VestingAdmin] /\ SpendAdmins(n)
  BY DEF PeriodicallyCalculateVesting
<1>2. n = SumFunctionOnSet(d, Accounts) /\ n \in Nat /\ \A a \in Accounts : d[a] \in Nat
  BY <1>1, TotalIsDue, DueTypes
<1>3. /\ IsFiniteSet(Accounts) /\ VestingContract \in Accounts
      /\ VestingAdmin \in Accounts /\ VestingAdmin # VestingContract
      /\ balance \in [Accounts -> Nat] /\ GrantsNothing
      /\ SumFunctionOnSet(old, Accounts) <= balance[VestingContract]
  BY VestingAssumption DEF VestingAssumption, FundsInv
<1>4. /\ balance' \in [Accounts -> Nat]
      /\ balance'[VestingContract] = balance[VestingContract] + n
  <2>1. balance' = Moved(VestingAdmin, VestingContract, n)
    BY DEF PeriodicallyCalculateVesting
  <2> HIDE DEF n
  <2> QED BY <1>1, <1>2, <1>3, <2>1, MovedType
<1>5. GrantsNothing'
  BY <1>1, <1>3, SpendAdminsKeeps
<1>6. \A a \in Accounts : old[a] \in Nat
  BY AvailableTypes
<1>7. ASSUME NEW a \in Accounts
      PROVE  new[a] \in Int /\ both[a] \in Int /\ new[a] <= both[a]
  <2>1. old[a] \in Nat /\ d[a] \in Nat /\ both[a] = old[a] + d[a]
    BY <1>2, <1>6
  <2>2. vesting'[a] = IF a \in Payees(FALSE) THEN Vested(vesting[a]) ELSE vesting[a]
    BY DEF PeriodicallyCalculateVesting
  <2>3. CASE a \notin Payees(FALSE)
    <3>1. new[a] = old[a]
      BY <2>2, <2>3 DEF AvailableTo
    <3> HIDE DEF new, old, d, both
    <3> QED BY <2>1, <3>1
  <2>4. CASE a \in Payees(FALSE)
    <3>1. vesting[a] # NoVesting /\ d[a] = Due(vesting[a])
      BY <2>4 DEF Payees, Listed, DueTo
    <3>2. PICK v \in VestingDetails : v = vesting[a]
      BY <3>1, RowsAreGood DEF GoodRow
    <3>3. old[a] = v.available /\ v.claimed + v.available <= v.total
      BY <3>1, <3>2, RowsAreGood DEF GoodRow, Consistent, AvailableTo
    <3>4. Vested(v).available = Capped(v.available + Due(v), v.total - v.claimed)
      BY DEF Vested, VestingDetails
    <3>5. new[a] = 0 \/ new[a] = Vested(v).available
      BY <2>2, <2>4, <3>2 DEF AvailableTo
    <3>6. v.claimed \in Nat /\ v.total \in Nat /\ v.available \in Nat
      BY DetailTypes
    <3>7. d[a] = Due(v)
      BY <3>1, <3>2
    <3> HIDE DEF new, old, d, both
    <3> QED BY <2>1, <3>3, <3>4, <3>5, <3>6, <3>7 DEF Capped
  <2> QED BY <2>3, <2>4
<1> HIDE DEF d, old, new, n
<1>8. SumFunctionOnSet(both, Accounts)
        = SumFunctionOnSet(old, Accounts) + SumFunctionOnSet(d, Accounts)
  <2>1. \A a \in Accounts : old[a] \in Int /\ d[a] \in Int /\ both[a] = old[a] + d[a]
    BY <1>2, <1>6
  <2> HIDE DEF both
  <2> QED BY <1>3, <2>1, SumAdd
<1> HIDE DEF both
<1>9. SumFunctionOnSet(new, Accounts) <= SumFunctionOnSet(both, Accounts)
  BY <1>3, <1>7, SumMonotonic
<1>10. SumFunctionOnSet(old, Accounts) \in Int /\ SumFunctionOnSet(new, Accounts) \in Int
  <2>1. \A a \in Accounts : old[a] \in Int /\ new[a] \in Int
    BY <1>6, <1>7
  <2> QED BY <1>3, <2>1, SumInt
<1>11. balance[VestingContract] \in Nat
  BY <1>3
<1>12. SumFunctionOnSet(new, Accounts) <= balance'[VestingContract]
  BY <1>2, <1>3, <1>4, <1>8, <1>9, <1>10, <1>11
<1>13. SumFunctionOnSet(AvailableTo(vesting'), Accounts) <= balance'[VestingContract]
  BY <1>12 DEF new
<1> QED BY <1>4, <1>5, <1>13 DEF FundsInv, AvailableTo

(* Nothing more becomes available.                                          *)
LEMMA NothingMore ==
  ASSUME VestingInv, FundsInv,
         \A a \in Accounts : AvailableTo(vesting')[a] = AvailableTo(vesting)[a],
         balance' \in [Accounts -> Nat], GrantsNothing',
         balance'[VestingContract] >= balance[VestingContract]
  PROVE  FundsInv'
<1> DEFINE old == AvailableTo(vesting)
           new == AvailableTo(vesting')
<1>1. IsFiniteSet(Accounts) /\ VestingContract \in Accounts
  BY VestingAssumption DEF VestingAssumption
<1>2. \A a \in Accounts : old[a] \in Nat
  BY AvailableTypes
<1>3. \A a \in Accounts : old[a] \in Int /\ old[a] = new[a]
  BY <1>2
<1> HIDE DEF old, new
<1>4. SumFunctionOnSet(old, Accounts) = SumFunctionOnSet(new, Accounts)
  BY <1>1, <1>3, SumSame
<1>5. SumFunctionOnSet(old, Accounts) \in Int
  BY <1>1, <1>3, SumInt
<1>6. SumFunctionOnSet(old, Accounts) <= balance[VestingContract]
  BY DEF FundsInv, old
<1>7. balance[VestingContract] \in Nat /\ balance'[VestingContract] \in Nat
  BY <1>1 DEF FundsInv
<1>8. SumFunctionOnSet(new, Accounts) <= balance'[VestingContract]
  BY <1>4, <1>5, <1>6, <1>7
<1>9. SumFunctionOnSet(AvailableTo(vesting'), Accounts) <= balance'[VestingContract]
  BY <1>8 DEF new
<1> QED BY <1>9 DEF FundsInv, AvailableTo

LEMMA TransferKeepsFunds ==
  ASSUME VestingInv, FundsInv, NEW sender, PeriodicallyTransferToCategories(sender)
  PROVE  FundsInv'
<1> DEFINE d == DueTo(TRUE)
           n == TotalDue(TRUE)
<1>1. Calculable(TRUE) /\ n <= balance[VestingAdmin] /\ SpendAdmins(n)
  BY DEF PeriodicallyTransferToCategories
<1>2. n \in Nat /\ \A a \in Accounts : d[a] \in Nat
  BY <1>1, TotalIsDue, DueTypes
<1>3. /\ VestingContract \in Accounts
      /\ VestingAdmin \in Accounts /\ VestingAdmin # VestingContract
      /\ balance \in [Accounts -> Nat] /\ GrantsNothing
  BY VestingAssumption DEF VestingAssumption, FundsInv
<1>4. balance' = [a \in Accounts |->
                    balance[a] + d[a] - IF a = VestingAdmin THEN n ELSE 0]
  BY DEF PeriodicallyTransferToCategories, DueTo
<1>5. GrantsNothing'
  BY <1>1, <1>3, SpendAdminsKeeps
<1>6. /\ balance' \in [Accounts -> Nat]
      /\ balance'[VestingContract] >= balance[VestingContract]
  <2> HIDE DEF d, n
  <2>1. ASSUME NEW a \in Accounts
        PROVE balance[a] + d[a] - (IF a = VestingAdmin THEN n ELSE 0) \in Nat
    <3>1. balance[a] \in Nat /\ d[a] \in Nat
      BY <1>2, <1>3
    <3> QED BY <1>1, <1>2, <3>1
  <2>2. balance[VestingContract] \in Nat /\ d[VestingContract] \in Nat
    BY <1>2, <1>3
  <2>3. balance'[VestingContract] = balance[VestingContract] + d[VestingContract] - 0
    BY <1>3, <1>4
  <2>4. balance'[VestingContract] >= balance[VestingContract]
    BY <2>2, <2>3
  <2>5. balance' \in [Accounts -> Nat]
    BY <1>4, <2>1
  <2> QED BY <2>4, <2>5
<1>7. ASSUME NEW a \in Accounts
      PROVE  AvailableTo(vesting')[a] = AvailableTo(vesting)[a]
  <2>1. vesting'[a] = IF a \in Payees(TRUE) THEN Transferred(vesting[a]) ELSE vesting[a]
    BY DEF PeriodicallyTransferToCategories
  <2>2. CASE a \notin Payees(TRUE)
    BY <2>1, <2>2 DEF AvailableTo
  <2>3. CASE a \in Payees(TRUE)
    <3>1. vesting[a] # NoVesting /\ vesting[a].shouldTransfer = TRUE
      BY <2>3 DEF Payees, Listed
    <3>2. PICK v \in VestingDetails : v = vesting[a]
      BY <3>1, RowsAreGood DEF GoodRow
    <3>3. Consistent(v) /\ v.shouldTransfer
      BY <3>1, <3>2, RowsAreGood DEF GoodRow
    <3>4. Transferred(v).available = v.available
      BY DEF Transferred, VestingDetails
    <3>5. v.available = 0
      BY <3>3 DEF Consistent
    <3>6. AvailableTo(vesting')[a] = 0
      BY <2>1, <2>3, <3>2, <3>4, <3>5 DEF AvailableTo
    <3>7. AvailableTo(vesting)[a] = 0
      BY <3>1, <3>2, <3>5 DEF AvailableTo
    <3> QED BY <3>6, <3>7
  <2> QED BY <2>2, <2>3
<1> QED BY <1>5, <1>6, <1>7, NothingMore

(* What is claimed leaves the contract and is no longer available.          *)
LEMMA ClaimKeepsFunds ==
  ASSUME VestingInv, FundsInv, NEW sender \in Wallets, NEW n \in ClaimAmounts,
         ClaimVestedTokens(sender, n)
  PROVE  FundsInv'
<1> DEFINE old == AvailableTo(vesting)
           new == AvailableTo(vesting')
<1>1. /\ sender \in Accounts /\ sender # VestingContract /\ n \in Nat
      /\ IsFiniteSet(Accounts) /\ VestingContract \in Accounts
      /\ balance \in [Accounts -> Nat] /\ GrantsNothing
      /\ SumFunctionOnSet(old, Accounts) <= balance[VestingContract]
      /\ vesting \in [Accounts -> VestingDetails \cup {NoVesting}]
  BY VestingAssumption DEF VestingAssumption, FundsInv, Wallets, VestingInv, VestingTypeOK
<1>2. PICK v \in VestingDetails : v = vesting[sender]
  BY <1>1, RowsAreGood DEF GoodRow, ClaimVestedTokens
<1>3. v.available \in Nat /\ v # NoVesting
  BY <1>2, DetailTypes DEF ClaimVestedTokens
<1>4. /\ n <= balance[VestingContract]
      /\ balance' = Moved(VestingContract, sender, n)
      /\ n <= v.available /\ allowance' = allowance
  BY <1>2 DEF ClaimVestedTokens, Transfer
<1>5. PICK w : w = AfterClaim(v, n)
  OBVIOUS
<1>6. w \in VestingDetails /\ w.available = v.available - n
  <2>1. Consistent(v)
    BY <1>2, <1>3, <1>1, RowsAreGood DEF GoodRow
  <2>2. w \in VestingDetails
    BY <1>1, <1>4, <1>5, <2>1, ClaimStep
  <2> QED BY <1>5, <2>2 DEF AfterClaim, VestingDetails
<1>7. vesting' = [vesting EXCEPT ![sender] = w]
  BY <1>2, <1>5 DEF ClaimVestedTokens, AfterClaim
<1>8. w # NoVesting
  BY <1>6, VestingAssumption DEF VestingAssumption
<1>9. old[sender] = v.available /\ new[sender] = v.available - n
  <2>1. vesting'[sender] = w
    BY <1>1, <1>7
  <2> QED BY <1>1, <1>2, <1>3, <1>6, <1>8, <2>1 DEF AvailableTo
<1>10. \A a \in Accounts \ {sender} : old[a] = new[a]
  <2>1. \A a \in Accounts \ {sender} : vesting'[a] = vesting[a]
    BY <1>1, <1>7
  <2> QED BY <2>1 DEF AvailableTo
<1>11. \A a \in Accounts : old[a] \in Nat
  BY AvailableTypes
<1> HIDE DEF old, new
<1>12. \A a \in Accounts : old[a] \in Int /\ new[a] \in Int
  BY <1>1, <1>3, <1>9, <1>10, <1>11
<1>13. SumFunctionOnSet(new, Accounts) = SumFunctionOnSet(old, Accounts) + (new[sender] - old[sender])
  BY <1>1, <1>10, <1>12, SumUpdate
<1>14. SumFunctionOnSet(old, Accounts) \in Int
  BY <1>1, <1>12, SumInt
<1>15. /\ balance' \in [Accounts -> Nat]
       /\ balance'[VestingContract] = balance[VestingContract] - n
  BY <1>1, <1>4 DEF Moved
<1>16. SumFunctionOnSet(new, Accounts) <= balance'[VestingContract]
  <2>1. balance[VestingContract] \in Nat
    BY <1>1
  <2> QED BY <1>1, <1>3, <1>9, <1>13, <1>14, <1>15, <2>1
<1>17. SumFunctionOnSet(AvailableTo(vesting'), Accounts) <= balance'[VestingContract]
  BY <1>16 DEF new
<1>18. GrantsNothing'
  BY <1>1, <1>4 DEF GrantsNothing
<1> QED BY <1>15, <1>17, <1>18 DEF FundsInv, AvailableTo

LEMMA AddKeepsFunds ==
  ASSUME VestingInv, FundsInv, NEW sender, NEW list \in ScheduleLists,
         AddVestingSchedules(sender, list)
  PROVE  FundsInv'
<1>1. list \in Seq(Schedule) /\ block \in Block
  BY VestingAssumption DEF VestingAssumption, VestingInv
<1>2. UNCHANGED <<balance, allowance>> /\ vesting' = WithSchedules(vesting, list)
  BY DEF AddVestingSchedules
<1>3. ASSUME NEW a \in Accounts
      PROVE  AvailableTo(vesting')[a] = AvailableTo(vesting)[a]
  <2>1. CASE vesting[a] # NoVesting
    <3>1. vesting'[a] = vesting[a]
      BY <2>1, AddRows
    <3> QED BY <3>1 DEF AvailableTo
  <2>2. CASE vesting[a] = NoVesting
    <3>1. \/ vesting'[a] = NoVesting
          \/ \E s \in Schedule : vesting'[a] = Started(s)
      BY <1>1, <1>2, <2>2, AddedSchedules
    <3>2. ASSUME NEW s \in Schedule, vesting'[a] = Started(s) PROVE vesting'[a].available = 0
      BY <3>2 DEF Started
    <3>3. vesting'[a] = NoVesting \/ vesting'[a].available = 0
      BY <3>1, <3>2
    <3> QED BY <2>2, <3>3 DEF AvailableTo
  <2> QED BY <2>1, <2>2
<1>4. balance' \in [Accounts -> Nat] /\ balance'[VestingContract] >= balance[VestingContract]
  BY <1>2, VestingAssumption DEF VestingAssumption, FundsInv
<1>5. GrantsNothing'
  BY <1>2 DEF GrantsNothing, FundsInv
<1> QED BY <1>3, <1>4, <1>5, NothingMore

LEMMA NextKeepsFunds ==
  ASSUME VestingInv, FundsInv, [VestingNext]_vestingVars
  PROVE  FundsInv'
<1>1. balance \in [Accounts -> Nat] /\ GrantsNothing /\ VestingContract \in Accounts
  BY VestingAssumption DEF VestingAssumption, FundsInv
<1>2. ASSUME NEW sender \in Wallets, VestingCall(sender) PROVE FundsInv'
  BY <1>2, CalculateKeepsFunds, TransferKeepsFunds, ClaimKeepsFunds, AddKeepsFunds
     DEF VestingCall
<1>3. ASSUME UNCHANGED <<vesting, balance, allowance>> PROVE FundsInv'
  BY <1>3 DEF FundsInv, GrantsNothing, AvailableTo
<1>4. ASSUME NEW sender \in Wallets, TokenCall(sender), UNCHANGED vesting PROVE FundsInv'
  <2>1. /\ balance' \in [Accounts -> Nat] /\ GrantsNothing'
        /\ balance'[VestingContract] >= balance[VestingContract]
    BY <1>1, <1>4, TokenKeepsFunds
  <2>2. \A a \in Accounts : AvailableTo(vesting')[a] = AvailableTo(vesting)[a]
    BY <1>4
  <2> QED BY <2>1, <2>2, NothingMore
<1>5. CASE NextBlock /\ UNCHANGED <<vesting, paid>>
  BY <1>3, <1>5 DEF NextBlock, ledger
<1>6. CASE UNCHANGED vestingVars
  BY <1>3, <1>6 DEF vestingVars, tokenVars, ledger
<1> QED BY <1>2, <1>4, <1>5, <1>6 DEF VestingNext

(* Whoever calls what of the contract and of the token, the contract holds  *)
(* the tokens of all that may be claimed of it: no claim of what is         *)
(* available is refused for want of tokens.                                 *)
THEOREM ClaimsStayFunded == VestingSpec => []ClaimsAreFunded
<1>1. VestingInit => FundsInv
  BY FundsInit
<1>2. VestingInv /\ FundsInv /\ [VestingNext]_vestingVars => FundsInv'
  BY NextKeepsFunds
<1>3. VestingInv /\ FundsInv => ClaimsAreFunded
  <2> SUFFICES ASSUME VestingInv, FundsInv PROVE ClaimsAreFunded
    OBVIOUS
  <2> DEFINE old == AvailableTo(vesting)
             C == {b \in Accounts : Claimable(b)}
             f == [a \in C |-> vesting[a].available]
  <2>1. IsFiniteSet(Accounts) /\ C \in SUBSET Accounts
    BY VestingAssumption DEF VestingAssumption
  <2>2. IsFiniteSet(C)
    BY <2>1, FS_Subset
  <2>3. \A a \in Accounts : old[a] \in Int
    BY AvailableTypes
  <2>4. \A a \in Accounts \ C : old[a] = 0
    BY AvailableTypes
  <2>5. \A a \in C : old[a] \in Int /\ old[a] = f[a]
    BY <2>3 DEF AvailableTo, Claimable
  <2>6. SumFunctionOnSet(old, Accounts) <= balance[VestingContract]
    BY DEF FundsInv
  <2> HIDE DEF old, C, f
  <2>7. SumFunctionOnSet(old, Accounts) = SumFunctionOnSet(old, C)
    BY <2>1, <2>3, <2>4, SumPart
  <2>8. SumFunctionOnSet(old, C) = SumFunctionOnSet(f, C)
    BY <2>2, <2>5, SumSame
  <2>9. SumFunctionOnSet(f, C) <= balance[VestingContract]
    BY <2>6, <2>7, <2>8
  <2> QED BY <2>9 DEF ClaimsAreFunded, SumFunction, f, C
<1> QED BY <1>1, <1>2, <1>3, Invariance, PTL DEF VestingSpec
=============================================================================
