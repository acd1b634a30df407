--------------------------- MODULE InductionLemmas ---------------------------
(***************************************************************************)
(* Induction over 0..N and over the subsets of a finite set, functions     *)
(* defined by primitive recursion, sums, and the listing of a finite set   *)
(* in an order: stated with sets and functions instead of predicates and   *)
(* operators, so that they can be cited about the loops, the holdings and  *)
(* the ranges of the contracts.                                            *)
(***************************************************************************)
EXTENDS Integers, WellFoundedInduction, FiniteSetTheorems, SequenceTheorems, Functions, TLAPS

(* A set that contains 0 and, with n-1, also n contains every n up to N.    *)
LEMMA UpTo ==
  ASSUME NEW N \in Nat, NEW P, 0 \in P,
         \A n \in 1..N : n - 1 \in P => n \in P
  PROVE  0..N \subseteq P
<1> DEFINE Bad == {n \in 0..N : n \notin P}
<1> SUFFICES ASSUME Bad # {} PROVE FALSE
  OBVIOUS
<1>1. Bad \subseteq Nat
  OBVIOUS
<1>2. PICK m \in Bad : \A y \in Bad : ~ (<<y, m>> \in OpToRel(<, Nat))
  <2> HIDE DEF Bad
  <2> QED BY <1>1, WFMin, NatLessThanWellFounded
<1>3. \A y \in Bad : ~ (y < m)
  BY <1>1, <1>2 DEF OpToRel
<1>a. m \in 0..N /\ m \notin P
  OBVIOUS
<1>4. m # 0
  BY <1>a
<1>5. m \in 1..N /\ m - 1 \in 0..N
  BY <1>a, <1>4
<1>6. m - 1 \notin Bad
  BY <1>3, <1>5
<1>7. m - 1 \in P
  BY <1>5, <1>6
<1> QED BY <1>5, <1>7, <1>a

(* f[n] is the value of a loop after n of its N steps: it starts from base, *)
(* and step[n] is its body.                                                 *)
IsLoop(f, N, S, base, step) ==
  /\ f \in [0..N -> S]
  /\ f[0] = base
  /\ \A n \in 1..N : f[n] = step[n][f[n-1]]

(* Such a loop has a value after every number of steps.                     *)
LEMMA LoopExists ==
  ASSUME NEW N \in Nat, NEW S, NEW base \in S, NEW step \in [1..N -> [S -> S]]
  PROVE  \E f : IsLoop(f, N, S, base, step)
<1> DEFINE P == {n \in 0..N : \E f : IsLoop(f, n, S, base, step)}
<1>1. 0 \in P
  <2>1. IsLoop([i \in 0..0 |-> base], 0, S, base, step)
    BY DEF IsLoop
  <2> QED BY <2>1
<1>2. ASSUME NEW n \in 1..N, n - 1 \in P PROVE n \in P
  <2>1. PICK f : IsLoop(f, n-1, S, base, step)
    BY <1>2
  <2> DEFINE g == [i \in 0..n |-> IF i = n THEN step[n][f[n-1]] ELSE f[i]]
  <2>2. step[n][f[n-1]] \in S
    <3>1. f[n-1] \in S
      BY <2>1 DEF IsLoop
    <3> QED BY <3>1
  <2>3. g \in [0..n -> S]
    BY <2>1, <2>2 DEF IsLoop
  <2>4. g[0] = base
    BY <2>1 DEF IsLoop
  <2>5. ASSUME NEW i \in 1..n PROVE g[i] = step[i][g[i-1]]
    <3>1. CASE i = n
      BY <3>1
    <3>2. CASE i # n
      BY <3>2, <2>1 DEF IsLoop
    <3> QED BY <3>1, <3>2
  <2> HIDE DEF g
  <2>6. IsLoop(g, n, S, base, step)
    BY <2>3, <2>4, <2>5 DEF IsLoop
  <2> QED BY <2>6
<1> HIDE DEF P
<1>3. \A n \in 1..N : n - 1 \in P => n \in P
  BY <1>2
<1>4. N \in P
  <2>1. 0..N \subseteq P
    BY <1>1, <1>3, UpTo
  <2> QED BY <2>1
<1> QED BY <1>4 DEF P

(* A set of numbers between 1 and N that is not empty has a largest one.    *)
LEMMA MaximumExists ==
  ASSUME NEW N \in Nat, NEW S \in SUBSET (1..N), S # {}
  PROVE  \E x \in S : \A y \in S : x >= y
<1> DEFINE P == {n \in 0..N : (\E y \in S : y <= n) =>
                   \E x \in S : x <= n /\ \A y \in S : y <= n => x >= y}
<1>1. 0 \in P
  OBVIOUS
<1>2. ASSUME NEW n \in 1..N, n - 1 \in P PROVE n \in P
  <2>1. CASE n \in S
    BY <2>1
  <2>2. CASE n \notin S
    <3>1. \A y \in S : y <= n <=> y <= n - 1
      BY <2>2
    <3> QED BY <1>2, <3>1
  <2> QED BY <2>1, <2>2
<1>3. N \in P
  <2> HIDE DEF P
  <2>1. 0..N \subseteq P
    BY <1>1, <1>2, UpTo
  <2> QED BY <2>1
<1>4. \A y \in S : y <= N
  OBVIOUS
<1> QED BY <1>3, <1>4

LEMMA MinimumExists ==
  ASSUME NEW N \in Nat, NEW S \in SUBSET (1..N), S # {}
  PROVE  \E x \in S : \A y \in S : x <= y
<1> DEFINE T == {t \in 1..N : N + 1 - t \in S}
<1>1. \A y \in S : y \in 1..N /\ N + 1 - y \in T
  OBVIOUS
<1>2. T \in SUBSET (1..N) /\ T # {}
  BY <1>1
<1>3. PICK t \in T : \A u \in T : t >= u
  BY <1>2, MaximumExists
<1>4. N + 1 - t \in S /\ \A y \in S : N + 1 - t <= y
  BY <1>1, <1>3
<1> QED BY <1>4

-----------------------------------------------------------------------------
(* Sums over finite sets *)

(* Induction over the subsets of a finite set, one element at a time.       *)
LEMMA FiniteSubsets ==
  ASSUME NEW S, IsFiniteSet(S), NEW P, {} \in P,
         \A T \in SUBSET S : \A x \in S \ T : T \in P => T \cup {x} \in P
  PROVE  SUBSET S \subseteq P
<1> DEFINE N == Cardinality(S)
           Q == {n \in 0..N : \A T \in SUBSET S : Cardinality(T) = n => T \in P}
<1>1. N \in Nat
  BY FS_CardinalityType
<1>2. \A T \in SUBSET S : IsFiniteSet(T) /\ Cardinality(T) \in 0..N
  BY FS_Subset, FS_CardinalityType, <1>1
<1> HIDE DEF N
<1>3. 0 \in Q
  BY <1>1, <1>2, FS_EmptySet
<1>4. ASSUME NEW n \in 1..N, n - 1 \in Q PROVE n \in Q
  <2> SUFFICES ASSUME NEW T \in SUBSET S, Cardinality(T) = n PROVE T \in P
    BY <1>1
  <2>1. PICK x : x \in T
    BY <1>2, FS_EmptySet
  <2>2. Cardinality(T \ {x}) = n - 1
    BY <1>2, <2>1, FS_RemoveElement
  <2>3. T \ {x} \in P
    BY <1>4, <2>2
  <2>4. (T \ {x}) \cup {x} = T
    BY <2>1
  <2>5. x \in S \ (T \ {x})
    BY <2>1
  <2>6. T \ {x} \in SUBSET S
    OBVIOUS
  <2> QED BY <2>3, <2>4, <2>5, <2>6
<1>5. 0..N \subseteq Q
  <2> HIDE DEF Q
  <2> QED BY <1>1, <1>3, <1>4, UpTo
<1> QED BY <1>2, <1>5

(* The recursion behind a sum: one of the elements left is taken at a time. *)
Chosen(s) == CHOOSE x \in s : TRUE
SumsOn(it, f, D) ==
  it = [s \in D |-> IF s = {} THEN 0 ELSE f[Chosen(s)] + it[s \ {Chosen(s)}]]
IsSummation(it, f, S) == SumsOn(it, f, SUBSET S)

LEMMA ChosenElement ==
  ASSUME NEW s, s # {}
  PROVE  Chosen(s) \in s
BY DEF Chosen

LEMMA SummationExists ==
  ASSUME NEW S, IsFiniteSet(S), NEW f
  PROVE  \E it : IsSummation(it, f, S)
<1> DEFINE N == Cardinality(S)
           Small(n) == {s \in SUBSET S : Cardinality(s) <= n}
           Q == {n \in 0..N : \E it : SumsOn(it, f, Small(n))}
<1>1. N \in Nat
  BY FS_CardinalityType
<1>2. \A T \in SUBSET S : IsFiniteSet(T) /\ Cardinality(T) \in 0..N
  BY FS_Subset, FS_CardinalityType, <1>1
<1>a. \A T \in SUBSET S : T # {} => /\ T \ {Chosen(T)} \in SUBSET S
                                   /\ Cardinality(T \ {Chosen(T)}) = Cardinality(T) - 1
                                   /\ Cardinality(T) # 0
  BY <1>2, ChosenElement, FS_RemoveElement, FS_EmptySet
<1> HIDE DEF N
<1>3. 0 \in Q
  <2> DEFINE it == [s \in Small(0) |-> 0]
  <2>1. ASSUME NEW s \in Small(0) PROVE s = {}
    <3>1. Cardinality(s) = 0
      BY <1>1, <1>2
    <3> QED BY <1>a, <3>1
  <2>2. SumsOn(it, f, Small(0))
    BY <2>1 DEF SumsOn
  <2> HIDE DEF it, Small
  <2> QED BY <1>1, <2>2
<1>4. ASSUME NEW n \in 1..N, n - 1 \in Q PROVE n \in Q
  <2>1. PICK h : SumsOn(h, f, Small(n - 1))
    BY <1>4
  <2> DEFINE it == [s \in Small(n) |-> IF s = {} THEN 0 ELSE f[Chosen(s)] + h[s \ {Chosen(s)}]]
  <2>2. ASSUME NEW s \in Small(n - 1) PROVE it[s] = h[s]
    <3>1. s \in Small(n)
      BY <1>1, <1>2
    <3> QED BY <2>1, <3>1 DEF SumsOn
  <2>3. ASSUME NEW s \in Small(n), s # {} PROVE s \ {Chosen(s)} \in Small(n - 1)
    BY <1>1, <1>2, <1>a, <2>3
  <2>4. SumsOn(it, f, Small(n))
    BY <2>2, <2>3 DEF SumsOn
  <2> HIDE DEF it, Small
  <2> QED BY <1>1, <2>4
<1>5. N \in Q
  <2> HIDE DEF Q
  <2>1. 0..N \subseteq Q
    BY <1>1, <1>3, <1>4, UpTo
  <2> QED BY <1>1, <2>1
<1>6. Small(N) = SUBSET S
  BY <1>1, <1>2
<1> QED BY <1>5, <1>6 DEF IsSummation, SumsOn

LEMMA SummationUnique ==
  ASSUME NEW S, IsFiniteSet(S), NEW f, NEW g, NEW h, IsSummation(g, f, S),
         NEW T, IsSummation(h, f, T), T \subseteq S
  PROVE  \A s \in SUBSET T : g[s] = h[s]
<1> DEFINE N == Cardinality(T)
           Q == {n \in 0..N : \A s \in SUBSET T : Cardinality(s) = n => g[s] = h[s]}
<1>0. IsFiniteSet(T)
  BY FS_Subset
<1>1. N \in Nat
  BY <1>0, FS_CardinalityType
<1>2. \A s \in SUBSET T : IsFiniteSet(s) /\ Cardinality(s) \in 0..N
  BY <1>0, FS_Subset, FS_CardinalityType, <1>1
<1>a. \A s \in SUBSET T : s # {} => /\ s \ {Chosen(s)} \in SUBSET T
                                   /\ Cardinality(s \ {Chosen(s)}) = Cardinality(s) - 1
                                   /\ Cardinality(s) # 0
  BY <1>2, ChosenElement, FS_RemoveElement, FS_EmptySet
<1>b. \A s \in SUBSET T : s \in SUBSET S
  OBVIOUS
<1> HIDE DEF N
<1>3. 0 \in Q
  <2>1. \A s \in SUBSET T : Cardinality(s) = 0 => s = {}
    BY <1>a
  <2>2. g[{}] = 0 /\ h[{}] = 0
    BY DEF IsSummation, SumsOn
  <2> QED BY <1>1, <2>1, <2>2
<1>4. ASSUME NEW n \in 1..N, n - 1 \in Q PROVE n \in Q
  <2> SUFFICES ASSUME NEW s \in SUBSET T, Cardinality(s) = n PROVE g[s] = h[s]
    BY <1>1
  <2>1. s # {}
    BY FS_EmptySet
  <2>2. g[s] = f[Chosen(s)] + g[s \ {Chosen(s)}]
    BY <1>b, <2>1 DEF IsSummation, SumsOn
  <2>3. h[s] = f[Chosen(s)] + h[s \ {Chosen(s)}]
    BY <2>1 DEF IsSummation, SumsOn
  <2>4. g[s \ {Chosen(s)}] = h[s \ {Chosen(s)}]
    BY <1>4, <1>a, <2>1
  <2> QED BY <2>2, <2>3, <2>4
<1>5. 0..N \subseteq Q
  <2> HIDE DEF Q
  <2> QED BY <1>1, <1>3, <1>4, UpTo
<1> QED BY <1>2, <1>5

LEMMA SumIsSummation ==
  ASSUME NEW S, IsFiniteSet(S), NEW f
  PROVE  \E it : IsSummation(it, f, S) /\ SumFunctionOnSet(f, S) = it[S]
<1> DEFINE it == CHOOSE i : IsSummation(i, f, S)
<1>1. IsSummation(it, f, S)
  BY SummationExists
<1>2. SumFunctionOnSet(f, S) = it[S]
  BY DEF SumFunctionOnSet, FoldFunctionOnSet, MapThenFoldSet, IsSummation, SumsOn, Chosen
<1> QED BY <1>1, <1>2

LEMMA SumEmpty ==
  ASSUME NEW f
  PROVE  SumFunctionOnSet(f, {}) = 0
BY SumIsSummation, FS_EmptySet DEF IsSummation, SumsOn

(* The sum over a set takes the chosen element first ...                    *)
LEMMA SumChosen ==
  ASSUME NEW S, IsFiniteSet(S), S # {}, NEW f
  PROVE  SumFunctionOnSet(f, S) = f[Chosen(S)] + SumFunctionOnSet(f, S \ {Chosen(S)})
<1> DEFINE T == S \ {Chosen(S)}
<1>1. PICK it : IsSummation(it, f, S) /\ SumFunctionOnSet(f, S) = it[S]
  BY SumIsSummation
<1>2. IsFiniteSet(T)
  BY FS_RemoveElement
<1>3. PICK h : IsSummation(h, f, T) /\ SumFunctionOnSet(f, T) = h[T]
  BY <1>2, SumIsSummation
<1>4. it[T] = h[T]
  <2>1. T \subseteq S /\ T \in SUBSET T
    OBVIOUS
  <2> HIDE DEF T
  <2> QED BY <1>1, <1>3, <2>1, SummationUnique
<1>5. it[S] = f[Chosen(S)] + it[T]
  BY <1>1 DEF IsSummation, SumsOn
<1> QED BY <1>1, <1>3, <1>4, <1>5

LEMMA SumInt ==
  ASSUME NEW S, IsFiniteSet(S), NEW f, \A x \in S : f[x] \in Int
  PROVE  SumFunctionOnSet(f, S) \in Int
<1> DEFINE N == Cardinality(S)
           Q == {n \in 0..N : \A T \in SUBSET S :
                   Cardinality(T) = n => SumFunctionOnSet(f, T) \in Int}
<1>1. N \in Nat
  BY FS_CardinalityType
<1>2. \A T \in SUBSET S : IsFiniteSet(T) /\ Cardinality(T) \in 0..N
  BY FS_Subset, FS_CardinalityType, <1>1
<1> HIDE DEF N
<1>3. 0 \in Q
  BY <1>1, <1>2, FS_EmptySet, SumEmpty
<1>4. ASSUME NEW n \in 1..N, n - 1 \in Q PROVE n \in Q
  <2> SUFFICES ASSUME NEW T \in SUBSET S, Cardinality(T) = n
               PROVE  SumFunctionOnSet(f, T) \in Int
    BY <1>1
  <2>1. T # {} /\ IsFiniteSet(T)
    BY <1>2, FS_EmptySet
  <2>2. Chosen(T) \in T
    BY <2>1, ChosenElement
  <2>3. Cardinality(T \ {Chosen(T)}) = n - 1
    BY <2>1, <2>2, FS_RemoveElement
  <2>4. SumFunctionOnSet(f, T \ {Chosen(T)}) \in Int
    BY <1>4, <2>3
  <2>5. SumFunctionOnSet(f, T) = f[Chosen(T)] + SumFunctionOnSet(f, T \ {Chosen(T)})
    BY <2>1, SumChosen
  <2>6. f[Chosen(T)] \in Int
    BY <2>2
  <2> QED BY <2>4, <2>5, <2>6
<1>5. 0..N \subseteq Q
  <2> HIDE DEF Q
  <2> QED BY <1>1, <1>3, <1>4, UpTo
<1> QED BY <1>2, <1>5

(* ... but any element may be taken first.                                  *)
LEMMA SumElement ==
  ASSUME NEW S, IsFiniteSet(S), NEW f, \A x \in S : f[x] \in Int, NEW e \in S
  PROVE  SumFunctionOnSet(f, S) = f[e] + SumFunctionOnSet(f, S \ {e})
<1> DEFINE N == Cardinality(S)
           Splits(T, x) == SumFunctionOnSet(f, T) = f[x] + SumFunctionOnSet(f, T \ {x})
           Q == {n \in 0..N : \A T \in SUBSET S : Cardinality(T) = n => \A x \in T : Splits(T, x)}
<1>1. N \in Nat
  BY FS_CardinalityType
<1>2. \A T \in SUBSET S : IsFiniteSet(T) /\ Cardinality(T) \in 0..N
  BY FS_Subset, FS_CardinalityType, <1>1
<1> HIDE DEF N
<1>3. 0 \in Q
  BY <1>1, <1>2, FS_EmptySet
<1>4. ASSUME NEW n \in 1..N, n - 1 \in Q PROVE n \in Q
  <2> SUFFICES ASSUME NEW T \in SUBSET S, Cardinality(T) = n, NEW x \in T
               PROVE  Splits(T, x)
    BY <1>1
  <2> DEFINE y == Chosen(T)
             rest == T \ {x, y}
  <2>1. T # {} /\ IsFiniteSet(T) /\ y \in T
    BY <1>2, ChosenElement
  <2>2. SumFunctionOnSet(f, T) = f[y] + SumFunctionOnSet(f, T \ {y})
    BY <2>1, SumChosen
  <2> HIDE DEF y
  <2>3. CASE x = y
    BY <2>2, <2>3
  <2>4. CASE x # y
    <3>1. Cardinality(T \ {y}) = n - 1 /\ Cardinality(T \ {x}) = n - 1
      BY <2>1, FS_RemoveElement
    <3>2. Splits(T \ {y}, x)
      BY <1>4, <2>4, <3>1
    <3>3. Splits(T \ {x}, y)
      BY <1>4, <2>1, <2>4, <3>1
    <3>4. (T \ {y}) \ {x} = rest /\ (T \ {x}) \ {y} = rest
      OBVIOUS
    <3>5. SumFunctionOnSet(f, T \ {y}) = f[x] + SumFunctionOnSet(f, rest)
      BY <3>2, <3>4
    <3>6. SumFunctionOnSet(f, T \ {x}) = f[y] + SumFunctionOnSet(f, rest)
      BY <3>3, <3>4
    <3>7. f[x] \in Int /\ f[y] \in Int /\ SumFunctionOnSet(f, rest) \in Int
      <4>1. \A z \in rest : f[z] \in Int
        OBVIOUS
      <4>2. IsFiniteSet(rest)
        BY <2>1, FS_Subset
      <4> QED BY <2>1, <4>1, <4>2, SumInt
    <3> HIDE DEF rest
    <3> QED BY <2>2, <3>5, <3>6, <3>7
  <2> QED BY <2>3, <2>4
<1>5. 0..N \subseteq Q
  <2> HIDE DEF Q
  <2> QED BY <1>1, <1>3, <1>4, UpTo
<1>6. S \in SUBSET S
  OBVIOUS
<1> HIDE DEF Splits
<1>7. Splits(S, e)
  BY <1>2, <1>5, <1>6
<1> QED BY <1>7 DEF Splits

LEMMA SumAdded ==
  ASSUME NEW S, IsFiniteSet(S), NEW f, NEW e, e \notin S, \A x \in S \cup {e} : f[x] \in Int
  PROVE  SumFunctionOnSet(f, S \cup {e}) = f[e] + SumFunctionOnSet(f, S)
<1>1. IsFiniteSet(S \cup {e}) /\ (S \cup {e}) \ {e} = S
  BY FS_AddElement
<1> QED BY <1>1, SumElement

LEMMA SumNat ==
  ASSUME NEW S, IsFiniteSet(S), NEW f, \A x \in S : f[x] \in Nat
  PROVE  SumFunctionOnSet(f, S) \in Nat
<1> DEFINE P == {T \in SUBSET S : SumFunctionOnSet(f, T) \in Nat}
<1>1. {} \in P
  BY SumEmpty
<1>2. ASSUME NEW T \in SUBSET S, NEW x \in S \ T, T \in P PROVE T \cup {x} \in P
  <2>1. IsFiniteSet(T)
    BY FS_Subset
  <2>2. \A y \in T \cup {x} : f[y] \in Int
    OBVIOUS
  <2>3. SumFunctionOnSet(f, T \cup {x}) = f[x] + SumFunctionOnSet(f, T)
    BY <2>1, <2>2, SumAdded
  <2> QED BY <1>2, <2>3
<1>3. S \in P
  <2> HIDE DEF P
  <2> QED BY <1>1, <1>2, FiniteSubsets
<1> QED BY <1>3

(* A sum grows with its terms.                                              *)
LEMMA SumMonotonic ==
  ASSUME NEW S, IsFiniteSet(S), NEW f, NEW g,
         \A x \in S : f[x] \in Int /\ g[x] \in Int /\ f[x] <= g[x]
  PROVE  SumFunctionOnSet(f, S) <= SumFunctionOnSet(g, S)
<1> DEFINE P == {T \in SUBSET S : SumFunctionOnSet(f, T) <= SumFunctionOnSet(g, T)}
<1>1. {} \in P
  BY SumEmpty
<1>2. ASSUME NEW T \in SUBSET S, NEW x \in S \ T, T \in P PROVE T \cup {x} \in P
  <2>1. IsFiniteSet(T)
    BY FS_Subset
  <2>2. /\ \A y \in T \cup {x} : f[y] \in Int
        /\ \A y \in T \cup {x} : g[y] \in Int
    OBVIOUS
  <2>3. /\ SumFunctionOnSet(f, T \cup {x}) = f[x] + SumFunctionOnSet(f, T)
        /\ SumFunctionOnSet(g, T \cup {x}) = g[x] + SumFunctionOnSet(g, T)
    BY <2>1, <2>2, SumAdded
  <2>4. SumFunctionOnSet(f, T) \in Int /\ SumFunctionOnSet(g, T) \in Int
    BY <2>1, <2>2, SumInt
  <2>5. T \cup {x} \in SUBSET S
    OBVIOUS
  <2> QED BY <1>2, <2>3, <2>4, <2>5
<1>3. S \in P
  <2> HIDE DEF P
  <2> QED BY <1>1, <1>2, FiniteSubsets
<1> QED BY <1>3

LEMMA SumSame ==
  ASSUME NEW S, IsFiniteSet(S), NEW f, NEW g, \A x \in S : f[x] \in Int /\ f[x] = g[x]
  PROVE  SumFunctionOnSet(f, S) = SumFunctionOnSet(g, S)
<1>1. SumFunctionOnSet(f, S) <= SumFunctionOnSet(g, S)
  BY SumMonotonic
<1>2. SumFunctionOnSet(g, S) <= SumFunctionOnSet(f, S)
  BY SumMonotonic
<1>3. SumFunctionOnSet(f, S) \in Int /\ SumFunctionOnSet(g, S) \in Int
  BY SumInt
<1> QED BY <1>1, <1>2, <1>3

LEMMA SumAdd ==
  ASSUME NEW S, IsFiniteSet(S), NEW f, NEW g, NEW h,
         \A x \in S : f[x] \in Int /\ g[x] \in Int /\ h[x] = f[x] + g[x]
  PROVE  SumFunctionOnSet(h, S) = SumFunctionOnSet(f, S) + SumFunctionOnSet(g, S)
<1> DEFINE P == {T \in SUBSET S : SumFunctionOnSet(h, T)
                                    = SumFunctionOnSet(f, T) + SumFunctionOnSet(g, T)}
<1>1. {} \in P
  BY SumEmpty
<1>2. ASSUME NEW T \in SUBSET S, NEW x \in S \ T, T \in P PROVE T \cup {x} \in P
  <2>1. IsFiniteSet(T)
    BY FS_Subset
  <2>2. /\ \A y \in T \cup {x} : f[y] \in Int
        /\ \A y \in T \cup {x} : g[y] \in Int
        /\ \A y \in T \cup {x} : h[y] \in Int
    OBVIOUS
  <2>3. /\ SumFunctionOnSet(f, T \cup {x}) = f[x] + SumFunctionOnSet(f, T)
        /\ SumFunctionOnSet(g, T \cup {x}) = g[x] + SumFunctionOnSet(g, T)
        /\ SumFunctionOnSet(h, T \cup {x}) = h[x] + SumFunctionOnSet(h, T)
    BY <2>1, <2>2, SumAdded
  <2>4. SumFunctionOnSet(f, T) \in Int /\ SumFunctionOnSet(g, T) \in Int
    BY <2>1, <2>2, SumInt
  <2>5. T \cup {x} \in SUBSET S /\ f[x] \in Int /\ g[x] \in Int /\ h[x] = f[x] + g[x]
    OBVIOUS
  <2> QED BY <1>2, <2>3, <2>4, <2>5
<1>3. S \in P
  <2> HIDE DEF P
  <2> QED BY <1>1, <1>2, FiniteSubsets
<1> QED BY <1>3

(* A sum changes by what one of its terms changes.                          *)
LEMMA SumUpdate ==
  ASSUME NEW S, IsFiniteSet(S), NEW f, NEW g, NEW e \in S,
         \A x \in S : f[x] \in Int /\ g[x] \in Int,
         \A x \in S \ {e} : f[x] = g[x]
  PROVE  SumFunctionOnSet(g, S) = SumFunctionOnSet(f, S) + (g[e] - f[e])
<1>1. IsFiniteSet(S \ {e})
  BY FS_RemoveElement
<1>2. SumFunctionOnSet(f, S \ {e}) = SumFunctionOnSet(g, S \ {e})
  BY <1>1, SumSame
<1>3. SumFunctionOnSet(f, S \ {e}) \in Int
  BY <1>1, SumInt
<1>4. /\ SumFunctionOnSet(f, S) = f[e] + SumFunctionOnSet(f, S \ {e})
      /\ SumFunctionOnSet(g, S) = g[e] + SumFunctionOnSet(g, S \ {e})
  BY SumElement
<1> QED BY <1>2, <1>3, <1>4

(* The sum of a function that differs from another at x.                    *)
DifferAt(S, f, g, x) ==
  /\ \A p \in S : f[p] \in Int /\ g[p] \in Int
  /\ \A p \in S \ {x} : f[p] = g[p]

LEMMA SumDiffers ==
  ASSUME NEW S, IsFiniteSet(S), NEW f, NEW g, NEW x \in S, DifferAt(S, f, g, x)
  PROVE  SumFunctionOnSet(g, S) = SumFunctionOnSet(f, S) + (g[x] - f[x])
<1>1. /\ \A p \in S : f[p] \in Int /\ g[p] \in Int
      /\ \A p \in S \ {x} : f[p] = g[p]
  BY DEF DifferAt
<1> QED BY <1>1, SumUpdate

LEMMA SumZero ==
  ASSUME NEW S, IsFiniteSet(S), NEW f, \A x \in S : f[x] = 0
  PROVE  SumFunctionOnSet(f, S) = 0
<1> DEFINE g == [x \in S |-> f[x] + f[x]]
<1>1. SumFunctionOnSet(g, S) = SumFunctionOnSet(f, S) + SumFunctionOnSet(f, S)
  BY SumAdd
<1>2. SumFunctionOnSet(f, S) = SumFunctionOnSet(g, S)
  BY SumSame
<1>3. SumFunctionOnSet(f, S) \in Int
  BY SumInt
<1> HIDE DEF g
<1> QED BY <1>1, <1>2, <1>3, SMTT(20)

(* A term is at most the sum of the terms, none of which is negative.       *)
LEMMA SumBoundsTerm ==
  ASSUME NEW S, IsFiniteSet(S), NEW f, \A x \in S : f[x] \in Nat, NEW e \in S
  PROVE  f[e] <= SumFunctionOnSet(f, S)
<1>1. IsFiniteSet(S \ {e})
  BY FS_RemoveElement
<1>2. SumFunctionOnSet(f, S \ {e}) \in Nat
  BY <1>1, SumNat
<1>3. SumFunctionOnSet(f, S) = f[e] + SumFunctionOnSet(f, S \ {e})
  BY SumElement
<1> QED BY <1>2, <1>3

(* The terms outside a part of the set are 0.                               *)
LEMMA SumPart ==
  ASSUME NEW S, IsFiniteSet(S), NEW R \in SUBSET S, NEW f,
         \A x \in S : f[x] \in Int, \A x \in S \ R : f[x] = 0
  PROVE  SumFunctionOnSet(f, S) = SumFunctionOnSet(f, R)
<1> DEFINE P == {T \in SUBSET S : SumFunctionOnSet(f, T) = SumFunctionOnSet(f, T \cap R)}
<1>1. {} \in P
  BY SumEmpty
<1>2. ASSUME NEW T \in SUBSET S, NEW x \in S \ T, T \in P PROVE T \cup {x} \in P
  <2>1. IsFiniteSet(T) /\ IsFiniteSet(T \cap R)
    BY FS_Subset
  <2>2. /\ \A y \in T \cup {x} : f[y] \in Int
        /\ \A y \in (T \cap R) \cup {x} : f[y] \in Int
    OBVIOUS
  <2>3. SumFunctionOnSet(f, T \cup {x}) = f[x] + SumFunctionOnSet(f, T)
    BY <2>1, <2>2, SumAdded
  <2>4. SumFunctionOnSet(f, T) \in Int /\ T \cup {x} \in SUBSET S
    BY <2>1, <2>2, SumInt
  <2>5. CASE x \in R
    <3>1. (T \cup {x}) \cap R = (T \cap R) \cup {x}
      BY <2>5
    <3>2. SumFunctionOnSet(f, (T \cap R) \cup {x}) = f[x] + SumFunctionOnSet(f, T \cap R)
      <4>1. x \notin T \cap R
        OBVIOUS
      <4> QED BY <2>1, <2>2, <4>1, SumAdded
    <3> QED BY <1>2, <2>3, <2>4, <3>1, <3>2
  <2>6. CASE x \notin R
    <3>1. (T \cup {x}) \cap R = T \cap R
      BY <2>6
    <3>2. f[x] = 0
      BY <2>6
    <3>3. SumFunctionOnSet(f, T \cup {x}) = SumFunctionOnSet(f, T)
      BY <2>3, <2>4, <3>2
    <3>4. SumFunctionOnSet(f, T) = SumFunctionOnSet(f, T \cap R)
      BY <1>2
    <3> QED BY <2>4, <3>1, <3>3, <3>4
  <2> QED BY <2>5, <2>6
<1>3. S \in P
  <2> HIDE DEF P
  <2> QED BY <1>1, <1>2, FiniteSubsets
<1>4. S \cap R = R
  OBVIOUS
<1> QED BY <1>3, <1>4

(* Sums over the terms of a sequence, one more at a time ...                *)
LEMMA SumNext ==
  ASSUME NEW n \in Nat, NEW f, \A i \in 1..(n+1) : f[i] \in Int
  PROVE  SumFunctionOnSet(f, 1..(n+1)) = SumFunctionOnSet(f, 1..n) + f[n+1]
<1>1. IsFiniteSet(1..n)
  BY FS_Interval
<1>2. (n+1) \notin 1..n /\ 1..(n+1) = (1..n) \cup {n+1}
  OBVIOUS
<1>3. SumFunctionOnSet(f, (1..n) \cup {n+1}) = f[n+1] + SumFunctionOnSet(f, 1..n)
  <2>1. \A x \in (1..n) \cup {n+1} : f[x] \in Int
    BY <1>2
  <2> QED BY <1>1, <1>2, <2>1, SumAdded
<1>4. SumFunctionOnSet(f, 1..n) \in Int
  BY <1>1, <1>2, SumInt
<1>5. f[n+1] \in Int
  BY <1>2
<1> DEFINE a == SumFunctionOnSet(f, 1..n)
           b == f[n+1]
<1>6. SumFunctionOnSet(f, 1..(n+1)) = b + a
  BY <1>2, <1>3
<1>7. a \in Int /\ b \in Int
  BY <1>4, <1>5
<1> HIDE DEF a, b
<1>8. b + a = a + b
  BY <1>7
<1> QED BY <1>6, <1>8 DEF a, b

(* ... and with a term inserted after the first k.                          *)
LEMMA SumInserted ==
  ASSUME NEW n \in Nat, NEW k \in 0..n, NEW f, NEW g, NEW x \in Int,
         \A i \in 1..n : f[i] \in Int,
         \A i \in 1..k : g[i] = f[i],
         g[k+1] = x,
         \A i \in (k+1)..n : g[i+1] = f[i]
  PROVE  SumFunctionOnSet(g, 1..(n+1)) = SumFunctionOnSet(f, 1..n) + x
<1> DEFINE P == {j \in 0..(n-k) : SumFunctionOnSet(g, 1..(k+j+1)) = SumFunctionOnSet(f, 1..(k+j)) + x}
<1>1. \A i \in 1..(n+1) : g[i] \in Int
  <2> TAKE i \in 1..(n+1)
  <2>1. CASE i <= k
    BY <2>1
  <2>2. CASE i = k + 1
    BY <2>2
  <2>3. CASE i > k + 1
    <3>1. i - 1 \in (k+1)..n /\ (i - 1) + 1 = i /\ i - 1 \in 1..n
      BY <2>3
    <3>2. g[(i - 1) + 1] = f[i - 1]
      BY <3>1
    <3> QED BY <3>1, <3>2
  <2> QED BY <2>1, <2>2, <2>3
<1>2. 0 \in P
  <2>1. SumFunctionOnSet(g, 1..(k+1)) = SumFunctionOnSet(g, 1..k) + g[k+1]
    BY <1>1, SumNext
  <2>2. SumFunctionOnSet(f, 1..k) = SumFunctionOnSet(g, 1..k)
    <3>1. IsFiniteSet(1..k) /\ \A i \in 1..k : f[i] \in Int /\ f[i] = g[i]
      BY FS_Interval
    <3> QED BY <3>1, SumSame
  <2> QED BY <2>1, <2>2
<1>3. ASSUME NEW j \in 1..(n-k), j - 1 \in P PROVE j \in P
  <2> DEFINE m == k + j
  <2>1. m \in Nat /\ m - 1 \in Nat /\ m \in (k+1)..n /\ k + (j - 1) = m - 1 /\ (m - 1) + 1 = m
    OBVIOUS
  <2> HIDE DEF m
  <2>2. SumFunctionOnSet(g, 1..(m+1)) = SumFunctionOnSet(g, 1..m) + g[m+1]
    BY <1>1, <2>1, SumNext
  <2>3. SumFunctionOnSet(f, 1..m) = SumFunctionOnSet(f, 1..(m-1)) + f[m]
    <3>1. \A i \in 1..((m-1)+1) : f[i] \in Int
      BY <2>1
    <3>2. SumFunctionOnSet(f, 1..((m-1)+1)) = SumFunctionOnSet(f, 1..(m-1)) + f[(m-1)+1]
      BY <2>1, <3>1, SumNext
    <3> QED BY <2>1, <3>2
  <2>4. SumFunctionOnSet(g, 1..m) = SumFunctionOnSet(f, 1..(m-1)) + x
    BY <1>3, <2>1
  <2>5. g[m+1] = f[m] /\ f[m] \in Int
    BY <2>1
  <2>6. SumFunctionOnSet(f, 1..(m-1)) \in Int
    <3>1. IsFiniteSet(1..(m-1)) /\ \A i \in 1..(m-1) : f[i] \in Int
      BY <2>1, FS_Interval
    <3> QED BY <3>1, SumInt
  <2>7. SumFunctionOnSet(g, 1..(m+1)) = SumFunctionOnSet(f, 1..m) + x
    BY <2>2, <2>3, <2>4, <2>5, <2>6
  <2> QED BY <2>7 DEF m
<1>4. n - k \in P
  <2> HIDE DEF P
  <2>1. n - k \in Nat
    OBVIOUS
  <2>2. 0..(n-k) \subseteq P
    BY <1>2, <1>3, <2>1, UpTo
  <2> QED BY <2>1, <2>2
<1>5. k + (n - k) = n
  OBVIOUS
<1> QED BY <1>4, <1>5


(* A set of one element.                                                    *)
LEMMA SumSingle ==
  ASSUME NEW f, NEW e, f[e] \in Int
  PROVE  SumFunctionOnSet(f, {e}) = f[e]
<1>1. IsFiniteSet({}) /\ e \notin {} /\ {} \cup {e} = {e}
  BY FS_EmptySet
<1>2. SumFunctionOnSet(f, {} \cup {e}) = f[e] + SumFunctionOnSet(f, {})
  BY <1>1, SumAdded
<1> QED BY <1>1, <1>2, SumEmpty

(* What the terms of each key sum up to.                                    *)
PartsBy(f, key, K, T) == [k \in K |-> SumFunctionOnSet(f, {x \in T : key[x] = k})]

LEMMA PartsAreInt ==
  ASSUME NEW T, IsFiniteSet(T), NEW K, NEW f, NEW key, \A x \in T : f[x] \in Int
  PROVE  \A k \in K : PartsBy(f, key, K, T)[k] \in Int
<1> SUFFICES ASSUME NEW k \in K PROVE PartsBy(f, key, K, T)[k] \in Int
  OBVIOUS
<1> DEFINE R == {x \in T : key[x] = k}
<1>1. IsFiniteSet(R)
  BY FS_Subset
<1>2. \A x \in R : f[x] \in Int
  OBVIOUS
<1> HIDE DEF R
<1>3. SumFunctionOnSet(f, R) \in Int
  BY <1>1, <1>2, SumInt
<1> QED BY <1>3 DEF PartsBy, R

(* The parts add up to the whole.                                           *)
LEMMA SumByKey ==
  ASSUME NEW S, IsFiniteSet(S), NEW K, IsFiniteSet(K), NEW f, NEW key,
         \A x \in S : f[x] \in Int /\ key[x] \in K
  PROVE  SumFunctionOnSet(PartsBy(f, key, K, S), K) = SumFunctionOnSet(f, S)
<1> DEFINE P == {T \in SUBSET S :
                   SumFunctionOnSet(PartsBy(f, key, K, T), K) = SumFunctionOnSet(f, T)}
<1>1. {} \in P
  <2>1. \A k \in K : PartsBy(f, key, K, {})[k] = 0
    <3> TAKE k \in K
    <3>1. {x \in {} : key[x] = k} = {}
      OBVIOUS
    <3> QED BY <3>1, SumEmpty DEF PartsBy
  <2>2. SumFunctionOnSet(PartsBy(f, key, K, {}), K) = 0
    BY <2>1, SumZero
  <2> QED BY <2>2, SumEmpty
<1>2. ASSUME NEW T \in SUBSET S, NEW x \in S \ T, T \in P
      PROVE  T \cup {x} \in P
  <2> DEFINE U == T \cup {x}
             old == PartsBy(f, key, K, T)
             new == PartsBy(f, key, K, U)
             e == key[x]
             R == {y \in T : key[y] = e}
  <2>1. /\ IsFiniteSet(T) /\ IsFiniteSet(U) /\ IsFiniteSet(R) /\ U \in SUBSET S
        /\ e \in K /\ f[x] \in Int
    BY FS_Subset
  <2>2. \A y \in U : f[y] \in Int
    BY <2>1
  <2>3. \A k \in K : old[k] \in Int /\ new[k] \in Int
    BY <2>1, <2>2, PartsAreInt
  <2>4. \A k \in K \ {e} : old[k] = new[k]
    <3> TAKE k \in K \ {e}
    <3>1. {y \in U : key[y] = k} = {y \in T : key[y] = k}
      OBVIOUS
    <3> QED BY <3>1 DEF PartsBy
  <2>5. new[e] = f[x] + old[e]
    <3>1. {y \in U : key[y] = e} = R \cup {x} /\ x \notin R
      OBVIOUS
    <3>2. \A y \in R \cup {x} : f[y] \in Int
      OBVIOUS
    <3> HIDE DEF R
    <3>3. SumFunctionOnSet(f, R \cup {x}) = f[x] + SumFunctionOnSet(f, R)
      BY <2>1, <3>1, <3>2, SumAdded
    <3> QED BY <2>1, <3>1, <3>3 DEF PartsBy, R
  <2> HIDE DEF old, new, e
  <2>6. SumFunctionOnSet(new, K) = SumFunctionOnSet(old, K) + (new[e] - old[e])
    BY <2>1, <2>3, <2>4, SumUpdate
  <2>7. SumFunctionOnSet(f, U) = f[x] + SumFunctionOnSet(f, T)
    BY <2>1, <2>2, SumAdded
  <2>8. SumFunctionOnSet(f, T) \in Int
    BY <2>1, <2>2, SumInt
  <2>9. SumFunctionOnSet(old, K) = SumFunctionOnSet(f, T)
    BY <1>2 DEF old
  <2> DEFINE sold == SumFunctionOnSet(old, K)
             snew == SumFunctionOnSet(new, K)
             sum == SumFunctionOnSet(f, U)
             o == old[e]
             n == new[e]
             t == f[x]
  <2>10. /\ sold \in Int /\ o \in Int /\ n \in Int /\ t \in Int
         /\ n = t + o /\ snew = sold + (n - o) /\ sum = t + sold
    BY <2>1, <2>3, <2>5, <2>6, <2>7, <2>8, <2>9
  <2> HIDE DEF sold, snew, sum, o, n, t
  <2>11. snew = sum
    BY <2>10
  <2> QED BY <2>1, <2>11 DEF snew, sum, new
<1> HIDE DEF P
<1>3. SUBSET S \subseteq P
  BY <1>1, <1>2, FiniteSubsets
<1> QED BY <1>3 DEF P

(* A sum may be taken in any order.                                         *)
LEMMA SumBijection ==
  ASSUME NEW S, IsFiniteSet(S), NEW T, IsFiniteSet(T), NEW b \in [T -> S],
         \A s \in S : \E x \in T : b[x] = s,
         \A x, y \in T : b[x] = b[y] => x = y,
         NEW f, NEW g, \A s \in S : f[s] \in Int,
         \A x \in T : g[x] = f[b[x]]
  PROVE  SumFunctionOnSet(g, T) = SumFunctionOnSet(f, S)
<1>1. \A x \in T : g[x] \in Int /\ b[x] \in S
  OBVIOUS
<1>2. SumFunctionOnSet(PartsBy(g, b, S, T), S) = SumFunctionOnSet(g, T)
  BY <1>1, SumByKey
<1>3. ASSUME NEW s \in S PROVE PartsBy(g, b, S, T)[s] = f[s]
  <2>1. PICK x \in T : b[x] = s
    OBVIOUS
  <2>2. {y \in T : b[y] = s} = {x}
    BY <2>1
  <2>3. SumFunctionOnSet(g, {x}) = g[x]
    BY <1>1, SumSingle
  <2> QED BY <2>1, <2>2, <2>3 DEF PartsBy
<1>4. SumFunctionOnSet(PartsBy(g, b, S, T), S) = SumFunctionOnSet(f, S)
  BY <1>3, SumSame
<1> QED BY <1>2, <1>4

-----------------------------------------------------------------------------
(* Finite sets in an order *)

(* The order R of a set, as the pairs it relates.                           *)
StrictOrder(R, S) ==
  /\ \A x, y \in S : x # y => <<x, y>> \in R \/ <<y, x>> \in R
  /\ \A x, y \in S : <<x, y>> \in R => <<y, x>> \notin R
  /\ \A x, y, z \in S : <<x, y>> \in R /\ <<y, z>> \in R => <<x, z>> \in R

Below(R, S, x) == {y \in S : <<y, x>> \in R}
Rank(R, S, x) == Cardinality(Below(R, S, x))

(* In an ordered finite set each rank is that of one element.               *)
LEMMA Ranks ==
  ASSUME NEW S, IsFiniteSet(S), NEW R, StrictOrder(R, S)
  PROVE  /\ Cardinality(S) \in Nat
         /\ \A x \in S : Rank(R, S, x) \in 0..(Cardinality(S) - 1)
         /\ \A x, y \in S : <<x, y>> \in R <=> Rank(R, S, x) < Rank(R, S, y)
         /\ \A x, y \in S : Rank(R, S, x) = Rank(R, S, y) => x = y
         /\ \A n \in 0..(Cardinality(S) - 1) : \E x \in S : Rank(R, S, x) = n
<1> DEFINE N == Cardinality(S)
           f == [x \in S |-> Rank(R, S, x)]
<1>1. N \in Nat
  BY FS_CardinalityType
<1>2. ASSUME NEW x \in S
      PROVE  /\ IsFiniteSet(Below(R, S, x)) /\ Rank(R, S, x) \in Nat /\ Rank(R, S, x) < N
             /\ x \notin Below(R, S, x)
  <2>1. x \notin Below(R, S, x)
    BY DEF Below, StrictOrder
  <2>2. Below(R, S, x) \in SUBSET (S \ {x})
    BY <2>1 DEF Below
  <2>3. IsFiniteSet(S \ {x}) /\ Cardinality(S \ {x}) = N - 1
    BY FS_RemoveElement
  <2>4. IsFiniteSet(Below(R, S, x)) /\ Cardinality(Below(R, S, x)) <= N - 1
    BY <2>2, <2>3, FS_Subset
  <2>5. Cardinality(Below(R, S, x)) \in Nat
    BY <2>4, FS_CardinalityType
  <2> HIDE DEF N
  <2> QED BY <1>1, <2>1, <2>4, <2>5 DEF Rank
<1>3. ASSUME NEW x \in S, NEW y \in S, <<x, y>> \in R
      PROVE  Rank(R, S, x) < Rank(R, S, y)
  <2>1. Below(R, S, x) \cup {x} \in SUBSET Below(R, S, y)
    BY <1>3 DEF Below, StrictOrder
  <2>2. Cardinality(Below(R, S, x) \cup {x}) = Rank(R, S, x) + 1
    BY <1>2, FS_AddElement DEF Rank
  <2>3. Cardinality(Below(R, S, x) \cup {x}) <= Rank(R, S, y)
    BY <1>2, <2>1, FS_Subset DEF Rank
  <2>4. Rank(R, S, x) \in Nat /\ Rank(R, S, y) \in Nat
    BY <1>2
  <2> QED BY <2>2, <2>3, <2>4
<1>4. ASSUME NEW x \in S, NEW y \in S PROVE <<x, y>> \in R <=> Rank(R, S, x) < Rank(R, S, y)
  <2>1. Rank(R, S, x) \in Nat /\ Rank(R, S, y) \in Nat
    BY <1>2
  <2>2. x = y => <<x, y>> \notin R
    BY DEF StrictOrder
  <2>3. x # y => <<x, y>> \in R \/ <<y, x>> \in R
    BY DEF StrictOrder
  <2> QED BY <1>3, <2>1, <2>2, <2>3
<1>5. ASSUME NEW x \in S, NEW y \in S, Rank(R, S, x) = Rank(R, S, y) PROVE x = y
  <2>1. x # y => <<x, y>> \in R \/ <<y, x>> \in R
    BY DEF StrictOrder
  <2>2. Rank(R, S, x) \in Nat /\ Rank(R, S, y) \in Nat
    BY <1>2
  <2> QED BY <1>3, <1>5, <2>1, <2>2
<1>6. f \in Injection(S, 0..(N-1))
  <2>1. f \in [S -> 0..(N-1)]
    BY <1>1, <1>2
  <2> HIDE DEF N
  <2> QED BY <1>5, <2>1 DEF Injection, IsInjective
<1>7. IsFiniteSet(0..(N-1)) /\ Cardinality(0..(N-1)) = N
  <2> HIDE DEF N
  <2> QED BY <1>1, FS_Interval
<1>8. f \in Surjection(S, 0..(N-1))
  BY <1>6, <1>7, FS_Injection
<1>9. ASSUME NEW n \in 0..(N-1) PROVE \E x \in S : Rank(R, S, x) = n
  BY <1>8 DEF Surjection
<1> QED BY <1>1, <1>2, <1>4, <1>5, <1>9

(* The list of a set in the order R, and what makes a list be that list.    *)
IsListing(t, R, S) ==
  /\ t \in Seq(S)
  /\ \A i, j \in 1..Len(t) : i < j => <<t[i], t[j]>> \in R
  /\ \A x \in S : \E i \in 1..Len(t) : t[i] = x

LEMMA ListingExists ==
  ASSUME NEW S, IsFiniteSet(S), NEW R, StrictOrder(R, S),
         NEW t, t = [n \in 1..Cardinality(S) |-> t[n]],
         \A n \in 1..Cardinality(S) : t[n] \in S /\ Rank(R, S, t[n]) = n - 1
  PROVE  IsListing(t, R, S) /\ Len(t) = Cardinality(S)
<1> DEFINE N == Cardinality(S)
<1>1. N \in Nat
  BY Ranks
<1> HIDE DEF N
<1>2. t \in [1..N -> S]
  <2>1. t = [n \in 1..N |-> t[n]] /\ \A n \in 1..N : t[n] \in S
    BY DEF N
  <2> QED BY <2>1
<1>3. t \in Seq(S) /\ Len(t) = N
  <2>1. t \in Seq(S)
    BY <1>1, <1>2, SeqDef, ZenonT(20)
  <2>2. DOMAIN t = 1..Len(t) /\ Len(t) \in Nat
    BY <2>1, LenProperties
  <2>3. DOMAIN t = 1..N
    BY <1>2
  <2>4. Len(t) = N
    <3> DEFINE m == Len(t)
    <3>1. m \in Nat /\ 1..m = 1..N
      BY <2>2, <2>3
    <3> HIDE DEF m
    <3> SUFFICES m = N
      BY DEF m
    <3>2. /\ N \in 1..N \/ N = 0
          /\ m \in 1..m \/ m = 0
      BY <1>1, <3>1
    <3> QED BY <1>1, <3>1, <3>2
  <2> QED BY <2>1, <2>4
<1>4. ASSUME NEW i \in 1..N, NEW j \in 1..N, i < j PROVE <<t[i], t[j]>> \in R
  <2>1. /\ t[i] \in S /\ t[j] \in S
        /\ Rank(R, S, t[i]) = i - 1 /\ Rank(R, S, t[j]) = j - 1
    BY DEF N
  <2>2. Rank(R, S, t[i]) < Rank(R, S, t[j])
    BY <1>4, <2>1
  <2> QED BY <2>1, <2>2, Ranks
<1>5. ASSUME NEW x \in S PROVE \E i \in 1..N : t[i] = x
  <2>1. Rank(R, S, x) \in 0..(N-1)
    BY Ranks DEF N
  <2> DEFINE i == Rank(R, S, x) + 1
  <2>2. i \in 1..N /\ i - 1 = Rank(R, S, x)
    BY <1>1, <2>1
  <2>3. t[i] \in S /\ Rank(R, S, t[i]) = i - 1
    BY <2>2 DEF N
  <2>4. t[i] = x
    <3> HIDE DEF i
    <3> QED BY <2>2, <2>3, Ranks
  <2> QED BY <2>2, <2>4
<1> QED BY <1>3, <1>4, <1>5 DEF IsListing, N

LEMMA ListingRanks ==
  ASSUME NEW S, IsFiniteSet(S), NEW R, StrictOrder(R, S), NEW t, IsListing(t, R, S)
  PROVE  /\ Len(t) = Cardinality(S)
         /\ \A n \in 1..Len(t) : t[n] \in S /\ Rank(R, S, t[n]) = n - 1
<1> DEFINE N == Len(t)
<1>1. /\ N \in Nat /\ t \in [1..N -> S]
  BY DEF IsListing
<1> HIDE DEF N
<1>2. ASSUME NEW i \in 1..N, NEW j \in 1..N PROVE i < j <=> <<t[i], t[j]>> \in R
  <2>1. t[i] \in S /\ t[j] \in S
    BY <1>1
  <2>2. /\ i < j => <<t[i], t[j]>> \in R
        /\ j < i => <<t[j], t[i]>> \in R
    BY DEF IsListing, N
  <2>3. i \in Int /\ j \in Int /\ (i < j \/ j < i \/ i = j)
    BY <1>1
  <2> QED BY <2>1, <2>2, <2>3 DEF StrictOrder
<1>3. ASSUME NEW i \in 1..N, NEW j \in 1..N, t[i] = t[j] PROVE i = j
  <2>1. t[i] \in S /\ <<t[i], t[i]>> \notin R
    BY <1>1 DEF StrictOrder
  <2>2. ~ (i < j) /\ ~ (j < i)
    BY <1>2, <1>3, <2>1
  <2> QED BY <1>1, <2>2
<1>4. ASSUME NEW n \in 0..N PROVE Cardinality({t[i] : i \in 1..n}) = n
  <2> DEFINE f == [i \in 1..n |-> t[i]]
             T == {t[i] : i \in 1..n}
  <2>1. 1..n \subseteq 1..N /\ n \in Nat
    BY <1>1
  <2>2. f \in Bijection(1..n, T)
    <3>1. f \in [1..n -> T]
      OBVIOUS
    <3>2. \A i, j \in 1..n : f[i] = f[j] => i = j
      BY <1>3, <2>1
    <3>3. \A y \in T : \E i \in 1..n : f[i] = y
      OBVIOUS
    <3> HIDE DEF f, T
    <3> QED BY <3>1, <3>2, <3>3 DEF Bijection, Injection, Surjection, IsInjective
  <2>3. ExistsBijection(1..n, T)
    BY <2>2 DEF ExistsBijection
  <2>4. IsFiniteSet(1..n) /\ Cardinality(1..n) = n
    BY <2>1, FS_Interval
  <2> HIDE DEF T
  <2>5. Cardinality(T) = n
    BY <2>3, <2>4, FS_Bijection
  <2> QED BY <2>5 DEF T
<1>5. S = {t[i] : i \in 1..N}
  BY <1>1 DEF IsListing, N
<1>6. ASSUME NEW n \in 1..N PROVE Rank(R, S, t[n]) = n - 1
  <2>1. n - 1 \in 0..N /\ 1..(n-1) = {i \in 1..N : i < n}
    BY <1>1
  <2>2. Below(R, S, t[n]) = {t[i] : i \in 1..(n-1)}
    BY <1>2, <1>5, <2>1 DEF Below
  <2> QED BY <1>4, <2>1, <2>2 DEF Rank
<1>7. N \in 0..N
  BY <1>1
<1>8. Cardinality(S) = N
  BY <1>4, <1>5, <1>7
<1>9. \A n \in 1..N : t[n] \in S
  BY <1>1
<1> QED BY <1>6, <1>8, <1>9 DEF N

LEMMA ListingUnique ==
  ASSUME NEW S, IsFiniteSet(S), NEW R, StrictOrder(R, S),
         NEW s, IsListing(s, R, S), NEW t, IsListing(t, R, S)
  PROVE  s = t
<1> DEFINE N == Cardinality(S)
<1>1. /\ Len(s) = N /\ Len(t) = N
      /\ \A n \in 1..N : /\ s[n] \in S /\ Rank(R, S, s[n]) = n - 1
                        /\ t[n] \in S /\ Rank(R, S, t[n]) = n - 1
  <2>1. Len(s) = N /\ \A n \in 1..Len(s) : s[n] \in S /\ Rank(R, S, s[n]) = n - 1
    BY ListingRanks
  <2>2. Len(t) = N /\ \A n \in 1..Len(t) : t[n] \in S /\ Rank(R, S, t[n]) = n - 1
    BY ListingRanks
  <2> QED BY <2>1, <2>2
<1>2. \A n \in 1..N : s[n] = t[n]
  BY <1>1, Ranks
<1>3. s \in Seq(S) /\ t \in Seq(S)
  BY DEF IsListing
<1> HIDE DEF N
<1> QED BY <1>1, <1>2, <1>3
=============================================================================
