----------------------------- MODULE FiniteSums -----------------------------
(***************************************************************************)
(* Facts about SumFunctionOnSet(f, S), the community modules' sum of f     *)
(* over a finite set S.  RiskD writes every total of the account with it:  *)
(* the sums over self._positions.values() in trading/riskd.py.             *)
(*                                                                         *)
(* SumFunctionOnSet removes elements in an order that CHOOSE fixes.  The   *)
(* lemmas show that the order does not matter, by induction on finite sets *)
(* (SubsetInduction).                                                      *)
(***************************************************************************)
EXTENDS Integers, FiniteSets, Functions, FiniteSetTheorems, TLAPS

(* The element a fold over s takes out first. *)
Pick(s) == CHOOSE x \in s : TRUE

(* g is a sum of f on every subset of S. *)
IsRunningSum(g, f, S) ==
  g = [s \in SUBSET S |-> IF s = {} THEN 0 ELSE f[Pick(s)] + g[s \ {Pick(s)}]]

(***************************************************************************)
(* The sum over S is the value at S of the running sum the fold defines:   *)
(* the form in which the totals of RiskD are reasoned about.               *)
(***************************************************************************)
LEMMA SumIsRunningSum ==
  ASSUME NEW f, NEW S
  PROVE  SumFunctionOnSet(f, S) = (CHOOSE g : IsRunningSum(g, f, S))[S]
BY DEF SumFunctionOnSet, FoldFunctionOnSet, MapThenFoldSet, IsRunningSum, Pick

(***************************************************************************)
(* Induction on the subsets of a finite set, the set Good standing for the *)
(* predicate: the induction behind every fact about a total of RiskD.      *)
(***************************************************************************)
LEMMA SubsetInduction ==
  ASSUME NEW S, IsFiniteSet(S), NEW Good,
         \A T \in SUBSET S : (\A U \in SUBSET T : U # T => U \in Good) => T \in Good
  PROVE  \A T \in SUBSET S : T \in Good
<1> DEFINE Bad == {T \in SUBSET S : T \notin Good}
<1> SUFFICES ASSUME Bad # {} PROVE FALSE
  OBVIOUS
<1>1. IsWellFoundedOn(StrictSubsetOrdering(S), FiniteSubsetsOf(S))
  BY FS_StrictSubsetOrderingWellFounded
<1>2. FiniteSubsetsOf(S) = SUBSET S
  BY FS_FiniteSubsetsOfFinite
<1>3. PICK T \in Bad : \A U \in Bad : ~ (<<U, T>> \in StrictSubsetOrdering(S))
  <2> HIDE DEF Bad
  <2>1. Bad \subseteq SUBSET S
    BY DEF Bad
  <2> QED
    BY <1>1, <1>2, <2>1, WFMin
<1>4. \A U \in SUBSET T : U # T => U \in Good
  BY <1>3 DEF StrictSubsetOrdering
<1> QED
  BY <1>3, <1>4

(***************************************************************************)
(* The element the fold removes from a non-empty set is in the set.        *)
(***************************************************************************)
LEMMA PickIn == ASSUME NEW s, s # {} PROVE Pick(s) \in s
BY DEF Pick

(***************************************************************************)
(* One step of a running sum, the recursion behind a total of RiskD.       *)
(***************************************************************************)
LEMMA RunningSumUnfold ==
  ASSUME NEW f, NEW S, NEW g, IsRunningSum(g, f, S), NEW s \in SUBSET S
  PROVE  g[s] = IF s = {} THEN 0 ELSE f[Pick(s)] + g[s \ {Pick(s)}]
BY DEF IsRunningSum

(***************************************************************************)
(* Two running sums of the same function agree where both are defined, so  *)
(* the totals of two sets of positions can be compared.                    *)
(***************************************************************************)
LEMMA RunningSumUnique ==
  ASSUME NEW f, NEW U, NEW V, NEW g, NEW h,
         IsRunningSum(g, f, U), IsRunningSum(h, f, V),
         NEW W \in SUBSET U, W \subseteq V, IsFiniteSet(W)
  PROVE  g[W] = h[W]
<1> DEFINE Good == {T \in SUBSET W : g[T] = h[T]}
<1>1. ASSUME NEW T \in SUBSET W, \A X \in SUBSET T : X # T => X \in Good
      PROVE  T \in Good
  <2>1. CASE T = {}
    BY <2>1, RunningSumUnfold
  <2>2. CASE T # {}
    <3>1. Pick(T) \in T
      BY <2>2, PickIn
    <3>2. g[T \ {Pick(T)}] = h[T \ {Pick(T)}]
      BY <3>1, <1>1
    <3> QED
      BY <2>2, <3>2, RunningSumUnfold
  <2> QED
    BY <2>1, <2>2
<1> HIDE DEF Good
<1>2. W \in Good
  BY <1>1, SubsetInduction
<1> QED
  BY <1>2 DEF Good

(***************************************************************************)
(* A running sum exists on every finite set, so a total of RiskD is well   *)
(* defined.                                                                *)
(***************************************************************************)
LEMMA RunningSumExists ==
  ASSUME NEW f, NEW S, IsFiniteSet(S)
  PROVE  \E g : IsRunningSum(g, f, S)
<1> DEFINE Good == {T \in SUBSET S : \E g : IsRunningSum(g, f, T)}
<1>1. ASSUME NEW T \in SUBSET S, \A U \in SUBSET T : U # T => U \in Good
      PROVE  T \in Good
  <2> DEFINE Partial(U) == CHOOSE g : IsRunningSum(g, f, U)
             Glued == [s \in SUBSET T |->
                        IF s = {} THEN 0
                        ELSE f[Pick(s)] + Partial(s \ {Pick(s)})[s \ {Pick(s)}]]
  <2>1. \A U \in SUBSET T : U # T => IsRunningSum(Partial(U), f, U)
    BY <1>1
  <2>2. ASSUME NEW s \in SUBSET T, s # {}
        PROVE  Glued[s \ {Pick(s)}] = Partial(s \ {Pick(s)})[s \ {Pick(s)}]
    <3> DEFINE r == s \ {Pick(s)}
    <3>1. r \in SUBSET T /\ r # T
      BY <2>2, PickIn
    <3>2. IsRunningSum(Partial(r), f, r)
      BY <2>1, <3>1
    <3> HIDE DEF Partial
    <3>3. CASE r = {}
      <4>1. Partial(r)[r] = 0
        BY <3>2, <3>3, RunningSumUnfold
      <4> QED
        BY <3>1, <3>3, <4>1
    <3>4. CASE r # {}
      <4> DEFINE q == r \ {Pick(r)}
      <4>1. q \in SUBSET r /\ q # T /\ q \in SUBSET T
        BY <3>1, <3>4, PickIn
      <4>2. IsRunningSum(Partial(q), f, q)
        BY <2>1, <4>1
      <4>3. IsFiniteSet(q)
        BY <4>1, <3>1, FS_Subset
      <4>4. Partial(r)[q] = Partial(q)[q]
        BY <3>2, <4>1, <4>2, <4>3, RunningSumUnique
      <4>5. Partial(r)[r] = f[Pick(r)] + Partial(r)[q]
        <5> HIDE DEF r
        <5>1. r \in SUBSET r
          OBVIOUS
        <5> QED
          BY <3>2, <3>4, <5>1, RunningSumUnfold
      <4>6. Glued[r] = f[Pick(r)] + Partial(q)[q]
        BY <3>1, <3>4
      <4> QED
        BY <4>4, <4>5, <4>6
    <3> QED
      BY <3>3, <3>4
  <2>3. IsRunningSum(Glued, f, T)
    <3> HIDE DEF Partial
    <3> QED
      BY <2>2 DEF IsRunningSum
  <2> QED
    BY <2>3
<1> HIDE DEF Good
<1>2. S \in Good
  BY <1>1, SubsetInduction
<1> QED
  BY <1>2 DEF Good

(***************************************************************************)
(* A sum is the picked element plus the sum over the rest.                 *)
(***************************************************************************)
LEMMA SumUnfold ==
  ASSUME NEW f, NEW S, IsFiniteSet(S)
  PROVE  SumFunctionOnSet(f, S) =
           IF S = {} THEN 0
           ELSE f[Pick(S)] + SumFunctionOnSet(f, S \ {Pick(S)})
<1> DEFINE RS(U) == CHOOSE g : IsRunningSum(g, f, U)
           r == S \ {Pick(S)}
<1>1. IsRunningSum(RS(S), f, S)
  BY RunningSumExists
<1>2. IsFiniteSet(r)
  BY FS_Subset
<1>3. IsRunningSum(RS(r), f, r)
  BY <1>2, RunningSumExists
<1>4. SumFunctionOnSet(f, S) = RS(S)[S] /\ SumFunctionOnSet(f, r) = RS(r)[r]
  BY SumIsRunningSum
<1> HIDE DEF RS
<1>5. RS(S)[r] = RS(r)[r]
  BY <1>1, <1>2, <1>3, RunningSumUnique
<1>6. RS(S)[S] = IF S = {} THEN 0 ELSE f[Pick(S)] + RS(S)[r]
  BY <1>1, RunningSumUnfold
<1> QED
  BY <1>4, <1>5, <1>6

(***************************************************************************)
(* A portfolio without symbols has total 0.                                *)
(***************************************************************************)
THEOREM SumOfEmpty == ASSUME NEW f PROVE SumFunctionOnSet(f, {}) = 0
BY SumUnfold, FS_EmptySet

(***************************************************************************)
(* A total of integers is an integer: P&L and exposures in RiskD are       *)
(* numbers.                                                                *)
(***************************************************************************)
THEOREM SumType ==
  ASSUME NEW f, NEW S, IsFiniteSet(S), \A x \in S : f[x] \in Int
  PROVE  SumFunctionOnSet(f, S) \in Int
<1> DEFINE Good == {T \in SUBSET S : SumFunctionOnSet(f, T) \in Int}
<1>1. ASSUME NEW T \in SUBSET S, \A U \in SUBSET T : U # T => U \in Good
      PROVE  T \in Good
  <2>1. IsFiniteSet(T)
    BY FS_Subset
  <2>2. CASE T = {}
    BY <2>2, SumOfEmpty
  <2>3. CASE T # {}
    <3>1. Pick(T) \in T
      BY <2>3, PickIn
    <3>2. SumFunctionOnSet(f, T \ {Pick(T)}) \in Int
      BY <1>1, <3>1
    <3> QED
      BY <2>1, <2>3, <3>1, <3>2, SumUnfold
  <2> QED
    BY <2>2, <2>3
<1> HIDE DEF Good
<1>2. S \in Good
  BY <1>1, SubsetInduction
<1> QED
  BY <1>2 DEF Good

(***************************************************************************)
(* Any one element, not only the one the fold picks, can be taken out of a *)
(* sum: how one symbol contributes to the exposures in evaluate().         *)
(***************************************************************************)
THEOREM SumRemove ==
  ASSUME NEW f, NEW S, IsFiniteSet(S), \A x \in S : f[x] \in Int, NEW a \in S
  PROVE  SumFunctionOnSet(f, S) = f[a] + SumFunctionOnSet(f, S \ {a})
<1> DEFINE Good == {T \in SUBSET S : \A x \in T :
                      SumFunctionOnSet(f, T) = f[x] + SumFunctionOnSet(f, T \ {x})}
<1>1. ASSUME NEW T \in SUBSET S, \A U \in SUBSET T : U # T => U \in Good
      PROVE  T \in Good
  <2> SUFFICES ASSUME NEW x \in T
               PROVE  SumFunctionOnSet(f, T) = f[x] + SumFunctionOnSet(f, T \ {x})
    OBVIOUS
  <2> DEFINE p == Pick(T)
  <2>0. IsFiniteSet(T) /\ IsFiniteSet(T \ {x}) /\ IsFiniteSet(T \ {p}) /\ IsFiniteSet((T \ {x}) \ {p})
    BY FS_Subset
  <2>1. p \in T
    BY PickIn
  <2>2. SumFunctionOnSet(f, T) = f[p] + SumFunctionOnSet(f, T \ {p})
    BY <2>0, SumUnfold
  <2>3. CASE p = x
    BY <2>2, <2>3
  <2>4. CASE p # x
    <3> DEFINE rest == SumFunctionOnSet(f, (T \ {x}) \ {p})
    <3>1. (T \ {p}) \ {x} = (T \ {x}) \ {p}
      OBVIOUS
    <3>2. SumFunctionOnSet(f, T \ {p}) = f[x] + rest
      BY <1>1, <2>1, <2>4, <3>1
    <3>3. SumFunctionOnSet(f, T \ {x}) = f[p] + rest
      BY <1>1, <2>1, <2>4
    <3>4. rest \in Int
      BY <2>0, SumType
    <3>5. f[p] \in Int /\ f[x] \in Int
      BY <2>1
    <3>6. SumFunctionOnSet(f, T) = f[p] + (f[x] + rest)
      BY <2>2, <3>2
    <3> HIDE DEF rest, p
    <3> QED
      BY <3>3, <3>4, <3>5, <3>6
  <2> QED
    BY <2>3, <2>4
<1> HIDE DEF Good
<1>2. S \in Good
  BY <1>1, SubsetInduction
<1> QED
  BY <1>2 DEF Good

(***************************************************************************)
(* A sum depends only on the values on the set, as a total of RiskD        *)
(* depends only on the positions it adds up.                               *)
(***************************************************************************)
THEOREM SumCongruence ==
  ASSUME NEW f, NEW g, NEW S, IsFiniteSet(S), \A x \in S : f[x] = g[x]
  PROVE  SumFunctionOnSet(f, S) = SumFunctionOnSet(g, S)
<1> DEFINE Good == {T \in SUBSET S : SumFunctionOnSet(f, T) = SumFunctionOnSet(g, T)}
<1>1. ASSUME NEW T \in SUBSET S, \A U \in SUBSET T : U # T => U \in Good
      PROVE  T \in Good
  <2>1. IsFiniteSet(T)
    BY FS_Subset
  <2>2. CASE T = {}
    BY <2>2, SumOfEmpty
  <2>3. CASE T # {}
    <3>1. Pick(T) \in T
      BY <2>3, PickIn
    <3>2. SumFunctionOnSet(f, T \ {Pick(T)}) = SumFunctionOnSet(g, T \ {Pick(T)})
      BY <1>1, <3>1
    <3>3. f[Pick(T)] = g[Pick(T)]
      BY <3>1
    <3> QED
      BY <2>1, <2>3, <3>2, <3>3, SumUnfold
  <2> QED
    BY <2>2, <2>3
<1> HIDE DEF Good
<1>2. S \in Good
  BY <1>1, SubsetInduction
<1> QED
  BY <1>2 DEF Good

(***************************************************************************)
(* A sum of zeros is zero: an account without positions has no unrealized  *)
(* P&L and no exposure.                                                    *)
(***************************************************************************)
THEOREM SumOfZeros ==
  ASSUME NEW f, NEW S, IsFiniteSet(S), \A x \in S : f[x] = 0
  PROVE  SumFunctionOnSet(f, S) = 0
<1> DEFINE Good == {T \in SUBSET S : SumFunctionOnSet(f, T) = 0}
<1>1. ASSUME NEW T \in SUBSET S, \A U \in SUBSET T : U # T => U \in Good
      PROVE  T \in Good
  <2>1. IsFiniteSet(T)
    BY FS_Subset
  <2>2. CASE T = {}
    BY <2>2, SumOfEmpty
  <2>3. CASE T # {}
    <3>1. Pick(T) \in T
      BY <2>3, PickIn
    <3>2. SumFunctionOnSet(f, T \ {Pick(T)}) = 0
      BY <1>1, <3>1
    <3> QED
      BY <2>1, <2>3, <3>1, <3>2, SumUnfold
  <2> QED
    BY <2>2, <2>3
<1> HIDE DEF Good
<1>2. S \in Good
  BY <1>1, SubsetInduction
<1> QED
  BY <1>2 DEF Good

(***************************************************************************)
(* Changing the value at one element changes the sum by the difference:    *)
(* what booking one order does to the gross, group and net exposures       *)
(* evaluate() projects.                                                    *)
(***************************************************************************)
THEOREM SumPointUpdate ==
  ASSUME NEW f, NEW g, NEW S, IsFiniteSet(S),
         \A x \in S : f[x] \in Int /\ g[x] \in Int,
         NEW a \in S, \A x \in S \ {a} : f[x] = g[x]
  PROVE  SumFunctionOnSet(g, S) = SumFunctionOnSet(f, S) - f[a] + g[a]
<1>1. IsFiniteSet(S \ {a})
  BY FS_Subset
<1>2. SumFunctionOnSet(f, S \ {a}) = SumFunctionOnSet(g, S \ {a})
  BY <1>1, SumCongruence
<1>3. SumFunctionOnSet(f, S) = f[a] + SumFunctionOnSet(f, S \ {a})
  BY SumRemove
<1>4. SumFunctionOnSet(g, S) = g[a] + SumFunctionOnSet(g, S \ {a})
  BY SumRemove
<1>5. SumFunctionOnSet(f, S \ {a}) \in Int
  BY <1>1, SumType
<1> QED
  BY <1>2, <1>3, <1>4, <1>5
=============================================================================
