------------------------------ MODULE Sums_proofs ------------------------------
(***************************************************************************)
(* What the modules that add use of SumFunctionOnSet (module Functions):   *)
(* the values f[x] of a finite set of x, in whatever order they are added. *)
(*                                                                         *)
(* The library's induction theorems take an operator as a parameter, which *)
(* no prover at hand can instantiate.  Its minimality theorem takes a set: *)
(* a set of subsets that is not empty has a smallest one.  So each lemma   *)
(* collects the subsets for which it fails and shows that none of them is  *)
(* smallest.                                                               *)
(***************************************************************************)
EXTENDS FiniteSetTheorems, Sequences, TLAPS

LEMMA SmallestSubset ==
  ASSUME NEW S, IsFiniteSet(S), NEW Bad \in SUBSET SUBSET S, Bad # {}
  PROVE  \E T \in Bad : \A U \in SUBSET T : U # T => U \notin Bad
<1>1. \E T \in Bad : \A U \in Bad : <<U, T>> \notin StrictSubsetOrdering(S)
  BY FS_FiniteSubsetsOfFinite, FS_StrictSubsetOrderingWellFounded, WFMin
<1>2. \A T, U \in SUBSET S : U \subseteq T /\ U # T => <<U, T>> \in StrictSubsetOrdering(S)
  BY DEF StrictSubsetOrdering
<1> QED
  BY <1>1, <1>2

-----------------------------------------------------------------------------
(* The sum as its definition computes it: any element first. *)

Pick(S) == CHOOSE x \in S : TRUE

LEMMA PickInSet == ASSUME NEW S, S # {} PROVE Pick(S) \in S
BY DEF Pick

\* A sum is the value, at S, of a function that adds up the subsets of S.
AddsUp(sum, f, S) ==
  sum = [T \in SUBSET S |-> IF T = {} THEN 0 ELSE f[Pick(T)] + sum[T \ {Pick(T)}]]

LEMMA SumIsChosen ==
  ASSUME NEW f, NEW S
  PROVE  SumFunctionOnSet(f, S) = (CHOOSE sum : AddsUp(sum, f, S))[S]
BY DEF SumFunctionOnSet, FoldFunctionOnSet, MapThenFoldSet, AddsUp, Pick

\* What that function has to be.
PickFirst(f, S) == IF S = {} THEN 0 ELSE f[Pick(S)] + SumFunctionOnSet(f, S \ {Pick(S)})

LEMMA SumPicksFirst ==
  ASSUME NEW f, NEW S, IsFiniteSet(S)
  PROVE  SumFunctionOnSet(f, S) = PickFirst(f, S)
<1> DEFINE Bad == {T \in SUBSET S : SumFunctionOnSet(f, T) # PickFirst(f, T)}
<1>1. ASSUME NEW T \in Bad, \A U \in SUBSET T : U # T => U \notin Bad
      PROVE  FALSE
  <2> DEFINE given == [U \in SUBSET T |-> PickFirst(f, U)]
  <2>1. \A U \in SUBSET T : U # T => given[U] = SumFunctionOnSet(f, U)
    BY <1>1
  <2>2. \A U \in SUBSET T : U # {} =>
          U \ {Pick(U)} \in SUBSET T /\ U \ {Pick(U)} # T
    BY PickInSet
  <2>3. AddsUp(given, f, T)
    <3>1. \A U \in SUBSET T : U # {} => given[U \ {Pick(U)}] = SumFunctionOnSet(f, U \ {Pick(U)})
      BY <2>1, <2>2
    <3>2. \A U \in SUBSET T : PickFirst(f, U) = IF U = {} THEN 0 ELSE f[Pick(U)] + given[U \ {Pick(U)}]
      BY <3>1 DEF PickFirst
    <3> HIDE DEF given
    <3>3. given = [U \in SUBSET T |-> PickFirst(f, U)]
      BY DEF given
    <3> QED
      BY <3>2, <3>3 DEF AddsUp
  <2>4. ASSUME NEW sum, AddsUp(sum, f, T)
        PROVE  sum = given
    <3> DEFINE Differ == {U \in SUBSET T : sum[U] # given[U]}
    <3>1. ASSUME NEW U \in Differ, \A V \in SUBSET U : V # U => V \notin Differ
          PROVE  FALSE
      <4>1. CASE U = {}
        BY <3>1, <4>1, <2>3, <2>4 DEF AddsUp
      <4>2. CASE U # {}
        <5>1. U \ {Pick(U)} \in SUBSET T /\ U \ {Pick(U)} \in SUBSET U /\ U \ {Pick(U)} # U
          BY <4>2, PickInSet
        <5>2. sum[U \ {Pick(U)}] = given[U \ {Pick(U)}]
          BY <3>1, <5>1
        <5> HIDE DEF given
        <5>3. sum[U] = f[Pick(U)] + sum[U \ {Pick(U)}] /\ given[U] = f[Pick(U)] + given[U \ {Pick(U)}]
          BY <4>2, <2>3, <2>4 DEF AddsUp
        <5> QED
          BY <3>1, <5>2, <5>3
      <4> QED
        BY <4>1, <4>2
    <3>2. IsFiniteSet(T)
      BY FS_Subset
    <3>3. Differ \in SUBSET SUBSET T
      OBVIOUS
    <3> HIDE DEF given, Differ
    <3>4. Differ = {}
      BY <3>1, <3>2, <3>3, SmallestSubset
    <3>5. \A U \in SUBSET T : sum[U] = given[U]
      BY <3>4 DEF Differ
    <3>6. sum = [U \in SUBSET T |-> sum[U]] /\ given = [U \in SUBSET T |-> given[U]]
      BY <2>3, <2>4 DEF AddsUp
    <3> QED
      BY <3>5, <3>6
  <2> HIDE DEF given
  <2>5. (CHOOSE sum : AddsUp(sum, f, T)) = given
    BY <2>3, <2>4
  <2>6. SumFunctionOnSet(f, T) = given[T]
    BY <2>5, SumIsChosen
  <2> QED
    BY <1>1, <2>6 DEF given
<1> HIDE DEF Bad
<1>2. Bad \in SUBSET SUBSET S
  BY DEF Bad
<1>3. Bad = {}
  BY <1>1, <1>2, SmallestSubset
<1> QED
  BY <1>3 DEF Bad

LEMMA SumOfNothing == ASSUME NEW f PROVE SumFunctionOnSet(f, {}) = 0
BY SumPicksFirst, FS_EmptySet DEF PickFirst

\* A sum stays in any set of integers that is closed under addition.
LEMMA SumClosed ==
  ASSUME NEW f, NEW S, IsFiniteSet(S), NEW G, 0 \in G, \A i, j \in G : i + j \in G,
         \A x \in S : f[x] \in G
  PROVE  SumFunctionOnSet(f, S) \in G
<1> DEFINE Bad == {T \in SUBSET S : SumFunctionOnSet(f, T) \notin G}
<1>1. ASSUME NEW T \in Bad, \A U \in SUBSET T : U # T => U \notin Bad
      PROVE  FALSE
  <2>1. SumFunctionOnSet(f, T) = PickFirst(f, T)
    BY FS_Subset, SumPicksFirst
  <2>2. T # {}
    BY <2>1, <1>1 DEF PickFirst
  <2>3. Pick(T) \in T /\ SumFunctionOnSet(f, T \ {Pick(T)}) \in G
    BY <1>1, <2>2, PickInSet
  <2> QED
    BY <1>1, <2>1, <2>2, <2>3 DEF PickFirst
<1>2. Bad \in SUBSET SUBSET S
  OBVIOUS
<1> HIDE DEF Bad
<1>3. Bad = {}
  BY <1>1, <1>2, SmallestSubset
<1> QED
  BY <1>3 DEF Bad

LEMMA SumType ==
  ASSUME NEW f, NEW S, IsFiniteSet(S), \A x \in S : f[x] \in Int
  PROVE  SumFunctionOnSet(f, S) \in Int
BY SumClosed

LEMMA SumOfNaturals ==
  ASSUME NEW f, NEW S, IsFiniteSet(S), \A x \in S : f[x] \in Nat
  PROVE  SumFunctionOnSet(f, S) \in Nat
<1>1. 0 \in Nat /\ \A i, j \in Nat : i + j \in Nat
  OBVIOUS
<1> QED
  BY <1>1, SumClosed, Zenon

\* Any element may be added first: addition commutes.
LEMMA SumRemove ==
  ASSUME NEW f, NEW S, IsFiniteSet(S), \A x \in S : f[x] \in Int, NEW a \in S
  PROVE  SumFunctionOnSet(f, S) = f[a] + SumFunctionOnSet(f, S \ {a})
<1> DEFINE Bad == {T \in SUBSET S : \E x \in T :
                     SumFunctionOnSet(f, T) # f[x] + SumFunctionOnSet(f, T \ {x})}
<1>1. ASSUME NEW T \in Bad, \A U \in SUBSET T : U # T => U \notin Bad
      PROVE  FALSE
  <2>1. PICK x \in T : SumFunctionOnSet(f, T) # f[x] + SumFunctionOnSet(f, T \ {x})
    BY <1>1
  <2> DEFINE y == Pick(T)
  <2>2. y \in T /\ SumFunctionOnSet(f, T) = f[y] + SumFunctionOnSet(f, T \ {y})
    BY <2>1, PickInSet, FS_Subset, SumPicksFirst DEF PickFirst
  <2> HIDE DEF y
  <2>3. x # y
    BY <2>1, <2>2
  <2>4. SumFunctionOnSet(f, T \ {y}) = f[x] + SumFunctionOnSet(f, (T \ {y}) \ {x})
    <3>1. T \ {y} \in SUBSET T /\ T \ {y} # T /\ x \in T \ {y}
      BY <2>2, <2>3
    <3> QED
      BY <1>1, <3>1
  <2>5. SumFunctionOnSet(f, T \ {x}) = f[y] + SumFunctionOnSet(f, (T \ {x}) \ {y})
    <3>1. T \ {x} \in SUBSET T /\ T \ {x} # T /\ y \in T \ {x}
      BY <2>2, <2>3
    <3> QED
      BY <1>1, <3>1
  <2>6. (T \ {x}) \ {y} = (T \ {y}) \ {x}
    OBVIOUS
  <2>7. f[x] \in Int /\ f[y] \in Int /\ SumFunctionOnSet(f, (T \ {y}) \ {x}) \in Int
    <3>1. IsFiniteSet((T \ {y}) \ {x}) /\ \A z \in (T \ {y}) \ {x} : f[z] \in Int
      BY FS_Subset
    <3> QED
      BY <2>2, <3>1, SumType
  <2>8. SumFunctionOnSet(f, T) = f[y] + (f[x] + SumFunctionOnSet(f, (T \ {y}) \ {x}))
    BY <2>2, <2>4
  <2>9. SumFunctionOnSet(f, T \ {x}) = f[y] + SumFunctionOnSet(f, (T \ {y}) \ {x})
    BY <2>5, <2>6
  <2> QED
    BY <2>1, <2>7, <2>8, <2>9
<1>2. Bad \in SUBSET SUBSET S
  OBVIOUS
<1> HIDE DEF Bad
<1>3. Bad = {}
  BY <1>1, <1>2, SmallestSubset
<1> QED
  BY <1>3 DEF Bad

LEMMA SumAdd ==
  ASSUME NEW f, NEW S, IsFiniteSet(S), \A x \in S : f[x] \in Int, NEW a, a \notin S, f[a] \in Int
  PROVE  SumFunctionOnSet(f, S \cup {a}) = SumFunctionOnSet(f, S) + f[a]
<1>1. IsFiniteSet(S \cup {a}) /\ (S \cup {a}) \ {a} = S
  BY FS_AddElement
<1>2. SumFunctionOnSet(f, S \cup {a}) = f[a] + SumFunctionOnSet(f, S)
  BY <1>1, SumRemove
<1> QED
  BY <1>2, SumType

(***************************************************************************)
(* Two sums, term by term: no term of the second is more than c above that *)
(* of the first, so the sum is not more than c per element above.          *)
(***************************************************************************)
LEMMA SumAtMost ==
  ASSUME NEW f, NEW g, NEW S, IsFiniteSet(S), NEW c \in Nat,
         \A x \in S : f[x] \in Int /\ g[x] \in Int /\ g[x] <= f[x] + c
  PROVE  SumFunctionOnSet(g, S) <= SumFunctionOnSet(f, S) + c * Cardinality(S)
<1> DEFINE Within(T) == SumFunctionOnSet(g, T) <= SumFunctionOnSet(f, T) + c * Cardinality(T)
           Bad == {T \in SUBSET S : ~Within(T)}
<1>1. ASSUME NEW T \in Bad, \A U \in SUBSET T : U # T => U \notin Bad
      PROVE  FALSE
  <2>1. IsFiniteSet(T) /\ Cardinality(T) \in Nat
    BY FS_Subset, FS_CardinalityType
  <2>2. CASE T = {}
    <3>1. Cardinality(T) = 0 /\ c * 0 = 0
      BY <2>2, FS_EmptySet
    <3> QED
      BY <1>1, <2>2, <3>1, SumOfNothing
  <2>3. CASE T # {}
    <3>1. PICK x \in T : TRUE
      BY <2>3
    <3> DEFINE U == T \ {x}
    <3>2. U \in SUBSET T /\ U # T /\ IsFiniteSet(U) /\ Cardinality(U) = Cardinality(T) - 1
      BY <3>1, <2>1, FS_RemoveElement
    <3>3. Within(U)
      BY <1>1, <3>2
    <3>4. /\ SumFunctionOnSet(f, T) = f[x] + SumFunctionOnSet(f, U)
          /\ SumFunctionOnSet(g, T) = g[x] + SumFunctionOnSet(g, U)
      BY <2>1, SumRemove
    <3>5. /\ SumFunctionOnSet(f, U) \in Int /\ SumFunctionOnSet(g, U) \in Int
          /\ f[x] \in Int /\ g[x] \in Int /\ g[x] <= f[x] + c
      BY <3>2, SumType
    <3>6. c * Cardinality(U) + c = c * Cardinality(T)
      BY <2>1, <3>2
    <3> HIDE DEF U
    <3>7. c * Cardinality(U) \in Int
      BY <2>1, <3>2
    <3>8. Within(T)
      BY <3>3, <3>4, <3>5, <3>6, <3>7
    <3> QED
      BY <1>1, <3>8
  <2> QED
    BY <2>2, <2>3
<1>2. Bad \in SUBSET SUBSET S
  OBVIOUS
<1> HIDE DEF Bad
<1>3. Bad = {}
  BY <1>1, <1>2, SmallestSubset
<1> QED
  BY <1>3 DEF Bad

LEMMA SumAgree ==
  ASSUME NEW f, NEW g, NEW S, IsFiniteSet(S), \A x \in S : f[x] \in Int /\ g[x] = f[x]
  PROVE  SumFunctionOnSet(g, S) = SumFunctionOnSet(f, S)
<1>1. /\ SumFunctionOnSet(f, S) \in Int /\ SumFunctionOnSet(g, S) \in Int
      /\ \A x \in S : f[x] \in Int /\ g[x] \in Int /\ f[x] <= g[x] + 0 /\ g[x] <= f[x] + 0
  BY SumType
<1>2. /\ SumFunctionOnSet(f, S) <= SumFunctionOnSet(g, S) + 0 * Cardinality(S)
      /\ SumFunctionOnSet(g, S) <= SumFunctionOnSet(f, S) + 0 * Cardinality(S)
  BY <1>1, SumAtMost
<1>3. Cardinality(S) \in Nat
  BY FS_CardinalityType
<1> QED
  BY <1>1, <1>2, <1>3

\* One term is another.
LEMMA SumOfChanged ==
  ASSUME NEW f, NEW g, NEW S, IsFiniteSet(S), NEW a \in S, g[a] \in Int,
         \A x \in S : f[x] \in Int, \A x \in S \ {a} : g[x] = f[x]
  PROVE  /\ SumFunctionOnSet(g, S) = SumFunctionOnSet(f, S) - f[a] + g[a]
         /\ SumFunctionOnSet(f, S) \in Int
<1> DEFINE T == S \ {a}
<1>1. IsFiniteSet(T) /\ \A x \in T : f[x] \in Int /\ g[x] = f[x]
  BY FS_Subset
<1>2. \A x \in S : g[x] \in Int
  OBVIOUS
<1>3. /\ SumFunctionOnSet(f, S) = f[a] + SumFunctionOnSet(f, T)
      /\ SumFunctionOnSet(g, S) = g[a] + SumFunctionOnSet(g, T)
  BY <1>2, SumRemove
<1> HIDE DEF T
<1>4. SumFunctionOnSet(g, T) = SumFunctionOnSet(f, T) /\ SumFunctionOnSet(f, T) \in Int
  BY <1>1, SumAgree, SumType
<1> QED
  BY <1>3, <1>4

-----------------------------------------------------------------------------
(* Sums over the whole domain of a function, a sequence in particular. *)

LEMMA SumOfLonger ==
  ASSUME NEW f, NEW g, NEW S, IsFiniteSet(S), DOMAIN f = S, NEW a, a \notin S, DOMAIN g = S \cup {a},
         \A x \in S : f[x] \in Int /\ g[x] = f[x], g[a] \in Int
  PROVE  SumFunction(g) = SumFunction(f) + g[a]
<1>1. SumFunctionOnSet(g, S \cup {a}) = SumFunctionOnSet(g, S) + g[a]
  BY SumAdd
<1>2. SumFunctionOnSet(g, S) = SumFunctionOnSet(f, S)
  BY SumAgree
<1> QED
  BY <1>1, <1>2 DEF SumFunction

LEMMA SumOfEmptySequence == SumFunction(<<>>) = 0
BY SumOfNothing DEF SumFunction

LEMMA SumOfSequence ==
  ASSUME NEW s \in Seq(Nat)
  PROVE  SumFunction(s) \in Nat
<1>1. IsFiniteSet(DOMAIN s) /\ \A i \in DOMAIN s : s[i] \in Nat
  BY FS_Interval
<1> QED
  BY <1>1, SumOfNaturals DEF SumFunction

LEMMA SumOfAppend ==
  ASSUME NEW s \in Seq(Nat), NEW a \in Nat
  PROVE  SumFunction(Append(s, a)) = SumFunction(s) + a
<1> DEFINE t == Append(s, a)  D == 1..Len(s)  k == Len(s) + 1
<1>1. /\ DOMAIN s = D /\ DOMAIN t = D \cup {k} /\ k \notin D
      /\ \A i \in D : s[i] \in Int /\ t[i] = s[i]
      /\ t[k] = a /\ a \in Int
  OBVIOUS
<1>2. IsFiniteSet(D)
  BY FS_Interval
<1> HIDE DEF t, D, k
<1>3. SumFunction(t) = SumFunction(s) + a
  BY <1>1, <1>2, SumOfLonger
<1> QED
  BY <1>3 DEF t
=============================================================================
