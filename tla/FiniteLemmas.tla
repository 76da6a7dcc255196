---------------------------- MODULE FiniteLemmas ----------------------------
(***************************************************************************)
(* Facts about sums and maxima over finite sets: SumFunctionOnSet(f, S) of *)
(* the community module Functions, the sum of f[x] for the x of S, and Max *)
(* and Min of FiniteSetsExt.  They are proved by induction on the subsets  *)
(* of a finite set, in the form that every set of them has a smallest one. *)
(***************************************************************************)
EXTENDS Integers, FiniteSetsExt, FiniteSetTheorems, WellFoundedInduction, TLAPS

\* Every set of subsets of a finite set has a member that includes no other.
LEMMA SmallestSet ==
  ASSUME NEW S, IsFiniteSet(S), NEW D \in SUBSET SUBSET S, D # {}
  PROVE  \E T \in D : \A U \in D : U \subseteq T => U = T
<1>1. IsWellFoundedOn(StrictSubsetOrdering(S), SUBSET S)
  BY FS_StrictSubsetOrderingWellFounded, FS_FiniteSubsetsOfFinite
<1>2. \E T \in D : \A U \in D : ~ (<<U, T>> \in StrictSubsetOrdering(S))
  BY <1>1, WFMin
<1> QED
  BY <1>2 DEF StrictSubsetOrdering

-----------------------------------------------------------------------------
(* The recursive function                                                  *)

Pick(s) == CHOOSE x \in s : TRUE

IsSum(g, f, S) ==
  g = [s \in SUBSET S |-> IF s = {} THEN 0 ELSE f[Pick(s)] + g[s \ {Pick(s)}]]

TheSum(f, S) == CHOOSE g : IsSum(g, f, S)

LEMMA SumIsTheSum ==
  ASSUME NEW f, NEW S
  PROVE  SumFunctionOnSet(f, S) = TheSum(f, S)[S]
BY DEF SumFunctionOnSet, FoldFunctionOnSet, MapThenFoldSet, TheSum, IsSum, Pick

LEMMA PickIsElement ==
  ASSUME NEW s, s # {}
  PROVE  Pick(s) \in s
BY DEF Pick

\* Two solutions of the recursive equation agree where both are defined.
LEMMA SumIsUnique ==
  ASSUME NEW S, IsFiniteSet(S), NEW T \in SUBSET S, NEW U \in SUBSET S,
         NEW f, NEW g, NEW h, IsSum(g, f, T), IsSum(h, f, U)
  PROVE  \A s \in SUBSET (T \cap U) : g[s] = h[s]
<1> DEFINE D == {s \in SUBSET (T \cap U) : g[s] # h[s]}
<1> SUFFICES ASSUME D # {} PROVE FALSE
  OBVIOUS
<1>1. D \in SUBSET SUBSET S
  OBVIOUS
<1> HIDE DEF D
<1>2. PICK s \in D : \A u \in D : u \subseteq s => u = s
  BY <1>1, SmallestSet
<1> USE DEF D
<1>3. \A t \in SUBSET T : g[t] = IF t = {} THEN 0 ELSE f[Pick(t)] + g[t \ {Pick(t)}]
  BY DEF IsSum
<1>4. \A t \in SUBSET U : h[t] = IF t = {} THEN 0 ELSE f[Pick(t)] + h[t \ {Pick(t)}]
  BY DEF IsSum
<1>5. s # {}
  BY <1>3, <1>4
<1>6. s \ {Pick(s)} \notin D
  BY <1>2, <1>5, PickIsElement
<1>7. g[s \ {Pick(s)}] = h[s \ {Pick(s)}]
  BY <1>6
<1> QED
  BY <1>3, <1>4, <1>5, <1>7

\* The recursive equation has a solution.
LEMMA SumExists ==
  ASSUME NEW S, IsFiniteSet(S), NEW f
  PROVE  \A T \in SUBSET S : \E g : IsSum(g, f, T)
<1> DEFINE D == {T \in SUBSET S : ~ \E g : IsSum(g, f, T)}
<1> SUFFICES ASSUME D # {} PROVE FALSE
  OBVIOUS
<1>0. D \in SUBSET SUBSET S
  OBVIOUS
<1> HIDE DEF D
<1>1. PICK T \in D : \A U \in D : U \subseteq T => U = T
  BY <1>0, SmallestSet
<1> USE DEF D
<1>2. \A U \in SUBSET T : U # T => IsSum(TheSum(f, U), f, U)
  BY <1>1 DEF TheSum
<1> DEFINE h == [s \in SUBSET T |->
                   IF s = {} THEN 0 ELSE f[Pick(s)] + TheSum(f, s \ {Pick(s)})[s \ {Pick(s)}]]
<1>3. \A s \in SUBSET T : s # T => h[s] = TheSum(f, s)[s]
  <2> SUFFICES ASSUME NEW s \in SUBSET T, s # T PROVE h[s] = TheSum(f, s)[s]
    OBVIOUS
  <2>1. IsSum(TheSum(f, s), f, s)
    BY <1>2
  <2>2. TheSum(f, s)[s] = IF s = {} THEN 0 ELSE f[Pick(s)] + TheSum(f, s)[s \ {Pick(s)}]
    BY <2>1 DEF IsSum
  <2>3. CASE s = {}
    BY <2>2, <2>3
  <2>4. CASE s # {}
    <3> DEFINE r == s \ {Pick(s)}
    <3>1. r \in SUBSET T /\ r # T /\ r \subseteq s
      BY <2>4, PickIsElement
    <3>2. IsSum(TheSum(f, r), f, r)
      BY <1>2, <3>1
    <3>3. TheSum(f, r)[r] = TheSum(f, s)[r]
      BY <2>1, <3>1, <3>2, SumIsUnique
    <3> QED
      BY <2>2, <2>4, <3>3
  <2> QED BY <2>3, <2>4
<1>4. IsSum(h, f, T)
  <2>1. \A s \in SUBSET T : s # {} => TheSum(f, s \ {Pick(s)})[s \ {Pick(s)}] = h[s \ {Pick(s)}]
    BY <1>3, PickIsElement
  <2>2. \A s \in SUBSET T : h[s] = IF s = {} THEN 0 ELSE f[Pick(s)] + h[s \ {Pick(s)}]
    BY <2>1
  <2> QED BY <2>2 DEF IsSum
<1> QED
  BY <1>4

-----------------------------------------------------------------------------
(* What the sum is                                                         *)

LEMMA SumOfNothing ==
  ASSUME NEW f
  PROVE  SumFunctionOnSet(f, {}) = 0
<1>1. IsSum(TheSum(f, {}), f, {})
  BY FS_EmptySet, SumExists DEF TheSum
<1> QED
  BY <1>1, SumIsTheSum DEF IsSum

LEMMA SumUnfolded ==
  ASSUME NEW S, IsFiniteSet(S), S # {}, NEW f
  PROVE  SumFunctionOnSet(f, S) = f[Pick(S)] + SumFunctionOnSet(f, S \ {Pick(S)})
<1> DEFINE R == S \ {Pick(S)}
<1>1. IsSum(TheSum(f, S), f, S) /\ IsSum(TheSum(f, R), f, R)
  BY SumExists DEF TheSum
<1>2. TheSum(f, S)[S] = f[Pick(S)] + TheSum(f, S)[R]
  BY <1>1 DEF IsSum
<1>3. TheSum(f, S)[R] = TheSum(f, R)[R]
  BY <1>1, SumIsUnique
<1> QED
  BY <1>2, <1>3, SumIsTheSum

LEMMA SumType ==
  ASSUME NEW S, IsFiniteSet(S), NEW f, \A x \in S : f[x] \in Int
  PROVE  SumFunctionOnSet(f, S) \in Int
<1> DEFINE D == {T \in SUBSET S : SumFunctionOnSet(f, T) \notin Int}
<1> SUFFICES ASSUME D # {} PROVE FALSE
  OBVIOUS
<1>0. D \in SUBSET SUBSET S
  OBVIOUS
<1> HIDE DEF D
<1>1. PICK T \in D : \A U \in D : U \subseteq T => U = T
  BY <1>0, SmallestSet
<1> USE DEF D
<1>2. IsFiniteSet(T)
  BY FS_Subset
<1>3. T # {}
  BY SumOfNothing
<1>4. Pick(T) \in T
  BY <1>3, PickIsElement
<1>5. SumFunctionOnSet(f, T \ {Pick(T)}) \in Int
  BY <1>1, <1>4
<1>6. SumFunctionOnSet(f, T) = f[Pick(T)] + SumFunctionOnSet(f, T \ {Pick(T)})
  BY <1>2, <1>3, SumUnfolded
<1> QED
  BY <1>4, <1>5, <1>6

\* Any element may be taken out.
LEMMA SumElement ==
  ASSUME NEW S, IsFiniteSet(S), NEW f, \A x \in S : f[x] \in Int, NEW e \in S
  PROVE  SumFunctionOnSet(f, S) = f[e] + SumFunctionOnSet(f, S \ {e})
<1> DEFINE Sum(T) == SumFunctionOnSet(f, T)
           D == {T \in SUBSET S : \E x \in T : Sum(T) # f[x] + Sum(T \ {x})}
<1> SUFFICES ASSUME D # {} PROVE FALSE
  OBVIOUS
<1>0. D \in SUBSET SUBSET S
  OBVIOUS
<1> HIDE DEF D
<1>1. PICK T \in D : \A U \in D : U \subseteq T => U = T
  BY <1>0, SmallestSet
<1> USE DEF D
<1>2. PICK x \in T : Sum(T) # f[x] + Sum(T \ {x})
  OBVIOUS
<1> DEFINE p == Pick(T)
<1>3. p \in T
  BY PickIsElement
<1>4. \A U \in SUBSET T : Sum(U) \in Int
  <2> SUFFICES ASSUME NEW U \in SUBSET T PROVE Sum(U) \in Int
    OBVIOUS
  <2>1. IsFiniteSet(U)
    BY FS_Subset
  <2> QED BY <2>1, SumType
<1>5. Sum(T) = f[p] + Sum(T \ {p})
  <2>1. IsFiniteSet(T)
    BY FS_Subset
  <2> QED BY <2>1, <1>3, SumUnfolded
<1>6. x # p
  BY <1>2, <1>5
<1>7. \A U \in SUBSET T : U # T => \A y \in U : Sum(U) = f[y] + Sum(U \ {y})
  BY <1>1
<1>8. Sum(T \ {p}) = f[x] + Sum((T \ {p}) \ {x})
  BY <1>3, <1>6, <1>7
<1>9. Sum(T \ {x}) = f[p] + Sum((T \ {x}) \ {p})
  BY <1>3, <1>6, <1>7
<1>10. (T \ {p}) \ {x} = (T \ {x}) \ {p}
  OBVIOUS
<1>11. Sum((T \ {x}) \ {p}) \in Int /\ f[x] \in Int /\ f[p] \in Int
  BY <1>3, <1>4
<1> HIDE DEF Sum, p, D
<1> DEFINE rest == Sum((T \ {x}) \ {p})
<1>12. Sum(T) = f[p] + (f[x] + rest)
  BY <1>5, <1>8, <1>10
<1>13. f[x] + Sum(T \ {x}) = f[x] + (f[p] + rest)
  BY <1>9
<1>14. f[p] + (f[x] + rest) = f[x] + (f[p] + rest)
  <2> HIDE DEF rest
  <2>1. rest \in Int
    BY <1>11 DEF rest
  <2> QED BY <2>1, <1>11
<1> QED
  BY <1>2, <1>12, <1>13, <1>14

\* The sum depends on the values in the set only.
LEMMA SumOfEquals ==
  ASSUME NEW S, IsFiniteSet(S), NEW f, NEW g, \A x \in S : f[x] = g[x]
  PROVE  SumFunctionOnSet(f, S) = SumFunctionOnSet(g, S)
<1> DEFINE D == {T \in SUBSET S : SumFunctionOnSet(f, T) # SumFunctionOnSet(g, T)}
<1> SUFFICES ASSUME D # {} PROVE FALSE
  OBVIOUS
<1>0. D \in SUBSET SUBSET S
  OBVIOUS
<1> HIDE DEF D
<1>1. PICK T \in D : \A U \in D : U \subseteq T => U = T
  BY <1>0, SmallestSet
<1> USE DEF D
<1>2. IsFiniteSet(T)
  BY FS_Subset
<1>3. T # {}
  BY SumOfNothing
<1>4. Pick(T) \in T
  BY <1>3, PickIsElement
<1>5. SumFunctionOnSet(f, T \ {Pick(T)}) = SumFunctionOnSet(g, T \ {Pick(T)})
  BY <1>1, <1>4
<1>6. /\ SumFunctionOnSet(f, T) = f[Pick(T)] + SumFunctionOnSet(f, T \ {Pick(T)})
      /\ SumFunctionOnSet(g, T) = g[Pick(T)] + SumFunctionOnSet(g, T \ {Pick(T)})
  BY <1>2, <1>3, SumUnfolded
<1> QED
  BY <1>4, <1>5, <1>6

\* One value changes.
LEMMA SumChanged ==
  ASSUME NEW S, IsFiniteSet(S), NEW f, NEW g, NEW e \in S,
         \A x \in S : f[x] \in Int, g[e] \in Int, \A x \in S \ {e} : g[x] = f[x]
  PROVE  SumFunctionOnSet(g, S) = SumFunctionOnSet(f, S) + (g[e] - f[e])
<1>1. IsFiniteSet(S \ {e})
  BY FS_Subset
<1>2. SumFunctionOnSet(g, S \ {e}) = SumFunctionOnSet(f, S \ {e})
  BY <1>1, SumOfEquals
<1>3. SumFunctionOnSet(f, S \ {e}) \in Int
  BY <1>1, SumType
<1>4. SumFunctionOnSet(f, S) = f[e] + SumFunctionOnSet(f, S \ {e})
  BY SumElement
<1>5. SumFunctionOnSet(g, S) = g[e] + SumFunctionOnSet(g, S \ {e})
  BY SumElement
<1> QED
  BY <1>2, <1>3, <1>4, <1>5

\* The case of an entry that grows by d.
LEMMA SumGrows ==
  ASSUME NEW S, IsFiniteSet(S), NEW f, NEW g, NEW e \in S, NEW d \in Int,
         \A x \in S : f[x] \in Int, g[e] = f[e] + d, \A x \in S \ {e} : g[x] = f[x]
  PROVE  SumFunctionOnSet(g, S) = SumFunctionOnSet(f, S) + d
<1>1. f[e] \in Int /\ g[e] \in Int
  OBVIOUS
<1>2. SumFunctionOnSet(g, S) = SumFunctionOnSet(f, S) + (g[e] - f[e])
  BY <1>1, SumChanged
<1>3. SumFunctionOnSet(f, S) \in Int
  BY SumType
<1> QED
  BY <1>1, <1>2, <1>3

LEMMA SumOfNaturals ==
  ASSUME NEW S, IsFiniteSet(S), NEW f, \A x \in S : f[x] \in Nat
  PROVE  SumFunctionOnSet(f, S) \in Nat
<1> DEFINE D == {T \in SUBSET S : SumFunctionOnSet(f, T) \notin Nat}
<1> SUFFICES ASSUME D # {} PROVE FALSE
  OBVIOUS
<1>0. D \in SUBSET SUBSET S
  OBVIOUS
<1> HIDE DEF D
<1>1. PICK T \in D : \A U \in D : U \subseteq T => U = T
  BY <1>0, SmallestSet
<1> USE DEF D
<1>2. IsFiniteSet(T)
  BY FS_Subset
<1>3. T # {}
  BY SumOfNothing
<1>4. Pick(T) \in T
  BY <1>3, PickIsElement
<1>5. SumFunctionOnSet(f, T \ {Pick(T)}) \in Nat
  BY <1>1, <1>4
<1>6. SumFunctionOnSet(f, T) = f[Pick(T)] + SumFunctionOnSet(f, T \ {Pick(T)})
  BY <1>2, <1>3, SumUnfolded
<1> QED
  BY <1>4, <1>5, <1>6

\* No summand is more than the sum.
LEMMA SummandIsBounded ==
  ASSUME NEW S, IsFiniteSet(S), NEW f, \A x \in S : f[x] \in Nat, NEW e \in S
  PROVE  f[e] <= SumFunctionOnSet(f, S)
<1>1. IsFiniteSet(S \ {e})
  BY FS_Subset
<1>2. SumFunctionOnSet(f, S \ {e}) \in Nat
  BY <1>1, SumOfNaturals
<1> QED
  BY <1>2, SumElement

\* Elements outside, and inside, a set join and leave its sum.
LEMMA SumWith ==
  ASSUME NEW S, IsFiniteSet(S), NEW f, NEW e, e \notin S, \A x \in S \cup {e} : f[x] \in Int
  PROVE  SumFunctionOnSet(f, S \cup {e}) = f[e] + SumFunctionOnSet(f, S)
<1>1. IsFiniteSet(S \cup {e})
  BY FS_AddElement
<1>2. (S \cup {e}) \ {e} = S
  OBVIOUS
<1>3. SumFunctionOnSet(f, S \cup {e}) = f[e] + SumFunctionOnSet(f, (S \cup {e}) \ {e})
  BY <1>1, SumElement
<1> QED
  BY <1>2, <1>3

LEMMA SumOfOne ==
  ASSUME NEW f, NEW e, f[e] \in Int
  PROVE  SumFunctionOnSet(f, {e}) = f[e]
<1>1. SumFunctionOnSet(f, {e}) = f[e] + SumFunctionOnSet(f, {})
  <2>1. IsFiniteSet({}) /\ {} \cup {e} = {e}
    BY FS_EmptySet
  <2>2. SumFunctionOnSet(f, {} \cup {e}) = f[e] + SumFunctionOnSet(f, {})
    BY <2>1, SumWith
  <2> QED BY <2>1, <2>2
<1> QED
  BY <1>1, SumOfNothing

\* The parts of a set, and their sums.
LEMMA SumOfParts ==
  ASSUME NEW S, IsFiniteSet(S), NEW f, \A x \in S : f[x] \in Int, NEW T \in SUBSET S
  PROVE  SumFunctionOnSet(f, S) = SumFunctionOnSet(f, T) + SumFunctionOnSet(f, S \ T)
<1> DEFINE Sum(U) == SumFunctionOnSet(f, U)
           D == {U \in SUBSET S : Sum(S) # Sum(U) + Sum(S \ U)}
<1> SUFFICES ASSUME D # {} PROVE FALSE
  OBVIOUS
<1>0. D \in SUBSET SUBSET S
  OBVIOUS
<1> HIDE DEF D
<1>1. PICK U \in D : \A V \in D : V \subseteq U => V = U
  BY <1>0, SmallestSet
<1> USE DEF D
<1>2. \A V \in SUBSET S : IsFiniteSet(V) /\ Sum(V) \in Int
  BY FS_Subset, SumType
<1>3. CASE U = {}
  BY <1>1, <1>2, <1>3, SumOfNothing
<1>4. CASE U # {}
  <2>1. PICK e \in U : TRUE
    BY <1>4
  <2>2. U \ {e} \in SUBSET S /\ U \ {e} \notin D /\ U \in SUBSET S
    BY <1>0, <1>1, <2>1
  <2>3. Sum(S) = Sum(U \ {e}) + Sum(S \ (U \ {e}))
    BY <2>2
  <2>4. Sum(U) = f[e] + Sum(U \ {e})
    BY <1>2, <2>1, <2>2, SumElement
  <2>5. Sum(S \ (U \ {e})) = f[e] + Sum(S \ U)
    <3>1. e \in S \ (U \ {e}) /\ (S \ (U \ {e})) \ {e} = S \ U
      BY <2>1, <2>2
    <3>2. IsFiniteSet(S \ (U \ {e}))
      BY <1>2
    <3> QED BY <3>1, <3>2, SumElement
  <2>6. Sum(U) \in Int /\ Sum(S \ U) \in Int /\ Sum(U \ {e}) \in Int /\ f[e] \in Int
    BY <1>2, <2>1, <2>2
  <2>7. Sum(S) = Sum(U) + Sum(S \ U)
    <3> HIDE DEF Sum
    <3> QED BY <2>3, <2>4, <2>5, <2>6
  <2> QED BY <1>1, <2>7
<1> QED BY <1>3, <1>4

\* Equal summands.
LEMMA SumOfConstant ==
  ASSUME NEW S, IsFiniteSet(S), NEW c \in Int, NEW f, \A x \in S : f[x] = c
  PROVE  SumFunctionOnSet(f, S) = c * Cardinality(S)
<1> DEFINE D == {T \in SUBSET S : SumFunctionOnSet(f, T) # c * Cardinality(T)}
<1> SUFFICES ASSUME D # {} PROVE FALSE
  OBVIOUS
<1>0. D \in SUBSET SUBSET S
  OBVIOUS
<1> HIDE DEF D
<1>1. PICK T \in D : \A U \in D : U \subseteq T => U = T
  BY <1>0, SmallestSet
<1> USE DEF D
<1>2. IsFiniteSet(T)
  BY FS_Subset
<1>3. T # {}
  BY SumOfNothing, FS_EmptySet
<1> DEFINE p == Pick(T)
           n == Cardinality(T \ {p})
<1>4. p \in T
  BY <1>3, PickIsElement
<1>5. Cardinality(T) = n + 1 /\ n \in Nat
  <2>1. IsFiniteSet(T \ {p}) /\ Cardinality(T \ {p}) = Cardinality(T) - 1
    BY <1>2, <1>4, FS_RemoveElement
  <2>2. Cardinality(T) \in Nat /\ Cardinality(T \ {p}) \in Nat
    BY <1>2, <2>1, FS_CardinalityType
  <2> QED BY <2>1, <2>2
<1>6. SumFunctionOnSet(f, T \ {p}) = c * n
  BY <1>1, <1>4
<1>7. SumFunctionOnSet(f, T) = f[p] + SumFunctionOnSet(f, T \ {p})
  BY <1>2, <1>3, SumUnfolded
<1>8. f[p] = c
  BY <1>4
<1> HIDE DEF D, n, p
<1>9. c + c * n = c * (n + 1)
  BY <1>5
<1>10. SumFunctionOnSet(f, T) = c * Cardinality(T)
  BY <1>5, <1>6, <1>7, <1>8, <1>9
<1> QED
  BY <1>10 DEF D

-----------------------------------------------------------------------------
(* Maxima and minima                                                       *)

LEMMA MaxOfFinite ==
  ASSUME NEW S, IsFiniteSet(S), S # {}, \A x \in S : x \in Int
  PROVE  Max(S) \in S /\ \A y \in S : Max(S) >= y
<1> DEFINE D == {T \in SUBSET S : T # {} /\ ~ \E x \in T : \A y \in T : x >= y}
<1>1. D \in SUBSET SUBSET S
  OBVIOUS
<1>2. ASSUME D # {} PROVE FALSE
  <2> HIDE DEF D
  <2>1. PICK T \in D : \A U \in D : U \subseteq T => U = T
    BY <1>1, <1>2, SmallestSet
  <2> USE DEF D
  <2>2. PICK p \in T : TRUE
    OBVIOUS
  <2>3. T \ {p} \in SUBSET S /\ T \ {p} # {} /\ T \ {p} # T
    OBVIOUS
  <2>4. PICK m \in T \ {p} : \A y \in T \ {p} : m >= y
    BY <2>1, <2>3
  <2>5. m \in Int /\ p \in Int /\ \A y \in T : y \in Int
    OBVIOUS
  <2>6. CASE m >= p
    BY <2>4, <2>5, <2>6
  <2>7. CASE p >= m
    <3>1. \A y \in T : p >= y
      BY <2>4, <2>5, <2>7
    <3> QED BY <3>1
  <2> QED BY <2>5, <2>6, <2>7
<1>3. \E x \in S : \A y \in S : x >= y
  BY <1>2
<1> QED
  BY <1>3 DEF Max

LEMMA MinOfFinite ==
  ASSUME NEW S, IsFiniteSet(S), S # {}, \A x \in S : x \in Int
  PROVE  Min(S) \in S /\ \A y \in S : Min(S) =< y
<1> DEFINE D == {T \in SUBSET S : T # {} /\ ~ \E x \in T : \A y \in T : x =< y}
<1>1. D \in SUBSET SUBSET S
  OBVIOUS
<1>2. ASSUME D # {} PROVE FALSE
  <2> HIDE DEF D
  <2>1. PICK T \in D : \A U \in D : U \subseteq T => U = T
    BY <1>1, <1>2, SmallestSet
  <2> USE DEF D
  <2>2. PICK p \in T : TRUE
    OBVIOUS
  <2>3. T \ {p} \in SUBSET S /\ T \ {p} # {} /\ T \ {p} # T
    OBVIOUS
  <2>4. PICK m \in T \ {p} : \A y \in T \ {p} : m =< y
    BY <2>1, <2>3
  <2>5. m \in Int /\ p \in Int /\ \A y \in T : y \in Int
    OBVIOUS
  <2>6. CASE m =< p
    BY <2>4, <2>5, <2>6
  <2>7. CASE p =< m
    <3>1. \A y \in T : p =< y
      BY <2>4, <2>5, <2>7
    <3> QED BY <3>1
  <2> QED BY <2>5, <2>6, <2>7
<1>3. \E x \in S : \A y \in S : x =< y
  BY <1>2
<1> QED
  BY <1>3 DEF Min

=============================================================================
