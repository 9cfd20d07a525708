------------------------------ MODULE SetFacts ------------------------------
(***************************************************************************)
(* Facts about sums over finite sets and about the largest member of one.  *)
(*                                                                         *)
(* MapThenSumSet folds with a recursive function over the subsets of a     *)
(* set.  What the fold computes is proved by taking a smallest subset for  *)
(* which it would compute something else: there is one, since the strict   *)
(* subset ordering of a finite set is well-founded.                        *)
(***************************************************************************)
EXTENDS FiniteSetsExt, FiniteSetTheorems, TLAPS

\* The member that the fold takes first.
Pick(s) == CHOOSE x \in s : TRUE

Sum(f, S) == MapThenSumSet(LAMBDA x : f[x], S)

\* g is the function that the fold defines.
Sums(g, f, S) ==
  g = [s \in SUBSET S |-> IF s = {} THEN 0
                          ELSE f[Pick(s)] + g[s \ {Pick(s)}]]

Partial(f, S) == CHOOSE g : Sums(g, f, S)

\* The definition of the sum in MapThenFoldSet, with the fold named.
LEMMA SumIsPartial ==
  ASSUME NEW f, NEW S
  PROVE  Sum(f, S) = Partial(f, S)[S]
  BY DEF Sum, Partial, Sums, Pick, MapThenSumSet, MapThenFoldSet

LEMMA PickIsMember ==
  ASSUME NEW s, s # {}
  PROVE  Pick(s) \in s
  BY DEF Pick

\* The induction principle: a nonempty family of subsets has a smallest member.
LEMMA SmallestSubset ==
  ASSUME NEW S, IsFiniteSet(S), NEW F, F \subseteq SUBSET S, F # {}
  PROVE  \E s \in F : \A t \in F : t \subseteq s => t = s
<1>1. IsWellFoundedOn(StrictSubsetOrdering(S), SUBSET S)
  BY FS_StrictSubsetOrderingWellFounded, FS_FiniteSubsetsOfFinite
<1>2. PICK s \in F : \A t \in F : <<t, s>> \notin StrictSubsetOrdering(S)
  BY <1>1, WFMin
<1>3. ASSUME NEW t \in F, t \subseteq s, t # s
      PROVE  FALSE
  <2>1. <<t, s>> \in (SUBSET S) \X (SUBSET S)
    OBVIOUS
  <2>2. <<t, s>>[1] = t /\ <<t, s>>[2] = s
    OBVIOUS
  <2>3. <<t, s>> \in StrictSubsetOrdering(S)
    BY <2>1, <2>2, <1>3 DEF StrictSubsetOrdering
  <2> QED
    BY <2>3, <1>2
<1> QED
  BY <1>3

\* The fold is determined by its equation.
LEMMA SumsIsUnique ==
  ASSUME NEW f, NEW S, IsFiniteSet(S), NEW T \in SUBSET S,
         NEW g, Sums(g, f, S), NEW h, Sums(h, f, T)
  PROVE  h[T] = g[T]
<1> DEFINE F == {s \in SUBSET T : h[s] # g[s]}
<1>1. SUFFICES ASSUME F # {} PROVE FALSE
  OBVIOUS
<1>2. IsFiniteSet(T)
  BY FS_Subset
<1>3. F \subseteq SUBSET T
  OBVIOUS
<1> HIDE DEF F
<1>4. PICK s \in F : \A t \in F : t \subseteq s => t = s
  BY <1>1, <1>2, <1>3, SmallestSubset
<1>5. s \in SUBSET T /\ s \in SUBSET S /\ h[s] # g[s]
  BY <1>4 DEF F
<1>6. s # {}
  BY <1>5 DEF Sums
<1>7. Pick(s) \in s
  BY <1>6, PickIsMember
<1>8. /\ g[s] = f[Pick(s)] + g[s \ {Pick(s)}]
      /\ h[s] = f[Pick(s)] + h[s \ {Pick(s)}]
  BY <1>5, <1>6 DEF Sums
<1>9. s \ {Pick(s)} \in SUBSET T /\ s \ {Pick(s)} # s
      /\ s \ {Pick(s)} \subseteq s
  BY <1>5, <1>7
<1>10. h[s \ {Pick(s)}] = g[s \ {Pick(s)}]
  BY <1>4, <1>9 DEF F
<1> QED
  BY <1>5, <1>8, <1>10

\* And its equation has a solution.
LEMMA SumsExists ==
  ASSUME NEW f, NEW S, IsFiniteSet(S)
  PROVE  Sums(Partial(f, S), f, S)
<1> DEFINE F == {s \in SUBSET S : ~ \E g : Sums(g, f, s)}
<1>1. SUFFICES ASSUME F # {} PROVE FALSE
  <2>1. \E g : Sums(g, f, S)
    BY <1>1
  <2> QED
    BY <2>1 DEF Partial
<1>2. F \subseteq SUBSET S
  OBVIOUS
<1> HIDE DEF F
<1>3. PICK T \in F : \A t \in F : t \subseteq T => t = T
  BY <1>1, <1>2, SmallestSubset
<1>4. T \in SUBSET S /\ ~ \E g : Sums(g, f, T)
  BY <1>3 DEF F
<1>5. ASSUME NEW t \in SUBSET T, t # T
      PROVE  Sums(Partial(f, t), f, t)
  <2>1. t \notin F /\ t \in SUBSET S
    BY <1>3, <1>4, <1>5
  <2>2. \E g : Sums(g, f, t)
    BY <2>1 DEF F
  <2> QED
    BY <2>2 DEF Partial
<1> DEFINE V(s) == IF s = {} THEN 0
                   ELSE f[Pick(s)] + Partial(f, s \ {Pick(s)})[s \ {Pick(s)}]
           g == [s \in SUBSET T |-> V(s)]
<1>6. ASSUME NEW s \in SUBSET T, s # T
      PROVE  Partial(f, s)[s] = V(s)
  <2>1. Sums(Partial(f, s), f, s)
    BY <1>5, <1>6
  <2>2. CASE s = {}
    BY <2>1, <2>2 DEF Sums
  <2>3. CASE s # {}
    <3>1. Pick(s) \in s
      BY <2>3, PickIsMember
    <3>2. Partial(f, s)[s] = f[Pick(s)] + Partial(f, s)[s \ {Pick(s)}]
      BY <2>1, <2>3 DEF Sums
    <3>3. s \ {Pick(s)} \in SUBSET s /\ s \ {Pick(s)} \in SUBSET T
          /\ s \ {Pick(s)} # T
      BY <3>1
    <3>4. Sums(Partial(f, s \ {Pick(s)}), f, s \ {Pick(s)})
      BY <1>5, <3>3
    <3>5. IsFiniteSet(s)
      BY <1>4, FS_Subset
    <3>6. Partial(f, s \ {Pick(s)})[s \ {Pick(s)}]
          = Partial(f, s)[s \ {Pick(s)}]
      BY <2>1, <3>3, <3>4, <3>5, SumsIsUnique
    <3> QED
      BY <2>3, <3>2, <3>6
  <2> QED
    BY <2>2, <2>3
<1>7. ASSUME NEW s \in SUBSET T, s # {}
      PROVE  V(s) = f[Pick(s)] + V(s \ {Pick(s)})
  <2>1. Pick(s) \in s
    BY <1>7, PickIsMember
  <2>2. s \ {Pick(s)} \in SUBSET T /\ s \ {Pick(s)} # T
    BY <2>1
  <2>3. Partial(f, s \ {Pick(s)})[s \ {Pick(s)}] = V(s \ {Pick(s)})
    BY <1>6, <2>2
  <2> QED
    BY <1>7, <2>3
<1>8. V({}) = 0
  OBVIOUS
<1> HIDE DEF V
<1>9. g = [s \in SUBSET T |-> IF s = {} THEN 0
                              ELSE f[Pick(s)] + g[s \ {Pick(s)}]]
  <2>1. ASSUME NEW s \in SUBSET T
        PROVE  V(s) = IF s = {} THEN 0 ELSE f[Pick(s)] + g[s \ {Pick(s)}]
    BY <1>7, <1>8
  <2> QED
    BY <2>1
<1>10. Sums(g, f, T)
  BY <1>9 DEF Sums
<1> QED
  BY <1>4, <1>10

LEMMA SumOfNone ==
  ASSUME NEW f
  PROVE  Sum(f, {}) = 0
<1>1. Sums(Partial(f, {}), f, {})
  BY SumsExists, FS_EmptySet
<1> QED
  BY <1>1, SumIsPartial DEF Sums

LEMMA SumOfPicked ==
  ASSUME NEW f, NEW S, IsFiniteSet(S), S # {}
  PROVE  Sum(f, S) = f[Pick(S)] + Sum(f, S \ {Pick(S)})
<1> DEFINE T == S \ {Pick(S)}
<1>1. T \in SUBSET S /\ IsFiniteSet(T)
  BY FS_Subset
<1>2. Sums(Partial(f, S), f, S) /\ Sums(Partial(f, T), f, T)
  BY <1>1, SumsExists
<1>3. Partial(f, T)[T] = Partial(f, S)[T]
  BY <1>1, <1>2, SumsIsUnique
<1>4. Partial(f, S)[S] = f[Pick(S)] + Partial(f, S)[T]
  BY <1>2 DEF Sums
<1> QED
  BY <1>3, <1>4, SumIsPartial

-----------------------------------------------------------------------------
\* Sums of natural numbers

LEMMA SumIsNat ==
  ASSUME NEW S, IsFiniteSet(S), NEW f, \A x \in S : f[x] \in Nat
  PROVE  Sum(f, S) \in Nat
<1> DEFINE F == {s \in SUBSET S : Sum(f, s) \notin Nat}
<1>1. SUFFICES ASSUME F # {} PROVE FALSE
  OBVIOUS
<1>2. F \subseteq SUBSET S
  OBVIOUS
<1> HIDE DEF F
<1>3. PICK s \in F : \A t \in F : t \subseteq s => t = s
  BY <1>1, <1>2, SmallestSubset
<1>4. s \in SUBSET S /\ Sum(f, s) \notin Nat
  BY <1>3 DEF F
<1>5. s # {}
  BY <1>4, SumOfNone
<1>6. Pick(s) \in s /\ f[Pick(s)] \in Nat
  BY <1>4, <1>5, PickIsMember
<1>7. s \ {Pick(s)} \in SUBSET S /\ s \ {Pick(s)} \notin F
  BY <1>3, <1>4, <1>6
<1>8. Sum(f, s \ {Pick(s)}) \in Nat
  BY <1>7 DEF F
<1>9. Sum(f, s) = f[Pick(s)] + Sum(f, s \ {Pick(s)})
  BY <1>4, <1>5, FS_Subset, SumOfPicked
<1> QED
  BY <1>4, <1>6, <1>8, <1>9

\* Any element can be taken out, not only the one that the fold picks.
LEMMA SumOfRemoved ==
  ASSUME NEW S, IsFiniteSet(S), NEW f, \A x \in S : f[x] \in Nat,
         NEW x \in S
  PROVE  Sum(f, S) = f[x] + Sum(f, S \ {x})
<1> DEFINE F == {s \in SUBSET S :
                   \E y \in s : Sum(f, s) # f[y] + Sum(f, s \ {y})}
<1>1. SUFFICES ASSUME F # {} PROVE FALSE
  OBVIOUS
<1>2. F \subseteq SUBSET S
  OBVIOUS
<1> HIDE DEF F
<1>3. PICK s \in F : \A t \in F : t \subseteq s => t = s
  BY <1>1, <1>2, SmallestSubset
<1>4. s \in SUBSET S /\ \E y \in s : Sum(f, s) # f[y] + Sum(f, s \ {y})
  BY <1>3 DEF F
<1>5. PICK y \in s : Sum(f, s) # f[y] + Sum(f, s \ {y})
  BY <1>4
<1> DEFINE p == Pick(s)
           rest == (s \ {p}) \ {y}
<1>6. p \in s
  BY <1>5, PickIsMember
<1> HIDE DEF p
<1>7. Sum(f, s) = f[p] + Sum(f, s \ {p})
  BY <1>4, <1>5, FS_Subset, SumOfPicked DEF p
<1>8. p # y
  BY <1>5, <1>7
<1>9. s \ {p} \notin F /\ s \ {y} \notin F
  BY <1>3, <1>5, <1>6
<1>10. Sum(f, s \ {p}) = f[y] + Sum(f, (s \ {p}) \ {y})
  BY <1>4, <1>5, <1>8, <1>9 DEF F
<1>11. Sum(f, s \ {y}) = f[p] + Sum(f, (s \ {y}) \ {p})
  BY <1>4, <1>6, <1>8, <1>9 DEF F
<1>12. (s \ {y}) \ {p} = rest
  OBVIOUS
<1>13. IsFiniteSet(rest) /\ \A z \in rest : f[z] \in Nat
  BY <1>4, FS_Subset
<1>14. Sum(f, rest) \in Nat /\ f[y] \in Nat /\ f[p] \in Nat
  BY <1>4, <1>5, <1>6, <1>13, SumIsNat
<1> HIDE DEF rest
<1>15. Sum(f, s \ {p}) = f[y] + Sum(f, rest)
  BY <1>10 DEF rest
<1>16. Sum(f, s \ {y}) = f[p] + Sum(f, rest)
  BY <1>11, <1>12
<1> QED
  BY <1>5, <1>7, <1>14, <1>15, <1>16

\* A sum depends on the summands alone.
LEMMA SumsAgree ==
  ASSUME NEW S, IsFiniteSet(S), NEW f, NEW g, \A x \in S : f[x] = g[x]
  PROVE  Sum(f, S) = Sum(g, S)
<1> DEFINE F == {s \in SUBSET S : Sum(f, s) # Sum(g, s)}
<1>1. SUFFICES ASSUME F # {} PROVE FALSE
  OBVIOUS
<1>2. F \subseteq SUBSET S
  OBVIOUS
<1> HIDE DEF F
<1>3. PICK s \in F : \A t \in F : t \subseteq s => t = s
  BY <1>1, <1>2, SmallestSubset
<1>4. s \in SUBSET S /\ Sum(f, s) # Sum(g, s)
  BY <1>3 DEF F
<1>5. s # {}
  BY <1>4, SumOfNone
<1>6. Pick(s) \in s /\ f[Pick(s)] = g[Pick(s)]
  BY <1>4, <1>5, PickIsMember
<1>7. s \ {Pick(s)} \in SUBSET S /\ s \ {Pick(s)} \notin F
  BY <1>3, <1>4, <1>6
<1>8. Sum(f, s \ {Pick(s)}) = Sum(g, s \ {Pick(s)})
  BY <1>7 DEF F
<1>9. /\ Sum(f, s) = f[Pick(s)] + Sum(f, s \ {Pick(s)})
      /\ Sum(g, s) = g[Pick(s)] + Sum(g, s \ {Pick(s)})
  BY <1>4, <1>5, FS_Subset, SumOfPicked
<1> QED
  BY <1>4, <1>6, <1>8, <1>9

\* A sum changes by as much as the one summand that changes.
LEMMA SumOfChanged ==
  ASSUME NEW S, IsFiniteSet(S), NEW f, NEW g, NEW x \in S,
         \A y \in S : f[y] \in Nat, g[x] \in Nat,
         \A y \in S \ {x} : g[y] = f[y]
  PROVE  Sum(g, S) + f[x] = Sum(f, S) + g[x]
<1>1. IsFiniteSet(S \ {x})
  BY FS_Subset
<1>2. \A y \in S : g[y] \in Nat
  OBVIOUS
<1>3. Sum(f, S) = f[x] + Sum(f, S \ {x}) /\ Sum(g, S) = g[x] + Sum(g, S \ {x})
  BY <1>2, SumOfRemoved
<1>4. Sum(f, S \ {x}) = Sum(g, S \ {x}) /\ Sum(f, S \ {x}) \in Nat
  BY <1>1, SumsAgree, SumIsNat
<1> QED
  BY <1>3, <1>4

\* Summands that are 0 need not be summed.
LEMMA SumWithoutZeros ==
  ASSUME NEW S, IsFiniteSet(S), NEW f, \A x \in S : f[x] \in Nat,
         NEW T \in SUBSET S, \A x \in S \ T : f[x] = 0
  PROVE  Sum(f, S) = Sum(f, T)
<1> DEFINE F == {s \in SUBSET S : T \subseteq s /\ Sum(f, s) # Sum(f, T)}
<1>1. SUFFICES ASSUME F # {} PROVE FALSE
  OBVIOUS
<1>2. F \subseteq SUBSET S
  OBVIOUS
<1> HIDE DEF F
<1>3. PICK s \in F : \A t \in F : t \subseteq s => t = s
  BY <1>1, <1>2, SmallestSubset
<1>4. s \in SUBSET S /\ T \subseteq s /\ Sum(f, s) # Sum(f, T)
  BY <1>3 DEF F
<1>5. PICK x \in s : x \notin T
  BY <1>4
<1>6. s \ {x} \notin F /\ s \ {x} \in SUBSET S /\ T \subseteq s \ {x}
  BY <1>3, <1>4, <1>5
<1>7. Sum(f, s \ {x}) = Sum(f, T)
  BY <1>6 DEF F
<1>8. IsFiniteSet(s) /\ IsFiniteSet(T)
  BY <1>4, FS_Subset
<1>9. Sum(f, s) = f[x] + Sum(f, s \ {x}) /\ f[x] = 0
  BY <1>4, <1>5, <1>8, SumOfRemoved
<1>10. Sum(f, T) \in Nat
  BY <1>8, SumIsNat
<1> QED
  BY <1>4, <1>7, <1>9, <1>10

\* Fewer summands, and smaller ones, give a smaller sum.
LEMMA SumOfFewer ==
  ASSUME NEW S, IsFiniteSet(S), NEW f, \A x \in S : f[x] \in Nat,
         NEW T \in SUBSET S
  PROVE  Sum(f, T) <= Sum(f, S)
<1> DEFINE F == {s \in SUBSET S : T \subseteq s /\ ~ (Sum(f, T) <= Sum(f, s))}
<1>1. SUFFICES ASSUME F # {} PROVE FALSE
  OBVIOUS
<1>2. F \subseteq SUBSET S
  OBVIOUS
<1> HIDE DEF F
<1>3. PICK s \in F : \A t \in F : t \subseteq s => t = s
  BY <1>1, <1>2, SmallestSubset
<1>4. s \in SUBSET S /\ T \subseteq s /\ ~ (Sum(f, T) <= Sum(f, s))
  BY <1>3 DEF F
<1>5. IsFiniteSet(s) /\ IsFiniteSet(T)
  BY <1>4, FS_Subset
<1>6. Sum(f, T) \in Nat
  BY <1>5, SumIsNat
<1>7. PICK x \in s : x \notin T
  BY <1>4, <1>6
<1>8. s \ {x} \notin F /\ s \ {x} \in SUBSET S /\ T \subseteq s \ {x}
  BY <1>3, <1>4, <1>7
<1>9. Sum(f, T) <= Sum(f, s \ {x})
  BY <1>8 DEF F
<1>10. Sum(f, s) = f[x] + Sum(f, s \ {x}) /\ f[x] \in Nat
  BY <1>4, <1>5, <1>7, SumOfRemoved
<1>11. Sum(f, s \ {x}) \in Nat
  BY <1>5, <1>8, FS_Subset, SumIsNat
<1> QED
  BY <1>4, <1>6, <1>9, <1>10, <1>11

LEMMA SumGrows ==
  ASSUME NEW S, IsFiniteSet(S), NEW f, NEW g,
         \A x \in S : f[x] \in Nat /\ g[x] \in Nat /\ f[x] <= g[x]
  PROVE  Sum(f, S) <= Sum(g, S)
<1> DEFINE F == {s \in SUBSET S : ~ (Sum(f, s) <= Sum(g, s))}
<1>1. SUFFICES ASSUME F # {} PROVE FALSE
  OBVIOUS
<1>2. F \subseteq SUBSET S
  OBVIOUS
<1> HIDE DEF F
<1>3. PICK s \in F : \A t \in F : t \subseteq s => t = s
  BY <1>1, <1>2, SmallestSubset
<1>4. s \in SUBSET S /\ ~ (Sum(f, s) <= Sum(g, s))
  BY <1>3 DEF F
<1>5. s # {}
  BY <1>4, SumOfNone
<1>6. /\ Pick(s) \in s /\ f[Pick(s)] \in Nat /\ g[Pick(s)] \in Nat
      /\ f[Pick(s)] <= g[Pick(s)]
  BY <1>4, <1>5, PickIsMember
<1>7. s \ {Pick(s)} \in SUBSET S /\ s \ {Pick(s)} \notin F
  BY <1>3, <1>4, <1>6
<1>8. Sum(f, s \ {Pick(s)}) <= Sum(g, s \ {Pick(s)})
  BY <1>7 DEF F
<1>9. /\ Sum(f, s) = f[Pick(s)] + Sum(f, s \ {Pick(s)})
      /\ Sum(g, s) = g[Pick(s)] + Sum(g, s \ {Pick(s)})
  BY <1>4, <1>5, FS_Subset, SumOfPicked
<1>10. Sum(f, s \ {Pick(s)}) \in Nat /\ Sum(g, s \ {Pick(s)}) \in Nat
  BY <1>7, FS_Subset, SumIsNat
<1> QED
  BY <1>4, <1>6, <1>8, <1>9, <1>10

-----------------------------------------------------------------------------
\* The largest member

LEMMA MaxIsLargest ==
  ASSUME NEW S, IsFiniteSet(S), S # {}, S \subseteq Nat
  PROVE  Max(S) \in S /\ \A x \in S : x <= Max(S)
<1> DEFINE Largest(m, s) == m \in s /\ \A x \in s : m >= x
           F == {s \in SUBSET S : s # {} /\ ~ \E m : Largest(m, s)}
<1>1. SUFFICES ASSUME F # {} PROVE FALSE
  <2>1. \E m \in S : \A x \in S : m >= x
    BY <1>1
  <2>2. Max(S) \in S /\ \A x \in S : Max(S) >= x
    BY <2>1 DEF Max
  <2> QED
    BY <2>2
<1>2. F \subseteq SUBSET S
  OBVIOUS
<1> HIDE DEF F, Largest
<1>3. PICK s \in F : \A t \in F : t \subseteq s => t = s
  BY ONLY IsFiniteSet(S), <1>1, <1>2, SmallestSubset
<1>4. s \in SUBSET S /\ s # {} /\ ~ \E m : Largest(m, s)
  BY <1>3 DEF F
<1>5. PICK x : x \in s
  BY <1>4
<1>6. s \ {x} # {}
  <2>1. SUFFICES ASSUME s \ {x} = {} PROVE FALSE
    OBVIOUS
  <2>2. Largest(x, s)
    BY <1>4, <1>5, <2>1 DEF Largest
  <2> QED
    BY <1>4, <2>2
<1>7. s \ {x} \notin F
  BY <1>3, <1>5
<1>8. PICK m : Largest(m, s \ {x})
  BY <1>4, <1>6, <1>7 DEF F
<1>9. Largest(m, s) \/ Largest(x, s)
  BY <1>4, <1>5, <1>8 DEF Largest
<1> QED
  BY <1>4, <1>9

============================================================================
