------------------------------ MODULE SumTheorems ------------------------------
(***************************************************************************)
(* Facts about SumFunctionOnSet, the sum of a function over a finite set:   *)
(* what every account of the bridge (units, bounties, credits, counters) is *)
(* stated with.  Inductions over a finite set go through a smallest          *)
(* counterexample: SetInduction gives a minimal member of a set of subsets.  *)
(***************************************************************************)
EXTENDS FiniteSetsExt, FiniteSetTheorems, TLAPS

\* The element the library's iteration takes out first.
Pick(s) == CHOOSE x \in s : TRUE

\* The iteration behind SumFunctionOnSet, and what it computes.
Iterated(f, S) == CHOOSE g : g = [s \in SUBSET S |->
    IF s = {} THEN 0 ELSE f[Pick(s)] + g[s \ {Pick(s)}]]

LEMMA SumIsIterated ==
    ASSUME NEW f, NEW S
    PROVE  SumFunctionOnSet(f, S) = Iterated(f, S)[S]
  BY DEF SumFunctionOnSet, FoldFunctionOnSet, MapThenFoldSet, Iterated, Pick

\* A nonempty family of subsets of a finite set has a minimal member.
LEMMA SetInduction ==
    ASSUME NEW S, IsFiniteSet(S), NEW T \in SUBSET SUBSET S, T # {}
    PROVE  \E m \in T : \A s \in T : s \subseteq m => s = m
  <1>1. IsWellFoundedOn(StrictSubsetOrdering(S), FiniteSubsetsOf(S))
    BY FS_StrictSubsetOrderingWellFounded
  <1>2. T \subseteq FiniteSubsetsOf(S)
    BY FS_FiniteSubsetsOfFinite
  <1>3. \E m \in T : \A s \in T : <<s, m>> \notin StrictSubsetOrdering(S)
    BY <1>1, <1>2, WFMin, Zenon
  <1> QED BY <1>3 DEF StrictSubsetOrdering

\* The equation the iteration is chosen by.
IsIteration(f, S, g) == g = [s \in SUBSET S |->
    IF s = {} THEN 0 ELSE f[Pick(s)] + g[s \ {Pick(s)}]]

\* On the proper subsets of S the iterations compute one sum, and it is the sum.
Computes(f, S) ==
    /\ IsIteration(f, S, Iterated(f, S))
    /\ \A s \in SUBSET S : Iterated(f, S)[s] = SumFunctionOnSet(f, s)

LEMMA PickIsElement ==
    ASSUME NEW S, S # {} PROVE Pick(S) \in S
  BY DEF Pick

\* If every proper subset has its sum, the equation has a solution over S.
LEMMA IterationExists ==
    ASSUME NEW f, NEW S, \A T \in SUBSET S : T # S => Computes(f, T)
    PROVE  IsIteration(f, S, Iterated(f, S))
  <1> DEFINE h == [s \in SUBSET S |->
                IF s = {} THEN 0 ELSE f[Pick(s)] + SumFunctionOnSet(f, s \ {Pick(s)})]
  <1>1. ASSUME NEW s \in SUBSET S, s # S PROVE h[s] = SumFunctionOnSet(f, s)
    <2>1. IsIteration(f, s, Iterated(f, s)) /\ \A t \in SUBSET s : Iterated(f, s)[t] = SumFunctionOnSet(f, t)
      BY <1>1 DEF Computes
    <2>2. Iterated(f, s)[s] = IF s = {} THEN 0 ELSE f[Pick(s)] + Iterated(f, s)[s \ {Pick(s)}]
      BY <2>1, Zenon DEF IsIteration
    <2>3. s \ {Pick(s)} \in SUBSET s
      OBVIOUS
    <2> QED BY <2>1, <2>2, <2>3
  <1>2. ASSUME NEW s \in SUBSET S, s # {}
        PROVE  h[s \ {Pick(s)}] = SumFunctionOnSet(f, s \ {Pick(s)})
    <2>1. s \ {Pick(s)} \in SUBSET S /\ s \ {Pick(s)} # S
      BY <1>2, PickIsElement
    <2> QED BY <2>1, <1>1
  <1>3. \A s \in SUBSET S : h[s] = IF s = {} THEN 0 ELSE f[Pick(s)] + h[s \ {Pick(s)}]
    BY <1>2
  <1>4. IsIteration(f, S, h)
    BY <1>3 DEF IsIteration
  <1>5. \E g : IsIteration(f, S, g)
    BY <1>4
  <1> HIDE DEF h
  <1> QED BY <1>5 DEF IsIteration, Iterated

\* A solution over S agrees with the sums of the subsets.
LEMMA IterationComputes ==
    ASSUME NEW f, NEW S, IsFiniteSet(S), IsIteration(f, S, Iterated(f, S)),
           \A T \in SUBSET S : T # S => Computes(f, T)
    PROVE  Computes(f, S)
  <1> DEFINE bad == {s \in SUBSET S : Iterated(f, S)[s] # SumFunctionOnSet(f, s)}
  <1> SUFFICES ASSUME bad # {} PROVE FALSE
    BY DEF Computes
  <1>0. bad \in SUBSET SUBSET S
    OBVIOUS
  <1>1. PICK m \in bad : \A s \in bad : s \subseteq m => s = m
    <2> HIDE DEF bad
    <2> QED BY <1>0, SetInduction
  <1>2. m # S
    BY SumIsIterated
  <1>3. Computes(f, m) /\ m \in SUBSET S
    BY <1>2
  <1>4. Iterated(f, m)[m] = IF m = {} THEN 0 ELSE f[Pick(m)] + Iterated(f, m)[m \ {Pick(m)}]
    BY <1>3, Zenon DEF Computes, IsIteration
  <1>5. Iterated(f, S)[m] = IF m = {} THEN 0 ELSE f[Pick(m)] + Iterated(f, S)[m \ {Pick(m)}]
    BY <1>3, Zenon DEF IsIteration
  <1>6. ASSUME m # {} PROVE Iterated(f, S)[m \ {Pick(m)}] = Iterated(f, m)[m \ {Pick(m)}]
    <2>1. m \ {Pick(m)} \notin bad
      BY <1>1, <1>6, PickIsElement
    <2>2. m \ {Pick(m)} \in SUBSET S /\ m \ {Pick(m)} \in SUBSET m
      BY <1>3
    <2> QED BY <2>1, <2>2, <1>3 DEF Computes
  <1>7. Iterated(f, S)[m] = Iterated(f, m)[m]
    BY <1>4, <1>5, <1>6
  <1> QED BY <1>7, SumIsIterated

\* The sum over any finite set is well defined.
LEMMA SumsCompute ==
    ASSUME NEW f, NEW S, IsFiniteSet(S)
    PROVE  Computes(f, S)
  <1> DEFINE bad == {s \in SUBSET S : ~Computes(f, s)}
  <1> SUFFICES ASSUME bad # {} PROVE FALSE
    OBVIOUS
  <1>0. bad \in SUBSET SUBSET S
    OBVIOUS
  <1>1. PICK m \in bad : \A s \in bad : s \subseteq m => s = m
    <2> HIDE DEF bad
    <2> QED BY <1>0, SetInduction
  <1>2. \A T \in SUBSET m : T # m => Computes(f, T)
    BY <1>1
  <1>3. IsFiniteSet(m)
    BY FS_Subset
  <1>4. IsIteration(f, m, Iterated(f, m))
    BY <1>2, IterationExists
  <1> QED BY <1>2, <1>3, <1>4, IterationComputes

----------------------------------------------------------------------------
LEMMA SumOfEmpty == ASSUME NEW f PROVE SumFunctionOnSet(f, {}) = 0
  <1>1. Computes(f, {})
    BY SumsCompute, FS_EmptySet
  <1> QED BY <1>1, SumIsIterated DEF Computes, IsIteration

LEMMA SumOfPick ==
    ASSUME NEW f, NEW S, IsFiniteSet(S), S # {}
    PROVE  SumFunctionOnSet(f, S) = f[Pick(S)] + SumFunctionOnSet(f, S \ {Pick(S)})
  <1>1. Computes(f, S)
    BY SumsCompute
  <1>2. Iterated(f, S)[S] = f[Pick(S)] + Iterated(f, S)[S \ {Pick(S)}]
    BY <1>1, Zenon DEF Computes, IsIteration
  <1>3. S \ {Pick(S)} \in SUBSET S
    OBVIOUS
  <1> QED BY <1>1, <1>2, <1>3 DEF Computes

----------------------------------------------------------------------------
LEMMA SumIsInt ==
    ASSUME NEW S, IsFiniteSet(S), NEW f, \A x \in S : f[x] \in Int
    PROVE  SumFunctionOnSet(f, S) \in Int
  <1> DEFINE bad == {s \in SUBSET S : SumFunctionOnSet(f, s) \notin Int}
  <1> SUFFICES ASSUME bad # {} PROVE FALSE
    OBVIOUS
  <1>0. bad \in SUBSET SUBSET S
    OBVIOUS
  <1>1. PICK m \in bad : \A s \in bad : s \subseteq m => s = m
    <2> HIDE DEF bad
    <2> QED BY <1>0, SetInduction
  <1>2. m # {}
    BY SumOfEmpty
  <1>3. Pick(m) \in m
    BY <1>2, PickIsElement
  <1>4. SumFunctionOnSet(f, m \ {Pick(m)}) \in Int
    BY <1>1, <1>3
  <1>5. IsFiniteSet(m)
    BY FS_Subset
  <1>6. SumFunctionOnSet(f, m) = f[Pick(m)] + SumFunctionOnSet(f, m \ {Pick(m)})
    BY <1>2, <1>5, SumOfPick
  <1>7. f[Pick(m)] \in Int
    BY <1>3
  <1> HIDE DEF bad
  <1>8. SumFunctionOnSet(f, m) \in Int
    BY <1>4, <1>6, <1>7
  <1> QED BY <1>8 DEF bad

\* Any element may be taken out of a sum.
LEMMA SumWithout ==
    ASSUME NEW S, IsFiniteSet(S), NEW f, \A y \in S : f[y] \in Int, NEW x \in S
    PROVE  SumFunctionOnSet(f, S) = f[x] + SumFunctionOnSet(f, S \ {x})
  <1> DEFINE sum(s) == SumFunctionOnSet(f, s)
  <1> DEFINE bad == {s \in SUBSET S : \E y \in s : sum(s) # f[y] + sum(s \ {y})}
  <1> SUFFICES ASSUME bad # {} PROVE FALSE
    OBVIOUS
  <1>0. bad \in SUBSET SUBSET S
    OBVIOUS
  <1>1. PICK m \in bad : \A s \in bad : s \subseteq m => s = m
    <2> HIDE DEF bad
    <2> QED BY <1>0, SetInduction
  <1>2. PICK y \in m : sum(m) # f[y] + sum(m \ {y})
    OBVIOUS
  <1>3. \A s \in SUBSET m : s # m => \A z \in s : sum(s) = f[z] + sum(s \ {z})
    BY <1>1
  <1> HIDE DEF bad
  <1> DEFINE p == Pick(m)
  <1>4. p \in m /\ m \in SUBSET S /\ IsFiniteSet(m)
    BY <1>0, <1>2, PickIsElement, FS_Subset
  <1>5. sum(m) = f[p] + sum(m \ {p})
    BY <1>4, SumOfPick
  <1>6. p # y
    BY <1>2, <1>5
  <1> HIDE DEF p
  <1>7. sum(m \ {p}) = f[y] + sum((m \ {p}) \ {y})
    BY <1>3, <1>4, <1>6
  <1>8. sum(m \ {y}) = f[p] + sum((m \ {y}) \ {p})
    BY <1>3, <1>4, <1>6
  <1>9. (m \ {p}) \ {y} = (m \ {y}) \ {p}
    OBVIOUS
  <1>10. IsFiniteSet((m \ {p}) \ {y}) /\ (m \ {p}) \ {y} \in SUBSET S
    BY <1>4, FS_Subset
  <1>11. sum((m \ {p}) \ {y}) \in Int
    BY <1>10, SumIsInt
  <1>12. f[p] \in Int /\ f[y] \in Int
    BY <1>4
  <1> HIDE DEF sum
  <1>13. sum((m \ {p}) \ {y}) = sum((m \ {y}) \ {p})
    BY <1>9
  <1>14. sum(m) = f[p] + f[y] + sum((m \ {p}) \ {y})
    BY <1>5, <1>7, <1>11, <1>12
  <1>15. f[y] + sum(m \ {y}) = f[p] + f[y] + sum((m \ {p}) \ {y})
    BY <1>8, <1>13, <1>11, <1>12
  <1> QED BY <1>2, <1>14, <1>15

\* Functions equal on a set have one sum over it.
LEMMA SumsAgree ==
    ASSUME NEW S, IsFiniteSet(S), NEW f, NEW g, \A x \in S : f[x] = g[x]
    PROVE  SumFunctionOnSet(f, S) = SumFunctionOnSet(g, S)
  <1> DEFINE bad == {s \in SUBSET S : SumFunctionOnSet(f, s) # SumFunctionOnSet(g, s)}
  <1> SUFFICES ASSUME bad # {} PROVE FALSE
    OBVIOUS
  <1>0. bad \in SUBSET SUBSET S
    OBVIOUS
  <1>1. PICK m \in bad : \A s \in bad : s \subseteq m => s = m
    <2> HIDE DEF bad
    <2> QED BY <1>0, SetInduction
  <1>2. m # {}
    BY SumOfEmpty
  <1>3. Pick(m) \in m
    BY <1>2, PickIsElement
  <1>4. SumFunctionOnSet(f, m \ {Pick(m)}) = SumFunctionOnSet(g, m \ {Pick(m)})
    BY <1>1, <1>3
  <1>5. IsFiniteSet(m)
    BY FS_Subset
  <1>6. /\ SumFunctionOnSet(f, m) = f[Pick(m)] + SumFunctionOnSet(f, m \ {Pick(m)})
        /\ SumFunctionOnSet(g, m) = g[Pick(m)] + SumFunctionOnSet(g, m \ {Pick(m)})
    BY <1>2, <1>5, SumOfPick
  <1> QED BY <1>3, <1>4, <1>6

\* What one changed value makes of a sum.
LEMMA SumChanges ==
    ASSUME NEW S, IsFiniteSet(S), NEW f, NEW g, NEW x \in S,
           \A y \in S : f[y] \in Int, g[x] \in Int, \A y \in S \ {x} : g[y] = f[y]
    PROVE  SumFunctionOnSet(g, S) = SumFunctionOnSet(f, S) - f[x] + g[x]
  <1>1. SumFunctionOnSet(f, S) = f[x] + SumFunctionOnSet(f, S \ {x})
    BY SumWithout
  <1>2. SumFunctionOnSet(g, S) = g[x] + SumFunctionOnSet(g, S \ {x})
    BY SumWithout
  <1>3. IsFiniteSet(S \ {x})
    BY FS_RemoveElement
  <1>4. SumFunctionOnSet(g, S \ {x}) = SumFunctionOnSet(f, S \ {x})
    BY <1>3, SumsAgree
  <1>5. SumFunctionOnSet(f, S \ {x}) \in Int
    BY <1>3, SumIsInt
  <1>6. f[x] \in Int /\ g[x] \in Int
    OBVIOUS
  <1> QED BY <1>1, <1>2, <1>4, <1>5, <1>6

\* Two changed values.
LEMMA SumChangesTwice ==
    ASSUME NEW S, IsFiniteSet(S), NEW f, NEW g, NEW x \in S, NEW z \in S, x # z,
           \A y \in S : f[y] \in Int /\ g[y] \in Int, \A y \in S \ {x, z} : g[y] = f[y]
    PROVE  SumFunctionOnSet(g, S) = SumFunctionOnSet(f, S) - f[x] - f[z] + g[x] + g[z]
  <1> DEFINE h == [y \in S |-> IF y = x THEN g[x] ELSE f[y]]
  <1>1. SumFunctionOnSet(h, S) = SumFunctionOnSet(f, S) - f[x] + h[x]
    <2>1. h[x] \in Int /\ \A y \in S \ {x} : h[y] = f[y]
      OBVIOUS
    <2> HIDE DEF h
    <2> QED BY <2>1, SumChanges
  <1>2. SumFunctionOnSet(g, S) = SumFunctionOnSet(h, S) - h[z] + g[z]
    <2>1. /\ \A y \in S : h[y] \in Int
          /\ \A y \in S \ {z} : g[y] = h[y]
      OBVIOUS
    <2> HIDE DEF h
    <2> QED BY <2>1, SumChanges
  <1>3. h[x] = g[x] /\ h[z] = f[z]
    OBVIOUS
  <1>4. SumFunctionOnSet(f, S) \in Int
    BY SumIsInt
  <1>5. f[x] \in Int /\ g[x] \in Int /\ f[z] \in Int /\ g[z] \in Int
    OBVIOUS
  <1> HIDE DEF h
  <1> QED BY <1>1, <1>2, <1>3, <1>4, <1>5

\* A sum of natural numbers is one, and none of them exceeds it.
LEMMA SumIsNat ==
    ASSUME NEW S, IsFiniteSet(S), NEW f, \A x \in S : f[x] \in Nat
    PROVE  SumFunctionOnSet(f, S) \in Nat
  <1> DEFINE bad == {s \in SUBSET S : SumFunctionOnSet(f, s) \notin Nat}
  <1> SUFFICES ASSUME bad # {} PROVE FALSE
    OBVIOUS
  <1>0. bad \in SUBSET SUBSET S
    OBVIOUS
  <1>1. PICK m \in bad : \A s \in bad : s \subseteq m => s = m
    <2> HIDE DEF bad
    <2> QED BY <1>0, SetInduction
  <1>2. m # {}
    BY SumOfEmpty
  <1>3. Pick(m) \in m
    BY <1>2, PickIsElement
  <1>4. SumFunctionOnSet(f, m \ {Pick(m)}) \in Nat
    BY <1>1, <1>3
  <1>5. IsFiniteSet(m)
    BY FS_Subset
  <1>6. SumFunctionOnSet(f, m) = f[Pick(m)] + SumFunctionOnSet(f, m \ {Pick(m)})
    BY <1>2, <1>5, SumOfPick
  <1>7. f[Pick(m)] \in Nat
    BY <1>3
  <1> HIDE DEF bad
  <1>8. SumFunctionOnSet(f, m) \in Nat
    BY <1>4, <1>6, <1>7
  <1> QED BY <1>8 DEF bad

LEMMA SumBounds ==
    ASSUME NEW S, IsFiniteSet(S), NEW f, \A y \in S : f[y] \in Nat, NEW x \in S
    PROVE  f[x] <= SumFunctionOnSet(f, S)
  <1>1. SumFunctionOnSet(f, S) = f[x] + SumFunctionOnSet(f, S \ {x})
    BY SumWithout
  <1>2. SumFunctionOnSet(f, S \ {x}) \in Nat
    BY FS_RemoveElement, SumIsNat
  <1> QED BY <1>1, <1>2

\* Nothing adds up to nothing.
LEMMA SumOfZeros ==
    ASSUME NEW S, IsFiniteSet(S), NEW f, \A x \in S : f[x] = 0
    PROVE  SumFunctionOnSet(f, S) = 0
  <1> DEFINE bad == {s \in SUBSET S : SumFunctionOnSet(f, s) # 0}
  <1> SUFFICES ASSUME bad # {} PROVE FALSE
    OBVIOUS
  <1>0. bad \in SUBSET SUBSET S
    OBVIOUS
  <1>1. PICK m \in bad : \A s \in bad : s \subseteq m => s = m
    <2> HIDE DEF bad
    <2> QED BY <1>0, SetInduction
  <1>2. m # {}
    BY SumOfEmpty
  <1>3. Pick(m) \in m
    BY <1>2, PickIsElement
  <1>4. SumFunctionOnSet(f, m \ {Pick(m)}) = 0
    BY <1>1, <1>3
  <1>5. IsFiniteSet(m)
    BY FS_Subset
  <1>6. SumFunctionOnSet(f, m) = f[Pick(m)] + SumFunctionOnSet(f, m \ {Pick(m)})
    BY <1>2, <1>5, SumOfPick
  <1>7. f[Pick(m)] = 0
    BY <1>3
  <1> HIDE DEF bad
  <1>8. SumFunctionOnSet(f, m) = 0
    BY <1>4, <1>6, <1>7
  <1> QED BY <1>8 DEF bad
=============================================================================
