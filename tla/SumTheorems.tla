---------------------------- MODULE SumTheorems -----------------------------
(***************************************************************************)
(* Sums over finite sets of numbers, for the budgets of the tools: the fold*)
(* of the community modules takes an element away by CHOOSE, and here is   *)
(* what follows for a sum, whichever is taken.  Induction is over the      *)
(* strict subsets of a finite set: a set of subsets that is not empty has  *)
(* a smallest one.                                                         *)
(***************************************************************************)
EXTENDS Naturals, Functions, FiniteSets, FiniteSetTheorems, WellFoundedInduction, TLAPS

SumOver(f, S) == FoldFunctionOnSet(+, 0, f, S)

\* One of the elements, the one that the fold takes first.
LOCAL Pick(s) == CHOOSE x \in s : TRUE

\* The partial sums, as the fold defines them: what is taken away is added.
LOCAL Sums(f, S, it) ==
  it = [s \in SUBSET S |-> IF s = {} THEN 0 ELSE f[Pick(s)] + it[s \ {Pick(s)}]]

\* Of subsets of a finite set, if there are any, one holds no other.
LEMMA SmallestSubset ==
  ASSUME NEW S, IsFiniteSet(S), NEW Bad \in SUBSET SUBSET S, Bad # {}
  PROVE  \E T \in Bad : \A U \in SUBSET T : U # T => U \notin Bad
<1>1. IsWellFoundedOn(StrictSubsetOrdering(S), SUBSET S)
  BY FS_StrictSubsetOrderingWellFounded, FS_FiniteSubsetsOfFinite
<1>2. \E T \in Bad : \A U \in Bad : ~(<<U, T>> \in StrictSubsetOrdering(S))
  BY <1>1, WFMin
<1> QED BY <1>2 DEF StrictSubsetOrdering

\* A fold is the last of its partial sums.
LEMMA SumIsFold ==
  ASSUME NEW f, NEW S
  PROVE  SumOver(f, S) = (CHOOSE it : Sums(f, S, it))[S]
BY DEF SumOver, FoldFunctionOnSet, MapThenFoldSet, Sums, Pick

\* Partial sums of a set are partial sums of its subsets.
LEMMA SumsRestrict ==
  ASSUME NEW f, NEW S, NEW T \in SUBSET S, NEW it, Sums(f, S, it),
         NEW part, part = [s \in SUBSET T |-> it[s]]
  PROVE  Sums(f, T, part)
<1>1. \A s \in SUBSET S :
        it[s] = IF s = {} THEN 0 ELSE f[Pick(s)] + it[s \ {Pick(s)}]
  BY DEF Sums
<1>2. ASSUME NEW s \in SUBSET T
      PROVE  part[s] = IF s = {} THEN 0 ELSE f[Pick(s)] + part[s \ {Pick(s)}]
  <2>1. s \in SUBSET S /\ (s \ {Pick(s)}) \in SUBSET T
    OBVIOUS
  <2> QED BY <1>1, <2>1
<1>3. part = [s \in SUBSET T |-> IF s = {} THEN 0 ELSE f[Pick(s)] + part[s \ {Pick(s)}]]
  BY <1>2
<1> QED BY <1>3 DEF Sums

\* Functions that agree on a set have the same partial sums there.
LEMMA SumsUnique ==
  ASSUME NEW f, NEW g, NEW S, IsFiniteSet(S), \A x \in S : f[x] = g[x],
         NEW it, NEW jt, Sums(f, S, it), Sums(g, S, jt)
  PROVE  it = jt
<1>1. /\ \A s \in SUBSET S :
           it[s] = IF s = {} THEN 0 ELSE f[Pick(s)] + it[s \ {Pick(s)}]
      /\ \A s \in SUBSET S :
           jt[s] = IF s = {} THEN 0 ELSE g[Pick(s)] + jt[s \ {Pick(s)}]
  BY DEF Sums
<1> DEFINE Bad == {s \in SUBSET S : it[s] # jt[s]}
<1>2. SUFFICES ASSUME Bad # {} PROVE FALSE
  <2>1. \A s \in SUBSET S : it[s] = jt[s]
    BY <1>2
  <2>2. /\ it = [s \in SUBSET S |-> it[s]]
        /\ jt = [s \in SUBSET S |-> jt[s]]
    BY DEF Sums
  <2> QED BY <2>1, <2>2
<1>b. Bad \in SUBSET SUBSET S
  OBVIOUS
<1>3. PICK T \in Bad : \A U \in SUBSET T : U # T => U \notin Bad
  <2> HIDE DEF Bad
  <2> QED BY <1>2, <1>b, SmallestSubset
<1>4. T # {}
  BY <1>1, <1>3
<1>5. Pick(T) \in T
  BY <1>4 DEF Pick
<1>6. it[T \ {Pick(T)}] = jt[T \ {Pick(T)}]
  BY <1>3, <1>5
<1> QED BY <1>1, <1>3, <1>4, <1>5, <1>6

\* A finite set has partial sums.
LEMMA SumsExist ==
  ASSUME NEW f, NEW S, IsFiniteSet(S)
  PROVE  \E it : Sums(f, S, it)
<1> DEFINE Bad == {s \in SUBSET S : ~\E it : Sums(f, s, it)}
<1>1. SUFFICES ASSUME Bad # {} PROVE FALSE
  BY <1>1
<1>b. Bad \in SUBSET SUBSET S
  OBVIOUS
<1>2. PICK T \in Bad : \A U \in SUBSET T : U # T => U \notin Bad
  <2> HIDE DEF Bad
  <2> QED BY <1>1, <1>b, SmallestSubset
<1>3. IsFiniteSet(T)
  BY FS_Subset
<1> DEFINE of(U) == CHOOSE it : Sums(f, U, it)
<1>4. ASSUME NEW U \in SUBSET T, U # T PROVE Sums(f, U, of(U))
  BY <1>2, <1>4
<1> DEFINE value(U) == IF U = {} THEN 0 ELSE f[Pick(U)] + of(U \ {Pick(U)})[U \ {Pick(U)}]
           all == [s \in SUBSET T |-> value(s)]
<1>5. ASSUME NEW U \in SUBSET T, U # T PROVE of(U)[U] = value(U)
  <2>1. CASE U = {}
    <3>1. Sums(f, U, of(U)) /\ U \in SUBSET U
      BY <1>4, <1>5
    <3> HIDE DEF of
    <3>2. of(U)[U] = 0
      BY <2>1, <3>1 DEF Sums
    <3> QED BY <2>1, <3>2
  <2>2. CASE U # {}
    <3> DEFINE V == U \ {Pick(U)}
    <3>1. Pick(U) \in U /\ V \in SUBSET U /\ V \in SUBSET T /\ V # T
      BY <2>2, <1>5 DEF Pick
    <3>2. IsFiniteSet(V)
      BY <1>3, FS_Subset, <3>1
    <3>3. Sums(f, U, of(U)) /\ Sums(f, V, of(V))
      BY <1>4, <1>5, <3>1
    <3> HIDE DEF of
    <3> DEFINE part == [s \in SUBSET V |-> of(U)[s]]
    <3>4. part[V] = of(U)[V]
      OBVIOUS
    <3>5. Sums(f, V, part)
      <4>1. V \in SUBSET U
        BY <3>1
      <4> HIDE DEF V
      <4> QED BY <4>1, <3>3, SumsRestrict
    <3> HIDE DEF part
    <3>6. part = of(V)
      BY <3>2, <3>3, <3>5, SumsUnique
    <3>7. of(U)[U] = f[Pick(U)] + of(U)[V]
      BY <2>2, <3>3 DEF Sums
    <3> QED BY <2>2, <3>4, <3>6, <3>7
  <2> QED BY <2>1, <2>2
<1>6. ASSUME NEW s \in SUBSET T
      PROVE  all[s] = IF s = {} THEN 0 ELSE f[Pick(s)] + all[s \ {Pick(s)}]
  <2>1. CASE s = {}
    BY <2>1
  <2>2. CASE s # {}
    <3>1. Pick(s) \in s
      BY <2>2 DEF Pick
    <3>2. (s \ {Pick(s)}) \in SUBSET T /\ s \ {Pick(s)} # T
      BY <3>1
    <3>3. all[s \ {Pick(s)}] = of(s \ {Pick(s)})[s \ {Pick(s)}]
      BY <1>5, <3>2
    <3> QED BY <2>2, <3>3
  <2> QED BY <2>1, <2>2
<1> HIDE DEF all
<1>7. all = [s \in SUBSET T |-> all[s]]
  BY DEF all
<1>8. all = [s \in SUBSET T |-> IF s = {} THEN 0 ELSE f[Pick(s)] + all[s \ {Pick(s)}]]
  BY <1>6, <1>7
<1>9. Sums(f, T, all)
  BY <1>8 DEF Sums
<1> QED BY <1>2, <1>9

\* The sum takes one element away, that of its choice, and goes on with the rest.
LEMMA SumStep ==
  ASSUME NEW f, NEW S, IsFiniteSet(S)
  PROVE  SumOver(f, S) = IF S = {} THEN 0 ELSE f[Pick(S)] + SumOver(f, S \ {Pick(S)})
<1> DEFINE it == CHOOSE jt : Sums(f, S, jt)
<1>1. Sums(f, S, it)
  BY SumsExist
<1>2. CASE S = {}
  <2>1. it[S] = 0
    BY <1>1, <1>2 DEF Sums
  <2> QED BY <1>2, <2>1, SumIsFold
<1>3. CASE S # {}
  <2> DEFINE T == S \ {Pick(S)}
             jt == CHOOSE kt : Sums(f, T, kt)
  <2>1. IsFiniteSet(T)
    BY FS_Subset
  <2>2. Sums(f, T, jt)
    BY <2>1, SumsExist
  <2>3. SumOver(f, S) = it[S] /\ SumOver(f, T) = jt[T]
    BY SumIsFold
  <2> HIDE DEF it, jt
  <2> DEFINE part == [s \in SUBSET T |-> it[s]]
  <2>4. part[T] = it[T]
    OBVIOUS
  <2>5. Sums(f, T, part)
    <3>1. T \in SUBSET S
      OBVIOUS
    <3> HIDE DEF T
    <3> QED BY <3>1, <1>1, SumsRestrict
  <2> HIDE DEF part
  <2>6. it[T] = jt[T]
    BY <2>1, <2>2, <2>4, <2>5, SumsUnique
  <2>7. it[S] = f[Pick(S)] + it[T]
    BY <1>1, <1>3 DEF Sums
  <2> QED BY <1>3, <2>3, <2>6, <2>7
<1> QED BY <1>2, <1>3

\* Functions that agree on a finite set have the same sum over it.
LEMMA SumAgrees ==
  ASSUME NEW f, NEW g, NEW S, IsFiniteSet(S), \A x \in S : f[x] = g[x]
  PROVE  SumOver(f, S) = SumOver(g, S)
<1> DEFINE it == CHOOSE kt : Sums(f, S, kt)
           jt == CHOOSE kt : Sums(g, S, kt)
<1>1. Sums(f, S, it) /\ Sums(g, S, jt)
  BY SumsExist
<1>2. SumOver(f, S) = it[S] /\ SumOver(g, S) = jt[S]
  BY SumIsFold
<1> HIDE DEF it, jt
<1>3. it = jt
  BY <1>1, SumsUnique
<1> QED BY <1>2, <1>3

LEMMA SumType ==
  ASSUME NEW f, NEW S, IsFiniteSet(S), \A x \in S : f[x] \in Nat
  PROVE  SumOver(f, S) \in Nat
<1> DEFINE Bad == {T \in SUBSET S : SumOver(f, T) \notin Nat}
<1>1. SUFFICES ASSUME Bad # {} PROVE FALSE
  BY <1>1
<1>2. Bad \in SUBSET SUBSET S
  OBVIOUS
<1>3. PICK T \in Bad : \A U \in SUBSET T : U # T => U \notin Bad
  <2> HIDE DEF Bad
  <2> QED BY <1>1, <1>2, SmallestSubset
<1>4. IsFiniteSet(T) /\ SumOver(f, T) \notin Nat
  BY <1>3, FS_Subset
<1>5. SumOver(f, T) = IF T = {} THEN 0 ELSE f[Pick(T)] + SumOver(f, T \ {Pick(T)})
  BY <1>4, SumStep
<1>6. T # {}
  BY <1>4, <1>5
<1>7. Pick(T) \in T
  BY <1>6 DEF Pick
<1>8. SumOver(f, T \ {Pick(T)}) \in Nat /\ f[Pick(T)] \in Nat
  BY <1>3, <1>7
<1> HIDE DEF Bad
<1> QED BY <1>4, <1>5, <1>6, <1>8

\* Any element can be taken away first.
LEMMA SumRemove ==
  ASSUME NEW f, NEW S, IsFiniteSet(S), \A x \in S : f[x] \in Nat, NEW x \in S
  PROVE  SumOver(f, S) = f[x] + SumOver(f, S \ {x})
<1> DEFINE Bad == {T \in SUBSET S : \E y \in T : SumOver(f, T) # f[y] + SumOver(f, T \ {y})}
<1>1. SUFFICES ASSUME Bad # {} PROVE FALSE
  BY <1>1
<1>2. Bad \in SUBSET SUBSET S
  OBVIOUS
<1>3. PICK T \in Bad : \A U \in SUBSET T : U # T => U \notin Bad
  <2> HIDE DEF Bad
  <2> QED BY <1>1, <1>2, SmallestSubset
<1>4. PICK y \in T : SumOver(f, T) # f[y] + SumOver(f, T \ {y})
  BY <1>3
<1>5. IsFiniteSet(T) /\ T \in SUBSET S /\ T # {}
  BY <1>3, <1>4, FS_Subset
<1> DEFINE a == Pick(T)
           rest == T \ {a, y}
<1>6. a \in T
  BY <1>5 DEF Pick
<1>7. SumOver(f, T) = f[a] + SumOver(f, T \ {a})
  BY <1>5, SumStep
<1> HIDE DEF a
<1>8. a # y
  BY <1>4, <1>7
<1>9. /\ T \ {a} \in SUBSET T /\ T \ {a} # T /\ y \in T \ {a} /\ (T \ {a}) \ {y} = rest
      /\ T \ {y} \in SUBSET T /\ T \ {y} # T /\ a \in T \ {y} /\ (T \ {y}) \ {a} = rest
  BY <1>6, <1>8
<1>10. /\ SumOver(f, T \ {a}) = f[y] + SumOver(f, rest)
       /\ SumOver(f, T \ {y}) = f[a] + SumOver(f, rest)
  <2>1. \A U \in SUBSET T : \A z \in U :
          U # T => SumOver(f, U) = f[z] + SumOver(f, U \ {z})
    BY <1>3, <1>5
  <2> HIDE DEF rest
  <2> QED BY <1>9, <2>1
<1>11. f[a] \in Nat /\ f[y] \in Nat /\ SumOver(f, rest) \in Nat
  <2>1. IsFiniteSet(rest) /\ \A z \in rest : f[z] \in Nat
    BY <1>5, FS_Subset
  <2> QED BY <1>5, <1>6, <2>1, SumType
<1> HIDE DEF Bad, rest
<1> QED BY <1>4, <1>7, <1>10, <1>11

\* What a sum gains with one element more.
LEMMA SumAdd ==
  ASSUME NEW f, NEW S, IsFiniteSet(S), NEW x, x \notin S, f[x] \in Nat, \A y \in S : f[y] \in Nat
  PROVE  /\ SumOver(f, S \cup {x}) = SumOver(f, S) + f[x]
         /\ SumOver(f, S) \in Nat
<1>1. IsFiniteSet(S \cup {x}) /\ (S \cup {x}) \ {x} = S
  BY FS_AddElement
<1>2. SumOver(f, S \cup {x}) = f[x] + SumOver(f, S)
  <2> DEFINE more == S \cup {x}
  <2>1. x \in more /\ \A y \in more : f[y] \in Nat
    OBVIOUS
  <2>2. IsFiniteSet(more) /\ more \ {x} = S
    BY <1>1
  <2> HIDE DEF more
  <2>3. SumOver(f, more) = f[x] + SumOver(f, more \ {x})
    BY <2>1, <2>2, SumRemove
  <2> QED BY <2>2, <2>3 DEF more
<1>3. SumOver(f, S) \in Nat
  BY SumType
<1> QED BY <1>2, <1>3

\* The sum over nothing.
LEMMA SumOfNone == \A f : SumOver(f, {}) = 0
BY FS_EmptySet, SumStep

\* A sum is no more than that over a larger set.
LEMMA SumWithin ==
  ASSUME NEW f, NEW S, IsFiniteSet(S), \A x \in S : f[x] \in Nat, NEW T \in SUBSET S
  PROVE  SumOver(f, T) \in Nat /\ SumOver(f, S) \in Nat /\ SumOver(f, T) <= SumOver(f, S)
<1> DEFINE Bad == {U \in SUBSET S : T \subseteq U /\ ~(SumOver(f, T) <= SumOver(f, U))}
<1>1. \A U \in SUBSET S : IsFiniteSet(U) /\ SumOver(f, U) \in Nat
  <2>1. ASSUME NEW U \in SUBSET S PROVE IsFiniteSet(U) /\ SumOver(f, U) \in Nat
    <3>1. IsFiniteSet(U) /\ \A x \in U : f[x] \in Nat
      BY FS_Subset
    <3> QED BY <3>1, SumType
  <2> QED BY <2>1
<1>2. ASSUME Bad # {} PROVE FALSE
  <2>1. PICK U \in Bad : \A V \in SUBSET U : V # U => V \notin Bad
    <3>1. Bad \in SUBSET SUBSET S
      OBVIOUS
    <3> HIDE DEF Bad
    <3> QED BY <1>2, <3>1, SmallestSubset
  <2>2. /\ U \in SUBSET S /\ T \subseteq U /\ ~(SumOver(f, T) <= SumOver(f, U))
        /\ SumOver(f, T) \in Nat /\ SumOver(f, U) \in Nat
    BY <1>1, <2>1
  <2>3. U # T
    BY <2>2
  <2>4. PICK x \in U : x \notin T
    BY <2>2, <2>3
  <2>5. /\ U \ {x} \in SUBSET S /\ U \ {x} # U /\ T \subseteq U \ {x}
        /\ f[x] \in Nat /\ SumOver(f, U \ {x}) \in Nat
    BY <1>1, <2>2, <2>4
  <2>6. SumOver(f, T) <= SumOver(f, U \ {x})
    BY <2>1, <2>5
  <2>7. SumOver(f, U) = f[x] + SumOver(f, U \ {x})
    <3>1. IsFiniteSet(U) /\ \A y \in U : f[y] \in Nat
      BY <1>1, <2>2
    <3> QED BY <2>4, <3>1, SumRemove
  <2> HIDE DEF Bad
  <2> QED BY <2>2, <2>5, <2>6, <2>7
<1>3. S \notin Bad
  BY <1>2
<1>4. SumOver(f, T) <= SumOver(f, S)
  BY <1>3
<1> QED BY <1>1, <1>4
=============================================================================
