------------------------------- MODULE SumTheorems -------------------------------
(***************************************************************************)
(* What SumFunctionOnSet of the module Functions computes over a finite    *)
(* set of integers.  Induction is written with sets: if a claim fails for  *)
(* some subset of a finite set it fails for a smallest one, which the      *)
(* theorem WFMin of WellFoundedInduction says of sets, not of operators.   *)
(***************************************************************************)
EXTENDS Functions, FiniteSetTheorems, TLAPS

\* f adds up over the subsets of S by taking one element away after another.
AddsUp(g, f, S) ==
    g = [s \in SUBSET S |-> IF s = {} THEN 0
                            ELSE LET x == CHOOSE x \in s : TRUE IN f[x] + g[s \ {x}]]

\* A family of subsets of a finite set has a smallest member.
LEMMA SmallestSet ==
  ASSUME NEW S, IsFiniteSet(S), NEW F \in SUBSET (SUBSET S), F # {}
  PROVE  \E T \in F : \A U \in F : U \subseteq T => U = T
<1>1. IsWellFoundedOn(StrictSubsetOrdering(S), SUBSET S)
  BY FS_StrictSubsetOrderingWellFounded, FS_FiniteSubsetsOfFinite
<1>2. PICK T \in F : \A U \in F : ~ (<<U, T>> \in StrictSubsetOrdering(S))
  BY <1>1, WFMin
<1>3. \A U \in F : U \subseteq T => U = T
  BY <1>2 DEF StrictSubsetOrdering
<1>. QED
  BY <1>3

\* The sum is the recursive function of its definition.
LEMMA SumIsIter ==
  ASSUME NEW f, NEW S
  PROVE  SumFunctionOnSet(f, S) = (CHOOSE g : AddsUp(g, f, S))[S]
BY DEF SumFunctionOnSet, FoldFunctionOnSet, MapThenFoldSet, AddsUp

\* Two such functions agree where both are defined.
LEMMA IterUnique ==
  ASSUME NEW f, NEW A, IsFiniteSet(A), NEW B, NEW g, NEW h, AddsUp(g, f, A), AddsUp(h, f, B),
         NEW T, T \subseteq A, T \subseteq B
  PROVE  g[T] = h[T]
<1>. DEFINE F == {s \in SUBSET A : s \subseteq B /\ g[s] # h[s]}
<1>. SUFFICES ASSUME F # {} PROVE FALSE
  OBVIOUS
<1>1. F \in SUBSET (SUBSET A)
  OBVIOUS
<1>. HIDE DEF F
<1>2. PICK s \in F : \A u \in F : u \subseteq s => u = s
  BY <1>1, SmallestSet
<1>. USE DEF F
<1>3. s # {}
  BY <1>2 DEF AddsUp
<1>. DEFINE x == CHOOSE y \in s : TRUE
<1>4. x \in s
  BY <1>3
<1>5. g[s] = f[x] + g[s \ {x}] /\ h[s] = f[x] + h[s \ {x}]
  BY <1>2, <1>3 DEF AddsUp
<1>6. g[s \ {x}] = h[s \ {x}]
  BY <1>2, <1>4
<1>. QED
  BY <1>2, <1>5, <1>6

\* There is one for every finite set.
LEMMA IterExists ==
  ASSUME NEW f, NEW S, IsFiniteSet(S)
  PROVE  \E g : AddsUp(g, f, S)
<1>. DEFINE F == {T \in SUBSET S : ~ \E g : AddsUp(g, f, T)}
            G(U) == CHOOSE g : AddsUp(g, f, U)
<1>. SUFFICES ASSUME F # {} PROVE FALSE
  OBVIOUS
<1>1. F \in SUBSET (SUBSET S)
  OBVIOUS
<1>. HIDE DEF F
<1>2. PICK T \in F : \A U \in F : U \subseteq T => U = T
  BY <1>1, SmallestSet
<1>. USE DEF F
<1>3. \A U \in SUBSET T : U # T => IsFiniteSet(U) /\ AddsUp(G(U), f, U)
  BY <1>2, FS_Subset
<1>. DEFINE first(s) == CHOOSE y \in s : TRUE
            h == [s \in SUBSET T |->
                    IF s = {} THEN 0 ELSE LET x == CHOOSE y \in s : TRUE IN f[x] + G(s \ {x})[s \ {x}]]
<1>. HIDE DEF F, G
<1>4. ASSUME NEW u \in SUBSET T, u # T PROVE h[u] = G(u)[u]
  <2>1. CASE u = {}
    BY <1>3, <1>4, <2>1 DEF AddsUp
  <2>2. CASE u # {}
    <3>1. first(u) \in u
      BY <2>2
    <3>2. h[u] = f[first(u)] + G(u \ {first(u)})[u \ {first(u)}]
      BY <2>2
    <3>3. G(u)[u] = f[first(u)] + G(u)[u \ {first(u)}]
      BY <1>3, <1>4, <2>2 DEF AddsUp
    <3>4. u \ {first(u)} \in SUBSET T /\ u \ {first(u)} # T
      BY <1>4, <3>1
    <3>5. G(u \ {first(u)})[u \ {first(u)}] = G(u)[u \ {first(u)}]
      BY <1>3, <1>4, <3>4, IterUnique
    <3>. QED
      BY <3>2, <3>3, <3>5
  <2>. QED
    BY <2>1, <2>2
<1>5. ASSUME NEW s \in SUBSET T, s # {} PROVE h[s] = f[first(s)] + h[s \ {first(s)}]
  <2>1. first(s) \in s
    BY <1>5
  <2>2. s \ {first(s)} \in SUBSET T /\ s \ {first(s)} # T
    BY <2>1
  <2>3. h[s] = f[first(s)] + G(s \ {first(s)})[s \ {first(s)}]
    BY <1>5
  <2>. QED
    BY <1>4, <2>2, <2>3
<1>6. h[{}] = 0 /\ DOMAIN h = SUBSET T
  OBVIOUS
<1>7. AddsUp([s \in SUBSET T |-> h[s]], f, T)
  BY <1>5, <1>6 DEF AddsUp
<1>. QED
  BY <1>2, <1>7 DEF F

\* The empty sum.
LEMMA SumEmpty == ASSUME NEW f PROVE SumFunctionOnSet(f, {}) = 0
<1>1. AddsUp(CHOOSE g : AddsUp(g, f, {}), f, {})
  BY IterExists, FS_EmptySet
<1>. QED
  BY <1>1, SumIsIter DEF AddsUp

\* One element is taken away, the one the definition chooses.
LEMMA SumFirst ==
  ASSUME NEW f, NEW S, IsFiniteSet(S), S # {}
  PROVE  \E x \in S : SumFunctionOnSet(f, S) = f[x] + SumFunctionOnSet(f, S \ {x})
<1>. DEFINE G(U) == CHOOSE g : AddsUp(g, f, U)
            x == CHOOSE y \in S : TRUE
<1>1. x \in S
  OBVIOUS
<1>2. IsFiniteSet(S \ {x})
  BY FS_Subset
<1>3. AddsUp(G(S), f, S) /\ AddsUp(G(S \ {x}), f, S \ {x})
  BY <1>2, IterExists
<1>4. G(S)[S] = f[x] + G(S)[S \ {x}]
  BY <1>3 DEF AddsUp
<1>5. G(S)[S \ {x}] = G(S \ {x})[S \ {x}]
  BY <1>3, IterUnique
<1>6. SumFunctionOnSet(f, S) = G(S)[S] /\ SumFunctionOnSet(f, S \ {x}) = G(S \ {x})[S \ {x}]
  BY SumIsIter
<1>. QED
  BY <1>1, <1>4, <1>5, <1>6

\* A sum of integers is one.
LEMMA SumInt ==
  ASSUME NEW f, NEW S, IsFiniteSet(S), \A x \in S : f[x] \in Int
  PROVE  SumFunctionOnSet(f, S) \in Int
<1>. DEFINE F == {T \in SUBSET S : SumFunctionOnSet(f, T) \notin Int}
<1>. SUFFICES ASSUME F # {} PROVE FALSE
  OBVIOUS
<1>1. F \in SUBSET (SUBSET S)
  OBVIOUS
<1>. HIDE DEF F
<1>2. PICK T \in F : \A U \in F : U \subseteq T => U = T
  BY <1>1, SmallestSet
<1>. USE DEF F
<1>3. T # {}
  <2>1. SumFunctionOnSet(f, {}) = 0
    BY SumEmpty
  <2>2. SumFunctionOnSet(f, T) \notin Int
    BY <1>2
  <2>3. SumFunctionOnSet(f, {}) \in Int
    BY <2>1
  <2>. QED
    BY <2>2, <2>3, Zenon
<1>4. PICK x \in T : SumFunctionOnSet(f, T) = f[x] + SumFunctionOnSet(f, T \ {x})
  BY <1>2, <1>3, SumFirst, FS_Subset
<1>5. SumFunctionOnSet(f, T \ {x}) \in Int
  BY <1>2
<1>. QED
  BY <1>2, <1>4, <1>5

\* Any element can be the one that is taken away: the order of adding does not matter.
LEMMA SumTake ==
  ASSUME NEW f, NEW S, IsFiniteSet(S), \A x \in S : f[x] \in Int, NEW e \in S
  PROVE  SumFunctionOnSet(f, S) = f[e] + SumFunctionOnSet(f, S \ {e})
<1>. DEFINE Sum(T) == SumFunctionOnSet(f, T)
            F == {T \in SUBSET S : \E x \in T : Sum(T) # f[x] + Sum(T \ {x})}
<1>. SUFFICES ASSUME F # {} PROVE FALSE
  OBVIOUS
<1>1. F \in SUBSET (SUBSET S)
  OBVIOUS
<1>. HIDE DEF F
<1>2. PICK T \in F : \A U \in F : U \subseteq T => U = T
  BY <1>1, SmallestSet
<1>. USE DEF F
<1>3. PICK x \in T : Sum(T) # f[x] + Sum(T \ {x})
  BY <1>2
<1>4. \A U \in SUBSET T : IsFiniteSet(U) /\ Sum(U) \in Int
  BY <1>2, FS_Subset, SumInt
<1>5. PICK y \in T : Sum(T) = f[y] + Sum(T \ {y})
  BY <1>2, <1>3, <1>4, SumFirst
<1>6. x # y
  BY <1>3, <1>5
<1>7. ASSUME NEW u \in T, NEW v \in T, u # v PROVE Sum(T \ {u}) = f[v] + Sum((T \ {u}) \ {v})
  <2>1. T \ {u} \in SUBSET S /\ T \ {u} # T /\ v \in T \ {u}
    BY <1>2, <1>7
  <2>2. T \ {u} \notin F
    BY <1>2, <2>1
  <2>. QED
    BY <2>1, <2>2
<1>8. (T \ {y}) \ {x} = (T \ {x}) \ {y}
  OBVIOUS
<1>9. f[x] \in Int /\ f[y] \in Int /\ Sum((T \ {x}) \ {y}) \in Int
  BY <1>2, <1>4
<1>10. Sum(T \ {y}) = f[x] + Sum((T \ {x}) \ {y}) /\ Sum(T \ {x}) = f[y] + Sum((T \ {x}) \ {y})
  BY <1>3, <1>5, <1>6, <1>7, <1>8
<1>. HIDE DEF Sum, F
<1>. QED
  BY <1>3, <1>5, <1>9, <1>10

\* Only the values of the elements count.
LEMMA SumSame ==
  ASSUME NEW f, NEW g, NEW S, IsFiniteSet(S), \A x \in S : f[x] \in Int /\ f[x] = g[x]
  PROVE  SumFunctionOnSet(f, S) = SumFunctionOnSet(g, S)
<1>. DEFINE F == {T \in SUBSET S : SumFunctionOnSet(f, T) # SumFunctionOnSet(g, T)}
<1>. SUFFICES ASSUME F # {} PROVE FALSE
  OBVIOUS
<1>1. F \in SUBSET (SUBSET S)
  OBVIOUS
<1>. HIDE DEF F
<1>2. PICK T \in F : \A U \in F : U \subseteq T => U = T
  BY <1>1, SmallestSet
<1>3. T \in SUBSET S /\ SumFunctionOnSet(f, T) # SumFunctionOnSet(g, T)
  BY <1>2 DEF F
<1>4. PICK x \in T : TRUE
  BY <1>3, SumEmpty
<1>5. T \ {x} \notin F /\ T \ {x} \in SUBSET S /\ IsFiniteSet(T)
  BY <1>2, <1>3, <1>4, FS_Subset
<1>6. SumFunctionOnSet(f, T \ {x}) = SumFunctionOnSet(g, T \ {x})
  BY <1>5 DEF F
<1>7. /\ SumFunctionOnSet(f, T) = f[x] + SumFunctionOnSet(f, T \ {x})
      /\ SumFunctionOnSet(g, T) = g[x] + SumFunctionOnSet(g, T \ {x})
  BY <1>3, <1>4, <1>5, SumTake
<1>. QED
  BY <1>3, <1>4, <1>6, <1>7

\* One more element.
LEMMA SumAdd ==
  ASSUME NEW f, NEW S, IsFiniteSet(S), \A x \in S : f[x] \in Int, NEW e, e \notin S, f[e] \in Int
  PROVE  SumFunctionOnSet(f, S \cup {e}) = SumFunctionOnSet(f, S) + f[e]
<1>1. IsFiniteSet(S \cup {e}) /\ (S \cup {e}) \ {e} = S
  BY FS_AddElement
<1>2. SumFunctionOnSet(f, S \cup {e}) = f[e] + SumFunctionOnSet(f, (S \cup {e}) \ {e})
  BY <1>1, SumTake
<1>3. SumFunctionOnSet(f, (S \cup {e}) \ {e}) = SumFunctionOnSet(f, S)
  BY <1>1
<1>4. SumFunctionOnSet(f, S) \in Int
  BY SumInt
<1>. QED
  BY <1>2, <1>3, <1>4

\* One value changes.
LEMMA SumChange ==
  ASSUME NEW f, NEW g, NEW S, IsFiniteSet(S), \A x \in S : f[x] \in Int /\ g[x] \in Int,
         NEW e \in S, \A x \in S \ {e} : g[x] = f[x]
  PROVE  SumFunctionOnSet(g, S) = SumFunctionOnSet(f, S) + g[e] - f[e]
<1>1. IsFiniteSet(S \ {e})
  BY FS_Subset
<1>2. SumFunctionOnSet(g, S \ {e}) = SumFunctionOnSet(f, S \ {e})
  BY <1>1, SumSame
<1>3. /\ SumFunctionOnSet(g, S) = g[e] + SumFunctionOnSet(g, S \ {e})
      /\ SumFunctionOnSet(f, S) = f[e] + SumFunctionOnSet(f, S \ {e})
      /\ SumFunctionOnSet(f, S \ {e}) \in Int
  BY <1>1, SumTake, SumInt
<1>. QED
  BY <1>2, <1>3

\* Values are added one by one.
LEMMA SumPlus ==
  ASSUME NEW f, NEW g, NEW h, NEW S, IsFiniteSet(S),
         \A x \in S : f[x] \in Int /\ g[x] \in Int /\ h[x] = f[x] + g[x]
  PROVE  SumFunctionOnSet(h, S) = SumFunctionOnSet(f, S) + SumFunctionOnSet(g, S)
<1>. DEFINE F == {T \in SUBSET S : SumFunctionOnSet(h, T) # SumFunctionOnSet(f, T) + SumFunctionOnSet(g, T)}
<1>. SUFFICES ASSUME F # {} PROVE FALSE
  OBVIOUS
<1>1. F \in SUBSET (SUBSET S)
  OBVIOUS
<1>. HIDE DEF F
<1>2. PICK T \in F : \A U \in F : U \subseteq T => U = T
  BY <1>1, SmallestSet
<1>3. /\ T \in SUBSET S /\ IsFiniteSet(T)
      /\ SumFunctionOnSet(h, T) # SumFunctionOnSet(f, T) + SumFunctionOnSet(g, T)
  BY <1>2, FS_Subset DEF F
<1>4. PICK x \in T : TRUE
  <2>. SUFFICES T # {}
    OBVIOUS
  <2>1. SumFunctionOnSet(f, {}) = 0 /\ SumFunctionOnSet(g, {}) = 0 /\ SumFunctionOnSet(h, {}) = 0
    BY SumEmpty
  <2>. QED
    BY <1>3, <2>1
<1>5. T \ {x} \notin F /\ T \ {x} \in SUBSET S /\ IsFiniteSet(T \ {x})
  BY <1>2, <1>3, <1>4, FS_Subset
<1>6. SumFunctionOnSet(h, T \ {x}) = SumFunctionOnSet(f, T \ {x}) + SumFunctionOnSet(g, T \ {x})
  BY <1>5 DEF F
<1>7. \A y \in T : f[y] \in Int /\ g[y] \in Int /\ h[y] \in Int /\ h[y] = f[y] + g[y]
  BY <1>3
<1>8. /\ SumFunctionOnSet(f, T) = f[x] + SumFunctionOnSet(f, T \ {x})
      /\ SumFunctionOnSet(g, T) = g[x] + SumFunctionOnSet(g, T \ {x})
      /\ SumFunctionOnSet(h, T) = h[x] + SumFunctionOnSet(h, T \ {x})
  BY <1>3, <1>4, <1>7, SumTake
<1>9. SumFunctionOnSet(f, T \ {x}) \in Int /\ SumFunctionOnSet(g, T \ {x}) \in Int
  BY <1>5, <1>7, SumInt
<1>. QED
  BY <1>3, <1>4, <1>6, <1>7, <1>8, <1>9

\* Nothing adds up to nothing.
LEMMA SumZero ==
  ASSUME NEW f, NEW S, IsFiniteSet(S), \A x \in S : f[x] = 0
  PROVE  SumFunctionOnSet(f, S) = 0
<1>. DEFINE n == SumFunctionOnSet(f, S)
<1>1. \A x \in S : f[x] \in Int /\ f[x] = f[x] + f[x]
  OBVIOUS
<1>2. n = n + n
  BY <1>1, SumPlus
<1>3. n \in Int
  BY <1>1, SumInt
<1>. HIDE DEF n
<1>4. n = 0
  BY <1>2, <1>3
<1>. QED
  BY <1>4 DEF n

\* Two sets without a common element.
LEMMA SumParts ==
  ASSUME NEW f, NEW S, NEW R, IsFiniteSet(S), IsFiniteSet(R), S \cap R = {},
         \A x \in S \cup R : f[x] \in Int
  PROVE  SumFunctionOnSet(f, S \cup R) = SumFunctionOnSet(f, S) + SumFunctionOnSet(f, R)
<1>. DEFINE F == {T \in SUBSET R :
                    SumFunctionOnSet(f, S \cup T) # SumFunctionOnSet(f, S) + SumFunctionOnSet(f, T)}
<1>. SUFFICES ASSUME F # {} PROVE FALSE
  OBVIOUS
<1>1. F \in SUBSET (SUBSET R)
  OBVIOUS
<1>. HIDE DEF F
<1>2. PICK T \in F : \A U \in F : U \subseteq T => U = T
  BY <1>1, SmallestSet
<1>3. /\ T \in SUBSET R /\ IsFiniteSet(T) /\ SumFunctionOnSet(f, S) \in Int
      /\ SumFunctionOnSet(f, S \cup T) # SumFunctionOnSet(f, S) + SumFunctionOnSet(f, T)
  BY <1>2, FS_Subset, SumInt DEF F
<1>4. ASSUME T = {} PROVE FALSE
  <2>1. SumFunctionOnSet(f, T) = 0
    BY <1>4, SumEmpty
  <2>2. S \cup T = S
    BY <1>4
  <2>3. SumFunctionOnSet(f, S \cup T) = SumFunctionOnSet(f, S)
    BY <2>2
  <2>. QED
    BY <1>3, <2>1, <2>3
<1>5. PICK x \in T : TRUE
  BY <1>4
<1>6. T \ {x} \notin F /\ T \ {x} \in SUBSET R /\ IsFiniteSet(T \ {x})
  BY <1>2, <1>3, <1>5, FS_Subset
<1>7. SumFunctionOnSet(f, S \cup (T \ {x})) = SumFunctionOnSet(f, S) + SumFunctionOnSet(f, T \ {x})
  BY <1>6 DEF F
<1>8. x \notin S \cup (T \ {x}) /\ (S \cup (T \ {x})) \cup {x} = S \cup T /\ IsFiniteSet(S \cup (T \ {x}))
  BY <1>3, <1>5, <1>6, FS_Union
<1>9. SumFunctionOnSet(f, (S \cup (T \ {x})) \cup {x}) = SumFunctionOnSet(f, S \cup (T \ {x})) + f[x]
  BY <1>3, <1>5, <1>8, SumAdd
<1>10. SumFunctionOnSet(f, T) = f[x] + SumFunctionOnSet(f, T \ {x}) /\ SumFunctionOnSet(f, T \ {x}) \in Int
  BY <1>3, <1>5, <1>6, SumTake, SumInt
<1>11. SumFunctionOnSet(f, S \cup T) = SumFunctionOnSet(f, S \cup (T \ {x})) + f[x]
  BY <1>8, <1>9
<1>12. f[x] \in Int
  BY <1>3, <1>5
<1>. QED
  BY <1>3, <1>7, <1>10, <1>11, <1>12

\* Numbers that are not negative add up to no less than each of them.
LEMMA SumNat ==
  ASSUME NEW f, NEW S, IsFiniteSet(S), \A x \in S : f[x] \in Nat
  PROVE  SumFunctionOnSet(f, S) \in Nat /\ \A x \in S : f[x] <= SumFunctionOnSet(f, S)
<1>. DEFINE F == {T \in SUBSET S : SumFunctionOnSet(f, T) \notin Nat}
<1>1. F \in SUBSET (SUBSET S)
  OBVIOUS
<1>. HIDE DEF F
<1>2. F = {}
  <2>. SUFFICES ASSUME F # {} PROVE FALSE
    OBVIOUS
  <2>1. PICK T \in F : \A U \in F : U \subseteq T => U = T
    BY <1>1, SmallestSet
  <2>2. T \in SUBSET S /\ IsFiniteSet(T) /\ SumFunctionOnSet(f, T) \notin Nat
    BY <2>1, FS_Subset DEF F
  <2>3. PICK x \in T : TRUE
    BY <2>2, SumEmpty
  <2>4. T \ {x} \notin F /\ T \ {x} \in SUBSET S
    BY <2>1, <2>2, <2>3
  <2>5. SumFunctionOnSet(f, T \ {x}) \in Nat
    BY <2>4 DEF F
  <2>6. SumFunctionOnSet(f, T) = f[x] + SumFunctionOnSet(f, T \ {x}) /\ f[x] \in Nat
    BY <2>2, <2>3, SumTake
  <2>. QED
    BY <2>2, <2>5, <2>6
<1>3. \A T \in SUBSET S : SumFunctionOnSet(f, T) \in Nat
  BY <1>2 DEF F
<1>4. ASSUME NEW x \in S PROVE f[x] <= SumFunctionOnSet(f, S)
  <2>1. SumFunctionOnSet(f, S) = f[x] + SumFunctionOnSet(f, S \ {x})
    BY SumTake
  <2>2. S \ {x} \in SUBSET S
    OBVIOUS
  <2>3. SumFunctionOnSet(f, S \ {x}) \in Nat /\ f[x] \in Nat
    BY <1>3, <2>2
  <2>. QED
    BY <2>1, <2>3
<1>. QED
  BY <1>3, <1>4

\* What is left out of a sum of numbers that are not negative makes it no larger.
LEMMA SumSubset ==
  ASSUME NEW f, NEW R, IsFiniteSet(R), NEW S \in SUBSET R, \A x \in R : f[x] \in Nat
  PROVE  SumFunctionOnSet(f, S) <= SumFunctionOnSet(f, R)
<1>1. IsFiniteSet(S) /\ IsFiniteSet(R \ S) /\ S \cap (R \ S) = {} /\ S \cup (R \ S) = R
  BY FS_Subset
<1>2. \A x \in S \cup (R \ S) : f[x] \in Int
  BY <1>1
<1>3. SumFunctionOnSet(f, S \cup (R \ S)) = SumFunctionOnSet(f, S) + SumFunctionOnSet(f, R \ S)
  BY <1>1, <1>2, SumParts
<1>4. SumFunctionOnSet(f, S) \in Nat /\ SumFunctionOnSet(f, R \ S) \in Nat
  BY <1>1, SumNat
<1>5. SumFunctionOnSet(f, R) = SumFunctionOnSet(f, S) + SumFunctionOnSet(f, R \ S)
  BY <1>1, <1>3
<1>. QED
  BY <1>4, <1>5

\* A set is counted by adding up one for each of its members.
LEMMA SumCounts ==
  ASSUME NEW f, NEW S, IsFiniteSet(S), \A x \in S : f[x] = 1
  PROVE  SumFunctionOnSet(f, S) = Cardinality(S)
<1>. DEFINE F == {T \in SUBSET S : SumFunctionOnSet(f, T) # Cardinality(T)}
<1>. SUFFICES ASSUME F # {} PROVE FALSE
  OBVIOUS
<1>1. F \in SUBSET (SUBSET S)
  OBVIOUS
<1>. HIDE DEF F
<1>2. PICK T \in F : \A U \in F : U \subseteq T => U = T
  BY <1>1, SmallestSet
<1>3. T \in SUBSET S /\ IsFiniteSet(T) /\ SumFunctionOnSet(f, T) # Cardinality(T)
  BY <1>2, FS_Subset DEF F
<1>4. PICK x \in T : TRUE
  BY <1>3, SumEmpty, FS_EmptySet
<1>5. T \ {x} \notin F /\ T \ {x} \in SUBSET S
  BY <1>2, <1>3, <1>4
<1>6. SumFunctionOnSet(f, T \ {x}) = Cardinality(T \ {x})
  BY <1>5 DEF F
<1>7. Cardinality(T \ {x}) = Cardinality(T) - 1 /\ Cardinality(T) \in Nat
  BY <1>3, <1>4, FS_RemoveElement, FS_CardinalityType
<1>8. \A y \in T : f[y] \in Int
  BY <1>3
<1>9. SumFunctionOnSet(f, T) = f[x] + SumFunctionOnSet(f, T \ {x}) /\ f[x] = 1
  BY <1>3, <1>4, <1>8, SumTake
<1>. QED
  BY <1>3, <1>6, <1>7, <1>9

\* The column g of K holds for each key what f sums up to over the elements of S with that key.
SumsByKey(g, K, f, S, key) == \A k \in K : g[k] = SumFunctionOnSet(f, {x \in S : key[x] = k})

AllKeyed(K, S, key) == \A x \in S : key[x] \in K

AllInts(f, S) == \A x \in S : f[x] \in Int

\* Groups add up to the whole: every element is in the group of its key.
LEMMA SumGrouped ==
  ASSUME NEW f, NEW key, NEW S, IsFiniteSet(S), AllInts(f, S),
         NEW K, IsFiniteSet(K), AllKeyed(K, S, key), NEW g, SumsByKey(g, K, f, S, key)
  PROVE  SumFunctionOnSet(g, K) = SumFunctionOnSet(f, S)
<1>. USE DEF AllInts, SumsByKey
<1>. DEFINE Of(T) == {x \in S : key[x] \in T}
            F == {T \in SUBSET K : SumFunctionOnSet(g, T) # SumFunctionOnSet(f, Of(T))}
<1>. SUFFICES ASSUME F # {} PROVE FALSE
  <2>1. Of(K) = S
    BY DEF AllKeyed
  <2>2. F = {} => SumFunctionOnSet(g, K) = SumFunctionOnSet(f, Of(K))
    OBVIOUS
  <2>. QED
    BY <2>1, <2>2
<1>1. F \in SUBSET (SUBSET K)
  OBVIOUS
<1>. HIDE DEF F
<1>2. PICK T \in F : \A U \in F : U \subseteq T => U = T
  BY <1>1, SmallestSet
<1>3. T \in SUBSET K /\ IsFiniteSet(T) /\ SumFunctionOnSet(g, T) # SumFunctionOnSet(f, Of(T))
  BY <1>2, FS_Subset DEF F
<1>4. ASSUME T = {} PROVE FALSE
  <2>1. Of(T) = {}
    BY <1>4
  <2>2. SumFunctionOnSet(f, Of(T)) = 0
    BY <2>1, SumEmpty
  <2>3. SumFunctionOnSet(g, T) = 0
    BY <1>4, SumEmpty
  <2>. QED
    BY <1>3, <2>2, <2>3
<1>5. PICK k \in T : TRUE
  BY <1>4
<1>. DEFINE rest == Of(T \ {k})
            group == {x \in S : key[x] = k}
<1>6. T \ {k} \notin F /\ T \ {k} \in SUBSET K
  BY <1>2, <1>3, <1>5
<1>7. SumFunctionOnSet(g, T \ {k}) = SumFunctionOnSet(f, rest)
  BY <1>6 DEF F
<1>8. rest \cup group = Of(T) /\ rest \cap group = {} /\ rest \subseteq S /\ group \subseteq S
  BY <1>5
<1>9. IsFiniteSet(rest) /\ IsFiniteSet(group)
  BY <1>8, FS_Subset
<1>10. \A x \in rest \cup group : f[x] \in Int
  BY <1>8
<1>11. \A j \in K : g[j] \in Int
  <2>. SUFFICES ASSUME NEW j \in K PROVE SumFunctionOnSet(f, {x \in S : key[x] = j}) \in Int
    OBVIOUS
  <2>1. IsFiniteSet({x \in S : key[x] = j})
    BY FS_Subset
  <2>. QED
    BY <2>1, SumInt
<1>12. g[k] = SumFunctionOnSet(f, group)
  BY <1>3, <1>5
<1>13. SumFunctionOnSet(f, rest) \in Int /\ SumFunctionOnSet(f, group) \in Int
  BY <1>9, <1>10, SumInt
<1>14. \A j \in T : g[j] \in Int
  BY <1>3, <1>11
<1>. HIDE DEF rest, group
<1>15. SumFunctionOnSet(f, rest \cup group) = SumFunctionOnSet(f, rest) + SumFunctionOnSet(f, group)
  BY <1>8, <1>9, <1>10, SumParts
<1>16. SumFunctionOnSet(g, T) = g[k] + SumFunctionOnSet(g, T \ {k})
  BY <1>3, <1>5, <1>14, SumTake
<1>. HIDE DEF Of
<1>17. SumFunctionOnSet(f, Of(T)) = SumFunctionOnSet(f, rest) + SumFunctionOnSet(f, group)
  BY <1>8, <1>15
<1>. QED
  BY <1>3, <1>7, <1>12, <1>13, <1>16, <1>17
================================================================================
