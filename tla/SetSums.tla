------------------------------- MODULE SetSums -------------------------------
(***************************************************************************)
(* Sums over finite sets, as the models write them with MapThenSumSet:     *)
(* what the proofs about totals of fills, trades and costs need to know.   *)
(*                                                                         *)
(* The fold takes its elements in an order of its own.  The lemmas show,   *)
(* by looking at a smallest set for which they would fail, that a sum over *)
(* a finite set exists, is unique and does not depend on that order.       *)
(* Values are given by a function, so that a lemma holds for each of them. *)
(* Then the ranks of numbers in a set, which order what a scan keeps, and  *)
(* folds over lists, which are the last of a trace of values.              *)
(***************************************************************************)
EXTENDS Numbers, FiniteSetTheorems, WellFoundedInduction, TLAPS

TotalOf(f, S) == MapThenSumSet(LAMBDA x : f[x], S)

\* The element the fold takes next.
Next1(s) == CHOOSE x \in s : TRUE

\* g has the sum of f over each subset of S.
IsSum(g, f, S) ==
  g = [s \in SUBSET S |-> IF s = {} THEN 0 ELSE f[Next1(s)] + g[s \ {Next1(s)}]]

(* A set of numbers that is not empty has a least one.                     *)
LEMMA LeastNumber ==
  ASSUME NEW N \in SUBSET Nat, N # {}
  PROVE  \E n \in N : \A m \in N : n <= m
<1>1. PICK n \in N : \A m \in N : <<m, n>> \notin OpToRel(<, Nat)
  BY WFMin, NatLessThanWellFounded, Zenon
<1>2. \A m \in N : ~(m < n)
  BY <1>1 DEF OpToRel
<1> QED BY <1>2

(* Among subsets of a finite set there is one with none smaller inside it: *)
(* the induction the lemmas below are proved by.                           *)
LEMMA SmallestSet ==
  ASSUME NEW S, IsFiniteSet(S), NEW B \in SUBSET SUBSET S, B # {}
  PROVE  \E T \in B : \A U \in SUBSET T : U # T => U \notin B
<1> DEFINE sizes == {Cardinality(T) : T \in B}
<1>1. \A T \in SUBSET S : IsFiniteSet(T) /\ Cardinality(T) \in Nat
  BY FS_Subset, FS_CardinalityType
<1>2. sizes \in SUBSET Nat /\ sizes # {}
  BY <1>1
<1>3. PICK n \in sizes : \A m \in sizes : n <= m
  BY <1>2, LeastNumber
<1>4. PICK T \in B : Cardinality(T) = n
  OBVIOUS
<1>5. ASSUME NEW U \in SUBSET T, U # T, U \in B PROVE FALSE
  <2>1. IsFiniteSet(T) /\ IsFiniteSet(U) /\ Cardinality(T) \in Nat /\ Cardinality(U) \in Nat
    BY <1>1
  <2>2. Cardinality(U) <= Cardinality(T) /\ Cardinality(U) # Cardinality(T)
    BY <1>5, <2>1, FS_Subset
  <2>3. Cardinality(T) <= Cardinality(U)
    BY <1>3, <1>4, <1>5
  <2> QED BY <2>1, <2>2, <2>3
<1> QED BY <1>5

(* The model's operator is the sum that IsSum describes.                   *)
LEMMA TotalIsChosen ==
  ASSUME NEW f, NEW S
  PROVE  TotalOf(f, S) = (CHOOSE g : IsSum(g, f, S))[S]
BY DEF TotalOf, MapThenSumSet, MapThenFoldSet, IsSum, Next1

(* The element taken next is one of the set.                               *)
LEMMA Next1In ==
  ASSUME NEW s, s # {}
  PROVE  Next1(s) \in s
BY DEF Next1

(* What the sum that IsSum describes is on each subset.                    *)
LEMMA SumValue ==
  ASSUME NEW f, NEW S, NEW g, IsSum(g, f, S), NEW s \in SUBSET S
  PROVE  g[s] = IF s = {} THEN 0 ELSE f[Next1(s)] + g[s \ {Next1(s)}]
<1> DEFINE h == [t \in SUBSET S |-> IF t = {} THEN 0 ELSE f[Next1(t)] + g[t \ {Next1(t)}]]
<1>1. g = h
  BY DEF IsSum
<1>2. h[s] = IF s = {} THEN 0 ELSE f[Next1(s)] + g[s \ {Next1(s)}]
  OBVIOUS
<1> QED BY <1>1, <1>2, Zenon

(* Two sums of the same values agree where both are defined.               *)
LEMMA SumUnique ==
  ASSUME NEW f, NEW S, IsFiniteSet(S), NEW T, NEW g, NEW h,
         IsSum(g, f, S), IsSum(h, f, T), NEW s \in SUBSET S, s \in SUBSET T
  PROVE  g[s] = h[s]
<1> DEFINE bad == {u \in SUBSET s : g[u] # h[u]}
<1>1. SUFFICES ASSUME bad # {} PROVE FALSE
  OBVIOUS
<1>2. IsFiniteSet(s) /\ bad \in SUBSET SUBSET s
  BY FS_Subset
<1> HIDE DEF bad
<1>3. PICK u \in bad : \A v \in SUBSET u : v # u => v \notin bad
  BY <1>1, <1>2, SmallestSet
<1> USE DEF bad
<1>4. u \in SUBSET S /\ u \in SUBSET T /\ g[u] # h[u]
  OBVIOUS
<1>5. CASE u = {}
  BY <1>4, <1>5, SumValue
<1>6. CASE u # {}
  <2>1. u \ {Next1(u)} \in SUBSET u /\ u \ {Next1(u)} # u
    BY <1>6, Next1In
  <2>2. g[u \ {Next1(u)}] = h[u \ {Next1(u)}]
    BY <1>3, <2>1
  <2> QED BY <1>4, <1>6, <2>2, SumValue
<1> QED BY <1>5, <1>6

(* If the sums over s and over the rest of s exist, TotalOf satisfies the  *)
(* equation of the fold.                                                   *)
LEMMA TotalStep ==
  ASSUME NEW f, NEW s, IsFiniteSet(s), s # {},
         \E g : IsSum(g, f, s), \E g : IsSum(g, f, s \ {Next1(s)})
  PROVE  TotalOf(f, s) = f[Next1(s)] + TotalOf(f, s \ {Next1(s)})
<1> DEFINE rest == s \ {Next1(s)}
           g == CHOOSE u : IsSum(u, f, s)
           h == CHOOSE u : IsSum(u, f, rest)
<1>1. IsSum(g, f, s) /\ IsSum(h, f, rest)
  OBVIOUS
<1>2. TotalOf(f, s) = g[s] /\ TotalOf(f, rest) = h[rest]
  BY TotalIsChosen
<1> HIDE DEF g, h
<1>3. g[s] = f[Next1(s)] + g[rest]
  BY <1>1, SumValue
<1>4. g[rest] = h[rest]
  BY <1>1, SumUnique
<1> QED BY <1>2, <1>3, <1>4

(* Of nothing the sum is zero.                                             *)
LEMMA TotalEmpty ==
  ASSUME NEW f
  PROVE  TotalOf(f, {}) = 0 /\ \E g : IsSum(g, f, {})
<1> DEFINE h == [t \in SUBSET {} |-> 0]
           g == CHOOSE u : IsSum(u, f, {})
<1>1. h = [t \in SUBSET {} |-> IF t = {} THEN 0 ELSE f[Next1(t)] + h[t \ {Next1(t)}]]
  <2>1. \A t \in SUBSET {} : t = {}
    OBVIOUS
  <2> QED BY <2>1
<1>2. IsSum(h, f, {})
  BY <1>1 DEF IsSum
<1>3. IsSum(g, f, {})
  BY <1>2
<1>4. TotalOf(f, {}) = g[{}]
  BY TotalIsChosen
<1> HIDE DEF g, h
<1>5. g[{}] = 0
  BY <1>3, SumValue
<1> QED BY <1>2, <1>4, <1>5

(* Every finite set has a sum: over a smallest set without one it would be *)
(* the totals of the smaller sets, and one more value.                     *)
LEMMA SumExists ==
  ASSUME NEW f, NEW S, IsFiniteSet(S)
  PROVE  \E g : IsSum(g, f, S)
<1> DEFINE bad == {s \in SUBSET S : ~\E g : IsSum(g, f, s)}
<1>1. SUFFICES ASSUME bad # {} PROVE FALSE
  OBVIOUS
<1>2. bad \in SUBSET SUBSET S
  OBVIOUS
<1> HIDE DEF bad
<1>3. PICK T \in bad : \A U \in SUBSET T : U # T => U \notin bad
  BY <1>1, <1>2, SmallestSet
<1> USE DEF bad
<1>4. T \in SUBSET S /\ ~\E g : IsSum(g, f, T)
  OBVIOUS
<1>5. \A U \in SUBSET T : U # T => \E g : IsSum(g, f, U)
  BY <1>3, <1>4
<1>6. \A U \in SUBSET T : IsFiniteSet(U)
  BY <1>4, FS_Subset
<1>7. T # {}
  BY <1>4, TotalEmpty
<1> DEFINE whole == f[Next1(T)] + TotalOf(f, T \ {Next1(T)})
           g == [s \in SUBSET T |-> IF s = T THEN whole ELSE TotalOf(f, s)]
<1>8. ASSUME NEW s \in SUBSET T
      PROVE  g[s] = IF s = {} THEN 0 ELSE f[Next1(s)] + g[s \ {Next1(s)}]
  <2>1. CASE s = {}
    <3>1. g[s] = TotalOf(f, {})
      BY <1>7, <2>1
    <3> QED BY <2>1, <3>1, TotalEmpty
  <2>2. CASE s # {}
    <3>1. s \ {Next1(s)} \in SUBSET T /\ s \ {Next1(s)} # T
      BY <2>2, Next1In
    <3>2. g[s \ {Next1(s)}] = TotalOf(f, s \ {Next1(s)})
      BY <3>1
    <3>3. CASE s = T
      <4>1. g[s] = whole
        BY <3>3
      <4> QED BY <2>2, <3>2, <3>3, <4>1
    <3>4. CASE s # T
      <4>1. g[s] = TotalOf(f, s)
        BY <3>4
      <4>2. /\ \E h : IsSum(h, f, s)
            /\ \E h : IsSum(h, f, s \ {Next1(s)})
        BY <1>5, <3>1, <3>4
      <4>3. TotalOf(f, s) = f[Next1(s)] + TotalOf(f, s \ {Next1(s)})
        BY <1>6, <2>2, <4>2, TotalStep
      <4> QED BY <2>2, <3>2, <4>1, <4>3
    <3> QED BY <3>3, <3>4
  <2> QED BY <2>1, <2>2
<1>9. IsSum(g, f, T)
  <2> DEFINE h == [s \in SUBSET T |->
                     IF s = {} THEN 0 ELSE f[Next1(s)] + g[s \ {Next1(s)}]]
  <2>1. \A s \in SUBSET T : g[s] = h[s]
    <3> HIDE DEF g
    <3> QED BY <1>8
  <2>2. g = h
    BY <2>1
  <2> HIDE DEF g
  <2> QED BY <2>2 DEF IsSum
<1> HIDE DEF g
<1> QED BY <1>4, <1>9

(* One element out, the one the fold takes.                                *)
LEMMA TotalNext ==
  ASSUME NEW f, NEW S, IsFiniteSet(S), S # {}
  PROVE  TotalOf(f, S) = f[Next1(S)] + TotalOf(f, S \ {Next1(S)})
<1>1. IsFiniteSet(S \ {Next1(S)})
  BY FS_RemoveElement
<1> QED BY <1>1, SumExists, TotalStep

(* A sum depends only on the values over the set.                          *)
LEMMA TotalAgree ==
  ASSUME NEW f, NEW h, NEW S, IsFiniteSet(S), \A x \in S : f[x] = h[x]
  PROVE  TotalOf(f, S) = TotalOf(h, S)
<1> DEFINE bad == {s \in SUBSET S : TotalOf(f, s) # TotalOf(h, s)}
<1>1. SUFFICES ASSUME bad # {} PROVE FALSE
  OBVIOUS
<1>2. bad \in SUBSET SUBSET S
  OBVIOUS
<1> HIDE DEF bad
<1>3. PICK T \in bad : \A U \in SUBSET T : U # T => U \notin bad
  BY <1>1, <1>2, SmallestSet
<1> USE DEF bad
<1>4. T \in SUBSET S /\ TotalOf(f, T) # TotalOf(h, T) /\ IsFiniteSet(T)
  BY FS_Subset
<1>5. T # {}
  BY <1>4, TotalEmpty
<1>6. Next1(T) \in T /\ T \ {Next1(T)} \in SUBSET T /\ T \ {Next1(T)} # T
  BY <1>5, Next1In
<1>7. TotalOf(f, T \ {Next1(T)}) = TotalOf(h, T \ {Next1(T)})
  BY <1>3, <1>4, <1>6
<1> QED BY <1>4, <1>5, <1>6, <1>7, TotalNext

(* A sum of integers is an integer.                                        *)
LEMMA TotalType ==
  ASSUME NEW f, NEW S, IsFiniteSet(S), \A x \in S : f[x] \in Int
  PROVE  TotalOf(f, S) \in Int
<1> DEFINE bad == {s \in SUBSET S : TotalOf(f, s) \notin Int}
<1>1. SUFFICES ASSUME bad # {} PROVE FALSE
  OBVIOUS
<1>2. bad \in SUBSET SUBSET S
  OBVIOUS
<1> HIDE DEF bad
<1>3. PICK T \in bad : \A U \in SUBSET T : U # T => U \notin bad
  BY <1>1, <1>2, SmallestSet
<1> USE DEF bad
<1>4. T \in SUBSET S /\ TotalOf(f, T) \notin Int /\ IsFiniteSet(T)
  BY FS_Subset
<1>5. T # {}
  BY <1>4, TotalEmpty
<1>6. Next1(T) \in T /\ T \ {Next1(T)} \in SUBSET T /\ T \ {Next1(T)} # T
  BY <1>5, Next1In
<1>7. TotalOf(f, T \ {Next1(T)}) \in Int /\ f[Next1(T)] \in Int
  BY <1>3, <1>4, <1>6
<1> QED BY <1>4, <1>5, <1>7, TotalNext

(* One element out, any of them: the order of the fold does not matter.    *)
LEMMA TotalRemove ==
  ASSUME NEW f, NEW S, IsFiniteSet(S), \A x \in S : f[x] \in Int, NEW a \in S
  PROVE  TotalOf(f, S) = f[a] + TotalOf(f, S \ {a})
<1> DEFINE bad == {s \in SUBSET S : \E x \in s : TotalOf(f, s) # f[x] + TotalOf(f, s \ {x})}
<1>1. SUFFICES ASSUME bad # {} PROVE FALSE
  OBVIOUS
<1>2. bad \in SUBSET SUBSET S
  OBVIOUS
<1> HIDE DEF bad
<1>3. PICK T \in bad : \A U \in SUBSET T : U # T => U \notin bad
  BY <1>1, <1>2, SmallestSet
<1> USE DEF bad
<1>4. T \in SUBSET S /\ IsFiniteSet(T)
  BY FS_Subset
<1>5. PICK x \in T : TotalOf(f, T) # f[x] + TotalOf(f, T \ {x})
  OBVIOUS
<1> HIDE DEF bad
<1> DEFINE c == Next1(T)
           both == (T \ {c}) \ {x}
<1>6. c \in T /\ TotalOf(f, T) = f[c] + TotalOf(f, T \ {c})
  BY <1>4, TotalNext, Next1In
<1> HIDE DEF c
<1>7. x # c
  BY <1>5, <1>6
<1>8. \A U \in SUBSET T : U # T => \A y \in U : TotalOf(f, U) = f[y] + TotalOf(f, U \ {y})
  BY <1>3, <1>4 DEF bad
<1>9. TotalOf(f, T \ {c}) = f[x] + TotalOf(f, both)
  BY <1>6, <1>7, <1>8
<1>10. TotalOf(f, T \ {x}) = f[c] + TotalOf(f, both)
  <2>1. (T \ {x}) \ {c} = both
    OBVIOUS
  <2>2. T \ {x} \in SUBSET T /\ T \ {x} # T /\ c \in T \ {x}
    BY <1>6, <1>7
  <2> HIDE DEF both
  <2> QED BY <1>8, <2>1, <2>2
<1>11. TotalOf(f, both) \in Int
  <2>1. both \in SUBSET S /\ IsFiniteSet(both)
    BY <1>4, FS_Subset
  <2> HIDE DEF both
  <2> QED BY <2>1, TotalType
<1>12. f[x] \in Int /\ f[c] \in Int
  BY <1>4, <1>6
<1> HIDE DEF both
<1> QED BY <1>5, <1>6, <1>9, <1>10, <1>11, <1>12

\* Names for what the two lemmas below ask of their sets and values, so that
\* a proof that cites them states it once.
IntOver(f, S) == \A x \in S : f[x] \in Int
IsWith(R, S, a) == a \notin S /\ R = S \cup {a}
IsSplit(U, S, R) == U = S \cup R /\ S \cap R = {}

(* One element more.                                                       *)
LEMMA TotalAdd ==
  ASSUME NEW f, NEW S, NEW a, NEW R, IsFiniteSet(S), IsWith(R, S, a), IntOver(f, R)
  PROVE  TotalOf(f, R) = TotalOf(f, S) + f[a]
<1>1. S = R \ {a} /\ a \in R /\ \A x \in R : f[x] \in Int
  BY DEF IsWith, IntOver
<1>2. IsFiniteSet(R)
  BY FS_AddElement DEF IsWith
<1>3. TotalOf(f, R) = f[a] + TotalOf(f, R \ {a})
  BY <1>1, <1>2, TotalRemove
<1>4. TotalOf(f, R) = f[a] + TotalOf(f, S)
  BY <1>1, <1>3, Zenon
<1>5. TotalOf(f, S) \in Int /\ f[a] \in Int
  BY <1>1, TotalType
<1> QED BY <1>4, <1>5

(* A sum over the union of two sets without common elements.               *)
LEMMA TotalCup ==
  ASSUME NEW f, NEW S, NEW R, IsFiniteSet(S), IsFiniteSet(R), S \cap R = {},
         \A x \in S \cup R : f[x] \in Int
  PROVE  TotalOf(f, S \cup R) = TotalOf(f, S) + TotalOf(f, R)
<1> DEFINE bad == {s \in SUBSET S : TotalOf(f, s \cup R) # TotalOf(f, s) + TotalOf(f, R)}
<1>1. SUFFICES ASSUME bad # {} PROVE FALSE
  OBVIOUS
<1>2. bad \in SUBSET SUBSET S
  OBVIOUS
<1> HIDE DEF bad
<1>3. PICK T \in bad : \A U \in SUBSET T : U # T => U \notin bad
  BY <1>1, <1>2, SmallestSet
<1>4. /\ T \in SUBSET S
      /\ TotalOf(f, T \cup R) # TotalOf(f, T) + TotalOf(f, R)
      /\ \A x \in T : T \ {x} \notin bad
  BY <1>3 DEF bad
<1>5. IsFiniteSet(T) /\ IsFiniteSet(T \cup R) /\ TotalOf(f, R) \in Int
  BY <1>4, FS_Subset, FS_Union, TotalType
<1>6. T # {}
  <2>1. ASSUME T = {} PROVE FALSE
    <3>1. T \cup R = R
      BY <2>1
    <3>2. TotalOf(f, T \cup R) = TotalOf(f, R)
      BY <3>1, Zenon
    <3>3. TotalOf(f, T) = 0
      BY <2>1, TotalEmpty
    <3> QED BY <1>4, <1>5, <3>2, <3>3
  <2> QED BY <2>1
<1>7. PICK x \in T : TRUE
  BY <1>6
<1> DEFINE rest == T \ {x}
<1>8. TotalOf(f, rest \cup R) = TotalOf(f, rest) + TotalOf(f, R)
  BY <1>4 DEF bad
<1>9. TotalOf(f, T) = f[x] + TotalOf(f, rest)
  BY <1>4, <1>5, TotalRemove
<1>10. TotalOf(f, T \cup R) = f[x] + TotalOf(f, rest \cup R)
  <2>1. (T \cup R) \ {x} = rest \cup R
    BY <1>4
  <2>2. \A y \in T \cup R : f[y] \in Int
    BY <1>4
  <2> HIDE DEF rest
  <2> QED BY <1>5, <2>1, <2>2, TotalRemove
<1>11. TotalOf(f, rest) \in Int /\ f[x] \in Int
  <2>1. IsFiniteSet(rest)
    BY <1>5, FS_RemoveElement
  <2>2. \A y \in rest : f[y] \in Int
    BY <1>4
  <2> HIDE DEF rest
  <2> QED BY <1>4, <2>1, <2>2, TotalType
<1> HIDE DEF rest
<1> QED BY <1>4, <1>5, <1>8, <1>9, <1>10, <1>11

(* The same of a set U that splits into S and R.                           *)
LEMMA TotalSplit ==
  ASSUME NEW f, NEW U, NEW S, NEW R, IsFiniteSet(U), IsSplit(U, S, R), IntOver(f, U)
  PROVE  TotalOf(f, U) = TotalOf(f, S) + TotalOf(f, R)
<1>1. U = S \cup R
  BY DEF IsSplit
<1>2. S \cap R = {} /\ S \in SUBSET U /\ R \in SUBSET U
  BY DEF IsSplit
<1>3. IsFiniteSet(S) /\ IsFiniteSet(R)
  BY <1>2, FS_Subset
<1>4. \A x \in S \cup R : f[x] \in Int
  BY DEF IsSplit, IntOver
<1>5. TotalOf(f, S \cup R) = TotalOf(f, S) + TotalOf(f, R)
  BY <1>2, <1>3, <1>4, TotalCup
<1> QED BY <1>1, <1>5, Zenon

(* Elements may be renamed: each x of S stands for the element b[x].       *)
LEMMA TotalRenamed ==
  ASSUME NEW S, IsFiniteSet(S), NEW b, NEW f, NEW h,
         \A x, y \in S : b[x] = b[y] => x = y,
         \A x \in S : f[x] = h[b[x]] /\ f[x] \in Int
  PROVE  TotalOf(f, S) = TotalOf(h, {b[x] : x \in S})
<1> DEFINE image(s) == {b[x] : x \in s}
           bad == {s \in SUBSET S : TotalOf(f, s) # TotalOf(h, image(s))}
<1>1. SUFFICES ASSUME bad # {} PROVE FALSE
  OBVIOUS
<1>2. bad \in SUBSET SUBSET S
  OBVIOUS
<1> HIDE DEF bad
<1>3. PICK T \in bad : \A U \in SUBSET T : U # T => U \notin bad
  BY <1>1, <1>2, SmallestSet
<1>4. /\ T \in SUBSET S
      /\ TotalOf(f, T) # TotalOf(h, image(T))
      /\ \A x \in T : T \ {x} \notin bad
  BY <1>3 DEF bad
<1>5. IsFiniteSet(T) /\ IsFiniteSet(image(T))
  <2> DEFINE onto == [x \in T |-> b[x]]
  <2>1. IsFiniteSet(T)
    BY <1>4, FS_Subset
  <2>2. onto \in Surjection(T, image(T))
    BY DEF Surjection
  <2> QED BY <2>1, <2>2, FS_Surjection
<1>6. T # {}
  <2>1. ASSUME T = {} PROVE FALSE
    <3>1. image(T) = {} /\ TotalOf(f, T) = 0
      BY <2>1, TotalEmpty
    <3> QED BY <1>4, <3>1, TotalEmpty
  <2> QED BY <2>1
<1>7. PICK x \in T : TRUE
  BY <1>6
<1>8. TotalOf(f, T \ {x}) = TotalOf(h, image(T \ {x}))
  BY <1>4 DEF bad
<1>9. image(T \ {x}) = image(T) \ {b[x]} /\ b[x] \in image(T)
  BY <1>4
<1>10. \A y \in image(T) : h[y] \in Int
  BY <1>4
<1>11. h[b[x]] = f[x]
  BY <1>4
<1> HIDE DEF image
<1>12. TotalOf(h, image(T)) = h[b[x]] + TotalOf(h, image(T \ {x}))
  <2>1. TotalOf(h, image(T)) = h[b[x]] + TotalOf(h, image(T) \ {b[x]})
    BY <1>5, <1>9, <1>10, TotalRemove
  <2> QED BY <1>9, <2>1, Zenon
<1>13. TotalOf(f, T) = f[x] + TotalOf(f, T \ {x})
  BY <1>4, <1>5, TotalRemove
<1> QED BY <1>4, <1>8, <1>11, <1>12, <1>13

(* Summing part by part: m[x] names the part of K that x belongs to.       *)
LEMMA TotalOfParts ==
  ASSUME NEW S, IsFiniteSet(S), NEW f, \A x \in S : f[x] \in Int,
         NEW K, IsFiniteSet(K), NEW m, \A x \in S : m[x] \in K
  PROVE  TotalOf(f, S) = TotalOf([k \in K |-> TotalOf(f, {x \in S : m[x] = k})], K)
<1> DEFINE part(k) == {x \in S : m[x] = k}
           parts == [k \in K |-> TotalOf(f, part(k))]
           in(J) == {x \in S : m[x] \in J}
           bad == {J \in SUBSET K : TotalOf(f, in(J)) # TotalOf(parts, J)}
<1>0. \A k \in K : parts[k] = TotalOf(f, part(k))
  OBVIOUS
<1>1. SUFFICES ASSUME bad # {} PROVE FALSE
  <2>1. in(K) = S
    OBVIOUS
  <2> HIDE DEF parts, in
  <2> QED BY <2>1 DEF parts
<1>2. bad \in SUBSET SUBSET K
  OBVIOUS
<1> HIDE DEF bad
<1>3. PICK J \in bad : \A U \in SUBSET J : U # J => U \notin bad
  BY <1>1, <1>2, SmallestSet
<1>4. /\ J \in SUBSET K
      /\ TotalOf(f, in(J)) # TotalOf(parts, J)
      /\ \A k \in J : J \ {k} \notin bad
  BY <1>3 DEF bad
<1>5. IsFiniteSet(J) /\ \A L \in SUBSET K : IsFiniteSet(in(L))
  BY <1>4, FS_Subset
<1>6. \A k \in K : IsFiniteSet(part(k)) /\ TotalOf(f, part(k)) \in Int
  <2>1. \A k \in K : IsFiniteSet(part(k)) /\ \A x \in part(k) : f[x] \in Int
    BY FS_Subset
  <2> HIDE DEF part
  <2> QED BY <2>1, TotalType
<1> HIDE DEF parts
<1>7. J # {}
  <2>1. ASSUME J = {} PROVE FALSE
    <3>1. in(J) = {} /\ TotalOf(parts, J) = 0
      BY <2>1, TotalEmpty
    <3> QED BY <1>4, <3>1, TotalEmpty
  <2> QED BY <2>1
<1>8. PICK k \in J : TRUE
  BY <1>7
<1>9. TotalOf(f, in(J \ {k})) = TotalOf(parts, J \ {k})
  BY <1>4 DEF bad
<1>10. in(J) = in(J \ {k}) \cup part(k) /\ in(J \ {k}) \cap part(k) = {}
  BY <1>4
<1>11. \A x \in in(J) : f[x] \in Int
  BY <1>4
<1>12. IsFiniteSet(in(J \ {k})) /\ IsFiniteSet(part(k))
  BY <1>4, <1>5, <1>6
<1> HIDE DEF in, part
<1>13. TotalOf(f, in(J)) = TotalOf(f, in(J \ {k})) + TotalOf(f, part(k))
  BY <1>10, <1>11, <1>12, TotalCup
<1>14. TotalOf(parts, J) = parts[k] + TotalOf(parts, J \ {k})
  <2>1. \A j \in J : parts[j] \in Int
    BY <1>0, <1>4, <1>6
  <2> QED BY <1>5, <2>1, TotalRemove
<1>15. parts[k] = TotalOf(f, part(k)) /\ TotalOf(f, part(k)) \in Int
  BY <1>0, <1>4, <1>6
<1>16. TotalOf(parts, J \ {k}) \in Int
  <2>1. IsFiniteSet(J \ {k}) /\ \A j \in J \ {k} : parts[j] \in Int
    BY <1>0, <1>4, <1>5, <1>6, FS_RemoveElement
  <2> QED BY <2>1, TotalType
<1> QED BY <1>4, <1>9, <1>13, <1>14, <1>15, <1>16

(* Nothing adds up to nothing.                                             *)
LEMMA TotalZero ==
  ASSUME NEW f, NEW S, IsFiniteSet(S), \A x \in S : f[x] = 0
  PROVE  TotalOf(f, S) = 0
<1> DEFINE bad == {s \in SUBSET S : TotalOf(f, s) # 0}
<1>1. SUFFICES ASSUME bad # {} PROVE FALSE
  OBVIOUS
<1>2. bad \in SUBSET SUBSET S
  OBVIOUS
<1> HIDE DEF bad
<1>3. PICK T \in bad : \A U \in SUBSET T : U # T => U \notin bad
  BY <1>1, <1>2, SmallestSet
<1>4. T \in SUBSET S /\ TotalOf(f, T) # 0 /\ IsFiniteSet(T)
  BY <1>3, FS_Subset DEF bad
<1>5. T # {}
  BY <1>4, TotalEmpty
<1>6. Next1(T) \in T /\ T \ {Next1(T)} \in SUBSET T /\ T \ {Next1(T)} # T
  BY <1>5, Next1In
<1>7. TotalOf(f, T \ {Next1(T)}) = 0 /\ f[Next1(T)] = 0
  BY <1>3, <1>4, <1>6 DEF bad
<1> QED BY <1>4, <1>5, <1>7, TotalNext

(* One value changes: so does the sum, by as much.                         *)
LEMMA TotalChange ==
  ASSUME NEW f, NEW h, NEW S, IsFiniteSet(S), NEW a \in S,
         IntOver(f, S), IntOver(h, S), \A x \in S : x # a => h[x] = f[x]
  PROVE  TotalOf(h, S) = TotalOf(f, S) + (h[a] - f[a])
<1> DEFINE rest == S \ {a}
<1>1. IsFiniteSet(rest) /\ \A x \in rest : x \in S /\ x # a
  BY FS_RemoveElement
<1>2. \A x \in S : f[x] \in Int /\ h[x] \in Int
  BY DEF IntOver
<1>3. TotalOf(f, S) = f[a] + TotalOf(f, rest) /\ TotalOf(h, S) = h[a] + TotalOf(h, rest)
  BY <1>2, TotalRemove
<1> HIDE DEF rest
<1>4. TotalOf(f, rest) = TotalOf(h, rest)
  BY <1>1, TotalAgree
<1>5. TotalOf(f, rest) \in Int
  BY <1>1, <1>2, TotalType
<1> QED BY <1>2, <1>3, <1>4, <1>5

(* Counting is adding ones.                                                *)
LEMMA TotalCount ==
  ASSUME NEW f, NEW S, IsFiniteSet(S), \A x \in S : f[x] = 1
  PROVE  TotalOf(f, S) = Cardinality(S)
<1> DEFINE bad == {s \in SUBSET S : TotalOf(f, s) # Cardinality(s)}
<1>1. SUFFICES ASSUME bad # {} PROVE FALSE
  OBVIOUS
<1>2. bad \in SUBSET SUBSET S
  OBVIOUS
<1> HIDE DEF bad
<1>3. PICK T \in bad : \A U \in SUBSET T : U # T => U \notin bad
  BY <1>1, <1>2, SmallestSet
<1>4. T \in SUBSET S /\ TotalOf(f, T) # Cardinality(T) /\ IsFiniteSet(T)
  BY <1>3, FS_Subset DEF bad
<1>5. T # {}
  BY <1>4, TotalEmpty, FS_EmptySet
<1>6. PICK x \in T : TRUE
  BY <1>5
<1>7. T \ {x} \in SUBSET T /\ T \ {x} # T /\ T \ {x} \in SUBSET S
  BY <1>4
<1>8. TotalOf(f, T \ {x}) = Cardinality(T \ {x})
  BY <1>3, <1>7 DEF bad
<1>9. Cardinality(T \ {x}) = Cardinality(T) - 1 /\ Cardinality(T) \in Nat
  BY <1>4, FS_RemoveElement, FS_CardinalityType
<1>10. TotalOf(f, T) = f[x] + TotalOf(f, T \ {x}) /\ f[x] = 1
  <2>1. \A y \in T : f[y] \in Int /\ f[y] = 1
    BY <1>4
  <2> QED BY <1>4, <2>1, TotalRemove
<1> QED BY <1>4, <1>8, <1>9, <1>10

\* Grouping S by the values of m.
PartOf(S, m, k) == {x \in S : m[x] = k}
ValuesOn(S, m) == {m[x] : x \in S}

(* The values of a function on a finite set are finitely many.             *)
LEMMA ValuesFinite ==
  ASSUME NEW S, IsFiniteSet(S), NEW m
  PROVE  IsFiniteSet(ValuesOn(S, m)) /\ \A x \in S : m[x] \in ValuesOn(S, m)
<1> DEFINE onto == [x \in S |-> m[x]]
           K == {m[x] : x \in S}
<1>1. onto \in Surjection(S, K)
  BY DEF Surjection
<1>2. IsFiniteSet(K)
  BY <1>1, FS_Surjection
<1> QED BY <1>2 DEF ValuesOn

(* A group for each value of m: the sums of the groups add up to the sum.  *)
LEMMA GroupSums ==
  ASSUME NEW S, IsFiniteSet(S), NEW m, NEW f, \A x \in S : f[x] \in Int,
         NEW sums, \A k \in ValuesOn(S, m) : sums[k] = TotalOf(f, PartOf(S, m, k))
  PROVE  TotalOf(sums, ValuesOn(S, m)) = TotalOf(f, S)
<1> DEFINE K == ValuesOn(S, m)
           parts == [k \in K |-> TotalOf(f, {x \in S : m[x] = k})]
<1>1. IsFiniteSet(K) /\ \A x \in S : m[x] \in K
  BY ValuesFinite
<1> HIDE DEF K
<1>2. TotalOf(f, S) = TotalOf(parts, K)
  BY <1>1, TotalOfParts
<1>3. \A k \in K : sums[k] = parts[k]
  BY DEF K, PartOf
<1> HIDE DEF parts
<1>4. TotalOf(sums, K) = TotalOf(parts, K)
  BY <1>1, <1>3, TotalAgree
<1> QED BY <1>2, <1>4 DEF K

(* And their sizes to its size.                                            *)
LEMMA GroupSizes ==
  ASSUME NEW S, IsFiniteSet(S), NEW m,
         NEW sizes, \A k \in ValuesOn(S, m) : sizes[k] = Cardinality(PartOf(S, m, k))
  PROVE  TotalOf(sizes, ValuesOn(S, m)) = Cardinality(S)
<1> DEFINE one == [x \in S |-> 1]
<1>1. \A x \in S : one[x] = 1 /\ one[x] \in Int
  OBVIOUS
<1> HIDE DEF one
<1>2. ASSUME NEW T \in SUBSET S PROVE TotalOf(one, T) = Cardinality(T)
  BY <1>1, FS_Subset, TotalCount
<1>3. \A k : PartOf(S, m, k) \in SUBSET S
  BY DEF PartOf
<1>4. \A k \in ValuesOn(S, m) : sizes[k] = TotalOf(one, PartOf(S, m, k))
  BY <1>2, <1>3
<1>5. TotalOf(sizes, ValuesOn(S, m)) = TotalOf(one, S)
  BY <1>1, <1>4, GroupSums
<1> QED BY <1>2, <1>5

(* A sum of values that are at most m is at most m for each of them.       *)
LEMMA TotalAtMost ==
  ASSUME NEW f, NEW S, IsFiniteSet(S), NEW m \in Int,
         \A x \in S : f[x] \in Int /\ f[x] <= m
  PROVE  TotalOf(f, S) <= Cardinality(S) * m
<1> DEFINE bad == {s \in SUBSET S : ~(TotalOf(f, s) <= Cardinality(s) * m)}
<1>1. SUFFICES ASSUME bad # {} PROVE FALSE
  OBVIOUS
<1>2. bad \in SUBSET SUBSET S
  OBVIOUS
<1> HIDE DEF bad
<1>3. PICK T \in bad : \A U \in SUBSET T : U # T => U \notin bad
  BY <1>1, <1>2, SmallestSet
<1>4. T \in SUBSET S /\ ~(TotalOf(f, T) <= Cardinality(T) * m) /\ IsFiniteSet(T)
  BY <1>3, FS_Subset DEF bad
<1>5. T # {}
  <2>1. ASSUME T = {} PROVE FALSE
    <3>1. TotalOf(f, T) = 0 /\ Cardinality(T) = 0
      BY <2>1, TotalEmpty, FS_EmptySet
    <3> QED BY <1>4, <3>1
  <2> QED BY <2>1
<1>6. PICK x \in T : TRUE
  BY <1>5
<1> DEFINE rest == T \ {x}
<1>7. rest \in SUBSET T /\ rest # T /\ rest \in SUBSET S /\ IsFiniteSet(rest)
  BY <1>4, FS_RemoveElement
<1>8. TotalOf(f, rest) <= Cardinality(rest) * m
  BY <1>3, <1>7 DEF bad
<1>9. Cardinality(rest) = Cardinality(T) - 1 /\ Cardinality(T) \in Nat
  BY <1>4, FS_RemoveElement, FS_CardinalityType
<1>10. TotalOf(f, T) = f[x] + TotalOf(f, rest) /\ f[x] \in Int /\ f[x] <= m
  <2>1. \A y \in T : f[y] \in Int /\ f[y] <= m
    BY <1>4
  <2> QED BY <1>4, <2>1, TotalRemove
<1>11. TotalOf(f, rest) \in Int
  BY <1>7, TotalType
<1> HIDE DEF rest
<1>12. Cardinality(T) * m = Cardinality(rest) * m + m /\ Cardinality(rest) * m \in Int
  BY <1>9
<1> QED BY <1>4, <1>8, <1>10, <1>11, <1>12

(* The sum of the negated values.                                          *)
LEMMA TotalNegated ==
  ASSUME NEW f, NEW S, IsFiniteSet(S), \A x \in S : f[x] \in Int
  PROVE  TotalOf([x \in S |-> -f[x]], S) = -TotalOf(f, S)
<1> DEFINE g == [x \in S |-> -f[x]]
           bad == {s \in SUBSET S : TotalOf(g, s) # -TotalOf(f, s)}
<1>1. SUFFICES ASSUME bad # {} PROVE FALSE
  OBVIOUS
<1>2. bad \in SUBSET SUBSET S
  OBVIOUS
<1>3. \A x \in S : g[x] = -f[x] /\ g[x] \in Int
  OBVIOUS
<1> HIDE DEF bad, g
<1>4. PICK T \in bad : \A U \in SUBSET T : U # T => U \notin bad
  BY <1>1, <1>2, SmallestSet
<1>5. T \in SUBSET S /\ TotalOf(g, T) # -TotalOf(f, T) /\ IsFiniteSet(T)
  BY <1>4, FS_Subset DEF bad
<1>6. T # {}
  BY <1>5, TotalEmpty
<1>7. PICK x \in T : TRUE
  BY <1>6
<1> DEFINE rest == T \ {x}
<1>8. rest \in SUBSET T /\ rest # T /\ rest \in SUBSET S /\ IsFiniteSet(rest)
  BY <1>5, FS_RemoveElement
<1>9. TotalOf(g, rest) = -TotalOf(f, rest)
  BY <1>4, <1>8 DEF bad
<1>10. TotalOf(f, T) = f[x] + TotalOf(f, rest) /\ TotalOf(g, T) = g[x] + TotalOf(g, rest)
  BY <1>3, <1>5, TotalRemove
<1>11. TotalOf(f, rest) \in Int /\ f[x] \in Int /\ g[x] = -f[x]
  BY <1>3, <1>5, <1>8, TotalType
<1> QED BY <1>5, <1>9, <1>10, <1>11

(* The sum of two values for each element.                                 *)
LEMMA TotalPlus ==
  ASSUME NEW f, NEW g, NEW h, NEW S, IsFiniteSet(S),
         \A x \in S : f[x] \in Int /\ g[x] \in Int /\ h[x] = f[x] + g[x]
  PROVE  TotalOf(h, S) = TotalOf(f, S) + TotalOf(g, S)
<1> DEFINE bad == {s \in SUBSET S : TotalOf(h, s) # TotalOf(f, s) + TotalOf(g, s)}
<1>1. SUFFICES ASSUME bad # {} PROVE FALSE
  OBVIOUS
<1>2. bad \in SUBSET SUBSET S
  OBVIOUS
<1>3. \A x \in S : h[x] \in Int
  OBVIOUS
<1> HIDE DEF bad
<1>4. PICK T \in bad : \A U \in SUBSET T : U # T => U \notin bad
  BY <1>1, <1>2, SmallestSet
<1>5. T \in SUBSET S /\ TotalOf(h, T) # TotalOf(f, T) + TotalOf(g, T) /\ IsFiniteSet(T)
  BY <1>4, FS_Subset DEF bad
<1>6. T # {}
  <2>1. ASSUME T = {} PROVE FALSE
    <3>1. TotalOf(f, T) = 0 /\ TotalOf(g, T) = 0 /\ TotalOf(h, T) = 0
      BY <2>1, TotalEmpty
    <3> QED BY <1>5, <3>1
  <2> QED BY <2>1
<1>7. PICK x \in T : TRUE
  BY <1>6
<1> DEFINE rest == T \ {x}
<1>8. rest \in SUBSET T /\ rest # T /\ rest \in SUBSET S /\ IsFiniteSet(rest)
  BY <1>5, FS_RemoveElement
<1>9. TotalOf(h, rest) = TotalOf(f, rest) + TotalOf(g, rest)
  BY <1>4, <1>8 DEF bad
<1>10. /\ TotalOf(f, T) = f[x] + TotalOf(f, rest)
       /\ TotalOf(g, T) = g[x] + TotalOf(g, rest)
       /\ TotalOf(h, T) = h[x] + TotalOf(h, rest)
  BY <1>3, <1>5, TotalRemove
<1>11. TotalOf(f, rest) \in Int /\ TotalOf(g, rest) \in Int
  BY <1>5, <1>8, TotalType
<1> HIDE DEF rest
<1>12. f[x] \in Int /\ g[x] \in Int /\ h[x] = f[x] + g[x]
  BY <1>5
<1> QED BY <1>5, <1>9, <1>10, <1>11, <1>12

(* The same of values that are at least m.                                 *)
LEMMA TotalAtLeast ==
  ASSUME NEW f, NEW S, IsFiniteSet(S), NEW m \in Int,
         \A x \in S : f[x] \in Int /\ m <= f[x]
  PROVE  Cardinality(S) * m <= TotalOf(f, S)
<1> DEFINE g == [x \in S |-> -f[x]]
<1>1. \A x \in S : g[x] \in Int /\ g[x] <= -m
  OBVIOUS
<1>2. TotalOf(g, S) = -TotalOf(f, S) /\ TotalOf(f, S) \in Int
  BY TotalNegated, TotalType
<1> HIDE DEF g
<1>3. TotalOf(g, S) <= Cardinality(S) * (-m)
  BY <1>1, TotalAtMost
<1>4. Cardinality(S) \in Nat
  BY FS_CardinalityType
<1>5. Cardinality(S) * (-m) = -(Cardinality(S) * m) /\ Cardinality(S) * m \in Int
  BY <1>4
<1> QED BY <1>2, <1>3, <1>5

(* Rounding moves a quotient by half a unit at most.                       *)
LEMMA NearestBy ==
  ASSUME NEW n \in Int, NEW d \in Nat \ {0}
  PROVE  /\ Nearest(n, d) \in Int
         /\ d * Nearest(n, d) \in Int
         /\ 2 * n - d <= 2 * (d * Nearest(n, d))
         /\ 2 * (d * Nearest(n, d)) <= 2 * n + d
<1> DEFINE q == n \div d
           m == n % d
<1>1. q \in Int /\ m \in 0..(d - 1) /\ n = d * q + m
  OBVIOUS
<1>2. \/ Nearest(n, d) = q /\ 2 * m <= d
      \/ Nearest(n, d) = q + 1 /\ d <= 2 * m
  BY <1>1 DEF Nearest
<1> HIDE DEF q, m
<1>3. d * (q + 1) = d * q + d /\ d * q \in Int
  BY <1>1
<1> QED BY <1>1, <1>2, <1>3

(* Multiples are ordered as their factors are.                             *)
LEMMA MultiplesOrdered ==
  ASSUME NEW a \in Int, NEW b \in Int, NEW d \in Nat \ {0}
  PROVE  /\ d * a \in Int /\ d * b \in Int
         /\ a <= b => d * a <= d * b
         /\ a < b => d * a + d <= d * b
<1>1. a <= b => 0 <= d * (b - a)
  OBVIOUS
<1>2. d * (b - a) = d * b - d * a /\ d * a \in Int /\ d * b \in Int
  OBVIOUS
<1>3. a < b => 0 <= d * (b - a - 1)
  OBVIOUS
<1>4. d * (b - a - 1) = d * (b - a) - d
  OBVIOUS
<1> QED BY <1>1, <1>2, <1>3, <1>4

(* What is rounded one by one and added up is off by half a unit of the    *)
(* rounding for each at most.                                              *)
LEMMA RoundedTotal ==
  ASSUME NEW f, NEW g, NEW S, IsFiniteSet(S), NEW d \in Nat \ {0},
         \A x \in S : g[x] \in Int /\ f[x] = Nearest(g[x], d)
  PROVE  /\ TotalOf(f, S) \in Int /\ TotalOf(g, S) \in Int
         /\ Cardinality(S) * d \in Nat /\ d * TotalOf(f, S) \in Int
         /\ 2 * TotalOf(g, S) - Cardinality(S) * d <= 2 * (d * TotalOf(f, S))
         /\ 2 * (d * TotalOf(f, S)) <= 2 * TotalOf(g, S) + Cardinality(S) * d
<1> DEFINE Near(s) == /\ 2 * TotalOf(g, s) - Cardinality(s) * d <= 2 * (d * TotalOf(f, s))
                      /\ 2 * (d * TotalOf(f, s)) <= 2 * TotalOf(g, s) + Cardinality(s) * d
           bad == {s \in SUBSET S : ~Near(s)}
<1>1. \A x \in S : f[x] \in Int
  BY NearestBy
<1>2. \A s \in SUBSET S : /\ IsFiniteSet(s) /\ Cardinality(s) \in Nat
                          /\ TotalOf(f, s) \in Int /\ TotalOf(g, s) \in Int
  <2> SUFFICES ASSUME NEW s \in SUBSET S
               PROVE  /\ IsFiniteSet(s) /\ Cardinality(s) \in Nat
                      /\ TotalOf(f, s) \in Int /\ TotalOf(g, s) \in Int
    OBVIOUS
  <2>1. IsFiniteSet(s) /\ Cardinality(s) \in Nat
    BY FS_Subset, FS_CardinalityType
  <2>2. \A x \in s : f[x] \in Int /\ g[x] \in Int
    BY <1>1
  <2> QED BY <2>1, <2>2, TotalType
<1>3. bad = {}
  <2> SUFFICES ASSUME bad # {} PROVE FALSE
    OBVIOUS
  <2>1. bad \in SUBSET SUBSET S
    OBVIOUS
  <2> HIDE DEF bad
  <2>2. PICK T \in bad : \A U \in SUBSET T : U # T => U \notin bad
    BY <2>1, SmallestSet
  <2>3. T \in SUBSET S /\ ~Near(T) /\ IsFiniteSet(T)
    BY <1>2, <2>2 DEF bad
  <2>4. T # {}
    <3> SUFFICES ASSUME T = {} PROVE FALSE
      OBVIOUS
    <3>1. TotalOf(f, T) = 0 /\ TotalOf(g, T) = 0 /\ Cardinality(T) = 0
      BY TotalEmpty, FS_EmptySet
    <3>2. Cardinality(T) * d = 0 /\ d * TotalOf(f, T) = 0
      BY <3>1
    <3> QED BY <2>3, <3>1, <3>2
  <2>5. PICK x \in T : TRUE
    BY <2>4
  <2> DEFINE rest == T \ {x}
  <2>6. rest \in SUBSET T /\ rest # T /\ rest \in SUBSET S
    BY <2>3
  <2>7. Near(rest)
    BY <2>2, <2>6 DEF bad
  <2>8. Cardinality(rest) = Cardinality(T) - 1 /\ Cardinality(T) \in Nat
    BY <1>2, <2>3, FS_RemoveElement
  <2>9. TotalOf(f, T) = f[x] + TotalOf(f, rest) /\ TotalOf(g, T) = g[x] + TotalOf(g, rest)
    <3>1. \A y \in T : f[y] \in Int /\ g[y] \in Int
      BY <1>1, <2>3
    <3> QED BY <2>3, <3>1, TotalRemove
  <2>10. /\ f[x] \in Int /\ g[x] \in Int /\ d * f[x] \in Int
         /\ 2 * g[x] - d <= 2 * (d * f[x]) /\ 2 * (d * f[x]) <= 2 * g[x] + d
    BY <2>3, NearestBy
  <2>11. TotalOf(f, rest) \in Int /\ TotalOf(g, rest) \in Int
    BY <1>2, <2>6
  <2> HIDE DEF rest
  <2>12. /\ d * TotalOf(f, T) = d * f[x] + d * TotalOf(f, rest)
         /\ d * TotalOf(f, rest) \in Int
         /\ Cardinality(T) * d = Cardinality(rest) * d + d
         /\ Cardinality(rest) * d \in Int
    <3>1. \A a, b \in Int : d * (a + b) = d * a + d * b /\ d * b \in Int
      OBVIOUS
    <3>2. \A n \in Nat : n * d = (n - 1) * d + d /\ (n - 1) * d \in Int
      OBVIOUS
    <3>3. Cardinality(T) * d = Cardinality(rest) * d + d /\ Cardinality(rest) * d \in Int
      BY ONLY <2>8, <3>2
    <3>4. /\ d * TotalOf(f, T) = d * f[x] + d * TotalOf(f, rest)
          /\ d * TotalOf(f, rest) \in Int
      BY ONLY <2>9, <2>10, <2>11, <3>1
    <3> QED BY <3>3, <3>4
  <2> QED BY <2>3, <2>7, <2>9, <2>10, <2>11, <2>12
<1>4. Near(S)
  BY <1>3
<1>5. Cardinality(S) * d \in Nat /\ d * TotalOf(f, S) \in Int
  BY <1>2
<1> HIDE DEF Near, bad
<1> QED BY <1>2, <1>4, <1>5 DEF Near

(* Of finitely many integers one is the greatest.                          *)
LEMMA GreatestOf ==
  ASSUME NEW f, NEW S, IsFiniteSet(S), S # {}, \A x \in S : f[x] \in Int
  PROVE  \E x \in S : \A y \in S : f[y] <= f[x]
<1> DEFINE bad == {s \in SUBSET S : s # {} /\ ~\E x \in s : \A y \in s : f[y] <= f[x]}
<1>1. SUFFICES ASSUME bad # {} PROVE FALSE
  OBVIOUS
<1>2. bad \in SUBSET SUBSET S
  OBVIOUS
<1> HIDE DEF bad
<1>3. PICK T \in bad : \A U \in SUBSET T : U # T => U \notin bad
  BY <1>1, <1>2, SmallestSet
<1>4. T \in SUBSET S /\ T # {} /\ ~\E x \in T : \A y \in T : f[y] <= f[x]
  BY <1>3 DEF bad
<1>5. PICK x \in T : TRUE
  BY <1>4
<1> DEFINE rest == T \ {x}
<1>6. rest \in SUBSET T /\ rest # T /\ rest \in SUBSET S
  BY <1>4
<1>7. CASE rest = {}
  <2>1. \A y \in T : y = x
    BY <1>7
  <2> QED BY <1>4, <1>5, <2>1
<1>8. CASE rest # {}
  <2>1. PICK z \in rest : \A y \in rest : f[y] <= f[z]
    BY <1>3, <1>6, <1>8 DEF bad
  <2>2. \A y \in T : y = x \/ f[y] <= f[z]
    BY <2>1
  <2>3. z \in T /\ \A y \in T : f[y] \in Int
    BY <1>4, <2>1
  <2> HIDE DEF rest
  <2>4. CASE f[x] <= f[z]
    BY <1>4, <2>2, <2>3, <2>4
  <2>5. CASE f[z] <= f[x]
    BY <1>4, <1>5, <2>2, <2>3, <2>5
  <2> QED BY <1>5, <2>3, <2>4, <2>5
<1> QED BY <1>7, <1>8

-----------------------------------------------------------------------------
(* The place of a number in a set of them.                                 *)
Rank(S, k) == Cardinality({m \in S : m <= k})

(* Adding a number above all of a set leaves the others' ranks, and is     *)
(* ranked last.                                                            *)
LEMMA RankOfGreatest ==
  ASSUME NEW n \in Nat, NEW S \in SUBSET (1..n)
  PROVE  /\ Cardinality(S) \in Nat
         /\ Cardinality(S \cup {n + 1}) = Cardinality(S) + 1
         /\ Rank(S \cup {n + 1}, n + 1) = Cardinality(S) + 1
         /\ \A k \in S : /\ Rank(S \cup {n + 1}, k) = Rank(S, k)
                         /\ Rank(S, k) \in 1..Cardinality(S)
<1>1. IsFiniteSet(S) /\ Cardinality(S) \in Nat
  <2>1. IsFiniteSet(1..n)
    BY FS_Interval
  <2> QED BY <2>1, FS_Subset, FS_CardinalityType
<1>2. n + 1 \notin S /\ \A m \in S : m <= n
  OBVIOUS
<1>3. Cardinality(S \cup {n + 1}) = Cardinality(S) + 1
  BY <1>1, <1>2, FS_AddElement
<1>4. {m \in S \cup {n + 1} : m <= n + 1} = S \cup {n + 1}
  <2>1. \A m \in S \cup {n + 1} : m <= n + 1
    OBVIOUS
  <2> QED BY <2>1
<1>5. ASSUME NEW k \in S
      PROVE  /\ Rank(S \cup {n + 1}, k) = Rank(S, k)
             /\ Rank(S, k) \in 1..Cardinality(S)
  <2> DEFINE T == {m \in S : m <= k}
  <2>1. {m \in S \cup {n + 1} : m <= k} = T
    OBVIOUS
  <2>2. T \subseteq S /\ k \in T
    OBVIOUS
  <2> HIDE DEF T
  <2>3. IsFiniteSet(T) /\ Cardinality(T) <= Cardinality(S) /\ Cardinality(T) \in Nat
    BY <1>1, <2>2, FS_Subset, FS_CardinalityType
  <2>4. Cardinality(T) # 0
    BY <2>2, <2>3, FS_EmptySet
  <2>5. Rank(S \cup {n + 1}, k) = Cardinality(T) /\ Rank(S, k) = Cardinality(T)
    BY <2>1 DEF Rank, T
  <2> QED BY <1>1, <2>3, <2>4, <2>5
<1> QED BY <1>1, <1>3, <1>4, <1>5 DEF Rank

(* Ranks number a set from one to its size.                                *)
LEMMA RanksNumber ==
  ASSUME NEW n \in Nat, NEW S \in SUBSET (1..n)
  PROVE  /\ IsFiniteSet(S) /\ Cardinality(S) \in Nat
         /\ \A k, l \in S : Rank(S, k) = Rank(S, l) => k = l
         /\ {Rank(S, k) : k \in S} = 1..Cardinality(S)
<1> DEFINE c == Cardinality(S)
           rank == [k \in S |-> Rank(S, k)]
<1>1. IsFiniteSet(S) /\ c \in Nat
  <2>1. IsFiniteSet(1..n)
    BY FS_Interval
  <2> QED BY <2>1, FS_Subset, FS_CardinalityType
<1>2. \A k \in S : rank[k] \in 1..c
  BY RankOfGreatest
<1>3. ASSUME NEW k \in S, NEW l \in S, k < l PROVE Rank(S, k) # Rank(S, l)
  <2> DEFINE T == {m \in S : m <= k}
             U == {m \in S : m <= l}
  <2>1. T \in SUBSET U /\ U \in SUBSET S /\ l \in U /\ l \notin T
    <3>1. k \in Int /\ l \in Int /\ \A m \in S : m \in Int
      OBVIOUS
    <3>2. \A m \in S : m <= k => m <= l
      BY <1>3, <3>1
    <3>3. l <= l /\ ~(l <= k)
      BY <1>3, <3>1
    <3> QED BY <3>2, <3>3
  <2>2. IsFiniteSet(U)
    BY <1>1, <2>1, FS_Subset
  <2> HIDE DEF T, U
  <2>3. Cardinality(U) # Cardinality(T)
    BY <2>1, <2>2, FS_Subset
  <2> QED BY <2>3 DEF Rank, T, U
<1>4. \A k, l \in S : rank[k] = rank[l] => k = l
  <2>1. \A k, l \in S : k < l \/ l < k \/ k = l
    OBVIOUS
  <2> QED BY <1>3, <2>1
<1> HIDE DEF c
<1>5. rank \in Injection(S, 1..c)
  BY <1>2, <1>4 DEF Injection, IsInjective
<1>6. IsFiniteSet(1..c) /\ Cardinality(1..c) = c
  BY <1>1, FS_Interval
<1>7. rank \in Surjection(S, 1..c)
  BY <1>5, <1>6, FS_Injection DEF c
<1>8. {Rank(S, k) : k \in S} = 1..c
  BY <1>2, <1>7 DEF Surjection
<1> QED BY <1>1, <1>4, <1>8 DEF c
-----------------------------------------------------------------------------
(* Folds over lists, as FoldLeft writes them: over the set of positions,    *)
(* the last position outermost.  The operation is a function F on values   *)
(* and elements, so that the lemmas hold for each.                         *)

\* F folds elements in E into values in T, and s has n such elements.
IsFolding(F, T, E, base, s, n) ==
  /\ F \in [T \X E -> T] /\ base \in T
  /\ n \in Nat /\ \A k \in 1..n : s[k] \in E

\* g has the fold of s from base over each set of positions up to n.
IsRun(g, F, T, base, s, n) ==
  /\ g \in [SUBSET (1..n) -> T]
  /\ g[{}] = base
  /\ \A P \in SUBSET (1..n) : P # {} =>
       g[P] = F[<<g[P \ {Max(P)}], s[Max(P)]>>]

\* The same of any g, where its values are in the domain of F.
IsFold(g, F, T, base, s, n) ==
  /\ g[{}] = base
  /\ \A P \in SUBSET (1..n) : P # {} /\ g[P \ {Max(P)}] \in T =>
       g[P] = F[<<g[P \ {Max(P)}], s[Max(P)]>>]

\* a has the value after each element of s.
IsTrace(a, F, T, base, s, n) ==
  /\ a \in [0..n -> T] /\ a[0] = base
  /\ \A k \in 1..n : a[k] = F[<<a[k - 1], s[k]>>]
TraceEnds(F, T, base, s, n, v) == \E a : IsTrace(a, F, T, base, s, n) /\ a[n] = v

(* The last of some positions is the last.                                 *)
LEMMA LastPosition ==
  ASSUME NEW n \in Nat, NEW P \in SUBSET (1..n), P # {}
  PROVE  Max(P) \in P /\ \A m \in P : m <= Max(P)
<1> DEFINE f == [k \in P |-> k]
<1>1. IsFiniteSet(P)
  <2>1. IsFiniteSet(1..n)
    BY FS_Interval
  <2> QED BY <2>1, FS_Subset
<1>2. \A k \in P : f[k] \in Int /\ f[k] = k
  OBVIOUS
<1> HIDE DEF f
<1>3. PICK x \in P : \A y \in P : f[y] <= f[x]
  BY <1>1, <1>2, GreatestOf
<1>4. \A y \in P : x >= y
  BY <1>2, <1>3
<1>5. Max(P) \in P /\ \A y \in P : Max(P) >= y
  BY <1>4, Zenon DEF Max
<1>6. \A y \in P : y \in Int
  OBVIOUS
<1> QED BY <1>5, <1>6

(* A list can be folded.                                                   *)
LEMMA RunExists ==
  ASSUME NEW T, NEW E, NEW F, NEW base, NEW s, NEW n, IsFolding(F, T, E, base, s, n)
  PROVE  \E g : IsRun(g, F, T, base, s, n)
<1> USE DEF IsFolding
<1> DEFINE bad == {m \in 0..n : ~\E g : IsRun(g, F, T, base, s, m)}
<1>1. SUFFICES ASSUME bad # {} PROVE FALSE
  OBVIOUS
<1>2. bad \in SUBSET Nat
  OBVIOUS
<1> HIDE DEF bad
<1>3. PICK m \in bad : \A l \in bad : m <= l
  BY <1>1, <1>2, LeastNumber
<1>4. m \in 0..n /\ ~\E g : IsRun(g, F, T, base, s, m)
  BY <1>3 DEF bad
<1>5. CASE m = 0
  <2> DEFINE h == [P \in SUBSET (1..m) |-> base]
  <2>1. 1..m = {}
    BY <1>5
  <2>2. h \in [SUBSET (1..m) -> T] /\ h[{}] = base
    OBVIOUS
  <2>3. \A P \in SUBSET (1..m) : P = {}
    BY <2>1
  <2>4. IsRun(h, F, T, base, s, m)
    BY <2>2, <2>3 DEF IsRun
  <2> QED BY <1>4, <2>4
<1>6. CASE m # 0
  <2>1. m \in Nat /\ m - 1 \in 0..n /\ m - 1 \in Nat /\ m \in 1..n /\ ~(m <= m - 1)
    BY <1>4, <1>6
  <2>2. m - 1 \notin bad
    BY <1>3, <2>1
  <2>3. PICK g : IsRun(g, F, T, base, s, m - 1)
    BY <2>1, <2>2 DEF bad
  <2>4. /\ g \in [SUBSET (1..(m - 1)) -> T] /\ g[{}] = base
        /\ \A P \in SUBSET (1..(m - 1)) : P # {} =>
             g[P] = F[<<g[P \ {Max(P)}], s[Max(P)]>>]
    BY <2>3 DEF IsRun
  <2> DEFINE h == [P \in SUBSET (1..m) |->
                     IF m \in P THEN F[<<g[P \ {m}], s[m]>>] ELSE g[P]]
  <2>5. \A P \in SUBSET (1..m) : /\ m \notin P => P \in SUBSET (1..(m - 1))
                                 /\ P \ {m} \in SUBSET (1..(m - 1))
    <3>1. \A k \in 1..m : k # m => k \in 1..(m - 1)
      BY <2>1
    <3> QED BY <3>1
  <2>6. \A P \in SUBSET (1..m) : h[P] \in T
    <3>1. TAKE P \in SUBSET (1..m)
    <3>2. CASE m \in P
      <4>1. g[P \ {m}] \in T /\ s[m] \in E
        BY <2>1, <2>4, <2>5
      <4>2. <<g[P \ {m}], s[m]>> \in T \X E
        BY <4>1
      <4> QED BY <3>2, <4>2
    <3>3. CASE m \notin P
      <4>1. g[P] \in T
        BY <2>4, <2>5, <3>3
      <4> QED BY <3>3, <4>1
    <3> QED BY <3>2, <3>3
  <2>7. h[{}] = base
    BY <2>4
  <2>8. ASSUME NEW P \in SUBSET (1..m), P # {}
        PROVE  h[P] = F[<<h[P \ {Max(P)}], s[Max(P)]>>]
    <3>1. Max(P) \in P /\ \A k \in P : k <= Max(P)
      BY <2>1, <2>8, LastPosition
    <3>2. P \ {Max(P)} \in SUBSET (1..m)
      OBVIOUS
    <3>3. CASE m \in P
      <4>1. Max(P) = m
        <5>1. Max(P) \in 1..m
          BY <3>1
        <5>2. m <= Max(P)
          BY <3>1, <3>3
        <5> HIDE DEF h
        <5> QED BY <2>1, <5>1, <5>2
      <4>2. h[P \ {m}] = g[P \ {m}] /\ h[P] = F[<<g[P \ {m}], s[m]>>]
        BY <3>2, <3>3, <4>1
      <4> QED BY <4>1, <4>2
    <3>4. CASE m \notin P
      <4>1. h[P] = g[P] /\ h[P \ {Max(P)}] = g[P \ {Max(P)}]
        BY <3>2, <3>4
      <4>2. g[P] = F[<<g[P \ {Max(P)}], s[Max(P)]>>]
        BY <2>4, <2>5, <2>8, <3>4
      <4> HIDE DEF h
      <4> QED BY <4>1, <4>2, Zenon
    <3> QED BY <3>3, <3>4
  <2>9. h \in [SUBSET (1..m) -> T]
    BY <2>6
  <2> HIDE DEF h
  <2>10. IsRun(h, F, T, base, s, m)
    BY <2>7, <2>8, <2>9 DEF IsRun
  <2> QED BY <1>4, <2>10
<1> QED BY <1>5, <1>6

(* The fold of a list is what the trace of the list ends with.             *)
LEMMA FoldTrace ==
  ASSUME NEW T, NEW E, NEW F, NEW base, NEW s, NEW n, NEW g,
         IsFolding(F, T, E, base, s, n), IsFold(g, F, T, base, s, n)
  PROVE  TraceEnds(F, T, base, s, n, g[1..n])
<1> USE DEF IsFolding
<1>1. ASSUME NEW k \in 1..n
      PROVE  /\ 1..k \in SUBSET (1..n) /\ 1..k # {}
             /\ Max(1..k) = k /\ (1..k) \ {k} = 1..(k - 1)
  <2>1. k \in Nat /\ 1..k \in SUBSET (1..k) /\ k \in 1..k
    OBVIOUS
  <2>2. Max(1..k) \in 1..k /\ \A m \in 1..k : m <= Max(1..k)
    BY <2>1, LastPosition
  <2>3. Max(1..k) = k
    <3>1. Max(1..k) <= k /\ k <= Max(1..k) /\ Max(1..k) \in Int
      BY <2>1, <2>2
    <3> QED BY <2>1, <3>1
  <2>4. (1..k) \ {k} = 1..(k - 1)
    BY <2>1
  <2>5. 1..k \in SUBSET (1..n)
    BY <2>1
  <2> QED BY <2>1, <2>3, <2>4, <2>5
<1>2. /\ g[{}] = base
      /\ \A P \in SUBSET (1..n) : P # {} /\ g[P \ {Max(P)}] \in T =>
           g[P] = F[<<g[P \ {Max(P)}], s[Max(P)]>>]
  BY DEF IsFold
<1>3. ASSUME NEW k \in 1..n, g[1..(k - 1)] \in T
      PROVE  /\ g[1..k] = F[<<g[1..(k - 1)], s[k]>>]
             /\ g[1..k] \in T
  <2>1. g[(1..k) \ {Max(1..k)}] = g[1..(k - 1)] /\ s[Max(1..k)] = s[k]
    BY <1>1
  <2>2. g[1..k] = F[<<g[(1..k) \ {Max(1..k)}], s[Max(1..k)]>>]
    BY <1>1, <1>2, <1>3, <2>1
  <2>3. <<g[1..(k - 1)], s[k]>> \in T \X E
    BY <1>3
  <2> QED BY <2>1, <2>2, <2>3
<1>4. \A k \in 0..n : g[1..k] \in T
  <2> DEFINE bad == {k \in 0..n : g[1..k] \notin T}
  <2>1. SUFFICES ASSUME bad # {} PROVE FALSE
    OBVIOUS
  <2>2. bad \in SUBSET Nat
    OBVIOUS
  <2> HIDE DEF bad
  <2>3. PICK m \in bad : \A l \in bad : m <= l
    BY <2>1, <2>2, LeastNumber
  <2>4. m \in 0..n /\ g[1..m] \notin T
    BY <2>3 DEF bad
  <2>5. CASE m = 0
    <3>1. 1..m = {}
      BY <2>5
    <3> QED BY <1>2, <2>4, <3>1
  <2>6. CASE m # 0
    <3>1. m \in 1..n /\ m - 1 \in 0..n /\ ~(m <= m - 1)
      BY <2>4, <2>6
    <3>2. m - 1 \notin bad
      BY <2>3, <3>1
    <3>3. g[1..(m - 1)] \in T
      BY <3>1, <3>2 DEF bad
    <3> QED BY <1>3, <2>4, <3>1, <3>3
  <2> QED BY <2>5, <2>6
<1> DEFINE a == [k \in 0..n |-> g[1..k]]
<1>5. a \in [0..n -> T]
  BY <1>4
<1>6. a[0] = base
  <2>1. 1..0 = {} /\ 0 \in 0..n
    OBVIOUS
  <2> QED BY <1>2, <2>1
<1>7. ASSUME NEW k \in 1..n PROVE a[k] = F[<<a[k - 1], s[k]>>]
  <2>1. k \in 0..n /\ k - 1 \in 0..n
    OBVIOUS
  <2>2. g[1..k] = F[<<g[1..(k - 1)], s[k]>>]
    BY <1>3, <1>4, <2>1
  <2> QED BY <2>1, <2>2
<1>8. a[n] = g[1..n]
  OBVIOUS
<1> HIDE DEF a
<1>9. IsTrace(a, F, T, base, s, n)
  BY <1>5, <1>6, <1>7 DEF IsTrace
<1> QED BY <1>8, <1>9 DEF TraceEnds
=============================================================================
