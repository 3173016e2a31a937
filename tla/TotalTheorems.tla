---------------------------- MODULE TotalTheorems ---------------------------
(***************************************************************************)
(* Lemmas about Total, the sum of a function over a finite set: the fold   *)
(* it is defined by exists, and does not depend on the order it chooses.   *)
(* Induction goes through minimal sets: of finitely many finite sets some  *)
(* one contains no other.                                                  *)
(***************************************************************************)
EXTENDS USDC, FiniteSetTheorems, TLAPS

LEMMA MinimalSet ==
  ASSUME NEW S, IsFiniteSet(S), NEW W \in SUBSET SUBSET S, W # {}
  PROVE  \E T \in W : \A U \in W : U \subseteq T => U = T
<1>1. IsWellFoundedOn(StrictSubsetOrdering(S), SUBSET S)
  BY FS_StrictSubsetOrderingWellFounded, FS_FiniteSubsetsOfFinite
<1>2. PICK T \in W : \A U \in W : <<U, T>> \notin StrictSubsetOrdering(S)
  BY <1>1, WFMin
<1>3. ASSUME NEW U \in W, U \subseteq T
      PROVE  U = T
  <2>1. <<U, T>> \in StrictSubsetOrdering(S) <=> U # T
    BY <1>3 DEF StrictSubsetOrdering
  <2> QED
    BY <1>2, <2>1
<1> QED
  BY <1>3

(* The element the fold takes next, and the recursion it follows.          *)
Chosen(s) == CHOOSE x \in s : TRUE
Sums(f, S, g) ==
  g = [s \in SUBSET S |-> IF s = {} THEN 0 ELSE f[Chosen(s)] + g[s \ {Chosen(s)}]]

LEMMA ChosenIn == ASSUME NEW s, s # {} PROVE Chosen(s) \in s
BY DEF Chosen

LEMMA TotalIsChosen ==
  ASSUME NEW f, NEW S
  PROVE  Total(f, S) = (CHOOSE g : Sums(f, S, g))[S]
BY DEF Total, SumFunctionOnSet, FoldFunctionOnSet, MapThenFoldSet, Sums, Chosen

LEMMA SumsUnique ==
  ASSUME NEW f, NEW S, IsFiniteSet(S), NEW g, NEW h, Sums(f, S, g), Sums(f, S, h)
  PROVE  g = h
<1> DEFINE W == {s \in SUBSET S : g[s] # h[s]}
<1>1. ASSUME W # {} PROVE FALSE
  <2>1. PICK T \in W : \A U \in W : U \subseteq T => U = T
    <3>1. W \in SUBSET SUBSET S
      OBVIOUS
    <3> HIDE DEF W
    <3> QED
      BY <1>1, <3>1, MinimalSet
  <2>2. T # {}
    BY <2>1 DEF Sums
  <2>3. Chosen(T) \in T
    BY <2>2, ChosenIn
  <2>4. T \ {Chosen(T)} \notin W
    BY <2>1, <2>3
  <2>5. g[T \ {Chosen(T)}] = h[T \ {Chosen(T)}]
    BY <2>1, <2>4
  <2> QED
    BY <2>1, <2>2, <2>5 DEF Sums
<1>2. DOMAIN g = SUBSET S /\ DOMAIN h = SUBSET S
  BY DEF Sums
<1> QED
  BY <1>1, <1>2 DEF Sums

(* What solves the recursion on a set solves it on its subsets.            *)
LEMMA SumsRestricted ==
  ASSUME NEW f, NEW S, NEW g, Sums(f, S, g), NEW T \in SUBSET S
  PROVE  Sums(f, T, [s \in SUBSET T |-> g[s]])
<1> DEFINE h == [s \in SUBSET T |-> g[s]]
<1>1. ASSUME NEW s \in SUBSET T
      PROVE  h[s] = IF s = {} THEN 0 ELSE f[Chosen(s)] + h[s \ {Chosen(s)}]
  <2>1. s \in SUBSET S /\ s \ {Chosen(s)} \in SUBSET T
    OBVIOUS
  <2>2. g[s] = IF s = {} THEN 0 ELSE f[Chosen(s)] + g[s \ {Chosen(s)}]
    BY <2>1 DEF Sums
  <2> QED
    BY <2>1, <2>2
<1> QED
  BY <1>1 DEF Sums

LEMMA SumsExist ==
  ASSUME NEW f, NEW S, IsFiniteSet(S)
  PROVE  \E g : Sums(f, S, g)
<1> DEFINE sol(U) == CHOOSE g : Sums(f, U, g)
           W == {U \in SUBSET S : ~ \E g : Sums(f, U, g)}
<1>1. ASSUME W # {} PROVE FALSE
  <2>1. PICK T \in W : \A U \in W : U \subseteq T => U = T
    <3>1. W \in SUBSET SUBSET S
      OBVIOUS
    <3> HIDE DEF W
    <3> QED
      BY <1>1, <3>1, MinimalSet
  <2>2. \A U \in SUBSET T : U # T => Sums(f, U, sol(U))
    BY <2>1
  <2>3. ASSUME NEW U \in SUBSET T, U # T, NEW V \in SUBSET U
        PROVE  sol(U)[V] = sol(V)[V]
    <3> DEFINE h == [s \in SUBSET V |-> sol(U)[s]]
    <3>1. V # T /\ V \in SUBSET T /\ IsFiniteSet(V)
      BY <2>1, <2>3, FS_Subset
    <3>2. Sums(f, V, h)
      BY <2>2, <2>3, SumsRestricted
    <3>3. Sums(f, V, sol(V))
      BY <2>2, <3>1
    <3> HIDE DEF sol, h
    <3>4. h = sol(V)
      BY <3>1, <3>2, <3>3, SumsUnique
    <3> QED
      BY <3>4 DEF h
  <2> DEFINE rest(s) == s \ {Chosen(s)}
             g == [s \in SUBSET T |-> IF s = {} THEN 0 ELSE f[Chosen(s)] + sol(rest(s))[rest(s)]]
  <2>4. ASSUME NEW s \in SUBSET T, s # {}
        PROVE  g[rest(s)] = sol(rest(s))[rest(s)]
    <3> DEFINE U == rest(s)
    <3>1. Chosen(s) \in s /\ U \in SUBSET T /\ U # T
      BY <2>4, ChosenIn
    <3>2. sol(U)[U] = IF U = {} THEN 0 ELSE f[Chosen(U)] + sol(U)[rest(U)]
      <4>1. Sums(f, U, sol(U))
        BY <2>2, <3>1
      <4> HIDE DEF sol, U
      <4> QED
        BY <4>1 DEF Sums
    <3>3. sol(U)[rest(U)] = sol(rest(U))[rest(U)]
      BY <2>3, <3>1
    <3> HIDE DEF U, sol
    <3> QED
      BY <3>1, <3>2, <3>3 DEF U
  <2>5. Sums(f, T, g)
    <3> HIDE DEF sol
    <3>1. \A s \in SUBSET T : g[s] = IF s = {} THEN 0 ELSE f[Chosen(s)] + g[rest(s)]
      BY <2>4
    <3> HIDE DEF g
    <3>2. DOMAIN g = SUBSET T /\ g = [s \in SUBSET T |-> g[s]]
      BY DEF g
    <3> QED
      BY <3>1, <3>2 DEF Sums
  <2> QED
    BY <2>1, <2>5
<1>2. S \notin W
  BY <1>1
<1> QED
  BY <1>2

(* The sums of all subsets of a finite set follow one recursion.           *)
LEMMA TotalRecursion ==
  ASSUME NEW f, NEW S, IsFiniteSet(S)
  PROVE  Total(f, S) = IF S = {} THEN 0 ELSE f[Chosen(S)] + Total(f, S \ {Chosen(S)})
<1> DEFINE g == CHOOSE g : Sums(f, S, g)
           T == S \ {Chosen(S)}
           h == CHOOSE h : Sums(f, T, h)
           r == [s \in SUBSET T |-> g[s]]
<1>1. Sums(f, S, g)
  BY SumsExist
<1>2. IsFiniteSet(T) /\ T \in SUBSET S
  BY FS_Subset
<1>3. Sums(f, T, h)
  BY <1>2, SumsExist
<1>4. Sums(f, T, r)
  BY <1>1, <1>2, SumsRestricted
<1>5. Total(f, S) = g[S] /\ Total(f, T) = h[T]
  BY TotalIsChosen
<1> HIDE DEF g, T, h, r
<1>6. h = r
  BY <1>2, <1>3, <1>4, SumsUnique
<1>7. h[T] = g[T]
  BY <1>6 DEF r
<1>8. g[S] = IF S = {} THEN 0 ELSE f[Chosen(S)] + g[S \ {Chosen(S)}]
  BY <1>1 DEF Sums
<1> QED
  BY <1>5, <1>7, <1>8 DEF T

LEMMA TotalEmpty == ASSUME NEW f PROVE Total(f, {}) = 0
BY TotalRecursion, FS_EmptySet

(* A sum of natural numbers is one.                                        *)
LEMMA TotalNat ==
  ASSUME NEW f, NEW S, IsFiniteSet(S), \A x \in S : f[x] \in Nat
  PROVE  Total(f, S) \in Nat
<1> DEFINE W == {T \in SUBSET S : Total(f, T) \notin Nat}
<1>1. ASSUME W # {} PROVE FALSE
  <2>1. PICK T \in W : \A U \in W : U \subseteq T => U = T
    <3>1. W \in SUBSET SUBSET S
      OBVIOUS
    <3> HIDE DEF W
    <3> QED
      BY <1>1, <3>1, MinimalSet
  <2>2. IsFiniteSet(T)
    BY <2>1, FS_Subset
  <2>3. T # {}
    <3>1. Total(f, T) \notin Nat /\ Total(f, {}) \in Nat
      BY <2>1, TotalEmpty
    <3> QED
      BY <3>1
  <2>4. Chosen(T) \in T /\ T \ {Chosen(T)} \notin W
    BY <2>1, <2>3, ChosenIn
  <2>5. Total(f, T \ {Chosen(T)}) \in Nat /\ f[Chosen(T)] \in Nat
    BY <2>1, <2>4
  <2> QED
    BY <2>1, <2>2, <2>3, <2>5, TotalRecursion
<1> QED
  BY <1>1

(* The order does not matter: any element can be taken out first.          *)
LEMMA TotalTakeOut ==
  ASSUME NEW f, NEW S, IsFiniteSet(S), \A x \in S : f[x] \in Nat, NEW x \in S
  PROVE  Total(f, S) = f[x] + Total(f, S \ {x})
<1> DEFINE W == {T \in SUBSET S : \E y \in T : Total(f, T) # f[y] + Total(f, T \ {y})}
<1>1. ASSUME W # {} PROVE FALSE
  <2>1. PICK T \in W : \A U \in W : U \subseteq T => U = T
    <3>1. W \in SUBSET SUBSET S
      OBVIOUS
    <3> HIDE DEF W
    <3> QED
      BY <1>1, <3>1, MinimalSet
  <2>2. PICK y \in T : Total(f, T) # f[y] + Total(f, T \ {y})
    BY <2>1
  <2> DEFINE z == Chosen(T)
  <2>3. z \in T
    BY <2>2, ChosenIn
  <2> HIDE DEF z
  <2>4. Total(f, T) = f[z] + Total(f, T \ {z})
    BY <2>1, <2>2, FS_Subset, TotalRecursion DEF z
  <2>5. y # z
    BY <2>2, <2>4
  <2>6. T \ {z} \notin W /\ T \ {y} \notin W
    BY <2>1, <2>2, <2>3
  <2>7. /\ Total(f, T \ {z}) = f[y] + Total(f, (T \ {z}) \ {y})
        /\ Total(f, T \ {y}) = f[z] + Total(f, (T \ {y}) \ {z})
    BY <2>1, <2>2, <2>3, <2>5, <2>6
  <2>8. (T \ {z}) \ {y} = (T \ {y}) \ {z}
    OBVIOUS
  <2>9. f[y] \in Nat /\ f[z] \in Nat /\ Total(f, (T \ {y}) \ {z}) \in Nat
    <3>1. (T \ {y}) \ {z} \in SUBSET S
      BY <2>1
    <3>2. IsFiniteSet((T \ {y}) \ {z})
      BY <3>1, FS_Subset
    <3> QED
      BY <2>1, <2>2, <2>3, <3>1, <3>2, TotalNat
  <2> QED
    BY <2>2, <2>4, <2>7, <2>8, <2>9
<1>2. S \notin W
  BY <1>1
<1> QED
  BY <1>2

LEMMA TotalZero ==
  ASSUME NEW f, NEW S, IsFiniteSet(S), \A x \in S : f[x] = 0
  PROVE  Total(f, S) = 0
<1> DEFINE W == {T \in SUBSET S : Total(f, T) # 0}
<1>1. ASSUME W # {} PROVE FALSE
  <2>1. PICK T \in W : \A U \in W : U \subseteq T => U = T
    <3>1. W \in SUBSET SUBSET S
      OBVIOUS
    <3> HIDE DEF W
    <3> QED
      BY <1>1, <3>1, MinimalSet
  <2>2. IsFiniteSet(T) /\ T # {}
    BY <2>1, FS_Subset, TotalEmpty
  <2>3. Chosen(T) \in T /\ T \ {Chosen(T)} \notin W
    BY <2>1, <2>2, ChosenIn
  <2>4. Total(f, T \ {Chosen(T)}) = 0 /\ f[Chosen(T)] = 0
    BY <2>1, <2>3
  <2> QED
    BY <2>1, <2>2, <2>4, TotalRecursion
<1>2. S \notin W
  BY <1>1
<1> QED
  BY <1>2

(* The sum looks at f on S only.                                           *)
LEMMA TotalSame ==
  ASSUME NEW f, NEW h, NEW S, IsFiniteSet(S), \A x \in S : f[x] = h[x]
  PROVE  Total(f, S) = Total(h, S)
<1> DEFINE W == {T \in SUBSET S : Total(f, T) # Total(h, T)}
<1>1. ASSUME W # {} PROVE FALSE
  <2>1. PICK T \in W : \A U \in W : U \subseteq T => U = T
    <3>1. W \in SUBSET SUBSET S
      OBVIOUS
    <3> HIDE DEF W
    <3> QED
      BY <1>1, <3>1, MinimalSet
  <2>2. IsFiniteSet(T)
    BY <2>1, FS_Subset
  <2>3. T # {}
    BY <2>1, TotalEmpty
  <2>4. Chosen(T) \in T /\ T \ {Chosen(T)} \notin W
    BY <2>1, <2>3, ChosenIn
  <2>5. Total(f, T \ {Chosen(T)}) = Total(h, T \ {Chosen(T)}) /\ f[Chosen(T)] = h[Chosen(T)]
    BY <2>1, <2>4
  <2>6. /\ Total(f, T) = f[Chosen(T)] + Total(f, T \ {Chosen(T)})
        /\ Total(h, T) = h[Chosen(T)] + Total(h, T \ {Chosen(T)})
    BY <2>2, <2>3, TotalRecursion
  <2> QED
    BY <2>1, <2>5, <2>6
<1> QED
  BY <1>1

(* One part is at most the sum.                                            *)
LEMMA TotalBounds ==
  ASSUME NEW f, NEW S, IsFiniteSet(S), \A x \in S : f[x] \in Nat, NEW x \in S
  PROVE  f[x] <= Total(f, S)
<1>1. IsFiniteSet(S \ {x}) /\ \A y \in S \ {x} : f[y] \in Nat
  BY FS_Subset
<1>2. Total(f, S \ {x}) \in Nat
  BY <1>1, TotalNat
<1> QED
  BY <1>2, TotalTakeOut

LEMMA TotalAdd ==
  ASSUME NEW f, NEW S, IsFiniteSet(S), NEW x, x \notin S, \A y \in S \cup {x} : f[y] \in Nat
  PROVE  Total(f, S \cup {x}) = f[x] + Total(f, S)
<1>1. IsFiniteSet(S \cup {x}) /\ (S \cup {x}) \ {x} = S /\ x \in S \cup {x}
  BY FS_AddElement
<1> HIDE DEF Total
<1> DEFINE T == S \cup {x}
<1>2. \A y \in T : f[y] \in Nat
  OBVIOUS
<1>3. IsFiniteSet(T) /\ x \in T /\ T \ {x} = S
  BY <1>1
<1> HIDE DEF T
<1>4. Total(f, T) = f[x] + Total(f, T \ {x})
  BY <1>2, <1>3, TotalTakeOut
<1> QED
  BY <1>3, <1>4 DEF T

(* Changing one argument's value changes the sum by the difference.        *)
LEMMA TotalChange ==
  ASSUME NEW f, NEW h, NEW S, IsFiniteSet(S),
         \A y \in S : f[y] \in Nat /\ h[y] \in Nat,
         NEW x \in S, \A y \in S \ {x} : h[y] = f[y]
  PROVE  Total(h, S) = Total(f, S) - f[x] + h[x]
<1>1. IsFiniteSet(S \ {x}) /\ \A y \in S \ {x} : f[y] \in Nat
  BY FS_Subset
<1>2. Total(h, S \ {x}) = Total(f, S \ {x})
  BY <1>1, TotalSame
<1>3. /\ Total(f, S) = f[x] + Total(f, S \ {x})
      /\ Total(h, S) = h[x] + Total(h, S \ {x})
  BY TotalTakeOut
<1>4. Total(f, S \ {x}) \in Nat
  BY <1>1, TotalNat
<1> QED
  BY <1>2, <1>3, <1>4

(* A sum grows with its parts.                                             *)
LEMMA TotalMonotone ==
  ASSUME NEW f, NEW h, NEW S, IsFiniteSet(S),
         \A x \in S : f[x] \in Nat /\ h[x] \in Nat /\ f[x] <= h[x]
  PROVE  Total(f, S) <= Total(h, S)
<1> DEFINE W == {T \in SUBSET S : ~(Total(f, T) <= Total(h, T))}
<1>1. ASSUME W # {} PROVE FALSE
  <2>1. PICK T \in W : \A U \in W : U \subseteq T => U = T
    <3>1. W \in SUBSET SUBSET S
      OBVIOUS
    <3> HIDE DEF W
    <3> QED
      BY <1>1, <3>1, MinimalSet
  <2>2. IsFiniteSet(T)
    BY <2>1, FS_Subset
  <2>3. T # {}
    BY <2>1, TotalEmpty
  <2> DEFINE c == Chosen(T)
             R == T \ {c}
  <2>4. c \in T /\ R \notin W /\ R \in SUBSET S /\ c \in S
    BY <2>1, <2>3, ChosenIn
  <2>5. /\ Total(f, R) <= Total(h, R) /\ f[c] <= h[c] /\ f[c] \in Nat /\ h[c] \in Nat
    BY <2>1, <2>4
  <2>6. /\ Total(f, T) = f[c] + Total(f, R)
        /\ Total(h, T) = h[c] + Total(h, R)
    BY <2>2, <2>3, TotalRecursion
  <2>7. Total(f, R) \in Nat /\ Total(h, R) \in Nat
    <3>1. IsFiniteSet(R) /\ \A x \in R : f[x] \in Nat /\ h[x] \in Nat
      BY <2>1, <2>2, FS_Subset
    <3> HIDE DEF R
    <3> QED
      BY <3>1, TotalNat
  <2> HIDE DEF c, R
  <2>8. Total(f, T) <= Total(h, T)
    BY <2>5, <2>6, <2>7
  <2> QED
    BY <2>1, <2>8
<1> QED
  BY <1>1

(* Shares of p in proportion to w, each rounded down by dividing by d,     *)
(* come to no more than the share of the whole.                            *)
LEMMA TotalOfShares ==
  ASSUME NEW r, NEW w, NEW S, IsFiniteSet(S), NEW d \in Nat, NEW p \in Nat,
         \A x \in S : r[x] \in Nat /\ w[x] \in Nat /\ d * r[x] <= p * w[x]
  PROVE  d * Total(r, S) <= p * Total(w, S)
<1> DEFINE W == {T \in SUBSET S : ~(d * Total(r, T) <= p * Total(w, T))}
<1>1. ASSUME W # {} PROVE FALSE
  <2>1. PICK T \in W : \A U \in W : U \subseteq T => U = T
    <3>1. W \in SUBSET SUBSET S
      OBVIOUS
    <3> HIDE DEF W
    <3> QED
      BY <1>1, <3>1, MinimalSet
  <2>2. IsFiniteSet(T)
    BY <2>1, FS_Subset
  <2>3. T # {}
    <3>1. Total(r, {}) = 0 /\ Total(w, {}) = 0
      BY TotalEmpty
    <3>2. d * Total(r, {}) <= p * Total(w, {})
      BY <3>1
    <3> QED
      BY <2>1, <3>2
  <2> DEFINE c == Chosen(T)
             R == T \ {c}
  <2>4. c \in T /\ R \notin W /\ R \in SUBSET S /\ c \in S
    BY <2>1, <2>3, ChosenIn
  <2>5. /\ d * Total(r, R) <= p * Total(w, R) /\ d * r[c] <= p * w[c]
        /\ r[c] \in Nat /\ w[c] \in Nat
    BY <2>1, <2>4
  <2>6. /\ Total(r, T) = r[c] + Total(r, R)
        /\ Total(w, T) = w[c] + Total(w, R)
    BY <2>2, <2>3, TotalRecursion
  <2>7. Total(r, R) \in Nat /\ Total(w, R) \in Nat
    <3>1. IsFiniteSet(R) /\ \A x \in R : r[x] \in Nat /\ w[x] \in Nat
      BY <2>1, <2>2, FS_Subset
    <3> HIDE DEF R
    <3> QED
      BY <3>1, TotalNat
  <2> HIDE DEF c, R
  <2>8. \A k, m, n \in Nat : k * (m + n) = k * m + k * n /\ k * m \in Nat
    BY SMT
  <2>9. /\ d * Total(r, T) = d * r[c] + d * Total(r, R)
        /\ p * Total(w, T) = p * w[c] + p * Total(w, R)
        /\ {d * r[c], d * Total(r, R), p * w[c], p * Total(w, R)} \subseteq Nat
    BY <2>5, <2>6, <2>7, <2>8
  <2>10. d * Total(r, T) <= p * Total(w, T)
    BY <2>5, <2>9
  <2> QED
    BY <2>1, <2>10
<1> QED
  BY <1>1

(* A fixed part in every place.                                            *)
LEMMA TotalShifted ==
  ASSUME NEW f, NEW g, NEW S, IsFiniteSet(S), NEW k \in Nat,
         \A x \in S : g[x] \in Nat /\ f[x] = k + g[x]
  PROVE  Total(f, S) = k * Cardinality(S) + Total(g, S)
<1> DEFINE W == {T \in SUBSET S : Total(f, T) # k * Cardinality(T) + Total(g, T)}
<1>1. ASSUME W # {} PROVE FALSE
  <2>1. PICK T \in W : \A U \in W : U \subseteq T => U = T
    <3>1. W \in SUBSET SUBSET S
      OBVIOUS
    <3> HIDE DEF W
    <3> QED
      BY <1>1, <3>1, MinimalSet
  <2>2. IsFiniteSet(T)
    BY <2>1, FS_Subset
  <2>3. T # {}
    <3>1. Total(f, {}) = 0 /\ Total(g, {}) = 0 /\ Cardinality({}) = 0
      BY TotalEmpty, FS_EmptySet
    <3>2. Total(f, {}) = k * Cardinality({}) + Total(g, {})
      BY <3>1
    <3> QED
      BY <2>1, <3>2
  <2> DEFINE c == Chosen(T)
             R == T \ {c}
  <2>4. c \in T /\ R \notin W /\ R \in SUBSET S /\ c \in S
    BY <2>1, <2>3, ChosenIn
  <2>5. Total(f, R) = k * Cardinality(R) + Total(g, R) /\ f[c] = k + g[c] /\ g[c] \in Nat
    BY <2>1, <2>4
  <2>6. /\ Total(f, T) = f[c] + Total(f, R)
        /\ Total(g, T) = g[c] + Total(g, R)
    BY <2>2, <2>3, TotalRecursion
  <2>7. IsFiniteSet(R) /\ Total(g, R) \in Nat
    <3>1. IsFiniteSet(R) /\ \A x \in R : g[x] \in Nat
      BY <2>1, <2>2, FS_Subset
    <3> HIDE DEF R
    <3> QED
      BY <3>1, TotalNat
  <2>8. Cardinality(T) = Cardinality(R) + 1 /\ Cardinality(R) \in Nat
    BY <2>2, <2>4, <2>7, FS_RemoveElement, FS_CardinalityType
  <2> HIDE DEF c, R
  <2>9. \A m, n \in Nat : m * (n + 1) = m * n + m /\ m * n \in Nat
    BY SMT
  <2>10. k * Cardinality(T) = k * Cardinality(R) + k /\ k * Cardinality(R) \in Nat
    BY <2>8, <2>9
  <2>11. Total(f, T) = k * Cardinality(T) + Total(g, T)
    BY <2>5, <2>6, <2>7, <2>10
  <2> QED
    BY <2>1, <2>11
<1> QED
  BY <1>1

(* What is zero outside a part of the set sums up to the sum over the part. *)
LEMMA TotalSupport ==
  ASSUME NEW f, NEW S, IsFiniteSet(S), NEW R \in SUBSET S,
         \A x \in S : f[x] \in Nat /\ (x \notin R => f[x] = 0)
  PROVE  Total(f, S) = Total(f, R)
<1> DEFINE W == {T \in SUBSET S : Total(f, T) # Total(f, T \cap R)}
<1>1. ASSUME W # {} PROVE FALSE
  <2>1. PICK T \in W : \A U \in W : U \subseteq T => U = T
    <3>1. W \in SUBSET SUBSET S
      OBVIOUS
    <3> HIDE DEF W
    <3> QED
      BY <1>1, <3>1, MinimalSet
  <2>2. IsFiniteSet(T)
    BY <2>1, FS_Subset
  <2>3. T # {}
    <3>1. {} \cap R = {}
      OBVIOUS
    <3> QED
      BY <2>1, <3>1
  <2> DEFINE c == Chosen(T)
             P == T \ {c}
  <2>4. c \in T /\ P \notin W /\ P \in SUBSET S /\ c \in S
    BY <2>1, <2>3, ChosenIn
  <2>5. Total(f, P) = Total(f, P \cap R) /\ f[c] \in Nat /\ (c \notin R => f[c] = 0)
    BY <2>1, <2>4
  <2>6. Total(f, T) = f[c] + Total(f, P)
    BY <2>2, <2>3, TotalRecursion
  <2>7. Total(f, T \cap R) = f[c] + Total(f, P \cap R)
    <3>1. CASE c \in R
      <4>1. /\ IsFiniteSet(T \cap R) /\ c \in T \cap R /\ (T \cap R) \ {c} = P \cap R
            /\ \A x \in T \cap R : f[x] \in Nat
        BY <2>1, <2>2, <2>4, <3>1, FS_Subset
      <4> HIDE DEF P, c
      <4> QED
        BY <4>1, TotalTakeOut
    <3>2. CASE c \notin R
      <4>1. T \cap R = P \cap R /\ f[c] = 0
        BY <2>5, <3>2
      <4>2. Total(f, P \cap R) \in Nat
        <5>1. IsFiniteSet(P \cap R) /\ \A x \in P \cap R : f[x] \in Nat
          BY <2>1, <2>2, FS_Subset
        <5> HIDE DEF P
        <5> QED
          BY <5>1, TotalNat
      <4>3. Total(f, T \cap R) = Total(f, P \cap R)
        BY <4>1
      <4> HIDE DEF P, c
      <4> QED
        BY ONLY <4>1, <4>2, <4>3
    <3> QED
      BY <3>1, <3>2
  <2> QED
    BY <2>1, <2>5, <2>6, <2>7
<1>2. S \cap R = R /\ S \in SUBSET S /\ S \notin W
  BY <1>1
<1> QED
  BY <1>2

(* The sums of f over the classes of S.                                    *)
ByClass(f, S, A, class) == [a \in A |-> Total(f, {x \in S : class[x] = a})]

(* Summing by class and then over the classes is summing.                  *)
LEMMA TotalByClass ==
  ASSUME NEW f, NEW S, IsFiniteSet(S), NEW A, IsFiniteSet(A), NEW class,
         \A x \in S : f[x] \in Nat /\ class[x] \in A
  PROVE  Total(ByClass(f, S, A, class), A) = Total(f, S)
<1> DEFINE By(T) == [a \in A |-> Total(f, {x \in T : class[x] = a})]
           W == {T \in SUBSET S : Total(By(T), A) # Total(f, T)}
<1>1. ASSUME W # {} PROVE FALSE
  <2>1. PICK T \in W : \A U \in W : U \subseteq T => U = T
    <3>1. W \in SUBSET SUBSET S
      OBVIOUS
    <3> HIDE DEF W
    <3> QED
      BY <1>1, <3>1, MinimalSet
  <2>2. IsFiniteSet(T) /\ T \in SUBSET S /\ Total(By(T), A) # Total(f, T)
    BY <2>1, FS_Subset
  <2>3. T # {}
    <3>1. ASSUME NEW a \in A PROVE By({})[a] = 0
      <4>1. {x \in {} : class[x] = a} = {}
        OBVIOUS
      <4> QED
        BY <4>1, TotalEmpty
    <3> HIDE DEF By
    <3>2. Total(By({}), A) = 0
      BY <3>1, TotalZero
    <3> QED
      BY <2>2, <3>2, TotalEmpty
  <2> DEFINE c == Chosen(T)
             R == T \ {c}
             k == class[c]
  <2>4. c \in T /\ R \in SUBSET S /\ c \in S /\ k \in A /\ f[c] \in Nat
    BY <2>2, <2>3, ChosenIn
  <2>5. Total(By(R), A) = Total(f, R)
    <3>1. R \notin W
      BY <2>1, <2>4
    <3> QED
      BY <2>4, <3>1
  <2>6. Total(f, T) = f[c] + Total(f, R)
    BY <2>2, <2>3, TotalRecursion
  <2>7. ASSUME NEW a \in A, NEW U \in SUBSET T
        PROVE  /\ By(U)[a] \in Nat
               /\ IsFiniteSet({x \in U : class[x] = a}) /\ \A x \in U : f[x] \in Nat
    <3>1. {x \in U : class[x] = a} \in SUBSET T
      OBVIOUS
    <3>2. IsFiniteSet({x \in U : class[x] = a})
      BY <2>2, <3>1, FS_Subset
    <3>3. \A x \in {x \in U : class[x] = a} : f[x] \in Nat
      BY <2>2, <2>7
    <3>4. Total(f, {x \in U : class[x] = a}) \in Nat
      BY <3>2, <3>3, TotalNat
    <3> QED
      BY <2>2, <2>7, <3>2, <3>4
  <2>8. ASSUME NEW a \in A \ {k} PROVE By(T)[a] = By(R)[a]
    <3>1. {x \in T : class[x] = a} = {x \in R : class[x] = a}
      BY <2>8
    <3> QED
      BY <3>1
  <2>9. By(T)[k] = f[c] + By(R)[k]
    <3>1. /\ c \in {x \in T : class[x] = k}
          /\ {x \in T : class[x] = k} \ {c} = {x \in R : class[x] = k}
      BY <2>4
    <3>2. IsFiniteSet({x \in T : class[x] = k}) /\ \A x \in {x \in T : class[x] = k} : f[x] \in Nat
      BY <2>4, <2>7
    <3>3. Total(f, {x \in T : class[x] = k})
            = f[c] + Total(f, {x \in T : class[x] = k} \ {c})
      <4> DEFINE Z == {x \in T : class[x] = k}
      <4>1. c \in Z /\ IsFiniteSet(Z) /\ \A x \in Z : f[x] \in Nat
        BY <3>1, <3>2
      <4> HIDE DEF Z
      <4>2. Total(f, Z) = f[c] + Total(f, Z \ {c})
        BY ONLY <4>1, TotalTakeOut
      <4> QED
        BY <4>2 DEF Z
    <3>4. By(T)[k] = Total(f, {x \in T : class[x] = k})
          /\ By(R)[k] = Total(f, {x \in R : class[x] = k})
      BY <2>4
    <3> QED
      BY <3>1, <3>3, <3>4
  <2>10. \A a \in A : By(T)[a] \in Nat /\ By(R)[a] \in Nat
    <3>1. T \in SUBSET T /\ R \in SUBSET T
      OBVIOUS
    <3> HIDE DEF By, R
    <3> QED
      BY <2>7, <3>1
  <2>11. Total(By(T), A) = Total(By(R), A) - By(R)[k] + By(T)[k]
    <3>1. \A a \in A \ {k} : By(T)[a] = By(R)[a]
      BY <2>8
    <3> HIDE DEF By, R, k
    <3> QED
      BY <2>4, <2>10, <3>1, TotalChange
  <2>12. Total(By(R), A) \in Nat /\ By(R)[k] \in Nat
    <3> HIDE DEF By, R, k
    <3> QED
      BY <2>4, <2>10, TotalNat
  <2> HIDE DEF By, R, k, c
  <2>13. Total(By(T), A) = Total(f, T)
    BY <2>4, <2>5, <2>6, <2>9, <2>11, <2>12
  <2> QED
    BY <2>2, <2>13
<1>2. S \in SUBSET S /\ S \notin W
  BY <1>1
<1>3. Total(By(S), A) = Total(f, S)
  BY <1>2
<1> QED
  BY <1>3 DEF ByClass

(* A finite set of numbers has a largest one.                              *)
LEMMA LargestExists ==
  ASSUME NEW S, IsFiniteSet(S), S \subseteq Nat, S # {}
  PROVE  \E m \in S : \A n \in S : n <= m
<1> DEFINE W == {T \in SUBSET S : T # {} /\ ~\E m \in T : \A n \in T : n <= m}
<1>1. ASSUME W # {} PROVE FALSE
  <2>1. PICK T \in W : \A U \in W : U \subseteq T => U = T
    <3>1. W \in SUBSET SUBSET S
      OBVIOUS
    <3>2. IsFiniteSet(S) /\ W # {}
      BY <1>1
    <3> HIDE DEF W
    <3> QED
      BY ONLY <3>1, <3>2, MinimalSet
  <2>2. PICK c \in T : TRUE
    BY <2>1
  <2>3. T \ {c} \notin W /\ T \in SUBSET S /\ c \in Nat
    BY <2>1, <2>2
  <2>4. CASE T \ {c} = {}
    <3>1. \A n \in T : n <= c
      BY <2>2, <2>3, <2>4
    <3> QED
      BY <2>1, <2>2, <3>1
  <2>5. CASE T \ {c} # {}
    <3>1. PICK m \in T \ {c} : \A n \in T \ {c} : n <= m
      BY <2>3, <2>5
    <3>2. m \in Nat /\ \A n \in T : n \in Nat
      BY <2>3, <3>1
    <3>3. CASE c <= m
      <4>1. \A n \in T : n <= m
        BY <3>1, <3>3
      <4> QED
        BY <2>1, <3>1, <4>1
    <3>4. CASE ~(c <= m)
      <4>1. \A n \in T : n <= c
        BY <2>3, <3>1, <3>2, <3>4
      <4> QED
        BY <2>1, <2>2, <4>1
    <3> QED
      BY <3>3, <3>4
  <2> QED
    BY <2>4, <2>5
<1> QED
  BY <1>1

(* The sum of sums.                                                        *)
LEMMA TotalPlus ==
  ASSUME NEW f, NEW g, NEW h, NEW S, IsFiniteSet(S),
         \A x \in S : g[x] \in Nat /\ h[x] \in Nat /\ f[x] = g[x] + h[x]
  PROVE  Total(f, S) = Total(g, S) + Total(h, S)
<1> DEFINE W == {T \in SUBSET S : Total(f, T) # Total(g, T) + Total(h, T)}
<1>1. ASSUME W # {} PROVE FALSE
  <2>1. PICK T \in W : \A U \in W : U \subseteq T => U = T
    <3>1. W \in SUBSET SUBSET S
      OBVIOUS
    <3> HIDE DEF W
    <3> QED
      BY <1>1, <3>1, MinimalSet
  <2>2. IsFiniteSet(T)
    BY <2>1, FS_Subset
  <2>3. T # {}
    <3>1. Total(f, {}) = 0 /\ Total(g, {}) = 0 /\ Total(h, {}) = 0
      BY TotalEmpty
    <3>2. Total(f, {}) = Total(g, {}) + Total(h, {})
      BY <3>1
    <3> QED
      BY <2>1, <3>2
  <2> DEFINE c == Chosen(T)
             R == T \ {c}
  <2>4. c \in T /\ R \notin W /\ R \in SUBSET S /\ c \in S
    BY <2>1, <2>3, ChosenIn
  <2>5. /\ Total(f, R) = Total(g, R) + Total(h, R) /\ f[c] = g[c] + h[c]
        /\ g[c] \in Nat /\ h[c] \in Nat
    BY <2>1, <2>4
  <2>6. /\ Total(f, T) = f[c] + Total(f, R)
        /\ Total(g, T) = g[c] + Total(g, R)
        /\ Total(h, T) = h[c] + Total(h, R)
    BY <2>2, <2>3, TotalRecursion
  <2>7. Total(g, R) \in Nat /\ Total(h, R) \in Nat
    <3>1. IsFiniteSet(R) /\ \A x \in R : g[x] \in Nat /\ h[x] \in Nat
      BY <2>1, <2>2, FS_Subset
    <3> HIDE DEF R
    <3> QED
      BY <3>1, TotalNat
  <2> HIDE DEF c, R
  <2>8. Total(f, T) = Total(g, T) + Total(h, T)
    BY <2>5, <2>6, <2>7
  <2> QED
    BY <2>1, <2>8
<1> QED
  BY <1>1

(* A part is worth no more than the whole, and two parts together no less  *)
(* than the whole they make up.                                            *)
LEMMA TotalParts ==
  ASSUME NEW f, NEW S, IsFiniteSet(S), NEW T, IsFiniteSet(T), S \cap T = {},
         \A x \in S \cup T : f[x] \in Nat
  PROVE  /\ Total(f, S \cup T) = Total(f, S) + Total(f, T)
         /\ Total(f, S) \in Nat /\ Total(f, T) \in Nat
<1> DEFINE U == S \cup T
           g == [x \in U |-> IF x \in S THEN f[x] ELSE 0]
           h == [x \in U |-> IF x \in T THEN f[x] ELSE 0]
<1>1. IsFiniteSet(U) /\ S \in SUBSET U /\ T \in SUBSET U
  BY FS_Union
<1>2. \A x \in U : /\ g[x] \in Nat /\ (x \notin S => g[x] = 0)
                   /\ h[x] \in Nat /\ (x \notin T => h[x] = 0)
                   /\ f[x] \in Nat /\ f[x] = g[x] + h[x]
  OBVIOUS
<1>3. (\A x \in S : g[x] = f[x]) /\ (\A x \in T : h[x] = f[x])
  OBVIOUS
<1> HIDE DEF U, g, h
<1>4. Total(f, U) = Total(g, U) + Total(h, U)
  <2>1. \A x \in U : g[x] \in Nat /\ h[x] \in Nat /\ f[x] = g[x] + h[x]
    BY <1>2
  <2> QED
    BY ONLY <1>1, <2>1, TotalPlus
<1>5. Total(g, U) = Total(g, S) /\ Total(h, U) = Total(h, T)
  <2>1. Total(g, U) = Total(g, S)
    <3>1. \A x \in U : g[x] \in Nat /\ (x \notin S => g[x] = 0)
      BY <1>2
    <3> QED
      BY ONLY <1>1, <3>1, TotalSupport
  <2>2. Total(h, U) = Total(h, T)
    <3>1. \A x \in U : h[x] \in Nat /\ (x \notin T => h[x] = 0)
      BY <1>2
    <3> QED
      BY ONLY <1>1, <3>1, TotalSupport
  <2> QED
    BY <2>1, <2>2
<1>6. Total(g, S) = Total(f, S) /\ Total(h, T) = Total(f, T)
  BY <1>3, TotalSame
<1>7. Total(f, S) \in Nat /\ Total(f, T) \in Nat
  <2>1. (\A x \in S : f[x] \in Nat) /\ (\A x \in T : f[x] \in Nat)
    OBVIOUS
  <2> QED
    BY <2>1, TotalNat
<1> QED
  BY <1>4, <1>5, <1>6, <1>7 DEF U

LEMMA TotalSubset ==
  ASSUME NEW f, NEW S, IsFiniteSet(S), NEW T, T \subseteq S, \A x \in S : f[x] \in Nat
  PROVE  Total(f, T) \in Nat /\ Total(f, S) \in Nat /\ Total(f, T) <= Total(f, S)
<1> DEFINE R == S \ T
<1>1. /\ IsFiniteSet(T) /\ IsFiniteSet(R) /\ T \cap R = {} /\ T \cup R = S
      /\ \A x \in T \cup R : f[x] \in Nat
  BY FS_Subset
<1> HIDE DEF R
<1>2. /\ Total(f, T \cup R) = Total(f, T) + Total(f, R)
      /\ Total(f, T) \in Nat /\ Total(f, R) \in Nat
  BY <1>1, TotalParts
<1>3. Total(f, T \cup R) = Total(f, S)
  BY <1>1
<1> QED
  BY <1>2, <1>3

LEMMA TotalSingle == ASSUME NEW f, NEW x, f[x] \in Nat PROVE Total(f, {x}) = f[x]
<1>1. IsFiniteSet({}) /\ x \notin {} /\ \A y \in {} \cup {x} : f[y] \in Nat
  BY FS_EmptySet
<1>2. Total(f, {} \cup {x}) = f[x] + Total(f, {})
  BY <1>1, TotalAdd
<1>3. {} \cup {x} = {x}
  OBVIOUS
<1> QED
  BY <1>2, <1>3, TotalEmpty
=============================================================================
