----------------------------- MODULE SumTheorems ------------------------------
(***************************************************************************)
(* Sums over finite sets of any size: their type, how an element more or   *)
(* less and a change of one amount show in them, how they split and compare*)
(*                                                                         *)
(* A library theorem cannot be instantiated with a predicate here, so the  *)
(* inductions are over sets: of the numbers, or of the subsets of a finite *)
(* set, for which a statement holds.                                       *)
(***************************************************************************)
EXTENDS Sums, FiniteSetTheorems, WellFoundedInduction, TLAPS

(* The iteration behind Total, from {} up to S.                            *)
Iter(w, S) ==
  CHOOSE g : g = [s \in SUBSET S |->
                   IF s = {} THEN 0
                   ELSE w[CHOOSE x \in s : TRUE] + g[s \ {CHOOSE x \in s : TRUE}]]

(* The library sums a set by removing one chosen element after another.    *)
LEMMA TotalIsIter ==
  ASSUME NEW w, NEW S PROVE Total(w, S) = Iter(w, S)[S]
BY DEF Total, MapThenSumSet, MapThenFoldSet, Iter

(* Induction over the natural numbers, with a set in place of a predicate. *)
LEMMA NatSet ==
  ASSUME NEW S, 0 \in S, \A n \in Nat : n \in S => n + 1 \in S
  PROVE  Nat \subseteq S
<1> SUFFICES ASSUME NEW m \in Nat, m \notin S PROVE FALSE
  OBVIOUS
<1> DEFINE T == Nat \ S
           R == {ss \in Nat \X Nat : ss[1] < ss[2]}
<1>0. IsWellFoundedOn(R, Nat)
  BY NatLessThanWellFounded DEF OpToRel
<1>1. PICK n \in T : \A k \in T : ~ (<<k, n>> \in R)
  <2> HIDE DEF R
  <2>1. T \subseteq Nat /\ T # {}
    OBVIOUS
  <2> HIDE DEF T
  <2> QED
  BY <1>0, <2>1, WFMin
<1>2. n \in Nat /\ n # 0 /\ n - 1 \in Nat /\ n - 1 < n
  OBVIOUS
<1>3. <<n - 1, n>> \in R
  BY <1>2
<1>4. n - 1 \in S
  <2> HIDE DEF R
  <2> QED BY <1>1, <1>2, <1>3
<1>5. (n - 1) + 1 = n
  BY <1>2
<1>6. n \in S
  <2> HIDE DEF R, T
  <2> QED BY <1>2, <1>4, <1>5
<1> QED
  BY <1>6

(* The same, from all smaller numbers to the next.                         *)
LEMMA NatSetStrong ==
  ASSUME NEW S, \A n \in Nat : (\A m \in 0 .. n - 1 : m \in S) => n \in S
  PROVE  Nat \subseteq S
<1> DEFINE U == {n \in Nat : \A m \in 0 .. n - 1 : m \in S}
<1>1. 0 \in U
  OBVIOUS
<1>2. \A n \in Nat : n \in U => n + 1 \in U
  OBVIOUS
<1>3. Nat \subseteq U
  <2> HIDE DEF U
  <2> QED BY <1>1, <1>2, NatSet
<1> QED
  BY <1>3

(* What the recursion computes from the sums g of the smaller sets.        *)
Body(w, g, s) ==
  IF s = {} THEN 0 ELSE w[CHOOSE x \in s : TRUE] + g[s \ {CHOOSE x \in s : TRUE}]

(* Removing the chosen element leaves one element less.                    *)
LEMMA Picked ==
  ASSUME NEW s, IsFiniteSet(s), s # {}
  PROVE  LET x == CHOOSE x \in s : TRUE
         IN  /\ x \in s
             /\ IsFiniteSet(s \ {x})
             /\ Cardinality(s) \in Nat \ {0}
             /\ Cardinality(s \ {x}) = Cardinality(s) - 1
<1> DEFINE x == CHOOSE x \in s : TRUE
<1>1. x \in s
  OBVIOUS
<1> HIDE DEF x
<1>2. IsFiniteSet(s \ {x}) /\ Cardinality(s \ {x}) = Cardinality(s) - 1
  BY <1>1, FS_RemoveElement
<1>3. Cardinality(s) \in Nat \ {0}
  BY FS_EmptySet, FS_CardinalityType
<1> QED
  BY <1>1, <1>2, <1>3 DEF x

(* The recursion has a solution on the subsets of a finite set.            *)
LEMMA IterExists ==
  ASSUME NEW w, NEW S, IsFiniteSet(S)
  PROVE  \E g : g = [s \in SUBSET S |-> Body(w, g, s)]
<1> DEFINE Subs(n) == {s \in SUBSET S : Cardinality(s) <= n}
           L == {n \in Nat : \E g : \A s \in Subs(n) : g[s] = Body(w, g, s)}
<1>0. \A s \in SUBSET S :
        /\ IsFiniteSet(s)
        /\ Cardinality(s) \in Nat /\ Cardinality(s) <= Cardinality(S)
  BY FS_Subset, FS_CardinalityType
<1>1. 0 \in L
  <2> DEFINE g == [s \in Subs(0) |-> 0]
  <2>1. \A s \in Subs(0) : s = {}
    BY <1>0, FS_EmptySet
  <2>2. \A s \in Subs(0) : g[s] = Body(w, g, s)
    BY <2>1 DEF Body
  <2> QED BY <2>2
<1>2. ASSUME NEW n \in Nat, n \in L PROVE n + 1 \in L
  <2>1. PICK g : \A s \in Subs(n) : g[s] = Body(w, g, s)
    BY <1>2
  <2> DEFINE f == [s \in Subs(n + 1) |-> Body(w, g, s)]
  <2>2. \A s \in Subs(n) : f[s] = g[s]
    <3>1. \A s \in Subs(n) : s \in Subs(n + 1)
      BY <1>0
    <3> HIDE DEF Subs
    <3> QED BY <2>1, <3>1
  <2>3. \A s \in Subs(n + 1) : f[s] = Body(w, f, s)
    <3> SUFFICES ASSUME NEW s \in Subs(n + 1) PROVE f[s] = Body(w, f, s)
      OBVIOUS
    <3>1. f[s] = Body(w, g, s)
      <4> HIDE DEF Subs
      <4> QED OBVIOUS
    <3>2. CASE s = {}
      <4> HIDE DEF f
      <4> QED BY <3>1, <3>2 DEF Body
    <3>3. CASE s # {}
      <4> DEFINE r == s \ {CHOOSE x \in s : TRUE}
      <4>1. r \in Subs(n)
        BY <1>0, <3>3, Picked
      <4>2. g[r] = f[r]
        <5> HIDE DEF f, r, Subs
        <5> QED BY <2>2, <4>1
      <4> HIDE DEF f
      <4> QED BY <3>1, <3>3, <4>2 DEF Body
    <3> QED BY <3>2, <3>3
  <2>4. \E h : \A s \in Subs(n + 1) : h[s] = Body(w, h, s)
    <3> HIDE DEF f, Subs
    <3> QED BY <2>3
  <2> QED BY <2>4
<1>3. Nat \subseteq L
  <2> HIDE DEF L
  <2> QED BY <1>1, <1>2, NatSet
<1>4. Cardinality(S) \in L
  BY <1>0, <1>3
<1>5. Subs(Cardinality(S)) = SUBSET S
  BY <1>0
<1>6. PICK g : \A s \in SUBSET S : g[s] = Body(w, g, s)
  BY <1>4, <1>5
<1> DEFINE f == [s \in SUBSET S |-> g[s]]
<1>7. \A s \in SUBSET S : Body(w, g, s) = Body(w, f, s)
  BY DEF Body
<1>8. f = [s \in SUBSET S |-> Body(w, f, s)]
  <2>1. f = [s \in SUBSET S |-> Body(w, g, s)]
    BY <1>6
  <2> HIDE DEF f
  <2> QED BY <1>7, <2>1
<1> QED
  <2> HIDE DEF f
  <2> WITNESS f
  <2> QED BY <1>8

(* So the sum obeys the equation that defines it.                          *)
LEMMA IterUnfolds ==
  ASSUME NEW w, NEW S, IsFiniteSet(S)
  PROVE  \A s \in SUBSET S : Iter(w, S)[s] = Body(w, Iter(w, S), s)
<1> DEFINE P(g) == g = [s \in SUBSET S |-> Body(w, g, s)]
           f == Iter(w, S)
<1>1. \E g : P(g)
  BY IterExists
<1>2. f = CHOOSE g : P(g)
  BY DEF Iter, Body
<1> HIDE DEF P
<1>3. P(CHOOSE g : P(g))
  BY <1>1
<1> HIDE DEF f
<1>4. f = [s \in SUBSET S |-> Body(w, f, s)]
  BY <1>2, <1>3 DEF P
<1>5. \A s \in SUBSET S : f[s] = Body(w, f, s)
  BY <1>4
<1> QED
  BY <1>5 DEF f

(* The sum over a set does not depend on the set recursion started from.   *)
LEMMA IterAgrees ==
  ASSUME NEW w, NEW S, IsFiniteSet(S), NEW T \in SUBSET S
  PROVE  \A s \in SUBSET T : Iter(w, T)[s] = Iter(w, S)[s]
<1> DEFINE L == {n \in Nat :
                   \A s \in SUBSET T :
                     Cardinality(s) = n => Iter(w, T)[s] = Iter(w, S)[s]}
<1>0. IsFiniteSet(T) /\ \A s \in SUBSET T : IsFiniteSet(s) /\ Cardinality(s) \in Nat
  BY FS_Subset, FS_CardinalityType
<1>a. \A s \in SUBSET T : /\ Iter(w, T)[s] = Body(w, Iter(w, T), s)
                          /\ Iter(w, S)[s] = Body(w, Iter(w, S), s)
  <2>1. \A s \in SUBSET T : Iter(w, T)[s] = Body(w, Iter(w, T), s)
    BY <1>0, IterUnfolds
  <2>2. \A s \in SUBSET S : Iter(w, S)[s] = Body(w, Iter(w, S), s)
    BY IterUnfolds
  <2> QED BY <2>1, <2>2
<1>1. 0 \in L
  <2> SUFFICES ASSUME NEW s \in SUBSET T, Cardinality(s) = 0
               PROVE  Iter(w, T)[s] = Iter(w, S)[s]
    OBVIOUS
  <2>1. s = {}
    BY <1>0, FS_EmptySet
  <2> QED BY <2>1, <1>a DEF Body
<1>2. ASSUME NEW n \in Nat, n \in L PROVE n + 1 \in L
  <2> SUFFICES ASSUME NEW s \in SUBSET T, Cardinality(s) = n + 1
               PROVE  Iter(w, T)[s] = Iter(w, S)[s]
    OBVIOUS
  <2>1. s # {}
    BY FS_EmptySet
  <2> DEFINE r == s \ {CHOOSE x \in s : TRUE}
  <2>2. Cardinality(r) = Cardinality(s) - 1
    BY <1>0, <2>1, Picked
  <2>3. Cardinality(r) = n /\ r \in SUBSET T
    <3> HIDE DEF r
    <3>1. Cardinality(r) = n BY <2>2
    <3> QED BY <3>1 DEF r
  <2>4. Iter(w, T)[r] = Iter(w, S)[r]
    <3> HIDE DEF r
    <3> QED BY <1>2, <2>3
  <2> QED BY <2>1, <2>4, <1>a DEF Body
<1>3. Nat \subseteq L
  <2> HIDE DEF L
  <2> QED BY <1>1, <1>2, NatSet
<1> QED
  BY <1>0, <1>3

(* Nothing adds up to zero.                                                *)
LEMMA TotalEmpty ==
  ASSUME NEW w PROVE Total(w, {}) = 0
<1>1. IsFiniteSet({})
  BY FS_EmptySet
<1>2. Iter(w, {})[{}] = Body(w, Iter(w, {}), {})
  BY <1>1, IterUnfolds
<1> QED
  BY <1>2, TotalIsIter DEF Body

(* A total is the amount of one element and the total of the others.       *)
LEMMA TotalUnfolds ==
  ASSUME NEW w, NEW S, IsFiniteSet(S), S # {}
  PROVE  LET x == CHOOSE x \in S : TRUE
         IN  Total(w, S) = w[x] + Total(w, S \ {x})
<1> DEFINE x == CHOOSE x \in S : TRUE
           r == S \ {x}
<1>1. Total(w, S) = Body(w, Iter(w, S), S)
  BY IterUnfolds, TotalIsIter
<1>2. Total(w, S) = w[x] + Iter(w, S)[r]
  BY <1>1 DEF Body
<1>3. r \in SUBSET S
  OBVIOUS
<1>4. Total(w, r) = Iter(w, r)[r] /\ Iter(w, r)[r] = Iter(w, S)[r]
  <2> HIDE DEF r
  <2> QED BY <1>3, IterAgrees, TotalIsIter
<1> QED
  BY <1>2, <1>4

(* A statement that holds of a set when it holds of all its proper subsets. *)
LEMMA ProperSubsets ==
  ASSUME NEW S, IsFiniteSet(S), NEW Q,
         \A T \in SUBSET S : (\A U \in SUBSET T : U # T => U \in Q) => T \in Q
  PROVE  SUBSET S \subseteq Q
<1> DEFINE L == {n \in Nat : \A T \in SUBSET S : Cardinality(T) <= n => T \in Q}
<1>0. \A T \in SUBSET S : IsFiniteSet(T) /\ Cardinality(T) \in Nat
  BY FS_Subset, FS_CardinalityType
<1>a. ASSUME NEW T \in SUBSET S, NEW U \in SUBSET T, U # T
      PROVE  Cardinality(U) < Cardinality(T) /\ U \in SUBSET S
  <2>1. Cardinality(U) <= Cardinality(T) /\ Cardinality(U) # Cardinality(T)
    BY <1>0, <1>a, FS_Subset
  <2> QED BY <1>0, <2>1
<1>1. 0 \in L
  BY <1>0, <1>a
<1>2. ASSUME NEW n \in Nat, n \in L PROVE n + 1 \in L
  <2> SUFFICES ASSUME NEW T \in SUBSET S, Cardinality(T) <= n + 1 PROVE T \in Q
    OBVIOUS
  <2>1. \A U \in SUBSET T : U # T => U \in Q
    <3> SUFFICES ASSUME NEW U \in SUBSET T, U # T PROVE U \in Q
      OBVIOUS
    <3>1. Cardinality(U) <= n
      BY <1>0, <1>a
    <3> QED BY <1>2, <3>1
  <2> QED BY <2>1
<1>3. Nat \subseteq L
  <2> HIDE DEF L
  <2> QED BY <1>1, <1>2, NatSet
<1> QED
  <2> SUFFICES ASSUME NEW T \in SUBSET S PROVE T \in Q
    OBVIOUS
  <2>1. Cardinality(T) \in L
    BY <1>0, <1>3
  <2> QED BY <1>0, <2>1

(* Integers add up to an integer.                                          *)
LEMMA TotalType ==
  ASSUME NEW w, NEW S, IsFiniteSet(S), \A x \in S : w[x] \in Int
  PROVE  Total(w, S) \in Int
<1> DEFINE Q == {T \in SUBSET S : Total(w, T) \in Int}
<1>1. ASSUME NEW T \in SUBSET S, \A U \in SUBSET T : U # T => U \in Q
      PROVE  T \in Q
  <2>1. CASE T = {}
    BY <2>1, TotalEmpty
  <2>2. CASE T # {}
    <3> DEFINE x == CHOOSE x \in T : TRUE
    <3>1. IsFiniteSet(T)
      BY FS_Subset
    <3>2. x \in T
      BY <2>2
    <3>3. Total(w, T) = w[x] + Total(w, T \ {x})
      BY <2>2, <3>1, TotalUnfolds
    <3>4. T \ {x} \in Q
      <4> HIDE DEF x
      <4> QED BY <1>1, <3>2
    <3> HIDE DEF x
    <3> QED BY <3>2, <3>3, <3>4
  <2> QED BY <2>1, <2>2
<1>2. SUBSET S \subseteq Q
  <2> HIDE DEF Q
  <2> QED BY <1>1, ProperSubsets
<1> QED
  BY <1>2

(* Any element of a set may be added last.                                 *)
LEMMA TotalRemove ==
  ASSUME NEW w, NEW S, IsFiniteSet(S), \A x \in S : w[x] \in Int,
         NEW y \in S
  PROVE  Total(w, S) = w[y] + Total(w, S \ {y})
<1> DEFINE Q == {T \in SUBSET S : \A z \in T : Total(w, T) = w[z] + Total(w, T \ {z})}
<1>1. ASSUME NEW T \in SUBSET S, \A U \in SUBSET T : U # T => U \in Q
      PROVE  T \in Q
  <2> SUFFICES ASSUME NEW z \in T PROVE Total(w, T) = w[z] + Total(w, T \ {z})
    OBVIOUS
  <2> DEFINE x == CHOOSE x \in T : TRUE
  <2>1. x \in T
    OBVIOUS
  <2>2. \A U \in SUBSET T : IsFiniteSet(U)
    BY FS_Subset
  <2>3. Total(w, T) = w[x] + Total(w, T \ {x})
    BY <2>2, TotalUnfolds
  <2> HIDE DEF x
  <2>4. CASE z = x
    BY <2>3, <2>4
  <2>5. CASE z # x
    <3>1. Total(w, T \ {x}) = w[z] + Total(w, (T \ {x}) \ {z})
      BY <1>1, <2>1, <2>5
    <3>2. Total(w, T \ {z}) = w[x] + Total(w, (T \ {z}) \ {x})
      BY <1>1, <2>1, <2>5
    <3>3. (T \ {x}) \ {z} = (T \ {z}) \ {x}
      OBVIOUS
    <3>4. Total(w, (T \ {z}) \ {x}) \in Int
      BY <2>2, TotalType
    <3>5. w[x] \in Int /\ w[z] \in Int
      BY <2>1
    <3>6. Total(w, (T \ {x}) \ {z}) = Total(w, (T \ {z}) \ {x})
      BY <3>3
    <3> DEFINE a == Total(w, T \ {x})
               b == Total(w, T \ {z})
               c == Total(w, (T \ {z}) \ {x})
    <3>7. a = w[z] + c /\ b = w[x] + c /\ Total(w, T) = w[x] + a
      BY <2>3, <3>1, <3>2, <3>6
    <3>8. c \in Int
      BY <3>4
    <3> HIDE DEF a, b, c
    <3>9. Total(w, T) = w[z] + b
      BY <3>5, <3>7, <3>8
    <3> QED BY <3>9 DEF b
  <2> QED BY <2>4, <2>5
<1>2. SUBSET S \subseteq Q
  <2> HIDE DEF Q
  <2> QED BY <1>1, ProperSubsets
<1> QED
  BY <1>2

(* Two functions that agree on a set have the same total over it.          *)
LEMMA TotalAgree ==
  ASSUME NEW v, NEW w, NEW S, IsFiniteSet(S), \A x \in S : v[x] = w[x]
  PROVE  Total(v, S) = Total(w, S)
<1> DEFINE Q == {T \in SUBSET S : Total(v, T) = Total(w, T)}
<1>1. ASSUME NEW T \in SUBSET S, \A U \in SUBSET T : U # T => U \in Q
      PROVE  T \in Q
  <2>1. CASE T = {}
    BY <2>1, TotalEmpty
  <2>2. CASE T # {}
    <3> DEFINE x == CHOOSE x \in T : TRUE
    <3>1. IsFiniteSet(T)
      BY FS_Subset
    <3>2. x \in T
      BY <2>2
    <3>3. Total(v, T) = v[x] + Total(v, T \ {x}) /\ Total(w, T) = w[x] + Total(w, T \ {x})
      BY <2>2, <3>1, TotalUnfolds
    <3> HIDE DEF x
    <3>4. T \ {x} \in Q
      BY <1>1, <3>2
    <3> QED BY <3>2, <3>3, <3>4
  <2> QED BY <2>1, <2>2
<1>2. SUBSET S \subseteq Q
  <2> HIDE DEF Q
  <2> QED BY <1>1, ProperSubsets
<1> QED
  BY <1>2

(* One more element adds its amount.                                       *)
LEMMA TotalAdd ==
  ASSUME NEW w, NEW S, IsFiniteSet(S), NEW y, y \notin S,
         w[y] \in Int, \A x \in S : w[x] \in Int
  PROVE  Total(w, S \cup {y}) = w[y] + Total(w, S)
<1>1. (S \cup {y}) \ {y} = S /\ IsFiniteSet(S \cup {y})
  BY FS_AddElement
<1> QED
  BY <1>1, TotalRemove

(* Only one amount changes.                                                *)
LEMMA TotalChange ==
  ASSUME NEW v, NEW w, NEW S, IsFiniteSet(S), NEW y \in S,
         \A x \in S : v[x] \in Int /\ w[x] \in Int,
         \A x \in S \ {y} : v[x] = w[x]
  PROVE  Total(w, S) = Total(v, S) + w[y] - v[y]
<1>1. Total(w, S) = w[y] + Total(w, S \ {y}) /\ Total(v, S) = v[y] + Total(v, S \ {y})
  BY TotalRemove
<1>2. IsFiniteSet(S \ {y})
  BY FS_RemoveElement
<1>3. Total(w, S \ {y}) = Total(v, S \ {y}) /\ Total(v, S \ {y}) \in Int
  BY <1>2, TotalAgree, TotalType
<1> QED
  BY <1>1, <1>3

(* Amounts that are at least zero, or at most those of another function.   *)
LEMMA TotalMonotonic ==
  ASSUME NEW v, NEW w, NEW S, IsFiniteSet(S),
         \A x \in S : v[x] \in Int /\ w[x] \in Int /\ v[x] <= w[x]
  PROVE  Total(v, S) <= Total(w, S)
<1> DEFINE Q == {T \in SUBSET S : Total(v, T) <= Total(w, T)}
<1>1. ASSUME NEW T \in SUBSET S, \A U \in SUBSET T : U # T => U \in Q
      PROVE  T \in Q
  <2>1. CASE T = {}
    BY <2>1, TotalEmpty
  <2>2. CASE T # {}
    <3> DEFINE x == CHOOSE x \in T : TRUE
    <3>1. IsFiniteSet(T) /\ IsFiniteSet(T \ {x})
      BY FS_Subset
    <3>2. x \in T
      BY <2>2
    <3>3. Total(v, T) = v[x] + Total(v, T \ {x}) /\ Total(w, T) = w[x] + Total(w, T \ {x})
      BY <2>2, <3>1, TotalUnfolds
    <3> HIDE DEF x
    <3>4. Total(v, T \ {x}) <= Total(w, T \ {x})
      BY <1>1, <3>2
    <3>5. Total(v, T \ {x}) \in Int /\ Total(w, T \ {x}) \in Int
      BY <3>1, TotalType
    <3>6. v[x] \in Int /\ w[x] \in Int /\ v[x] <= w[x]
      BY <3>2
    <3> QED BY <3>3, <3>4, <3>5, <3>6
  <2> QED BY <2>1, <2>2
<1>2. SUBSET S \subseteq Q
  <2> HIDE DEF Q
  <2> QED BY <1>1, ProperSubsets
<1> QED
  BY <1>2

(* The total over a set is that over a part and that over the rest.        *)
LEMMA TotalSplit ==
  ASSUME NEW w, NEW S, IsFiniteSet(S), \A x \in S : w[x] \in Int,
         NEW P \in SUBSET S
  PROVE  Total(w, S) = Total(w, P) + Total(w, S \ P)
<1> DEFINE Q == {T \in SUBSET S : Total(w, T) = Total(w, T \cap P) + Total(w, T \ P)}
<1>1. ASSUME NEW T \in SUBSET S, \A U \in SUBSET T : U # T => U \in Q
      PROVE  T \in Q
  <2>1. CASE T = {}
    <3>1. T \cap P = {} /\ T \ P = {}
      BY <2>1
    <3> QED BY <2>1, <3>1, TotalEmpty
  <2>2. CASE T # {}
    <3> DEFINE x == CHOOSE x \in T : TRUE
               U == T \ {x}
    <3>1. IsFiniteSet(T) /\ IsFiniteSet(U) /\ IsFiniteSet(U \cap P) /\ IsFiniteSet(U \ P)
      BY FS_Subset
    <3>2. x \in T
      BY <2>2
    <3>3. Total(w, T) = w[x] + Total(w, U)
      BY <2>2, <3>1, TotalUnfolds
    <3> HIDE DEF x
    <3>4. Total(w, U) = Total(w, U \cap P) + Total(w, U \ P)
      BY <1>1, <3>2
    <3>5. /\ Total(w, U) \in Int /\ Total(w, U \cap P) \in Int
          /\ Total(w, U \ P) \in Int /\ w[x] \in Int
      BY <3>1, <3>2, TotalType
    <3>6. CASE x \in P
      <4>1. T \cap P = (U \cap P) \cup {x} /\ T \ P = U \ P /\ x \notin U \cap P
        BY <3>2, <3>6
      <4>2. Total(w, T \cap P) = w[x] + Total(w, U \cap P)
        BY <3>1, <3>5, <4>1, TotalAdd
      <4>3. Total(w, T \ P) = Total(w, U \ P)
        BY <4>1
      <4> HIDE DEF U
      <4> QED BY ONLY <3>3, <3>4, <3>5, <4>2, <4>3
    <3>7. CASE x \notin P
      <4>1. T \ P = (U \ P) \cup {x} /\ T \cap P = U \cap P /\ x \notin U \ P
        BY <3>2, <3>7
      <4>2. Total(w, T \ P) = w[x] + Total(w, U \ P)
        BY <3>1, <3>5, <4>1, TotalAdd
      <4>3. Total(w, T \cap P) = Total(w, U \cap P)
        BY <4>1
      <4> HIDE DEF U
      <4> QED BY ONLY <3>3, <3>4, <3>5, <4>2, <4>3
    <3> QED BY <3>6, <3>7
  <2> QED BY <2>1, <2>2
<1>2. SUBSET S \subseteq Q
  <2> HIDE DEF Q
  <2> QED BY <1>1, ProperSubsets
<1>3. S \in Q /\ S \cap P = P
  BY <1>2
<1> QED
  BY <1>3

(* Zeros add up to zero.                                                   *)
LEMMA TotalZero ==
  ASSUME NEW w, NEW S, IsFiniteSet(S), \A x \in S : w[x] = 0
  PROVE  Total(w, S) = 0
<1> DEFINE Q == {T \in SUBSET S : Total(w, T) = 0}
<1>1. ASSUME NEW T \in SUBSET S, \A U \in SUBSET T : U # T => U \in Q
      PROVE  T \in Q
  <2>1. CASE T = {}
    BY <2>1, TotalEmpty
  <2>2. CASE T # {}
    <3> DEFINE x == CHOOSE x \in T : TRUE
    <3>1. IsFiniteSet(T)
      BY FS_Subset
    <3>2. x \in T
      BY <2>2
    <3>3. Total(w, T) = w[x] + Total(w, T \ {x})
      BY <2>2, <3>1, TotalUnfolds
    <3> HIDE DEF x
    <3>4. T \ {x} \in Q
      BY <1>1, <3>2
    <3> QED BY <3>2, <3>3, <3>4
  <2> QED BY <2>1, <2>2
<1>2. SUBSET S \subseteq Q
  <2> HIDE DEF Q
  <2> QED BY <1>1, ProperSubsets
<1> QED
  BY <1>2

(* Natural numbers add up to a natural number.                             *)
LEMMA TotalNat ==
  ASSUME NEW w, NEW S, IsFiniteSet(S), \A x \in S : w[x] \in Nat
  PROVE  Total(w, S) \in Nat
<1> DEFINE zero == [x \in S |-> 0]
<1>1. Total(zero, S) = 0
  BY TotalZero
<1>2. \A x \in S : zero[x] \in Int /\ w[x] \in Int /\ zero[x] <= w[x]
  OBVIOUS
<1> HIDE DEF zero
<1>3. Total(zero, S) <= Total(w, S)
  BY <1>2, TotalMonotonic
<1>4. Total(w, S) \in Int
  BY TotalType
<1> QED
  BY <1>1, <1>3, <1>4

(* Numbering the elements from one higher on changes no total.             *)
LEMMA TotalShift ==
  ASSUME NEW S \in SUBSET Int, IsFiniteSet(S), NEW v, NEW w,
         \A x \in S : w[x] \in Int /\ v[x + 1] = w[x]
  PROVE  Total(v, {x + 1 : x \in S}) = Total(w, S)
<1> DEFINE Up(T) == {x + 1 : x \in T}
           Q == {T \in SUBSET S : IsFiniteSet(Up(T)) /\ Total(v, Up(T)) = Total(w, T)}
<1>1. ASSUME NEW T \in SUBSET S, \A U \in SUBSET T : U # T => U \in Q
      PROVE  T \in Q
  <2>1. CASE T = {}
    <3>1. Up(T) = {}
      BY <2>1
    <3> HIDE DEF Up
    <3> QED BY <2>1, <3>1, TotalEmpty, FS_EmptySet
  <2>2. CASE T # {}
    <3>1. PICK x \in T : TRUE
      BY <2>2
    <3> DEFINE U == T \ {x}
    <3>2. Up(T) = Up(U) \cup {x + 1} /\ x + 1 \notin Up(U)
      OBVIOUS
    <3>3. U \in Q
      BY <1>1, <3>1
    <3>4. \A y \in Up(U) : v[y] \in Int
      OBVIOUS
    <3>5. v[x + 1] = w[x] /\ w[x] \in Int /\ x \notin U /\ T = U \cup {x}
      OBVIOUS
    <3>6. IsFiniteSet(U) /\ \A y \in U : w[y] \in Int
      BY FS_Subset
    <3>7. IsFiniteSet(Up(U)) /\ Total(v, Up(U)) = Total(w, U)
      BY <3>3
    <3> HIDE DEF Up, U
    <3>8. Total(v, Up(T)) = v[x + 1] + Total(v, Up(U))
      BY <3>2, <3>4, <3>5, <3>7, TotalAdd
    <3>9. Total(w, T) = w[x] + Total(w, U)
      BY <3>5, <3>6, TotalAdd
    <3>10. IsFiniteSet(Up(T))
      BY <3>2, <3>7, FS_AddElement
    <3> QED BY <3>5, <3>7, <3>8, <3>9, <3>10
  <2> QED BY <2>1, <2>2
<1>2. SUBSET S \subseteq Q
  <2> HIDE DEF Q
  <2> QED BY <1>1, ProperSubsets
<1>3. S \in Q
  BY <1>2
<1> QED
  BY <1>3

(* The same amount for every element.                                      *)
LEMMA TotalConstant ==
  ASSUME NEW w, NEW S, IsFiniteSet(S), NEW q \in Int, \A x \in S : w[x] = q
  PROVE  Total(w, S) = Cardinality(S) * q
<1> DEFINE Q == {T \in SUBSET S : Total(w, T) = Cardinality(T) * q}
<1>1. ASSUME NEW T \in SUBSET S, \A U \in SUBSET T : U # T => U \in Q
      PROVE  T \in Q
  <2>1. IsFiniteSet(T)
    BY FS_Subset
  <2>2. CASE T = {}
    BY <2>2, TotalEmpty, FS_EmptySet
  <2>3. CASE T # {}
    <3>1. PICK x : x \in T
      BY <2>3
    <3>2. T \ {x} \in Q
      <4> HIDE DEF Q
      <4> QED BY <1>1, <3>1
    <3>3. /\ Total(w, T) = w[x] + Total(w, T \ {x})
      BY <2>1, <3>1, TotalRemove
    <3>4. /\ Cardinality(T) \in Nat
          /\ Cardinality(T \ {x}) = Cardinality(T) - 1
      BY <2>1, <3>1, FS_RemoveElement, FS_CardinalityType
    <3>5. q + (Cardinality(T) - 1) * q = Cardinality(T) * q
      BY <3>4
    <3> QED BY <3>1, <3>2, <3>3, <3>4, <3>5
  <2> QED BY <2>2, <2>3
<1>2. SUBSET S \subseteq Q
  <2> HIDE DEF Q
  <2> QED BY <1>1, ProperSubsets
<1> QED
  BY <1>2

(* Adding up disjoint sets one after the other is adding up their union.   *)
LEMMA TotalOfTotals ==
  ASSUME NEW I, IsFiniteSet(I), NEW F, NEW v, NEW w,
         \A k \in I : /\ IsFiniteSet(F[k]) /\ v[k] = Total(w, F[k])
                      /\ \A x \in F[k] : w[x] \in Int,
         \A k, l \in I : k # l => F[k] \cap F[l] = {},
         NEW all, \A x : x \in all <=> \E k \in I : x \in F[k]
  PROVE  Total(w, all) = Total(v, I)
<1> DEFINE All(J) == UNION {F[k] : k \in J}
           Q == {J \in SUBSET I : /\ IsFiniteSet(All(J))
                                  /\ Total(w, All(J)) = Total(v, J)}
<1>0. \A k \in I : v[k] \in Int
  BY TotalType
<1>1. ASSUME NEW J \in SUBSET I, \A K \in SUBSET J : K # J => K \in Q
      PROVE  J \in Q
  <2>1. IsFiniteSet(J)
    BY FS_Subset
  <2>2. CASE J = {}
    <3>1. All(J) = {}
      BY <2>2
    <3> HIDE DEF All
    <3> QED BY <2>2, <3>1, TotalEmpty, FS_EmptySet
  <2>3. CASE J # {}
    <3>1. PICK k : k \in J
      BY <2>3
    <3>2. J \ {k} \in Q
      <4> HIDE DEF Q
      <4> QED BY <1>1, <3>1
    <3> DEFINE R == All(J \ {k})
    <3>3. /\ All(J) = R \cup F[k] /\ R \cap F[k] = {}
          /\ \A x \in All(J) : w[x] \in Int
      BY <3>1
    <3>4. IsFiniteSet(R) /\ Total(w, R) = Total(v, J \ {k})
      BY <3>2
    <3> HIDE DEF R, All
    <3>5. /\ F[k] \in SUBSET All(J) /\ All(J) \ F[k] = R
      BY <3>3
    <3>6. IsFiniteSet(All(J))
      <4>1. IsFiniteSet(R \cup F[k])
        BY <3>1, <3>4, FS_Union
      <4> QED BY <3>3, <4>1
    <3>7. Total(w, All(J)) = Total(w, F[k]) + Total(w, R)
      BY <3>3, <3>5, <3>6, TotalSplit
    <3>8. Total(v, J) = v[k] + Total(v, J \ {k})
      BY <1>0, <2>1, <3>1, TotalRemove
    <3> QED BY <3>1, <3>4, <3>6, <3>7, <3>8
  <2> QED BY <2>2, <2>3
<1>2. SUBSET I \subseteq Q
  <2> HIDE DEF Q
  <2> QED BY <1>1, ProperSubsets
<1>3. Total(w, All(I)) = Total(v, I)
  BY <1>2
<1>4. all = All(I)
  OBVIOUS
<1> QED
  BY <1>3, <1>4

(* The total of sums is the sum of the totals.                             *)
LEMMA TotalPlus ==
  ASSUME NEW v, NEW w, NEW u, NEW S, IsFiniteSet(S),
         \A x \in S : v[x] \in Int /\ w[x] \in Int /\ u[x] = v[x] + w[x]
  PROVE  Total(u, S) = Total(v, S) + Total(w, S)
<1> DEFINE Q == {T \in SUBSET S : Total(u, T) = Total(v, T) + Total(w, T)}
<1>1. ASSUME NEW T \in SUBSET S, \A U \in SUBSET T : U # T => U \in Q
      PROVE  T \in Q
  <2>1. CASE T = {}
    BY <2>1, TotalEmpty
  <2>2. CASE T # {}
    <3> DEFINE x == CHOOSE x \in T : TRUE
    <3>1. IsFiniteSet(T) /\ x \in T /\ x \in S
      BY <2>2, FS_Subset
    <3> HIDE DEF x
    <3>2. T \ {x} \in Q /\ IsFiniteSet(T \ {x})
      BY <1>1, <3>1, FS_RemoveElement
    <3>3. /\ Total(u, T) = u[x] + Total(u, T \ {x})
          /\ Total(v, T) = v[x] + Total(v, T \ {x})
          /\ Total(w, T) = w[x] + Total(w, T \ {x})
      BY <3>1, TotalRemove
    <3>4. Total(v, T \ {x}) \in Int /\ Total(w, T \ {x}) \in Int
      BY <3>2, TotalType
    <3>5. Total(u, T \ {x}) = Total(v, T \ {x}) + Total(w, T \ {x})
      BY <3>2
    <3>6. v[x] \in Int /\ w[x] \in Int /\ u[x] = v[x] + w[x]
      BY <3>1
    <3> QED BY <3>3, <3>4, <3>5, <3>6
  <2> QED BY <2>1, <2>2
<1>2. SUBSET S \subseteq Q
  <2> HIDE DEF Q
  <2> QED BY <1>1, ProperSubsets
<1> QED
  BY <1>2

(* A renaming of the members does not change the total.                    *)
LEMMA TotalRename ==
  ASSUME NEW S, IsFiniteSet(S), NEW f, NEW v, NEW w,
         \A x \in S : w[x] \in Int /\ v[f[x]] = w[x],
         \A x, y \in S : x # y => f[x] # f[y],
         NEW all, \A y : y \in all <=> \E x \in S : y = f[x]
  PROVE  Total(v, all) = Total(w, S)
<1> DEFINE F == [x \in S |-> {f[x]}]
<1>1. ASSUME NEW x \in S
      PROVE  /\ IsFiniteSet(F[x]) /\ w[x] = Total(v, F[x])
             /\ \A y \in F[x] : v[y] \in Int
  <2>1. F[x] = {f[x]} /\ F[x] \ {f[x]} = {}
    OBVIOUS
  <2>2. IsFiniteSet({f[x]})
    BY FS_Singleton
  <2>3. \A y \in F[x] : v[y] \in Int
    BY <2>1
  <2> HIDE DEF F
  <2>4. Total(v, F[x]) = v[f[x]] + Total(v, F[x] \ {f[x]})
    BY <2>1, <2>2, <2>3, TotalRemove
  <2> QED BY <2>1, <2>2, <2>3, <2>4, TotalEmpty
<1>2. \A x, y \in S : x # y => F[x] \cap F[y] = {}
  OBVIOUS
<1> DEFINE image == {f[x] : x \in S}
<1>3. \A y : y \in image <=> \E x \in S : y \in F[x]
  OBVIOUS
<1>4. all = image
  OBVIOUS
<1> HIDE DEF F, image
<1>5. Total(v, image) = Total(w, S)
  BY SMTT(30), <1>1, <1>2, <1>3, TotalOfTotals
<1> QED
  BY <1>4, <1>5

=============================================================================
