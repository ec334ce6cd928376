----------------------------- MODULE LegacyProofs -----------------------------
(***************************************************************************)
(* Theorems about LegacySettlement, for registries of any size: what the   *)
(* older settlement pays stays within its bounds, and where codes lead     *)
(* home it pays what the newer one pays.                                   *)
(*                                                                         *)
(* The loop of phase 3 is the recursive function after of LegacyBooks; it  *)
(* is characterised first by an equation for each of its values and then   *)
(* by one for each heir, which is that of the newer settlement's grants.   *)
(***************************************************************************)
EXTENDS LegacySettlement, RulesTheorems, SequenceTheorems

-----------------------------------------------------------------------------
(* The parts of LegacyBooks, named.                                        *)

CodeOf == [h \in DOMAIN heirs |-> BranchByCode(heirs[h].branch_id)]
BaseOf(cap) == [h \in DOMAIN heirs |-> BasePayout(h, cap)]
ChargedTo(b) == {h \in DOMAIN heirs : CodeOf[h] = b}
Ceiling(cap, m, b) == BranchCeiling(m, cap, branches[b].share)

SurplusAtFirst(cap, m) ==
  IF m = "HYBRID_SPILLOVER"
  THEN cap - Total(BaseOf(cap), DOMAIN heirs) ELSE 0

(* Phase 3 before any heir has been visited, and its step at heir k.       *)
AtFirst(cap, m) ==
  [drawn |-> [b \in DOMAIN branches |-> Total(BaseOf(cap), ChargedTo(b))],
   surplus |-> SurplusAtFirst(cap, m),
   grant |-> [h \in DOMAIN heirs |-> 0]]

GrantNow(cap, m, was, k) ==
  Grant(k, BaseOf(cap)[k], Ceiling(cap, m, CodeOf[k]) - was.drawn[CodeOf[k]],
        was.surplus)

Visit(cap, m, was, k) ==
  IF CodeOf[k] = NoBranch
  THEN was
  ELSE [drawn |-> [was.drawn EXCEPT ![CodeOf[k]] = @ + GrantNow(cap, m, was, k)],
        surplus |-> was.surplus - GrantNow(cap, m, was, k),
        grant |-> [was.grant EXCEPT ![k] = GrantNow(cap, m, was, k)]]

Visited(cap, m, after, k) ==
  IF k = 0 THEN AtFirst(cap, m) ELSE Visit(cap, m, after[k - 1], k)

After(cap, m) ==
  CHOOSE after : after = [k \in 0 .. Len(heirs) |-> Visited(cap, m, after, k)]

(* The books with their local names replaced by operators.                 *)
LEMMA BooksSpelledOut ==
  ASSUME NEW cap, NEW m
  PROVE  LegacyBooks(cap, m) =
    [base |-> BaseOf(cap), grant |-> After(cap, m)[Len(heirs)].grant,
     drawn |-> After(cap, m)[Len(heirs)].drawn,
     total |-> Total(After(cap, m)[Len(heirs)].drawn, DOMAIN branches)]
BY DEF LegacyBooks, After, Visited, Visit, AtFirst, GrantNow, SurplusAtFirst,
       Ceiling, ChargedTo, BaseOf, CodeOf

(* The recursive definition of the loop has a solution.                    *)
LEMMA AfterExists ==
  ASSUME NEW cap, NEW m, Len(heirs) \in Nat
  PROVE  \E a : a = [k \in 0 .. Len(heirs) |-> Visited(cap, m, a, k)]
<1> DEFINE K == 0 .. Len(heirs)
           L == {n \in Nat : \E a : \A k \in K :
                               k <= n => a[k] = Visited(cap, m, a, k)}
<1>1. 0 \in L
  <2> DEFINE a == [k \in K |-> AtFirst(cap, m)]
  <2>1. \A k \in K : k <= 0 => a[k] = Visited(cap, m, a, k)
    BY DEF Visited
  <2> HIDE DEF a
  <2> QED BY <2>1
<1>2. ASSUME NEW n \in Nat, n \in L PROVE n + 1 \in L
  <2>1. PICK a : \A k \in K : k <= n => a[k] = Visited(cap, m, a, k)
    BY <1>2
  <2> DEFINE e == [k \in K |-> Visited(cap, m, a, k)]
  <2>2. \A k \in K : k <= n => e[k] = a[k]
    BY <2>1
  <2>3. ASSUME NEW k \in K, k <= n + 1
        PROVE  e[k] = Visited(cap, m, e, k)
    <3>1. e[k] = Visited(cap, m, a, k)
      OBVIOUS
    <3> HIDE DEF e
    <3>2. k # 0 => e[k - 1] = a[k - 1]
      BY <2>2, <2>3
    <3> QED
      BY <3>1, <3>2 DEF Visited
  <2> HIDE DEF e
  <2> QED BY <2>3
<1>3. Nat \subseteq L
  <2> HIDE DEF L
  <2> QED BY <1>1, <1>2, NatSet
<1>4. PICK a : \A k \in K : a[k] = Visited(cap, m, a, k)
  BY <1>3
<1> DEFINE e == [k \in K |-> a[k]]
<1>5. \A k \in K : Visited(cap, m, a, k) = Visited(cap, m, e, k)
  BY DEF Visited
<1>6. e = [k \in K |-> Visited(cap, m, e, k)]
  <2>1. e = [k \in K |-> Visited(cap, m, a, k)]
    BY <1>4
  <2> HIDE DEF e
  <2> QED BY <1>5, <2>1
<1> QED
  <2> HIDE DEF e
  <2> QED BY <1>6

(* So the loop obeys the equation that defines it.                         *)
LEMMA AfterUnfolds ==
  ASSUME NEW cap, NEW m, Len(heirs) \in Nat
  PROVE  /\ After(cap, m)[0] = AtFirst(cap, m)
         /\ \A k \in 1 .. Len(heirs) :
              After(cap, m)[k] = Visit(cap, m, After(cap, m)[k - 1], k)
<1> DEFINE P(a) == a = [k \in 0 .. Len(heirs) |-> Visited(cap, m, a, k)]
           f == After(cap, m)
<1>1. \E a : P(a)
  BY AfterExists
<1>2. f = CHOOSE a : P(a)
  BY DEF After
<1> HIDE DEF P
<1>3. P(CHOOSE a : P(a))
  BY <1>1
<1> HIDE DEF f
<1>4. f = [k \in 0 .. Len(heirs) |-> Visited(cap, m, f, k)]
  BY <1>2, <1>3 DEF P
<1>5. \A k \in 0 .. Len(heirs) : f[k] = Visited(cap, m, f, k)
  BY <1>4
<1>6. f[0] = AtFirst(cap, m)
  BY <1>5 DEF Visited
<1>7. \A k \in 1 .. Len(heirs) : f[k] = Visit(cap, m, f[k - 1], k)
  BY <1>5 DEF Visited
<1> QED
  BY <1>6, <1>7 DEF f

-----------------------------------------------------------------------------
(* Facts about the arenas.                                                 *)

(* Heirs and branches are numbered from 1 and their amounts are natural.   *)
LEMMA ArenaFacts ==
  ASSUME TypeOK
  PROVE  /\ Len(heirs) \in Nat /\ DOMAIN heirs = 1 .. Len(heirs)
         /\ Len(branches) \in Nat /\ DOMAIN branches = 1 .. Len(branches)
         /\ IsFiniteSet(DOMAIN heirs) /\ IsFiniteSet(DOMAIN branches)
         /\ \A h \in DOMAIN heirs : heirs[h] \in Heir
         /\ \A b \in DOMAIN branches : branches[b] \in Branch
         /\ NoBranch \notin DOMAIN branches
<1>1. /\ Len(heirs) \in Nat /\ DOMAIN heirs = 1 .. Len(heirs)
      /\ \A h \in DOMAIN heirs : heirs[h] \in Heir
  BY LenProperties, ElementOfSeq DEF TypeOK
<1>2. /\ Len(branches) \in Nat /\ DOMAIN branches = 1 .. Len(branches)
      /\ \A b \in DOMAIN branches : branches[b] \in Branch
  BY LenProperties, ElementOfSeq DEF TypeOK
<1> QED
  BY <1>1, <1>2, FS_Interval DEF NoBranch

(* A set of natural numbers that is not empty has a least element.         *)
LEMMA LeastIsMember ==
  ASSUME NEW S \in SUBSET Nat, S # {}
  PROVE  Min(S) \in S
<1> DEFINE L == Nat \ S
<1>1. SUFFICES ASSUME \A x \in S : ~ \A y \in S : x <= y
               PROVE  FALSE
  BY DEF Min
<1>2. ASSUME NEW n \in Nat, \A k \in 0 .. n - 1 : k \in L
      PROVE  n \in L
  BY <1>1, <1>2
<1>3. Nat \subseteq L
  <2> HIDE DEF L
  <2> QED BY <1>2, NatSetStrong
<1> QED
  BY <1>3

(* A code names a branch or none.                                          *)
LEMMA CodesLeadSomewhere ==
  ASSUME TypeOK, NEW h \in DOMAIN heirs
  PROVE  CodeOf[h] \in DOMAIN branches \cup {NoBranch}
<1> DEFINE named == {b \in DOMAIN branches : branches[b].branch_id = heirs[h].branch_id}
<1>1. named \subseteq DOMAIN branches /\ named \subseteq Nat
  BY ArenaFacts
<1>2. CodeOf[h] = IF named = {} THEN NoBranch ELSE Min(named)
  BY DEF CodeOf, BranchByCode
<1> HIDE DEF named
<1>3. named # {} => Min(named) \in named
  BY <1>1, LeastIsMember
<1> QED
  BY <1>1, <1>2, <1>3

(* No base payout is negative or above the claim of its heir.              *)
LEMMA LegacyBaseBounds ==
  ASSUME TypeOK, NEW cap \in Nat, NEW h \in DOMAIN heirs
  PROVE  /\ RawClaim(h) \in Nat
         /\ BaseOf(cap)[h] \in Nat /\ BaseOf(cap)[h] <= RawClaim(h)
         /\ CodeOf[h] = NoBranch => BaseOf(cap)[h] = 0
<1> DEFINE b == CodeOf[h]
           part == HeirCap(BaseCap(cap, branches[b].share),
                           branches[b].active_heir_count)
<1>1. RawClaim(h) \in Nat
  <2>1. heirs[h].annual_capital_contribution \in Nat /\ Multiplier \in Nat
    BY ArenaFacts, LegacyAssumption DEF Heir
  <2>2. heirs[h].annual_capital_contribution * Multiplier \in Nat
    BY <2>1
  <2> QED BY <2>2 DEF RawClaim
<1>2. BaseOf(cap)[h] = IF RawClaim(h) = 0 \/ b = NoBranch THEN 0
                       ELSE Lesser(RawClaim(h), part)
  BY DEF BaseOf, BasePayout, CodeOf
<1>3. b # NoBranch => part \in Nat
  <2> SUFFICES ASSUME b # NoBranch PROVE part \in Nat
    OBVIOUS
  <2>1. branches[b] \in Branch
    BY ArenaFacts, CodesLeadSomewhere
  <2>2. branches[b].share \in Nat /\ branches[b].active_heir_count \in Nat
    BY <2>1 DEF Branch
  <2> QED BY <2>2, CapsAreNatural
<1> HIDE DEF part
<1> QED
  BY <1>1, <1>2, <1>3 DEF Lesser

-----------------------------------------------------------------------------
(* The loop of phase 3.                                                    *)

Before(k) == {j \in DOMAIN heirs : j < k}

(* What the loop gives heir h when g is what the heirs before it got.      *)
LegacyGrant(cap, m, g, h) ==
  IF CodeOf[h] = NoBranch
  THEN 0
  ELSE Granted(RawClaim(h) - BaseOf(cap)[h],
               Ceiling(cap, m, CodeOf[h])
                 - (Total(BaseOf(cap), ChargedTo(CodeOf[h]))
                      + Total(g, ChargedTo(CodeOf[h]) \cap Before(h))),
               SurplusAtFirst(cap, m) - Total(g, Before(h)))

(* Where the loop stands after k heirs: those visited have been granted    *)
(* what is due to them, the others nothing, the books are what has been    *)
(* granted, and whoever got something left the branch within its ceiling.  *)
LoopInv(cap, m, k, a) ==
  /\ a.grant \in [DOMAIN heirs -> Nat]
  /\ \A h \in DOMAIN heirs :
       IF h <= k THEN a.grant[h] = LegacyGrant(cap, m, a.grant, h)
       ELSE a.grant[h] = 0
  /\ a.drawn \in [DOMAIN branches -> Int]
  /\ \A b \in DOMAIN branches :
       a.drawn[b] = Total(BaseOf(cap), ChargedTo(b)) + Total(a.grant, ChargedTo(b))
  /\ a.surplus = SurplusAtFirst(cap, m) - Total(a.grant, DOMAIN heirs)
  /\ \A h \in DOMAIN heirs :
       a.grant[h] > 0 => a.drawn[CodeOf[h]] <= Ceiling(cap, m, CodeOf[h])

(* Ceilings and the surplus of a year are numbers.                         *)
LEMMA YearFacts ==
  ASSUME TypeOK, NEW cap \in Nat, NEW m \in GovernanceMode
  PROVE  /\ \A b \in DOMAIN branches : Ceiling(cap, m, b) \in Nat
         /\ SurplusAtFirst(cap, m) \in Int
         /\ \A S \in SUBSET DOMAIN heirs :
              /\ IsFiniteSet(S)
              /\ Total(BaseOf(cap), S) \in Nat
<1>1. \A b \in DOMAIN branches : Ceiling(cap, m, b) \in Nat
  BY ArenaFacts, CeilingIsNatural, LegacyAssumption
  DEF Ceiling, Branch, RatioIsNatural
<1>2. \A S \in SUBSET DOMAIN heirs : IsFiniteSet(S)
  BY ArenaFacts, FS_Subset
<1>3. ASSUME NEW S \in SUBSET DOMAIN heirs
      PROVE  Total(BaseOf(cap), S) \in Nat
  BY <1>2, LegacyBaseBounds, TotalNat
<1>4. SurplusAtFirst(cap, m) \in Int
  BY <1>3 DEF SurplusAtFirst
<1> QED
  BY <1>1, <1>2, <1>3, <1>4

(* What is due to an heir depends on the grants before it only.            *)
LEMMA LegacyGrantDepends ==
  ASSUME TypeOK, NEW cap, NEW m, NEW f, NEW g, NEW h \in DOMAIN heirs,
         \A j \in Before(h) : f[j] = g[j]
  PROVE  LegacyGrant(cap, m, f, h) = LegacyGrant(cap, m, g, h)
<1> DEFINE B == ChargedTo(CodeOf[h]) \cap Before(h)
<1>1. IsFiniteSet(Before(h)) /\ B \subseteq Before(h)
  BY ArenaFacts, FS_Subset DEF Before
<1>2. IsFiniteSet(B)
  BY <1>1, FS_Subset
<1> HIDE DEF B
<1>3. Total(f, B) = Total(g, B) /\ Total(f, Before(h)) = Total(g, Before(h))
  BY <1>1, <1>2, TotalAgree
<1> QED
  BY <1>3 DEF LegacyGrant, B

(* The loop starts out right.                                              *)
LEMMA LoopStarts ==
  ASSUME TypeOK, NEW cap \in Nat, NEW m \in GovernanceMode
  PROVE  LoopInv(cap, m, 0, AtFirst(cap, m))
<1> DEFINE none == [h \in DOMAIN heirs |-> 0]
           a == AtFirst(cap, m)
<1>1. /\ a.grant = none
      /\ a.drawn = [b \in DOMAIN branches |-> Total(BaseOf(cap), ChargedTo(b))]
      /\ a.surplus = SurplusAtFirst(cap, m)
  BY DEF AtFirst
<1> HIDE DEF a
<1>2. none \in [DOMAIN heirs -> Nat] /\ \A h \in DOMAIN heirs : none[h] = 0
  OBVIOUS
<1> HIDE DEF none
<1>3. \A h \in DOMAIN heirs : ~(h <= 0)
  BY ArenaFacts
<1>4. \A b : ChargedTo(b) \in SUBSET DOMAIN heirs
  BY DEF ChargedTo
<1>5. \A b \in DOMAIN branches :
        /\ Total(BaseOf(cap), ChargedTo(b)) \in Int
        /\ Total(none, ChargedTo(b)) = 0
  BY <1>2, <1>4, YearFacts, TotalZero
<1>6. Total(none, DOMAIN heirs) = 0
  BY <1>2, YearFacts, TotalZero
<1>7. SurplusAtFirst(cap, m) \in Int
  BY YearFacts
<1>8. LoopInv(cap, m, 0, a)
  BY <1>1, <1>2, <1>3, <1>5, <1>6, <1>7 DEF LoopInv
<1> QED
  BY <1>8 DEF a

(* Every visit keeps it right.                                             *)
LEMMA LoopContinues ==
  ASSUME TypeOK, NEW cap \in Nat, NEW m \in GovernanceMode,
         NEW k \in DOMAIN heirs, NEW was, LoopInv(cap, m, k - 1, was)
  PROVE  LoopInv(cap, m, k, Visit(cap, m, was, k))
<1> DEFINE b == CodeOf[k]
           x == GrantNow(cap, m, was, k)
           g == was.grant
           M == ChargedTo(b)
<1>0. /\ DOMAIN heirs \subseteq Nat /\ k \in Nat
      /\ \A S \in SUBSET DOMAIN heirs : IsFiniteSet(S)
  BY ArenaFacts, YearFacts
<1>1. /\ g \in [DOMAIN heirs -> Nat]
      /\ g[k] = 0 /\ \A h \in DOMAIN heirs : h >= k => g[h] = 0
  BY <1>0 DEF LoopInv
<1>2. Total(g, DOMAIN heirs) = Total(g, Before(k))
  <2>1. Before(k) \in SUBSET DOMAIN heirs
    BY DEF Before
  <2>2. \A h \in DOMAIN heirs \ Before(k) : g[h] = 0
    BY <1>0, <1>1 DEF Before
  <2>3. Total(g, DOMAIN heirs \ Before(k)) = 0
    BY <1>0, <2>2, TotalZero
  <2>4. Total(g, Before(k)) \in Int
    BY <1>0, <1>1, <2>1, TotalType
  <2>5. Total(g, DOMAIN heirs)
          = Total(g, Before(k)) + Total(g, DOMAIN heirs \ Before(k))
    BY <1>0, <1>1, <2>1, TotalSplit
  <2> QED BY <2>3, <2>4, <2>5
<1>3. CASE b = NoBranch
  <2>1. Visit(cap, m, was, k) = was
    BY <1>3 DEF Visit
  <2>2. \A h \in DOMAIN heirs : h <= k =>
          g[h] = LegacyGrant(cap, m, g, h)
    <3>1. LegacyGrant(cap, m, g, k) = 0
      BY <1>3 DEF LegacyGrant
    <3>2. \A h \in DOMAIN heirs : h <= k - 1 => g[h] = LegacyGrant(cap, m, g, h)
      BY DEF LoopInv
    <3> QED BY <1>0, <1>1, <3>1, <3>2
  <2>3. \A h \in DOMAIN heirs : ~(h <= k) => g[h] = 0
    BY <1>0, <1>1
  <2> QED
    BY <2>1, <2>2, <2>3 DEF LoopInv
<1>4. CASE b # NoBranch
  <2> DEFINE new == Visit(cap, m, was, k)
             e == [g EXCEPT ![k] = x]
  <2>1. b \in DOMAIN branches
    BY <1>4, CodesLeadSomewhere
  <2>2. /\ new.drawn = [was.drawn EXCEPT ![b] = @ + x]
        /\ new.surplus = was.surplus - x
        /\ new.grant = e
    BY <1>4 DEF Visit
  <2>3. M \in SUBSET DOMAIN heirs /\ k \in M
    BY DEF ChargedTo
  <2>4. was.drawn[b] = Total(BaseOf(cap), M) + Total(g, M)
    BY <2>1 DEF LoopInv
  <2>5. Total(g, M) = Total(g, M \cap Before(k))
    <3>1. \A h \in M \ Before(k) : g[h] = 0
      BY <1>0, <1>1, <2>3 DEF Before
    <3>2. Total(g, M \ Before(k)) = 0
      BY <1>0, <2>3, <3>1, TotalZero
    <3>3. M \cap Before(k) \in SUBSET M /\ M \ (M \cap Before(k)) = M \ Before(k)
      OBVIOUS
    <3>4. Total(g, M \cap Before(k)) \in Int
      BY <1>0, <1>1, <2>3, <3>3, TotalType
    <3>5. Total(g, M) = Total(g, M \cap Before(k)) + Total(g, M \ Before(k))
      BY <1>0, <1>1, <2>3, <3>3, TotalSplit
    <3> QED BY <3>2, <3>4, <3>5
  <2>6. was.surplus = SurplusAtFirst(cap, m) - Total(g, Before(k))
    BY <1>2 DEF LoopInv
  <2>7. x = LegacyGrant(cap, m, g, k)
    BY <1>4, <2>4, <2>5, <2>6 DEF GrantNow, Grant, LegacyGrant
  <2>8. /\ was.drawn \in [DOMAIN branches -> Int]
        /\ Ceiling(cap, m, b) \in Nat /\ was.surplus \in Int
        /\ RawClaim(k) - BaseOf(cap)[k] \in Nat
    <3>1. Total(g, DOMAIN heirs) \in Int
      BY <1>0, <1>1, TotalType
    <3>2. was.surplus \in Int
      BY <3>1, YearFacts DEF LoopInv
    <3> QED BY <2>1, <3>2, YearFacts, LegacyBaseBounds DEF LoopInv
  <2>9. /\ x \in Nat
        /\ x > 0 => was.drawn[b] + x <= Ceiling(cap, m, b)
    <3>1. x = Granted(RawClaim(k) - BaseOf(cap)[k],
                      Ceiling(cap, m, b) - was.drawn[b], was.surplus)
      BY DEF GrantNow, Grant
    <3>2. was.drawn[b] \in Int
      BY <2>1, <2>8
    <3> DEFINE demand == RawClaim(k) - BaseOf(cap)[k]
               room == Ceiling(cap, m, b) - was.drawn[b]
    <3>3. demand \in Nat /\ room \in Int /\ was.surplus \in Int
      BY <2>8, <3>2
    <3>4. x = Granted(demand, room, was.surplus)
      BY <3>1
    <3>5. was.drawn[b] + room = Ceiling(cap, m, b)
      BY <2>8, <3>2
    <3> HIDE DEF x, b, demand, room
    <3>6. x \in Nat /\ (x > 0 => x <= room)
      BY <3>3, <3>4 DEF Granted, Lesser
    <3> QED BY <3>2, <3>3, <3>5, <3>6
  <2> HIDE DEF x
  <2>10. /\ e \in [DOMAIN heirs -> Nat] /\ e[k] = x
         /\ \A h \in DOMAIN heirs : h # k => e[h] = g[h]
    BY <1>1, <2>9
  <2> HIDE DEF e, new
  <2>11. \A S \in SUBSET DOMAIN heirs :
           /\ Total(g, S) \in Int
           /\ Total(e, S) = IF k \in S THEN Total(g, S) + x ELSE Total(g, S)
    <3> SUFFICES ASSUME NEW S \in SUBSET DOMAIN heirs
                 PROVE  /\ Total(g, S) \in Int
                        /\ Total(e, S) = IF k \in S THEN Total(g, S) + x
                                         ELSE Total(g, S)
      OBVIOUS
    <3>1. Total(g, S) \in Int
      BY <1>0, <1>1, TotalType
    <3>2. CASE k \in S
      <4>1. Total(e, S) = Total(g, S) + e[k] - g[k]
        BY <1>0, <1>1, <2>10, <3>2, TotalChange
      <4> QED BY <1>1, <2>9, <2>10, <3>1, <3>2, <4>1
    <3>3. CASE k \notin S
      BY <1>0, <2>10, <3>1, <3>3, TotalAgree
    <3> QED BY <3>1, <3>2, <3>3
  <2>12. \A h \in DOMAIN heirs : h <= k => e[h] = LegacyGrant(cap, m, e, h)
    <3> SUFFICES ASSUME NEW h \in DOMAIN heirs, h <= k
                 PROVE  e[h] = LegacyGrant(cap, m, e, h)
      OBVIOUS
    <3>1. \A j \in Before(h) : e[j] = g[j]
      BY <1>0, <2>10 DEF Before
    <3>2. LegacyGrant(cap, m, e, h) = LegacyGrant(cap, m, g, h)
      BY <3>1, LegacyGrantDepends
    <3>3. h # k => g[h] = LegacyGrant(cap, m, g, h)
      BY <1>0 DEF LoopInv
    <3> QED BY <2>7, <2>10, <3>2, <3>3
  <2>13. \A h \in DOMAIN heirs : ~(h <= k) => e[h] = 0
    BY <1>0, <1>1, <2>10
  <2>14. /\ new.drawn \in [DOMAIN branches -> Int]
         /\ new.drawn[b] = was.drawn[b] + x
         /\ \A c \in DOMAIN branches : c # b => new.drawn[c] = was.drawn[c]
    BY <2>1, <2>2, <2>8, <2>9
  <2>15. \A c \in DOMAIN branches :
           new.drawn[c] = Total(BaseOf(cap), ChargedTo(c)) + Total(e, ChargedTo(c))
    <3> SUFFICES ASSUME NEW c \in DOMAIN branches
                 PROVE  new.drawn[c] = Total(BaseOf(cap), ChargedTo(c))
                                         + Total(e, ChargedTo(c))
      OBVIOUS
    <3>1. ChargedTo(c) \in SUBSET DOMAIN heirs /\ (k \in ChargedTo(c) <=> c = b)
      BY DEF ChargedTo
    <3>2. was.drawn[c] = Total(BaseOf(cap), ChargedTo(c)) + Total(g, ChargedTo(c))
      BY DEF LoopInv
    <3>3. Total(BaseOf(cap), ChargedTo(c)) \in Int /\ Total(g, ChargedTo(c)) \in Int
      BY <2>11, <3>1, YearFacts
    <3>4. Total(e, ChargedTo(c)) = IF c = b THEN Total(g, ChargedTo(c)) + x
                                   ELSE Total(g, ChargedTo(c))
      BY <2>11, <3>1
    <3>5. new.drawn[c] = IF c = b THEN was.drawn[c] + x ELSE was.drawn[c]
      BY <2>14
    <3> HIDE DEF b
    <3> QED BY <2>9, <3>2, <3>3, <3>4, <3>5
  <2>16. new.surplus = SurplusAtFirst(cap, m) - Total(e, DOMAIN heirs)
    <3>1. Total(e, DOMAIN heirs) = Total(g, DOMAIN heirs) + x
      BY <2>11
    <3>2. was.surplus = SurplusAtFirst(cap, m) - Total(g, DOMAIN heirs)
      BY DEF LoopInv
    <3>3. SurplusAtFirst(cap, m) \in Int /\ Total(g, DOMAIN heirs) \in Int
      BY <2>11, YearFacts
    <3> QED BY <2>2, <2>9, <3>1, <3>2, <3>3
  <2>17. \A h \in DOMAIN heirs :
           e[h] > 0 => new.drawn[CodeOf[h]] <= Ceiling(cap, m, CodeOf[h])
    <3> SUFFICES ASSUME NEW h \in DOMAIN heirs, e[h] > 0
                 PROVE  new.drawn[CodeOf[h]] <= Ceiling(cap, m, CodeOf[h])
      OBVIOUS
    <3>1. g[h] > 0 => was.drawn[CodeOf[h]] <= Ceiling(cap, m, CodeOf[h])
      BY DEF LoopInv
    <3>2. CASE CodeOf[h] = b
      <4>1. was.drawn[b] \in Int /\ (x = 0 => g[h] > 0)
        BY <2>1, <2>8, <2>10
      <4> HIDE DEF b
      <4> QED BY <2>9, <2>14, <3>1, <3>2, <4>1
    <3>3. CASE CodeOf[h] # b
      <4>1. h # k /\ g[h] > 0
        BY <2>10, <3>3
      <4>2. LegacyGrant(cap, m, g, h) # 0
        BY <1>0, <1>1, <4>1 DEF LoopInv
      <4>3. CodeOf[h] \in DOMAIN branches
        BY <4>2, CodesLeadSomewhere DEF LegacyGrant
      <4> QED BY <2>14, <3>1, <3>3, <4>1, <4>3
    <3> QED BY <3>2, <3>3
  <2>18. LoopInv(cap, m, k, new)
    BY <2>2, <2>10, <2>12, <2>13, <2>14, <2>15, <2>16, <2>17 DEF LoopInv
  <2> QED
    BY <2>18 DEF new
<1> QED
  BY <1>3, <1>4

(* So it is right at the end.                                              *)
LEMMA LoopEnds ==
  ASSUME TypeOK, NEW cap \in Nat, NEW m \in GovernanceMode
  PROVE  LoopInv(cap, m, Len(heirs), After(cap, m)[Len(heirs)])
<1> DEFINE L == {n \in Nat : n <= Len(heirs)
                               => LoopInv(cap, m, n, After(cap, m)[n])}
<1>0. Len(heirs) \in Nat /\ DOMAIN heirs = 1 .. Len(heirs)
  BY ArenaFacts
<1>1. 0 \in L
  BY <1>0, AfterUnfolds, LoopStarts
<1>2. ASSUME NEW n \in Nat, n \in L PROVE n + 1 \in L
  <2> SUFFICES ASSUME n + 1 <= Len(heirs)
               PROVE  LoopInv(cap, m, n + 1, After(cap, m)[n + 1])
    OBVIOUS
  <2>1. LoopInv(cap, m, n, After(cap, m)[n])
    BY <1>0, <1>2
  <2>2. n + 1 \in DOMAIN heirs /\ (n + 1) - 1 = n
    BY <1>0
  <2>3. LoopInv(cap, m, n + 1, Visit(cap, m, After(cap, m)[n], n + 1))
    BY <2>1, <2>2, LoopContinues
  <2>4. After(cap, m)[n + 1] = Visit(cap, m, After(cap, m)[n], n + 1)
    BY <1>0, <2>2, AfterUnfolds
  <2> QED BY <2>3, <2>4
<1>3. Nat \subseteq L
  <2> HIDE DEF L
  <2> QED BY <1>1, <1>2, NatSet
<1> QED
  BY <1>0, <1>3

-----------------------------------------------------------------------------
(* What a year of the older settlement pays.                               *)

(* The books of a year add up, no heir is paid more than its claim and no  *)
(* grant takes a branch past its ceiling.                                  *)
LEMMA BooksFacts ==
  ASSUME TypeOK, NEW cap \in Nat, NEW m \in GovernanceMode,
         NEW books, books = LegacyBooks(cap, m)
  PROVE  /\ books.base = BaseOf(cap)
         /\ books.grant \in [DOMAIN heirs -> Nat]
         /\ \A h \in DOMAIN heirs :
              /\ books.base[h] \in Nat
              /\ books.grant[h] = LegacyGrant(cap, m, books.grant, h)
              /\ books.base[h] + books.grant[h] <= RawClaim(h)
              /\ books.grant[h] > 0 =>
                   books.drawn[CodeOf[h]] <= Ceiling(cap, m, CodeOf[h])
         /\ books.drawn \in [DOMAIN branches -> Int]
         /\ \A b \in DOMAIN branches :
              books.drawn[b] = Total(books.base, ChargedTo(b))
                                 + Total(books.grant, ChargedTo(b))
         /\ books.total = Total(books.base, DOMAIN heirs)
                            + Total(books.grant, DOMAIN heirs)
         /\ books.total \in Nat
<1> DEFINE H == DOMAIN heirs
           end == After(cap, m)[Len(heirs)]
           base == BaseOf(cap)
           g == books.grant
<1>1. /\ books.base = base /\ books.drawn = end.drawn
      /\ g = end.grant
      /\ books.total = Total(books.drawn, DOMAIN branches)
  BY BooksSpelledOut
<1> HIDE DEF end
<1>2. LoopInv(cap, m, Len(heirs), end)
  BY LoopEnds DEF end
<1>3. \A h \in H : h <= Len(heirs)
  BY ArenaFacts
<1>4. /\ g \in [H -> Nat]
      /\ \A h \in H :
           /\ g[h] = LegacyGrant(cap, m, g, h)
           /\ g[h] > 0 => books.drawn[CodeOf[h]] <= Ceiling(cap, m, CodeOf[h])
      /\ books.drawn \in [DOMAIN branches -> Int]
      /\ \A b \in DOMAIN branches :
           books.drawn[b] = Total(base, ChargedTo(b)) + Total(g, ChargedTo(b))
  BY <1>1, <1>2, <1>3 DEF LoopInv
<1>5. \A h \in H : base[h] \in Nat /\ g[h] \in Nat
  BY <1>4, LegacyBaseBounds
<1>6. \A h \in H : CodeOf[h] = NoBranch => base[h] = 0 /\ g[h] = 0
  BY <1>4, LegacyBaseBounds DEF LegacyGrant
<1> HIDE DEF g, base
<1>7. ASSUME NEW h \in H
      PROVE  base[h] + g[h] <= RawClaim(h)
  <2>1. RawClaim(h) \in Nat /\ base[h] \in Nat /\ base[h] <= RawClaim(h)
    BY LegacyBaseBounds DEF base
  <2>2. CASE CodeOf[h] = NoBranch
    BY <1>6, <2>1, <2>2
  <2>3. CASE CodeOf[h] # NoBranch
    <3> DEFINE b == CodeOf[h]
               demand == RawClaim(h) - base[h]
               room == Ceiling(cap, m, b)
                         - (Total(base, ChargedTo(b))
                              + Total(g, ChargedTo(b) \cap Before(h)))
               surplus == SurplusAtFirst(cap, m) - Total(g, Before(h))
    <3>1. g[h] = Granted(demand, room, surplus)
      BY <1>4, <2>3 DEF LegacyGrant, base
    <3>2. demand \in Nat
      BY <2>1
    <3> HIDE DEF room, surplus
    <3>3. g[h] \in Nat
      BY <1>5
    <3> HIDE DEF demand
    <3>4. g[h] <= demand
      BY <3>1, <3>2, <3>3 DEF Granted, Lesser
    <3> QED BY <2>1, <3>3, <3>4 DEF demand
  <2> QED BY <2>2, <2>3
<1>8. /\ books.total = Total(base, H) + Total(g, H)
      /\ books.total \in Nat
  <2> DEFINE both == [h \in H |-> base[h] + g[h]]
             Placed == {h \in H : CodeOf[h] # NoBranch}
             F == [b \in DOMAIN branches |-> ChargedTo(b)]
  <2>1. /\ IsFiniteSet(H) /\ IsFiniteSet(DOMAIN branches)
        /\ \A S \in SUBSET H : IsFiniteSet(S)
    BY YearFacts, ArenaFacts
  <2>2. /\ \A h \in H : both[h] = base[h] + g[h] /\ both[h] \in Nat
        /\ Placed \in SUBSET H
    BY <1>5
  <2>3. \A b \in DOMAIN branches :
          /\ F[b] = ChargedTo(b) /\ F[b] \in SUBSET H
          /\ NoBranch # b
    BY ArenaFacts DEF ChargedTo
  <2>4. \A b, c \in DOMAIN branches : b # c => F[b] \cap F[c] = {}
    BY DEF ChargedTo
  <2>5. \A h : h \in Placed <=> \E b \in DOMAIN branches : h \in F[b]
    BY <2>3, CodesLeadSomewhere DEF ChargedTo
  <2> HIDE DEF both, F
  <2>6. ASSUME NEW S \in SUBSET H
        PROVE  Total(both, S) = Total(base, S) + Total(g, S)
    BY <1>5, <2>1, <2>2, TotalPlus
  <2>7. \A b \in DOMAIN branches : books.drawn[b] = Total(both, F[b])
    BY <1>4, <2>3, <2>6 DEF base
  <2>8. \A b \in DOMAIN branches :
          /\ IsFiniteSet(F[b])
          /\ \A h \in F[b] : both[h] \in Int
    BY <2>1, <2>2, <2>3
  <2> HIDE DEF Placed
  <2>9. Total(books.drawn, DOMAIN branches) = Total(both, Placed)
    <3> DEFINE B == DOMAIN branches
               drawn == books.drawn
    <3>1. \A b \in B : /\ IsFiniteSet(F[b]) /\ drawn[b] = Total(both, F[b])
                      /\ \A h \in F[b] : both[h] \in Int
      BY <2>7, <2>8
    <3>2. \A b, c \in B : b # c => F[b] \cap F[c] = {}
      BY <2>4
    <3>3. \A h : h \in Placed <=> \E b \in B : h \in F[b]
      BY <2>5
    <3>4. IsFiniteSet(B)
      BY <2>1
    <3> HIDE DEF B, drawn
    <3>5. Total(both, Placed) = Total(drawn, B)
      BY <3>1, <3>2, <3>3, <3>4, TotalOfTotals
    <3> QED BY <3>5 DEF B, drawn
  <2>10. Total(both, H \ Placed) = 0
    <3>1. \A h \in H \ Placed : both[h] = 0
      BY <1>6, <2>2 DEF Placed
    <3>2. H \ Placed \in SUBSET H
      OBVIOUS
    <3> QED BY <2>1, <3>1, <3>2, TotalZero
  <2>11. Total(both, Placed) \in Nat
    BY <2>1, <2>2, TotalNat
  <2>12. Total(both, H) = Total(both, Placed) + Total(both, H \ Placed)
    BY <2>1, <2>2, TotalSplit
  <2>13. Total(both, H) = Total(base, H) + Total(g, H)
    BY <2>6
  <2> QED BY <1>1, <2>9, <2>10, <2>11, <2>12, <2>13
<1> QED
  BY <1>1, <1>4, <1>5, <1>7, <1>8 DEF g, base

(* The registry the newer settlement sees is one it is proved for.         *)
LEMMA RegistryFacts ==
  ASSUME TypeOK
  PROVE  /\ WellFormed(Registry)
         /\ DOMAIN Registry.state = DOMAIN heirs
         /\ DOMAIN Registry.share = DOMAIN branches
         /\ ActiveOf(Registry) = Active
         /\ \A h \in DOMAIN heirs :
              /\ Registry.state[h] = heirs[h].state
              /\ Registry.branch_index[h] = heirs[h].branch_index
              /\ Registry.claim[h]
                   = heirs[h].annual_capital_contribution * Multiplier
              /\ Registry.spillover[h] = heirs[h].last_approved_spillover_payout
         /\ \A b \in DOMAIN branches :
              /\ Registry.share[b] = branches[b].share
              /\ Registry.count[b] = branches[b].active_heir_count
<1> DEFINE r == Registry
<1>1. /\ r.state = [h \in DOMAIN heirs |-> heirs[h].state]
      /\ r.branch_index = [h \in DOMAIN heirs |-> heirs[h].branch_index]
      /\ r.claim = [h \in DOMAIN heirs |->
                      heirs[h].annual_capital_contribution * Multiplier]
      /\ r.base = [h \in DOMAIN heirs |-> heirs[h].last_approved_base_payout]
      /\ r.spillover
           = [h \in DOMAIN heirs |-> heirs[h].last_approved_spillover_payout]
      /\ r.share = [b \in DOMAIN branches |-> branches[b].share]
      /\ r.count = [b \in DOMAIN branches |-> branches[b].active_heir_count]
  BY DEF Registry
<1> HIDE DEF r
<1>2. \A h \in DOMAIN heirs :
        /\ heirs[h].annual_capital_contribution * Multiplier \in Nat
        /\ heirs[h].last_approved_base_payout \in Nat
        /\ heirs[h].last_approved_spillover_payout \in Nat
        /\ heirs[h].branch_index \in DOMAIN branches
  <2> SUFFICES ASSUME NEW h \in DOMAIN heirs
               PROVE  /\ heirs[h].annual_capital_contribution * Multiplier \in Nat
                      /\ heirs[h].last_approved_base_payout \in Nat
                      /\ heirs[h].last_approved_spillover_payout \in Nat
                      /\ heirs[h].branch_index \in DOMAIN branches
    OBVIOUS
  <2>1. /\ heirs[h] \in Heir /\ Multiplier \in Nat
        /\ heirs[h].branch_index \in DOMAIN branches
    BY ArenaFacts, LegacyAssumption DEF TypeOK
  <2>2. heirs[h].annual_capital_contribution \in Nat
    BY <2>1 DEF Heir
  <2>3. heirs[h].annual_capital_contribution * Multiplier \in Nat
    BY <2>1, <2>2
  <2> QED BY <2>1, <2>3 DEF Heir
<1>3. \A b \in DOMAIN branches :
        branches[b].share \in Nat /\ branches[b].active_heir_count \in Nat
  BY ArenaFacts DEF Branch
<1>4. WellFormed(r)
  <2>1. DOMAIN r.state = 1 .. Len(heirs) /\ Len(heirs) \in Nat
    BY <1>1, ArenaFacts
  <2>2. /\ r.base \in [DOMAIN r.state -> Nat]
        /\ r.spillover \in [DOMAIN r.state -> Nat]
    BY <1>1, <1>2
  <2>3. \A h \in DOMAIN r.state :
          r.claim[h] \in Nat /\ r.branch_index[h] \in DOMAIN r.share
    BY <1>1, <1>2
  <2>4. \A b \in DOMAIN r.share : r.share[b] \in Nat /\ r.count[b] \in Nat
    BY <1>1, <1>3
  <2> QED BY <2>1, <2>2, <2>3, <2>4 DEF WellFormed
<1>5. ActiveOf(r) = Active
  BY <1>1 DEF ActiveOf, Active
<1> QED
  BY <1>1, <1>4, <1>5 DEF r

(* Where codes lead home, the loop of the older settlement solves the      *)
(* recursive definition of the grants of the newer one.                    *)
LEMMA SameBooks ==
  ASSUME TypeOK, CodesLeadHome, NEW cap \in Nat, cap > 0,
         NEW m \in GovernanceMode,
         NEW old, old = LegacyBooks(cap, m),
         NEW new, new = AnnualSettlement(Registry, cap, m)
  PROVE  /\ old.total = new.total
         /\ old.drawn = new.drawn
         /\ \A h \in Active : /\ old.base[h] = new.base[h]
                              /\ old.grant[h] = new.spillover[h]
<1> DEFINE H == DOMAIN heirs
           r == Registry
           base == old.base
           g == old.grant
           paid == BasePaid(r, cap)
           due == Grants(r, cap, m)
<1>1. /\ WellFormed(r) /\ ActiveOf(r) = Active
      /\ DOMAIN r.state = H /\ DOMAIN r.share = DOMAIN branches
      /\ Active \in SUBSET H
      /\ \A S \in SUBSET H : IsFiniteSet(S)
  BY RegistryFacts, YearFacts DEF Active
<1>2. /\ base = BaseOf(cap) /\ g \in [H -> Nat]
      /\ \A h \in H : /\ base[h] \in Nat
                      /\ g[h] = LegacyGrant(cap, m, g, h)
                      /\ base[h] + g[h] <= RawClaim(h)
      /\ old.drawn \in [DOMAIN branches -> Int]
      /\ \A b \in DOMAIN branches :
           old.drawn[b] = Total(base, ChargedTo(b)) + Total(g, ChargedTo(b))
      /\ old.total = Total(base, H) + Total(g, H)
  BY BooksFacts
<1>3. /\ new.base = paid
      /\ new.spillover = [h \in H |-> IF h \in Active THEN due[h]
                                      ELSE r.spillover[h]]
      /\ new.drawn = [b \in DOMAIN branches |->
                        Total(paid, MembersOf(r, b)) + Total(due, MembersOf(r, b))]
      /\ new.total = Total(paid, Active) + Total(due, Active)
  BY <1>1, RulesSpelledOut
<1>4. \A h \in H : /\ CodeOf[h] = r.branch_index[h]
                   /\ CodeOf[h] \in DOMAIN branches /\ CodeOf[h] # NoBranch
  BY RegistryFacts, ArenaFacts DEF CodesLeadHome, CodeOf, TypeOK
<1>5. \A h \in Active : RawClaim(h) = r.claim[h]
  <2> SUFFICES ASSUME NEW h \in Active PROVE RawClaim(h) = r.claim[h]
    OBVIOUS
  <2>1. /\ h \in H /\ heirs[h].state = "ACTIVE"
        /\ heirs[h].annual_capital_contribution \in Nat /\ Multiplier \in Nat
    BY ArenaFacts, LegacyAssumption DEF Active, Heir
  <2>2. r.claim[h] = heirs[h].annual_capital_contribution * Multiplier
    BY <2>1, RegistryFacts
  <2>3. CASE heirs[h].annual_capital_contribution = 0
    <3>1. 0 * Multiplier = 0
      BY <2>1
    <3> QED BY <2>2, <2>3, <3>1 DEF RawClaim
  <2>4. CASE heirs[h].annual_capital_contribution # 0
    BY <2>1, <2>2, <2>4 DEF RawClaim
  <2> QED BY <2>3, <2>4
<1>6. \A h \in H \ Active : base[h] = 0 /\ g[h] = 0
  <2> SUFFICES ASSUME NEW h \in H \ Active PROVE base[h] = 0 /\ g[h] = 0
    OBVIOUS
  <2>1. RawClaim(h) = 0
    BY DEF RawClaim, Active
  <2>2. base[h] \in Nat /\ g[h] \in Nat /\ base[h] + g[h] <= 0
    BY <1>2, <2>1
  <2> QED BY <2>2
<1>7. \A h \in Active : base[h] = paid[h]
  <2> SUFFICES ASSUME NEW h \in Active PROVE base[h] = paid[h]
    OBVIOUS
  <2> DEFINE b == CodeOf[h]
             part == HeirCap(BaseCap(cap, branches[b].share),
                             branches[b].active_heir_count)
  <2>1. h \in H /\ b \in DOMAIN branches /\ b # NoBranch
    BY <1>1, <1>4
  <2>2. base[h] = IF RawClaim(h) = 0 THEN 0 ELSE Lesser(RawClaim(h), part)
    BY <1>2, <2>1 DEF BaseOf, BasePayout, CodeOf
  <2>3. paid[h] = Lesser(RawClaim(h), part)
    BY <1>1, <1>4, <1>5, <2>1, RegistryFacts DEF BasePaid
  <2>4. part \in Nat /\ RawClaim(h) \in Nat
    <3>1. branches[b].share \in Nat /\ branches[b].active_heir_count \in Nat
      BY <2>1, ArenaFacts DEF Branch
    <3> QED BY <2>1, <3>1, CapsAreNatural, LegacyBaseBounds
  <2> HIDE DEF part, base, paid
  <2> QED BY <2>2, <2>3, <2>4 DEF Lesser
<1> HIDE DEF r, base, g, paid, due
<1>8. \A S \in SUBSET H :
        /\ Total(base, S) = Total(paid, S \cap Active)
        /\ Total(g, S) = Total(g, S \cap Active)
        /\ Total(base, S) \in Nat /\ Total(g, S) \in Nat
  <2> SUFFICES ASSUME NEW S \in SUBSET H
               PROVE  /\ Total(base, S) = Total(paid, S \cap Active)
                      /\ Total(g, S) = Total(g, S \cap Active)
                      /\ Total(base, S) \in Nat /\ Total(g, S) \in Nat
    OBVIOUS
  <2> DEFINE P == S \cap Active
  <2>1. /\ IsFiniteSet(S) /\ P \in SUBSET S /\ IsFiniteSet(P)
        /\ IsFiniteSet(S \ P)
        /\ \A h \in S : base[h] \in Nat /\ g[h] \in Nat
        /\ \A h \in S \ P : base[h] = 0 /\ g[h] = 0
        /\ \A h \in P : base[h] = paid[h] /\ g[h] \in Nat /\ base[h] \in Nat
    BY <1>1, <1>2, <1>6, <1>7
  <2> HIDE DEF P
  <2>2. Total(base, S \ P) = 0 /\ Total(g, S \ P) = 0
    BY <2>1, TotalZero
  <2>3. /\ Total(base, S) = Total(base, P) + Total(base, S \ P)
        /\ Total(g, S) = Total(g, P) + Total(g, S \ P)
    BY <2>1, TotalSplit
  <2>4. Total(base, P) = Total(paid, P)
    BY <2>1, TotalAgree
  <2>5. Total(base, P) \in Nat /\ Total(g, P) \in Nat
    BY <2>1, TotalNat
  <2> QED BY <2>2, <2>3, <2>4, <2>5 DEF P
<1>9. \A b : MembersOf(r, b) = ChargedTo(b) \cap Active
  BY <1>1, <1>4 DEF MembersOf, ChargedTo
<1>10. ASSUME NEW h \in Active PROVE g[h] = GrantTo(r, cap, m, g, h)
  <2> DEFINE b == CodeOf[h]
             spent == Total(g, Before(h))
             taken == Total(g, ChargedTo(b) \cap Before(h))
             demand == RawClaim(h) - base[h]
             room == Ceiling(cap, m, b) - (Total(base, ChargedTo(b)) + taken)
             surplus == SurplusAtFirst(cap, m) - spent
  <2>1. h \in H /\ b = r.branch_index[h] /\ b \in DOMAIN branches /\ b # NoBranch
    BY <1>1, <1>4
  <2>2. g[h] = Granted(demand, room, surplus)
    BY <1>2, <2>1 DEF LegacyGrant
  <2>3. demand = DemandOf(r, cap, h) /\ demand \in Nat
    <3>1. RawClaim(h) \in Nat /\ base[h] \in Nat /\ base[h] <= RawClaim(h)
      BY <1>2, <2>1, LegacyBaseBounds
    <3> QED BY <1>5, <1>7, <3>1 DEF DemandOf, paid
  <2>4. /\ ChargedTo(b) \in SUBSET H /\ Before(h) \in SUBSET H
        /\ ChargedTo(b) \cap Before(h) \in SUBSET H
    BY DEF ChargedTo, Before
  <2>5. room = RoomOf(r, cap, m, g, h) /\ room \in Int
    <3>1. (ChargedTo(b) \cap Before(h)) \cap Active
            = {k \in MembersOf(r, r.branch_index[h]) : k < h}
      BY <1>9, <2>1 DEF Before, ChargedTo
    <3>2. taken = Total(g, {k \in MembersOf(r, r.branch_index[h]) : k < h})
      BY <1>8, <2>4, <3>1
    <3>3. Total(base, ChargedTo(b))
            = Total(paid, MembersOf(r, r.branch_index[h]))
      BY <1>8, <1>9, <2>1, <2>4
    <3>4. Ceiling(cap, m, b)
            = BranchCeiling(m, cap, r.share[r.branch_index[h]])
      BY <2>1, RegistryFacts DEF Ceiling, r
    <3>5. /\ Ceiling(cap, m, b) \in Int /\ taken \in Int
          /\ Total(base, ChargedTo(b)) \in Int
      <4>1. taken \in Nat /\ Total(base, ChargedTo(b)) \in Nat
        BY <1>8, <2>4
      <4>2. Ceiling(cap, m, b) \in Nat
        BY <2>1, YearFacts
      <4> HIDE DEF taken
      <4> QED BY <4>1, <4>2
    <3> HIDE DEF taken
    <3>6. room = (Ceiling(cap, m, b) - Total(base, ChargedTo(b))) - taken
                   /\ room \in Int
      BY <3>5
    <3> QED BY <3>2, <3>3, <3>4, <3>6 DEF RoomOf, paid
  <2>6. spent \in Nat
    BY <1>8, <2>4
  <2>7. SurplusAtFirst(cap, m) = IF m = "HYBRID_SPILLOVER"
                                 THEN cap - Total(base, H) ELSE 0
    BY <1>2 DEF SurplusAtFirst
  <2>8. CASE m = "HYBRID_SPILLOVER"
    <3>1. Before(h) \cap Active = {k \in ActiveOf(r) : k < h}
      BY <1>1 DEF Before
    <3>2. spent = Total(g, {k \in ActiveOf(r) : k < h})
      BY <1>8, <2>4, <3>1
    <3>3. H \cap Active = ActiveOf(r)
      BY <1>1
    <3>4. Total(base, H) = Total(paid, ActiveOf(r))
      BY <1>8, <3>3
    <3>5. surplus = SurplusOf(r, cap, g, h)
      BY <2>7, <2>8, <3>2, <3>4 DEF SurplusOf, paid
    <3> QED BY <2>2, <2>3, <2>5, <2>8, <3>5 DEF GrantTo
  <2>9. CASE m # "HYBRID_SPILLOVER"
    <3>1. surplus \in Int /\ surplus <= 0
      BY <2>6, <2>7, <2>9
    <3> HIDE DEF surplus, room, demand
    <3>2. g[h] = 0
      BY <2>2, <3>1 DEF Granted
    <3> QED BY <2>9, <3>2 DEF GrantTo
  <2> QED BY <2>8, <2>9
<1>11. \A h \in Active : g[h] = due[h]
  BY <1>1, <1>10, GrantsUnique DEF due
<1>12. \A S \in SUBSET H : Total(g, S) = Total(due, S \cap Active)
  <2> SUFFICES ASSUME NEW S \in SUBSET H
               PROVE  Total(g, S) = Total(due, S \cap Active)
    OBVIOUS
  <2>1. S \cap Active \in SUBSET H /\ \A h \in S \cap Active : g[h] = due[h]
    BY <1>11
  <2>2. Total(g, S \cap Active) = Total(due, S \cap Active)
    BY <1>1, <2>1, TotalAgree
  <2> QED BY <1>8, <2>2
<1>13. old.total = new.total
  <2>1. H \cap Active = Active
    BY <1>1
  <2>2. Total(base, H) = Total(paid, Active) /\ Total(g, H) = Total(due, Active)
    BY <1>8, <1>12, <2>1
  <2> QED BY <1>2, <1>3, <2>2
<1>14. old.drawn = new.drawn
  <2>1. ASSUME NEW b \in DOMAIN branches
        PROVE  old.drawn[b] = Total(paid, MembersOf(r, b))
                                + Total(due, MembersOf(r, b))
    <3>1. ChargedTo(b) \in SUBSET H
      BY DEF ChargedTo
    <3> QED BY <1>2, <1>8, <1>9, <1>12, <3>1
  <2> QED BY <1>2, <1>3, <2>1
<1>15. \A h \in Active : /\ base[h] = new.base[h]
                         /\ g[h] = new.spillover[h]
  BY <1>1, <1>3, <1>7, <1>11
<1> QED
  BY <1>13, <1>14, <1>15 DEF base, g

-----------------------------------------------------------------------------
(* The theorems.                                                           *)

(* A year that pays anything has a positive cap.                           *)
LEMMA CapsArePositive ==
  ASSUME NEW cap \in GlobalCaps, cap > 0
  PROVE  cap \in Nat /\ ~(cap <= 0)
BY LegacyAssumption

(* A change of the heirs' fields keeps the arenas well formed.             *)
LEMMA HeirsStayHeirs ==
  ASSUME TypeOK, NEW to, DOMAIN to = DOMAIN heirs,
         heirs' = [h \in DOMAIN heirs |-> to[h]], branches' = branches,
         \A h \in DOMAIN heirs :
           /\ to[h] \in Heir
           /\ to[h].branch_index = heirs[h].branch_index
  PROVE  /\ heirs' \in Seq(Heir) /\ DOMAIN heirs' = DOMAIN heirs
         /\ branches' \in Seq(Branch)
         /\ (\A h \in DOMAIN heirs :
               heirs[h].branch_index \in DOMAIN branches)'
<1>1. DOMAIN heirs = 1 .. Len(heirs) /\ Len(heirs) \in Nat
  BY ArenaFacts
<1>2. heirs' \in [1 .. Len(heirs) -> Heir]
  BY <1>1
<1>3. heirs' \in Seq(Heir)
  BY <1>1, <1>2, IsASeq
<1>4. DOMAIN heirs' = DOMAIN heirs /\ \A h \in DOMAIN heirs : heirs'[h] = to[h]
  OBVIOUS
<1> QED
  BY <1>3, <1>4 DEF TypeOK

(* The type invariant: the arenas stay well formed and no payout or grant  *)
(* is ever negative, whichever settlement runs.                            *)
THEOREM LegacyTypeCorrect == Spec => []TypeOK
<1>1. Init => TypeOK
  BY LegacyAssumption DEF Init, TypeOK
<1>2. ASSUME TypeOK, [Next]_vars PROVE TypeOK'
  <2>1. ASSUME NEW cap \in GlobalCaps, RefuseSettlement(cap) PROVE TypeOK'
    BY <1>2, <2>1, LegacyAssumption DEF RefuseSettlement, TypeOK
  <2>2. ASSUME NEW cap \in GlobalCaps, NEW m \in GovernanceMode,
               ExecuteAnnualSettlement(cap, m)
        PROVE  TypeOK'
    <3> DEFINE books == LegacyBooks(cap, m)
               to == [h \in DOMAIN heirs |->
                        [heirs[h] EXCEPT
                           !.last_approved_base_payout = books.base[h],
                           !.last_approved_spillover_payout =
                             @ + books.grant[h]]]
    <3>1. /\ heirs' = to /\ last_settled_payout' = books.total
          /\ years < MaxYears /\ years' = years + 1 /\ cap > 0
          /\ branches' = branches /\ changes' = changes
      BY <2>2 DEF ExecuteAnnualSettlement
    <3>2. cap \in Nat
      BY <3>1, CapsArePositive
    <3>3. /\ books.total \in Nat
          /\ \A h \in DOMAIN heirs : books.base[h] \in Nat /\ books.grant[h] \in Nat
      BY <1>2, <3>2, BooksFacts
    <3>4. \A h \in DOMAIN heirs :
            to[h] \in Heir /\ to[h].branch_index = heirs[h].branch_index
      <4> SUFFICES ASSUME NEW h \in DOMAIN heirs
                   PROVE  /\ to[h] \in Heir
                          /\ to[h].branch_index = heirs[h].branch_index
        OBVIOUS
      <4> DEFINE spill == heirs[h].last_approved_spillover_payout + books.grant[h]
      <4>1. heirs[h] \in Heir
        BY <1>2, ArenaFacts
      <4>2. to[h] = [heirs[h] EXCEPT !.last_approved_base_payout = books.base[h],
                                     !.last_approved_spillover_payout = spill]
        BY <4>1 DEF Heir
      <4>3. spill \in Nat /\ books.base[h] \in Nat
        BY <3>3, <4>1 DEF Heir
      <4> HIDE DEF to, books, spill
      <4> QED BY <4>1, <4>2, <4>3 DEF Heir
    <3>5. heirs' = [h \in DOMAIN heirs |-> to[h]] /\ DOMAIN to = DOMAIN heirs
      BY <3>1
    <3> HIDE DEF to, books
    <3>6. /\ heirs' \in Seq(Heir) /\ DOMAIN heirs' = DOMAIN heirs
          /\ branches' \in Seq(Branch)
          /\ (\A h \in DOMAIN heirs :
                heirs[h].branch_index \in DOMAIN branches)'
      BY <1>2, <3>1, <3>4, <3>5, HeirsStayHeirs
    <3> QED
      BY <1>2, <3>1, <3>3, <3>6, LegacyAssumption DEF TypeOK
  <2>3. ASSUME NEW cap \in GlobalCaps, NEW m \in GovernanceMode,
               ExecuteAnnualSettlementFuture(cap, m)
        PROVE  TypeOK'
    <3> DEFINE books == AnnualSettlement(Registry, cap, m)
               to == [h \in DOMAIN heirs |->
                        [heirs[h] EXCEPT
                           !.last_approved_base_payout = books.base[h],
                           !.last_approved_spillover_payout =
                             books.spillover[h]]]
    <3>1. /\ heirs' = to /\ last_settled_payout' = books.total
          /\ years < MaxYears /\ years' = years + 1 /\ cap > 0
          /\ branches' = branches /\ changes' = changes
      BY <2>3 DEF ExecuteAnnualSettlementFuture
    <3>2. /\ WellFormed(Registry) /\ DOMAIN Registry.state = DOMAIN heirs
          /\ RatioIsNatural /\ cap \in Int
      BY <1>2, RegistryFacts, LegacyAssumption DEF RatioIsNatural
    <3>3. /\ books.total \in Nat
          /\ books.base \in [DOMAIN heirs -> Nat]
          /\ books.spillover \in [DOMAIN heirs -> Nat]
      BY <3>2, SettlementPays
    <3>4. \A h \in DOMAIN heirs :
            to[h] \in Heir /\ to[h].branch_index = heirs[h].branch_index
      BY <1>2, <3>3, ArenaFacts DEF Heir
    <3>5. heirs' = [h \in DOMAIN heirs |-> to[h]] /\ DOMAIN to = DOMAIN heirs
      BY <3>1
    <3> HIDE DEF to, books
    <3>6. /\ heirs' \in Seq(Heir) /\ DOMAIN heirs' = DOMAIN heirs
          /\ branches' \in Seq(Branch)
          /\ (\A h \in DOMAIN heirs :
                heirs[h].branch_index \in DOMAIN branches)'
      BY <1>2, <3>1, <3>4, <3>5, HeirsStayHeirs
    <3> QED
      BY <1>2, <3>1, <3>3, <3>6, LegacyAssumption DEF TypeOK
  <2>4. ASSUME NEW k \in DOMAIN heirs, NEW c,
               ComeOfAge(k) \/ (c \in Contributions /\ DepositCapital(k, c))
        PROVE  TypeOK'
    <3> DEFINE to == [h \in DOMAIN heirs |-> heirs'[h]]
    <3>1. /\ \/ heirs' = [heirs EXCEPT ![k].state = "ACTIVE"]
             \/ /\ c \in Nat
                /\ heirs' = [heirs EXCEPT ![k].annual_capital_contribution = c]
          /\ changes < MaxChanges /\ changes' = changes + 1
          /\ branches' = branches /\ years' = years
          /\ last_settled_payout' = last_settled_payout
      BY <2>4, LegacyAssumption DEF ComeOfAge, DepositCapital
    <3>2. \A h \in DOMAIN heirs : heirs[h] \in Heir
      BY <1>2, ArenaFacts
    <3>3. \A h \in DOMAIN heirs :
            to[h] \in Heir /\ to[h].branch_index = heirs[h].branch_index
      <4>1. CASE heirs' = [heirs EXCEPT ![k].state = "ACTIVE"]
        BY <3>2, <4>1 DEF Heir
      <4>2. CASE /\ c \in Nat
                 /\ heirs' = [heirs EXCEPT ![k].annual_capital_contribution = c]
        BY <3>2, <4>2 DEF Heir
      <4> QED BY <3>1, <4>1, <4>2
    <3>4. heirs' = [h \in DOMAIN heirs |-> to[h]] /\ DOMAIN to = DOMAIN heirs
      BY <3>1
    <3> HIDE DEF to
    <3>5. /\ heirs' \in Seq(Heir) /\ DOMAIN heirs' = DOMAIN heirs
          /\ branches' \in Seq(Branch)
          /\ (\A h \in DOMAIN heirs :
                heirs[h].branch_index \in DOMAIN branches)'
      BY <1>2, <3>1, <3>3, <3>4, HeirsStayHeirs
    <3> QED
      BY <1>2, <3>1, <3>5, LegacyAssumption DEF TypeOK
  <2>5. ASSUME UNCHANGED vars PROVE TypeOK'
    BY <1>2, <2>5 DEF vars, TypeOK
  <2> QED
    BY <1>2, <2>1, <2>2, <2>3, <2>4, <2>5 DEF Next, OldYear, NewYear
<1> QED
  BY <1>1, <1>2, PTL DEF Spec

(* No heir is ever paid more than its claim by the older settlement, and   *)
(* no grant takes the branch it is charged to past its ceiling, even where *)
(* two branches share a code.                                              *)
THEOREM LegacyBounds == Spec => []LegacyKeepsBounds
<1>1. ASSUME TypeOK PROVE LegacyKeepsBounds
  <2> SUFFICES ASSUME NEW cap \in GlobalCaps, NEW m \in GovernanceMode, cap > 0,
                      NEW books, books = LegacyBooks(cap, m),
                      NEW h \in DOMAIN heirs
               PROVE  /\ books.base[h] + books.grant[h] <= RawClaim(h)
                      /\ books.grant[h] > 0 =>
                           books.drawn[BranchByCode(heirs[h].branch_id)]
                             <= BranchCeiling(m, cap,
                                  branches[BranchByCode(heirs[h].branch_id)].share)
    BY DEF LegacyKeepsBounds
  <2>1. cap \in Nat
    BY LegacyAssumption
  <2>2. /\ books.base[h] + books.grant[h] <= RawClaim(h)
        /\ books.grant[h] > 0 =>
             books.drawn[CodeOf[h]] <= Ceiling(cap, m, CodeOf[h])
    BY <1>1, <2>1, BooksFacts
  <2> QED BY <2>2 DEF CodeOf, Ceiling
<1> QED
  BY <1>1, LegacyTypeCorrect, PTL

(* Where codes lead home, the two settlements pay every active heir the    *)
(* same in either phase and take the same from every branch and the fund.  *)
THEOREM Interchangeable == Spec => []SettlementsAgree
<1>1. ASSUME TypeOK PROVE SettlementsAgree
  <2> SUFFICES ASSUME CodesLeadHome,
                      NEW cap \in GlobalCaps, NEW m \in GovernanceMode, cap > 0,
                      NEW old, old = LegacyBooks(cap, m),
                      NEW new, new = AnnualSettlement(Registry, cap, m)
               PROVE  /\ old.total = new.total
                      /\ old.drawn = new.drawn
                      /\ \A h \in DOMAIN heirs :
                           heirs[h].state = "ACTIVE" =>
                             /\ old.base[h] = new.base[h]
                             /\ old.grant[h] = new.spillover[h]
    BY DEF SettlementsAgree
  <2>1. cap \in Nat
    BY LegacyAssumption
  <2> QED
    BY <1>1, <2>1, SameBooks DEF Active
<1> QED
  BY <1>1, LegacyTypeCorrect, PTL

(* The payouts an older settlement leaves in the arena exceed what it paid *)
(* by exactly the spillover it found there.                                *)
THEOREM CarriedOver == Spec => SpilloverIsCarriedOver
<1>1. ASSUME TypeOK, OldYear
      PROVE  Shown(DOMAIN heirs)' =
               last_settled_payout'
                 + SumOver("last_approved_spillover_payout", DOMAIN heirs)
  <2> DEFINE H == DOMAIN heirs
  <2>1. PICK cap \in GlobalCaps, m \in GovernanceMode :
               ExecuteAnnualSettlement(cap, m)
    BY <1>1 DEF OldYear
  <2> DEFINE books == LegacyBooks(cap, m)
             base == [h \in H |-> heirs'[h].last_approved_base_payout]
             new == [h \in H |-> heirs'[h].last_approved_spillover_payout]
             old == [h \in H |-> heirs[h].last_approved_spillover_payout]
  <2>2. /\ heirs' = [h \in H |->
                       [heirs[h] EXCEPT
                          !.last_approved_base_payout = books.base[h],
                          !.last_approved_spillover_payout = @ + books.grant[h]]]
        /\ last_settled_payout' = books.total
        /\ cap > 0
    BY <2>1 DEF ExecuteAnnualSettlement
  <2>3. cap \in Nat
    BY <2>2, CapsArePositive
  <2>4. /\ \A h \in H : books.base[h] \in Nat /\ books.grant[h] \in Nat
        /\ books.total = Total(books.base, H) + Total(books.grant, H)
        /\ IsFiniteSet(H)
    BY <1>1, <2>3, BooksFacts, ArenaFacts
  <2>5. \A h \in H : heirs[h] \in Heir
    BY <1>1, ArenaFacts
  <2>6. /\ DOMAIN heirs' = H
        /\ \A h \in H :
             /\ base[h] = books.base[h]
             /\ old[h] \in Nat /\ new[h] = old[h] + books.grant[h]
    BY <2>2, <2>5 DEF Heir
  <2>7. /\ Shown(DOMAIN heirs)' = Total(base, H) + Total(new, H)
        /\ SumOver("last_approved_spillover_payout", H) = Total(old, H)
    BY <2>6 DEF Shown, SumOver
  <2> DEFINE grant == books.grant
  <2> HIDE DEF base, new, old, grant, books
  <2>8. Total(base, H) = Total(books.base, H)
    BY <2>4, <2>6, TotalAgree
  <2>9. \A h \in H : old[h] \in Int /\ grant[h] \in Int /\ new[h] = old[h] + grant[h]
    BY <2>4, <2>6 DEF grant
  <2>10. Total(new, H) = Total(old, H) + Total(grant, H)
    BY <2>4, <2>9, TotalPlus
  <2>11. Total(old, H) \in Int /\ Total(grant, H) \in Int /\ Total(base, H) \in Int
    <3>1. \A h \in H : base[h] \in Int
      BY <2>4, <2>6
    <3> QED BY <2>4, <2>9, <3>1, TotalType
  <2> QED
    <3> DEFINE shown == Shown(DOMAIN heirs)'
               before == SumOver("last_approved_spillover_payout", H)
    <3>1. /\ shown = Total(base, H) + Total(new, H)
          /\ before = Total(old, H)
      BY <2>7
    <3>2. last_settled_payout' = Total(base, H) + Total(grant, H)
      BY <2>2, <2>4, <2>8 DEF grant
    <3> HIDE DEF shown, before, H
    <3>3. shown = last_settled_payout' + before
      BY <2>10, <2>11, <3>1, <3>2
    <3> QED BY <3>3 DEF shown, before, H
<1>2. TypeOK /\ [Next]_vars =>
        [OldYear => Shown(DOMAIN heirs)' =
                      last_settled_payout'
                        + SumOver("last_approved_spillover_payout",
                                  DOMAIN heirs)]_vars
  BY <1>1
<1> QED
  BY <1>2, LegacyTypeCorrect, PTL DEF Spec, SpilloverIsCarriedOver

(* After the newer settlement the payouts of the active heirs are what the *)
(* fund paid, whatever older settlements have left in the arena.           *)
THEOREM Afresh == Spec => FutureStartsAfresh
<1>1. ASSUME TypeOK, NewYear
      PROVE  Shown(Active)' = last_settled_payout'
  <2> DEFINE H == DOMAIN heirs
  <2>1. PICK cap \in GlobalCaps, m \in GovernanceMode :
               ExecuteAnnualSettlementFuture(cap, m)
    BY <1>1 DEF NewYear
  <2> DEFINE r == Registry
             books == AnnualSettlement(r, cap, m)
             paid == BasePaid(r, cap)
             due == Grants(r, cap, m)
             base == [h \in Active |-> heirs'[h].last_approved_base_payout]
             spill == [h \in Active |-> heirs'[h].last_approved_spillover_payout]
  <2>2. /\ heirs' = [h \in H |->
                       [heirs[h] EXCEPT
                          !.last_approved_base_payout = books.base[h],
                          !.last_approved_spillover_payout = books.spillover[h]]]
        /\ last_settled_payout' = books.total
        /\ cap > 0
    BY <2>1 DEF ExecuteAnnualSettlementFuture
  <2>3. cap \in Nat /\ ~(cap <= 0)
    BY <2>2, CapsArePositive
  <2>4. /\ ActiveOf(r) = Active /\ DOMAIN r.state = H
        /\ Active \in SUBSET H /\ IsFiniteSet(Active)
    BY <1>1, RegistryFacts, YearFacts, FS_Subset, ArenaFacts DEF Active
  <2>5. /\ books.base = paid
        /\ books.spillover = [h \in H |-> IF h \in Active THEN due[h]
                                          ELSE r.spillover[h]]
        /\ books.total = Total(paid, Active) + Total(due, Active)
    BY <2>3, <2>4, RulesSpelledOut
  <2>6. \A h \in H : heirs[h] \in Heir
    BY <1>1, ArenaFacts
  <2> HIDE DEF r, books, paid, due
  <2>7. /\ DOMAIN heirs' = H
        /\ \A h \in H : /\ heirs'[h].state = heirs[h].state
                        /\ heirs'[h].last_approved_base_payout = books.base[h]
                        /\ heirs'[h].last_approved_spillover_payout
                             = books.spillover[h]
    BY <2>2, <2>6 DEF Heir
  <2>8. Active' = Active
    BY <2>7 DEF Active
  <2>9. \A h \in Active : base[h] = paid[h] /\ spill[h] = due[h]
    BY <2>4, <2>5, <2>7
  <2>10. Shown(Active)' = Total(base, Active) + Total(spill, Active)
    BY <2>8 DEF Shown, SumOver
  <2> HIDE DEF base, spill
  <2>11. Total(base, Active) = Total(paid, Active)
         /\ Total(spill, Active) = Total(due, Active)
    BY <2>4, <2>9, TotalAgree
  <2> QED
    BY <2>2, <2>5, <2>10, <2>11
<1>2. TypeOK /\ [Next]_vars =>
        [NewYear => Shown(Active)' = last_settled_payout']_vars
  BY <1>1
<1> QED
  BY <1>2, LegacyTypeCorrect, PTL DEF Spec, FutureStartsAfresh

=============================================================================
