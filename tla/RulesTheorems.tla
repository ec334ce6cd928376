---------------------------- MODULE RulesTheorems ----------------------------
(***************************************************************************)
(* Facts about SettlementRules for registries of any size: the recursive   *)
(* definition of the grants has a solution, no payout is negative or above *)
(* the claim, and the total is what the heirs are paid.                    *)
(***************************************************************************)
EXTENDS SettlementRules, SumTheorems

-----------------------------------------------------------------------------
(* Facts about the amounts.                                                *)

(* Integer division stays among the natural numbers.                       *)
LEMMA DivisionIsNatural ==
  ASSUME NEW a \in Nat, NEW b \in Nat \ {0}
  PROVE  a \div b \in Nat
OBVIOUS

(* The cap of an heir and the entitlement of a branch are not negative.    *)
LEMMA CapsAreNatural ==
  /\ \A cap \in Nat, count \in Nat : HeirCap(cap, count) \in Nat
  /\ \A cap \in Nat, share \in Nat : BaseCap(cap, share) \in Nat
<1>1. \A cap \in Nat, count \in Nat : HeirCap(cap, count) \in Nat
  BY DivisionIsNatural DEF HeirCap
<1>2. \A cap \in Nat, share \in Nat : BaseCap(cap, share) \in Nat
  BY DivisionIsNatural DEF BaseCap
<1> QED
  BY <1>1, <1>2

RatioIsNatural == SpilloverNum \in Nat /\ SpilloverDen \in Nat \ {0}

(* Nor is the ceiling of a branch, in any governance mode.                 *)
LEMMA CeilingIsNatural ==
  ASSUME RatioIsNatural, NEW m \in GovernanceMode, NEW cap \in Nat,
         NEW share \in Nat
  PROVE  BranchCeiling(m, cap, share) \in Nat
<1>1. BaseCap(cap, share) \in Nat
  BY CapsAreNatural
<1>2. BaseCap(cap, share) * SpilloverNum \in Nat
  BY <1>1 DEF RatioIsNatural
<1>3. (BaseCap(cap, share) * SpilloverNum) \div SpilloverDen \in Nat
  BY <1>2, DivisionIsNatural DEF RatioIsNatural
<1> QED
  BY <1>1, <1>3 DEF BranchCeiling, GovernanceMode

-----------------------------------------------------------------------------
(* The parts of AnnualSettlement, named.                                   *)

ActiveOf(r) == {h \in DOMAIN r.state : r.state[h] = "ACTIVE"}
MembersOf(r, b) == {h \in ActiveOf(r) : r.branch_index[h] = b}

BasePaid(r, cap) ==
  [h \in DOMAIN r.state |->
     IF h \in ActiveOf(r)
     THEN Lesser(r.claim[h], HeirCap(BaseCap(cap, r.share[r.branch_index[h]]),
                                     r.count[r.branch_index[h]]))
     ELSE r.base[h]]

(* The grant to heir h when g is what the heirs before it were granted.    *)
DemandOf(r, cap, h) == r.claim[h] - BasePaid(r, cap)[h]

RoomOf(r, cap, m, g, h) ==
  BranchCeiling(m, cap, r.share[r.branch_index[h]])
    - Total(BasePaid(r, cap), MembersOf(r, r.branch_index[h]))
    - Total(g, {k \in MembersOf(r, r.branch_index[h]) : k < h})

SurplusOf(r, cap, g, h) ==
  cap - Total(BasePaid(r, cap), ActiveOf(r))
    - Total(g, {k \in ActiveOf(r) : k < h})

GrantTo(r, cap, m, g, h) ==
  IF m = "HYBRID_SPILLOVER"
  THEN Granted(DemandOf(r, cap, h), RoomOf(r, cap, m, g, h),
               SurplusOf(r, cap, g, h))
  ELSE 0

Grants(r, cap, m) ==
  CHOOSE g : g = [h \in ActiveOf(r) |-> GrantTo(r, cap, m, g, h)]

(* The rules with their local names replaced by operators.                 *)
LEMMA RulesSpelledOut ==
  ASSUME NEW r, NEW cap, NEW m
  PROVE  AnnualSettlement(r, cap, m) =
    IF cap <= 0
    THEN [base |-> r.base, spillover |-> r.spillover,
          drawn |-> [b \in DOMAIN r.share |-> 0], total |-> 0]
    ELSE [base |-> BasePaid(r, cap),
          spillover |-> [h \in DOMAIN r.state |->
                           IF h \in ActiveOf(r) THEN Grants(r, cap, m)[h]
                           ELSE r.spillover[h]],
          drawn |-> [b \in DOMAIN r.share |->
                       Total(BasePaid(r, cap), MembersOf(r, b))
                         + Total(Grants(r, cap, m), MembersOf(r, b))],
          total |-> Total(BasePaid(r, cap), ActiveOf(r))
                      + Total(Grants(r, cap, m), ActiveOf(r))]
BY DEF AnnualSettlement, BasePaid, GrantTo, DemandOf, RoomOf, SurplusOf, Grants,
       ActiveOf, MembersOf

(* The registries the rules are proved for: heirs numbered from 1.         *)
WellFormed(r) ==
  /\ \E n \in Nat : DOMAIN r.state = 1 .. n
  /\ \A h \in DOMAIN r.state :
       r.claim[h] \in Nat /\ r.branch_index[h] \in DOMAIN r.share
  /\ \A b \in DOMAIN r.share : r.share[b] \in Nat /\ r.count[b] \in Nat
  /\ r.base \in [DOMAIN r.state -> Nat]
  /\ r.spillover \in [DOMAIN r.state -> Nat]

(* The heirs of a registry are finitely many and numbered.                 *)
LEMMA HeirsAreFinite ==
  ASSUME NEW r, WellFormed(r)
  PROVE  /\ IsFiniteSet(DOMAIN r.state) /\ DOMAIN r.state \subseteq Nat
         /\ IsFiniteSet(ActiveOf(r)) /\ ActiveOf(r) \subseteq DOMAIN r.state
         /\ \A S \in SUBSET ActiveOf(r) : IsFiniteSet(S)
<1>1. PICK n \in Nat : DOMAIN r.state = 1 .. n
  BY DEF WellFormed
<1>2. IsFiniteSet(DOMAIN r.state) /\ DOMAIN r.state \subseteq Nat
  BY <1>1, FS_Interval
<1>3. ActiveOf(r) \subseteq DOMAIN r.state
  BY DEF ActiveOf
<1> QED
  BY <1>2, <1>3, FS_Subset

-----------------------------------------------------------------------------
(* A grant depends on the grants to earlier heirs only.                    *)
LEMMA EarlierGrantsDecide ==
  ASSUME NEW r, WellFormed(r), NEW cap, NEW m, NEW f, NEW g,
         NEW h \in ActiveOf(r), \A k \in ActiveOf(r) : k < h => f[k] = g[k]
  PROVE  GrantTo(r, cap, m, f, h) = GrantTo(r, cap, m, g, h)
<1> DEFINE B == {k \in MembersOf(r, r.branch_index[h]) : k < h}
           A == {k \in ActiveOf(r) : k < h}
<1>1. IsFiniteSet(A) /\ IsFiniteSet(B)
  BY HeirsAreFinite DEF MembersOf
<1>2. \A k \in A : f[k] = g[k]
  OBVIOUS
<1>3. \A k \in B : f[k] = g[k]
  BY DEF MembersOf
<1> HIDE DEF A, B
<1>4. Total(f, A) = Total(g, A) /\ Total(f, B) = Total(g, B)
  BY <1>1, <1>2, <1>3, TotalAgree
<1> QED
  BY <1>4 DEF GrantTo, RoomOf, SurplusOf, A, B

(* The recursive definition of the grants has a solution.                  *)
LEMMA GrantsExist ==
  ASSUME NEW r, WellFormed(r), NEW cap, NEW m
  PROVE  \E g : g = [h \in ActiveOf(r) |-> GrantTo(r, cap, m, g, h)]
<1> DEFINE L == {n \in Nat : \E g : \A h \in ActiveOf(r) :
                               h <= n => g[h] = GrantTo(r, cap, m, g, h)}
<1>0. PICK last \in Nat : DOMAIN r.state = 1 .. last
  BY DEF WellFormed
<1>1. \A h \in ActiveOf(r) : h \in Nat /\ 1 <= h /\ h <= last
  BY <1>0, HeirsAreFinite
<1>2. 0 \in L
  BY <1>1
<1>3. ASSUME NEW n \in Nat, n \in L PROVE n + 1 \in L
  <2>1. PICK g : \A h \in ActiveOf(r) :
                   h <= n => g[h] = GrantTo(r, cap, m, g, h)
    BY <1>3
  <2> DEFINE f == [h \in ActiveOf(r) |-> GrantTo(r, cap, m, g, h)]
  <2>2. \A h \in ActiveOf(r) : h <= n => f[h] = g[h]
    BY <2>1
  <2>3. ASSUME NEW h \in ActiveOf(r), h <= n + 1
        PROVE  f[h] = GrantTo(r, cap, m, f, h)
    <3>1. f[h] = GrantTo(r, cap, m, g, h)
      OBVIOUS
    <3> HIDE DEF f
    <3>2. \A k \in ActiveOf(r) : k < h => f[k] = g[k]
      BY <1>1, <2>2, <2>3
    <3> QED
      BY <3>1, <3>2, EarlierGrantsDecide
  <2>4. \E d : \A h \in ActiveOf(r) :
                 h <= n + 1 => d[h] = GrantTo(r, cap, m, d, h)
    <3> HIDE DEF f
    <3> QED BY <2>3
  <2> QED
    BY <2>4
<1>4. Nat \subseteq L
  <2> HIDE DEF L
  <2> QED BY <1>2, <1>3, NatSet
<1>5. PICK g : \A h \in ActiveOf(r) : g[h] = GrantTo(r, cap, m, g, h)
  BY <1>1, <1>4
<1> DEFINE f == [h \in ActiveOf(r) |-> g[h]]
<1>6. ASSUME NEW h \in ActiveOf(r)
      PROVE  GrantTo(r, cap, m, g, h) = GrantTo(r, cap, m, f, h)
  <2>1. \A k \in ActiveOf(r) : f[k] = g[k]
    OBVIOUS
  <2> HIDE DEF f
  <2> QED BY <2>1, EarlierGrantsDecide
<1>7. f = [h \in ActiveOf(r) |-> GrantTo(r, cap, m, f, h)]
  <2>1. f = [h \in ActiveOf(r) |-> GrantTo(r, cap, m, g, h)]
    BY <1>5
  <2> HIDE DEF f
  <2> QED BY <1>6, <2>1
<1> QED
  <2> HIDE DEF f
  <2> WITNESS f
  <2> QED BY <1>7

(* So the grants obey the equation that defines them.                      *)
LEMMA GrantsUnfold ==
  ASSUME NEW r, WellFormed(r), NEW cap, NEW m
  PROVE  /\ DOMAIN Grants(r, cap, m) = ActiveOf(r)
         /\ \A h \in ActiveOf(r) :
              Grants(r, cap, m)[h] = GrantTo(r, cap, m, Grants(r, cap, m), h)
<1> DEFINE P(g) == g = [h \in ActiveOf(r) |-> GrantTo(r, cap, m, g, h)]
           f == Grants(r, cap, m)
<1>1. \E g : P(g)
  BY GrantsExist
<1>2. f = CHOOSE g : P(g)
  BY DEF Grants
<1> HIDE DEF P
<1>3. P(CHOOSE g : P(g))
  BY <1>1
<1> HIDE DEF f
<1>4. f = [h \in ActiveOf(r) |-> GrantTo(r, cap, m, f, h)]
  BY <1>2, <1>3 DEF P
<1>5. /\ DOMAIN f = ActiveOf(r)
      /\ \A h \in ActiveOf(r) : f[h] = GrantTo(r, cap, m, f, h)
  BY <1>4
<1> QED
  BY <1>5 DEF f

(* Nothing else solves the recursive definition.                           *)
LEMMA GrantsUnique ==
  ASSUME NEW r, WellFormed(r), NEW cap, NEW m, NEW f,
         \A h \in ActiveOf(r) : f[h] = GrantTo(r, cap, m, f, h)
  PROVE  \A h \in ActiveOf(r) : f[h] = Grants(r, cap, m)[h]
<1> DEFINE g == Grants(r, cap, m)
           L == {n \in Nat : n \in ActiveOf(r) => f[n] = g[n]}
<1>1. \A h \in ActiveOf(r) : h \in Nat
  BY HeirsAreFinite
<1>2. \A h \in ActiveOf(r) : g[h] = GrantTo(r, cap, m, g, h)
  BY GrantsUnfold
<1> HIDE DEF g
<1>3. ASSUME NEW n \in Nat, \A k \in 0 .. n - 1 : k \in L PROVE n \in L
  <2> SUFFICES ASSUME n \in ActiveOf(r) PROVE f[n] = g[n]
    OBVIOUS
  <2>1. \A k \in ActiveOf(r) : k < n => f[k] = g[k]
    BY <1>1, <1>3
  <2> QED
    BY <1>2, <2>1, EarlierGrantsDecide
<1>4. Nat \subseteq L
  <2> HIDE DEF L
  <2> QED BY <1>3, NatSetStrong
<1> QED
  BY <1>1, <1>4 DEF g

(* A base payout is never negative, and within the claim of its heir.      *)
LEMMA BasePaidBounds ==
  ASSUME NEW r, WellFormed(r), NEW cap \in Nat
  PROVE  /\ BasePaid(r, cap) \in [DOMAIN r.state -> Nat]
         /\ \A h \in ActiveOf(r) : BasePaid(r, cap)[h] <= r.claim[h]
<1>1. ASSUME NEW h \in ActiveOf(r)
      PROVE  BasePaid(r, cap)[h] \in Nat /\ BasePaid(r, cap)[h] <= r.claim[h]
  <2> DEFINE b == r.branch_index[h]
             part == HeirCap(BaseCap(cap, r.share[b]), r.count[b])
  <2>1. h \in DOMAIN r.state /\ r.claim[h] \in Nat /\ b \in DOMAIN r.share
    BY HeirsAreFinite DEF WellFormed
  <2>2. r.share[b] \in Nat /\ r.count[b] \in Nat
    BY <2>1 DEF WellFormed
  <2>3. part \in Nat
    BY <2>2, CapsAreNatural
  <2>4. BasePaid(r, cap)[h] = Lesser(r.claim[h], part)
    BY <2>1 DEF BasePaid
  <2> HIDE DEF part
  <2> QED
    BY <2>1, <2>3, <2>4 DEF Lesser
<1>2. ASSUME NEW h \in DOMAIN r.state, h \notin ActiveOf(r)
      PROVE  BasePaid(r, cap)[h] \in Nat
  BY <1>2 DEF BasePaid, WellFormed
<1>3. BasePaid(r, cap) = [h \in DOMAIN r.state |-> BasePaid(r, cap)[h]]
  BY DEF BasePaid
<1> QED
  BY <1>1, <1>2, <1>3

(* No grant is negative, and base payout and grant stay within the claim.  *)
LEMMA GrantsBounds ==
  ASSUME RatioIsNatural, NEW r, WellFormed(r), NEW cap \in Nat,
         NEW m \in GovernanceMode, NEW h \in ActiveOf(r)
  PROVE  /\ Grants(r, cap, m)[h] \in Nat
         /\ BasePaid(r, cap)[h] + Grants(r, cap, m)[h] <= r.claim[h]
<1> DEFINE g == Grants(r, cap, m)
           L == {n \in Nat : n \in ActiveOf(r) =>
                   g[n] \in Nat /\ BasePaid(r, cap)[n] + g[n] <= r.claim[n]}
<1>1. \A k \in ActiveOf(r) : k \in Nat
  BY HeirsAreFinite
<1>2. \A k \in ActiveOf(r) : g[k] = GrantTo(r, cap, m, g, k)
  BY GrantsUnfold
<1> HIDE DEF g
<1>3. ASSUME NEW n \in Nat, \A k \in 0 .. n - 1 : k \in L PROVE n \in L
  <2> SUFFICES ASSUME n \in ActiveOf(r)
               PROVE  g[n] \in Nat /\ BasePaid(r, cap)[n] + g[n] <= r.claim[n]
    OBVIOUS
  <2>1. \A k \in ActiveOf(r) : k < n => g[k] \in Int
    BY <1>1, <1>3
  <2>2. /\ n \in DOMAIN r.state /\ r.claim[n] \in Nat
        /\ r.branch_index[n] \in DOMAIN r.share
        /\ r.share[r.branch_index[n]] \in Nat
    BY HeirsAreFinite DEF WellFormed
  <2>3. \A k \in DOMAIN r.state : BasePaid(r, cap)[k] \in Nat
    BY BasePaidBounds
  <2>4. BasePaid(r, cap)[n] <= r.claim[n]
    BY BasePaidBounds
  <2> DEFINE A == {k \in ActiveOf(r) : k < n}
             M == MembersOf(r, r.branch_index[n])
             B == {k \in M : k < n}
  <2>5. /\ IsFiniteSet(A) /\ IsFiniteSet(B) /\ IsFiniteSet(M)
        /\ M \subseteq ActiveOf(r) /\ B \subseteq A
    BY HeirsAreFinite DEF MembersOf
  <2>6. \A k \in A : g[k] \in Int
    BY <2>1
  <2>7. ActiveOf(r) \subseteq DOMAIN r.state /\ IsFiniteSet(ActiveOf(r))
    BY HeirsAreFinite
  <2>8. \A k \in B : g[k] \in Int
    BY <2>5, <2>6
  <2> HIDE DEF A, B, M
  <2>9. /\ Total(g, A) \in Int /\ Total(g, B) \in Int
        /\ Total(BasePaid(r, cap), M) \in Int
        /\ Total(BasePaid(r, cap), ActiveOf(r)) \in Int
    <3>1. Total(g, A) \in Int /\ Total(g, B) \in Int
      BY <2>5, <2>6, <2>8, TotalType
    <3>2. \A k \in ActiveOf(r) : BasePaid(r, cap)[k] \in Int
      BY <2>3, <2>7
    <3>3. Total(BasePaid(r, cap), ActiveOf(r)) \in Int
      BY <2>7, <3>2, TotalType
    <3>4. \A k \in M : BasePaid(r, cap)[k] \in Int
      BY <2>5, <3>2
    <3>5. Total(BasePaid(r, cap), M) \in Int
      BY <2>5, <3>4, TotalType
    <3> QED BY <3>1, <3>3, <3>5
  <2>10. BranchCeiling(m, cap, r.share[r.branch_index[n]]) \in Nat
    BY <2>2, CeilingIsNatural
  <2>11. /\ DemandOf(r, cap, n) \in Nat
         /\ RoomOf(r, cap, m, g, n) \in Int
         /\ SurplusOf(r, cap, g, n) \in Int
    BY <2>2, <2>3, <2>4, <2>9, <2>10
    DEF DemandOf, RoomOf, SurplusOf, A, B, M
  <2>12. g[n] = GrantTo(r, cap, m, g, n)
    BY <1>2
  <2>13. g[n] \in Nat /\ g[n] <= DemandOf(r, cap, n)
    <3> DEFINE d == DemandOf(r, cap, n)
               room == RoomOf(r, cap, m, g, n)
               surplus == SurplusOf(r, cap, g, n)
    <3>1. g[n] = IF m = "HYBRID_SPILLOVER" THEN Granted(d, room, surplus) ELSE 0
      BY <2>12 DEF GrantTo
    <3>2. d \in Nat /\ room \in Int /\ surplus \in Int
      BY <2>11
    <3> HIDE DEF d, room, surplus
    <3>3. /\ Granted(d, room, surplus) \in Nat
          /\ Granted(d, room, surplus) <= d
      BY <3>2 DEF Granted, Lesser
    <3>4. g[n] \in Nat /\ g[n] <= d
      BY <3>1, <3>2, <3>3
    <3> QED BY <3>4 DEF d
  <2> QED
    BY <2>2, <2>3, <2>4, <2>13 DEF DemandOf
<1>4. Nat \subseteq L
  <2> HIDE DEF L
  <2> QED BY <1>3, NatSetStrong
<1> QED
  BY <1>1, <1>4 DEF g

-----------------------------------------------------------------------------
(* What a settlement pays, for any registry, cap and mode: no payout is    *)
(* negative, no active heir gets more than its claim, and the total is     *)
(* what the heirs got if those that are not active hold nothing.           *)
THEOREM SettlementPays ==
  ASSUME RatioIsNatural, NEW r, WellFormed(r), NEW cap \in Int,
         NEW m \in GovernanceMode
  PROVE  LET books == AnnualSettlement(r, cap, m)
         IN  /\ books.base \in [DOMAIN r.state -> Nat]
             /\ books.spillover \in [DOMAIN r.state -> Nat]
             /\ books.total \in Nat
             /\ \A h \in DOMAIN r.state \ ActiveOf(r) :
                  /\ books.base[h] = r.base[h]
                  /\ books.spillover[h] = r.spillover[h]
             /\ cap > 0 => \A h \in ActiveOf(r) :
                             books.base[h] + books.spillover[h] <= r.claim[h]
             /\ cap <= 0 => books.total = 0
             /\ cap > 0 /\ (\A h \in DOMAIN r.state \ ActiveOf(r) :
                              r.base[h] = 0 /\ r.spillover[h] = 0)
                  => books.total = Total(books.base, DOMAIN r.state)
                                     + Total(books.spillover, DOMAIN r.state)
<1> DEFINE books == AnnualSettlement(r, cap, m)
           H == DOMAIN r.state
<1>1. CASE cap <= 0
  <2>1. books.base = r.base /\ books.spillover = r.spillover /\ books.total = 0
    BY <1>1, RulesSpelledOut
  <2> HIDE DEF books
  <2>2. QED
    BY <1>1, <2>1 DEF WellFormed, books
<1>2. CASE ~(cap <= 0)
  <2> DEFINE base == BasePaid(r, cap)
             g == Grants(r, cap, m)
             spill == [h \in H |-> IF h \in ActiveOf(r) THEN g[h]
                                   ELSE r.spillover[h]]
  <2>1. /\ books.base = base /\ books.spillover = spill
        /\ books.total = Total(base, ActiveOf(r)) + Total(g, ActiveOf(r))
    BY <1>2, RulesSpelledOut
  <2>2. cap \in Nat /\ cap > 0
    BY <1>2
  <2>3. base \in [H -> Nat] /\ \A h \in H \ ActiveOf(r) : base[h] = r.base[h]
    <3>1. \A h \in H \ ActiveOf(r) : base[h] = r.base[h]
      BY DEF BasePaid
    <3> QED
      BY <2>2, <3>1, BasePaidBounds
  <2>4. \A h \in ActiveOf(r) : g[h] \in Nat /\ base[h] + g[h] <= r.claim[h]
    BY <2>2, GrantsBounds
  <2>5. /\ IsFiniteSet(H) /\ IsFiniteSet(ActiveOf(r))
        /\ ActiveOf(r) \subseteq H /\ IsFiniteSet(H \ ActiveOf(r))
    BY HeirsAreFinite, FS_Subset
  <2> HIDE DEF base, g
  <2>6. /\ spill \in [H -> Nat]
        /\ \A h \in ActiveOf(r) : spill[h] = g[h]
        /\ \A h \in H \ ActiveOf(r) : spill[h] = r.spillover[h]
    BY <2>4, <2>5 DEF WellFormed
  <2> HIDE DEF spill
  <2>7. Total(base, ActiveOf(r)) \in Nat
    <3>1. \A h \in ActiveOf(r) : base[h] \in Nat
      BY <2>3, <2>5
    <3> QED BY <2>5, <3>1, TotalNat
  <2>8. Total(g, ActiveOf(r)) \in Nat
    BY <2>4, <2>5, TotalNat
  <2>9. Total(spill, ActiveOf(r)) = Total(g, ActiveOf(r))
    BY <2>5, <2>6, TotalAgree
  <2>10. ASSUME \A h \in H \ ActiveOf(r) : r.base[h] = 0 /\ r.spillover[h] = 0
         PROVE  books.total = Total(base, H) + Total(spill, H)
    <3>1. Total(base, H \ ActiveOf(r)) = 0 /\ Total(spill, H \ ActiveOf(r)) = 0
      BY <2>3, <2>5, <2>6, <2>10, TotalZero
    <3>2. Total(base, H) = Total(base, ActiveOf(r)) + Total(base, H \ ActiveOf(r))
      BY <2>3, <2>5, TotalSplit
    <3>3. Total(spill, H) = Total(spill, ActiveOf(r)) + Total(spill, H \ ActiveOf(r))
      BY <2>5, <2>6, TotalSplit
    <3> HIDE DEF H, books
    <3> QED
      BY <2>1, <2>7, <2>8, <2>9, <3>1, <3>2, <3>3
  <2> HIDE DEF books
  <2> QED
    BY <1>2, <2>1, <2>3, <2>4, <2>6, <2>7, <2>8, <2>10 DEF books
<1> QED
  BY <1>1, <1>2

=============================================================================
