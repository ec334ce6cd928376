--------------------------- MODULE SettlementProofs ---------------------------
(***************************************************************************)
(* Proofs about Settlement for every registry, every sequence of caps and  *)
(* policies, and any number of heirs, branches and years, in three parts:  *)
(* what a settlement may pay an heir, a branch and the fund, and that the  *)
(* hybrid policy leaves nothing to grant; the sums it keeps; and that its  *)
(* loops compute the function AnnualSettlement of SettlementRules.         *)
(***************************************************************************)
EXTENDS Settlement, RulesTheorems

-----------------------------------------------------------------------------
(* The inductive invariant.                                                *)

(* What the two phases have paid the heirs they have visited.              *)
PayoutInv ==
  /\ \A h \in settled :
       last_approved_base_payout[h] <= annual_heir_raw_claims[h]
  /\ pc = "base" =>
       \A h \in settled : last_approved_spillover_payout[h] = 0
  /\ pc = "spillover" =>
       \A h \in left : last_approved_spillover_payout[h] = 0

(* Phase 3 runs under the hybrid policy only, and an heir it has visited   *)
(* has no demand, no room or no surplus left.                              *)
SpilloverInv ==
  pc = "spillover" =>
    /\ mode = "HYBRID_SPILLOVER"
    /\ \A h \in active_heir_index \ left :
         \/ RemainingDemand(h) <= last_approved_spillover_payout[h]
         \/ annual_branch_disbursed[branch_index[h]]
              >= Ceiling(branch_index[h])
         \/ surplus_pool = 0

(* In phase 1 every heir visited has drawn at most its part of the         *)
(* branch's cap.                                                           *)
Drawn(b) == Claimants(b) \ left

DrawnInv ==
  pc = "base" =>
    \A b \in Branches :
      annual_branch_disbursed[b]
        <= Cardinality(Drawn(b))
             * HeirCap(annual_branch_base_caps[b], active_heir_count[b])

IInv ==
  /\ TypeOK /\ PayoutInv /\ SpilloverInv /\ DrawnInv
  /\ PayoutWithinClaim /\ SpilloverWithinCap /\ GrantsWithinCeiling
  /\ BranchWithinEntitlement /\ NothingLeftToGrant

-----------------------------------------------------------------------------
(* Facts about the amounts.                                                *)

(* At most b parts of an even split into b parts never exceed the whole.   *)
LEMMA PartsWithinWhole ==
  ASSUME NEW a \in Nat, NEW b \in Nat \ {0}, NEW n \in Nat, n <= b
  PROVE  n * (a \div b) <= a
<1> DEFINE q == a \div b
<1>1. q \in Nat
  BY DivisionIsNatural
<1>2. b * q <= a
  OBVIOUS
<1> HIDE DEF q
<1>3. n * q <= b * q
  BY <1>1
<1> QED
  BY <1>1, <1>2, <1>3 DEF q

(* The spillover ratio is a natural number over a positive one.            *)
LEMMA Ratio == RatioIsNatural
BY SettlementAssumption DEF RatioIsNatural

(* A base payout is within the claim and the heir's part of the branch.    *)
LEMMA BasePayoutBounds ==
  ASSUME TypeOK, NEW h \in Heirs
  PROVE  LET b == branch_index[h]
         IN  /\ RawMatch(h) \in Nat
             /\ BasePayout(h) \in Nat
             /\ BasePayout(h) <= RawMatch(h)
             /\ BasePayout(h) <= HeirCap(annual_branch_base_caps[b],
                                         active_heir_count[b])
<1>1. branch_index[h] \in Branches
  BY DEF TypeOK
<1>2. HeirCap(annual_branch_base_caps[branch_index[h]],
              active_heir_count[branch_index[h]]) \in Nat
  BY <1>1, CapsAreNatural DEF TypeOK
<1>3. RawMatch(h) \in Nat
  BY SettlementAssumption DEF TypeOK, RawMatch
<1> QED
  BY <1>2, <1>3 DEF BasePayout, Lesser

(* A grant is positive only within the demand, the room and the surplus.   *)
LEMMA GrantBounds ==
  ASSUME TypeOK, NEW h \in Heirs, ~DemandMet(h), ~CeilingReached(branch_index[h])
  PROVE  LET b == branch_index[h]
         IN  /\ SpilloverGrant(h) \in Nat
             /\ SpilloverGrant(h) <= RemainingDemand(h)
             /\ annual_branch_disbursed[b] + SpilloverGrant(h) <= Ceiling(b)
             /\ SpilloverGrant(h) <= surplus_pool
             /\ \/ SpilloverGrant(h) = RemainingDemand(h)
                \/ annual_branch_disbursed[b] + SpilloverGrant(h) = Ceiling(b)
                \/ SpilloverGrant(h) = surplus_pool
<1> DEFINE b == branch_index[h]
<1>1. b \in Branches /\ annual_branch_disbursed[b] \in Nat
  BY DEF TypeOK
<1>2. Ceiling(b) \in Nat
  BY <1>1, Ratio, CeilingIsNatural DEF TypeOK, Ceiling
<1>3. RemainingDemand(h) \in Int /\ RemainingDemand(h) > 0
  BY DEF TypeOK, DemandMet, RemainingDemand
<1>4. /\ SpilloverRoom(b) = Ceiling(b) - annual_branch_disbursed[b]
      /\ ~(SpilloverRoom(b) <= 0)
  BY DEF CeilingReached, SpilloverRoom, Ceiling
<1> QED
  BY <1>1, <1>2, <1>3, <1>4 DEF SpilloverGrant, Lesser, TypeOK

-----------------------------------------------------------------------------
(* The invariant holds of any registry no call has touched yet.            *)
LEMMA InitIInv == Init => IInv
<1> SUFFICES ASSUME Init PROVE IInv
  OBVIOUS
<1>1. PICK r \in Registries :
        /\ state = r.state
        /\ annual_capital_contribution = r.contribution
        /\ branch_index = r.branch_index
        /\ virtual_share_percentage = r.share
        /\ active_heir_count = r.active_heir_count
  BY DEF Init
<1>2. TypeOK
  <2>1. r \in Registry
    BY <1>1, SettlementAssumption
  <2> QED
    BY <1>1, <2>1, SettlementAssumption DEF Init, TypeOK, Registry, GovernanceMode
<1>3. active_heir_index = {} /\ settled = {} /\ pc = "idle"
  BY DEF Init, settled
<1>4. BranchWithinEntitlement
  BY DEF Init, BranchWithinEntitlement
<1> QED
  BY <1>2, <1>3, <1>4
  DEF IInv, PayoutInv, SpilloverInv, DrawnInv, PayoutWithinClaim,
      SpilloverWithinCap, GrantsWithinCeiling, NothingLeftToGrant

(* The variables that the properties of the last settlement are about.     *)
books == <<branch_index, payouts, branches, scratch, call>>

(* The calls between settlements change nothing the books are about.       *)
LEMMA BooksKept ==
  ASSUME IInv, TypeOK', UNCHANGED books
  PROVE  IInv'
<1> USE DEF books, payouts, branches, scratch, call
<1>1. settled' = settled
  BY DEF settled
<1>2. PayoutInv' /\ PayoutWithinClaim'
  BY <1>1 DEF IInv, PayoutInv, PayoutWithinClaim, Payout
<1>3. SpilloverInv' /\ NothingLeftToGrant'
  BY DEF IInv, SpilloverInv, NothingLeftToGrant, RemainingDemand, Ceiling,
         BranchCeiling
<1>4. DrawnInv' /\ BranchWithinEntitlement'
  BY DEF IInv, DrawnInv, BranchWithinEntitlement, Drawn, Claimants, Covered,
         Ceiling, BranchCeiling
<1>5. SpilloverWithinCap' /\ GrantsWithinCeiling'
  BY <1>1 DEF IInv, SpilloverWithinCap, GrantsWithinCeiling, Ceiling,
              BranchCeiling
<1> QED
  BY <1>2, <1>3, <1>4, <1>5 DEF IInv

(* The heirs change between two calls only.                                *)
LEMMA ChangeStep ==
  ASSUME IInv, NEW h \in Heirs,
         ComeOfAge(h) \/ \E c \in Contributions : DepositCapital(h, c)
  PROVE  IInv'
<1>1. UNCHANGED books
  BY DEF ComeOfAge, DepositCapital, books
<1>2. TypeOK'
  <2>1. CASE ComeOfAge(h)
    BY <2>1, SettlementAssumption
    DEF IInv, TypeOK, ComeOfAge, HeirState, payouts, branches, scratch, call
  <2>2. ASSUME NEW c \in Contributions, DepositCapital(h, c)
        PROVE  TypeOK'
    BY <2>2, SettlementAssumption
    DEF IInv, TypeOK, DepositCapital, payouts, branches, scratch, call
  <2> QED
    BY <2>1, <2>2
<1> QED
  BY <1>1, <1>2, BooksKept

(* A call with no cap ends before it has touched anything.                 *)
LEMMA RefuseSettlementStep ==
  ASSUME IInv, NEW cap \in GlobalCaps, RefuseSettlement(cap)
  PROVE  IInv'
<1>1. UNCHANGED books
  BY DEF RefuseSettlement, heirs, books
<1>2. TypeOK'
  BY SettlementAssumption
  DEF IInv, TypeOK, RefuseSettlement, heirs, payouts, branches, scratch, call
<1> QED
  BY <1>1, <1>2, BooksKept

(* A call starts with clean books.                                         *)
LEMMA BeginSettlementStep ==
  ASSUME IInv, NEW cap \in GlobalCaps, NEW m \in GovernanceMode,
         BeginSettlement(cap, m)
  PROVE  IInv'
<1> USE DEF BeginSettlement, heirs, payouts, branches
<1>1. cap \in Nat
  BY SettlementAssumption
<1>2. TypeOK'
  <2>1. annual_branch_base_caps' \in [Branches -> Nat]
    BY <1>1, CapsAreNatural DEF IInv, TypeOK
  <2> QED
    BY <1>1, <2>1, SettlementAssumption DEF IInv, TypeOK
<1>3. settled' = {} /\ pc' = "base" /\ left' = active_heir_index'
  BY DEF settled
<1>4. PayoutInv' /\ PayoutWithinClaim' /\ SpilloverWithinCap'
        /\ GrantsWithinCeiling' /\ SpilloverInv' /\ NothingLeftToGrant'
  BY <1>3 DEF PayoutInv, PayoutWithinClaim, SpilloverWithinCap,
              GrantsWithinCeiling, SpilloverInv, NothingLeftToGrant
<1>5. ASSUME NEW b \in Branches
      PROVE  /\ annual_branch_disbursed'[b] = 0
             /\ annual_branch_base_caps'[b] \in Nat
             /\ active_heir_count'[b] \in Nat
             /\ Drawn(b)' = {}
  BY <1>2, <1>3 DEF TypeOK, Drawn, Claimants
<1>6. DrawnInv'
  <2>1. ASSUME NEW b \in Branches
        PROVE  annual_branch_disbursed'[b]
                 <= Cardinality(Drawn(b)')
                      * HeirCap(annual_branch_base_caps'[b],
                                active_heir_count'[b])
    <3>1. Cardinality(Drawn(b)') = 0
      BY <1>5, FS_EmptySet
    <3>2. HeirCap(annual_branch_base_caps'[b], active_heir_count'[b]) \in Nat
      BY <1>5, CapsAreNatural
    <3> QED
      BY <1>5, <3>1, <3>2
  <2> QED
    BY <2>1 DEF DrawnInv
<1>7. BranchWithinEntitlement'
  BY <1>5 DEF BranchWithinEntitlement
<1> QED
  BY <1>2, <1>4, <1>6, <1>7 DEF IInv

(* The bound of phase 1 on a branch's payouts implies its entitlement.     *)
LEMMA DrawnWithinShare ==
  ASSUME NEW b \in Branches, NEW H, NEW D \in SUBSET H, NEW count \in Nat,
         NEW cap \in Nat, NEW paid \in Nat, IsFiniteSet(H),
         Cardinality(H) <= count,
         paid <= Cardinality(D) * HeirCap(cap, count)
  PROVE  paid <= cap
<1>1. IsFiniteSet(D) /\ Cardinality(D) <= Cardinality(H)
  BY FS_Subset
<1>2. Cardinality(D) \in Nat /\ Cardinality(H) \in Nat
  BY <1>1, FS_CardinalityType
<1>3. CASE count = 0
  BY <1>1, <1>2, <1>3 DEF HeirCap
<1>4. CASE count # 0
  <2>1. Cardinality(D) * (cap \div count) <= cap
    BY <1>1, <1>2, <1>4, PartsWithinWhole
  <2> QED
    BY <1>2, <1>4, <2>1, DivisionIsNatural DEF HeirCap
<1> QED
  BY <1>3, <1>4

(* Phase 1 pays an heir within its caps and its claim.                     *)
LEMMA SettleBaseStep ==
  ASSUME IInv, NEW h \in Heirs, SettleBase(h)
  PROVE  IInv'
<1> DEFINE b == branch_index[h]
           pay == BasePayout(h)
<1>1. /\ TypeOK
      /\ pc = "base" /\ pc' = "base"
      /\ h \in left /\ left' = left \ {h}
      /\ annual_heir_raw_claims' =
           [annual_heir_raw_claims EXCEPT ![h] = RawMatch(h)]
      /\ last_approved_base_payout' =
           [last_approved_base_payout EXCEPT ![h] = pay]
      /\ last_approved_spillover_payout' =
           [last_approved_spillover_payout EXCEPT ![h] = 0]
      /\ annual_branch_disbursed' =
           [annual_branch_disbursed EXCEPT ![b] = @ + pay]
      /\ total_disbursed' = total_disbursed + pay
      /\ UNCHANGED <<heirs, branches, active_heir_index,
                     annual_branch_base_caps, last_settled_payout, mode,
                     global_cap, surplus_pool, years, changes>>
  BY DEF IInv, SettleBase, Upcoming, Disburse
<1>2. /\ RawMatch(h) \in Nat /\ pay \in Nat /\ pay <= RawMatch(h)
      /\ pay <= HeirCap(annual_branch_base_caps[b], active_heir_count[b])
      /\ b \in Branches
  BY <1>1, BasePayoutBounds DEF TypeOK
<1> HIDE DEF b, pay
<1>3. TypeOK'
  <2>1. total_disbursed' \in Nat /\ last_settled_payout' \in Nat
    BY <1>1, <1>2 DEF TypeOK
  <2>2. annual_branch_disbursed' \in [Branches -> Nat]
    BY <1>1, <1>2 DEF TypeOK
  <2>3. /\ last_approved_base_payout' \in [Heirs -> Nat]
        /\ last_approved_spillover_payout' \in [Heirs -> Nat]
        /\ annual_heir_raw_claims' \in [Heirs -> Nat]
    BY <1>1, <1>2 DEF TypeOK
  <2>4. left' \in SUBSET active_heir_index'
    BY <1>1 DEF TypeOK
  <2> QED
    BY <1>1, <2>1, <2>2, <2>3, <2>4 DEF TypeOK, heirs, branches
<1>4. settled = active_heir_index \ left /\ settled' = settled \cup {h}
  BY <1>1 DEF settled, TypeOK
<1>5. \A k \in settled' :
        /\ last_approved_base_payout'[k] <= annual_heir_raw_claims'[k]
        /\ last_approved_spillover_payout'[k] = 0
        /\ k \in Heirs
  <2> TAKE k \in settled'
  <2>1. CASE k = h
    BY <1>1, <1>2, <2>1 DEF TypeOK
  <2>2. CASE k # h
    BY <1>1, <1>4, <2>2 DEF IInv, PayoutInv, TypeOK
  <2> QED
    BY <2>1, <2>2
<1>6. PayoutInv'
  BY <1>1, <1>5 DEF PayoutInv
<1>7. PayoutWithinClaim'
  BY <1>3, <1>5 DEF PayoutWithinClaim, Payout, TypeOK
<1>8. SpilloverInv' /\ SpilloverWithinCap' /\ NothingLeftToGrant'
        /\ GrantsWithinCeiling'
  BY <1>1, <1>5 DEF SpilloverInv, SpilloverWithinCap, NothingLeftToGrant,
                    GrantsWithinCeiling
<1>9. ASSUME NEW c \in Branches
      PROVE  annual_branch_disbursed'[c]
               <= Cardinality(Drawn(c)')
                    * HeirCap(annual_branch_base_caps'[c],
                              active_heir_count'[c])
  <2> DEFINE q == HeirCap(annual_branch_base_caps[c], active_heir_count[c])
  <2>1. IsFiniteSet(Drawn(c))
    <3>1. IsFiniteSet(Heirs)
      BY FS_Interval, SettlementAssumption DEF Heirs
    <3> QED
      BY <1>1, <3>1, FS_Subset DEF Drawn, Claimants, TypeOK
  <2>2. Cardinality(Drawn(c)) \in Nat
    BY <2>1, FS_CardinalityType
  <2>3. annual_branch_disbursed[c] <= Cardinality(Drawn(c)) * q
    BY <1>1 DEF IInv, DrawnInv
  <2>4. q \in Nat /\ annual_branch_disbursed[c] \in Nat
    BY <1>1, CapsAreNatural DEF TypeOK
  <2>5. HeirCap(annual_branch_base_caps'[c], active_heir_count'[c]) = q
    BY <1>1 DEF branches
  <2> HIDE DEF q
  <2>6. CASE c = b
    <3>1. Drawn(c)' = Drawn(c) \cup {h} /\ h \notin Drawn(c)
      BY <1>1, <2>6 DEF Drawn, Claimants, TypeOK, heirs, b
    <3>2. Cardinality(Drawn(c)') = Cardinality(Drawn(c)) + 1
      BY <2>1, <3>1, FS_AddElement
    <3>3. annual_branch_disbursed'[c] = annual_branch_disbursed[c] + pay
      BY <1>1, <2>6 DEF TypeOK
    <3>4. pay <= q
      BY <1>2, <2>6 DEF q
    <3>5. (Cardinality(Drawn(c)) + 1) * q = Cardinality(Drawn(c)) * q + q
      BY <2>2, <2>4
    <3>6. Cardinality(Drawn(c)) * q \in Nat
      BY <2>2, <2>4
    <3> QED
      BY <1>2, <2>3, <2>4, <2>5, <3>2, <3>3, <3>4, <3>5, <3>6
  <2>7. CASE c # b
    <3>1. Drawn(c)' = Drawn(c)
      BY <1>1, <2>7 DEF Drawn, Claimants, TypeOK, heirs, b
    <3>2. annual_branch_disbursed'[c] = annual_branch_disbursed[c]
      BY <1>1, <1>2, <2>7 DEF TypeOK
    <3> QED
      BY <2>3, <2>5, <3>1, <3>2
  <2> QED
    BY <2>6, <2>7
<1>10. DrawnInv'
  BY <1>9 DEF DrawnInv
<1>11. BranchWithinEntitlement'
  <2>1. ASSUME NEW c \in Branches, Covered(c)'
        PROVE  annual_branch_disbursed'[c] <= annual_branch_base_caps'[c]
    <3>1. Claimants(c)' \subseteq Heirs /\ Drawn(c)' \subseteq Claimants(c)'
      BY <1>3 DEF Drawn, Claimants, TypeOK
    <3>2. IsFiniteSet(Claimants(c)')
      <4>1. IsFiniteSet(Heirs)
        BY FS_Interval, SettlementAssumption DEF Heirs
      <4> QED
        BY <3>1, <4>1, FS_Subset
    <3>3. Cardinality(Claimants(c)') <= active_heir_count'[c]
      BY <2>1 DEF Covered
    <3>4. /\ active_heir_count'[c] \in Nat
          /\ annual_branch_base_caps'[c] \in Nat
          /\ annual_branch_disbursed'[c] \in Nat
      BY <1>3 DEF TypeOK
    <3> QED
      BY <1>9, <3>1, <3>2, <3>3, <3>4, DrawnWithinShare
  <2> QED
    BY <2>1 DEF BranchWithinEntitlement
<1> QED
  BY <1>3, <1>6, <1>7, <1>8, <1>10, <1>11 DEF IInv

(* The steps between the phases move no money.                             *)
LEMMA PhaseStep ==
  ASSUME IInv, OpenSpillover \/ FinishBase \/ FinishSpillover
  PROVE  IInv'
<1>1. /\ TypeOK
      /\ UNCHANGED <<state, annual_capital_contribution, branch_index,
                     last_approved_base_payout, last_approved_spillover_payout,
                     virtual_share_percentage, active_heir_count,
                     active_heir_index, annual_branch_base_caps,
                     annual_branch_disbursed, annual_heir_raw_claims, mode,
                     global_cap, total_disbursed, years, changes>>
      /\ left = {} /\ pc # "idle"
  BY DEF IInv, OpenSpillover, FinishBase, FinishSpillover, Settled, heirs,
         payouts, branches, scratch
<1>2. settled = active_heir_index /\ settled' = active_heir_index /\ pc' # "base"
  BY <1>1 DEF settled, OpenSpillover, FinishBase, FinishSpillover, Settled,
              TypeOK
<1>3. /\ \A b \in Branches : Ceiling(b)' = Ceiling(b)
      /\ \A h \in Heirs : RemainingDemand(h)' = RemainingDemand(h)
      /\ \A h \in Heirs : RemainingDemand(h) \in Int
  BY <1>1 DEF Ceiling, BranchCeiling, RemainingDemand, TypeOK
<1>4. TypeOK'
  <2>1. surplus_pool' \in Nat
    BY <1>1 DEF OpenSpillover, FinishBase, FinishSpillover, Settled, TypeOK,
                HasSurplus
  <2>2. pc' \in {"idle", "spillover"} /\ left' \in SUBSET active_heir_index
    BY <1>1 DEF OpenSpillover, FinishBase, FinishSpillover, Settled, TypeOK
  <2>3. last_settled_payout' \in Nat
    BY <1>1 DEF OpenSpillover, FinishBase, FinishSpillover, Settled, TypeOK
  <2> QED
    BY <1>1, <2>1, <2>2, <2>3 DEF TypeOK
<1>5. PayoutInv'
  <2>1. \A h \in settled' :
          last_approved_base_payout'[h] <= annual_heir_raw_claims'[h]
    BY <1>1, <1>2 DEF IInv, PayoutInv
  <2>2. pc' = "spillover" => pc = "base"
    BY DEF OpenSpillover, FinishBase, FinishSpillover, Settled
  <2>3. pc' = "spillover" =>
          \A h \in left' : last_approved_spillover_payout'[h] = 0
    BY <1>1, <1>2, <1>4, <2>2 DEF IInv, PayoutInv, TypeOK
  <2> QED
    BY <1>2, <2>1, <2>3 DEF PayoutInv
<1>6. SpilloverInv'
  BY DEF OpenSpillover, FinishBase, FinishSpillover, Settled, SpilloverInv,
         HasSurplus, scratch
<1>7. DrawnInv'
  BY <1>2 DEF DrawnInv
<1>8. PayoutWithinClaim'
  BY <1>1, <1>2 DEF IInv, PayoutWithinClaim, Payout
<1>9. SpilloverWithinCap'
  <2>1. pc' = "spillover" => total_disbursed' + surplus_pool' = global_cap'
    BY <1>1 DEF OpenSpillover, FinishBase, FinishSpillover, Settled, TypeOK
  <2>2. CASE pc = "base"
    BY <1>1, <1>2, <2>1, <2>2 DEF IInv, PayoutInv, SpilloverWithinCap, TypeOK
  <2>3. CASE pc = "spillover"
    BY <1>1, <1>2, <2>1, <2>3 DEF IInv, SpilloverWithinCap
  <2> QED
    BY <1>1, <2>2, <2>3 DEF TypeOK
<1>10. GrantsWithinCeiling'
  BY <1>1, <1>2, <1>3 DEF IInv, GrantsWithinCeiling, TypeOK
<1>11. BranchWithinEntitlement'
  BY <1>1, <1>2, <1>3
  DEF IInv, BranchWithinEntitlement, Covered, Claimants
<1>12. NothingLeftToGrant'
  <2>1. CASE OpenSpillover
    BY <2>1 DEF OpenSpillover, NothingLeftToGrant
  <2>2. CASE FinishBase
    BY <1>1, <2>2 DEF FinishBase, HasSurplus, NothingLeftToGrant, TypeOK
  <2>3. CASE FinishSpillover
    <3>1. ASSUME NEW h \in active_heir_index
          PROVE  \/ RemainingDemand(h) = last_approved_spillover_payout[h]
                 \/ annual_branch_disbursed[branch_index[h]]
                      >= Ceiling(branch_index[h])
                 \/ total_disbursed >= global_cap
      <4>1. h \in Heirs /\ h \in settled /\ pc = "spillover"
        BY <1>1, <1>2, <2>3 DEF TypeOK, FinishSpillover
      <4>2. last_approved_spillover_payout[h] <= RemainingDemand(h)
        BY <1>1, <4>1
        DEF IInv, PayoutWithinClaim, Payout, RemainingDemand, TypeOK
      <4>3. CASE RemainingDemand(h) <= last_approved_spillover_payout[h]
        BY <1>1, <1>3, <4>1, <4>2, <4>3 DEF TypeOK
      <4>4. CASE surplus_pool = 0
        BY <1>1, <4>1, <4>4 DEF IInv, SpilloverWithinCap, TypeOK
      <4> QED
        BY <1>1, <4>1, <4>3, <4>4 DEF IInv, SpilloverInv
    <3> QED
      BY <1>1, <1>3, <3>1 DEF NothingLeftToGrant, TypeOK
  <2> QED
    BY <2>1, <2>2, <2>3
<1> QED
  BY <1>4, <1>5, <1>6, <1>7, <1>8, <1>9, <1>10, <1>11, <1>12 DEF IInv

(* Phase 3 leaves the books alone when it passes an heir over.             *)
LEMMA PassOverStep ==
  ASSUME IInv, NEW h \in Heirs, PassOver(h)
  PROVE  IInv'
<1>1. /\ TypeOK
      /\ pc = "spillover" /\ pc' = "spillover"
      /\ h \in left /\ left' = left \ {h}
      /\ DemandMet(h) \/ CeilingReached(branch_index[h])
      /\ UNCHANGED <<state, annual_capital_contribution, branch_index,
                     last_approved_base_payout, last_approved_spillover_payout,
                     virtual_share_percentage, active_heir_count,
                     active_heir_index, annual_branch_base_caps,
                     annual_branch_disbursed, annual_heir_raw_claims,
                     last_settled_payout, mode, global_cap, total_disbursed,
                     surplus_pool, years, changes>>
  BY DEF IInv, PassOver, Upcoming, heirs, payouts, branches, scratch
<1>2. settled' = settled
  BY <1>1 DEF settled
<1>3. /\ \A b \in Branches : Ceiling(b)' = Ceiling(b)
      /\ \A k \in Heirs : RemainingDemand(k)' = RemainingDemand(k)
  BY <1>1 DEF Ceiling, BranchCeiling, RemainingDemand, TypeOK
<1>4. TypeOK'
  BY <1>1 DEF TypeOK
<1>5. PayoutInv'
  BY <1>1, <1>2 DEF IInv, PayoutInv
<1>6. SpilloverInv'
  <2>1. \/ RemainingDemand(h) <= last_approved_spillover_payout[h]
        \/ annual_branch_disbursed[branch_index[h]] >= Ceiling(branch_index[h])
    <3>1. last_approved_spillover_payout[h] = 0
      BY <1>1 DEF IInv, PayoutInv
    <3>2. branch_index[h] \in Branches
      BY <1>1 DEF TypeOK
    <3>3. Ceiling(branch_index[h]) \in Nat
      BY <1>1, <3>2, Ratio, CeilingIsNatural DEF TypeOK, Ceiling
    <3>4. CASE DemandMet(h)
      BY <3>1, <3>4 DEF DemandMet
    <3>5. CASE CeilingReached(branch_index[h])
      BY <1>1, <3>2, <3>3, <3>5
      DEF CeilingReached, SpilloverRoom, Ceiling, TypeOK
    <3> QED
      BY <1>1, <3>4, <3>5
  <2>2. \A k \in active_heir_index : k \in Heirs /\ branch_index[k] \in Branches
    BY <1>1 DEF TypeOK
  <2> QED
    BY <1>1, <1>3, <2>1, <2>2 DEF IInv, SpilloverInv
<1>7. DrawnInv' /\ NothingLeftToGrant'
  BY <1>1 DEF DrawnInv, NothingLeftToGrant
<1>8. PayoutWithinClaim' /\ SpilloverWithinCap'
  BY <1>1, <1>2 DEF IInv, PayoutWithinClaim, Payout, SpilloverWithinCap
<1>9. GrantsWithinCeiling'
  BY <1>1, <1>2, <1>3 DEF IInv, GrantsWithinCeiling, TypeOK, settled
<1>10. BranchWithinEntitlement'
  BY <1>1, <1>3 DEF IInv, BranchWithinEntitlement, Covered, Claimants
<1> QED
  BY <1>4, <1>5, <1>6, <1>7, <1>8, <1>9, <1>10 DEF IInv

(* Phase 3 pays an heir out of the surplus, within ceiling and claim.      *)
LEMMA GrantSpilloverStep ==
  ASSUME IInv, NEW h \in Heirs, GrantSpillover(h)
  PROVE  IInv'
<1> DEFINE b == branch_index[h]
           grant == SpilloverGrant(h)
<1>1. /\ TypeOK
      /\ pc = "spillover" /\ pc' = "spillover"
      /\ h \in left /\ left' = IF surplus_pool' <= 0 THEN {} ELSE left \ {h}
      /\ last_approved_spillover_payout' =
           [last_approved_spillover_payout EXCEPT ![h] = @ + grant]
      /\ annual_branch_disbursed' =
           [annual_branch_disbursed EXCEPT ![b] = @ + grant]
      /\ surplus_pool' = surplus_pool - grant
      /\ total_disbursed' = total_disbursed + grant
      /\ UNCHANGED <<state, annual_capital_contribution, branch_index,
                     last_approved_base_payout, virtual_share_percentage,
                     active_heir_count, active_heir_index,
                     annual_branch_base_caps, annual_heir_raw_claims,
                     last_settled_payout, mode, global_cap, years, changes>>
  BY DEF IInv, GrantSpillover, Upcoming, Disburse, heirs, branches
<1>2. /\ grant \in Nat /\ grant <= RemainingDemand(h)
      /\ annual_branch_disbursed[b] + grant <= Ceiling(b)
      /\ grant <= surplus_pool
      /\ \/ grant = RemainingDemand(h)
         \/ annual_branch_disbursed[b] + grant = Ceiling(b)
         \/ grant = surplus_pool
  BY <1>1, GrantBounds DEF GrantSpillover
<1>3. /\ b \in Branches
      /\ last_approved_spillover_payout[h] = 0
      /\ mode = "HYBRID_SPILLOVER"
      /\ total_disbursed + surplus_pool = global_cap
  BY <1>1 DEF IInv, TypeOK, PayoutInv, SpilloverInv, SpilloverWithinCap
<1>4. \A c \in Branches : Ceiling(c) \in Nat
  BY <1>1, Ratio, CeilingIsNatural DEF TypeOK, Ceiling
<1> HIDE DEF b, grant
<1>5. TypeOK'
  <2>1. surplus_pool' \in Nat /\ total_disbursed' \in Nat
    BY <1>1, <1>2 DEF TypeOK
  <2>2. annual_branch_disbursed' \in [Branches -> Nat]
    BY <1>1, <1>2, <1>3 DEF TypeOK
  <2>3. last_approved_spillover_payout' \in [Heirs -> Nat]
    BY <1>1, <1>2 DEF TypeOK
  <2>4. left' \in SUBSET active_heir_index
    BY <1>1 DEF TypeOK
  <2> QED
    BY <1>1, <2>1, <2>2, <2>3, <2>4 DEF TypeOK
<1>6. settled = active_heir_index /\ settled' = active_heir_index
  BY <1>1 DEF settled
<1>7. /\ \A c \in Branches : Ceiling(c)' = Ceiling(c)
      /\ \A k \in Heirs : RemainingDemand(k)' = RemainingDemand(k)
      /\ \A k \in Heirs : last_approved_spillover_payout'[k]
           = IF k = h THEN grant ELSE last_approved_spillover_payout[k]
      /\ \A c \in Branches : annual_branch_disbursed'[c]
           = IF c = b THEN annual_branch_disbursed[c] + grant
                      ELSE annual_branch_disbursed[c]
      /\ \A k \in active_heir_index : k \in Heirs /\ branch_index[k] \in Branches
  <2>1. \A c \in Branches : Ceiling(c)' = Ceiling(c)
    BY <1>1 DEF Ceiling, BranchCeiling
  <2>2. \A k \in Heirs : RemainingDemand(k)' = RemainingDemand(k)
    BY <1>1 DEF RemainingDemand
  <2>3. \A k \in Heirs : last_approved_spillover_payout'[k]
          = IF k = h THEN grant ELSE last_approved_spillover_payout[k]
    BY <1>1, <1>2, <1>3 DEF TypeOK
  <2>4. \A c \in Branches : annual_branch_disbursed'[c]
          = IF c = b THEN annual_branch_disbursed[c] + grant
                     ELSE annual_branch_disbursed[c]
    BY <1>1 DEF TypeOK
  <2> QED
    BY <1>1, <2>1, <2>2, <2>3, <2>4 DEF TypeOK
<1>8. PayoutInv'
  BY <1>1, <1>6, <1>7 DEF IInv, PayoutInv, TypeOK
<1>9. PayoutWithinClaim'
  <2> SUFFICES ASSUME NEW k \in active_heir_index
               PROVE  last_approved_base_payout[k]
                        + last_approved_spillover_payout'[k]
                        <= annual_heir_raw_claims[k]
    BY <1>1, <1>6 DEF PayoutWithinClaim, Payout
  <2>1. CASE k = h
    BY <1>1, <1>2, <1>7, <2>1 DEF RemainingDemand, TypeOK
  <2>2. CASE k # h
    BY <1>6, <1>7, <2>2 DEF IInv, PayoutWithinClaim, Payout
  <2> QED
    BY <2>1, <2>2
<1>10. SpilloverWithinCap'
  BY <1>1, <1>2, <1>3, <1>5 DEF SpilloverWithinCap, TypeOK
<1>11. GrantsWithinCeiling'
  <2> SUFFICES ASSUME NEW k \in active_heir_index,
                      last_approved_spillover_payout'[k] > 0
               PROVE  annual_branch_disbursed'[branch_index[k]]
                        <= Ceiling(branch_index[k])
    BY <1>1, <1>6, <1>7 DEF GrantsWithinCeiling
  <2>1. CASE branch_index[k] = b
    BY <1>2, <1>7, <2>1
  <2>2. CASE branch_index[k] # b
    <3>1. k # h
      BY <2>2 DEF b
    <3> QED
      BY <1>6, <1>7, <2>2, <3>1 DEF IInv, GrantsWithinCeiling
  <2> QED
    BY <2>1, <2>2
<1>12. BranchWithinEntitlement'
  <2> SUFFICES ASSUME NEW c \in Branches, Covered(c)'
               PROVE  \/ annual_branch_disbursed'[c] <= annual_branch_base_caps[c]
                      \/ annual_branch_disbursed'[c] <= Ceiling(c)
    BY <1>1, <1>3, <1>7 DEF BranchWithinEntitlement
  <2>1. CASE c = b
    BY <1>2, <1>7, <2>1
  <2>2. CASE c # b
    <3>1. Covered(c)
      BY <1>1 DEF Covered, Claimants
    <3> QED
      BY <1>1, <1>7, <2>2, <3>1 DEF IInv, BranchWithinEntitlement
  <2> QED
    BY <2>1, <2>2
<1>13. SpilloverInv'
  <2> SUFFICES ASSUME NEW k \in active_heir_index \ left'
               PROVE  \/ RemainingDemand(k) <= last_approved_spillover_payout'[k]
                      \/ annual_branch_disbursed'[branch_index[k]]
                           >= Ceiling(branch_index[k])
                      \/ surplus_pool' = 0
    BY <1>1, <1>3, <1>7 DEF SpilloverInv
  <2>1. CASE surplus_pool' <= 0
    BY <1>5, <2>1 DEF TypeOK
  <2>2. CASE k = h
    <3>1. CASE grant = RemainingDemand(h)
      BY <1>2, <1>7, <2>2, <3>1
    <3>2. CASE annual_branch_disbursed[b] + grant = Ceiling(b)
      BY <1>3, <1>4, <1>7, <2>2, <3>2 DEF b
    <3>3. CASE grant = surplus_pool
      BY <1>1, <3>3 DEF TypeOK
    <3> QED
      BY <1>2, <3>1, <3>2, <3>3
  <2>3. CASE ~(surplus_pool' <= 0) /\ k # h
    <3>1. k \in active_heir_index \ left
      BY <1>1, <2>3
    <3>2. CASE RemainingDemand(k) <= last_approved_spillover_payout[k]
      BY <1>7, <2>3, <3>2
    <3>3. CASE annual_branch_disbursed[branch_index[k]]
                 >= Ceiling(branch_index[k])
      BY <1>1, <1>2, <1>4, <1>7, <3>3 DEF TypeOK
    <3>4. CASE surplus_pool = 0
      BY <1>1, <1>2, <2>3, <3>4 DEF TypeOK
    <3> QED
      BY <1>1, <3>1, <3>2, <3>3, <3>4 DEF IInv, SpilloverInv
  <2> QED
    BY <2>1, <2>2, <2>3
<1>14. DrawnInv' /\ NothingLeftToGrant'
  BY <1>1 DEF DrawnInv, NothingLeftToGrant
<1> QED
  BY <1>5, <1>8, <1>9, <1>10, <1>11, <1>12, <1>13, <1>14 DEF IInv

(* Every step preserves the inductive invariant.                           *)
LEMMA NextIInv ==
  IInv /\ [Next]_vars => IInv'
<1> SUFFICES ASSUME IInv, [Next]_vars PROVE IInv'
  OBVIOUS
<1>1. CASE UNCHANGED vars
  <2>1. TypeOK'
    BY <1>1 DEF vars, heirs, payouts, branches, scratch, call, IInv, TypeOK
  <2>2. UNCHANGED books
    BY <1>1 DEF vars, heirs, books
  <2> QED
    BY <2>1, <2>2, BooksKept
<1> QED
  BY <1>1, ChangeStep, RefuseSettlementStep, BeginSettlementStep,
     SettleBaseStep, PhaseStep, PassOverStep, GrantSpilloverStep
  DEF Next, Step

-----------------------------------------------------------------------------
(* The inductive invariant holds in every reachable state.                 *)
THEOREM InductiveInvariant == Spec => []IInv
<1>1. Init => IInv
  BY InitIInv
<1>2. IInv /\ [Next]_vars => IInv'
  BY NextIInv
<1> QED
  BY <1>1, <1>2, PTL DEF Spec

(* Every amount stays a natural number: no grant is negative, whatever the *)
(* counters, shares and ceilings are.                                      *)
THEOREM TypeCorrect == Spec => []TypeOK
<1>1. IInv => TypeOK
  BY DEF IInv
<1> QED
  BY <1>1, InductiveInvariant, PTL

(* No heir is ever paid more than its claim of the year.                   *)
THEOREM PayoutsWithinClaims == Spec => []PayoutWithinClaim
<1>1. IInv => PayoutWithinClaim
  BY DEF IInv
<1> QED
  BY <1>1, InductiveInvariant, PTL

(* Phase 3 never takes the fund past the cap of the year.                  *)
THEOREM SpilloverKeepsCap == Spec => []SpilloverWithinCap
<1>1. IInv => SpilloverWithinCap
  BY DEF IInv
<1> QED
  BY <1>1, InductiveInvariant, PTL

(* Phase 3 never takes a branch past its ceiling.                          *)
THEOREM GrantsKeepCeiling == Spec => []GrantsWithinCeiling
<1>1. IInv => GrantsWithinCeiling
  BY DEF IInv
<1> QED
  BY <1>1, InductiveInvariant, PTL

(* A branch whose counter covers its active heirs gets no more than its    *)
(* share of the cap, or its ceiling under the hybrid policy.               *)
THEOREM BranchesWithinEntitlement == Spec => []BranchWithinEntitlement
<1>1. IInv => BranchWithinEntitlement
  BY DEF IInv
<1> QED
  BY <1>1, InductiveInvariant, PTL

(* A settlement under the hybrid policy leaves an heir's claim unmet only  *)
(* where the branch's ceiling or the cap forbids to pay it.                *)
THEOREM SpilloverIsComplete == Spec => []NothingLeftToGrant
<1>1. IInv => NothingLeftToGrant
  BY DEF IInv
<1> QED
  BY <1>1, InductiveInvariant, PTL

-----------------------------------------------------------------------------
(***************************************************************************)
(* The sums a settlement keeps: its three tallies agree at every iteration,*)
(* and what bounds the entitlements of the branches bounds what the fund   *)
(* disburses.                                                              *)
(***************************************************************************)

(* A branch nobody claims in is never charged.                             *)
UnclaimedUndrawn ==
  \A b \in Branches : Claimants(b) = {} => annual_branch_disbursed[b] = 0

SumInv == BooksBalance /\ UnclaimedUndrawn /\ CappedIfEntitled

-----------------------------------------------------------------------------
(* Any set of branches or of heirs is finite.                              *)
LEMMA ArenasAreFinite ==
  /\ IsFiniteSet(Branches) /\ IsFiniteSet(Heirs)
  /\ \A S : S \subseteq Branches \/ S \subseteq Heirs => IsFiniteSet(S)
<1>1. IsFiniteSet(Branches) /\ IsFiniteSet(Heirs)
  BY FS_Interval, SettlementAssumption DEF Branches, Heirs
<1> QED
  BY <1>1, FS_Subset

(* Amounts that are zero outside C and at most caps within.                *)
LEMMA CapsBoundTotal ==
  ASSUME NEW C \in SUBSET Branches,
         NEW drawn \in [Branches -> Nat], NEW caps \in [Branches -> Nat],
         \A b \in Branches \ C : drawn[b] = 0,
         \A b \in C : drawn[b] <= caps[b]
  PROVE  Total(drawn, Branches) <= Total(caps, C)
<1>1. IsFiniteSet(C) /\ IsFiniteSet(Branches \ C)
  BY ArenasAreFinite
<1>2. Total(drawn, Branches) = Total(drawn, C) + Total(drawn, Branches \ C)
  BY ArenasAreFinite, TotalSplit
<1>3. Total(drawn, Branches \ C) = 0
  BY <1>1, TotalZero
<1>4. Total(drawn, C) <= Total(caps, C)
  BY <1>1, TotalMonotonic
<1>5. Total(drawn, C) \in Int
  BY <1>1, TotalType
<1> QED
  BY <1>2, <1>3, <1>4, <1>5

(* A payout to an heir is charged to its branch and to the fund.           *)
LEMMA ChargedToBranch ==
  ASSUME NEW drawn \in [Branches -> Nat], NEW b \in Branches, NEW pay \in Nat
  PROVE  Total([drawn EXCEPT ![b] = @ + pay], Branches)
           = Total(drawn, Branches) + pay
<1> DEFINE after == [drawn EXCEPT ![b] = @ + pay]
<1>1. after \in [Branches -> Nat] /\ after[b] = drawn[b] + pay
      /\ \A c \in Branches \ {b} : drawn[c] = after[c]
  OBVIOUS
<1> HIDE DEF after
<1>2. Total(after, Branches) = Total(drawn, Branches) + after[b] - drawn[b]
  BY <1>1, ArenasAreFinite, TotalChange
<1>3. Total(drawn, Branches) \in Int /\ drawn[b] \in Nat
  BY ArenasAreFinite, TotalType
<1>4. Total(after, Branches) = Total(drawn, Branches) + pay
  BY <1>1, <1>2, <1>3
<1> QED
  BY <1>4 DEF after

PayoutOf == [h \in Heirs |-> Payout(h)]

(* What an heir has been paid is not negative.                             *)
LEMMA PayoutsAreNatural ==
  ASSUME TypeOK PROVE PayoutOf \in [Heirs -> Nat]
BY DEF PayoutOf, Payout, TypeOK

-----------------------------------------------------------------------------
(* Between two calls there is nothing to add up.                           *)
LEMMA InitSums == Init => SumInv
<1> SUFFICES ASSUME Init PROVE SumInv
  OBVIOUS
<1>1. /\ annual_branch_disbursed = [b \in Branches |-> 0]
      /\ total_disbursed = 0 /\ global_cap = 0
      /\ settled = {}
  BY DEF Init, settled
<1>2. Total(annual_branch_disbursed, Branches) = 0
  BY <1>1, ArenasAreFinite, TotalZero
<1>3. Total(PayoutOf, settled) = 0
  BY <1>1, TotalEmpty
<1>4. BooksBalance
  BY <1>1, <1>2, <1>3 DEF BooksBalance, PayoutOf
<1>5. UnclaimedUndrawn /\ CappedIfEntitled
  BY <1>1 DEF UnclaimedUndrawn, CappedIfEntitled
<1> QED
  BY <1>4, <1>5 DEF SumInv

(* Nothing changes if no payout, cap or tally does.                        *)
LEMMA SumsKept ==
  ASSUME SumInv, settled' = settled, UNCHANGED books
         \/ UNCHANGED <<active_heir_index, branch_index, active_heir_count,
              annual_branch_base_caps, annual_branch_disbursed, payouts,
              global_cap, total_disbursed>>
  PROVE  SumInv'
<1> USE DEF books, payouts, branches, scratch, call
<1>1. BooksBalance'
  BY DEF SumInv, BooksBalance, Payout
<1>2. UnclaimedUndrawn'
  BY DEF SumInv, UnclaimedUndrawn, Claimants
<1>3. CappedIfEntitled'
  BY DEF SumInv, CappedIfEntitled, Claimants, Covered
<1> QED
  BY <1>1, <1>2, <1>3 DEF SumInv

(* A call starts with every tally at zero.                                 *)
LEMMA BeginSums ==
  ASSUME IInv', NEW cap \in GlobalCaps, NEW m \in GovernanceMode,
         BeginSettlement(cap, m)
  PROVE  SumInv'
<1>1. /\ annual_branch_disbursed' = [b \in Branches |-> 0]
      /\ total_disbursed' = 0
      /\ settled' = {}
      /\ global_cap' \in Nat
  BY DEF BeginSettlement, settled, IInv, TypeOK
<1>2. Total(annual_branch_disbursed', Branches) = 0
  BY <1>1, ArenasAreFinite, TotalZero
<1>3. Total(PayoutOf', settled') = 0
  BY <1>1, TotalEmpty
<1>4. BooksBalance'
  BY <1>1, <1>2, <1>3 DEF BooksBalance, PayoutOf
<1>5. UnclaimedUndrawn' /\ CappedIfEntitled'
  BY <1>1 DEF UnclaimedUndrawn, CappedIfEntitled
<1> QED
  BY <1>4, <1>5 DEF SumInv

(* Phase 1 pays the next heir: the heir joins those that are settled.      *)
LEMMA SettleBaseSums ==
  ASSUME IInv, IInv', SumInv, NEW h \in Heirs, SettleBase(h)
  PROVE  SumInv'
<1> DEFINE b == branch_index[h]
           pay == BasePayout(h)
<1>1. /\ TypeOK /\ TypeOK'
      /\ pc = "base" /\ pc' = "base"
      /\ h \in left /\ left' = left \ {h}
      /\ last_approved_base_payout' =
           [last_approved_base_payout EXCEPT ![h] = pay]
      /\ last_approved_spillover_payout' =
           [last_approved_spillover_payout EXCEPT ![h] = 0]
      /\ annual_branch_disbursed' =
           [annual_branch_disbursed EXCEPT ![b] = @ + pay]
      /\ total_disbursed' = total_disbursed + pay
      /\ UNCHANGED <<branch_index, active_heir_count, active_heir_index,
                     annual_branch_base_caps, global_cap>>
  BY DEF IInv, SettleBase, Upcoming, Disburse, heirs, branches
<1>2. pay \in Nat /\ b \in Branches /\ h \in Claimants(b)
  BY <1>1, BasePayoutBounds DEF TypeOK, Claimants
<1> HIDE DEF b, pay
<1>3. /\ annual_branch_disbursed \in [Branches -> Nat]
      /\ annual_branch_disbursed' \in [Branches -> Nat]
      /\ annual_branch_base_caps' \in [Branches -> Nat]
      /\ total_disbursed \in Nat /\ global_cap' \in Nat
  BY <1>1 DEF TypeOK
<1>4. settled' = settled \cup {h} /\ h \notin settled /\ settled \subseteq Heirs
  BY <1>1 DEF settled, TypeOK
<1>5. total_disbursed' = Total(annual_branch_disbursed', Branches)
  <2>1. Total([annual_branch_disbursed EXCEPT ![b] = @ + pay], Branches)
          = Total(annual_branch_disbursed, Branches) + pay
    BY <1>2, <1>3, ChargedToBranch
  <2>2. total_disbursed = Total(annual_branch_disbursed, Branches)
    BY DEF SumInv, BooksBalance
  <2> QED
    BY <1>1, <2>1, <2>2
<1>6. total_disbursed' = Total(PayoutOf', settled')
  <2>1. PayoutOf \in [Heirs -> Nat]
    BY <1>1, PayoutsAreNatural
  <2>2. PayoutOf' \in [Heirs -> Nat]
    BY <1>1 DEF PayoutOf, Payout, TypeOK
  <2>3. PayoutOf'[h] = pay /\ \A k \in settled : PayoutOf'[k] = PayoutOf[k]
    BY <1>1, <1>2, <1>4 DEF PayoutOf, Payout, TypeOK
  <2>4. IsFiniteSet(settled)
    BY <1>4, ArenasAreFinite
  <2>5. Total(PayoutOf', settled') = PayoutOf'[h] + Total(PayoutOf', settled)
    BY <1>4, <2>2, <2>4, TotalAdd
  <2>6. Total(PayoutOf', settled) = Total(PayoutOf, settled)
    BY <2>3, <2>4, TotalAgree
  <2>7. total_disbursed = Total(PayoutOf, settled)
    BY DEF SumInv, BooksBalance, PayoutOf
  <2> QED
    BY <1>1, <1>2, <1>3, <2>3, <2>5, <2>6, <2>7
<1>7. UnclaimedUndrawn'
  BY <1>1, <1>2, <1>3 DEF SumInv, UnclaimedUndrawn, Claimants
<1>8. CappedIfEntitled'
  <2> DEFINE C == {c \in Branches : Claimants(c)' # {}}
  <2>1. SUFFICES ASSUME \A c \in C : Covered(c)',
                        Total(annual_branch_base_caps', C) <= global_cap'
                 PROVE  total_disbursed' <= global_cap'
    BY DEF CappedIfEntitled
  <2>2. \A c \in C : annual_branch_disbursed'[c] <= annual_branch_base_caps'[c]
    BY <1>1, <2>1 DEF IInv, BranchWithinEntitlement
  <2>3. \A c \in Branches \ C : annual_branch_disbursed'[c] = 0
    BY <1>7 DEF UnclaimedUndrawn
  <2>4. C \in SUBSET Branches /\ IsFiniteSet(C)
    BY ArenasAreFinite
  <2> HIDE DEF C
  <2>5. Total(annual_branch_disbursed', Branches)
          <= Total(annual_branch_base_caps', C)
    BY <1>3, <2>2, <2>3, <2>4, CapsBoundTotal
  <2>6. /\ Total(annual_branch_disbursed', Branches) \in Int
        /\ Total(annual_branch_base_caps', C) \in Int
    BY <1>3, <2>4, ArenasAreFinite, TotalType
  <2> QED
    BY <1>3, <1>5, <2>1, <2>5, <2>6
<1> QED
  BY <1>5, <1>6, <1>7, <1>8 DEF SumInv, BooksBalance, PayoutOf

(* Phase 3 grants an heir something on top.                                *)
LEMMA GrantSums ==
  ASSUME IInv, IInv', SumInv, NEW h \in Heirs, GrantSpillover(h)
  PROVE  SumInv'
<1> DEFINE b == branch_index[h]
           grant == SpilloverGrant(h)
<1>1. /\ TypeOK /\ TypeOK'
      /\ pc = "spillover" /\ pc' = "spillover"
      /\ h \in active_heir_index
      /\ last_approved_spillover_payout' =
           [last_approved_spillover_payout EXCEPT ![h] = @ + grant]
      /\ annual_branch_disbursed' =
           [annual_branch_disbursed EXCEPT ![b] = @ + grant]
      /\ total_disbursed' = total_disbursed + grant
      /\ UNCHANGED <<branch_index, active_heir_count, active_heir_index,
                     annual_branch_base_caps, global_cap,
                     last_approved_base_payout>>
  BY DEF IInv, GrantSpillover, Upcoming, Disburse, heirs, branches, TypeOK
<1>2. grant \in Nat
  BY <1>1, GrantBounds DEF GrantSpillover
<1>3. b \in Branches /\ h \in Claimants(b)
  BY <1>1 DEF TypeOK, Claimants
<1> HIDE DEF b, grant
<1>4. /\ annual_branch_disbursed \in [Branches -> Nat]
      /\ total_disbursed \in Nat /\ total_disbursed' \in Nat
      /\ global_cap' \in Nat /\ surplus_pool' \in Nat
  BY <1>1 DEF TypeOK
<1>5. settled' = settled /\ h \in settled /\ settled \subseteq Heirs
  BY <1>1 DEF settled, TypeOK
<1>6. total_disbursed' = Total(annual_branch_disbursed', Branches)
  <2>1. Total([annual_branch_disbursed EXCEPT ![b] = @ + grant], Branches)
          = Total(annual_branch_disbursed, Branches) + grant
    BY <1>2, <1>3, <1>4, ChargedToBranch
  <2>2. total_disbursed = Total(annual_branch_disbursed, Branches)
    BY DEF SumInv, BooksBalance
  <2> QED
    BY <1>1, <2>1, <2>2
<1>7. total_disbursed' = Total(PayoutOf', settled')
  <2>1. PayoutOf \in [Heirs -> Nat]
    BY <1>1, PayoutsAreNatural
  <2>2. PayoutOf' \in [Heirs -> Nat]
    BY <1>1 DEF PayoutOf, Payout, TypeOK
  <2>3. /\ PayoutOf'[h] = PayoutOf[h] + grant
        /\ \A k \in settled \ {h} : PayoutOf[k] = PayoutOf'[k]
    BY <1>1, <1>2, <1>5 DEF PayoutOf, Payout, TypeOK
  <2>4. IsFiniteSet(settled)
    BY <1>5, ArenasAreFinite
  <2>5. Total(PayoutOf', settled)
          = Total(PayoutOf, settled) + PayoutOf'[h] - PayoutOf[h]
    BY <1>5, <2>1, <2>2, <2>3, <2>4, TotalChange
  <2>6. total_disbursed = Total(PayoutOf, settled)
    BY DEF SumInv, BooksBalance, PayoutOf
  <2>7. PayoutOf[h] \in Nat
    BY <2>1
  <2> QED
    BY <1>1, <1>2, <1>4, <1>5, <2>3, <2>5, <2>6, <2>7
<1>8. UnclaimedUndrawn'
  BY <1>1, <1>2, <1>3, <1>4 DEF SumInv, UnclaimedUndrawn, Claimants
<1>9. CappedIfEntitled'
  BY <1>1, <1>4 DEF IInv, SpilloverWithinCap, CappedIfEntitled
<1> QED
  BY <1>6, <1>7, <1>8, <1>9 DEF SumInv, BooksBalance, PayoutOf

(* Every step preserves the sums.                                          *)
LEMMA NextSums ==
  ASSUME IInv, IInv', SumInv, [Next]_vars
  PROVE  SumInv'
<1>1. ASSUME \/ UNCHANGED vars
             \/ \E h \in Heirs : ComeOfAge(h)
             \/ \E h \in Heirs, c \in Contributions : DepositCapital(h, c)
             \/ \E cap \in GlobalCaps : RefuseSettlement(cap)
             \/ \E h \in Heirs : PassOver(h)
             \/ OpenSpillover \/ FinishBase \/ FinishSpillover
      PROVE  SumInv'
  <2>1. /\ settled' = settled
        /\ UNCHANGED <<active_heir_index, branch_index, active_heir_count,
              annual_branch_base_caps, annual_branch_disbursed, payouts,
              global_cap, total_disbursed>>
    BY <1>1
    DEF vars, ComeOfAge, DepositCapital, RefuseSettlement, PassOver,
        OpenSpillover, FinishBase, FinishSpillover, Settled, settled, heirs,
        payouts, branches, scratch, call
  <2> QED
    BY <2>1, SumsKept
<1> QED
  BY <1>1, BeginSums, SettleBaseSums, GrantSums DEF Next, Step

-----------------------------------------------------------------------------
(* The sums are right in every reachable state.                            *)
THEOREM SumsInvariant == Spec => []SumInv
<1>1. Init => SumInv
  BY InitSums
<1>2. IInv /\ IInv' /\ SumInv /\ [Next]_vars => SumInv'
  BY NextSums
<1> QED
  BY <1>1, <1>2, InductiveInvariant, PTL DEF Spec

(* Fund, branches and heirs agree on what has been paid, at every          *)
(* iteration of both loops and for any registry.                           *)
THEOREM TalliesAgree == Spec => []BooksBalance
<1>1. SumInv => BooksBalance
  BY DEF SumInv
<1> QED
  BY <1>1, SumsInvariant, PTL

(* Entitlements within the year's cap keep the year within its cap.        *)
THEOREM EntitlementsBoundTheYear == Spec => []CappedIfEntitled
<1>1. SumInv => CappedIfEntitled
  BY DEF SumInv
<1> QED
  BY <1>1, SumsInvariant, PTL

-----------------------------------------------------------------------------
(***************************************************************************)
(* The loops compute AnnualSettlement.                                     *)
(***************************************************************************)

(* What a set of heirs has been paid.                                      *)
Tally(S) ==
  Total(last_approved_base_payout, S) + Total(last_approved_spillover_payout, S)

(* During a call: which heirs it visits, in which order, and what phase 1  *)
(* computes for each.                                                      *)
CallInv ==
  pc # "idle" =>
    /\ global_cap > 0
    /\ active_heir_index = {h \in Heirs : state[h] = "ACTIVE"}
    /\ \A b \in Branches :
         annual_branch_base_caps[b]
           = BaseCap(global_cap, virtual_share_percentage[b])
    /\ \A h \in settled :
         /\ annual_heir_raw_claims[h] = RawMatch(h)
         /\ last_approved_base_payout[h] = BasePayout(h)
    /\ \A h \in active_heir_index \ left, k \in left : h < k

(* The fund and every branch have paid what their heirs got.               *)
TallyInv ==
  pc # "idle" =>
    /\ total_disbursed = Tally(settled)
    /\ \A b \in Branches :
         annual_branch_disbursed[b] = Tally(Claimants(b) \cap settled)

(* The grant of phase 3 to an heir, given those to the heirs before it.    *)
Earlier(S, h) == {k \in S : k < h}

GrantRule(h) ==
  Granted(RemainingDemand(h),
          Ceiling(branch_index[h])
            - Total(last_approved_base_payout, Claimants(branch_index[h]))
            - Total(last_approved_spillover_payout,
                    Earlier(Claimants(branch_index[h]), h)),
          global_cap - Total(last_approved_base_payout, active_heir_index)
            - Total(last_approved_spillover_payout,
                    Earlier(active_heir_index, h)))

GrantsInv ==
  pc = "spillover" =>
    \A h \in active_heir_index \ left :
      last_approved_spillover_payout[h] = GrantRule(h)

RulesInv == CallInv /\ TallyInv /\ GrantsInv

-----------------------------------------------------------------------------
(* What the heirs from h on got counts for nothing if it is nothing.       *)
LEMMA EarlierIsAll ==
  ASSUME NEW S \in SUBSET Heirs, NEW h \in Heirs, NEW w,
         \A k \in S : w[k] \in Int,
         \A k \in S : h <= k => w[k] = 0
  PROVE  Total(w, S) = Total(w, Earlier(S, h))
<1> DEFINE E == Earlier(S, h)
<1>1. E \in SUBSET S /\ \A k \in S \ E : w[k] = 0
  BY DEF Earlier, Heirs
<1>2. IsFiniteSet(S) /\ IsFiniteSet(E) /\ IsFiniteSet(S \ E)
  BY <1>1, ArenasAreFinite
<1> HIDE DEF E
<1>3. Total(w, S) = Total(w, E) + Total(w, S \ E)
  BY <1>1, <1>2, TotalSplit
<1>4. Total(w, S \ E) = 0
  BY <1>1, <1>2, TotalZero
<1>5. Total(w, E) \in Int
  <2>1. \A k \in E : w[k] \in Int
    BY <1>1
  <2> QED BY <1>2, <2>1, TotalType
<1> QED
  BY <1>3, <1>4, <1>5 DEF E

(* Between two calls there is nothing to compare with the rules.           *)
LEMMA InitRules == Init => RulesInv
BY DEF Init, RulesInv, CallInv, TallyInv, GrantsInv

(* A call starts with nobody settled and every tally at zero.              *)
LEMMA BeginRules ==
  ASSUME IInv', NEW cap \in GlobalCaps, NEW m \in GovernanceMode,
         BeginSettlement(cap, m)
  PROVE  RulesInv'
<1>1. /\ annual_branch_disbursed' = [b \in Branches |-> 0]
      /\ total_disbursed' = 0
      /\ settled' = {} /\ pc' = "base"
      /\ active_heir_index' \ left' = {}
  BY DEF BeginSettlement, settled
<1>2. CallInv'
  BY <1>1, SettlementAssumption DEF BeginSettlement, CallInv, branches, heirs
<1>3. \A S : Tally(S \cap settled)' = 0 /\ Tally(settled)' = 0
  BY <1>1, TotalEmpty DEF Tally
<1>4. TallyInv'
  BY <1>1, <1>3 DEF TallyInv
<1> QED
  BY <1>1, <1>2, <1>4 DEF RulesInv, GrantsInv

(* Nor is there when a call has ended.                                     *)
LEMMA IdleRules ==
  ASSUME pc' = "idle" PROVE RulesInv'
BY DEF RulesInv, CallInv, TallyInv, GrantsInv

(* Phase 1.                                                                *)
LEMMA SettleBaseRules ==
  ASSUME IInv, IInv', RulesInv, NEW h \in Heirs, SettleBase(h)
  PROVE  RulesInv'
<1> DEFINE b == branch_index[h]
           pay == BasePayout(h)
<1>1. /\ TypeOK /\ TypeOK'
      /\ pc = "base" /\ pc' = "base"
      /\ h \in left /\ left' = left \ {h} /\ \A k \in left : h <= k
      /\ annual_heir_raw_claims' =
           [annual_heir_raw_claims EXCEPT ![h] = RawMatch(h)]
      /\ last_approved_base_payout' =
           [last_approved_base_payout EXCEPT ![h] = pay]
      /\ last_approved_spillover_payout' =
           [last_approved_spillover_payout EXCEPT ![h] = 0]
      /\ annual_branch_disbursed' =
           [annual_branch_disbursed EXCEPT ![b] = @ + pay]
      /\ total_disbursed' = total_disbursed + pay
      /\ UNCHANGED <<state, annual_capital_contribution, branch_index,
                     virtual_share_percentage, active_heir_count,
                     active_heir_index, annual_branch_base_caps, mode,
                     global_cap>>
  BY DEF IInv, SettleBase, Upcoming, Disburse, heirs, branches
<1>2. pay \in Nat /\ b \in Branches /\ h \in Claimants(b) /\ RawMatch(h) \in Nat
  BY <1>1, BasePayoutBounds DEF TypeOK, Claimants
<1>3. settled' = settled \cup {h} /\ h \notin settled /\ settled \subseteq Heirs
  BY <1>1 DEF settled, TypeOK
<1>4. \A k \in Heirs : BasePayout(k)' = BasePayout(k) /\ RawMatch(k)' = RawMatch(k)
  BY <1>1 DEF BasePayout, RawMatch
<1> HIDE DEF b, pay
<1>5. CallInv'
  <2>1. \A k \in settled' : /\ annual_heir_raw_claims'[k] = RawMatch(k)'
                            /\ last_approved_base_payout'[k] = BasePayout(k)'
    <3> TAKE k \in settled'
    <3>1. CASE k = h
      BY <1>1, <1>2, <1>4, <3>1 DEF TypeOK, pay
    <3>2. CASE k # h
      BY <1>1, <1>3, <1>4, <3>2 DEF RulesInv, CallInv, TypeOK
    <3> QED BY <3>1, <3>2
  <2>2. \A j \in active_heir_index' \ left', k \in left' : j < k
    <3> SUFFICES ASSUME NEW j \in active_heir_index' \ left', NEW k \in left'
                 PROVE  j < k
      OBVIOUS
    <3>1. CASE j = h
      BY <1>1, <3>1 DEF TypeOK, Heirs
    <3>2. CASE j # h
      BY <1>1, <3>2 DEF RulesInv, CallInv
    <3> QED BY <3>1, <3>2
  <2> QED
    BY <1>1, <2>1, <2>2 DEF RulesInv, CallInv
<1>6. ASSUME NEW S \in SUBSET settled
      PROVE  Tally(S)' = Tally(S) /\ Tally(S) \in Int
                /\ Tally(S \cup {h})' = Tally(S) + pay
  <2> DEFINE v == last_approved_base_payout
             w == last_approved_spillover_payout
             v1 == last_approved_base_payout'
             w1 == last_approved_spillover_payout'
  <2>1. /\ v \in [Heirs -> Nat] /\ w \in [Heirs -> Nat]
        /\ v1 \in [Heirs -> Nat] /\ w1 \in [Heirs -> Nat]
    BY <1>1 DEF TypeOK
  <2>2. /\ v1[h] = pay /\ w1[h] = 0
        /\ \A k \in S : v1[k] = v[k] /\ w1[k] = w[k]
    BY <1>1, <1>2, <1>3 DEF TypeOK
  <2>3. IsFiniteSet(S) /\ S \subseteq Heirs /\ h \notin S
    BY <1>3, ArenasAreFinite
  <2> HIDE DEF v, w, v1, w1
  <2>4. Total(v1, S) = Total(v, S) /\ Total(w1, S) = Total(w, S)
    BY <2>2, <2>3, TotalAgree
  <2>5. Total(v, S) \in Int /\ Total(w, S) \in Int
    <3>1. \A k \in S : v[k] \in Int /\ w[k] \in Int
      BY <2>1, <2>3
    <3> QED BY <2>3, <3>1, TotalType
  <2>6. /\ Total(v1, S \cup {h}) = v1[h] + Total(v1, S)
        /\ Total(w1, S \cup {h}) = w1[h] + Total(w1, S)
    <3>1. \A k \in S \cup {h} : v1[k] \in Int /\ w1[k] \in Int
      BY <2>1, <2>3
    <3> QED BY <2>3, <3>1, TotalAdd
  <2> QED
    BY <1>2, <2>2, <2>4, <2>5, <2>6 DEF Tally, v, w, v1, w1
<1>7. TallyInv'
  <2>1. total_disbursed' = Tally(settled)'
    BY <1>1, <1>3, <1>6 DEF RulesInv, TallyInv
  <2>2. ASSUME NEW c \in Branches
        PROVE  annual_branch_disbursed'[c] = Tally(Claimants(c) \cap settled)'
    <3>1. annual_branch_disbursed[c] = Tally(Claimants(c) \cap settled)
      BY <1>1 DEF RulesInv, TallyInv
    <3>2. Claimants(c)' = Claimants(c)
      BY <1>1 DEF Claimants
    <3>3. CASE c = b
      <4>1. (Claimants(c) \cap settled)' = (Claimants(c) \cap settled) \cup {h}
        BY <1>2, <1>3, <3>2, <3>3
      <4>2. annual_branch_disbursed'[c] = annual_branch_disbursed[c] + pay
        BY <1>1, <3>3 DEF TypeOK
      <4> QED
        BY <1>6, <3>1, <4>1, <4>2 DEF Tally
    <3>4. CASE c # b
      <4>1. (Claimants(c) \cap settled)' = Claimants(c) \cap settled
        BY <1>2, <1>3, <3>2, <3>4 DEF Claimants, b
      <4>2. annual_branch_disbursed'[c] = annual_branch_disbursed[c]
        BY <1>1, <1>2, <3>4 DEF TypeOK
      <4> QED
        BY <1>6, <3>1, <4>1, <4>2 DEF Tally
    <3> QED BY <3>3, <3>4
  <2> QED
    BY <2>1, <2>2 DEF TallyInv
<1> QED
  BY <1>1, <1>5, <1>7 DEF RulesInv, GrantsInv

-----------------------------------------------------------------------------
(* Phase 3.                                                                *)

(* What the heirs of S leave of x, if those from h on were granted nothing.*)
LEMMA LeftOver ==
  ASSUME NEW S \in SUBSET Heirs, NEW h \in Heirs, NEW x \in Int,
         NEW v \in [Heirs -> Nat], NEW w \in [Heirs -> Nat],
         \A k \in S : h <= k => w[k] = 0
  PROVE  x - Total(v, S) - Total(w, Earlier(S, h))
           = x - (Total(v, S) + Total(w, S))
<1>1. IsFiniteSet(S) /\ \A k \in S : v[k] \in Int /\ w[k] \in Int
  BY ArenasAreFinite
<1>2. Total(w, S) = Total(w, Earlier(S, h))
  BY <1>1, EarlierIsAll
<1>3. Total(v, S) \in Int /\ Total(w, S) \in Int
  BY <1>1, TotalType
<1> QED
  BY <1>2, <1>3

(* For an heir nobody after whom has a grant, the rule is what phase 3     *)
(* computes from what the fund and the branch have paid so far.            *)
LEMMA RuleAtTheTurn ==
  ASSUME TypeOK, TallyInv, SpilloverWithinCap, pc = "spillover",
         NEW h \in active_heir_index,
         \A k \in active_heir_index :
           h <= k => last_approved_spillover_payout[k] = 0
  PROVE  GrantRule(h) = Granted(RemainingDemand(h),
                                SpilloverRoom(branch_index[h]), surplus_pool)
<1> DEFINE b == branch_index[h]
           v == last_approved_base_payout
           w == last_approved_spillover_payout
<1>1. /\ v \in [Heirs -> Nat] /\ w \in [Heirs -> Nat]
      /\ active_heir_index \in SUBSET Heirs /\ h \in Heirs /\ b \in Branches
      /\ Claimants(b) \in SUBSET Heirs
      /\ \A k \in active_heir_index : h <= k => w[k] = 0
      /\ \A k \in Claimants(b) : h <= k => w[k] = 0
  BY DEF TypeOK, Claimants
<1>2. Ceiling(b) \in Nat /\ global_cap \in Nat
  BY <1>1, Ratio, CeilingIsNatural DEF TypeOK, Ceiling
<1>3. settled = active_heir_index /\ Claimants(b) \cap settled = Claimants(b)
  BY DEF settled, Claimants
<1>4. /\ total_disbursed = Total(v, active_heir_index) + Total(w, active_heir_index)
      /\ annual_branch_disbursed[b] = Total(v, Claimants(b)) + Total(w, Claimants(b))
  BY <1>1, <1>3 DEF TallyInv, Tally
<1>5. global_cap - Total(v, active_heir_index)
        - Total(w, Earlier(active_heir_index, h)) = global_cap - total_disbursed
  <2> HIDE DEF v, w
  <2> QED BY <1>1, <1>2, <1>4, LeftOver
<1>6. Ceiling(b) - Total(v, Claimants(b)) - Total(w, Earlier(Claimants(b), h))
        = Ceiling(b) - annual_branch_disbursed[b]
  <2> HIDE DEF v, w, b
  <2> QED BY <1>1, <1>2, <1>4, LeftOver
<1>7. global_cap - total_disbursed = surplus_pool
  BY DEF SpilloverWithinCap, TypeOK
<1> QED
  BY <1>5, <1>6, <1>7 DEF GrantRule, SpilloverRoom, Ceiling

(* Phase 3 starts with every grant at zero.                                *)
LEMMA OpenSpilloverRules ==
  ASSUME IInv, RulesInv, OpenSpillover
  PROVE  RulesInv'
<1>1. /\ TypeOK /\ pc = "base" /\ pc' = "spillover"
      /\ left = {} /\ left' = active_heir_index
      /\ UNCHANGED <<state, annual_capital_contribution, branch_index,
                     last_approved_base_payout, last_approved_spillover_payout,
                     virtual_share_percentage, active_heir_count,
                     active_heir_index, annual_branch_base_caps,
                     annual_branch_disbursed, annual_heir_raw_claims, mode,
                     global_cap, total_disbursed>>
  BY DEF IInv, OpenSpillover, heirs, payouts, branches, scratch
<1>2. settled' = settled
  BY <1>1 DEF settled, TypeOK
<1>3. CallInv'
  BY <1>1, <1>2 DEF RulesInv, CallInv, RawMatch, BasePayout
<1>4. TallyInv'
  BY <1>1, <1>2 DEF RulesInv, TallyInv, Tally, Claimants
<1>5. GrantsInv'
  BY <1>1 DEF GrantsInv
<1> QED
  BY <1>3, <1>4, <1>5 DEF RulesInv

(* The heirs phase 3 passes over would be granted nothing.                 *)
LEMMA PassOverRules ==
  ASSUME IInv, RulesInv, NEW h \in Heirs, PassOver(h)
  PROVE  RulesInv'
<1>1. /\ TypeOK /\ pc = "spillover" /\ pc' = "spillover"
      /\ h \in left /\ left' = left \ {h} /\ \A k \in left : h <= k
      /\ DemandMet(h) \/ CeilingReached(branch_index[h])
      /\ UNCHANGED <<state, annual_capital_contribution, branch_index,
                     last_approved_base_payout, last_approved_spillover_payout,
                     virtual_share_percentage, active_heir_count,
                     active_heir_index, annual_branch_base_caps,
                     annual_branch_disbursed, annual_heir_raw_claims, mode,
                     global_cap, total_disbursed>>
  BY DEF IInv, PassOver, Upcoming, heirs, payouts, branches, scratch
<1>2. settled' = settled
  BY <1>1 DEF settled
<1>3. CallInv'
  <2>1. \A j \in active_heir_index' \ left', k \in left' : j < k
    BY <1>1 DEF RulesInv, CallInv, TypeOK, Heirs
  <2> QED
    BY <1>1, <1>2, <2>1 DEF RulesInv, CallInv, RawMatch, BasePayout
<1>4. TallyInv'
  BY <1>1, <1>2 DEF RulesInv, TallyInv, Tally, Claimants
<1>5. \A k \in Heirs : GrantRule(k)' = GrantRule(k)
  BY <1>1 DEF GrantRule, RemainingDemand, Ceiling, Claimants
<1>6. last_approved_spillover_payout[h] = GrantRule(h)
  <2>1. \A k \in active_heir_index :
          h <= k => last_approved_spillover_payout[k] = 0
    BY <1>1 DEF IInv, PayoutInv, RulesInv, CallInv, TypeOK, Heirs
  <2>2. GrantRule(h) = Granted(RemainingDemand(h),
                               SpilloverRoom(branch_index[h]), surplus_pool)
    BY <1>1, <2>1, RuleAtTheTurn DEF IInv, RulesInv, TypeOK
  <2> QED
    BY <1>1, <2>1, <2>2 DEF Granted, DemandMet, CeilingReached, TypeOK, Heirs
<1>7. GrantsInv'
  BY <1>1, <1>5, <1>6 DEF RulesInv, GrantsInv, TypeOK
<1> QED
  BY <1>3, <1>4, <1>7 DEF RulesInv

(* The heir whose turn it is gets what the rules grant it.                 *)
LEMMA GrantSpilloverRules ==
  ASSUME IInv, IInv', RulesInv, NEW h \in Heirs, GrantSpillover(h)
  PROVE  RulesInv'
<1> DEFINE b == branch_index[h]
           grant == SpilloverGrant(h)
<1>1. /\ TypeOK /\ TypeOK'
      /\ pc = "spillover" /\ pc' = "spillover"
      /\ h \in left /\ \A k \in left : h <= k
      /\ left' = IF surplus_pool' <= 0 THEN {} ELSE left \ {h}
      /\ ~DemandMet(h) /\ ~CeilingReached(b)
      /\ last_approved_spillover_payout' =
           [last_approved_spillover_payout EXCEPT ![h] = @ + grant]
      /\ annual_branch_disbursed' =
           [annual_branch_disbursed EXCEPT ![b] = @ + grant]
      /\ surplus_pool' = surplus_pool - grant
      /\ total_disbursed' = total_disbursed + grant
      /\ UNCHANGED <<state, annual_capital_contribution, branch_index,
                     last_approved_base_payout, virtual_share_percentage,
                     active_heir_count, active_heir_index,
                     annual_branch_base_caps, annual_heir_raw_claims, mode,
                     global_cap>>
  BY DEF IInv, GrantSpillover, Upcoming, Disburse, heirs, branches
<1>2. /\ grant \in Nat /\ b \in Branches
      /\ h \in active_heir_index /\ h \in Claimants(b)
  BY <1>1, GrantBounds DEF TypeOK, Claimants
<1>3. settled' = settled /\ settled = active_heir_index
  BY <1>1 DEF settled
<1>4. \A k \in active_heir_index :
        h <= k => last_approved_spillover_payout[k] = 0
  <2>1. \A k \in left : last_approved_spillover_payout[k] = 0
    BY <1>1 DEF IInv, PayoutInv
  <2>2. \A k \in active_heir_index \ left : k < h
    BY <1>1 DEF RulesInv, CallInv
  <2>3. \A k \in Heirs : k \in Int
    BY DEF Heirs
  <2>4. active_heir_index \subseteq Heirs
    BY <1>1 DEF TypeOK
  <2> QED
    BY <2>1, <2>2, <2>3, <2>4
<1>5. /\ last_approved_spillover_payout'[h] = grant
      /\ \A k \in Heirs \ {h} : last_approved_spillover_payout'[k]
                                   = last_approved_spillover_payout[k]
  BY <1>1, <1>2, <1>4 DEF TypeOK, Heirs
<1>6. GrantRule(h) = grant
  <2>1. GrantRule(h) = Granted(RemainingDemand(h), SpilloverRoom(b),
                               surplus_pool)
    BY <1>1, <1>2, <1>4, RuleAtTheTurn DEF IInv, RulesInv
  <2> DEFINE demand == RemainingDemand(h)
             room == SpilloverRoom(b)
  <2>2. demand \in Int /\ surplus_pool \in Nat
    BY <1>1 DEF TypeOK, RemainingDemand
  <2>3. Ceiling(b) \in Nat
    BY <1>1, <1>2, Ratio, CeilingIsNatural DEF TypeOK, Ceiling
  <2>4. room \in Int
    BY <1>1, <1>2, <2>3 DEF TypeOK, SpilloverRoom, Ceiling
  <2>5. ~(demand <= 0) /\ ~(room <= 0)
    BY <1>1 DEF DemandMet, CeilingReached
  <2>6. grant = Lesser(demand, Lesser(room, surplus_pool))
    BY DEF SpilloverGrant
  <2> HIDE DEF demand, room, grant
  <2>7. Granted(demand, room, surplus_pool) = grant
    BY <2>2, <2>4, <2>5, <2>6 DEF Granted, Lesser
  <2> QED
    BY <2>1, <2>7 DEF demand, room
<1> HIDE DEF grant
<1>7. CallInv'
  <2>1. \A j \in active_heir_index' \ left', k \in left' : j < k
    <3>1. \A j \in active_heir_index \ left, k \in left : j < k
      BY <1>1 DEF RulesInv, CallInv
    <3>2. \A k \in left \ {h} : h < k
      BY <1>1 DEF TypeOK, Heirs
    <3>3. left' = {} \/ left' = left \ {h}
      BY <1>1
    <3>4. active_heir_index' = active_heir_index
      BY <1>1
    <3> QED
      BY <3>1, <3>2, <3>3, <3>4
  <2> QED
    BY <1>1, <1>3, <2>1 DEF RulesInv, CallInv, RawMatch, BasePayout
<1> DEFINE v == last_approved_base_payout
           w == last_approved_spillover_payout
           w1 == last_approved_spillover_payout'
<1>8. /\ v \in [Heirs -> Nat] /\ w \in [Heirs -> Nat] /\ w1 \in [Heirs -> Nat]
      /\ v' = v
  BY <1>1 DEF TypeOK
<1> HIDE DEF v, w, w1
<1>9. ASSUME NEW S \in SUBSET Heirs
      PROVE  /\ Tally(S) \in Int /\ Tally(S)' \in Int
             /\ h \notin S => Tally(S)' = Tally(S)
             /\ h \in S => Tally(S)' = Tally(S) + grant
  <2>1. /\ IsFiniteSet(S) /\ w[h] = 0 /\ w1[h] = grant
        /\ \A k \in S \ {h} : w[k] = w1[k]
    <3>1. h <= h
      BY DEF Heirs
    <3> QED
      BY <1>2, <1>4, <1>5, <3>1, ArenasAreFinite DEF w, w1
  <2>2. \A k \in S : v[k] \in Int /\ w[k] \in Int /\ w1[k] \in Int
    BY <1>8
  <2>3. Total(v, S) \in Int /\ Total(w, S) \in Int /\ Total(w1, S) \in Int
    BY <2>1, <2>2, TotalType
  <2>4. h \notin S => Total(w1, S) = Total(w, S)
    BY <2>1, TotalAgree
  <2>5. h \in S => Total(w1, S) = Total(w, S) + w1[h] - w[h]
    BY <2>1, <2>2, TotalChange
  <2>6. Tally(S) = Total(v, S) + Total(w, S) /\ Tally(S)' = Total(v, S) + Total(w1, S)
    BY <1>8 DEF Tally, v, w, w1
  <2> QED
    BY <1>2, <2>1, <2>3, <2>4, <2>5, <2>6
<1>10. TallyInv'
  <2>1. total_disbursed' = Tally(settled)'
    BY <1>1, <1>2, <1>3, <1>9 DEF RulesInv, TallyInv, TypeOK, Tally
  <2>2. ASSUME NEW c \in Branches
        PROVE  annual_branch_disbursed'[c] = Tally(Claimants(c) \cap settled)'
    <3> DEFINE S == Claimants(c) \cap settled
    <3>1. S' = S /\ S \in SUBSET Heirs /\ (h \in S <=> c = b)
      BY <1>1, <1>2, <1>3 DEF Claimants, TypeOK
    <3>2. annual_branch_disbursed[c] = Tally(S)
      BY <1>1 DEF RulesInv, TallyInv
    <3>3. annual_branch_disbursed'[c] =
            annual_branch_disbursed[c] + IF c = b THEN grant ELSE 0
      BY <1>1, <1>2 DEF TypeOK
    <3> HIDE DEF S
    <3>4. annual_branch_disbursed'[c] = Tally(S)'
      BY <1>2, <1>9, <3>1, <3>2, <3>3
    <3> QED
      BY <3>4 DEF S
  <2> QED
    BY <2>1, <2>2 DEF TallyInv
<1>11. ASSUME NEW k \in active_heir_index, k <= h
       PROVE  GrantRule(k)' = GrantRule(k)
  <2> DEFINE c == branch_index[k]
             A == Earlier(active_heir_index, k)
             C == Earlier(Claimants(c), k)
  <2>1. /\ h \notin A /\ A \subseteq Heirs /\ h \notin C /\ C \subseteq Heirs
        /\ A' = A /\ C' = C
    <3>1. active_heir_index \subseteq Heirs /\ \A j \in Heirs : j \in Int
      BY <1>1 DEF TypeOK, Heirs
    <3>2. ~(h < k)
      BY <1>11, <3>1
    <3>3. A' = A /\ C' = C
      BY <1>1 DEF Earlier, Claimants
    <3> QED
      BY <3>1, <3>2, <3>3 DEF Earlier, Claimants
  <2>2. \A j \in Heirs \ {h} : w1[j] = w[j]
    BY <1>5 DEF w, w1
  <2>3. Ceiling(c)' = Ceiling(c) /\ RemainingDemand(k)' = RemainingDemand(k)
    BY <1>1 DEF Ceiling, RemainingDemand
  <2>4. Claimants(c)' = Claimants(c)
    BY <1>1 DEF Claimants
  <2> HIDE DEF A, C
  <2>5. Total(w1, A) = Total(w, A) /\ Total(w1, C) = Total(w, C)
    BY <2>1, <2>2, ArenasAreFinite, TotalAgree
  <2>6. GrantRule(k) =
          Granted(RemainingDemand(k), Ceiling(c) - Total(v, Claimants(c)) - Total(w, C),
                  global_cap - Total(v, active_heir_index) - Total(w, A))
    BY DEF GrantRule, v, w, A, C
  <2>7. GrantRule(k)' =
          Granted(RemainingDemand(k)',
                  Ceiling(c)' - Total(v', Claimants(c)') - Total(w1, C'),
                  global_cap' - Total(v', active_heir_index') - Total(w1, A'))
    BY <1>1 DEF GrantRule, v, w1, A, C
  <2> QED
    BY <1>1, <1>8, <2>1, <2>3, <2>4, <2>5, <2>6, <2>7
<1>12. GrantsInv'
  <2> SUFFICES ASSUME NEW k \in active_heir_index, k \notin left'
               PROVE  w1[k] = GrantRule(k)'
    BY <1>1 DEF GrantsInv, w1
  <2>1. k \in Heirs /\ k \in Int /\ h \in Int
    BY <1>1 DEF TypeOK, Heirs
  <2>2. CASE k \notin left
    <3>1. k < h
      BY <1>1, <2>2 DEF RulesInv, CallInv
    <3>2. w[k] = GrantRule(k)
      BY <1>1, <2>2 DEF RulesInv, GrantsInv, w
    <3> QED
      BY <1>5, <1>11, <2>1, <3>1, <3>2 DEF w, w1
  <2>3. CASE k = h
    BY <1>5, <1>6, <1>11, <2>1, <2>3 DEF w1
  <2>4. CASE k \in left /\ k # h
    <3>1. surplus_pool' = 0 /\ left' = {}
      BY <1>1, <2>4 DEF TypeOK
    <3>2. k \in active_heir_index /\ h <= k
      BY <1>1, <2>4 DEF TypeOK
    <3>3. \A j \in active_heir_index : k <= j => j # h /\ h <= j
      <4>1. active_heir_index \subseteq Heirs /\ \A j \in Heirs : j \in Int
        BY <1>1 DEF TypeOK, Heirs
      <4> QED
        BY <2>1, <2>4, <3>2, <4>1
    <3>4. \A j \in active_heir_index : k <= j => w1[j] = 0
      BY <1>1, <1>4, <1>5, <3>3 DEF w1, TypeOK
    <3>5. /\ total_disbursed' = Tally(active_heir_index)'
          /\ total_disbursed' + surplus_pool' = global_cap
          /\ total_disbursed' \in Nat /\ global_cap \in Int
      BY <1>1, <1>3, <1>10 DEF IInv, SpilloverWithinCap, TallyInv, TypeOK
    <3>6. Tally(active_heir_index)'
            = Total(v, active_heir_index) + Total(w1, active_heir_index)
      BY <1>1, <1>8 DEF Tally, v, w1
    <3>7. global_cap - Total(v, active_heir_index)
            - Total(w1, Earlier(active_heir_index, k))
            = global_cap - (Total(v, active_heir_index)
                              + Total(w1, active_heir_index))
      <4>1. active_heir_index \in SUBSET Heirs
        BY <1>1 DEF TypeOK
      <4> QED
        BY <1>8, <2>1, <3>4, <3>5, <4>1, LeftOver
    <3>8. global_cap - Total(v, active_heir_index)
            - Total(w1, Earlier(active_heir_index, k)) = 0
      BY <3>1, <3>5, <3>6, <3>7
    <3>9. GrantRule(k)' = 0
      <4>1. \A d, r : Granted(d, r, 0) = 0
        BY DEF Granted
      <4> QED
        BY <1>1, <1>8, <3>8, <4>1 DEF GrantRule, v, w1, Earlier
    <3>10. k <= k
      BY <2>1
    <3> QED
      BY <3>4, <3>9, <3>10
  <2> QED
    BY <2>2, <2>3, <2>4
<1> QED
  BY <1>7, <1>10, <1>12 DEF RulesInv

(* Every step preserves the rules.                                         *)
LEMMA NextRules ==
  ASSUME IInv, IInv', RulesInv, [Next]_vars
  PROVE  RulesInv'
<1>1. CASE UNCHANGED vars
  <2>1. settled' = settled
    BY <1>1 DEF vars, scratch, call, settled
  <2> QED
    BY <1>1, <2>1
    DEF vars, heirs, payouts, branches, scratch, call, RulesInv, CallInv,
        TallyInv, GrantsInv, Tally, GrantRule, RawMatch, BasePayout,
        RemainingDemand, Ceiling, Claimants
<1>2. ASSUME \/ \E h \in Heirs : ComeOfAge(h)
             \/ \E h \in Heirs, c \in Contributions : DepositCapital(h, c)
             \/ \E cap \in GlobalCaps : RefuseSettlement(cap)
             \/ FinishBase \/ FinishSpillover
      PROVE  RulesInv'
  <2>1. pc' = "idle"
    BY <1>2 DEF ComeOfAge, DepositCapital, RefuseSettlement, FinishBase,
                FinishSpillover, Settled, call
  <2> QED
    BY <2>1, IdleRules
<1> QED
  BY <1>1, <1>2, BeginRules, SettleBaseRules, OpenSpilloverRules,
     PassOverRules, GrantSpilloverRules
  DEF Next, Step

-----------------------------------------------------------------------------
(* The registry as SettlementRules takes it: the heir or branch with index *)
(* h is number h + 1.                                                      *)

(* An arena lists the elements numbered from zero as a sequence.           *)
LEMMA ArenaOf ==
  ASSUME NEW n \in Nat, NEW f, DOMAIN f = 0 .. n - 1
  PROVE  /\ Arena(f) = [k \in 1 .. n |-> f[k - 1]]
         /\ \A h \in 0 .. n - 1 : Arena(f)[h + 1] = f[h]
<1>1. Cardinality(0 .. n - 1) = n
  BY FS_Interval
<1>2. Arena(f) = [k \in 1 .. n |-> f[k - 1]]
  BY <1>1 DEF Arena
<1>3. ASSUME NEW h \in 0 .. n - 1 PROVE Arena(f)[h + 1] = f[h]
  <2>1. h + 1 \in 1 .. n /\ (h + 1) - 1 = h
    OBVIOUS
  <2> QED
    BY <1>2, <2>1
<1> QED
  BY <1>2, <1>3

(* Totals over an arena are those over the elements themselves.            *)
LEMMA ArenaTotal ==
  ASSUME NEW f \in [Heirs -> Nat], NEW S \in SUBSET Heirs
  PROVE  Total(Arena(f), {h + 1 : h \in S}) = Total(f, S)
<1>1. S \in SUBSET Int /\ IsFiniteSet(S)
  <2>1. \A h \in Heirs : h \in Int
    BY DEF Heirs
  <2> QED
    BY <2>1, ArenasAreFinite
<1>2. \A h \in S : f[h] \in Int /\ Arena(f)[h + 1] = f[h]
  <2>1. NumHeirs \in Nat /\ DOMAIN f = 0 .. NumHeirs - 1
    BY SettlementAssumption DEF Heirs
  <2>2. \A h \in Heirs : Arena(f)[h + 1] = f[h]
    BY <2>1, ArenaOf DEF Heirs
  <2> QED
    BY <2>2
<1> QED
  BY <1>1, <1>2, TotalShift

(* The parts of the registry, heir by heir and branch by branch.           *)
LEMMA RegistryOf ==
  ASSUME TypeOK
  PROVE  /\ DOMAIN registry.state = {h + 1 : h \in Heirs}
         /\ DOMAIN registry.state = 1 .. NumHeirs
         /\ DOMAIN registry.share = {b + 1 : b \in Branches}
         /\ \A h \in Heirs :
              /\ registry.state[h + 1] = state[h]
              /\ registry.claim[h + 1] = RawMatch(h)
              /\ registry.branch_index[h + 1] = branch_index[h] + 1
              /\ registry.base[h + 1] = last_approved_base_payout[h]
              /\ registry.spillover[h + 1] = last_approved_spillover_payout[h]
         /\ \A b \in Branches :
              /\ registry.share[b + 1] = virtual_share_percentage[b]
              /\ registry.count[b + 1] = active_heir_count[b]
              /\ Arena(annual_branch_disbursed)[b + 1]
                   = annual_branch_disbursed[b]
<1>1. /\ NumHeirs \in Nat /\ Heirs = 0 .. NumHeirs - 1
      /\ NumBranches \in Nat /\ Branches = 0 .. NumBranches - 1
  BY SettlementAssumption DEF Heirs, Branches
<1>2. \A f : DOMAIN f = Heirs =>
        /\ DOMAIN Arena(f) = 1 .. NumHeirs
        /\ \A h \in Heirs : Arena(f)[h + 1] = f[h]
  BY <1>1, ArenaOf
<1>3. \A f : DOMAIN f = Branches =>
        /\ DOMAIN Arena(f) = 1 .. NumBranches
        /\ \A b \in Branches : Arena(f)[b + 1] = f[b]
  BY <1>1, ArenaOf
<1>4. /\ 1 .. NumHeirs = {h + 1 : h \in Heirs}
      /\ 1 .. NumBranches = {b + 1 : b \in Branches}
  <2>1. ASSUME NEW n \in Nat PROVE 1 .. n = {h + 1 : h \in 0 .. n - 1}
    <3>1. \A k \in 1 .. n : k - 1 \in 0 .. n - 1 /\ k = (k - 1) + 1
      OBVIOUS
    <3>2. \A h \in 0 .. n - 1 : h + 1 \in 1 .. n
      OBVIOUS
    <3> QED
      BY <3>1, <3>2
  <2> QED
    BY <1>1, <2>1
<1>5. /\ DOMAIN state = Heirs /\ DOMAIN last_approved_base_payout = Heirs
      /\ DOMAIN last_approved_spillover_payout = Heirs
      /\ DOMAIN virtual_share_percentage = Branches
      /\ DOMAIN active_heir_count = Branches
      /\ DOMAIN annual_branch_disbursed = Branches
  BY DEF TypeOK
<1> DEFINE claim == [h \in Heirs |-> RawMatch(h)]
           index == [h \in Heirs |-> branch_index[h] + 1]
<1>6. /\ DOMAIN claim = Heirs /\ DOMAIN index = Heirs
      /\ \A h \in Heirs : claim[h] = RawMatch(h) /\ index[h] = branch_index[h] + 1
  OBVIOUS
<1>7. /\ registry.state = Arena(state) /\ registry.claim = Arena(claim)
      /\ registry.branch_index = Arena(index)
      /\ registry.base = Arena(last_approved_base_payout)
      /\ registry.spillover = Arena(last_approved_spillover_payout)
      /\ registry.share = Arena(virtual_share_percentage)
      /\ registry.count = Arena(active_heir_count)
  BY DEF registry
<1> HIDE DEF claim, index
<1>8. /\ DOMAIN registry.state = 1 .. NumHeirs
      /\ \A h \in Heirs : registry.state[h + 1] = state[h]
  BY <1>2, <1>5, <1>7
<1>9. \A h \in Heirs : registry.claim[h + 1] = RawMatch(h)
  <2>1. \A h \in Heirs : Arena(claim)[h + 1] = claim[h]
    BY <1>2, <1>6
  <2> QED BY <1>6, <1>7, <2>1
<1>10. \A h \in Heirs : registry.branch_index[h + 1] = branch_index[h] + 1
  <2>1. \A h \in Heirs : Arena(index)[h + 1] = index[h]
    BY <1>2, <1>6
  <2> QED BY <1>6, <1>7, <2>1
<1>11. \A h \in Heirs :
         /\ registry.base[h + 1] = last_approved_base_payout[h]
         /\ registry.spillover[h + 1] = last_approved_spillover_payout[h]
  BY <1>2, <1>5, <1>7
<1>12. /\ DOMAIN registry.share = 1 .. NumBranches
       /\ \A b \in Branches :
            registry.share[b + 1] = virtual_share_percentage[b]
  BY <1>3, <1>5, <1>7
<1>13. \A b \in Branches :
         /\ registry.count[b + 1] = active_heir_count[b]
         /\ Arena(annual_branch_disbursed)[b + 1] = annual_branch_disbursed[b]
  BY <1>3, <1>5, <1>7
<1> QED
  BY <1>4, <1>8, <1>9, <1>10, <1>11, <1>12, <1>13

(* It is one the rules apply to, and they see the heirs the call visits.   *)
LEMMA RegistryWellFormed ==
  ASSUME TypeOK, active_heir_index = {h \in Heirs : state[h] = "ACTIVE"}
  PROVE  /\ WellFormed(registry)
         /\ ActiveOf(registry) = {h + 1 : h \in active_heir_index}
         /\ \A b \in Branches :
              MembersOf(registry, b + 1) = {h + 1 : h \in Claimants(b)}
<1>1. /\ NumHeirs \in Nat
      /\ \A h \in Heirs : h \in Int
      /\ \A b \in Branches : b \in Int
  BY SettlementAssumption DEF Heirs, Branches
<1>2. active_heir_index \subseteq Heirs
  OBVIOUS
<1>3. /\ DOMAIN registry.state = {h + 1 : h \in Heirs}
      /\ \A h \in Heirs : /\ registry.state[h + 1] = state[h]
                           /\ registry.branch_index[h + 1] = branch_index[h] + 1
  BY RegistryOf
<1>4. ActiveOf(registry) = {h + 1 : h \in active_heir_index}
  BY <1>1, <1>3 DEF ActiveOf
<1>5. ASSUME NEW b \in Branches
      PROVE  MembersOf(registry, b + 1) = {h + 1 : h \in Claimants(b)}
  <2>1. \A h \in active_heir_index :
          registry.branch_index[h + 1] = b + 1 <=> branch_index[h] = b
    BY SMTT(30), <1>1, <1>2, <1>3 DEF TypeOK
  <2> QED
    BY <1>4, <2>1 DEF MembersOf, Claimants
<1>6. WellFormed(registry)
  <2>1. \E n \in Nat : DOMAIN registry.state = 1 .. n
    BY <1>1, RegistryOf
  <2>2. \A h \in DOMAIN registry.state :
          /\ registry.claim[h] \in Nat
          /\ registry.branch_index[h] \in DOMAIN registry.share
    <3>1. \A h \in Heirs : RawMatch(h) \in Nat /\ branch_index[h] \in Branches
      BY BasePayoutBounds DEF TypeOK
    <3> QED
      BY <3>1, RegistryOf
  <2>3. \A b \in DOMAIN registry.share :
          registry.share[b] \in Nat /\ registry.count[b] \in Nat
    <3>1. \A b \in Branches : /\ virtual_share_percentage[b] \in Nat
                              /\ active_heir_count[b] \in Nat
      BY DEF TypeOK
    <3> QED
      BY <3>1, RegistryOf
  <2>4. /\ registry.base \in [DOMAIN registry.state -> Nat]
        /\ registry.spillover \in [DOMAIN registry.state -> Nat]
    <3>1. /\ last_approved_base_payout \in [Heirs -> Nat]
          /\ last_approved_spillover_payout \in [Heirs -> Nat]
      BY DEF TypeOK
    <3>2. ASSUME NEW f \in [Heirs -> Nat]
          PROVE  Arena(f) \in [1 .. NumHeirs -> Nat]
      <4>1. Arena(f) = [k \in 1 .. NumHeirs |-> f[k - 1]]
        BY <1>1, ArenaOf DEF Heirs
      <4>2. \A k \in 1 .. NumHeirs : k - 1 \in Heirs
        BY <1>1 DEF Heirs
      <4> QED
        BY <4>1, <4>2
    <3>3. /\ registry.base = Arena(last_approved_base_payout)
          /\ registry.spillover = Arena(last_approved_spillover_payout)
      BY DEF registry
    <3> QED
      BY <3>1, <3>2, <3>3, RegistryOf
  <2> QED
    BY <2>1, <2>2, <2>3, <2>4 DEF WellFormed
<1> QED
  BY <1>4, <1>5, <1>6

-----------------------------------------------------------------------------
(* A call that has visited all its heirs.                                  *)
AtTheEnd ==
  left = {} /\ (pc = "spillover" \/ (pc = "base" /\ ~HasSurplus))

(* What the invariants say of the last state of a call.                    *)
LEMMA AtTheEndOf ==
  ASSUME IInv, RulesInv, AtTheEnd
  PROVE  /\ TypeOK /\ pc # "idle"
         /\ global_cap \in Nat /\ ~(global_cap <= 0)
         /\ active_heir_index = {h \in Heirs : state[h] = "ACTIVE"}
         /\ active_heir_index \subseteq Heirs
         /\ settled = active_heir_index
         /\ total_disbursed = Tally(active_heir_index)
         /\ \A b \in Branches :
              annual_branch_disbursed[b] = Tally(Claimants(b))
<1>1. TypeOK /\ pc # "idle" /\ left = {}
  BY DEF IInv, AtTheEnd
<1>2. settled = active_heir_index
  BY <1>1 DEF settled
<1>3. \A b \in Branches : Claimants(b) \cap settled = Claimants(b)
  BY <1>2 DEF Claimants
<1> QED
  BY <1>1, <1>2, <1>3 DEF RulesInv, CallInv, TallyInv, TypeOK

(* Phase 1 has paid what the rules say.                                    *)
LEMMA BaseMatches ==
  ASSUME IInv, RulesInv, AtTheEnd
  PROVE  BasePaid(registry, global_cap) = registry.base
<1> DEFINE paid == BasePaid(registry, global_cap)
<1>1. ASSUME NEW h \in Heirs PROVE paid[h + 1] = registry.base[h + 1]
  <2>1. h + 1 \in DOMAIN registry.state
    BY AtTheEndOf, RegistryOf
  <2>2. h + 1 \in ActiveOf(registry) <=> h \in active_heir_index
    <3>1. \A k \in Heirs : k \in Int
      BY DEF Heirs
    <3>2. \A k \in active_heir_index : k + 1 = h + 1 => k = h
      BY <3>1, AtTheEndOf
    <3>3. ActiveOf(registry) = {k + 1 : k \in active_heir_index}
      BY AtTheEndOf, RegistryWellFormed
    <3> QED
      BY <3>2, <3>3
  <2>3. CASE h \notin active_heir_index
    BY <2>1, <2>2, <2>3 DEF BasePaid
  <2>4. CASE h \in active_heir_index
    <3> DEFINE b == branch_index[h]
    <3>1. b \in Branches
      BY AtTheEndOf DEF TypeOK
    <3>2. last_approved_base_payout[h] = BasePayout(h)
      BY <2>4, AtTheEndOf DEF RulesInv, CallInv
    <3>3. annual_branch_base_caps[b]
            = BaseCap(global_cap, virtual_share_percentage[b])
      BY <3>1, AtTheEndOf DEF RulesInv, CallInv
    <3>4. /\ registry.claim[h + 1] = RawMatch(h)
          /\ registry.branch_index[h + 1] = b + 1
          /\ registry.base[h + 1] = last_approved_base_payout[h]
          /\ registry.share[b + 1] = virtual_share_percentage[b]
          /\ registry.count[b + 1] = active_heir_count[b]
      BY <3>1, AtTheEndOf, RegistryOf
    <3>5. paid[h + 1] =
            Lesser(registry.claim[h + 1],
                   HeirCap(BaseCap(global_cap,
                             registry.share[registry.branch_index[h + 1]]),
                           registry.count[registry.branch_index[h + 1]]))
      BY <2>1, <2>2, <2>4 DEF BasePaid
    <3> HIDE DEF paid
    <3> QED
      BY <3>2, <3>3, <3>4, <3>5 DEF BasePayout
  <2> QED
    BY <2>3, <2>4
<1>2. \A k \in DOMAIN registry.state : paid[k] = registry.base[k]
  <2>1. DOMAIN registry.state = {h + 1 : h \in Heirs}
    BY AtTheEndOf, RegistryOf
  <2> HIDE DEF paid
  <2> QED
    BY <1>1, <2>1
<1>3. /\ paid \in [DOMAIN registry.state -> Nat]
      /\ registry.base \in [DOMAIN registry.state -> Nat]
  BY AtTheEndOf, RegistryWellFormed, BasePaidBounds DEF WellFormed
<1> HIDE DEF paid
<1>4. paid = registry.base
  BY <1>2, <1>3
<1> QED
  BY <1>4 DEF paid

(* What the heirs numbered k + 1 got in either phase.                      *)
LEMMA RegistryTotals ==
  ASSUME TypeOK, NEW S \in SUBSET Heirs
  PROVE  /\ Total(registry.base, {h + 1 : h \in S})
              = Total(last_approved_base_payout, S)
         /\ Total(registry.spillover, {h + 1 : h \in S})
              = Total(last_approved_spillover_payout, S)
BY ArenaTotal DEF registry, TypeOK

(* The terms of a grant to heir h, as the rules and as the loops see them. *)
LEMMA TermsMatch ==
  ASSUME IInv, RulesInv, AtTheEnd, NEW h \in active_heir_index
  PROVE  LET b == branch_index[h]
             spillover == registry.spillover
         IN  /\ DemandOf(registry, global_cap, h + 1) = RemainingDemand(h)
             /\ RoomOf(registry, global_cap, mode, spillover, h + 1)
                  = Ceiling(b) - Total(last_approved_base_payout, Claimants(b))
                      - Total(last_approved_spillover_payout,
                              Earlier(Claimants(b), h))
             /\ SurplusOf(registry, global_cap, spillover, h + 1)
                  = global_cap
                      - Total(last_approved_base_payout, active_heir_index)
                      - Total(last_approved_spillover_payout,
                              Earlier(active_heir_index, h))
<1> DEFINE b == branch_index[h]
<1>1. /\ TypeOK /\ h \in Heirs /\ b \in Branches
      /\ active_heir_index \in SUBSET Heirs /\ Claimants(b) \in SUBSET Heirs
      /\ \A k \in Heirs : k \in Int
  <2>1. /\ TypeOK /\ h \in Heirs /\ b \in Branches
        /\ active_heir_index \in SUBSET Heirs
    BY AtTheEndOf DEF TypeOK
  <2>2. \A k \in Heirs : k \in Int
    BY DEF Heirs
  <2> QED
    BY <2>1, <2>2 DEF Claimants
<1>2. BasePaid(registry, global_cap) = registry.base
  BY BaseMatches
<1>3. /\ registry.claim[h + 1] = RawMatch(h)
      /\ registry.branch_index[h + 1] = b + 1
      /\ registry.base[h + 1] = last_approved_base_payout[h]
      /\ registry.share[b + 1] = virtual_share_percentage[b]
  BY <1>1, RegistryOf
<1>4. annual_heir_raw_claims[h] = RawMatch(h)
  BY AtTheEndOf DEF RulesInv, CallInv
<1>5. DemandOf(registry, global_cap, h + 1) = RemainingDemand(h)
  BY <1>2, <1>3, <1>4 DEF DemandOf, RemainingDemand
<1>6. /\ ActiveOf(registry) = {k + 1 : k \in active_heir_index}
      /\ MembersOf(registry, b + 1) = {k + 1 : k \in Claimants(b)}
  BY <1>1, AtTheEndOf, RegistryWellFormed
<1>7. ASSUME NEW S \in SUBSET Heirs
      PROVE  {k \in {j + 1 : j \in S} : k < h + 1} = {k + 1 : k \in Earlier(S, h)}
  <2>1. \A j \in S : j + 1 < h + 1 <=> j < h
    BY <1>1
  <2> QED
    BY <2>1 DEF Earlier
<1>8. /\ Earlier(active_heir_index, h) \in SUBSET Heirs
      /\ Earlier(Claimants(b), h) \in SUBSET Heirs
  BY <1>1 DEF Earlier
<1> HIDE DEF b
<1>9. /\ Total(registry.base, MembersOf(registry, b + 1))
           = Total(last_approved_base_payout, Claimants(b))
      /\ Total(registry.base, ActiveOf(registry))
           = Total(last_approved_base_payout, active_heir_index)
  BY <1>1, <1>6, RegistryTotals
<1>10. Total(registry.spillover, {k \in MembersOf(registry, b + 1) : k < h + 1})
         = Total(last_approved_spillover_payout, Earlier(Claimants(b), h))
  <2>1. {k \in MembersOf(registry, b + 1) : k < h + 1}
          = {k + 1 : k \in Earlier(Claimants(b), h)}
    BY <1>1, <1>6, <1>7
  <2> QED
    BY <1>1, <1>8, <2>1, RegistryTotals
<1>11. Total(registry.spillover, {k \in ActiveOf(registry) : k < h + 1})
         = Total(last_approved_spillover_payout, Earlier(active_heir_index, h))
  <2>1. {k \in ActiveOf(registry) : k < h + 1}
          = {k + 1 : k \in Earlier(active_heir_index, h)}
    BY <1>1, <1>6, <1>7
  <2> QED
    BY <1>1, <1>8, <2>1, RegistryTotals
<1>12. RoomOf(registry, global_cap, mode, registry.spillover, h + 1)
         = Ceiling(b) - Total(last_approved_base_payout, Claimants(b))
             - Total(last_approved_spillover_payout, Earlier(Claimants(b), h))
  BY <1>2, <1>3, <1>9, <1>10 DEF RoomOf, Ceiling
<1>13. SurplusOf(registry, global_cap, registry.spillover, h + 1)
         = global_cap - Total(last_approved_base_payout, active_heir_index)
             - Total(last_approved_spillover_payout,
                     Earlier(active_heir_index, h))
  BY <1>2, <1>9, <1>11 DEF SurplusOf
<1> QED
  BY <1>5, <1>12, <1>13 DEF b

(* Phase 3 has granted what the rules say, and so has a call that ends     *)
(* with phase 1.                                                           *)
LEMMA GrantsMatch ==
  ASSUME IInv, RulesInv, AtTheEnd
  PROVE  \A k \in ActiveOf(registry) :
           registry.spillover[k] = Grants(registry, global_cap, mode)[k]
<1> DEFINE grant(k) ==
             GrantTo(registry, global_cap, mode, registry.spillover, k)
<1>1. ASSUME NEW h \in active_heir_index
      PROVE  registry.spillover[h + 1] = grant(h + 1)
  <2>1. h \in Heirs /\ registry.spillover[h + 1] = last_approved_spillover_payout[h]
    BY AtTheEndOf, RegistryOf
  <2>2. CASE pc = "spillover"
    <3>1. last_approved_spillover_payout[h] = GrantRule(h)
      BY <2>2 DEF RulesInv, GrantsInv, AtTheEnd
    <3>2. mode = "HYBRID_SPILLOVER"
      BY <2>2 DEF IInv, SpilloverInv
    <3> QED
      BY <2>1, <3>1, <3>2, TermsMatch DEF GrantTo, GrantRule
  <2>3. CASE pc = "base" /\ ~HasSurplus
    <3>1. \A k \in active_heir_index : last_approved_spillover_payout[k] = 0
      BY <2>3, AtTheEndOf DEF IInv, PayoutInv
    <3>2. CASE mode # "HYBRID_SPILLOVER"
      BY <2>1, <3>1, <3>2 DEF GrantTo
    <3>3. CASE mode = "HYBRID_SPILLOVER"
      <4> DEFINE surplus == SurplusOf(registry, global_cap, registry.spillover,
                                      h + 1)
      <4>1. /\ global_cap \in Int /\ total_disbursed \in Int
            /\ global_cap - total_disbursed <= 0
        BY <2>3, <3>3, AtTheEndOf DEF HasSurplus, TypeOK
      <4>2. total_disbursed
              = Total(last_approved_base_payout, active_heir_index)
                  + Total(last_approved_spillover_payout, active_heir_index)
        BY AtTheEndOf DEF Tally
      <4>3. surplus = global_cap - total_disbursed
        <5>1. /\ last_approved_base_payout \in [Heirs -> Nat]
              /\ last_approved_spillover_payout \in [Heirs -> Nat]
              /\ active_heir_index \in SUBSET Heirs
          BY AtTheEndOf DEF TypeOK
        <5>2. global_cap
                - Total(last_approved_base_payout, active_heir_index)
                - Total(last_approved_spillover_payout,
                        Earlier(active_heir_index, h))
                = global_cap - total_disbursed
          BY <2>1, <3>1, <4>1, <4>2, <5>1, LeftOver
        <5> QED
          BY <5>2, TermsMatch
      <4>4. \A demand, room : Granted(demand, room, surplus) = 0
        <5> HIDE DEF surplus
        <5> QED
          BY <4>1, <4>3 DEF Granted
      <4> QED
        BY <2>1, <3>1, <4>4 DEF GrantTo
    <3> QED
      BY <3>2, <3>3
  <2> QED
    BY <2>2, <2>3 DEF AtTheEnd
<1>2. /\ WellFormed(registry)
      /\ ActiveOf(registry) = {h + 1 : h \in active_heir_index}
  BY AtTheEndOf, RegistryWellFormed
<1>3. \A k \in ActiveOf(registry) : registry.spillover[k] = grant(k)
  <2> HIDE DEF grant
  <2> QED
    BY <1>1, <1>2
<1> QED
  BY <1>2, <1>3, GrantsUnique

(* Together they say that the call has done what the rules say.            *)
LEMMA RulesDecide ==
  ASSUME IInv, RulesInv
  PROVE  MatchesRules
<1> DEFINE outcome == AnnualSettlement(registry, global_cap, mode)
           g == Grants(registry, global_cap, mode)
<1>1. SUFFICES ASSUME AtTheEnd
               PROVE  /\ outcome.base = registry.base
                      /\ outcome.spillover = registry.spillover
                      /\ outcome.drawn = Arena(annual_branch_disbursed)
                      /\ outcome.total = total_disbursed
  BY DEF MatchesRules, AtTheEnd
<1>2. /\ TypeOK /\ WellFormed(registry)
      /\ ActiveOf(registry) = {h + 1 : h \in active_heir_index}
      /\ \A b \in Branches :
           MembersOf(registry, b + 1) = {h + 1 : h \in Claimants(b)}
  BY <1>1, AtTheEndOf, RegistryWellFormed
<1>3. /\ outcome.base = registry.base
      /\ outcome.spillover =
           [h \in DOMAIN registry.state |->
              IF h \in ActiveOf(registry) THEN g[h] ELSE registry.spillover[h]]
      /\ outcome.drawn =
           [b \in DOMAIN registry.share |->
              Total(registry.base, MembersOf(registry, b))
                + Total(g, MembersOf(registry, b))]
      /\ outcome.total = Total(registry.base, ActiveOf(registry))
                         + Total(g, ActiveOf(registry))
  BY <1>1, AtTheEndOf, RulesSpelledOut, BaseMatches
<1>4. \A h \in ActiveOf(registry) : registry.spillover[h] = g[h]
  BY <1>1, GrantsMatch
<1> HIDE DEF outcome, g
<1>5. outcome.spillover = registry.spillover
  <2>1. registry.spillover \in [DOMAIN registry.state -> Nat]
    BY <1>2 DEF WellFormed
  <2>2. outcome.spillover = [h \in DOMAIN registry.state |-> registry.spillover[h]]
    BY <1>3, <1>4
  <2> QED
    BY <2>1, <2>2
<1>6. ASSUME NEW S \in SUBSET active_heir_index
      PROVE  Total(registry.base, {h + 1 : h \in S})
               + Total(g, {h + 1 : h \in S}) = Tally(S)
  <2> DEFINE T == {h + 1 : h \in S}
  <2>1. S \in SUBSET Heirs /\ T \in SUBSET ActiveOf(registry)
    BY <1>1, <1>2, AtTheEndOf
  <2>2. IsFiniteSet(T) /\ \A h \in T : registry.spillover[h] = g[h]
    BY <1>2, <1>4, <2>1, HeirsAreFinite
  <2>3. /\ Total(registry.base, T) = Total(last_approved_base_payout, S)
        /\ Total(registry.spillover, T) = Total(last_approved_spillover_payout, S)
    BY <1>2, <2>1, RegistryTotals
  <2> HIDE DEF T
  <2>4. Total(registry.spillover, T) = Total(g, T)
    BY <2>2, TotalAgree
  <2>5. Total(registry.base, T) + Total(g, T) = Tally(S)
    BY <2>3, <2>4 DEF Tally
  <2> QED
    BY <2>5 DEF T
<1>7. outcome.total = total_disbursed
  BY <1>1, <1>2, <1>3, <1>6, AtTheEndOf
<1>8. outcome.drawn = Arena(annual_branch_disbursed)
  <2>1. NumBranches \in Nat /\ Branches = 0 .. NumBranches - 1
    BY SettlementAssumption DEF Branches
  <2>2. DOMAIN registry.share = 1 .. NumBranches
    BY <1>2, <2>1, ArenaOf DEF registry, TypeOK
  <2>3. Arena(annual_branch_disbursed)
          = [k \in 1 .. NumBranches |-> annual_branch_disbursed[k - 1]]
    BY <1>2, <2>1, ArenaOf DEF TypeOK
  <2>4. ASSUME NEW k \in 1 .. NumBranches
        PROVE  Total(registry.base, MembersOf(registry, k))
                 + Total(g, MembersOf(registry, k))
                 = annual_branch_disbursed[k - 1]
    <3>1. k - 1 \in Branches /\ (k - 1) + 1 = k
      BY <2>1
    <3>2. MembersOf(registry, k) = {h + 1 : h \in Claimants(k - 1)}
      BY <1>2, <3>1
    <3>3. annual_branch_disbursed[k - 1] = Tally(Claimants(k - 1))
      BY <1>1, <3>1, AtTheEndOf
    <3>4. Claimants(k - 1) \in SUBSET active_heir_index
      BY DEF Claimants
    <3> QED
      BY <1>6, <3>2, <3>3, <3>4
  <2> QED
    BY <1>3, <2>2, <2>3, <2>4
<1> QED
  BY <1>3, <1>5, <1>7, <1>8

(* The loops compute what the rules of a settlement say, for registries    *)
(* and caps of any size and however often the heirs change in between.     *)
THEOREM LoopsMatchRules == Spec => []MatchesRules
<1>1. Init => RulesInv
  BY InitRules
<1>2. IInv /\ IInv' /\ RulesInv /\ [Next]_vars => RulesInv'
  BY NextRules
<1>3. IInv /\ RulesInv => MatchesRules
  BY RulesDecide
<1> QED
  BY <1>1, <1>2, <1>3, InductiveInvariant, PTL DEF Spec

=============================================================================
