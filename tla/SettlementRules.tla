---------------------------- MODULE SettlementRules ----------------------------
(***************************************************************************)
(* The outcome of a settlement as a function of the registry, the policy   *)
(* and the year's cap: the reference for the loops of Settlement and what  *)
(* the annual tick of Estate applies.                                      *)
(*                                                                         *)
(* A registry r is given by the fields of its two arenas, each a sequence  *)
(* in arena order: state, claim, branch_index and what an heir was paid    *)
(* before, base and spillover; share and count of a branch.                *)
(*                                                                         *)
(* Money is counted in whole units and a share is its reciprocal (0 is     *)
(* 0%), so that a division by a share or by a number of heirs is \div.     *)
(***************************************************************************)
EXTENDS Sums

CONSTANTS
  Multiplier,                \* net_match_multiplier
  SpilloverNum, SpilloverDen \* spillover_cap_ratio is their quotient

GovernanceMode == {"STRICT_PARTITION", "DYNAMIC_POOLING", "HYBRID_SPILLOVER"}

Lesser(a, b) == IF a <= b THEN a ELSE b

-----------------------------------------------------------------------------
(* Slip: every heir of a branch may draw the whole cap of the branch.      *)
WholeCap(branch_cap, count) == IF count = 0 THEN 0 ELSE branch_cap

(* calculate_individual_heir_cap: an even split of a branch's cap.         *)
HeirCap(branch_cap, count) == IF count = 0 THEN 0 ELSE branch_cap \div count

(* A share of the year's cap.                                              *)
BaseCap(cap, share) == IF share = 0 THEN 0 ELSE cap \div share

(* calculate_branch_ceiling of a policy in mode m.                         *)
BranchCeiling(m, cap, share) ==
  CASE m = "STRICT_PARTITION" -> BaseCap(cap, share)
    [] m = "HYBRID_SPILLOVER" ->
         (BaseCap(cap, share) * SpilloverNum) \div SpilloverDen
    [] m = "DYNAMIC_POOLING" -> cap

-----------------------------------------------------------------------------
(* What phase 3 gives an heir: nothing unless all three are positive.      *)
Granted(demand, room, surplus) ==
  IF demand <= 0 \/ room <= 0 \/ surplus <= 0
  THEN 0
  ELSE Lesser(demand, Lesser(room, surplus))

(* execute_annual_settlement_future without its loops.  A base payout does *)
(* not depend on the other heirs; a grant depends on those to earlier      *)
(* heirs, which leave less room in the branch and less surplus.  The       *)
(* result is what each heir was paid in either phase, what each branch has *)
(* drawn and the total; with no cap to distribute nothing is paid and the  *)
(* heirs keep the payouts of the year before.                              *)
AnnualSettlement(r, cap, m) ==
  LET active == {h \in DOMAIN r.state : r.state[h] = "ACTIVE"}
      of(b) == {h \in active : r.branch_index[h] = b}
      base == [h \in DOMAIN r.state |->
                 LET b == r.branch_index[h]
                 IN  IF h \in active
                     THEN Lesser(r.claim[h], HeirCap(BaseCap(cap, r.share[b]), r.count[b]))
                     ELSE r.base[h]]
      paid(hs) == Total(base, hs)
      grant[h \in active] ==
        LET b == r.branch_index[h]
            granted(hs) == Total(grant, {k \in hs : k < h})
            demand == r.claim[h] - base[h]
            room == BranchCeiling(m, cap, r.share[b]) - paid(of(b)) - granted(of(b))
            surplus == cap - paid(active) - granted(active)
        IN  IF m = "HYBRID_SPILLOVER" THEN Granted(demand, room, surplus) ELSE 0
      spilled(hs) == Total(grant, hs)
  IN  IF cap <= 0
      THEN [base |-> r.base, spillover |-> r.spillover,
            drawn |-> [b \in DOMAIN r.share |-> 0], total |-> 0]
      ELSE [base |-> base,
            spillover |-> [h \in DOMAIN r.state |->
                             IF h \in active THEN grant[h] ELSE r.spillover[h]],
            drawn |-> [b \in DOMAIN r.share |-> paid(of(b)) + spilled(of(b))],
            total |-> paid(active) + spilled(active)]

=============================================================================
