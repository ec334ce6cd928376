----------------------------- MODULE MCSettlement -----------------------------
(* Instances of Settlement for TLC.                                        *)
EXTENDS Settlement

(* The reciprocal shares rebalance_per_stirpes_shares gives to the trees   *)
(* of NumBranches branches.                                                *)
Trees ==
  {par \in [Branches \ {0} -> Branches] : \A c \in Branches \ {0} : par[c] < c}

SharesOf(par) ==
  CHOOSE d \in [Branches -> 1 .. NumBranches] :
    /\ d[0] = 1
    /\ \A c \in Branches \ {0} :
         d[c] = d[par[c]]
                  * Cardinality({k \in Branches \ {0} : par[k] = par[c]})

ActiveIn(st, br, b) == {h \in Heirs : st[h] = "ACTIVE" /\ br[h] = b}

(* What add_sub_branch and add_beneficiary build: every branch counts the  *)
(* heirs that were active when they were added to it.                      *)
BuiltRegistries ==
  {[state |-> st, contribution |-> co, branch_index |-> br,
    share |-> SharesOf(par),
    active_heir_count |->
      [b \in Branches |-> Cardinality(ActiveIn(st, br, b))]] :
     st \in [Heirs -> {"MINOR", "ACTIVE"}],
     co \in [Heirs -> Contributions],
     br \in [Heirs -> Branches],
     par \in Trees}

(* On the registries of the instance no division leaves a remainder.       *)
ASSUME ExactMoney ==
  \A r \in Registries, cap \in GlobalCaps, b \in Branches :
    LET whole(part, d) == d = 0 \/ part % d = 0
    IN  /\ whole(cap, r.share[b] * r.active_heir_count[b])
        /\ whole(cap, r.share[b])
        /\ whole(cap * SpilloverNum, r.share[b] * SpilloverDen)

-----------------------------------------------------------------------------
(* What the documents say of every settlement.                             *)

(* SPEC.md: surplus is redistributed without breaching the global cap.     *)
NeverBreachesCap == total_disbursed <= global_cap

(* SPEC.md: under dynamic pooling all branches compete for the global cap  *)
(* without hard ceilings, so unmet claims remain only if it is used up.    *)
PoolingUsesTheCap ==
  pc = "idle" /\ mode = "DYNAMIC_POOLING" =>
    \/ \A h \in active_heir_index : Payout(h) = annual_heir_raw_claims[h]
    \/ total_disbursed >= global_cap

=============================================================================
