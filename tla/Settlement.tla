------------------------------ MODULE Settlement ------------------------------
(***************************************************************************)
(* The annual settlement, execute_annual_settlement_future of class        *)
(* LineageRegistry: phase 1 pays every active heir up to an even split of  *)
(* its branch's part of the year's cap, phase 3 hands what is left of the  *)
(* cap to the heirs that claimed more, in the order of the arena, up to a  *)
(* ceiling per branch.  One step is one iteration of one of its loops.     *)
(*                                                                         *)
(* The variables up to active_heir_count are fields of the Beneficiary and *)
(* BranchNode records, indexed by arena index.  The module starts with any *)
(* registry of the constant Registries, then settles one year after the    *)
(* other, with calls that change the heirs in between.                     *)
(*                                                                         *)
(* Amounts and shares are as in SettlementRules, whose caps and ceilings   *)
(* this module uses; its instances choose amounts that divide exactly.     *)
(***************************************************************************)
EXTENDS SettlementRules

CONSTANTS
  NumHeirs, NumBranches,  \* sizes of the two arenas
  Registries,    \* the registries to start from
  Contributions, \* what an heir may deposit in a year
  GlobalCaps,    \* what the fund may offer in a year
  MaxYears,      \* bound on the number of settlements
  MaxChanges     \* bound on the number of changes to the heirs

Heirs == 0 .. NumHeirs - 1
Branches == 0 .. NumBranches - 1

HeirState == {"MINOR", "ACTIVE", "DECEASED"}

Registry == [state : [Heirs -> HeirState],
             contribution : [Heirs -> Nat],
             branch_index : [Heirs -> Branches],
             share : [Branches -> Nat],
             active_heir_count : [Branches -> Nat]]

ASSUME SettlementAssumption ==
  /\ NumHeirs \in Nat \ {0} /\ NumBranches \in Nat \ {0}
  /\ Multiplier \in Nat
  /\ SpilloverNum \in Nat /\ SpilloverDen \in Nat \ {0}
  /\ Registries \subseteq Registry
  /\ Contributions \subseteq Nat
  /\ GlobalCaps \subseteq Int
  /\ MaxYears \in Nat /\ MaxChanges \in Nat

VARIABLES
  state, annual_capital_contribution, branch_index,
  last_approved_base_payout, last_approved_spillover_payout,
  virtual_share_percentage, active_heir_count,
  active_heir_index,     \* as a set: it lists the heirs in arena order
  annual_branch_base_caps, annual_branch_disbursed, annual_heir_raw_claims,
  last_settled_payout,
  mode, global_cap,      \* the policy and the argument of the last call
  pc,                    \* the loop the call is in, "idle" between calls
  left,                  \* the part of active_heir_index still to be visited
  total_disbursed, surplus_pool,
  years, changes         \* counted to bound the instance

heirs == <<state, annual_capital_contribution, branch_index>>
payouts == <<last_approved_base_payout, last_approved_spillover_payout>>
branches == <<virtual_share_percentage, active_heir_count>>
scratch == <<active_heir_index, annual_branch_base_caps,
             annual_branch_disbursed, annual_heir_raw_claims>>
call == <<mode, global_cap, pc, left, total_disbursed, surplus_pool>>
vars == <<heirs, payouts, branches, scratch, last_settled_payout, call,
          years, changes>>

-----------------------------------------------------------------------------
Init ==
  /\ \E r \in Registries :
       /\ state = r.state
       /\ annual_capital_contribution = r.contribution
       /\ branch_index = r.branch_index
       /\ virtual_share_percentage = r.share
       /\ active_heir_count = r.active_heir_count
  /\ last_approved_base_payout = [h \in Heirs |-> 0]
  /\ last_approved_spillover_payout = [h \in Heirs |-> 0]
  /\ active_heir_index = {}
  /\ annual_branch_base_caps = [b \in Branches |-> 0]
  /\ annual_branch_disbursed = [b \in Branches |-> 0]
  /\ annual_heir_raw_claims = [h \in Heirs |-> 0]
  /\ last_settled_payout = 0
  /\ mode = "HYBRID_SPILLOVER"
  /\ global_cap = 0
  /\ pc = "idle"
  /\ left = {}
  /\ total_disbursed = 0 /\ surplus_pool = 0
  /\ years = 0 /\ changes = 0

-----------------------------------------------------------------------------
(* Calls that change an heir between two settlements.                      *)

(* tick_annual_aging at the 21st birthday.  The counter of its branch is   *)
(* left as it was.                                                         *)
ComeOfAge(h) ==
  /\ pc = "idle"
  /\ changes < MaxChanges
  /\ state[h] = "MINOR"
  /\ state' = [state EXCEPT ![h] = "ACTIVE"]
  /\ changes' = changes + 1
  /\ UNCHANGED <<annual_capital_contribution, branch_index, payouts, branches,
                 scratch, last_settled_payout, call, years>>

(* deposit_capital, which a minor or a deceased heir ignores.              *)
DepositCapital(h, cash_amount) ==
  /\ pc = "idle"
  /\ changes < MaxChanges
  /\ state[h] = "ACTIVE"
  /\ annual_capital_contribution' =
       [annual_capital_contribution EXCEPT ![h] = cash_amount]
  /\ changes' = changes + 1
  /\ UNCHANGED <<state, branch_index, payouts, branches, scratch,
                 last_settled_payout, call, years>>

-----------------------------------------------------------------------------
(* Slip: the last heir of the arena comes first.                           *)
UpcomingBackwards(h) == h \in left /\ \A k \in left : k <= h

(* The loops visit the active heirs in the order of the arena.             *)
Upcoming(h) == h \in left /\ \A k \in left : h <= k

(* Slip: a payout replaces what the branch was charged before.             *)
DisburseOver(h, payout) ==
  /\ annual_branch_disbursed' =
       [annual_branch_disbursed EXCEPT ![branch_index[h]] = payout]
  /\ total_disbursed' = total_disbursed + payout

(* A payout to heir h is charged to its branch and to the fund.            *)
Disburse(h, payout) ==
  /\ annual_branch_disbursed' =
       [annual_branch_disbursed EXCEPT ![branch_index[h]] = @ + payout]
  /\ total_disbursed' = total_disbursed + payout

-----------------------------------------------------------------------------
(* Nothing to distribute: the call returns at once.                        *)
RefuseSettlement(cap) ==
  /\ pc = "idle"
  /\ years < MaxYears
  /\ cap <= 0
  /\ last_settled_payout' = 0
  /\ years' = years + 1
  /\ UNCHANGED <<heirs, payouts, branches, scratch, call, changes>>

(* The call under a policy in mode m up to phase 1: fresh scratch vectors, *)
(* rebuild_active_heir_indice, and every branch's part of the cap.         *)
BeginSettlement(cap, m) ==
  /\ pc = "idle"
  /\ years < MaxYears
  /\ cap > 0
  /\ global_cap' = cap
  /\ mode' = m
  /\ active_heir_index' = {h \in Heirs : state[h] = "ACTIVE"}
  /\ annual_branch_base_caps' =
       [b \in Branches |-> BaseCap(cap, virtual_share_percentage[b])]
  /\ annual_branch_disbursed' = [b \in Branches |-> 0]
  /\ annual_heir_raw_claims' = [h \in Heirs |-> 0]
  /\ total_disbursed' = 0 /\ surplus_pool' = 0
  /\ left' = active_heir_index'
  /\ pc' = "base"
  /\ years' = years + 1
  /\ UNCHANGED <<heirs, payouts, branches, last_settled_payout, changes>>

RawMatch(h) == annual_capital_contribution[h] * Multiplier

(* Slip: the claim is paid in full.                                        *)
BasePayoutInFull(h) == RawMatch(h)

BasePayout(h) ==
  LET b == branch_index[h]
  IN  Lesser(RawMatch(h),
             HeirCap(annual_branch_base_caps[b], active_heir_count[b]))

(* Phase 1 for the next heir.                                              *)
SettleBase(h) ==
  /\ pc = "base"
  /\ Upcoming(h)
  /\ annual_heir_raw_claims' =
       [annual_heir_raw_claims EXCEPT ![h] = RawMatch(h)]
  /\ last_approved_base_payout' =
       [last_approved_base_payout EXCEPT ![h] = BasePayout(h)]
  /\ last_approved_spillover_payout' =
       [last_approved_spillover_payout EXCEPT ![h] = 0]
  /\ Disburse(h, BasePayout(h))
  /\ left' = left \ {h}
  /\ UNCHANGED <<heirs, branches, active_heir_index, annual_branch_base_caps,
                 last_settled_payout, mode, global_cap, pc, surplus_pool,
                 years, changes>>

(* The end of either phase as the end of the call.                         *)
Settled ==
  /\ last_settled_payout' = total_disbursed
  /\ pc' = "idle"
  /\ UNCHANGED <<heirs, payouts, branches, scratch, mode, global_cap, left,
                 total_disbursed, surplus_pool, years, changes>>

(* Slip: phase 3 does not ask whether anything is left.                    *)
HybridMode == mode = "HYBRID_SPILLOVER"

HasSurplus == mode = "HYBRID_SPILLOVER" /\ global_cap - total_disbursed > 0

(* Phase 3 starts over with the same heirs.                                *)
OpenSpillover ==
  /\ pc = "base"
  /\ left = {}
  /\ HasSurplus
  /\ surplus_pool' = global_cap - total_disbursed
  /\ left' = active_heir_index
  /\ pc' = "spillover"
  /\ UNCHANGED <<heirs, payouts, branches, scratch, last_settled_payout,
                 mode, global_cap, total_disbursed, years, changes>>

FinishBase == pc = "base" /\ left = {} /\ ~HasSurplus /\ Settled

(* Slip: phase 3 forgets what phase 1 has paid.                            *)
WholeDemand(h) == annual_heir_raw_claims[h]

RemainingDemand(h) == annual_heir_raw_claims[h] - last_approved_base_payout[h]

(* Slip: the room is the allowance of a branch, whatever it has drawn.     *)
SpilloverAllowance(b) ==
  BranchCeiling(mode, global_cap, virtual_share_percentage[b])
    - annual_branch_base_caps[b]

SpilloverRoom(b) ==
  BranchCeiling(mode, global_cap, virtual_share_percentage[b])
    - annual_branch_disbursed[b]

(* Slip: the surplus is not consulted.                                     *)
UnlimitedGrant(h) == Lesser(RemainingDemand(h), SpilloverRoom(branch_index[h]))

SpilloverGrant(h) ==
  Lesser(RemainingDemand(h),
         Lesser(SpilloverRoom(branch_index[h]), surplus_pool))

DemandMet(h) == RemainingDemand(h) <= 0
CeilingReached(b) == SpilloverRoom(b) <= 0

(* Slip: one heir without demand or room ends phase 3.                     *)
PassOverTheRest(h) ==
  /\ pc = "spillover"
  /\ Upcoming(h)
  /\ DemandMet(h) \/ CeilingReached(branch_index[h])
  /\ left' = {}
  /\ UNCHANGED <<heirs, payouts, branches, scratch, last_settled_payout,
                 mode, global_cap, pc, total_disbursed, surplus_pool, years,
                 changes>>

(* Slip: the loop stays at an heir without demand or room.                 *)
PassOverInPlace(h) ==
  /\ pc = "spillover"
  /\ Upcoming(h)
  /\ DemandMet(h) \/ CeilingReached(branch_index[h])
  /\ UNCHANGED vars

(* Phase 3 passes over an heir whose claim is met or whose branch has      *)
(* reached its ceiling.                                                    *)
PassOver(h) ==
  /\ pc = "spillover"
  /\ Upcoming(h)
  /\ DemandMet(h) \/ CeilingReached(branch_index[h])
  /\ left' = left \ {h}
  /\ UNCHANGED <<heirs, payouts, branches, scratch, last_settled_payout,
                 mode, global_cap, pc, total_disbursed, surplus_pool, years,
                 changes>>

(* Phase 3 for the next heir, if it has demand and its branch has room;    *)
(* the loop ends with the surplus.                                         *)
GrantSpillover(h) ==
  /\ pc = "spillover"
  /\ Upcoming(h)
  /\ ~DemandMet(h) /\ ~CeilingReached(branch_index[h])
  /\ last_approved_spillover_payout' =
       [last_approved_spillover_payout EXCEPT ![h] = @ + SpilloverGrant(h)]
  /\ Disburse(h, SpilloverGrant(h))
  /\ surplus_pool' = surplus_pool - SpilloverGrant(h)
  /\ left' = IF surplus_pool' <= 0 THEN {} ELSE left \ {h}
  /\ UNCHANGED <<heirs, last_approved_base_payout, branches, active_heir_index,
                 annual_branch_base_caps, annual_heir_raw_claims,
                 last_settled_payout, mode, global_cap, pc, years, changes>>

FinishSpillover == pc = "spillover" /\ left = {} /\ Settled

-----------------------------------------------------------------------------
(* The steps of a settlement that has started.                             *)
Step ==
  \/ \E h \in Heirs : SettleBase(h) \/ PassOver(h) \/ GrantSpillover(h)
  \/ OpenSpillover \/ FinishBase \/ FinishSpillover

Next ==
  \/ \E h \in Heirs : ComeOfAge(h)
  \/ \E h \in Heirs, c \in Contributions : DepositCapital(h, c)
  \/ \E cap \in GlobalCaps : RefuseSettlement(cap)
  \/ \E cap \in GlobalCaps, m \in GovernanceMode : BeginSettlement(cap, m)
  \/ Step

(* A settlement that has started runs on: it has nothing to wait for.      *)
Spec == Init /\ [][Next]_vars /\ WF_vars(Step)

-----------------------------------------------------------------------------
(* The type invariant.  That claims, payouts and disbursements stay        *)
(* natural numbers says that no grant is ever negative.                    *)
TypeOK ==
  /\ state \in [Heirs -> HeirState]
  /\ annual_capital_contribution \in [Heirs -> Nat]
  /\ branch_index \in [Heirs -> Branches]
  /\ last_approved_base_payout \in [Heirs -> Nat]
  /\ last_approved_spillover_payout \in [Heirs -> Nat]
  /\ virtual_share_percentage \in [Branches -> Nat]
  /\ active_heir_count \in [Branches -> Nat]
  /\ active_heir_index \in SUBSET Heirs
  /\ annual_branch_base_caps \in [Branches -> Nat]
  /\ annual_branch_disbursed \in [Branches -> Nat]
  /\ annual_heir_raw_claims \in [Heirs -> Nat]
  /\ last_settled_payout \in Nat
  /\ mode \in GovernanceMode
  /\ global_cap \in Nat
  /\ pc \in {"idle", "base", "spillover"}
  /\ left \in SUBSET active_heir_index
  /\ total_disbursed \in Nat
  /\ surplus_pool \in Nat
  /\ years \in 0 .. MaxYears
  /\ changes \in 0 .. MaxChanges

(* The heirs whose base payout of the current or last settlement is made.  *)
settled == IF pc = "base" THEN active_heir_index \ left ELSE active_heir_index

Payout(h) == last_approved_base_payout[h] + last_approved_spillover_payout[h]

(* Both phases together never pay an heir more than its claim of the year, *)
(* the contribution times the multiplier, although nothing takes back what *)
(* an earlier year or the other phase has paid.                            *)
PayoutWithinClaim ==
  \A h \in settled : Payout(h) <= annual_heir_raw_claims[h]

(* The surplus is what the cap leaves, down to the last grant: phase 3     *)
(* alone can never take the fund past the year's cap.                      *)
SpilloverWithinCap ==
  /\ pc = "spillover" => total_disbursed + surplus_pool = global_cap
  /\ pc # "base" /\ (\E h \in active_heir_index :
                       last_approved_spillover_payout[h] > 0)
       => total_disbursed <= global_cap

Ceiling(b) == BranchCeiling(mode, global_cap, virtual_share_percentage[b])

(* No grant of phase 3 takes a branch past its ceiling, whatever the other *)
(* heirs of the branch got before or get later.                            *)
GrantsWithinCeiling ==
  \A h \in settled :
    last_approved_spillover_payout[h] > 0
      => annual_branch_disbursed[branch_index[h]] <= Ceiling(branch_index[h])

(* The heirs of branch b that claim, and whether b's counter covers them.  *)
Claimants(b) == {h \in active_heir_index : branch_index[h] = b}
Covered(b) == Cardinality(Claimants(b)) <= active_heir_count[b]

(* Phase 1 leaves a branch within its share of the cap as long as          *)
(* active_heir_count is no smaller than the number of its active heirs,    *)
(* and phase 3 within the larger of that share and its ceiling.            *)
BranchWithinEntitlement ==
  \A b \in Branches :
    Covered(b) =>
      \/ annual_branch_disbursed[b] <= annual_branch_base_caps[b]
      \/ pc # "base" /\ mode = "HYBRID_SPILLOVER"
           /\ annual_branch_disbursed[b] <= Ceiling(b)

(* A settlement under the hybrid policy leaves no money on the table: when *)
(* it is over, an heir whose claim is not met sits in a branch that has    *)
(* reached its ceiling, or the cap is spent.                               *)
NothingLeftToGrant ==
  pc = "idle" /\ mode = "HYBRID_SPILLOVER" =>
    \A h \in active_heir_index :
      \/ RemainingDemand(h) = last_approved_spillover_payout[h]
      \/ annual_branch_disbursed[branch_index[h]] >= Ceiling(branch_index[h])
      \/ total_disbursed >= global_cap

(* A field of an arena as SettlementRules takes it.                        *)
Arena(field) == [k \in 1 .. Cardinality(DOMAIN field) |-> field[k - 1]]

registry ==
  [state |-> Arena(state),
   claim |-> Arena([h \in Heirs |-> RawMatch(h)]),
   branch_index |-> Arena([h \in Heirs |-> branch_index[h] + 1]),
   base |-> Arena(last_approved_base_payout),
   spillover |-> Arena(last_approved_spillover_payout),
   share |-> Arena(virtual_share_percentage),
   count |-> Arena(active_heir_count)]

(* The two loops, stopped early or not, pay every heir and charge every    *)
(* branch what the rules of a settlement say, no matter what the payouts   *)
(* of earlier years were.                                                  *)
MatchesRules ==
  left = {} /\ (pc = "spillover" \/ (pc = "base" /\ ~HasSurplus)) =>
    LET books == AnnualSettlement(registry, global_cap, mode)
    IN  /\ books.base = registry.base
        /\ books.spillover = registry.spillover
        /\ books.drawn = Arena(annual_branch_disbursed)
        /\ books.total = total_disbursed

(* The three tallies of a settlement agree at every iteration: what the    *)
(* fund disburses, what the branches are charged and what the heirs get.   *)
BooksBalance ==
  /\ total_disbursed = Total(annual_branch_disbursed, Branches)
  /\ total_disbursed = Total([h \in Heirs |-> Payout(h)], settled)

(* The fund never disburses more than the year's cap if every counter      *)
(* covers the active heirs of its branch and the branches that have any    *)
(* are together entitled to no more than the cap.                          *)
CappedIfEntitled ==
  LET claiming == {b \in Branches : Claimants(b) # {}}
  IN  /\ \A b \in claiming : Covered(b)
      /\ Total(annual_branch_base_caps, claiming) <= global_cap
      => total_disbursed <= global_cap

(* A settlement that has started returns.                                  *)
SettlementReturns == pc # "idle" ~> pc = "idle"

=============================================================================
