-------------------------------- MODULE Estate --------------------------------
(***************************************************************************)
(* A simulation: class MasterFund with its ledger and telemetry history,   *)
(* the arenas of its LineageRegistry, and the DemographicEngine that       *)
(* changes the family between the annual ticks.                            *)
(*                                                                         *)
(* One step is one of the engine's decisions about one heir, or one annual *)
(* tick.  The settlement of a tick is the function of SettlementRules that *)
(* Settlement computes loop by loop, and the shares are those BranchTree   *)
(* computes.  Arenas are sequences: the code's index k is k + 1 here and   *)
(* NoBranch stands for INVALID_INDEX.  A random draw is a choice, money is *)
(* counted in whole units.                                                 *)
(***************************************************************************)
EXTENDS SettlementRules, Sequences

CONSTANTS
  Endowments,    \* what the fund may be given as its initial_aum
  Policies,      \* the policies the fund may be given: mode and cap ratio
  Seeds,         \* the estates the engine may seed
  Majority,      \* the age of majority, 21
  BranchAges,    \* the ages at which an heir may found a sub-branch, 25..35
  BirthAges,     \* the ages at which an heir may have a child, 22..40
  DefaultBase,   \* base contribution of an heir that has none, 10'000
  Shocks,        \* the factors a contribution may vary by
  Growths,       \* twice the factors the market may multiply the fund by
  CountRange,    \* number of values of active_heir_count, 2^16
  TotalYears,    \* the lengths of a simulation
  MaxHeirs, MaxBranches, MaxCalls, MaxYears \* bounds of the instance

NoBranch == 0
SeedCode == 100
SpawnCode == 10000

(* The local variables when no tick is running.                            *)
NoTick == [starting_aum |-> 0, market_gain |-> 0, global_cap |-> 0,
           total_disbursed |-> 0]

Policy == [mode : GovernanceMode, cap_num : Nat, cap_den : Nat \ {0}]

Seed ==
  [parents : Seq(Nat),
   heirs : Seq([branch : Nat, age : Nat, contribution : Nat])]

ASSUME EstateAssumption ==
  /\ Multiplier \in Nat
  /\ SpilloverNum \in Nat /\ SpilloverDen \in Nat \ {0}
  /\ Endowments \subseteq Nat
  /\ Policies \subseteq Policy
  /\ Seeds \subseteq Seed
  /\ \A seed \in Seeds :
       /\ \A k \in DOMAIN seed.parents : seed.parents[k] \in 1 .. k
       /\ \A k \in DOMAIN seed.heirs :
            seed.heirs[k].branch \in 1 .. Len(seed.parents) + 1
  /\ Majority \in Nat \ {0} /\ DefaultBase \in Nat \ {0}
  /\ \A age \in BranchAges \cup BirthAges : age > Majority
  /\ Shocks \subseteq Nat /\ Growths \subseteq Nat \ {0}
  /\ CountRange \in Nat \ {0}
  /\ TotalYears \subseteq Nat

VARIABLES
  initial_aum, current_aum, current_year, policy,
  heirs,                 \* beneficiary_arena
  branch_id, parent_index, virtual_share_percentage,
  active_heir_count,     \* branch_arena, field by field
  base_contributions,    \* of the demographic engine
  history,               \* of the telemetry logger
  pc,                    \* the part of a simulation that runs, or "idle"
  years_left, i, initial_heir_count,
  tick,                  \* the local variables of step_annual_tick
  funded_in,             \* the year in which the fund was last given money
  calls                  \* counted to bound the instance

fund == <<initial_aum, current_aum, current_year, policy, history, funded_in>>
tree == <<branch_id, parent_index, virtual_share_percentage>>
family == <<heirs, tree, active_heir_count, base_contributions>>
loop == <<pc, years_left, i, initial_heir_count, tick>>
vars == <<fund, family, loop, calls>>

-----------------------------------------------------------------------------
(* Slip: every branch but the root gets an even part of the fund.          *)
EvenShares(parents) ==
  [b \in DOMAIN parents |-> IF b = 1 THEN 1 ELSE Len(parents) - 1]

(* rebalance_per_stirpes_shares on the tree with these parents: what the   *)
(* loops of BranchTree compute.                                            *)
PerStirpesShares(parents) ==
  LET siblings(b) == {c \in DOMAIN parents : parents[c] = parents[b]}
      share[b \in DOMAIN parents] ==
        IF b = 1 THEN 1 ELSE share[parents[b]] * Cardinality(siblings(b))
  IN  share

(* add_sub_branch on an existing parent.                                   *)
AddSubBranch(parent, code) ==
  /\ parent \in DOMAIN parent_index
  /\ Len(parent_index) < MaxBranches
  /\ branch_id' = Append(branch_id, code)
  /\ parent_index' = Append(parent_index, parent)
  /\ active_heir_count' = Append(active_heir_count, 0)
  /\ virtual_share_percentage' = PerStirpesShares(parent_index')

(* The beneficiary add_beneficiary makes in branch b with this code.       *)
Beneficiary(b, code, age, contribution) ==
  [age |-> age,
   state |-> IF age < Majority THEN "MINOR" ELSE "ACTIVE",
   branch_id |-> code,
   branch_index |-> b,
   annual_capital_contribution |-> contribution,
   last_approved_base_payout |-> 0,
   last_approved_spillover_payout |-> 0]

(* add_beneficiary in an existing branch: an adult is counted, once.  The  *)
(* branch's heir_start_index, which nothing acts on, is left out.          *)
AddBeneficiary(b, age, contribution) ==
  /\ b \in DOMAIN branch_id
  /\ Len(heirs) < MaxHeirs
  /\ heirs' = Append(heirs, Beneficiary(b, branch_id[b], age, contribution))
  /\ active_heir_count' =
       IF age < Majority THEN active_heir_count
       ELSE [active_heir_count EXCEPT ![b] = (@ + 1) % CountRange]

-----------------------------------------------------------------------------
Init ==
  /\ initial_aum \in Endowments /\ current_aum = initial_aum
  /\ current_year = 0 /\ funded_in = 0
  /\ policy \in Policies
  /\ history = <<>>
  /\ heirs = <<>> /\ base_contributions = <<>>
  /\ branch_id = <<>> /\ parent_index = <<>>
  /\ virtual_share_percentage = <<>> /\ active_heir_count = <<>>
  /\ pc = "idle"
  /\ years_left = 0 /\ i = 0 /\ initial_heir_count = 0
  /\ tick = NoTick
  /\ calls = 0

(* What the program that embeds the fund calls, one call at a time.        *)
Called ==
  /\ pc = "idle"
  /\ calls < MaxCalls
  /\ calls' = calls + 1

(* seed_estate, for the tree and the heirs its draws make: the parent of   *)
(* branch k + 1 is seed.parents[k].                                        *)
SeedEstate(seed) ==
  LET adults(b) ==
        {k \in DOMAIN seed.heirs :
           seed.heirs[k].branch = b /\ seed.heirs[k].age >= Majority}
  IN  /\ Called
      /\ parent_index' = <<NoBranch>> \o seed.parents
      /\ branch_id' = [b \in DOMAIN parent_index' |-> SeedCode + b - 1]
      /\ virtual_share_percentage' = PerStirpesShares(parent_index')
      /\ active_heir_count' = [b \in DOMAIN parent_index' |->
                                 Cardinality(adults(b)) % CountRange]
      /\ heirs' = [k \in DOMAIN seed.heirs |->
                     LET h == seed.heirs[k]
                     IN  Beneficiary(h.branch, branch_id'[h.branch], h.age,
                                     h.contribution)]
      /\ base_contributions' =
           [k \in DOMAIN seed.heirs |-> seed.heirs[k].contribution]
      /\ UNCHANGED <<fund, loop>>

SetPolicyEngine(p) ==
  /\ Called
  /\ policy' = p
  /\ UNCHANGED <<initial_aum, current_aum, current_year, history, funded_in,
                 family, loop>>

(* set_initial_aum: the fund has this money now and after every reset.     *)
SetInitialAum(aum) ==
  /\ Called
  /\ initial_aum' = aum /\ current_aum' = aum
  /\ funded_in' = current_year
  /\ UNCHANGED <<current_year, policy, history, family, loop>>

(* Slip: the history outlives the year counter.                            *)
ResetKeepingHistory ==
  /\ Called
  /\ current_aum' = initial_aum
  /\ current_year' = 0 /\ funded_in' = 0
  /\ UNCHANGED <<initial_aum, policy, history, family, loop>>

(* reset: the money, the year and the history, not the family.             *)
Reset ==
  /\ Called
  /\ current_aum' = initial_aum
  /\ current_year' = 0 /\ funded_in' = 0
  /\ history' = <<>>
  /\ UNCHANGED <<initial_aum, policy, family, loop>>

(* run_simulation_json, _binary or _both up to the loop over the years;    *)
(* with no year to simulate the call returns at once.                      *)
RunSimulation(total_years) ==
  /\ Called
  /\ total_years > 0
  /\ current_year + total_years <= MaxYears
  /\ virtual_share_percentage' = PerStirpesShares(parent_index)
  /\ years_left' = total_years
  /\ pc' = "year"
  /\ UNCHANGED <<fund, heirs, branch_id, parent_index, active_heir_count,
                 base_contributions, i, initial_heir_count, tick>>

-----------------------------------------------------------------------------
(* step_demographics: the heirs to visit are counted once.                 *)
StepDemographics ==
  /\ pc = "year"
  /\ years_left > 0
  /\ initial_heir_count' = Len(heirs)
  /\ i' = 1
  /\ pc' = "aging"
  /\ UNCHANGED <<fund, family, years_left, tick, calls>>

(* tick_annual_aging.                                                      *)
Aged(heir) ==
  [heir EXCEPT !.age = @ + 1,
               !.state = IF heir.age + 1 >= Majority THEN "ACTIVE" ELSE @]

(* The base contribution an adult deposits from.                           *)
BaseOf(k) ==
  IF base_contributions[k] > 0 THEN base_contributions[k] ELSE DefaultBase

(* Slip: the children born this year are visited as well.                  *)
HeirsAreLeft == i <= Len(heirs)
HeirToVisit == i <= initial_heir_count

(* The next heir grows a year older and, once of age, deposits capital.    *)
AgeAndDeposit(shock) ==
  LET aged == Aged(heirs[i])
  IN  /\ pc = "aging"
      /\ HeirToVisit
      /\ IF aged.age >= Majority
         THEN /\ base_contributions' = [base_contributions EXCEPT ![i] = BaseOf(i)]
              /\ heirs' = [heirs EXCEPT ![i] =
                             [aged EXCEPT !.annual_capital_contribution =
                                            BaseOf(i) * shock]]
         ELSE /\ heirs' = [heirs EXCEPT ![i] = aged]
              /\ UNCHANGED base_contributions
      /\ pc' = "branching"
      /\ UNCHANGED <<fund, tree, active_heir_count, years_left, i,
                     initial_heir_count, tick, calls>>

(* Slip: the heir keeps the code of its old branch.                        *)
FoundUnderOldCode ==
  /\ pc = "branching"
  /\ heirs[i].age \in BranchAges
  /\ AddSubBranch(heirs[i].branch_index, SpawnCode + Len(branch_id))
  /\ heirs' = [heirs EXCEPT ![i].branch_index = Len(branch_id')]
  /\ pc' = "birth"
  /\ UNCHANGED <<fund, base_contributions, years_left, i, initial_heir_count,
                 tick, calls>>

(* The heir founds a sub-branch of its branch and moves there.  No counter *)
(* of heirs changes.                                                       *)
FoundSubBranch ==
  LET code == SpawnCode + Len(branch_id)
  IN  /\ pc = "branching"
      /\ heirs[i].age \in BranchAges
      /\ AddSubBranch(heirs[i].branch_index, code)
      /\ heirs' = [heirs EXCEPT ![i].branch_index = Len(branch_id'),
                                ![i].branch_id = code]
      /\ pc' = "birth"
      /\ UNCHANGED <<fund, base_contributions, years_left, i,
                     initial_heir_count, tick, calls>>

(* Slip: the draw is repeated until it says yes.                           *)
DrawAgain ==
  /\ pc = "branching"
  /\ UNCHANGED vars

(* The heir is too young, too old, or the draw says no.                    *)
StayInBranch ==
  /\ pc = "branching"
  /\ pc' = "birth"
  /\ UNCHANGED <<fund, family, years_left, i, initial_heir_count, tick, calls>>

NextHeir ==
  /\ i' = i + 1
  /\ pc' = "aging"
  /\ UNCHANGED <<fund, years_left, initial_heir_count, tick, calls>>

ChildBase(base) == IF base \div 2 > 0 THEN base \div 2 ELSE DefaultBase

(* Slip: the child gets no base contribution of its own.                   *)
BearUnendowed ==
  /\ pc = "birth"
  /\ heirs[i].age \in BirthAges
  /\ AddBeneficiary(heirs[i].branch_index, 0, 0)
  /\ NextHeir
  /\ UNCHANGED <<tree, base_contributions>>

(* The heir has a child, a minor of its present branch.                    *)
BearChild ==
  /\ pc = "birth"
  /\ heirs[i].age \in BirthAges
  /\ AddBeneficiary(heirs[i].branch_index, 0, 0)
  /\ base_contributions' =
       Append(base_contributions, ChildBase(base_contributions[i]))
  /\ NextHeir
  /\ UNCHANGED tree

StayChildless ==
  /\ pc = "birth"
  /\ NextHeir
  /\ UNCHANGED family

-----------------------------------------------------------------------------
(* calculate_global_cap.                                                   *)
GlobalCap(aum) == (aum * policy.cap_num) \div policy.cap_den

(* The registry as the settlement finds it, with these shares.             *)
RegistryWith(shares) ==
  [state |-> [k \in DOMAIN heirs |-> heirs[k].state],
   claim |-> [k \in DOMAIN heirs |->
                heirs[k].annual_capital_contribution * Multiplier],
   branch_index |-> [k \in DOMAIN heirs |-> heirs[k].branch_index],
   base |-> [k \in DOMAIN heirs |-> heirs[k].last_approved_base_payout],
   spillover |->
     [k \in DOMAIN heirs |-> heirs[k].last_approved_spillover_payout],
   share |-> shares,
   count |-> active_heir_count]

PaidBy(books) ==
  [k \in DOMAIN heirs |->
     [heirs[k] EXCEPT !.last_approved_base_payout = books.base[k],
                      !.last_approved_spillover_payout = books.spillover[k]]]

(* step_annual_tick up to the deduction from the ledger: the market, the   *)
(* cap, the shares and the settlement.                                     *)
Tick(growth) ==
  LET grown == (current_aum * growth) \div 2
      cap == GlobalCap(grown)
      shares == PerStirpesShares(parent_index)
  IN  /\ current_year' = current_year + 1
      /\ virtual_share_percentage' = shares
      /\ \E registry \in {RegistryWith(shares)} :
         \E books \in {AnnualSettlement(registry, cap, policy.mode)} :
           /\ heirs' = PaidBy(books)
           /\ current_aum' = grown - books.total
           /\ tick' = [starting_aum |-> current_aum,
                       market_gain |-> grown - current_aum,
                       global_cap |-> cap,
                       total_disbursed |-> books.total]
      /\ pc' = "snapshot"
      /\ UNCHANGED <<initial_aum, policy, history, funded_in, branch_id,
                     parent_index, active_heir_count, base_contributions,
                     years_left, i, initial_heir_count>>

(* The tick of a simulation, once the engine is through the heirs.         *)
StepAnnualTick(growth) ==
  /\ pc = "aging"
  /\ ~HeirToVisit
  /\ Tick(growth)
  /\ UNCHANGED calls

(* step_annual_tick called by itself: a year in which nobody ages.         *)
TickAlone(growth) ==
  /\ Called
  /\ current_year < MaxYears
  /\ Tick(growth)

TotalOf(field) == Total([k \in DOMAIN heirs |-> heirs[k][field]], DOMAIN heirs)

(* capture_telemetry_snapshot: the heirs; no branch is ever recorded.      *)
HeirSnapshots ==
  [k \in DOMAIN heirs |->
     LET heir == heirs[k] IN
     [base_payout |-> heir.last_approved_base_payout,
      spillover_payout |-> heir.last_approved_spillover_payout,
      unmet_demand |-> heir.annual_capital_contribution * Multiplier
                         - heir.last_approved_base_payout
                         - heir.last_approved_spillover_payout]]

(* The return on the year's market is recorded as the money it made.       *)
Snapshot(ending_aum) ==
  [year |-> current_year,
   starting_aum |-> tick.starting_aum,
   ending_aum |-> ending_aum,
   market_gain |-> tick.market_gain,
   global_cap_dollars |-> tick.global_cap,
   total_base_disbursed |-> TotalOf("last_approved_base_payout"),
   total_spillover_disbursed |-> TotalOf("last_approved_spillover_payout"),
   unused_surplus_retained |->
     IF tick.global_cap > tick.total_disbursed
     THEN tick.global_cap - tick.total_disbursed ELSE 0,
   heir_states |-> HeirSnapshots]

(* Slip: the snapshot shows the fund as it was before the deduction.       *)
RecordBeforeDeduction ==
  /\ pc = "snapshot"
  /\ history' = Append(history, Snapshot(current_aum + tick.total_disbursed))
  /\ tick' = NoTick
  /\ IF years_left = 0
     THEN pc' = "idle" /\ UNCHANGED years_left
     ELSE pc' = "year" /\ years_left' = years_left - 1
  /\ UNCHANGED <<initial_aum, current_aum, current_year, policy, funded_in,
                 family, i, initial_heir_count, calls>>

(* The rest of step_annual_tick: the snapshot goes into the history, and   *)
(* the tick returns to the simulation, if one runs, or to its caller.      *)
RecordYear ==
  /\ pc = "snapshot"
  /\ history' = Append(history, Snapshot(current_aum))
  /\ tick' = NoTick
  /\ IF years_left = 0
     THEN pc' = "idle" /\ UNCHANGED years_left
     ELSE pc' = "year" /\ years_left' = years_left - 1
  /\ UNCHANGED <<initial_aum, current_aum, current_year, policy, funded_in,
                 family, i, initial_heir_count, calls>>

(* The loop over the years is through; the export reads the history.       *)
FinishSimulation ==
  /\ pc = "year"
  /\ years_left = 0
  /\ pc' = "idle"
  /\ i' = 0 /\ initial_heir_count' = 0
  /\ UNCHANGED <<fund, family, years_left, tick, calls>>

-----------------------------------------------------------------------------
(* The steps of a simulation that has started.                             *)
Step ==
  \/ StepDemographics
  \/ \E shock \in Shocks : AgeAndDeposit(shock)
  \/ FoundSubBranch \/ StayInBranch
  \/ BearChild \/ StayChildless
  \/ \E growth \in Growths : StepAnnualTick(growth)
  \/ RecordYear
  \/ FinishSimulation

Next ==
  \/ \E seed \in Seeds : SeedEstate(seed)
  \/ \E p \in Policies : SetPolicyEngine(p)
  \/ \E aum \in Endowments : SetInitialAum(aum)
  \/ Reset
  \/ \E growth \in Growths : TickAlone(growth)
  \/ \E n \in TotalYears : RunSimulation(n)
  \/ Step

(* A simulation that has started runs on: it has nothing to wait for.      *)
Spec == Init /\ [][Next]_vars /\ WF_vars(Step)

-----------------------------------------------------------------------------
HeirState == {"MINOR", "ACTIVE"}

(* The type invariant: every heir sits in a branch of the arena, and every *)
(* branch but the root below one that came before it.                      *)
TypeOK ==
  /\ initial_aum \in Endowments /\ current_aum \in Int
  /\ current_year \in Nat /\ funded_in \in 0 .. current_year
  /\ policy \in Policies
  /\ \A k \in DOMAIN heirs :
       /\ heirs[k].age \in Nat
       /\ heirs[k].state \in HeirState
       /\ heirs[k].branch_index \in DOMAIN branch_id
       /\ heirs[k].annual_capital_contribution \in Nat
       /\ heirs[k].last_approved_base_payout \in Nat
       /\ heirs[k].last_approved_spillover_payout \in Nat
  /\ \A b \in DOMAIN parent_index :
       /\ parent_index[b] \in IF b = 1 THEN {NoBranch} ELSE 1 .. b - 1
       /\ virtual_share_percentage[b] \in Nat \ {0}
       /\ active_heir_count[b] \in 0 .. CountRange - 1
  /\ pc \in {"idle", "year", "aging", "branching", "birth", "snapshot"}
  /\ years_left \in Nat
  /\ initial_heir_count \in 0 .. Len(heirs)
  /\ i \in 0 .. initial_heir_count + 1

(* The engine's base contributions go with the heirs they belong to: the   *)
(* two arenas live in different classes and grow in different calls, and   *)
(* one is indexed by the other's indices.                                  *)
ContributionsAligned == Len(base_contributions) = Len(heirs)

(* The children born in the course of a year's loop wait for the next: the *)
(* loop appends to the arena it walks and yet visits none of them.         *)
NewbornsWait ==
  pc \in {"aging", "branching", "birth"} =>
    \A k \in initial_heir_count + 1 .. Len(heirs) :
      heirs[k].age = 0 /\ heirs[k].annual_capital_contribution = 0

(* Codes identify branches, those seeded and those spawned later, and the  *)
(* code and the index an heir carries name the same branch.                *)
CodesIdentifyBranches ==
  /\ \A b, c \in DOMAIN branch_id : branch_id[b] = branch_id[c] => b = c
  /\ \A k \in DOMAIN heirs :
       heirs[k].branch_id = branch_id[heirs[k].branch_index]

(* Every year that had a cap accounts for its money: what the heirs got is *)
(* what the fund lost beside the market's gain, what the cap left is       *)
(* retained, and no heir got more than its claim.                          *)
SnapshotsAccount ==
  \A k \in DOMAIN history :
    LET snap == history[k]
        paid == snap.total_base_disbursed + snap.total_spillover_disbursed
    IN  snap.global_cap_dollars > 0 =>
          /\ snap.ending_aum = snap.starting_aum + snap.market_gain - paid
          /\ snap.unused_surplus_retained
               = IF snap.global_cap_dollars > paid
                 THEN snap.global_cap_dollars - paid ELSE 0
          /\ \A h \in DOMAIN snap.heir_states :
               snap.heir_states[h].unmet_demand >= 0

(* The history is one unbroken ledger, over several simulations and resets *)
(* as well: the years count from 1 without a gap, the one after the fund   *)
(* was given money starts with it, and each later one with what the one    *)
(* before has left.                                                        *)
HistoryChains ==
  LET opening(k) == IF k = funded_in + 1 THEN initial_aum
                    ELSE history[k - 1].ending_aum
  IN  /\ current_year = Len(history) + (IF pc = "snapshot" THEN 1 ELSE 0)
      /\ (IF pc = "snapshot" THEN tick.starting_aum ELSE current_aum)
           = opening(Len(history) + 1)
      /\ \A k \in DOMAIN history : history[k].year = k
      /\ \A k \in funded_in + 1 .. Len(history) :
           history[k].starting_aum = opening(k)

(* The branches below branch p.                                            *)
LineOf(p) ==
  LET below[b \in DOMAIN parent_index] ==
        b # 1 /\ (parent_index[b] = p \/ below[parent_index[b]])
  IN  {b \in DOMAIN parent_index : below[b]}

(* Per stirpes, a family that grows takes from nobody else: when an heir   *)
(* founds a sub-branch only branches below its own change their share.     *)
LinesKeepTheirShare ==
  [][pc = "branching" =>
       \A b \in DOMAIN branch_id :
         virtual_share_percentage'[b] # virtual_share_percentage[b]
           => b \in LineOf(heirs[i].branch_index)]_vars

(* Every simulation comes to its end, whatever is born on the way.         *)
SimulationEnds == pc # "idle" ~> pc = "idle"

-----------------------------------------------------------------------------
(* What the documents and comments say of every simulation.                *)

(* BranchNode.hpp: the counter counts the active contributing heirs.       *)
ContributorsAreCounted ==
  pc = "year" =>
    \A b \in DOMAIN branch_id :
      Cardinality({k \in DOMAIN heirs :
                     /\ heirs[k].branch_index = b
                     /\ heirs[k].state = "ACTIVE"
                     /\ heirs[k].annual_capital_contribution > 0})
        <= active_heir_count[b]

(* TelemetryTypes.hpp: the totals of a snapshot sum up its payouts.        *)
TotalsArePayouts ==
  \A k \in DOMAIN history :
    history[k].total_base_disbursed + history[k].total_spillover_disbursed
      = history[k].starting_aum + history[k].market_gain - history[k].ending_aum

=============================================================================
