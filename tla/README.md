# A verification development for WealthHypervisor

WealthHypervisor simulates a family fund over decades: a tree of family
branches, heirs who deposit capital and claim a multiple of it, a yearly cap on
what the fund may pay, and a settlement that splits the cap per stirpes. This
directory holds TLA+ modules translated from its source, the TLC
configurations that check them, theorems about them checked by TLAPS, and this
guide. Paths below are relative to the root of the repository; TLA+ files are
in this directory.

    tlc -workers 2 -config settlement.cfg MCSettlement     # one run
    tlapm SettlementProofs.tla                             # one proof module

## 1. Inventory

The program is single threaded. All of its hard behaviour is sequential: loops
that mutate the arena they walk, state that survives from one year to the next,
counters kept beside the things they count, and calls that may come in any
order. Nothing is sent over a network. What can fail is an export: the file
system may refuse any of its calls, and the process may die with a file half
written, which the parser, a separate program, will then find.

| Component (source) | State | Operations | Used by | What makes it correct |
|---|---|---|---|---|
| Branch tree (`src/LineageRegistry.cpp`, `include/BranchNode.hpp`) | an arena of branches with parent, first-child and next-sibling indices, a 16-bit child counter and a share | `create_root_branch`, `add_sub_branch`, `rebalance_per_stirpes_shares` | master fund, demographic engine | sibling chains list exactly the children; shares are per stirpes after every call and add up to 100% at the leaves; links given out stay valid |
| Heirs and settlement (`src/LineageRegistry.cpp`, `include/Beneficiary.hpp`) | an arena of heirs with state, contribution and last payouts; per-branch heir counters; scratch vectors of the year | `add_beneficiary`, `tick_annual_aging`, `deposit_capital`, `execute_annual_settlement_future`, the older `execute_annual_settlement` | master fund, demographic engine | no heir gets more than it claims, no branch more than its entitlement, no grant breaks the cap or a ceiling, nothing grantable is left, all tallies agree |
| Policy engine (`include/PolicyEngine.hpp`) | mode, ratios, multiplier | cap of the year, ceiling of a branch | settlement, tick | each mode means what the documents say |
| Demographic engine (`src/DemographicEngine.cpp`) | a base contribution per heir, two random sources | `seed_estate`, `step_demographics` | the simulation loop | its vector stays in step with the registry's arena; newborns wait for next year; an heir that moves is moved consistently |
| Master fund (`src/MasterFund.cpp`) | the ledger, the year, the history | `step_annual_tick`, three `run_simulation_*`, `reset`, setters | the program | every unit of money is accounted for; the history is one gapless ledger |
| Telemetry (`src/TelemetryLogger.cpp`, `include/TelemetryTypes.hpp`, `tools/parse_telemetry.py`) | the history; files | record, clear, JSON export, memory-mapped binary export; a reader | master fund | writer and reader agree; a success means the file is complete |
| Random numbers, market (`include/random.h`, `include/MarketEngine.hpp`) | generator words, a pool of variates and its cursor | seed, draw, refill | demographic engine, tick | what is computed ahead shows to nobody; no draw is used twice, none survives a new seed, none is read past the pool |
| mio (`include/mio.hpp`, vendored) | the fields of a mapping; descriptors and mapped regions of the process | map, move, sync, unmap, destructor | binary export | a mapping lives as long as somebody writes to it; none is released twice and none stays behind |
| Tests, benchmark, build | | | | read as statements of intent |

The hazards, each with its line and the properties that watch it, are the
`hazards` of `PROJECT.json`.

## 2. Modules

| Module | Stands for |
|---|---|
| `FamilyTree` | abstract specification: a growing rooted tree with per-stirpes shares, no layout |
| `BranchTree` | the branch arena, one step per loop iteration; implements `FamilyTree` |
| `MCBranchTree` | its instances, and that the unit of their shares is fine enough |
| `BranchTreeProofs` | theorems about `BranchTree` |
| `Sums` | the total of a set of amounts |
| `SumTheorems` | lemmas about totals and about induction |
| `SettlementRules` | caps, ceilings and the whole settlement as a function of registry, cap and mode |
| `RulesTheorems` | theorems about `SettlementRules` |
| `Settlement` | `execute_annual_settlement_future`, one step per loop iteration, year after year |
| `MCSettlement` | its instances, claims of the documents |
| `SettlementProofs` | theorems about `Settlement`: claims, caps, ceilings, entitlements; its tallies; that its loops compute `SettlementRules` |
| `LegacySettlement` | the older `execute_annual_settlement` and the newer one, on the same registry, year after year |
| `MCLegacySettlement` | its instances |
| `LegacyProofs` | theorems about `LegacySettlement` |
| `Estate` | a simulation: master fund, demographic engine, registry, policy, history |
| `MCEstate` | its instances |
| `EstateProofs` | theorems about `Estate` |
| `MemoryMap` | mio's `basic_mmap` over descriptors, mapped regions and file sizes |
| `TelemetryExport` | history, both exports and the parser of the binary file, over `MemoryMap` |
| `MCTelemetryExport` | its instances |
| `TelemetryProofs` | theorems about `TelemetryExport` and the `MemoryMap` it uses |
| `NormalStream` | abstract specification: a stream of normal variates, each pair drawn when it is asked for |
| `RandomPool` | generator, pool and both owners; implements `NormalStream` |
| `MCRandomPool` | its instances |
| `RandomPoolProofs` | theorems about `RandomPool` |

`Estate` composes the others: a tick applies the function of `SettlementRules`
which the loops of `Settlement` are proved to compute (`LoopsMatchRules`), and
gives every branch the share the loops of `BranchTree`
are shown to compute (`SharesPerStirpes`). `LegacySettlement` runs the older
settlement beside the same function. `TelemetryExport` composes the logger with
`MemoryMap` and the parser; the history it exports is the one `Estate` appends
to. `RandomPool` is where the draws come from that `Estate` leaves open.

### How state and actions correspond to the code

*BranchTree.* Field `f` of `branch_arena[i]` is `f[i]`; `size` is the arena's
size. A call of `add_sub_branch` is `AddSubBranch` (append, decide between
first child and walk), `WalkSiblings` per link, `LinkSibling`, and then the two
nested loops of the rebalance: `EnterChildren`, `ShareWithChild`,
`LeaveChildren`, `SkipLeaf`, `Return`. `pc` names the loop the call is in. The
16-bit `child_count` wraps at `CountRange`. A call with an invalid index
returns without a change and is a stutter.

*Settlement.* One action per branch of each loop: `RefuseSettlement` is the
early return, `BeginSettlement` the set-up, `SettleBase` an iteration of
phase 1, `OpenSpillover` the entry into phase 3, `PassOver` and
`GrantSpillover` its two kinds of iteration, `FinishBase` and
`FinishSpillover` the returns. `ComeOfAge` and `DepositCapital` change heirs
between settlements. `active_heir_index` is rebuilt by every settlement (the
dirty flag is read nowhere) and always lists heirs in arena order, so it is a
set visited in ascending order. The scratch vectors of the code are variables
because they survive the call.

*Estate.* Arenas are sequences, index `k` of the code being `k + 1`.
`SeedEstate`, `SetInitialAum`, `SetPolicyEngine`, `Reset`, `RunSimulation` and
`TickAlone` (a tick outside a simulation) are the calls of the embedding
program. Within a simulation `StepDemographics` counts the heirs
to visit; then for every heir `AgeAndDeposit`, `FoundSubBranch` or
`StayInBranch`, `BearChild` or `StayChildless`; then `StepAnnualTick` up to the
deduction and `RecordYear` for the snapshot; `FinishSimulation` ends the call.
Every random draw is a choice. The export after the loop reads the history and
changes nothing of this state.

*LegacySettlement.* A year is one step: `ExecuteAnnualSettlement` applies
`LegacyBooks`, whose recursive function `after` is the loop of phase 3 (the
state after `k` heirs) and `BasePayout` the iteration of phase 1;
`BranchByCode` is the search both loops make for an heir's branch.
`ExecuteAnnualSettlementFuture` applies `AnnualSettlement` to the same registry,
so that the two can be compared in every reachable state and mixed from year to
year.

*MemoryMap.* An object's fields are a record of `mmap`; an address is a region
and a byte. `MapPath` is the whole of `map(path, ...)`, which opens the file
and calls `map(handle, ...)`; `MapPathFails` are its error returns, with or
without the descriptor it opened. `ReturnMapping` is the move out of
`make_mmap`, `Unmap`, `Sync` and `Destroy` the member functions.

*TelemetryExport.* `RunSimulation` records the years and leaves the exports the
call ends with in `todo`. The JSON export is `Open`, `WriteJson` per record (or
`WriteJsonFails`, after which the stream drops everything) and `CloseJson`. The
binary export is `Open`, `ResizeBinary` (seek, put, close), `MakeSink`,
`MapBinary` or `MapBinaryFails`, `GetSink`, `FillBinary` per record,
`SyncBinary`, `UnmapBinary`, `LeaveBinary`; `RefuseBinary` is an error return.
`OpenFails` is the first check of both. `Crash` may happen at any of these
steps. `ReadFile` and `Accepted` are the parser, as operators on what is in the
file: they are evaluated in every state, so the parser may be run at any time.

*RandomPool.* `SetSeed`, `DrawDirectly`, `BeginRefill` (a `get_next` that finds
the pool used up), `DrawPair`, `Redraw`, `StorePair` (the loop of `refill`),
`GetFirst` and `GetNext` (the two ways to return). The refinement maps the
cursor and the half-filled pool to the position in the stream (`Upcoming`).

### Abstractions

- **Shares are reciprocals.** The registry only ever stores 1, 0 or a share
  divided by a number of children, so a share is 1/d or 0 (kept as d or 0).
  The rounding of doubles is left out.
- **Money is whole units**, and the instances of `Settlement` are chosen so
  that no division leaves a remainder, which the assumption `ExactMoney` of
  `MCSettlement` makes TLC verify. In `Estate` divisions round down; its
  properties are about sums and do not depend on exact quotients.
- **`INVALID_INDEX`** is 2147483647 in the configurations, TLC's largest
  integer, for the code's 2^32 - 1; the proofs need only that it is no slot.
- **Contributions are not negative** and a registry has at least one heir in
  `Settlement` (without heirs the code returns at once; `Estate` includes the
  empty registry).
- **`DECEASED`** is a state nothing in the repository enters (SPEC.md describes
  a transition to it; there is no code for one). `Settlement` admits it in the
  registries it is proved for.
- **Ages.** The ages of majority, of founding and of births are parameters of
  `Estate`; the instance scales them down so that a newborn comes of age within
  the years simulated. What matters is their order, which `EstateAssumption`
  states.
- **Files** are sequences of records. A record is written to the mapping in one
  step; a crash tears a file between records, which for the parser differs from
  a tear within one only in the amounts of that year. What was written to a
  mapping is in the file when the process is killed; loss of power is not
  modelled. The signal a full disk sends to a process that writes to a hole of
  a mapped file is a crash. JSON has one record per year, and its formatting is
  left out. The program's own years have no branch states; the logger takes any.
- **A draw** is named by its seed and its number, a variate by the draws it is
  computed from; which draws are tiny (at most 1e-15) is a parameter.
- **Left out:** identifiers of heirs, `heir_start_index` (written, never acted
  on), capacities reserved in vectors, `branch_states` of a snapshot (never
  filled, which the repository's README lists as a known issue), the ratios of
  a policy other than its mode and cap.

## 3. Runs

| Run | Bounds | Shows |
|---|---|---|
| `branch_tree` | up to 7 branches, every tree, every order of grafts | complete ordered chains, per-stirpes shares, leaf shares of 100%, stable links, every call returns, refinement of `FamilyTree` |
| `settlement` | 3 heirs, 3 branches, all trees, all placements, 2 years, 1 change in between | what a settlement guarantees with right and with wrong counters, and that its loops compute `AnnualSettlement` |
| `estate` | 4 calls, 2 amounts of money, histories of up to 2 years, 3 heirs, 4 branches, 2 families, 3 policies | engine and registry in step, newborns wait, codes identify branches, the ledger accounts for all money over resets, new money, lone ticks and repeated simulations, founding dilutes nobody else, simulations end |
| `legacy` | 3 heirs, 3 branches, all placements, two of them sharing a code or not, 2 years, 1 change | the older settlement pays what the newer one would while codes lead to the right branches; it keeps claims and ceilings even when they do not; its payouts in the arena overstate a year by exactly the spillover it found there, and the newer one starts afresh |
| `telemetry` | 2 simulations, 2 years, 2 kinds of years, 4 sequences of exports, 2 descriptors, any system call failing, a kill at any step | the writer stays within its mapping; what was reported as exported is read back as recorded; a torn file ends in blank years and is never misread; nothing stays mapped or open but the descriptor of a failed map; every export returns |
| `pool` | 2 seeds, 5 requested sizes, runs of tiny draws, 12 calls | no draw serves two pairs or two seeds, every call returns, the pool is a stream to its callers |
| `child_count_wraps` | 6 branches, a counter of 4 values | *violation*: leaf shares exceed 100% after the 16-bit counter wraps |
| `cap_breached` | 2 heirs, 2 branches | *violation*: overlapping base caps of a branch and its sub-branch exceed the cap |
| `pooling_is_strict` | 2 heirs, 2 branches | *violation*: dynamic pooling never pools |
| `founder_not_counted` | one founder | *violation*: a founder's new branch counts no heir |
| `json_truncated` | as `telemetry` | *violation*: a JSON export that could not be written is reported as exported |
| `paused_year` | one founder, two policies | *violation*: a year that pays nothing reports the payouts of the year before |

**Why the bounds are enough.** Seven branches give every shape a chain walk or
a rebalance can meet: chains of up to six siblings, six levels, and siblings
whose nodes lie apart in the arena. Three heirs in three branches give heirs
that share a branch, sit above one another or in unrelated branches, with a
surplus that ends before, at or after the last heir; two years show what
survives a year. In `estate` an heir can found and have a child in the same
year, a newborn comes of age in the second year, and a simulation can follow a
reset, another simulation or a new seed; two years are the least in which a
snapshot has a predecessor. The counter of four values stands for 2^16: only
the distance to the wrap differs. In `telemetry` two simulations let an export meet the file of
an earlier one, longer or shorter; two descriptors are one less than a failed
map and an export need together, so that they run out. In `pool` twelve calls
are two batches of the largest size and a new seed at every place in them.

**Each violation is a disagreement between code and a document, comment or
test**, quoted in `findings`. The root of `founder_not_counted` shows elsewhere
too: `active_heir_count` is changed by `add_beneficiary` alone, while the
settlement divides by it, and coming of age changes who claims in a branch as
well. `settlement` includes that case: what it claims of a branch's bounds it
claims of branches whose counter covers their heirs.

**Fairness.** Every specification has weak fairness of `Step`, the steps of a
call that is already running, and of nothing else: no call is ever forced to
start. The code justifies it because a running call is straight-line code and
loops that wait for nothing. Liveness then says that the walks and loops end
(`CallsReturn`, `SettlementReturns`, `SimulationEnds`, `ExportsReturn`). In `Estate` the loop
over heirs appends to the arena it walks, so its end is not obvious.

In `RandomPool` a refill ends because no run of tiny draws is endless.

**Deadlock** is checked for `branch_tree` and `child_count_wraps`, where some
call is always possible.
The other runs switch it off because their bounds on years and calls stop them.

**Mutants.** Definitions headed "Slip:" are plausible bugs (a guard dropped, an
update forgotten, an order swapped). None is part of a specification: putting
one in the place of the definition beside it must violate the property
`PROJECT.json` names.

## 4. Proofs

*`BranchTreeProofs`*, for any `MaxBranches`, under `BranchAssumption` and
`ShortOfWrap` (no branch can have as many children as the counter has values;
past it the properties are false, as `child_count_wraps` shows). `SiblingChains`
is not inductive: it must also be known that slots not yet linked carry no
links (`FreshSlots`), that the walk of a graft is on the chain of the new
node's parent and that parents precede children (`GraftInv`), and which shares
the two nested loops have already written (`LoopInv`). Their conjunction with
`TypeOK` is `IInv`; every action has a lemma that it preserves it. From
`IInv` follow `TypeCorrect`, `ChainsCorrect`, `PerStirpes`, `StableLinks` and
`RefinesFamilyTree`: the initial states map to initial states, grafts and
rebalances to theirs, loop iterations to stutters, and the return to `Settle`.
`LeavesOwnTheFund` is about a sum over the whole tree. The parts of the children
of a branch add up to its own (`ChildrenOwnTheParent`, an even split), so the
parts of the inner branches are those of all children of theirs, which are all
branches but the root (`TotalOfTotals`); what is over on the side of the leaves
is the part of the root. The statement counts shares in parts of `Scale` and is
about trees in which those are whole (`PartsAreWhole`). The theorem holds for
every `Scale`, and every tree has one that is fine enough; for the trees of the
run TLC verifies it (`ScaleIsEnough`).

*`SettlementProofs`* has three parts. The first, for any registries, multiplier, ratio, caps and numbers of
heirs, branches and years, under `SettlementAssumption`, with nothing assumed of
the counters, is about what is paid. Its invariant adds to the properties what each phase has done to
the heirs it has visited: `PayoutInv`, `DrawnInv` (in phase 1 a branch has
drawn at most its visited heirs' parts, which gives the branch bound because n
parts of an even split into at least n are within the whole) and `SpilloverInv`
(a visited heir has no demand, no room or no surplus left, which stays true
because rooms and surplus only shrink). From it follow `TypeCorrect`,
`PayoutsWithinClaims`, `SpilloverKeepsCap`, `GrantsKeepCeiling`,
`BranchesWithinEntitlement` and `SpilloverIsComplete`.

*`SumTheorems` and `RulesTheorems`.* A total is defined by a recursion over a
set and the grants of a settlement by a recursion over its heirs. The induction
theorems of the library take a predicate as a parameter, which the provers
cannot instantiate; what they can do is pick a least element. So the inductions
here are over sets: `NatSet` says that a set which contains 0 and the successor
of each of its numbers contains all of them, `ProperSubsets` the same of the
subsets of a finite set, and each is applied to the set of the cases for which
a statement holds. With them a recursive definition is shown to have a solution
(`IterExists`, `GrantsExist`, `SharesExist`, `LineExists`), hence to obey its
own equation, and from that equation follow `TotalRemove` (any element may be
added last), `TotalSplit`, `TotalChange` and the others, `GrantsUnique` (nothing
else solves the equation of the grants) and `SettlementPays`: what the rules
disburse is what the heirs are paid, none of it negative or above a claim.

The second part adds the sums to the invariant. `BooksBalance` is kept because each payout is charged
once to the fund, once to the branch and once to the heir. `CappedIfEntitled`
follows from it and the bound on each branch, once it is also known that a
branch nobody claims in is never charged (`UnclaimedUndrawn`). The theorems are
`TalliesAgree` and `EntitlementsBoundTheYear`.

The third part shows that the two loops compute the recursive function:
`LoopsMatchRules`, for registries of any size. The invariant says which heirs
the call visits and in which order (`CallInv`), that the tallies of fund and
branch are totals over the heirs visited (`TallyInv`), and that each visited
heir was granted what the rule says given the grants to the heirs before it
(`GrantsInv`). The last is the heart of it: the loop looks at running tallies,
the rule at totals over earlier heirs, and they agree because no later heir has
been granted anything yet. An heir that is passed over, and all those left when
the surplus is spent, would be granted nothing by the rule. At the end the
grants solve the equation that defines `Grants`, which has one solution.

*`EstateProofs`*, for families, trees, ledgers and simulations of any size and
whatever is drawn, under `EstateAssumption` (the multiplier and the ratio are
not negative, seeds name branches they have, nobody founds or bears before
coming of age). `TreeInv` says that parents precede children, that the shares
are those of the tree and that no code is used twice: the codes the engine
gives are above all earlier ones because they grow with the arena, and none is
removed. `HeirsInv` ties every heir to its branch and every contribution to its
heir; `LoopInv` keeps the loop within the heirs that were there when the year
began; `FundInv` holds the ledger, with `TickAccounts` for the year whose
snapshot is not yet taken: what was deducted is what the heirs hold. That last
part needs `SettlementPays` and that a minor has never been paid. From it
follow `TypeCorrect`, `ArenasGrowTogether`, `ChildrenWait`, `CodesAreUnique`,
`EveryYearAccounts` and `LedgerIsUnbroken`. `GrowthStaysInTheLine` is about a
step: a graft changes the number of siblings of the new branch only, so that by
induction along the tree every branch outside the line of its parent keeps its
share (`SharesKept`).

*`RandomPoolProofs`*, for any seeds, requested sizes and sets of tiny draws,
under `PoolAssumption`. `PhaseInv` and `PendingInv` say where the call and its
pair of draws stand, `VariatesInv` that every variate of the batch is a proper
one of the present seed, `ChainInv` that neighbours in the pool are the halves
of one pair or of adjacent pairs (adjacent as long as nobody else draws in
between, which during a refill nobody can), and `OrderInv` that draws rise along
the pool. From their conjunction with `TypeOK` follow `TypeCorrect` and
`DrawsAreFresh`, and step by step `RefinesStream`: a refill is a stutter, a
delivery the next delivery of the stream, a direct draw a `Skip`, a new seed a
`Reseed`.

*`LegacyProofs`*, for registries of any size in which several branches may bear
one code, under `LegacyAssumption`. A year of this module is one step, so the
type invariant is inductive, and the work is in the step. The recursive function
`after` of `LegacyBooks` is unfolded heir by heir; `LoopInv` says of the state
after `k` heirs that the grants given so far are those the older loop owes
(`LegacyGrant`), that the tallies of branches and fund are totals of them, and
that a branch charged with a grant is within its ceiling. At the end the grants
solve the equation of the older loop. Where codes lead home it is the equation of
the newer one, whose solution is unique (`GrantsUnique`): hence
`Interchangeable`. `LegacyBounds` needs no such condition. `CarriedOver` and
`Afresh` compare, by totals, what the arena shows after a year with what was
paid in it.

*`TelemetryProofs`*, for any number of descriptors, regions, years, simulations
and sequences of exports, and any snapshot sizes, under `MemoryAssumption` (a
page has a size; the null address, the invalid handle and "closed" are none of
the proper values) and `ExportAssumption`. The invariant has four parts:
`Types`; `Exporting`, which export is running and of which history; `Written`,
the binary file is a prefix of the layout of that history, empty or of the size
computed for it; `Holding`, who has the mapping (the local object of
`make_mmap`, then the sink, or nobody), that it maps the whole file from byte 0,
and that no other region or descriptor is in use but those of failed maps. Every
action has a lemma that it preserves them. `WriterNeverOverruns` needs in
addition that `total_bytes`, computed branch by branch and heir by heir, is what
the records of the layout occupy and one amount a year more (`LayoutFacts`, by
induction over the years of the layout). For the reader, its recursion over the
years is unfolded (`ReadFacts`): with a prefix of the layout in the file, after
`k` years it has read `k` years of the history whole, or `w` of them whole, one
cut off and the rest blank. Reading never takes a count from another record,
because a blank count is 0 and a year cut off before a count lists nothing.
`ReportedHistoriesAreReadable` is the case in which the prefix is everything,
`TornFilesAreHarmless` the general one.

**Only model-checked:** liveness under fairness (`CallsReturn` of both modules
that have it, `SettlementReturns`, `SimulationEnds`, `ExportsReturn`), which is
beyond the prover. Every invariant and every action property of a passing run,
and both refinements, are proved. The violations are counterexamples and need
no proof.

## 5. Not modelled

A branch or an heir that the caller adds to a fund an engine has seeded is left
out of `Estate`: the engine's vector would not follow, and its next year would
read past the end of it. So is `set_market_engine`, which replaces the source of
a draw that is a choice anyway. Of mio, the Windows branches, read-only and shared mappings and
the container interface: nothing in the repository uses them. Of the parser, the
conversion to numpy and the printing. Left out for good: the bit mixing of the
generator, Box and Muller's formula and the log-normal draw (floating point),
printing, timing, build files and tests.

## 6. Plan

Done: the components of section 2, and proofs of all their invariants and action
properties. What remains, in this order:

1. For the loops whose end is only model-checked, measures that each of their
   steps decreases, as theorems about steps: what the liveness properties rest
   on besides fairness.
2. Estates changed by the caller between simulations (heirs added directly, a
   second engine), with the conditions under which engine and registry stay in
   step.
