--------------------------- MODULE LegacySettlement ---------------------------
(***************************************************************************)
(* The older settlement, execute_annual_settlement of LineageRegistry,     *)
(* which the class still offers beside execute_annual_settlement_future.   *)
(* It finds the branch of an heir by its code, visits the inactive heirs   *)
(* as well, and adds to the spillover payouts it finds.                    *)
(*                                                                         *)
(* The module settles one year after the other on a registry from          *)
(* Registries, each year by either function; the newer one is the operator *)
(* AnnualSettlement of SettlementRules.  Arenas are sequences; amounts and *)
(* shares are as in SettlementRules.                                       *)
(***************************************************************************)
EXTENDS SettlementRules, Sequences

CONSTANTS
  Registries,    \* the pairs of arenas to start from
  Contributions, \* what an heir may deposit
  GlobalCaps,    \* what the fund may offer in a year
  MaxYears,      \* bound on the number of settlements
  MaxChanges     \* bound on the number of changes to the heirs

Heir == [state : {"MINOR", "ACTIVE"}, annual_capital_contribution : Nat,
         branch_id : Nat, branch_index : Nat,
         last_approved_base_payout : Nat, last_approved_spillover_payout : Nat]

Branch == [branch_id : Nat, share : Nat, active_heir_count : Nat]

ASSUME LegacyAssumption ==
  /\ Registries \subseteq [heirs : Seq(Heir), branches : Seq(Branch)]
  /\ \A r \in Registries : \A h \in DOMAIN r.heirs :
       r.heirs[h].branch_index \in DOMAIN r.branches
  /\ Multiplier \in Nat
  /\ SpilloverNum \in Nat /\ SpilloverDen \in Nat \ {0}
  /\ Contributions \subseteq Nat /\ GlobalCaps \subseteq Int
  /\ MaxYears \in Nat /\ MaxChanges \in Nat

VARIABLES
  heirs,      \* beneficiary_arena
  branches,   \* branch_arena, which no settlement changes
  last_settled_payout,
  years, changes  \* counted to bound the instance

vars == <<heirs, branches, last_settled_payout, years, changes>>

NoBranch == 0   \* INVALID_INDEX

Init ==
  /\ \E r \in Registries : heirs = r.heirs /\ branches = r.branches
  /\ last_settled_payout = 0
  /\ years = 0 /\ changes = 0

-----------------------------------------------------------------------------
(* get_branch_index_by_id, and the same search inside the two loops.       *)
BranchByCode(code) ==
  LET named == {b \in DOMAIN branches : branches[b].branch_id = code}
  IN  IF named = {} THEN NoBranch ELSE Min(named)

(* Slip: minors claim as well.                                             *)
AnyRawClaim(h) == heirs[h].annual_capital_contribution * Multiplier

RawClaim(h) ==
  IF heirs[h].state = "ACTIVE" /\ heirs[h].annual_capital_contribution > 0
  THEN heirs[h].annual_capital_contribution * Multiplier
  ELSE 0

(* Phase 1 for heir h: an inactive heir and one without a claim are reset  *)
(* and passed over, as is one whose code names no branch.                  *)
BasePayout(h, cap) ==
  LET b == BranchByCode(heirs[h].branch_id)
  IN  IF RawClaim(h) = 0 \/ b = NoBranch
      THEN 0
      ELSE Lesser(RawClaim(h), HeirCap(BaseCap(cap, branches[b].share),
                                       branches[b].active_heir_count))

(* Slip: phase 3 does not ask whether there is demand, room and surplus.   *)
GrantUnasked(h, base, room, surplus) ==
  Lesser(RawClaim(h) - base, Lesser(room, surplus))

(* Slip: the ceiling of the branch is not consulted.                       *)
GrantPastCeiling(h, base, room, surplus) ==
  Granted(RawClaim(h) - base, surplus, surplus)

(* What phase 3 grants heir h.                                             *)
Grant(h, base, room, surplus) == Granted(RawClaim(h) - base, room, surplus)

(* Both phases.  after[k] is where phase 3 stands when k heirs have been   *)
(* visited: what the branches have drawn, what is left of the surplus and  *)
(* what each heir has been granted.  When the loop has spent the surplus   *)
(* the heirs left over get nothing, as Granted has it.                     *)
LegacyBooks(cap, m) ==
  LET code == [h \in DOMAIN heirs |-> BranchByCode(heirs[h].branch_id)]
      base == [h \in DOMAIN heirs |-> BasePayout(h, cap)]
      paid(hs) == Total(base, hs)
      room(b, drawn) == BranchCeiling(m, cap, branches[b].share) - drawn[b]
      after[k \in 0 .. Len(heirs)] ==
        IF k = 0
        THEN [drawn |-> [b \in DOMAIN branches |->
                           paid({h \in DOMAIN heirs : code[h] = b})],
              surplus |-> IF m = "HYBRID_SPILLOVER"
                          THEN cap - paid(DOMAIN heirs) ELSE 0,
              grant |-> [h \in DOMAIN heirs |-> 0]]
        ELSE LET was == after[k - 1]
                 b == code[k]
                 grant == Grant(k, base[k], room(b, was.drawn), was.surplus)
             IN  IF b = NoBranch
                 THEN was
                 ELSE [drawn |-> [was.drawn EXCEPT ![b] = @ + grant],
                       surplus |-> was.surplus - grant,
                       grant |-> [was.grant EXCEPT ![k] = grant]]
      end == after[Len(heirs)]
  IN  [base |-> base, grant |-> end.grant, drawn |-> end.drawn,
       total |-> Total(end.drawn, DOMAIN branches)]

(* The registry as AnnualSettlement takes it.                              *)
Registry ==
  LET heir(f) == [h \in DOMAIN heirs |-> heirs[h][f]]
      branch(f) == [b \in DOMAIN branches |-> branches[b][f]]
  IN  [state |-> heir("state"), branch_index |-> heir("branch_index"),
       claim |-> [h \in DOMAIN heirs |->
                    heirs[h].annual_capital_contribution * Multiplier],
       base |-> heir("last_approved_base_payout"),
       spillover |-> heir("last_approved_spillover_payout"),
       share |-> branch("share"), count |-> branch("active_heir_count")]

-----------------------------------------------------------------------------
(* Nothing to distribute or nobody to pay: either function returns at once *)
(* and leaves the payouts of the heirs as they are.                        *)
RefuseSettlement(cap) ==
  /\ years < MaxYears
  /\ cap <= 0 \/ heirs = <<>>
  /\ last_settled_payout' = 0
  /\ years' = years + 1
  /\ UNCHANGED <<heirs, branches, changes>>

(* Slip: phase 1 does not clear the base payout of an heir it passes over. *)
SettleWithoutReset(cap, m) ==
  /\ years < MaxYears
  /\ cap > 0 /\ heirs # <<>>
  /\ \E books \in {LegacyBooks(cap, m)} :
       /\ heirs' = [h \in DOMAIN heirs |->
            [heirs[h] EXCEPT
               !.last_approved_base_payout =
                 IF RawClaim(h) = 0 THEN @ ELSE books.base[h],
               !.last_approved_spillover_payout = @ + books.grant[h]]]
       /\ last_settled_payout' = books.total
  /\ years' = years + 1
  /\ UNCHANGED <<branches, changes>>

(* execute_annual_settlement.                                              *)
ExecuteAnnualSettlement(cap, m) ==
  /\ years < MaxYears
  /\ cap > 0 /\ heirs # <<>>
  /\ \E books \in {LegacyBooks(cap, m)} :
       /\ heirs' = [h \in DOMAIN heirs |->
            [heirs[h] EXCEPT
               !.last_approved_base_payout = books.base[h],
               !.last_approved_spillover_payout = @ + books.grant[h]]]
       /\ last_settled_payout' = books.total
  /\ years' = years + 1
  /\ UNCHANGED <<branches, changes>>

(* Slip: the newer settlement adds to the spillover payouts, too.          *)
FutureOnTop(cap, m) ==
  /\ years < MaxYears
  /\ cap > 0 /\ heirs # <<>>
  /\ \E books \in {AnnualSettlement(Registry, cap, m)} :
       /\ heirs' = [h \in DOMAIN heirs |->
            [heirs[h] EXCEPT
               !.last_approved_base_payout = books.base[h],
               !.last_approved_spillover_payout = @ + books.spillover[h]]]
       /\ last_settled_payout' = books.total
  /\ years' = years + 1
  /\ UNCHANGED <<branches, changes>>

(* execute_annual_settlement_future.                                       *)
ExecuteAnnualSettlementFuture(cap, m) ==
  /\ years < MaxYears
  /\ cap > 0 /\ heirs # <<>>
  /\ \E books \in {AnnualSettlement(Registry, cap, m)} :
       /\ heirs' = [h \in DOMAIN heirs |->
            [heirs[h] EXCEPT
               !.last_approved_base_payout = books.base[h],
               !.last_approved_spillover_payout = books.spillover[h]]]
       /\ last_settled_payout' = books.total
  /\ years' = years + 1
  /\ UNCHANGED <<branches, changes>>

(* A minor comes of age (tick_annual_aging).                               *)
ComeOfAge(h) ==
  /\ changes < MaxChanges
  /\ heirs[h].state = "MINOR"
  /\ heirs' = [heirs EXCEPT ![h].state = "ACTIVE"]
  /\ changes' = changes + 1
  /\ UNCHANGED <<branches, last_settled_payout, years>>

(* deposit_capital of an active heir.                                      *)
DepositCapital(h, cash_amount) ==
  /\ changes < MaxChanges
  /\ heirs[h].state = "ACTIVE"
  /\ heirs' = [heirs EXCEPT ![h].annual_capital_contribution = cash_amount]
  /\ changes' = changes + 1
  /\ UNCHANGED <<branches, last_settled_payout, years>>

OldYear ==
  \E cap \in GlobalCaps, m \in GovernanceMode : ExecuteAnnualSettlement(cap, m)

NewYear ==
  \E cap \in GlobalCaps, m \in GovernanceMode :
    ExecuteAnnualSettlementFuture(cap, m)

Next ==
  \/ \E cap \in GlobalCaps : RefuseSettlement(cap)
  \/ OldYear \/ NewYear
  \/ \E h \in DOMAIN heirs : ComeOfAge(h)
  \/ \E h \in DOMAIN heirs, c \in Contributions : DepositCapital(h, c)

Spec == Init /\ [][Next]_vars

-----------------------------------------------------------------------------
(* The type invariant: no grant is ever negative, whatever branch a code   *)
(* leads to.                                                               *)
TypeOK ==
  /\ heirs \in Seq(Heir)
  /\ branches \in Seq(Branch)
  /\ \A h \in DOMAIN heirs : heirs[h].branch_index \in DOMAIN branches
  /\ last_settled_payout \in Nat
  /\ years \in 0 .. MaxYears /\ changes \in 0 .. MaxChanges

(* The codes of the heirs lead to the branches they sit in.                *)
CodesLeadHome ==
  \A h \in DOMAIN heirs :
    BranchByCode(heirs[h].branch_id) = heirs[h].branch_index

(* As long as codes lead to the right branches the two settlements are     *)
(* interchangeable: they would pay every active heir the same in either    *)
(* phase and take the same from the fund, whatever earlier years have left *)
(* in the arena.                                                           *)
SettlementsAgree ==
  CodesLeadHome =>
    \A cap \in GlobalCaps, m \in GovernanceMode :
      cap > 0 =>
        \E old \in {LegacyBooks(cap, m)},
           new \in {AnnualSettlement(Registry, cap, m)} :
          /\ old.total = new.total
          /\ old.drawn = new.drawn
          /\ \A h \in DOMAIN heirs :
               heirs[h].state = "ACTIVE" =>
                 /\ old.base[h] = new.base[h]
                 /\ old.grant[h] = new.spillover[h]

(* Even when two branches share a code, and one of them therefore pays for *)
(* the heirs of both, no heir is paid more than its claim in a year and no *)
(* grant takes the branch it is charged to past its ceiling.               *)
LegacyKeepsBounds ==
  \A cap \in GlobalCaps, m \in GovernanceMode :
    cap > 0 =>
      \E books \in {LegacyBooks(cap, m)} :
        \A h \in DOMAIN heirs :
          /\ books.base[h] + books.grant[h] <= RawClaim(h)
          /\ books.grant[h] > 0 =>
               LET b == BranchByCode(heirs[h].branch_id)
               IN  books.drawn[b] <= BranchCeiling(m, cap, branches[b].share)

SumOver(field, hs) == Total([h \in hs |-> heirs[h][field]], hs)
Shown(hs) == SumOver("last_approved_base_payout", hs)
               + SumOver("last_approved_spillover_payout", hs)

(* What the older settlement leaves in the arena overstates the year by    *)
(* exactly the spillover it found there: the payouts of all heirs add up   *)
(* to what the fund paid this year and the spillover of the years before.  *)
SpilloverIsCarriedOver ==
  [][OldYear =>
       Shown(DOMAIN heirs)' =
         last_settled_payout'
           + SumOver("last_approved_spillover_payout", DOMAIN heirs)]_vars

Active == {h \in DOMAIN heirs : heirs[h].state = "ACTIVE"}

(* The newer settlement starts afresh: after it the payouts of the active  *)
(* heirs are what the fund paid, even if older settlements came before.    *)
FutureStartsAfresh ==
  [][NewYear => Shown(Active)' = last_settled_payout']_vars

=============================================================================
