-------------------------- MODULE MCLegacySettlement --------------------------
(* Instances of LegacySettlement for TLC.                                  *)
EXTENDS LegacySettlement

(* A root with two sub-branches; the second may carry the code of the      *)
(* first, since add_sub_branch takes any code.  Every branch counts the    *)
(* heirs that were active when they were added to it.                      *)
Arena(code, active, place) ==
  [b \in 1 .. 3 |->
     [branch_id |-> IF b = 3 THEN code ELSE b,
      share |-> IF b = 1 THEN 1 ELSE 2,
      active_heir_count |-> Cardinality({h \in active : place[h] = b})]]

NewHeir(state, contribution, b, arena) ==
  [state |-> state, annual_capital_contribution |-> contribution,
   branch_id |-> arena[b].branch_id, branch_index |-> b,
   last_approved_base_payout |-> 0, last_approved_spillover_payout |-> 0]

(* Three heirs anywhere in it, all of them adults or one a minor.          *)
ThreeHeirs ==
  UNION {LET arena == Arena(code, active, place)
         IN  {[branches |-> arena,
               heirs |-> [h \in 1 .. 3 |->
                            NewHeir(IF h \in active THEN "ACTIVE" ELSE "MINOR",
                                    co[h], place[h], arena)]] :
                co \in [1 .. 3 -> {1, 3}]} :
           code \in {2, 3},
           active \in {{1, 2, 3}, {2, 3}, {1, 3}},
           place \in [1 .. 3 -> 1 .. 3]}

NoHeirs ==
  {[branches |-> Arena(3, {}, <<>>), heirs |-> <<>>]}

BuiltRegistries == ThreeHeirs \cup NoHeirs

=============================================================================
