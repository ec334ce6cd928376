------------------------------ MODULE FamilyTree ------------------------------
(***************************************************************************)
(* What the branch arena of a LineageRegistry promises, whatever its       *)
(* layout: a rooted tree of family branches that only grows, in which      *)
(* every branch's share of the fund is its parent's share split evenly     *)
(* among the parent's direct sub-branches (per stirpes).                   *)
(*                                                                         *)
(* A share is kept as its reciprocal: the registry only ever stores 1.0,   *)
(* 0.0 or a share divided by a number of children, so every share that is  *)
(* not zero is 1/d for a positive integer d.                               *)
(***************************************************************************)
EXTENDS Naturals, FiniteSets

CONSTANTS
  MaxBranches,   \* bound on the number of branches of the instance
  Unsettled      \* the shares while a call is still rebalancing them

Slots == 0 .. MaxBranches - 1

VARIABLES
  size,     \* number of branches; branch 0 is the root
  parent,   \* the parent of every branch but the root
  share     \* reciprocal of every branch's share, or Unsettled

vars == <<size, parent, share>>

-----------------------------------------------------------------------------
(* The direct sub-branches of p when n branches have parents par.          *)
Children(n, par, p) == {c \in 1 .. n - 1 : par[c] = p}

(* d gives every branch its per-stirpes share: the root owns everything    *)
(* and every child an even split of its parent's share.                    *)
IsPerStirpes(n, par, d) ==
  /\ d[0] = 1
  /\ \A c \in 1 .. n - 1 :
       d[c] = d[par[c]] * Cardinality(Children(n, par, par[c]))

-----------------------------------------------------------------------------
Init ==
  /\ size = 0
  /\ parent \in [Slots -> Nat]
  /\ share \in [Slots -> Nat]

(* create_root_branch: whatever was there, a lone root that owns it all.   *)
Found ==
  /\ share # Unsettled
  /\ size' = 1
  /\ parent' \in [Slots -> Nat]
  /\ share' \in [Slots -> Nat]
  /\ IsPerStirpes(size', parent', share')

(* add_sub_branch up to its rebalance: one new branch, under an existing   *)
(* one, and no other parent changes.                                       *)
Graft ==
  /\ share # Unsettled
  /\ size < MaxBranches
  /\ \E p \in 0 .. size - 1 : parent' = [parent EXCEPT ![size] = p]
  /\ size' = size + 1
  /\ share' = Unsettled

(* rebalance_per_stirpes_shares called on its own.                         *)
BeginRebalance ==
  /\ share # Unsettled
  /\ size > 0
  /\ share' = Unsettled
  /\ UNCHANGED <<size, parent>>

(* Every call that grows or rebalances the tree ends with all the shares   *)
(* per stirpes at once.                                                    *)
Settle ==
  /\ share = Unsettled
  /\ share' \in [Slots -> Nat]
  /\ IsPerStirpes(size, parent, share')
  /\ UNCHANGED <<size, parent>>

Next == Found \/ Graft \/ BeginRebalance \/ Settle

Spec == Init /\ [][Next]_vars

=============================================================================
