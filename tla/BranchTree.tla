------------------------------ MODULE BranchTree ------------------------------
(***************************************************************************)
(* The branch arena of class LineageRegistry: BranchNode records in one    *)
(* vector, linked left-child right-sibling by arena indices.  Field f of   *)
(* branch_arena[i] is f[i] here and size is branch_arena.size(); a slot    *)
(* past the end holds the values of an unused node.                        *)
(*                                                                         *)
(* A call of add_sub_branch is a run of steps: the graft, one step for     *)
(* every link of the sibling chain it follows, then the two nested loops   *)
(* of the rebalance it ends with, one step per iteration.  The program is  *)
(* single threaded: no other call starts before pc is "idle" again.        *)
(*                                                                         *)
(* virtual_share_percentage is kept as its reciprocal (0 stands for 0%),   *)
(* see FamilyTree.  The heirs' fields of BranchNode are in Settlement.     *)
(***************************************************************************)
EXTENDS Sums, FiniteSets

CONSTANTS
  MaxBranches,     \* bound on the number of branches of the instance
  CountRange,      \* number of values of child_count: 2^16 in the code
  INVALID_INDEX,   \* the index of no node: 2^32 - 1 in the code
  Unsettled,       \* the shares, for FamilyTree, while they are in flux
  Scale            \* the fund as a whole number, so that shares add up

ASSUME BranchAssumption ==
  /\ MaxBranches \in Nat \ {0}
  /\ CountRange \in Nat \ {0}
  /\ INVALID_INDEX \in Nat
  /\ INVALID_INDEX >= MaxBranches
  /\ Unsettled \notin [0 .. MaxBranches - 1 -> Nat]
  /\ Scale \in Nat

Slots == 0 .. MaxBranches - 1

VARIABLES
  size,
  parent_index, share, first_child_index, next_sibling_index, child_count,
  pc,         \* the loop the current call is in, "idle" between calls
  grafted,    \* parent_index argument of add_sub_branch
  curr,       \* cursor of the walk along the sibling chain
  i,          \* cursor of the rebalance over the arena
  split_share,\* reciprocal of the share of each child of branch i
  child_idx   \* its cursor over the children of branch i

arena == <<size, parent_index, share, first_child_index, next_sibling_index,
           child_count>>
locals == <<grafted, curr, i, split_share, child_idx>>
vars == <<arena, pc, locals>>

-----------------------------------------------------------------------------
Init ==
  /\ size = 0
  /\ parent_index = [s \in Slots |-> INVALID_INDEX]
  /\ share = [s \in Slots |-> 0]
  /\ first_child_index = [s \in Slots |-> INVALID_INDEX]
  /\ next_sibling_index = [s \in Slots |-> INVALID_INDEX]
  /\ child_count = [s \in Slots |-> 0]
  /\ pc = "idle"
  /\ grafted = 0 /\ curr = 0 /\ i = 0
  /\ split_share = 0 /\ child_idx = INVALID_INDEX

(* Slip: the new root is left with the default share of a node, 0%.        *)
CreateRootWithoutShare ==
  /\ pc = "idle"
  /\ size' = 1
  /\ parent_index' = [s \in Slots |-> INVALID_INDEX]
  /\ share' = [s \in Slots |-> 0]
  /\ first_child_index' = [s \in Slots |-> INVALID_INDEX]
  /\ next_sibling_index' = [s \in Slots |-> INVALID_INDEX]
  /\ child_count' = [s \in Slots |-> 0]
  /\ UNCHANGED <<pc, locals>>

(* create_root_branch: empty the arena and make the root, with 100%.       *)
CreateRootBranch ==
  /\ pc = "idle"
  /\ size' = 1
  /\ parent_index' = [s \in Slots |-> INVALID_INDEX]
  /\ share' = [s \in Slots |-> IF s = 0 THEN 1 ELSE 0]
  /\ first_child_index' = [s \in Slots |-> INVALID_INDEX]
  /\ next_sibling_index' = [s \in Slots |-> INVALID_INDEX]
  /\ child_count' = [s \in Slots |-> 0]
  /\ UNCHANGED <<pc, locals>>

-----------------------------------------------------------------------------
(* Slip: the loop starts at the first branch below the root.               *)
EnterBelowRoot(sh) ==
  /\ share' = [sh EXCEPT ![0] = 1]
  /\ i' = 1
  /\ pc' = "rebalance"
  /\ UNCHANGED <<split_share, child_idx>>

(* First lines of rebalance_per_stirpes_shares on a non-empty arena whose  *)
(* shares are sh: the root gets 100% and the loop starts at branch 0.      *)
EnterRebalance(sh) ==
  /\ share' = [sh EXCEPT ![0] = 1]
  /\ i' = 0
  /\ pc' = "rebalance"
  /\ UNCHANGED <<split_share, child_idx>>

(* The end of add_sub_branch: count the new child and rebalance.           *)
CountChild(p, sh) ==
  /\ child_count' = [child_count EXCEPT ![p] = (@ + 1) % CountRange]
  /\ EnterRebalance(sh)

(* Slip: every new node becomes the first child of its parent.             *)
AlwaysFirstChild(p) ==
  /\ pc = "idle"
  /\ p < size
  /\ size < MaxBranches
  /\ size' = size + 1
  /\ parent_index' = [parent_index EXCEPT ![size] = p]
  /\ first_child_index' = [first_child_index EXCEPT ![p] = size]
  /\ CountChild(p, share)
  /\ grafted' = p
  /\ UNCHANGED <<next_sibling_index, curr>>

(* add_sub_branch(p, _): append a node with a zero share; it is p's first  *)
(* child if p counts none, else the sibling chain must be walked.          *)
AddSubBranch(p) ==
  /\ pc = "idle"
  /\ p < size
  /\ size < MaxBranches
  /\ size' = size + 1
  /\ parent_index' = [parent_index EXCEPT ![size] = p]
  /\ UNCHANGED next_sibling_index
  /\ grafted' = p
  /\ \/ /\ child_count[p] = 0
        /\ first_child_index' = [first_child_index EXCEPT ![p] = size]
        /\ CountChild(p, share)
        /\ UNCHANGED curr
     \/ /\ child_count[p] # 0
        /\ curr' = first_child_index[p]
        /\ pc' = "walk"
        /\ UNCHANGED <<first_child_index, child_count, share, i, split_share,
                       child_idx>>

(* Slip: the walk looks at the next sibling without moving on to it.       *)
WalkInPlace ==
  /\ pc = "walk"
  /\ next_sibling_index[curr] # INVALID_INDEX
  /\ UNCHANGED vars

(* One step along the chain of the siblings of the new node.               *)
WalkSiblings ==
  /\ pc = "walk"
  /\ next_sibling_index[curr] # INVALID_INDEX
  /\ curr' = next_sibling_index[curr]
  /\ UNCHANGED <<arena, pc, grafted, i, split_share, child_idx>>

(* Slip: the new node is linked behind the first child, wherever the       *)
(* chain ends.                                                             *)
LinkBehindFirst ==
  /\ pc = "walk"
  /\ next_sibling_index' = [next_sibling_index EXCEPT ![curr] = size - 1]
  /\ CountChild(grafted, share)
  /\ UNCHANGED <<size, parent_index, first_child_index, grafted, curr>>

(* Slip: the index of the new node is read after it has been appended.     *)
LinkPastTheEnd ==
  /\ pc = "walk"
  /\ next_sibling_index[curr] = INVALID_INDEX
  /\ next_sibling_index' = [next_sibling_index EXCEPT ![curr] = size]
  /\ CountChild(grafted, share)
  /\ UNCHANGED <<size, parent_index, first_child_index, grafted, curr>>

(* The chain's last node: link the new one behind it.                      *)
LinkSibling ==
  /\ pc = "walk"
  /\ next_sibling_index[curr] = INVALID_INDEX
  /\ next_sibling_index' = [next_sibling_index EXCEPT ![curr] = size - 1]
  /\ CountChild(grafted, share)
  /\ UNCHANGED <<size, parent_index, first_child_index, grafted, curr>>

-----------------------------------------------------------------------------
(* rebalance_per_stirpes_shares called by MasterFund or a test.            *)
Rebalance ==
  /\ pc = "idle"
  /\ size > 0
  /\ EnterRebalance(share)
  /\ UNCHANGED <<size, parent_index, first_child_index, next_sibling_index,
                 child_count, grafted, curr>>

HasChildren(b) == child_count[b] > 0 /\ first_child_index[b] # INVALID_INDEX

(* The outer loop at a branch with children: enter the inner loop.         *)
EnterChildren ==
  /\ pc = "rebalance"
  /\ i < size
  /\ HasChildren(i)
  /\ split_share' = share[i] * child_count[i]
  /\ child_idx' = first_child_index[i]
  /\ pc' = "children"
  /\ UNCHANGED <<arena, grafted, curr, i>>

(* The outer loop at a branch without children.                            *)
SkipLeaf ==
  /\ pc = "rebalance"
  /\ i < size
  /\ ~HasChildren(i)
  /\ i' = i + 1
  /\ UNCHANGED <<arena, pc, grafted, curr, split_share, child_idx>>

(* Slip: only the first child gets its split.                              *)
ShareWithFirstChild ==
  /\ pc = "children"
  /\ child_idx # INVALID_INDEX /\ child_idx < size
  /\ share' = [share EXCEPT ![child_idx] = split_share]
  /\ child_idx' = INVALID_INDEX
  /\ UNCHANGED <<size, parent_index, first_child_index, next_sibling_index,
                 child_count, pc, grafted, curr, i, split_share>>

(* The inner loop gives the child at the cursor an even split of branch    *)
(* i's share and moves on to its next sibling.                             *)
ShareWithChild ==
  /\ pc = "children"
  /\ child_idx # INVALID_INDEX /\ child_idx < size
  /\ share' = [share EXCEPT ![child_idx] = split_share]
  /\ child_idx' = next_sibling_index[child_idx]
  /\ UNCHANGED <<size, parent_index, first_child_index, next_sibling_index,
                 child_count, pc, grafted, curr, i, split_share>>

(* The inner loop ends: on to the next branch of the arena.                *)
LeaveChildren ==
  /\ pc = "children"
  /\ ~(child_idx # INVALID_INDEX /\ child_idx < size)
  /\ i' = i + 1
  /\ pc' = "rebalance"
  /\ UNCHANGED <<arena, grafted, curr, split_share, child_idx>>

(* The rebalance is over, and with it the call and its local variables.    *)
Return ==
  /\ pc = "rebalance"
  /\ i >= size
  /\ pc' = "idle"
  /\ grafted' = 0 /\ curr' = 0 /\ i' = 0
  /\ split_share' = 0 /\ child_idx' = INVALID_INDEX
  /\ UNCHANGED arena

-----------------------------------------------------------------------------
(* The steps of a call that has started.                                   *)
Step ==
  \/ WalkSiblings \/ LinkSibling
  \/ EnterChildren \/ SkipLeaf \/ ShareWithChild \/ LeaveChildren
  \/ Return

Next ==
  \/ CreateRootBranch
  \/ \E p \in Slots : AddSubBranch(p)
  \/ Rebalance
  \/ Step

(* A call that has started runs on: the code has nothing to wait for.      *)
Spec == Init /\ [][Next]_vars /\ WF_vars(Step)

-----------------------------------------------------------------------------
(* The type invariant: fields and cursors stay indices of the arena, or    *)
(* INVALID_INDEX, and the 16-bit counter stays in its range.               *)
TypeOK ==
  /\ size \in 0 .. MaxBranches
  /\ parent_index \in [Slots -> Slots \cup {INVALID_INDEX}]
  /\ share \in [Slots -> Nat]
  /\ first_child_index \in [Slots -> Slots \cup {INVALID_INDEX}]
  /\ next_sibling_index \in [Slots -> Slots \cup {INVALID_INDEX}]
  /\ child_count \in [Slots -> 0 .. CountRange - 1]
  /\ pc \in {"idle", "walk", "rebalance", "children"}
  /\ grafted \in Slots
  /\ curr \in Slots
  /\ i \in 0 .. MaxBranches
  /\ split_share \in Nat
  /\ child_idx \in Slots \cup {INVALID_INDEX}

(* The branches whose links are complete: while the chain is walked the    *)
(* new node at the end of the arena is not on it yet.                      *)
linked == IF pc = "walk" THEN size - 1 ELSE size

Family == INSTANCE FamilyTree
            WITH parent <- parent_index,
                 share <- IF pc = "idle" THEN share ELSE Unsettled

ChildrenOf(p) == Family!Children(linked, parent_index, p)

IsLeast(x, S) ==
  IF S = {} THEN x = INVALID_INDEX ELSE x \in S /\ \A y \in S : x <= y

(* Every sibling chain lists the direct sub-branches of its branch, all of *)
(* them and nothing else, in the order of their creation, and child_count  *)
(* is their number: add_sub_branch must find the end of the right chain    *)
(* and both loops of the rebalance rely on it.                             *)
SiblingChains ==
  \A p \in 0 .. linked - 1 :
    /\ child_count[p] = Cardinality(ChildrenOf(p))
    /\ IsLeast(first_child_index[p], ChildrenOf(p))
    /\ p # 0 =>
         /\ parent_index[p] < p
         /\ IsLeast(next_sibling_index[p],
                    {c \in ChildrenOf(parent_index[p]) : c > p})

(* Whenever no call is running, the nested loops have left every branch    *)
(* with its per-stirpes share, wherever in the tree the last one was       *)
(* grafted: one pass over the arena from the root is enough.               *)
SharesPerStirpes ==
  pc = "idle" /\ size > 0 => Family!IsPerStirpes(size, parent_index, share)

Leaves == {b \in 0 .. size - 1 : child_count[b] = 0}

(* The branches' parts of the fund, where they are whole numbers.          *)
Parts ==
  [b \in Slots |-> IF share[b] = 0 THEN 0 ELSE Scale \div share[b]]

PartsAreWhole ==
  \A b \in 0 .. size - 1 : share[b] # 0 => Scale % share[b] = 0

(* The leaves own the fund between them: their shares sum to 100%, as the  *)
(* tests of rebalance_per_stirpes_shares expect for every tree.            *)
LeafSharesTotal ==
  pc = "idle" /\ size > 0 /\ PartsAreWhole => Total(Parts, Leaves) = Scale

(* Each call returns: neither the walk along a chain nor the nested loops  *)
(* of the rebalance can go round in circles.                               *)
CallsReturn == pc # "idle" ~> pc = "idle"

(* The arena implements the abstract tree of branches.                     *)
ImplementsFamilyTree == Family!Spec

(* What heirs and callers remember stays valid: while the arena grows, a   *)
(* branch keeps its parent and no link that leads somewhere is redirected. *)
LinksAreStable ==
  [][size' >= size =>
       \A b \in 0 .. size - 1 :
         /\ parent_index'[b] = parent_index[b]
         /\ first_child_index[b] # INVALID_INDEX
              => first_child_index'[b] = first_child_index[b]
         /\ next_sibling_index[b] # INVALID_INDEX
              => next_sibling_index'[b] = next_sibling_index[b]]_arena

=============================================================================
