----------------------------- MODULE EstateProofs -----------------------------
(***************************************************************************)
(* Proofs about Estate, for families, trees, simulations and histories of  *)
(* any length: types, the arenas that go together, the codes of branches,  *)
(* the ledger of the fund and the shares of the lines of the family.       *)
(***************************************************************************)
EXTENDS Estate, RulesTheorems

-----------------------------------------------------------------------------
(* The shares of a tree.                                                   *)

(* Every branch but the root, which comes first, is below an earlier one.  *)
IsTree(parents) ==
  /\ parents \in Seq(Nat)
  /\ \A b \in 1 .. Len(parents) :
       parents[b] \in IF b = 1 THEN {NoBranch} ELSE 1 .. b - 1

Siblings(parents, b) == {c \in DOMAIN parents : parents[c] = parents[b]}

ShareFrom(parents, share, b) ==
  IF b = 1 THEN 1
  ELSE share[parents[b]] * Cardinality(Siblings(parents, b))

(* The parent of a branch is a branch that comes before it.                *)
LEMMA ParentsComeFirst ==
  ASSUME NEW parents, IsTree(parents)
  PROVE  /\ DOMAIN parents = 1 .. Len(parents) /\ Len(parents) \in Nat
         /\ \A b \in DOMAIN parents :
              /\ b \in Nat
              /\ b # 1 => /\ parents[b] \in DOMAIN parents
                          /\ parents[b] \in 0 .. b - 1
<1>1. DOMAIN parents = 1 .. Len(parents) /\ Len(parents) \in Nat
  BY DEF IsTree
<1>2. ASSUME NEW b \in DOMAIN parents, b # 1
      PROVE  parents[b] \in DOMAIN parents /\ parents[b] \in 0 .. b - 1
  <2>1. parents[b] \in 1 .. b - 1
    BY <1>1, <1>2 DEF IsTree
  <2> QED
    BY <1>1, <2>1
<1> QED
  BY <1>1, <1>2

(* The recursive definition of the shares has a solution for every tree.   *)
LEMMA SharesExist ==
  ASSUME NEW parents, IsTree(parents)
  PROVE  \E share :
           share = [b \in DOMAIN parents |-> ShareFrom(parents, share, b)]
<1> DEFINE D == DOMAIN parents
           L == {n \in Nat : \E f : \A b \in D :
                               b <= n => f[b] = ShareFrom(parents, f, b)}
<1>1. /\ D = 1 .. Len(parents) /\ Len(parents) \in Nat
      /\ \A b \in D : b # 1 => parents[b] \in D /\ parents[b] < b
  BY DEF IsTree
<1>2. 0 \in L
  BY <1>1
<1>3. ASSUME NEW n \in Nat, n \in L PROVE n + 1 \in L
  <2>1. PICK f : \A b \in D : b <= n => f[b] = ShareFrom(parents, f, b)
    BY <1>3
  <2> DEFINE g == [b \in D |-> ShareFrom(parents, f, b)]
  <2>2. /\ \A b \in D : g[b] = ShareFrom(parents, f, b)
        /\ \A b \in D : b <= n => g[b] = f[b]
    BY <2>1
  <2> HIDE DEF g
  <2>3. \A b \in D : b <= n + 1 => g[b] = ShareFrom(parents, g, b)
    BY <1>1, <2>2 DEF ShareFrom
  <2> QED
    BY <2>3
<1>4. Nat \subseteq L
  <2> HIDE DEF L
  <2> QED BY <1>2, <1>3, NatSet
<1>5. PICK f : \A b \in D : f[b] = ShareFrom(parents, f, b)
  BY <1>1, <1>4
<1> DEFINE g == [b \in D |-> f[b]]
<1>6. \A b \in D : ShareFrom(parents, f, b) = ShareFrom(parents, g, b)
  BY <1>1 DEF ShareFrom
<1>7. g = [b \in D |-> ShareFrom(parents, g, b)]
  <2>1. g = [b \in D |-> ShareFrom(parents, f, b)]
    BY <1>5
  <2> HIDE DEF g
  <2> QED BY <1>6, <2>1
<1> QED
  <2> HIDE DEF g
  <2> WITNESS g
  <2> QED BY <1>7

(* The share of a branch is that of its parent split among the siblings.   *)
LEMMA SharesUnfold ==
  ASSUME NEW parents, IsTree(parents)
  PROVE  LET share == PerStirpesShares(parents)
         IN  /\ share = [b \in DOMAIN parents |-> share[b]]
             /\ \A b \in DOMAIN parents :
                  share[b] = ShareFrom(parents, share, b)
<1> DEFINE P(f) == f = [b \in DOMAIN parents |-> ShareFrom(parents, f, b)]
           share == PerStirpesShares(parents)
<1>1. \E f : P(f)
  BY SharesExist
<1>2. share = CHOOSE f : P(f)
  BY DEF PerStirpesShares, ShareFrom, Siblings
<1> HIDE DEF P
<1>3. P(CHOOSE f : P(f))
  BY <1>1
<1> HIDE DEF share
<1>4. share = [b \in DOMAIN parents |-> ShareFrom(parents, share, b)]
  BY <1>2, <1>3 DEF P
<1> QED
  BY <1>4 DEF share

(* A branch is among its siblings, so that their number is not zero.       *)
LEMMA SiblingsAreCounted ==
  ASSUME NEW parents, IsTree(parents), NEW b \in DOMAIN parents
  PROVE  Cardinality(Siblings(parents, b)) \in Nat \ {0}
<1>1. IsFiniteSet(DOMAIN parents)
  BY FS_Interval DEF IsTree
<1>2. IsFiniteSet(Siblings(parents, b)) /\ Siblings(parents, b) # {}
  BY <1>1, FS_Subset DEF Siblings
<1> QED
  BY <1>2, FS_CardinalityType, FS_EmptySet

(* Every branch of every tree has a share, above zero.                     *)
LEMMA SharesArePositive ==
  ASSUME NEW parents, IsTree(parents)
  PROVE  PerStirpesShares(parents) \in [DOMAIN parents -> Nat \ {0}]
<1> DEFINE share == PerStirpesShares(parents)
           D == DOMAIN parents
           L == {n \in Nat : n \in D => share[n] \in Nat \ {0}}
<1>1. /\ share = [b \in D |-> share[b]]
      /\ \A b \in D : share[b] = ShareFrom(parents, share, b)
  BY SharesUnfold
<1>2. \A b \in D : /\ b \in Nat
                   /\ b # 1 => parents[b] \in D /\ parents[b] \in 0 .. b - 1
  BY ParentsComeFirst
<1> HIDE DEF share
<1>3. ASSUME NEW n \in Nat, \A k \in 0 .. n - 1 : k \in L PROVE n \in L
  <2>1. CASE n \in D /\ n # 1
    <3>1. share[parents[n]] \in Nat \ {0}
      BY <1>2, <1>3, <2>1
    <3>2. Cardinality(Siblings(parents, n)) \in Nat \ {0}
      BY <2>1, SiblingsAreCounted
    <3>3. \A a, c \in Nat \ {0} : a * c \in Nat \ {0}
      OBVIOUS
    <3> QED
      BY <1>1, <2>1, <3>1, <3>2, <3>3 DEF ShareFrom
  <2>2. CASE n \notin D \/ n = 1
    BY <1>1, <2>2 DEF ShareFrom
  <2> QED
    BY <2>1, <2>2
<1>4. Nat \subseteq L
  <2> HIDE DEF L
  <2> QED BY <1>3, NatSetStrong
<1>5. \A b \in D : share[b] \in Nat \ {0}
  BY <1>2, <1>4
<1> QED
  BY <1>1, <1>5 DEF share

(* A tree with one more branch, below any of its own, is a tree.           *)
LEMMA TreeGrows ==
  ASSUME NEW parents, IsTree(parents), NEW p \in 1 .. Len(parents)
  PROVE  /\ IsTree(Append(parents, p))
         /\ DOMAIN Append(parents, p) = DOMAIN parents \cup {Len(parents) + 1}
         /\ \A b \in DOMAIN parents : Append(parents, p)[b] = parents[b]
         /\ Append(parents, p)[Len(parents) + 1] = p
<1> DEFINE after == Append(parents, p)
<1>1. /\ parents \in Seq(Nat) /\ p \in Nat /\ Len(parents) \in Nat
      /\ DOMAIN parents = 1 .. Len(parents)
  BY DEF IsTree
<1>2. /\ after \in Seq(Nat) /\ Len(after) = Len(parents) + 1
      /\ DOMAIN after = 1 .. Len(parents) + 1
      /\ \A b \in DOMAIN parents : after[b] = parents[b]
      /\ after[Len(parents) + 1] = p
  BY <1>1
<1> HIDE DEF after
<1>3. ASSUME NEW b \in 1 .. Len(after)
      PROVE  after[b] \in IF b = 1 THEN {NoBranch} ELSE 1 .. b - 1
  <2>1. CASE b \in 1 .. Len(parents)
    BY <1>1, <1>2, <2>1 DEF IsTree
  <2>2. CASE b = Len(parents) + 1
    <3>1. b # 1 /\ b - 1 = Len(parents) /\ after[b] = p
      BY <1>1, <1>2, <2>2
    <3> QED
      BY <3>1
  <2>3. b \in 1 .. Len(parents) \/ b = Len(parents) + 1
    <3>1. Len(parents) \in Nat /\ Len(after) = Len(parents) + 1
      BY <1>1, <1>2
    <3> QED
      BY <3>1
  <2> QED
    BY <2>1, <2>2, <2>3
<1>4. IsTree(after)
  BY <1>2, <1>3 DEF IsTree
<1> QED
  BY <1>1, <1>2, <1>4 DEF after

(* A new branch below p leaves the shares outside p's line as they were.   *)
LEMMA SharesKept ==
  ASSUME NEW parents, IsTree(parents), NEW p \in 1 .. Len(parents), NEW Line,
         \A b \in DOMAIN parents :
           b # 1 /\ (parents[b] = p \/ parents[b] \in Line) => b \in Line
  PROVE  \A b \in DOMAIN parents \ Line :
           PerStirpesShares(Append(parents, p))[b] = PerStirpesShares(parents)[b]
<1> DEFINE after == Append(parents, p)
           old == PerStirpesShares(parents)
           new == PerStirpesShares(after)
           D == DOMAIN parents
           L == {n \in Nat : n \in D \ Line => new[n] = old[n]}
<1>1. /\ IsTree(after) /\ DOMAIN after = D \cup {Len(parents) + 1}
      /\ \A b \in D : after[b] = parents[b]
      /\ after[Len(parents) + 1] = p
  BY TreeGrows
<1>2. \A b \in D : old[b] = ShareFrom(parents, old, b)
  BY SharesUnfold
<1>3. \A b \in D : new[b] = ShareFrom(after, new, b)
  <2> HIDE DEF after
  <2> QED BY <1>1, SharesUnfold
<1>4. \A b \in D : /\ b \in Nat
                   /\ b # 1 => parents[b] \in D /\ parents[b] \in 0 .. b - 1
  BY ParentsComeFirst
<1> HIDE DEF after, old, new
<1>5. ASSUME NEW n \in Nat, \A k \in 0 .. n - 1 : k \in L PROVE n \in L
  <2> SUFFICES ASSUME n \in D \ Line PROVE new[n] = old[n]
    OBVIOUS
  <2>1. CASE n = 1
    BY <1>2, <1>3, <2>1 DEF ShareFrom
  <2>2. CASE n # 1
    <3>1. parents[n] # p /\ parents[n] \in D \ Line /\ parents[n] \in 0 .. n - 1
      BY <1>4, <2>2
    <3>2. new[parents[n]] = old[parents[n]]
      BY <1>5, <3>1
    <3>3. Siblings(after, n) = Siblings(parents, n)
      BY <1>1, <3>1 DEF Siblings
    <3> QED
      BY <1>1, <1>2, <1>3, <2>2, <3>2, <3>3 DEF ShareFrom
  <2> QED
    BY <2>1, <2>2
<1>6. Nat \subseteq L
  <2> HIDE DEF L
  <2> QED BY <1>5, NatSetStrong
<1> QED
  BY <1>4, <1>6 DEF old, new, after

-----------------------------------------------------------------------------
(* The line of a branch: what is below it, at any depth.                   *)

BelowFrom(p, below, b) ==
  b # 1 /\ (parent_index[b] = p \/ below[parent_index[b]])

(* The recursive definition of a line has a solution for every tree.       *)
LEMMA LineExists ==
  ASSUME IsTree(parent_index), NEW p
  PROVE  \E below :
           below = [b \in DOMAIN parent_index |-> BelowFrom(p, below, b)]
<1> DEFINE D == DOMAIN parent_index
           L == {n \in Nat : \E f : \A b \in D :
                               b <= n => f[b] = BelowFrom(p, f, b)}
<1>1. /\ D = 1 .. Len(parent_index) /\ Len(parent_index) \in Nat
      /\ \A b \in D : b # 1 => parent_index[b] \in D /\ parent_index[b] < b
  BY DEF IsTree
<1>2. 0 \in L
  BY <1>1
<1>3. ASSUME NEW n \in Nat, n \in L PROVE n + 1 \in L
  <2>1. PICK f : \A b \in D : b <= n => f[b] = BelowFrom(p, f, b)
    BY <1>3
  <2> DEFINE g == [b \in D |-> BelowFrom(p, f, b)]
  <2>2. /\ \A b \in D : g[b] = BelowFrom(p, f, b)
        /\ \A b \in D : b <= n => g[b] = f[b]
    BY <2>1
  <2> HIDE DEF g
  <2>3. ASSUME NEW b \in D, b <= n + 1
        PROVE  g[b] = BelowFrom(p, g, b)
    <3>1. b # 1 => g[parent_index[b]] = f[parent_index[b]]
      BY <1>1, <2>2, <2>3
    <3> QED
      BY <2>2, <3>1 DEF BelowFrom
  <2> QED
    BY <2>3
<1>4. Nat \subseteq L
  <2> HIDE DEF L
  <2> QED BY <1>2, <1>3, NatSet
<1>5. PICK f : \A b \in D : f[b] = BelowFrom(p, f, b)
  BY <1>1, <1>4
<1> DEFINE g == [b \in D |-> f[b]]
<1>6. ASSUME NEW b \in D PROVE BelowFrom(p, f, b) = BelowFrom(p, g, b)
  <2>1. b # 1 => g[parent_index[b]] = f[parent_index[b]]
    BY <1>1
  <2> HIDE DEF g
  <2> QED
    BY <2>1 DEF BelowFrom
<1>7. g = [b \in D |-> BelowFrom(p, g, b)]
  <2>1. g = [b \in D |-> BelowFrom(p, f, b)]
    BY <1>5
  <2> HIDE DEF g
  <2> QED BY <1>6, <2>1
<1> QED
  <2> HIDE DEF g
  <2> WITNESS g
  <2> QED BY <1>7

(* The branches below a branch of a line belong to the line.               *)
LEMMA LineIsClosed ==
  ASSUME IsTree(parent_index), NEW p
  PROVE  \A b \in DOMAIN parent_index :
           b # 1 /\ (parent_index[b] = p \/ parent_index[b] \in LineOf(p))
             => b \in LineOf(p)
<1> DEFINE P(f) == f = [b \in DOMAIN parent_index |-> BelowFrom(p, f, b)]
           below == CHOOSE f : P(f)
<1>1. \E f : P(f)
  BY LineExists
<1>2. LineOf(p) = {b \in DOMAIN parent_index : below[b]}
  BY DEF LineOf, BelowFrom
<1> HIDE DEF P
<1>3. P(below)
  BY <1>1
<1> HIDE DEF below
<1>4. \A b \in DOMAIN parent_index : below[b] = BelowFrom(p, below, b)
  BY <1>3 DEF P
<1> QED
  BY <1>2, <1>4 DEF BelowFrom

-----------------------------------------------------------------------------
(* The inductive invariant, in four parts.                                 *)

HeirRecord ==
  [age : Nat, state : HeirState, branch_id : Nat, branch_index : Nat,
   annual_capital_contribution : Nat, last_approved_base_payout : Nat,
   last_approved_spillover_payout : Nat]

(* What the operations do to the record of an heir leaves it one.          *)
LEMMA HeirUpdates ==
  ASSUME NEW heir \in HeirRecord, NEW n \in Nat, NEW c \in Nat,
         NEW s \in HeirState
  PROVE  /\ [heir EXCEPT !.age = n, !.state = s] \in HeirRecord
         /\ [heir EXCEPT !.branch_index = n, !.branch_id = c] \in HeirRecord
         /\ [heir EXCEPT !.annual_capital_contribution = c] \in HeirRecord
         /\ [heir EXCEPT !.last_approved_base_payout = n,
                         !.last_approved_spillover_payout = c] \in HeirRecord
BY DEF HeirRecord

(* The tree is in order, its shares are up to date, no two branches have   *)
(* the same code, and the code of the next branch is free.                 *)
TreeInv ==
  /\ IsTree(parent_index)
  /\ virtual_share_percentage = PerStirpesShares(parent_index)
  /\ active_heir_count \in Seq(0 .. CountRange - 1)
  /\ Len(active_heir_count) = Len(parent_index)
  /\ branch_id \in Seq(Nat) /\ Len(branch_id) = Len(parent_index)
  /\ \A b \in DOMAIN branch_id : branch_id[b] < SpawnCode + Len(branch_id)
  /\ \A b, c \in DOMAIN branch_id : branch_id[b] = branch_id[c] => b = c

(* An heir names its branch, and a minor has never been paid.              *)
HeirFits(heir) ==
  /\ heir.branch_index \in DOMAIN branch_id
  /\ heir.branch_id = branch_id[heir.branch_index]
  /\ heir.state = "MINOR" => /\ heir.last_approved_base_payout = 0
                             /\ heir.last_approved_spillover_payout = 0

HeirsInv ==
  /\ heirs \in Seq(HeirRecord)
  /\ \A k \in DOMAIN heirs : HeirFits(heirs[k])
  /\ base_contributions \in Seq(Nat)
  /\ ContributionsAligned

(* Where the loops of a simulation are.                                    *)
LoopInv ==
  /\ pc \in {"idle", "year", "aging", "branching", "birth", "snapshot"}
  /\ years_left \in Nat
  /\ initial_heir_count \in 0 .. Len(heirs)
  /\ i \in 0 .. initial_heir_count + 1
  /\ pc \in {"aging", "branching", "birth"} => i > 0 /\ years_left > 0
  /\ pc \in {"branching", "birth"} => i <= initial_heir_count
  /\ pc = "idle" \/ (pc = "snapshot" /\ years_left = 0) =>
       i = 0 /\ initial_heir_count = 0
  /\ NewbornsWait

-----------------------------------------------------------------------------
(* The family.                                                             *)

FamilyInv == TreeInv /\ HeirsInv

(* The invariants of family and loops hold of the empty registry.          *)
LEMMA InitFamily == Init => FamilyInv /\ LoopInv
<1> SUFFICES ASSUME Init PROVE FamilyInv /\ LoopInv
  OBVIOUS
<1>1. /\ parent_index = <<>> /\ branch_id = <<>> /\ heirs = <<>>
      /\ virtual_share_percentage = <<>> /\ active_heir_count = <<>>
      /\ base_contributions = <<>>
  BY DEF Init
<1>2. IsTree(parent_index)
  BY <1>1 DEF IsTree
<1>3. virtual_share_percentage = PerStirpesShares(parent_index)
  <2>1. PerStirpesShares(parent_index) \in [{} -> Nat \ {0}]
    BY <1>1, <1>2, SharesArePositive
  <2> QED
    BY <1>1, <2>1
<1>4. TreeInv
  BY <1>1, <1>2, <1>3 DEF TreeInv
<1>5. HeirsInv
  BY <1>1 DEF HeirsInv, ContributionsAligned
<1>6. LoopInv
  BY <1>1 DEF Init, LoopInv, NewbornsWait
<1> QED
  BY <1>4, <1>5, <1>6 DEF FamilyInv

(* A new branch below an existing one leaves the tree in order.            *)
LEMMA TreeStep ==
  ASSUME TreeInv, NEW parent,
         AddSubBranch(parent, SpawnCode + Len(branch_id))
  PROVE  /\ TreeInv'
         /\ DOMAIN branch_id' = DOMAIN branch_id \cup {Len(branch_id) + 1}
         /\ Len(branch_id') = Len(branch_id) + 1
         /\ branch_id'[Len(branch_id) + 1] = SpawnCode + Len(branch_id)
         /\ \A b \in DOMAIN branch_id : branch_id'[b] = branch_id[b]
<1> DEFINE n == Len(branch_id)
           code == SpawnCode + n
<1>1. /\ n \in Nat /\ code \in Nat /\ Len(parent_index) = n
      /\ parent \in 1 .. Len(parent_index)
      /\ branch_id \in Seq(Nat)
      /\ active_heir_count \in Seq(0 .. CountRange - 1)
      /\ Len(active_heir_count) = n
      /\ IsTree(parent_index)
  BY DEF TreeInv, AddSubBranch, IsTree, SpawnCode
<1>2. /\ branch_id' = Append(branch_id, code)
      /\ parent_index' = Append(parent_index, parent)
      /\ active_heir_count' = Append(active_heir_count, 0)
      /\ virtual_share_percentage' = PerStirpesShares(parent_index')
  BY DEF AddSubBranch
<1>3. /\ branch_id' \in Seq(Nat) /\ Len(branch_id') = n + 1
      /\ DOMAIN branch_id' = DOMAIN branch_id \cup {n + 1}
      /\ branch_id'[n + 1] = code
      /\ \A b \in DOMAIN branch_id : branch_id'[b] = branch_id[b]
  BY SMTT(30), <1>1, <1>2
<1>4. IsTree(parent_index') /\ Len(parent_index') = n + 1
  <2>1. IsTree(parent_index')
    BY <1>1, <1>2, TreeGrows
  <2>2. parent_index \in Seq(Nat) /\ parent \in Nat
    BY <1>1 DEF IsTree
  <2>3. Len(parent_index') = Len(parent_index) + 1
    BY <1>2, <2>2
  <2> QED
    BY <1>1, <2>1, <2>3
<1>5. /\ active_heir_count' \in Seq(0 .. CountRange - 1)
      /\ Len(active_heir_count') = n + 1
  <2>1. 0 \in 0 .. CountRange - 1
    BY EstateAssumption
  <2> QED
    BY <1>1, <1>2, <2>1
<1>6. \A b \in DOMAIN branch_id : branch_id[b] \in Nat /\ branch_id[b] < code
  BY <1>1 DEF TreeInv
<1>7. \A b \in DOMAIN branch_id' : branch_id'[b] < SpawnCode + (n + 1)
  BY SMTT(30), <1>1, <1>3, <1>6 DEF SpawnCode
<1>8. \A b, c \in DOMAIN branch_id' : branch_id'[b] = branch_id'[c] => b = c
  <2>1. \A b, c \in DOMAIN branch_id : branch_id[b] = branch_id[c] => b = c
    BY DEF TreeInv
  <2>2. \A b \in DOMAIN branch_id : branch_id'[b] # branch_id'[n + 1]
    BY <1>1, <1>3, <1>6
  <2> QED
    BY <1>3, <2>1, <2>2
<1> QED
  BY <1>2, <1>3, <1>4, <1>5, <1>7, <1>8 DEF TreeInv

(* Ageing, depositing and dying touch neither the tree nor the arenas.     *)
LEMMA AgeAndDepositFamily ==
  ASSUME FamilyInv, LoopInv, NEW shock \in Shocks, AgeAndDeposit(shock)
  PROVE  FamilyInv' /\ LoopInv'
<1> DEFINE heir == heirs[i]
           aged == Aged(heir)
           paying == [aged EXCEPT !.annual_capital_contribution =
                                    BaseOf(i) * shock]
<1>1. /\ heirs \in Seq(HeirRecord) /\ i \in DOMAIN heirs
      /\ i \in 1 .. initial_heir_count
      /\ base_contributions \in Seq(Nat)
      /\ Len(base_contributions) = Len(heirs)
  BY DEF FamilyInv, HeirsInv, ContributionsAligned, LoopInv, AgeAndDeposit,
         HeirToVisit
<1>2. heir \in HeirRecord /\ HeirFits(heir)
  BY <1>1 DEF FamilyInv, HeirsInv
<1> HIDE DEF heir
<1>3. aged \in HeirRecord /\ HeirFits(aged)
  <2>1. aged = [heir EXCEPT !.age = heir.age + 1,
                            !.state = IF heir.age + 1 >= Majority
                                      THEN "ACTIVE" ELSE heir.state]
    BY <1>2 DEF Aged, HeirRecord
  <2>2. aged \in HeirRecord
    <3>1. PICK now \in HeirState :
            aged = [heir EXCEPT !.age = heir.age + 1, !.state = now]
      BY <1>2, <2>1 DEF HeirRecord, HeirState
    <3>2. heir.age + 1 \in Nat
      BY <1>2 DEF HeirRecord
    <3> HIDE DEF aged
    <3> QED
      BY <1>2, <3>1, <3>2, HeirUpdates
  <2>3. /\ aged.branch_index = heir.branch_index
        /\ aged.branch_id = heir.branch_id
        /\ aged.last_approved_base_payout = heir.last_approved_base_payout
        /\ aged.last_approved_spillover_payout
             = heir.last_approved_spillover_payout
        /\ aged.state = "MINOR" => heir.state = "MINOR"
    BY <1>2, <2>1 DEF HeirRecord
  <2> QED
    BY <1>2, <2>2, <2>3 DEF HeirFits
<1>4. BaseOf(i) \in Nat /\ BaseOf(i) * shock \in Nat
  BY <1>1, EstateAssumption DEF BaseOf
<1> HIDE DEF aged
<1>5. paying \in HeirRecord /\ HeirFits(paying)
  BY <1>3, <1>4 DEF HeirRecord, HeirFits
<1> HIDE DEF paying
<1>6. PICK new \in {aged, paying} : heirs' = [heirs EXCEPT ![i] = new]
  BY DEF AgeAndDeposit, aged, paying, heir
<1>7. new \in HeirRecord /\ HeirFits(new)
  BY <1>3, <1>5
<1>8. base_contributions' \in Seq(Nat) /\ Len(base_contributions') = Len(heirs)
  <2>1. \/ base_contributions' = base_contributions
        \/ base_contributions' = [base_contributions EXCEPT ![i] = BaseOf(i)]
    BY DEF AgeAndDeposit
  <2> QED
    BY SMTT(30), <1>1, <1>4, <2>1
<1>9. /\ heirs' \in Seq(HeirRecord) /\ Len(heirs') = Len(heirs)
      /\ DOMAIN heirs' = DOMAIN heirs
      /\ \A k \in DOMAIN heirs' : heirs'[k] = IF k = i THEN new ELSE heirs[k]
  BY <1>1, <1>6, <1>7
<1>10. UNCHANGED <<tree, active_heir_count>>
  BY DEF AgeAndDeposit
<1>11. HeirsInv'
  <2>1. branch_id' = branch_id
    BY <1>10 DEF tree
  <2>2. \A k \in DOMAIN heirs' : HeirFits(heirs'[k])
    BY <1>7, <1>9 DEF FamilyInv, HeirsInv
  <2>3. \A k \in DOMAIN heirs' : HeirFits(heirs[k])'
    BY <2>1, <2>2 DEF HeirFits
  <2> QED
    BY <1>8, <1>9, <2>3 DEF HeirsInv, ContributionsAligned
<1>12. TreeInv'
  BY <1>10 DEF FamilyInv, TreeInv, tree
<1>13. LoopInv'
  <2>1. /\ pc = "aging" /\ pc' = "branching"
        /\ UNCHANGED <<years_left, i, initial_heir_count>>
    BY DEF AgeAndDeposit
  <2>2. NewbornsWait'
    <3>1. \A k \in initial_heir_count + 1 .. Len(heirs) :
            /\ heirs'[k] = heirs[k]
            /\ heirs[k].age = 0 /\ heirs[k].annual_capital_contribution = 0
      <4>1. \A k \in initial_heir_count + 1 .. Len(heirs) :
              k \in DOMAIN heirs' /\ k # i
        <5>1. /\ initial_heir_count \in Nat /\ Len(heirs) \in Nat
              /\ DOMAIN heirs' = 1 .. Len(heirs) /\ i <= initial_heir_count
              /\ i \in Int
          BY <1>1, <1>9 DEF LoopInv
        <5> QED
          BY <5>1
      <4> QED
        BY <1>9, <2>1, <4>1 DEF LoopInv, NewbornsWait
    <3> QED
      BY <1>9, <2>1, <3>1 DEF NewbornsWait
  <2> QED
    BY <1>1, <1>9, <2>1, <2>2 DEF LoopInv
<1> QED
  BY <1>11, <1>12, <1>13 DEF FamilyInv

(* A founder moves into a branch with a code that nothing else has.        *)
LEMMA FoundSubBranchFamily ==
  ASSUME FamilyInv, LoopInv, FoundSubBranch
  PROVE  FamilyInv' /\ LoopInv'
<1> DEFINE n == Len(branch_id)
           code == SpawnCode + n
           heir == heirs[i]
           moved == [heir EXCEPT !.branch_index = n + 1, !.branch_id = code]
<1>1. /\ heirs \in Seq(HeirRecord) /\ i \in DOMAIN heirs
      /\ i \in 1 .. initial_heir_count /\ n \in Nat
  BY DEF FamilyInv, TreeInv, HeirsInv, LoopInv, FoundSubBranch
<1>2. /\ TreeInv' /\ DOMAIN branch_id' = DOMAIN branch_id \cup {n + 1}
      /\ Len(branch_id') = n + 1 /\ branch_id'[n + 1] = code
      /\ \A b \in DOMAIN branch_id : branch_id'[b] = branch_id[b]
  <2>1. AddSubBranch(heir.branch_index, code)
    BY DEF FoundSubBranch
  <2> QED
    BY <2>1, TreeStep DEF FamilyInv
<1>3. heir \in HeirRecord /\ HeirFits(heir)
  BY <1>1 DEF FamilyInv, HeirsInv
<1>4. heirs' = [heirs EXCEPT ![i] = moved]
  BY <1>1, <1>2 DEF FoundSubBranch
<1> HIDE DEF heir
<1>5. moved \in HeirRecord
  <2>1. n + 1 \in Nat /\ code \in Nat
    BY <1>1 DEF SpawnCode
  <2> QED
    BY <1>3, <2>1, HeirUpdates DEF HeirState
<1>6. /\ moved.branch_index = n + 1 /\ moved.branch_id = code
      /\ moved.state = heir.state
      /\ moved.last_approved_base_payout = heir.last_approved_base_payout
      /\ moved.last_approved_spillover_payout
           = heir.last_approved_spillover_payout
  BY <1>3 DEF HeirRecord
<1> HIDE DEF moved, code
<1>7. /\ heirs' \in Seq(HeirRecord) /\ Len(heirs') = Len(heirs)
      /\ DOMAIN heirs' = DOMAIN heirs
      /\ \A k \in DOMAIN heirs' : heirs'[k] = IF k = i THEN moved ELSE heirs[k]
  BY <1>1, <1>4, <1>5
<1>8. ASSUME NEW k \in DOMAIN heirs' PROVE HeirFits(heirs[k])'
  <2>1. CASE k = i
    BY <1>2, <1>3, <1>6, <1>7, <2>1 DEF HeirFits
  <2>2. CASE k # i
    <3>1. heirs'[k] = heirs[k] /\ HeirFits(heirs[k])
      BY <1>7, <2>2 DEF FamilyInv, HeirsInv
    <3> QED
      BY <1>2, <3>1 DEF HeirFits
  <2> QED
    BY <2>1, <2>2
<1>9. HeirsInv'
  <2>1. base_contributions' = base_contributions
    BY DEF FoundSubBranch
  <2> QED
    BY <1>7, <1>8, <2>1 DEF FamilyInv, HeirsInv, ContributionsAligned
<1>10. LoopInv'
  <2>1. /\ pc = "branching" /\ pc' = "birth"
        /\ UNCHANGED <<years_left, i, initial_heir_count>>
    BY DEF FoundSubBranch
  <2>2. \A k \in initial_heir_count + 1 .. Len(heirs) :
          k \in DOMAIN heirs' /\ k # i
    <3>1. /\ initial_heir_count \in Nat /\ Len(heirs) \in Nat
          /\ DOMAIN heirs' = 1 .. Len(heirs) /\ i <= initial_heir_count
          /\ i \in Int
      BY <1>1, <1>7 DEF LoopInv
    <3> QED
      BY <3>1
  <2>3. NewbornsWait'
    BY <1>7, <2>1, <2>2 DEF LoopInv, NewbornsWait
  <2> QED
    BY <1>1, <1>7, <2>1, <2>3 DEF LoopInv
<1> QED
  BY <1>2, <1>9, <1>10 DEF FamilyInv

(* A newborn joins the arena and the engine at once, in a known branch.    *)
LEMMA BearChildFamily ==
  ASSUME FamilyInv, LoopInv, BearChild
  PROVE  FamilyInv' /\ LoopInv'
<1> DEFINE b == heirs[i].branch_index
           child == Beneficiary(b, branch_id[b], 0, 0)
           base == ChildBase(base_contributions[i])
<1>1. /\ heirs \in Seq(HeirRecord) /\ i \in DOMAIN heirs
      /\ i \in 1 .. initial_heir_count /\ Len(heirs) \in Nat
      /\ base_contributions \in Seq(Nat)
      /\ Len(base_contributions) = Len(heirs)
  BY DEF FamilyInv, HeirsInv, ContributionsAligned, LoopInv, BearChild
<1>2. b \in DOMAIN branch_id /\ b \in Nat /\ branch_id[b] \in Nat
  BY <1>1 DEF FamilyInv, TreeInv, HeirsInv, HeirFits
<1>3. /\ heirs' = Append(heirs, child)
      /\ active_heir_count' = active_heir_count
      /\ base_contributions' = Append(base_contributions, base)
      /\ UNCHANGED <<branch_id, parent_index, virtual_share_percentage>>
  BY EstateAssumption DEF BearChild, AddBeneficiary, tree
<1>4. base \in Nat
  <2>1. base_contributions[i] \in Nat
    BY <1>1
  <2> HIDE DEF base
  <2> QED
    BY <2>1, EstateAssumption DEF base, ChildBase
<1> HIDE DEF b, base
<1>5. /\ child \in HeirRecord /\ HeirFits(child)
      /\ child.age = 0 /\ child.annual_capital_contribution = 0
  BY <1>2, EstateAssumption DEF Beneficiary, HeirRecord, HeirState, HeirFits
<1> HIDE DEF child
<1>6. /\ heirs' \in Seq(HeirRecord) /\ Len(heirs') = Len(heirs) + 1
      /\ DOMAIN heirs' = 1 .. Len(heirs) + 1
      /\ \A k \in 1 .. Len(heirs) : heirs'[k] = heirs[k]
      /\ heirs'[Len(heirs) + 1] = child
  BY <1>1, <1>3, <1>5
<1>7. ASSUME NEW k \in 1 .. Len(heirs) + 1
      PROVE  \/ k \in 1 .. Len(heirs) /\ k \in DOMAIN heirs
                /\ heirs'[k] = heirs[k]
             \/ k = Len(heirs) + 1 /\ heirs'[k] = child
  <2>1. k \in 1 .. Len(heirs) \/ k = Len(heirs) + 1
    BY <1>1
  <2> QED
    BY <1>1, <1>6, <2>1
<1>8. HeirsInv'
  <2>1. ASSUME NEW k \in DOMAIN heirs' PROVE HeirFits(heirs[k])'
    <3>1. HeirFits(heirs'[k])
      BY <1>5, <1>6, <1>7 DEF FamilyInv, HeirsInv
    <3> QED
      BY <1>3, <3>1 DEF HeirFits
  <2>2. /\ base_contributions' \in Seq(Nat)
        /\ Len(base_contributions') = Len(heirs')
    BY <1>1, <1>3, <1>4, <1>6
  <2> QED
    BY <1>6, <2>1, <2>2 DEF HeirsInv, ContributionsAligned
<1>9. TreeInv'
  BY <1>3 DEF FamilyInv, TreeInv
<1>10. LoopInv'
  <2>1. /\ pc = "birth" /\ pc' = "aging" /\ i' = i + 1
        /\ UNCHANGED <<years_left, initial_heir_count>>
    BY DEF BearChild, NextHeir
  <2>2. NewbornsWait'
    <3>1. initial_heir_count \in Nat
      BY DEF LoopInv
    <3>2. \A k \in initial_heir_count + 1 .. Len(heirs) :
            heirs[k].age = 0 /\ heirs[k].annual_capital_contribution = 0
      BY <2>1 DEF LoopInv, NewbornsWait
    <3>3. ASSUME NEW k \in initial_heir_count + 1 .. Len(heirs) + 1
          PROVE  heirs'[k].age = 0 /\ heirs'[k].annual_capital_contribution = 0
      <4>1. k \in 1 .. Len(heirs) + 1
        BY <1>1, <3>1
      <4>2. CASE k = Len(heirs) + 1
        BY <1>5, <1>6, <4>2
      <4>3. CASE k # Len(heirs) + 1
        <5>1. k \in initial_heir_count + 1 .. Len(heirs)
          BY <1>1, <3>1, <4>1, <4>3
        <5> QED
          BY <1>7, <3>2, <4>1, <4>3, <5>1
      <4> QED
        BY <4>2, <4>3
    <3> QED
      BY <1>6, <2>1, <3>3 DEF NewbornsWait
  <2>3. initial_heir_count' \in 0 .. Len(heirs')
    BY <1>1, <1>6, <2>1 DEF LoopInv
  <2> QED
    BY <1>1, <2>1, <2>2, <2>3 DEF LoopInv
<1> QED
  BY <1>8, <1>9, <1>10 DEF FamilyInv

(* The elements of a sequence over S are elements of S.                    *)
LEMMA ElementOf ==
  ASSUME NEW S, NEW s \in Seq(S), NEW k \in DOMAIN s PROVE s[k] \in S
OBVIOUS

(* A function on 1 .. n is a sequence.                                     *)
LEMMA FunctionsAreSequences ==
  ASSUME NEW S, NEW n \in Nat, NEW f \in [1 .. n -> S]
  PROVE  f \in Seq(S) /\ Len(f) = n /\ DOMAIN f = 1 .. n
OBVIOUS

(* A seed is a family in order.                                            *)
LEMMA SeedEstateFamily ==
  ASSUME LoopInv, NEW seed \in Seeds, SeedEstate(seed)
  PROVE  FamilyInv' /\ LoopInv'
<1> DEFINE n == Len(seed.parents) + 1
           m == Len(seed.heirs)
           adults(b) == {k \in DOMAIN seed.heirs :
                           seed.heirs[k].branch = b
                             /\ seed.heirs[k].age >= Majority}
<1>1. /\ seed.parents \in Seq(Nat) /\ Len(seed.parents) \in Nat
      /\ seed.heirs \in Seq([branch : Nat, age : Nat, contribution : Nat])
      /\ m \in Nat /\ DOMAIN seed.heirs = 1 .. m
  BY EstateAssumption DEF Seed
<1>2. /\ \A k \in 1 .. Len(seed.parents) : seed.parents[k] \in 1 .. k
      /\ \A k \in 1 .. m : /\ seed.heirs[k].branch \in 1 .. n
                           /\ seed.heirs[k].age \in Nat
                           /\ seed.heirs[k].contribution \in Nat
  <2>1. \A k \in 1 .. Len(seed.parents) : seed.parents[k] \in 1 .. k
    <3>1. DOMAIN seed.parents = 1 .. Len(seed.parents)
      BY <1>1
    <3> QED
      BY <3>1, EstateAssumption
  <2>2. \A k \in DOMAIN seed.heirs : seed.heirs[k].branch \in 1 .. n
    BY EstateAssumption
  <2>3. \A k \in DOMAIN seed.heirs :
          seed.heirs[k] \in [branch : Nat, age : Nat, contribution : Nat]
    BY <1>1, ElementOf
  <2> QED
    BY <1>1, <2>1, <2>2, <2>3
<1>3. /\ parent_index' = <<NoBranch>> \o seed.parents
      /\ branch_id' = [b \in DOMAIN parent_index' |-> SeedCode + b - 1]
      /\ virtual_share_percentage' = PerStirpesShares(parent_index')
      /\ active_heir_count' = [b \in DOMAIN parent_index' |->
                                 Cardinality(adults(b)) % CountRange]
      /\ heirs' = [k \in DOMAIN seed.heirs |->
                     Beneficiary(seed.heirs[k].branch,
                                 branch_id'[seed.heirs[k].branch],
                                 seed.heirs[k].age, seed.heirs[k].contribution)]
      /\ base_contributions' =
           [k \in DOMAIN seed.heirs |-> seed.heirs[k].contribution]
  BY DEF SeedEstate
<1>4. /\ parent_index' \in Seq(Nat) /\ Len(parent_index') = n
      /\ DOMAIN parent_index' = 1 .. n
      /\ parent_index'[1] = NoBranch
      /\ \A b \in 2 .. n : parent_index'[b] = seed.parents[b - 1]
  BY <1>1, <1>3 DEF NoBranch
<1>5. IsTree(parent_index')
  <2>1. ASSUME NEW b \in 1 .. n
        PROVE  parent_index'[b] \in IF b = 1 THEN {NoBranch} ELSE 1 .. b - 1
    <3>1. CASE b = 1
      BY <1>4, <3>1
    <3>2. CASE b # 1
      <4>1. b \in 2 .. n /\ b - 1 \in 1 .. Len(seed.parents)
        BY <1>1, <3>2
      <4> QED
        BY <1>2, <1>4, <3>2, <4>1
    <3> QED
      BY <3>1, <3>2
  <2> QED
    BY <1>4, <2>1 DEF IsTree
<1>6. n \in Nat
  BY <1>1
<1> HIDE DEF n, m
<1>7. /\ branch_id' \in Seq(Nat) /\ Len(branch_id') = n
      /\ DOMAIN branch_id' = 1 .. n
      /\ \A b \in 1 .. n : branch_id'[b] = SeedCode + b - 1
  <2>1. \A b \in 1 .. n : SeedCode + b - 1 \in Nat
    BY DEF SeedCode
  <2>2. branch_id' \in [1 .. n -> Nat]
    BY <1>3, <1>4, <2>1
  <2> QED
    BY <1>3, <1>4, <1>6, <2>2, FunctionsAreSequences
<1>8. /\ active_heir_count' \in Seq(0 .. CountRange - 1)
      /\ Len(active_heir_count') = n
  <2>1. ASSUME NEW b \in 1 .. n
        PROVE  Cardinality(adults(b)) % CountRange \in 0 .. CountRange - 1
    <3>1. IsFiniteSet(DOMAIN seed.heirs)
      BY <1>1, FS_Interval
    <3>2. Cardinality(adults(b)) \in Nat
      BY <3>1, FS_Subset, FS_CardinalityType
    <3> HIDE DEF adults
    <3> QED
      BY <3>2, EstateAssumption
  <2>2. active_heir_count' \in [1 .. n -> 0 .. CountRange - 1]
    <3> HIDE DEF adults
    <3> QED BY <1>3, <1>4, <2>1
  <2> QED
    BY <1>6, <2>2, FunctionsAreSequences
<1>9. TreeInv'
  <2>1. \A b \in 1 .. n : branch_id'[b] < SpawnCode + n
    BY <1>6, <1>7 DEF SeedCode, SpawnCode
  <2>2. \A b, c \in 1 .. n : branch_id'[b] = branch_id'[c] => b = c
    BY <1>6, <1>7 DEF SeedCode
  <2>3. virtual_share_percentage' = PerStirpesShares(parent_index')
    BY <1>3
  <2> QED
    BY <1>4, <1>5, <1>7, <1>8, <2>1, <2>2, <2>3 DEF TreeInv
<1>10. ASSUME NEW k \in 1 .. m
       PROVE  heirs'[k] \in HeirRecord /\ HeirFits(heirs[k])'
  <2> DEFINE h == seed.heirs[k]
  <2>1. /\ heirs'[k] = Beneficiary(h.branch, branch_id'[h.branch], h.age,
                                   h.contribution)
        /\ h.branch \in 1 .. n /\ h.age \in Nat /\ h.contribution \in Nat
    BY <1>1, <1>2, <1>3
  <2>2. h.branch \in Nat /\ branch_id'[h.branch] \in Nat
    BY SMTT(30), <1>6, <1>7, <2>1
  <2> HIDE DEF h
  <2>3. heirs'[k] \in HeirRecord
    BY <2>1, <2>2, EstateAssumption DEF Beneficiary, HeirRecord, HeirState
  <2>4. HeirFits(heirs[k])'
    BY <1>7, <2>1 DEF Beneficiary, HeirFits
  <2> QED
    BY <2>3, <2>4
<1>11. HeirsInv'
  <2>1. /\ heirs' \in Seq(HeirRecord) /\ Len(heirs') = m
        /\ DOMAIN heirs' = 1 .. m
    <3>1. heirs' \in [1 .. m -> HeirRecord]
      BY <1>1, <1>3, <1>10
    <3> QED
      BY <1>1, <3>1, FunctionsAreSequences
  <2>2. base_contributions' \in Seq(Nat) /\ Len(base_contributions') = m
    <3>1. base_contributions' \in [1 .. m -> Nat]
      BY <1>1, <1>2, <1>3
    <3> QED
      BY <1>1, <3>1, FunctionsAreSequences
  <2> QED
    BY <1>10, <2>1, <2>2 DEF HeirsInv, ContributionsAligned
<1>12. LoopInv'
  <2>1. pc = "idle" /\ UNCHANGED <<pc, years_left, i, initial_heir_count>>
    BY DEF SeedEstate, Called, loop
  <2>2. i = 0 /\ initial_heir_count = 0 /\ years_left \in Nat
    BY <2>1 DEF LoopInv
  <2>3. Len(heirs') \in Nat
    BY <1>11 DEF HeirsInv
  <2> QED
    BY <2>1, <2>2, <2>3 DEF LoopInv, NewbornsWait
<1> QED
  BY <1>9, <1>11, <1>12 DEF FamilyInv

(* The annual tick.                                                        *)

(* What a tick finds and what its settlement decides.                      *)
Found == RegistryWith(PerStirpesShares(parent_index))
Grown(growth) == (current_aum * growth) \div 2
BooksOf(growth) ==
  AnnualSettlement(Found, GlobalCap(Grown(growth)), policy.mode)

(* The fund and its cap are whole amounts, whatever the market does.       *)
LEMMA AmountsAreIntegers ==
  ASSUME current_aum \in Int, policy \in Policies, NEW growth \in Growths
  PROVE  Grown(growth) \in Int /\ GlobalCap(Grown(growth)) \in Int
<1>1. \A a \in Int, b \in Nat \ {0} : a \div b \in Int
  OBVIOUS
<1>2. growth \in Nat
  BY EstateAssumption
<1>3. current_aum * growth \in Int
  BY <1>2
<1>4. Grown(growth) \in Int
  BY <1>1, <1>3 DEF Grown
<1>5. policy.cap_num \in Nat /\ policy.cap_den \in Nat \ {0}
  BY EstateAssumption DEF Policy
<1> HIDE DEF Grown
<1>6. Grown(growth) * policy.cap_num \in Int
  BY <1>4, <1>5
<1> QED
  BY <1>1, <1>4, <1>5, <1>6 DEF GlobalCap

(* What a settlement finds in the arenas is a registry the rules apply to. *)
LEMMA FoundIsWellFormed ==
  ASSUME FamilyInv
  PROVE  /\ WellFormed(Found)
         /\ DOMAIN Found.state = DOMAIN heirs
         /\ \A k \in DOMAIN heirs :
              /\ Found.claim[k]
                   = heirs[k].annual_capital_contribution * Multiplier
              /\ Found.base[k] = heirs[k].last_approved_base_payout
              /\ Found.spillover[k] = heirs[k].last_approved_spillover_payout
              /\ k \in ActiveOf(Found) <=> heirs[k].state # "MINOR"
<1>1. /\ heirs \in Seq(HeirRecord) /\ Len(heirs) \in Nat
      /\ DOMAIN heirs = 1 .. Len(heirs)
  BY DEF FamilyInv, HeirsInv
<1>2. /\ Found.state = [k \in DOMAIN heirs |-> heirs[k].state]
      /\ Found.claim = [k \in DOMAIN heirs |->
                          heirs[k].annual_capital_contribution * Multiplier]
      /\ Found.branch_index = [k \in DOMAIN heirs |-> heirs[k].branch_index]
      /\ Found.base = [k \in DOMAIN heirs |->
                         heirs[k].last_approved_base_payout]
      /\ Found.spillover = [k \in DOMAIN heirs |->
                              heirs[k].last_approved_spillover_payout]
      /\ Found.share = PerStirpesShares(parent_index)
      /\ Found.count = active_heir_count
  BY DEF Found, RegistryWith
<1>3. \A k \in DOMAIN heirs :
        /\ heirs[k].state \in {"MINOR", "ACTIVE"}
        /\ heirs[k].annual_capital_contribution \in Nat
        /\ heirs[k].last_approved_base_payout \in Nat
        /\ heirs[k].last_approved_spillover_payout \in Nat
  <2>1. \A k \in DOMAIN heirs : heirs[k] \in HeirRecord
    BY <1>1, ElementOf
  <2> QED
    BY <2>1 DEF HeirRecord, HeirState
<1>4. /\ DOMAIN parent_index = DOMAIN branch_id
      /\ DOMAIN active_heir_count = DOMAIN parent_index
      /\ active_heir_count \in Seq(0 .. CountRange - 1)
  BY DEF FamilyInv, TreeInv, IsTree
<1>5. PerStirpesShares(parent_index) \in [DOMAIN parent_index -> Nat \ {0}]
  BY SharesArePositive DEF FamilyInv, TreeInv
<1>6. \A b \in DOMAIN Found.share : Found.share[b] \in Nat /\ Found.count[b] \in Nat
  <2>1. \A b \in DOMAIN parent_index :
          active_heir_count[b] \in 0 .. CountRange - 1
    BY <1>4, ElementOf
  <2>2. \A c \in 0 .. CountRange - 1 : c \in Nat
    BY EstateAssumption
  <2> QED
    BY <1>2, <1>5, <2>1, <2>2
<1>7. \A k \in DOMAIN heirs : heirs[k].branch_index \in DOMAIN Found.share
  BY <1>2, <1>4, <1>5 DEF FamilyInv, HeirsInv, HeirFits
<1>8. \A k \in DOMAIN heirs : heirs[k].annual_capital_contribution * Multiplier \in Nat
  BY <1>3, EstateAssumption
<1>9. WellFormed(Found)
  <2>1. /\ Found.base \in [DOMAIN heirs -> Nat]
        /\ Found.spillover \in [DOMAIN heirs -> Nat]
    BY <1>2, <1>3
  <2>2. \A k \in DOMAIN heirs :
          Found.claim[k] \in Nat /\ Found.branch_index[k] \in DOMAIN Found.share
    BY <1>2, <1>7, <1>8
  <2> QED
    BY <1>1, <1>2, <1>6, <2>1, <2>2 DEF WellFormed
<1>10. \A k \in DOMAIN heirs : k \in ActiveOf(Found) <=> heirs[k].state # "MINOR"
  BY <1>2, <1>3 DEF ActiveOf
<1> QED
  BY <1>2, <1>9, <1>10

(* The payouts of a tick keep the family in order and, if there is a cap,  *)
(* are what the settlement says it has disbursed and within the claims.    *)
LEMMA TickPays ==
  ASSUME FamilyInv, current_aum \in Int, policy \in Policies,
         NEW growth \in Growths, Tick(growth)
  PROVE  /\ FamilyInv' /\ Len(heirs') = Len(heirs)
         /\ \A k \in DOMAIN heirs :
              /\ heirs'[k].age = heirs[k].age
              /\ heirs'[k].annual_capital_contribution
                   = heirs[k].annual_capital_contribution
         /\ current_aum' = Grown(growth) - BooksOf(growth).total
         /\ tick' = [starting_aum |-> current_aum,
                     market_gain |-> Grown(growth) - current_aum,
                     global_cap |-> GlobalCap(Grown(growth)),
                     total_disbursed |-> BooksOf(growth).total]
         /\ BooksOf(growth).total \in Nat
         /\ tick'.global_cap > 0 =>
              /\ BooksOf(growth).total
                   = TotalOf("last_approved_base_payout")'
                       + TotalOf("last_approved_spillover_payout")'
              /\ \A k \in DOMAIN heirs' :
                   heirs'[k].annual_capital_contribution * Multiplier
                     - heirs'[k].last_approved_base_payout
                     - heirs'[k].last_approved_spillover_payout >= 0
<1> DEFINE cap == GlobalCap(Grown(growth))
           books == BooksOf(growth)
           D == DOMAIN heirs
<1>1. /\ heirs \in Seq(HeirRecord) /\ Len(heirs) \in Nat /\ D = 1 .. Len(heirs)
      /\ \A k \in D : heirs[k] \in HeirRecord /\ HeirFits(heirs[k])
  BY ElementOf DEF FamilyInv, HeirsInv
<1>2. /\ heirs' = PaidBy(books)
      /\ current_aum' = Grown(growth) - books.total
      /\ tick' = [starting_aum |-> current_aum,
                  market_gain |-> Grown(growth) - current_aum,
                  global_cap |-> cap, total_disbursed |-> books.total]
      /\ virtual_share_percentage' = PerStirpesShares(parent_index)
      /\ UNCHANGED <<branch_id, parent_index, active_heir_count,
                     base_contributions>>
  BY DEF Tick, BooksOf, Found, Grown
<1>3. cap \in Int /\ Grown(growth) \in Int
  BY AmountsAreIntegers
<1>4. policy.mode \in GovernanceMode
  BY EstateAssumption DEF Policy
<1>5. /\ WellFormed(Found) /\ DOMAIN Found.state = D
      /\ \A k \in D :
           /\ Found.claim[k] = heirs[k].annual_capital_contribution * Multiplier
           /\ Found.base[k] = heirs[k].last_approved_base_payout
           /\ Found.spillover[k] = heirs[k].last_approved_spillover_payout
           /\ k \in ActiveOf(Found) <=> heirs[k].state # "MINOR"
  BY FoundIsWellFormed
<1>6. RatioIsNatural
  BY EstateAssumption DEF RatioIsNatural
<1>7. /\ books.base \in [D -> Nat] /\ books.spillover \in [D -> Nat]
      /\ books.total \in Nat
      /\ \A k \in D \ ActiveOf(Found) : /\ books.base[k] = Found.base[k]
                                       /\ books.spillover[k] = Found.spillover[k]
      /\ cap > 0 => \A k \in ActiveOf(Found) :
                      books.base[k] + books.spillover[k] <= Found.claim[k]
      /\ cap > 0 /\ (\A k \in D \ ActiveOf(Found) :
                       Found.base[k] = 0 /\ Found.spillover[k] = 0)
           => books.total = Total(books.base, D) + Total(books.spillover, D)
  BY <1>3, <1>4, <1>5, <1>6, SettlementPays DEF BooksOf
<1> HIDE DEF cap, books
<1>8. \A k \in D : heirs[k].state = "MINOR" =>
        Found.base[k] = 0 /\ Found.spillover[k] = 0
  BY <1>1, <1>5 DEF HeirFits
<1>9. ASSUME NEW k \in D
      PROVE  /\ heirs'[k] \in HeirRecord
             /\ heirs'[k].last_approved_base_payout = books.base[k]
             /\ heirs'[k].last_approved_spillover_payout = books.spillover[k]
             /\ heirs'[k].age = heirs[k].age
             /\ heirs'[k].state = heirs[k].state
             /\ heirs'[k].branch_id = heirs[k].branch_id
             /\ heirs'[k].branch_index = heirs[k].branch_index
             /\ heirs'[k].annual_capital_contribution
                  = heirs[k].annual_capital_contribution
  <2>1. heirs'[k] =
          [heirs[k] EXCEPT !.last_approved_base_payout = books.base[k],
                           !.last_approved_spillover_payout = books.spillover[k]]
    BY <1>2 DEF PaidBy
  <2>2. heirs[k] \in HeirRecord /\ books.base[k] \in Nat /\ books.spillover[k] \in Nat
    BY <1>1, <1>7
  <2>3. heirs'[k] \in HeirRecord
    <3> DEFINE heir == heirs[k]
               base == books.base[k]
               spillover == books.spillover[k]
    <3>1. heirs'[k] = [heir EXCEPT !.last_approved_base_payout = base,
                                   !.last_approved_spillover_payout = spillover]
      BY <2>1
    <3>2. heir \in HeirRecord /\ base \in Nat /\ spillover \in Nat
      BY <2>2
    <3>3. "MINOR" \in HeirState
      BY DEF HeirState
    <3> HIDE DEF heir, base, spillover
    <3>4. [heir EXCEPT !.last_approved_base_payout = base,
                       !.last_approved_spillover_payout = spillover]
            \in HeirRecord
      BY <3>2, <3>3, HeirUpdates
    <3> QED
      BY <3>1, <3>4
  <2> QED
    BY <2>1, <2>2, <2>3 DEF HeirRecord
<1>10. ASSUME NEW k \in D PROVE HeirFits(heirs[k])'
  <2>1. HeirFits(heirs[k])
    BY <1>1
  <2>2. heirs[k].state = "MINOR" => books.base[k] = 0 /\ books.spillover[k] = 0
    BY <1>5, <1>7, <1>8, <2>1
  <2> QED
    BY <1>2, <1>9, <2>1, <2>2 DEF HeirFits
<1>11. heirs' \in Seq(HeirRecord) /\ Len(heirs') = Len(heirs) /\ DOMAIN heirs' = D
  <2>1. heirs' \in [1 .. Len(heirs) -> HeirRecord]
    BY <1>1, <1>2, <1>9 DEF PaidBy
  <2> QED
    BY <1>1, <2>1, FunctionsAreSequences
<1>12. FamilyInv'
  <2>1. HeirsInv'
    BY <1>2, <1>10, <1>11 DEF FamilyInv, HeirsInv, ContributionsAligned
  <2>2. TreeInv'
    BY <1>2 DEF FamilyInv, TreeInv
  <2> QED
    BY <2>1, <2>2 DEF FamilyInv
<1>13. /\ TotalOf("last_approved_base_payout")' = Total(books.base, D)
       /\ TotalOf("last_approved_spillover_payout")' = Total(books.spillover, D)
  <2>1. /\ [k \in DOMAIN heirs' |-> heirs'[k]["last_approved_base_payout"]]
             = books.base
        /\ [k \in DOMAIN heirs' |-> heirs'[k]["last_approved_spillover_payout"]]
             = books.spillover
    <3>1. /\ books.base = [k \in D |-> books.base[k]]
          /\ books.spillover = [k \in D |-> books.spillover[k]]
      BY <1>7
    <3>2. /\ \A k \in D : heirs'[k].last_approved_base_payout = books.base[k]
          /\ \A k \in D :
               heirs'[k].last_approved_spillover_payout = books.spillover[k]
      BY <1>9
    <3>3. DOMAIN heirs' = D
      BY <1>11
    <3> QED
      BY <3>1, <3>2, <3>3
  <2> QED
    BY <1>11, <2>1 DEF TotalOf
<1>14. ASSUME cap > 0
       PROVE  /\ books.total = TotalOf("last_approved_base_payout")'
                                + TotalOf("last_approved_spillover_payout")'
              /\ \A k \in D :
                   heirs'[k].annual_capital_contribution * Multiplier
                     - heirs'[k].last_approved_base_payout
                     - heirs'[k].last_approved_spillover_payout >= 0
  <2>1. \A k \in D \ ActiveOf(Found) :
          /\ books.base[k] = 0 /\ books.spillover[k] = 0
          /\ Found.base[k] = 0 /\ Found.spillover[k] = 0
    BY <1>5, <1>7, <1>8
  <2>2. books.total = Total(books.base, D) + Total(books.spillover, D)
    BY <1>7, <1>14, <2>1
  <2>3. ASSUME NEW k \in D
        PROVE  heirs'[k].annual_capital_contribution * Multiplier
                 - heirs'[k].last_approved_base_payout
                 - heirs'[k].last_approved_spillover_payout >= 0
    <3> DEFINE claim == heirs[k].annual_capital_contribution * Multiplier
    <3>1. heirs[k].annual_capital_contribution \in Nat
      BY <1>1 DEF HeirRecord
    <3>2. claim \in Nat
      BY <3>1, EstateAssumption
    <3>3. books.base[k] \in Nat /\ books.spillover[k] \in Nat
      BY <1>7
    <3>4. Found.claim[k] = claim
      BY <1>5
    <3> HIDE DEF claim
    <3>5. books.base[k] + books.spillover[k] <= claim
      <4>1. CASE k \in ActiveOf(Found)
        BY <1>7, <1>14, <3>4, <4>1
      <4>2. CASE k \notin ActiveOf(Found)
        BY <2>1, <3>2, <4>2
      <4> QED
        BY <4>1, <4>2
    <3>6. claim - books.base[k] - books.spillover[k] >= 0
      BY <3>2, <3>3, <3>5
    <3> QED
      BY <1>9, <3>6 DEF claim
  <2> QED
    BY <1>13, <2>2, <2>3
<1>15. tick'.global_cap = cap
  BY <1>2
<1> QED
  <2> HIDE DEF D
  <2>1. \A k \in DOMAIN heirs : heirs'[k].age = heirs[k].age
          /\ heirs'[k].annual_capital_contribution
               = heirs[k].annual_capital_contribution
    BY <1>9 DEF D
  <2>2. DOMAIN heirs' = D
    BY <1>11
  <2> QED
    BY <1>2, <1>7, <1>11, <1>12, <1>14, <1>15, <2>1, <2>2 DEF cap, books

-----------------------------------------------------------------------------
(* The fund and its history.                                               *)

SnapshotRecord ==
  [year : Nat, starting_aum : Int, ending_aum : Int, market_gain : Int,
   global_cap_dollars : Int, total_base_disbursed : Int,
   total_spillover_disbursed : Int, unused_surplus_retained : Int,
   heir_states : Seq([base_payout : Nat, spillover_payout : Nat,
                      unmet_demand : Int])]

TickRecord == [starting_aum : Int, market_gain : Int, global_cap : Int,
               total_disbursed : Nat]

(* A tick that has yet to be recorded has accounted for its money.         *)
TickAccounts ==
  pc = "snapshot" /\ tick.global_cap > 0 =>
    /\ tick.total_disbursed = TotalOf("last_approved_base_payout")
                               + TotalOf("last_approved_spillover_payout")
    /\ current_aum = tick.starting_aum + tick.market_gain - tick.total_disbursed
    /\ \A k \in DOMAIN heirs :
         heirs[k].annual_capital_contribution * Multiplier
           - heirs[k].last_approved_base_payout
           - heirs[k].last_approved_spillover_payout >= 0

FundInv ==
  /\ initial_aum \in Endowments /\ current_aum \in Int
  /\ current_year \in Nat /\ funded_in \in 0 .. Len(history)
  /\ policy \in Policies
  /\ history \in Seq(SnapshotRecord)
  /\ tick \in TickRecord
  /\ HistoryChains /\ SnapshotsAccount /\ TickAccounts

IInv == FamilyInv /\ LoopInv /\ FundInv

(* The fund starts out with what it is endowed with and no history.        *)
LEMMA InitFund == Init => FundInv
<1> SUFFICES ASSUME Init PROVE FundInv
  OBVIOUS
<1>1. /\ history = <<>> /\ pc = "idle" /\ current_year = 0 /\ funded_in = 0
      /\ initial_aum \in Endowments /\ current_aum = initial_aum
      /\ policy \in Policies /\ tick = NoTick
  BY DEF Init
<1>2. current_aum \in Int /\ tick \in TickRecord
  BY <1>1, EstateAssumption DEF NoTick, TickRecord
<1>3. HistoryChains
  BY <1>1 DEF HistoryChains
<1>4. SnapshotsAccount /\ TickAccounts
  BY <1>1 DEF SnapshotsAccount, TickAccounts
<1> QED
  BY <1>1, <1>2, <1>3, <1>4 DEF FundInv

(* What the family does between the ticks is none of the fund's business.  *)
LEMMA FundKept ==
  ASSUME FundInv, UNCHANGED <<fund, tick>>,
         (pc # "snapshot" /\ pc' # "snapshot") \/ UNCHANGED <<pc, heirs>>
  PROVE  FundInv'
<1>1. HistoryChains'
  BY DEF FundInv, HistoryChains, fund
<1>2. SnapshotsAccount'
  BY DEF FundInv, SnapshotsAccount, fund
<1>3. TickAccounts'
  BY DEF FundInv, TickAccounts, TotalOf, fund
<1> QED
  BY <1>1, <1>2, <1>3 DEF FundInv, fund

(* Calls that give the fund money or a policy.                             *)
LEMMA CallFund ==
  ASSUME FundInv, NEW p \in Policies, NEW aum \in Endowments,
         SetPolicyEngine(p) \/ SetInitialAum(aum) \/ Reset
  PROVE  FundInv'
<1>1. pc = "idle" /\ pc' = "idle" /\ tick' = tick
  BY DEF SetPolicyEngine, SetInitialAum, Reset, Called, loop
<1>2. TickAccounts'
  BY <1>1 DEF TickAccounts
<1>3. CASE SetPolicyEngine(p)
  <2>1. HistoryChains' /\ SnapshotsAccount'
    BY <1>1, <1>3 DEF SetPolicyEngine, FundInv, HistoryChains, SnapshotsAccount
  <2> QED
    BY <1>1, <1>2, <1>3, <2>1 DEF SetPolicyEngine, FundInv
<1>4. CASE SetInitialAum(aum)
  <2>1. /\ initial_aum' = aum /\ current_aum' = aum /\ funded_in' = current_year
        /\ UNCHANGED <<current_year, policy, history>>
    BY <1>4 DEF SetInitialAum
  <2>2. current_year = Len(history) /\ Len(history) \in Nat
    BY <1>1 DEF FundInv, HistoryChains
  <2>3. HistoryChains'
    BY <1>1, <2>1, <2>2 DEF FundInv, HistoryChains
  <2>4. SnapshotsAccount'
    BY <2>1 DEF FundInv, SnapshotsAccount
  <2>5. aum \in Int
    BY EstateAssumption
  <2> QED
    BY <1>1, <1>2, <2>1, <2>2, <2>3, <2>4, <2>5 DEF FundInv
<1>5. CASE Reset
  <2>1. /\ current_aum' = initial_aum /\ current_year' = 0 /\ funded_in' = 0
        /\ history' = <<>> /\ UNCHANGED <<initial_aum, policy>>
    BY <1>5 DEF Reset
  <2>2. HistoryChains' /\ SnapshotsAccount'
    BY <1>1, <2>1 DEF HistoryChains, SnapshotsAccount
  <2>3. initial_aum \in Int
    BY EstateAssumption DEF FundInv
  <2> QED
    BY <1>1, <1>2, <2>1, <2>2, <2>3 DEF FundInv
<1> QED
  BY <1>3, <1>4, <1>5

(* A tick pays the heirs of one year, which the snapshot then reads.       *)
LEMMA TickStep ==
  ASSUME IInv, NEW growth \in Growths, Tick(growth), pc \in {"idle", "aging"}
  PROVE  IInv'
<1> DEFINE total == BooksOf(growth).total
           grown == Grown(growth)
           cap == GlobalCap(grown)
<1>1. /\ current_year' = current_year + 1 /\ pc' = "snapshot"
      /\ UNCHANGED <<initial_aum, policy, history, funded_in, years_left, i,
                     initial_heir_count>>
  BY DEF Tick
<1>2. /\ FamilyInv /\ current_aum \in Int /\ policy \in Policies
      /\ LoopInv /\ FundInv
  BY DEF IInv, FundInv
<1>3. /\ FamilyInv' /\ Len(heirs') = Len(heirs)
      /\ current_aum' = grown - total
      /\ tick' = [starting_aum |-> current_aum,
                  market_gain |-> grown - current_aum,
                  global_cap |-> cap, total_disbursed |-> total]
      /\ total \in Nat
      /\ tick'.global_cap > 0 =>
           /\ total = TotalOf("last_approved_base_payout")'
                        + TotalOf("last_approved_spillover_payout")'
           /\ \A k \in DOMAIN heirs' :
                heirs'[k].annual_capital_contribution * Multiplier
                  - heirs'[k].last_approved_base_payout
                  - heirs'[k].last_approved_spillover_payout >= 0
  BY <1>2, TickPays
<1>4. grown \in Int /\ cap \in Int
  BY <1>2, AmountsAreIntegers
<1> HIDE DEF total, grown, cap
<1>5. /\ tick'.starting_aum = current_aum
      /\ tick'.market_gain = grown - current_aum
      /\ tick'.total_disbursed = total
      /\ tick' \in TickRecord
  BY <1>2, <1>3, <1>4 DEF TickRecord
<1>6. TickAccounts'
  <2>1. current_aum' = tick'.starting_aum + tick'.market_gain
                         - tick'.total_disbursed
    BY <1>2, <1>3, <1>4, <1>5
  <2> QED
    BY <1>3, <1>5, <2>1 DEF TickAccounts
<1>7. HistoryChains'
  <2>1. pc # "snapshot" /\ pc' = "snapshot"
    BY <1>1
  <2> QED
    BY <1>1, <1>2, <1>5, <2>1 DEF FundInv, HistoryChains
<1>8. SnapshotsAccount'
  BY <1>1, <1>2 DEF FundInv, SnapshotsAccount
<1>9. FundInv'
  BY <1>1, <1>2, <1>3, <1>4, <1>5, <1>6, <1>7, <1>8 DEF FundInv
<1>10. LoopInv'
  BY <1>1, <1>2, <1>3 DEF LoopInv, NewbornsWait
<1> QED
  BY <1>3, <1>9, <1>10 DEF IInv

(* What the heirs hold adds up to whole amounts.                           *)
LEMMA TotalsAreIntegers ==
  ASSUME FamilyInv
  PROVE  /\ TotalOf("last_approved_base_payout") \in Int
         /\ TotalOf("last_approved_spillover_payout") \in Int
<1> DEFINE base == [k \in DOMAIN heirs |-> heirs[k]["last_approved_base_payout"]]
           spillover ==
             [k \in DOMAIN heirs |-> heirs[k]["last_approved_spillover_payout"]]
<1>1. /\ heirs \in Seq(HeirRecord) /\ Len(heirs) \in Nat
      /\ DOMAIN heirs = 1 .. Len(heirs)
  BY DEF FamilyInv, HeirsInv
<1>2. IsFiniteSet(DOMAIN heirs)
  BY <1>1, FS_Interval
<1>3. \A k \in DOMAIN heirs : heirs[k] \in HeirRecord
  BY <1>1, ElementOf
<1>4. \A k \in DOMAIN heirs : base[k] \in Int /\ spillover[k] \in Int
  BY <1>3 DEF HeirRecord
<1> HIDE DEF base, spillover
<1>5. Total(base, DOMAIN heirs) \in Int /\ Total(spillover, DOMAIN heirs) \in Int
  BY <1>2, <1>4, TotalType
<1> QED
  BY <1>5 DEF TotalOf, base, spillover

(* The recorded year follows on the one before and accounts for its money. *)
LEMMA RecordYearStep ==
  ASSUME IInv, RecordYear
  PROVE  IInv'
<1> DEFINE snap == Snapshot(current_aum)
           n == Len(history)
<1>1. /\ pc = "snapshot" /\ pc' \in {"idle", "year"}
      /\ history' = Append(history, snap) /\ tick' = NoTick
      /\ UNCHANGED <<initial_aum, current_aum, current_year, policy, funded_in,
                     family, i, initial_heir_count>>
  BY DEF RecordYear
<1>2. FamilyInv /\ LoopInv /\ FundInv
  BY DEF IInv
<1>3. FamilyInv'
  BY <1>1, <1>2
  DEF FamilyInv, TreeInv, HeirsInv, HeirFits, ContributionsAligned, family, tree
<1>4. LoopInv'
  <2>1. heirs' = heirs
    BY <1>1 DEF family
  <2>2. IF years_left = 0 THEN pc' = "idle" /\ years_left' = years_left
                          ELSE pc' = "year" /\ years_left' = years_left - 1
    BY DEF RecordYear
  <2> QED
    BY <1>1, <1>2, <2>1, <2>2 DEF LoopInv, NewbornsWait
<1>5. /\ history \in Seq(SnapshotRecord) /\ n \in Nat
      /\ DOMAIN history = 1 .. n
  BY <1>2 DEF FundInv
<1>6. /\ snap.year = current_year
      /\ snap.starting_aum = tick.starting_aum
      /\ snap.ending_aum = current_aum
      /\ snap.market_gain = tick.market_gain
      /\ snap.global_cap_dollars = tick.global_cap
      /\ snap.total_base_disbursed = TotalOf("last_approved_base_payout")
      /\ snap.total_spillover_disbursed = TotalOf("last_approved_spillover_payout")
      /\ snap.unused_surplus_retained =
           IF tick.global_cap > tick.total_disbursed
           THEN tick.global_cap - tick.total_disbursed ELSE 0
      /\ snap.heir_states = HeirSnapshots
  BY DEF Snapshot
<1>7. HeirSnapshots \in Seq([base_payout : Nat, spillover_payout : Nat,
                             unmet_demand : Int])
  <2>1. /\ heirs \in Seq(HeirRecord) /\ Len(heirs) \in Nat
        /\ DOMAIN heirs = 1 .. Len(heirs)
    BY <1>2 DEF FamilyInv, HeirsInv
  <2>2. ASSUME NEW k \in DOMAIN heirs
        PROVE  HeirSnapshots[k] \in [base_payout : Nat, spillover_payout : Nat,
                                     unmet_demand : Int]
    <3>1. heirs[k] \in HeirRecord
      BY <2>1, ElementOf
    <3>2. /\ heirs[k].annual_capital_contribution \in Nat
          /\ heirs[k].last_approved_base_payout \in Nat
          /\ heirs[k].last_approved_spillover_payout \in Nat
      BY <3>1 DEF HeirRecord
    <3>3. heirs[k].annual_capital_contribution * Multiplier \in Int
      BY <3>2, EstateAssumption
    <3> QED
      BY <3>2, <3>3 DEF HeirSnapshots
  <2>3. HeirSnapshots \in [1 .. Len(heirs) -> [base_payout : Nat,
                            spillover_payout : Nat, unmet_demand : Int]]
    BY <2>1, <2>2 DEF HeirSnapshots
  <2> QED
    BY <2>1, <2>3, FunctionsAreSequences
<1>8. snap \in SnapshotRecord
  <2>1. tick \in TickRecord /\ current_aum \in Int /\ current_year \in Nat
    BY <1>2 DEF FundInv
  <2>2. /\ TotalOf("last_approved_base_payout") \in Int
        /\ TotalOf("last_approved_spillover_payout") \in Int
    BY <1>2, TotalsAreIntegers
  <2> QED
    BY <1>7, <2>1, <2>2 DEF Snapshot, SnapshotRecord, TickRecord
<1> HIDE DEF snap, n
<1>9. /\ history' \in Seq(SnapshotRecord) /\ Len(history') = n + 1
      /\ DOMAIN history' = 1 .. n + 1
      /\ \A k \in 1 .. n : history'[k] = history[k]
      /\ history'[n + 1] = snap
  BY <1>1, <1>5, <1>8 DEF n
<1>10. HistoryChains'
  <2> DEFINE opening(k) == IF k = funded_in + 1 THEN initial_aum
                           ELSE history'[k - 1].ending_aum
  <2>1. /\ funded_in \in 0 .. n /\ current_year = n + 1
        /\ \A k \in 1 .. n : history[k].year = k
        /\ \A k \in funded_in + 1 .. n :
             history[k].starting_aum = IF k = funded_in + 1 THEN initial_aum
                                       ELSE history[k - 1].ending_aum
        /\ tick.starting_aum = IF n + 1 = funded_in + 1 THEN initial_aum
                               ELSE history[n].ending_aum
    BY <1>1, <1>2, <1>5 DEF FundInv, HistoryChains, n
  <2>2. ASSUME NEW k \in 1 .. n + 1 PROVE history'[k].year = k
    BY <1>5, <1>6, <1>9, <2>1
  <2>3. ASSUME NEW k \in funded_in + 1 .. n + 1
        PROVE  history'[k].starting_aum = opening(k)
    <3>1. CASE k = n + 1
      <4>1. history'[k].starting_aum = tick.starting_aum
        BY <1>6, <1>9, <3>1
      <4>2. k # funded_in + 1 => n \in 1 .. n /\ k - 1 = n
        BY <1>5, <2>1, <3>1
      <4> QED
        BY <1>9, <2>1, <3>1, <4>1, <4>2
    <3>2. CASE k # n + 1
      <4>1. k \in funded_in + 1 .. n /\ k \in 1 .. n
        BY <1>5, <2>1, <3>2
      <4>2. k # funded_in + 1 => k - 1 \in 1 .. n
        BY <1>5, <2>1, <4>1
      <4> QED
        BY <1>9, <2>1, <4>1, <4>2
    <3> QED
      BY <3>1, <3>2
  <2>4. current_aum = opening(n + 2)
    <3>1. n + 2 # funded_in + 1 /\ (n + 2) - 1 = n + 1
      BY <1>5, <2>1
    <3> QED
      BY <1>6, <1>9, <3>1
  <2> QED
    BY <1>1, <1>5, <1>9, <2>1, <2>2, <2>3, <2>4 DEF HistoryChains
<1>11. SnapshotsAccount'
  <2> DEFINE Accounts(s) ==
        LET paid == s.total_base_disbursed + s.total_spillover_disbursed
        IN  s.global_cap_dollars > 0 =>
              /\ s.ending_aum = s.starting_aum + s.market_gain - paid
              /\ s.unused_surplus_retained
                   = IF s.global_cap_dollars > paid
                     THEN s.global_cap_dollars - paid ELSE 0
              /\ \A h \in DOMAIN s.heir_states :
                   s.heir_states[h].unmet_demand >= 0
  <2>1. \A k \in 1 .. n : Accounts(history[k])
    BY <1>2, <1>5 DEF FundInv, SnapshotsAccount
  <2>2. Accounts(snap)
    <3> SUFFICES ASSUME tick.global_cap > 0 PROVE Accounts(snap)
      BY <1>6
    <3>1. /\ tick.total_disbursed = TotalOf("last_approved_base_payout")
                                    + TotalOf("last_approved_spillover_payout")
          /\ current_aum = tick.starting_aum + tick.market_gain
                             - tick.total_disbursed
          /\ \A k \in DOMAIN heirs :
               heirs[k].annual_capital_contribution * Multiplier
                 - heirs[k].last_approved_base_payout
                 - heirs[k].last_approved_spillover_payout >= 0
      BY <1>1, <1>2 DEF FundInv, TickAccounts
    <3>2. \A h \in DOMAIN snap.heir_states :
            snap.heir_states[h].unmet_demand >= 0
      BY <1>6, <3>1 DEF HeirSnapshots
    <3> QED
      BY <1>6, <3>1, <3>2
  <2> HIDE DEF Accounts
  <2>3. \A k \in 1 .. n + 1 : Accounts(history'[k])
    <3>1. \A k \in 1 .. n + 1 : k \in 1 .. n \/ k = n + 1
      BY <1>5
    <3> QED
      BY <1>9, <2>1, <2>2, <3>1
  <2> QED
    BY <1>9, <2>3 DEF SnapshotsAccount, Accounts
<1>12. FundInv'
  <2>1. tick' \in TickRecord
    BY <1>1 DEF NoTick, TickRecord
  <2>2. TickAccounts'
    BY <1>1 DEF TickAccounts
  <2>3. funded_in' \in 0 .. Len(history')
    BY <1>1, <1>2, <1>5, <1>9 DEF FundInv, n
  <2> QED
    BY <1>1, <1>2, <1>9, <1>10, <1>11, <2>1, <2>2, <2>3 DEF FundInv
<1> QED
  BY <1>3, <1>4, <1>12 DEF IInv

-----------------------------------------------------------------------------
(* Every step preserves the invariant.                                     *)

(* The family is in order as long as nothing changes it.                   *)
LEMMA FamilyKept ==
  ASSUME FamilyInv,
         UNCHANGED <<heirs, branch_id, parent_index, virtual_share_percentage,
                     active_heir_count, base_contributions>>
  PROVE  FamilyInv'
BY DEF FamilyInv, TreeInv, HeirsInv, HeirFits, ContributionsAligned

(* A simulation opens with the shares the tree has anyway.                 *)
LEMMA RunSimulationStep ==
  ASSUME IInv, NEW total_years \in TotalYears, RunSimulation(total_years)
  PROVE  IInv'
<1>1. /\ pc = "idle" /\ pc' = "year" /\ total_years > 0
      /\ years_left' = total_years
      /\ virtual_share_percentage' = PerStirpesShares(parent_index)
      /\ UNCHANGED <<fund, heirs, branch_id, parent_index, active_heir_count,
                     base_contributions, i, initial_heir_count, tick>>
  BY DEF RunSimulation, Called
<1>2. FamilyInv'
  BY <1>1, FamilyKept DEF IInv, FamilyInv, TreeInv
<1>3. LoopInv'
  BY <1>1, EstateAssumption DEF IInv, LoopInv, NewbornsWait
<1>4. FundInv'
  BY <1>1, FundKept DEF IInv
<1> QED
  BY <1>2, <1>3, <1>4 DEF IInv

(* The calls made between two simulations preserve the invariant.          *)
LEMMA CallStep ==
  ASSUME IInv, NEW p \in Policies, NEW aum \in Endowments,
         SetPolicyEngine(p) \/ SetInitialAum(aum) \/ Reset
  PROVE  IInv'
<1>1. /\ UNCHANGED <<pc, years_left, i, initial_heir_count>>
      /\ UNCHANGED <<heirs, branch_id, parent_index, virtual_share_percentage,
                     active_heir_count, base_contributions>>
  BY DEF SetPolicyEngine, SetInitialAum, Reset, family, tree, loop
<1>2. FamilyInv'
  BY <1>1, FamilyKept DEF IInv
<1>3. LoopInv'
  BY <1>1 DEF IInv, LoopInv, NewbornsWait
<1>4. FundInv'
  BY CallFund DEF IInv
<1> QED
  BY <1>2, <1>3, <1>4 DEF IInv

(* The steps of the loops that change neither the fund nor the family.     *)
LEMMA LoopStep ==
  ASSUME IInv,
         StepDemographics \/ StayInBranch \/ StayChildless \/ FinishSimulation
  PROVE  IInv'
<1>1. /\ UNCHANGED <<fund, tick>> /\ pc # "snapshot" /\ pc' # "snapshot"
      /\ UNCHANGED <<heirs, branch_id, parent_index, virtual_share_percentage,
                     active_heir_count, base_contributions>>
  BY DEF StepDemographics, StayInBranch, StayChildless, FinishSimulation,
         NextHeir, family, tree
<1>2. FamilyInv' /\ FundInv'
  BY <1>1, FamilyKept, FundKept DEF IInv
<1>3. LoopInv /\ Len(heirs) \in Nat /\ heirs' = heirs
  BY <1>1 DEF IInv, FamilyInv, HeirsInv
<1>4. LoopInv'
  <2>1. CASE StepDemographics
    BY <1>3, <2>1 DEF StepDemographics, LoopInv, NewbornsWait
  <2>2. CASE StayInBranch
    BY <1>3, <2>2 DEF StayInBranch, LoopInv, NewbornsWait
  <2>3. CASE StayChildless
    BY <1>3, <2>3 DEF StayChildless, NextHeir, LoopInv, NewbornsWait
  <2>4. CASE FinishSimulation
    BY <1>3, <2>4 DEF FinishSimulation, LoopInv, NewbornsWait
  <2> QED
    BY <2>1, <2>2, <2>3, <2>4
<1> QED
  BY <1>2, <1>4 DEF IInv

(* The steps that change the family.                                       *)
LEMMA FamilyStep ==
  ASSUME IInv,
         \/ \E seed \in Seeds : SeedEstate(seed)
         \/ \E shock \in Shocks : AgeAndDeposit(shock)
         \/ FoundSubBranch \/ BearChild
  PROVE  IInv'
<1>1. /\ UNCHANGED <<fund, tick>> /\ pc # "snapshot" /\ pc' # "snapshot"
  BY DEF SeedEstate, Called, AgeAndDeposit, FoundSubBranch, BearChild,
         NextHeir, loop
<1>2. FundInv'
  BY <1>1, FundKept DEF IInv
<1>3. FamilyInv' /\ LoopInv'
  BY SeedEstateFamily, AgeAndDepositFamily, FoundSubBranchFamily,
     BearChildFamily
  DEF IInv
<1> QED
  BY <1>2, <1>3 DEF IInv

(* Every step preserves the inductive invariant.                           *)
LEMMA NextIInv ==
  ASSUME IInv, [Next]_vars PROVE IInv'
<1>1. CASE UNCHANGED vars
  <2>1. FamilyInv'
    BY <1>1, FamilyKept DEF IInv, vars, family, tree
  <2>2. FundInv'
    BY <1>1, FundKept DEF IInv, vars, family, loop
  <2>3. LoopInv'
    BY <1>1 DEF IInv, LoopInv, NewbornsWait, vars, family, loop
  <2> QED
    BY <2>1, <2>2, <2>3 DEF IInv
<1>2. ASSUME NEW growth \in Growths,
             TickAlone(growth) \/ StepAnnualTick(growth)
      PROVE  IInv'
  <2>1. Tick(growth) /\ pc \in {"idle", "aging"}
    BY <1>2 DEF TickAlone, StepAnnualTick, Called
  <2> QED
    BY <2>1, TickStep
<1>3. ASSUME \/ \E p \in Policies : SetPolicyEngine(p)
             \/ \E aum \in Endowments : SetInitialAum(aum)
             \/ Reset
      PROVE  IInv'
  <2>1. policy \in Policies /\ initial_aum \in Endowments
    BY DEF IInv, FundInv
  <2> QED
    BY <1>3, <2>1, CallStep
<1> QED
  BY <1>1, <1>2, <1>3, RunSimulationStep, LoopStep, FamilyStep, RecordYearStep
  DEF Next, Step

(* The inductive invariant holds in every reachable state.                 *)
THEOREM InductiveInvariant == Spec => []IInv
<1>1. Init => IInv
  BY InitFamily, InitFund DEF IInv
<1>2. IInv /\ [Next]_vars => IInv'
  BY NextIInv
<1> QED
  BY <1>1, <1>2, PTL DEF Spec

-----------------------------------------------------------------------------
(* Types: every heir sits in a branch, every branch but the root is below  *)
(* an earlier one, every share is positive and every counter in its range, *)
(* however the family grows.                                               *)
THEOREM TypeCorrect == Spec => []TypeOK
<1>1. ASSUME IInv PROVE TypeOK
  <2>1. /\ initial_aum \in Endowments /\ current_aum \in Int
        /\ current_year \in Nat /\ policy \in Policies
    BY <1>1 DEF IInv, FundInv
  <2>2. funded_in \in 0 .. current_year
    <3>1. /\ funded_in \in 0 .. Len(history) /\ Len(history) \in Nat
          /\ current_year = Len(history) + (IF pc = "snapshot" THEN 1 ELSE 0)
      BY <1>1 DEF IInv, FundInv, HistoryChains
    <3> QED
      BY <3>1
  <2>3. \A k \in DOMAIN heirs :
          heirs[k] \in HeirRecord /\ heirs[k].branch_index \in DOMAIN branch_id
    BY <1>1, ElementOf DEF IInv, FamilyInv, HeirsInv, HeirFits
  <2>4. \A k \in DOMAIN heirs :
          /\ heirs[k].age \in Nat
          /\ heirs[k].state \in HeirState
          /\ heirs[k].branch_index \in DOMAIN branch_id
          /\ heirs[k].annual_capital_contribution \in Nat
          /\ heirs[k].last_approved_base_payout \in Nat
          /\ heirs[k].last_approved_spillover_payout \in Nat
    BY <2>3 DEF HeirRecord
  <2>5. ASSUME NEW b \in DOMAIN parent_index
        PROVE  /\ parent_index[b] \in IF b = 1 THEN {NoBranch} ELSE 1 .. b - 1
               /\ virtual_share_percentage[b] \in Nat \ {0}
               /\ active_heir_count[b] \in 0 .. CountRange - 1
    <3>1. TreeInv
      BY <1>1 DEF IInv, FamilyInv
    <3>2. parent_index[b] \in IF b = 1 THEN {NoBranch} ELSE 1 .. b - 1
      BY <3>1 DEF TreeInv, IsTree
    <3>3. virtual_share_percentage[b] \in Nat \ {0}
      BY <3>1, SharesArePositive DEF TreeInv
    <3>4. b \in DOMAIN active_heir_count
      BY <3>1 DEF TreeInv, IsTree
    <3>5. active_heir_count[b] \in 0 .. CountRange - 1
      BY <3>1, <3>4, ElementOf DEF TreeInv
    <3> QED
      BY <3>2, <3>3, <3>5
  <2>6. /\ pc \in {"idle", "year", "aging", "branching", "birth", "snapshot"}
        /\ years_left \in Nat
        /\ initial_heir_count \in 0 .. Len(heirs)
        /\ i \in 0 .. initial_heir_count + 1
    BY <1>1 DEF IInv, LoopInv
  <2> QED
    BY <2>1, <2>2, <2>4, <2>5, <2>6 DEF TypeOK
<1> QED
  BY <1>1, InductiveInvariant, PTL

(* The engine's contributions stay with the heirs they belong to.          *)
THEOREM ArenasGrowTogether == Spec => []ContributionsAligned
<1>1. IInv => ContributionsAligned
  BY DEF IInv, FamilyInv, HeirsInv
<1> QED
  BY <1>1, InductiveInvariant, PTL

(* No child is visited in the year it is born.                             *)
THEOREM ChildrenWait == Spec => []NewbornsWait
<1>1. IInv => NewbornsWait
  BY DEF IInv, LoopInv
<1> QED
  BY <1>1, InductiveInvariant, PTL

(* No two branches have the same code, and heirs carry the right one.      *)
THEOREM CodesAreUnique == Spec => []CodesIdentifyBranches
<1>1. IInv => CodesIdentifyBranches
  BY DEF IInv, FamilyInv, TreeInv, HeirsInv, HeirFits, CodesIdentifyBranches
<1> QED
  BY <1>1, InductiveInvariant, PTL

(* Every year of the history with a cap accounts for its money.            *)
THEOREM EveryYearAccounts == Spec => []SnapshotsAccount
<1>1. IInv => SnapshotsAccount
  BY DEF IInv, FundInv
<1> QED
  BY <1>1, InductiveInvariant, PTL

(* The history is one unbroken ledger.                                     *)
THEOREM LedgerIsUnbroken == Spec => []HistoryChains
<1>1. IInv => HistoryChains
  BY DEF IInv, FundInv
<1> QED
  BY <1>1, InductiveInvariant, PTL

(* A family that grows takes from nobody outside its line.                 *)
LEMMA LinesStep ==
  ASSUME IInv, [Next]_vars, pc = "branching"
  PROVE  \A b \in DOMAIN branch_id :
           virtual_share_percentage'[b] # virtual_share_percentage[b]
             => b \in LineOf(heirs[i].branch_index)
<1>1. FoundSubBranch \/ virtual_share_percentage' = virtual_share_percentage
  BY DEF Next, Step, SeedEstate, SetPolicyEngine, SetInitialAum, Reset,
         TickAlone, RunSimulation, Called, StepDemographics, AgeAndDeposit,
         StayInBranch, BearChild, StayChildless, StepAnnualTick, RecordYear,
         FinishSimulation, vars, family, tree
<1>2. ASSUME FoundSubBranch
      PROVE  \A b \in DOMAIN branch_id \ LineOf(heirs[i].branch_index) :
               virtual_share_percentage'[b] = virtual_share_percentage[b]
  <2> DEFINE p == heirs[i].branch_index
             Line == LineOf(p)
  <2>1. /\ IsTree(parent_index) /\ DOMAIN parent_index = DOMAIN branch_id
        /\ virtual_share_percentage = PerStirpesShares(parent_index)
    BY DEF IInv, FamilyInv, TreeInv, IsTree
  <2>2. /\ p \in DOMAIN parent_index
        /\ virtual_share_percentage' = PerStirpesShares(Append(parent_index, p))
    BY <1>2 DEF FoundSubBranch, AddSubBranch
  <2>3. p \in 1 .. Len(parent_index)
    BY <2>1, <2>2 DEF IsTree
  <2>4. \A b \in DOMAIN parent_index :
          b # 1 /\ (parent_index[b] = p \/ parent_index[b] \in Line) => b \in Line
    BY <2>1, LineIsClosed
  <2> HIDE DEF p, Line
  <2>5. \A b \in DOMAIN parent_index \ Line :
          PerStirpesShares(Append(parent_index, p))[b]
            = PerStirpesShares(parent_index)[b]
    BY <2>1, <2>3, <2>4, SharesKept
  <2> QED
    BY <2>1, <2>2, <2>5 DEF p, Line
<1> QED
  BY <1>1, <1>2

(* A founder of a sub-branch changes the shares of its own line and of no  *)
(* other, in every year, whatever the tree.                                *)
THEOREM GrowthStaysInTheLine == Spec => LinesKeepTheirShare
<1>1. IInv /\ [Next]_vars =>
        [pc = "branching" =>
           \A b \in DOMAIN branch_id :
             virtual_share_percentage'[b] # virtual_share_percentage[b]
               => b \in LineOf(heirs[i].branch_index)]_vars
  BY LinesStep
<1> QED
  BY <1>1, InductiveInvariant, PTL DEF Spec, LinesKeepTheirShare

=============================================================================
