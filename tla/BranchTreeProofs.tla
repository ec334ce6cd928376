--------------------------- MODULE BranchTreeProofs ---------------------------
(***************************************************************************)
(* Proofs about BranchTree for every bound on the arena: the sibling       *)
(* chains stay complete and ordered, and every call leaves all the shares  *)
(* per stirpes.  They hold while no branch can have as many children as    *)
(* child_count has values, which is what ShortOfWrap says; past it the     *)
(* counter wraps and the properties fail (run child_count_wraps).          *)
(***************************************************************************)
EXTENDS BranchTree, SumTheorems

ShortOfWrap == MaxBranches <= CountRange

-----------------------------------------------------------------------------
(* The inductive invariant.                                                *)

(* A slot that holds no linked branch has no link and no child yet.        *)
FreshSlots ==
  \A s \in linked .. MaxBranches - 1 :
    /\ first_child_index[s] = INVALID_INDEX
    /\ next_sibling_index[s] = INVALID_INDEX
    /\ child_count[s] = 0

(* The root has no parent and no sibling.  The new branch, also while its  *)
(* siblings' chain is walked, is younger than its parent, and the walk is  *)
(* on that parent's chain.                                                 *)
GraftInv ==
  /\ parent_index[0] = INVALID_INDEX /\ next_sibling_index[0] = INVALID_INDEX
  /\ \A c \in 1 .. size - 1 : parent_index[c] \in 0 .. c - 1
  /\ pc # "idle" => size > 0
  /\ pc = "walk" =>
       /\ size > 1
       /\ parent_index[size - 1] = grafted
       /\ curr \in ChildrenOf(grafted)

(* The share the rebalance gives to branch c.                              *)
SplitOf(c) == share[parent_index[c]] * child_count[parent_index[c]]

(* Shares done so far: those of the children of the branches the outer     *)
(* loop has passed and, inside the inner loop, of the children of branch   *)
(* i it has passed.                                                        *)
LoopInv ==
  /\ pc \in {"rebalance", "children"} =>
       /\ share[0] = 1
       /\ \A c \in 1 .. size - 1 :
            parent_index[c] < i => share[c] = SplitOf(c)
  /\ pc = "children" =>
       /\ i < size
       /\ split_share = share[i] * child_count[i]
       /\ child_idx = INVALID_INDEX \/ child_idx \in ChildrenOf(i)
       /\ \A c \in ChildrenOf(i) :
            child_idx = INVALID_INDEX \/ c < child_idx
              => share[c] = split_share
  /\ pc = "idle" /\ size > 0 =>
       /\ share[0] = 1
       /\ \A c \in 1 .. size - 1 : share[c] = SplitOf(c)

IInv == TypeOK /\ FreshSlots /\ GraftInv /\ SiblingChains /\ LoopInv

-----------------------------------------------------------------------------
(* Facts about the children of a branch.                                   *)

(* The children of a branch among n branches: a finite set of fewer than   *)
(* n elements, with none of them only if there are none.                   *)
LEMMA ChildrenFinite ==
  ASSUME NEW n \in Nat \ {0}, NEW par, NEW p
  PROVE  /\ IsFiniteSet(Family!Children(n, par, p))
         /\ Cardinality(Family!Children(n, par, p)) \in 0 .. n - 1
         /\ Cardinality(Family!Children(n, par, p)) = 0
              <=> Family!Children(n, par, p) = {}
<1> DEFINE C == Family!Children(n, par, p)
<1>1. C \subseteq 1 .. n - 1
  BY DEF Family!Children
<1>2. IsFiniteSet(1 .. n - 1) /\ Cardinality(1 .. n - 1) = n - 1
  BY FS_Interval
<1>3. IsFiniteSet(C) /\ Cardinality(C) <= n - 1
  BY <1>1, <1>2, FS_Subset
<1>4. Cardinality(C) \in Nat
  BY <1>3, FS_CardinalityType
<1>5. Cardinality(C) = 0 <=> C = {}
  BY <1>3, FS_EmptySet
<1> QED
  BY <1>3, <1>4, <1>5

(* One more branch is one more child, of its parent.                       *)
LEMMA ChildrenStep ==
  ASSUME NEW n \in Nat \ {0}, NEW par, NEW q
  PROVE  Family!Children(n + 1, par, q) =
           Family!Children(n, par, q) \cup (IF par[n] = q THEN {n} ELSE {})
BY DEF Family!Children

(* Writing the parent of a branch past the end changes no child.           *)
LEMMA ChildrenFrame ==
  ASSUME NEW n \in Nat, NEW par, NEW p, NEW q
  PROVE  Family!Children(n, [par EXCEPT ![n] = p], q)
           = Family!Children(n, par, q)
BY DEF Family!Children

-----------------------------------------------------------------------------
(* SiblingChains for n linked branches with given parents and links.       *)
Younger(n, par, p) == {c \in Family!Children(n, par, par[p]) : c > p}

Chains(n, par, fst, nxt, cnt) ==
  \A p \in 0 .. n - 1 :
    /\ cnt[p] = Cardinality(Family!Children(n, par, p))
    /\ IsLeast(fst[p], Family!Children(n, par, p))
    /\ p # 0 => par[p] < p /\ IsLeast(nxt[p], Younger(n, par, p))

(* What the fields of n branches and of the next slot may hold.            *)
LinkTypes(n, par, fst, nxt, cnt) ==
  /\ n \in Nat \ {0} /\ n < MaxBranches
  /\ fst \in [Slots -> Slots \cup {INVALID_INDEX}]
  /\ nxt \in [Slots -> Slots \cup {INVALID_INDEX}]
  /\ cnt \in [Slots -> Nat]
  /\ \A c \in 1 .. n : par[c] \in 0 .. c - 1
  /\ fst[n] = INVALID_INDEX /\ nxt[n] = INVALID_INDEX /\ cnt[n] = 0

(* The children and the counters once branch n is counted under p.         *)
LEMMA CountedChild ==
  ASSUME NEW n, NEW par, NEW fst, NEW nxt, NEW cnt,
         LinkTypes(n, par, fst, nxt, cnt), Chains(n, par, fst, nxt, cnt)
  PROVE  \A q \in 0 .. n :
           [cnt EXCEPT ![par[n]] = @ + 1][q]
             = Cardinality(Family!Children(n + 1, par, q))
<1> TAKE q \in 0 .. n
<1> DEFINE C == Family!Children(n, par, q)
<1>1. n \in Nat \ {0} /\ 0 .. n \subseteq Slots /\ par[n] \in 0 .. n - 1
  BY BranchAssumption DEF LinkTypes, Slots
<1>2. Family!Children(n + 1, par, q)
        = C \cup (IF par[n] = q THEN {n} ELSE {})
  BY <1>1, ChildrenStep
<1>3. IsFiniteSet(C) /\ n \notin C
  <2>1. IsFiniteSet(C)
    BY <1>1, ChildrenFinite
  <2>2. n \notin C
    BY <1>1 DEF Family!Children
  <2> QED
    BY <2>1, <2>2
<1>4. cnt[q] = Cardinality(C)
  <2>1. CASE q = n
    <3>1. C = {}
      BY <2>1 DEF Family!Children, LinkTypes
    <3> QED
      BY <3>1, <2>1, FS_EmptySet DEF LinkTypes
  <2>2. CASE q # n
    BY <1>1, <2>2 DEF Chains
  <2> QED
    BY <2>1, <2>2
<1>5. Cardinality(C \cup {n}) = Cardinality(C) + 1
  BY <1>3, FS_AddElement
<1>6. CASE par[n] = q
  BY <1>1, <1>2, <1>4, <1>5, <1>6 DEF LinkTypes
<1>7. CASE par[n] # q
  <2>1. Family!Children(n + 1, par, q) = C
    BY <1>2, <1>7
  <2> QED
    BY <1>1, <1>4, <1>7, <2>1 DEF LinkTypes
<1> QED
  BY <1>6, <1>7

(* A branch without children gets its first one.                           *)
LEMMA LinkFirst ==
  ASSUME NEW n, NEW par, NEW fst, NEW nxt, NEW cnt,
         LinkTypes(n, par, fst, nxt, cnt), Chains(n, par, fst, nxt, cnt),
         cnt[par[n]] = 0
  PROVE  Chains(n + 1, par, [fst EXCEPT ![par[n]] = n], nxt,
                [cnt EXCEPT ![par[n]] = @ + 1])
<1> DEFINE C(m, q) == Family!Children(m, par, q)
           fst1 == [fst EXCEPT ![par[n]] = n]
<1>1. /\ n \in Nat \ {0} /\ 0 .. n \subseteq Slots /\ par[n] \in 0 .. n - 1
      /\ MaxBranches \in Nat /\ INVALID_INDEX \in Nat /\ INVALID_INDEX >= MaxBranches
  BY BranchAssumption DEF LinkTypes, Slots
<1>2. C(n, par[n]) = {}
  BY <1>1, ChildrenFinite DEF Chains
<1>3. \A q \in 0 .. n : C(n + 1, q) = IF q = par[n] THEN {n} ELSE C(n, q)
  <2> TAKE q \in 0 .. n
  <2>1. C(n + 1, q) = C(n, q) \cup (IF par[n] = q THEN {n} ELSE {})
    BY <1>1, ChildrenStep
  <2>2. CASE q = par[n]
    BY <1>2, <2>1, <2>2
  <2>3. CASE q # par[n]
    BY <2>1, <2>3
  <2> QED
    BY <2>2, <2>3
<1>4. C(n, n) = {}
  BY DEF Family!Children, LinkTypes
<1>5. ASSUME NEW q \in 0 .. n
      PROVE  IsLeast(fst1[q], C(n + 1, q))
  <2>1. CASE q = par[n]
    BY <1>1, <1>3, <2>1 DEF IsLeast, LinkTypes
  <2>2. CASE q = n
    BY <1>1, <1>3, <1>4, <2>2 DEF IsLeast, LinkTypes
  <2>3. CASE q # n /\ q # par[n]
    <3>1. IsLeast(fst[q], C(n, q))
      BY <1>1, <2>3 DEF Chains
    <3>2. fst1[q] = fst[q] /\ C(n + 1, q) = C(n, q)
      BY <1>1, <1>3, <2>3 DEF LinkTypes
    <3> QED
      BY <3>1, <3>2
  <2> QED
    BY <2>1, <2>2, <2>3
<1>6. ASSUME NEW q \in 0 .. n, q # 0
      PROVE  /\ par[q] < q
             /\ IsLeast(nxt[q], Younger(n + 1, par, q))
  <2>1. par[q] \in 0 .. q - 1
    BY <1>1, <1>6 DEF LinkTypes
  <2>2. CASE q = n
    <3>1. Younger(n + 1, par, q) = {}
      BY <1>1, <1>3, <2>1, <2>2 DEF Younger
    <3> QED
      BY <1>1, <2>1, <2>2, <3>1 DEF IsLeast, LinkTypes
  <2>3. CASE q # n
    <3>1. par[q] # par[n]
      BY <1>1, <1>2, <1>6, <2>3 DEF Family!Children
    <3>2. Younger(n + 1, par, q) = Younger(n, par, q)
      BY <1>1, <1>3, <2>1, <3>1 DEF Younger
    <3>3. IsLeast(nxt[q], Younger(n, par, q))
      BY <1>1, <1>6, <2>3 DEF Chains
    <3> QED
      BY <2>1, <3>2, <3>3
  <2> QED
    BY <2>2, <2>3
<1> QED
  BY <1>1, <1>5, <1>6, CountedChild DEF Chains

(* The last child of a branch gets a younger sibling.                      *)
LEMMA LinkLast ==
  ASSUME NEW n, NEW par, NEW fst, NEW nxt, NEW cnt,
         LinkTypes(n, par, fst, nxt, cnt), Chains(n, par, fst, nxt, cnt),
         NEW last \in Family!Children(n, par, par[n]),
         nxt[last] = INVALID_INDEX
  PROVE  Chains(n + 1, par, fst, [nxt EXCEPT ![last] = n],
                [cnt EXCEPT ![par[n]] = @ + 1])
<1> DEFINE C(m, q) == Family!Children(m, par, q)
           nxt1 == [nxt EXCEPT ![last] = n]
<1>1. /\ n \in Nat \ {0} /\ 0 .. n \subseteq Slots /\ par[n] \in 0 .. n - 1
      /\ MaxBranches \in Nat /\ INVALID_INDEX \in Nat /\ INVALID_INDEX >= MaxBranches
      /\ Slots = 0 .. MaxBranches - 1
  BY BranchAssumption DEF LinkTypes, Slots
<1>2. \A q \in 0 .. n : C(n + 1, q) = C(n, q) \cup (IF par[n] = q THEN {n} ELSE {})
  BY <1>1, ChildrenStep
<1>3. last \in 1 .. n - 1 /\ par[last] = par[n]
  BY DEF Family!Children
<1>4. \A c \in C(n, par[n]) : c \in 1 .. n - 1 /\ c <= last
  <2>1. IsLeast(nxt[last], Younger(n, par, last))
    BY <1>1, <1>3 DEF Chains
  <2>2. Younger(n, par, last) \subseteq 1 .. n - 1
    BY DEF Family!Children, Younger
  <2>3. Younger(n, par, last) = {}
    BY <1>1, <2>1, <2>2 DEF IsLeast, LinkTypes
  <2> QED
    BY <1>1, <1>3, <2>3 DEF Family!Children, Younger
<1>5. ASSUME NEW q \in 0 .. n
      PROVE  IsLeast(fst[q], C(n + 1, q))
  <2>1. CASE q = n
    <3>1. C(n + 1, n) = {}
      <4>1. C(n, n) = {}
        BY SMTT(30), <1>1 DEF Family!Children, LinkTypes
      <4> QED
        BY <1>1, <1>2, <4>1
    <3> QED
      BY <2>1, <3>1 DEF IsLeast, LinkTypes
  <2>2. CASE q # n
    <3>1. IsLeast(fst[q], C(n, q))
      BY <1>1, <2>2 DEF Chains
    <3>2. CASE q = par[n]
      <4>1. C(n, q) # {} /\ C(n, q) \subseteq 1 .. n - 1
        BY <3>2 DEF Family!Children
      <4>2. C(n + 1, q) = C(n, q) \cup {n}
        BY <1>2, <3>2
      <4> QED
        BY <1>1, <3>1, <4>1, <4>2 DEF IsLeast
    <3>3. CASE q # par[n]
      <4>1. C(n + 1, q) = C(n, q)
        BY <1>2, <3>3
      <4> QED
        BY <3>1, <4>1
    <3> QED
      BY <3>2, <3>3
  <2> QED
    BY <2>1, <2>2
<1>6. ASSUME NEW q \in 0 .. n, q # 0
      PROVE  /\ par[q] < q
             /\ IsLeast(nxt1[q], Younger(n + 1, par, q))
  <2>1. par[q] \in 0 .. q - 1
    BY <1>1, <1>6 DEF LinkTypes
  <2>2. C(n + 1, par[q]) = C(n, par[q]) \cup (IF par[n] = par[q] THEN {n} ELSE {})
    BY <1>1, <1>2, <2>1
  <2>3. CASE q = n
    <3>1. Younger(n + 1, par, q) = {}
      BY <1>1, <2>3 DEF Family!Children, Younger
    <3>2. nxt1[q] = INVALID_INDEX
      BY <1>1, <1>3, <2>3 DEF LinkTypes
    <3> QED
      BY <2>1, <3>1, <3>2 DEF IsLeast
  <2>4. CASE q = last
    <3>1. Younger(n + 1, par, q) = {n}
      <4>1. C(n + 1, par[q]) = C(n, par[n]) \cup {n}
        BY <1>3, <2>2, <2>4
      <4>2. \A c \in C(n, par[n]) : ~(c > q)
        BY <1>3, <1>4, <2>4
      <4>3. n > q
        BY <1>1, <1>3, <2>4
      <4> QED
        BY <4>1, <4>2, <4>3 DEF Younger
    <3>2. nxt1[q] = n
      BY <1>1, <1>3, <2>4 DEF LinkTypes
    <3>3. IsLeast(n, {n})
      BY <1>1 DEF IsLeast
    <3>4. par[q] < q
      BY <1>1, <1>6, <2>1
    <3>5. IsLeast(nxt1[q], Younger(n + 1, par, q))
      BY <3>1, <3>2, <3>3
    <3> QED
      BY <3>4, <3>5
  <2>5. CASE q # n /\ q # last
    <3>1. IsLeast(nxt[q], Younger(n, par, q))
      BY <1>1, <1>6, <2>5 DEF Chains
    <3>2. nxt1[q] = nxt[q]
      BY <1>1, <1>3, <2>5 DEF LinkTypes
    <3>3. CASE par[q] = par[n]
      <4>1. q \in C(n, par[n])
        BY <1>1, <1>6, <2>5, <3>3 DEF Family!Children
      <4>2. last \in Younger(n, par, q)
        BY <1>1, <1>3, <1>4, <2>5, <3>3, <4>1 DEF Younger
      <4>3. /\ Younger(n + 1, par, q) = Younger(n, par, q) \cup {n}
            /\ Younger(n, par, q) \subseteq 1 .. n - 1
        <5>1. C(n + 1, par[q]) = C(n, par[q]) \cup {n}
          BY <2>2, <3>3
        <5>2. n > q
          BY <1>1, <2>5
        <5>3. C(n, par[q]) \subseteq 1 .. n - 1
          BY DEF Family!Children
        <5> QED
          BY <5>1, <5>2, <5>3 DEF Younger
      <4> QED
        BY SMTT(30), <1>1, <2>1, <3>1, <3>2, <4>2, <4>3 DEF IsLeast
    <3>4. CASE par[q] # par[n]
      <4>1. Younger(n + 1, par, q) = Younger(n, par, q)
        BY <2>2, <3>4 DEF Younger
      <4> QED
        BY <2>1, <3>1, <3>2, <4>1
    <3> QED
      BY <3>3, <3>4
  <2> QED
    BY <2>3, <2>4, <2>5
<1> QED
  BY <1>1, <1>5, <1>6, CountedChild DEF Chains

-----------------------------------------------------------------------------
(* The invariant in terms of Chains.                                       *)
LEMMA ChainsOfState ==
  SiblingChains <=>
    Chains(linked, parent_index, first_child_index, next_sibling_index,
           child_count)
BY DEF SiblingChains, ChildrenOf, Chains, Younger

(* The counter has room for every branch of the arena.                     *)
LEMMA NoWrap ==
  ASSUME ShortOfWrap, NEW x \in Nat, x < MaxBranches
  PROVE  x % CountRange = x
BY BranchAssumption DEF ShortOfWrap

(* The invariant holds of the empty registry.                              *)
LEMMA InitIInv == Init => IInv
<1> SUFFICES ASSUME Init PROVE IInv
  OBVIOUS
<1> USE BranchAssumption DEF Init, Slots
<1>1. TypeOK
  BY DEF TypeOK
<1>2. FreshSlots
  BY DEF FreshSlots, linked
<1>3. GraftInv
  BY DEF GraftInv
<1>4. SiblingChains
  BY DEF SiblingChains, linked
<1>5. LoopInv
  BY DEF LoopInv
<1> QED
  BY <1>1, <1>2, <1>3, <1>4, <1>5 DEF IInv

(* The first branch is a tree of its own, and holds the whole share.       *)
LEMMA CreateRootBranchStep ==
  IInv /\ CreateRootBranch => IInv'
<1> SUFFICES ASSUME IInv, CreateRootBranch PROVE IInv'
  OBVIOUS
<1> USE BranchAssumption DEF CreateRootBranch, Slots
<1>1. TypeOK'
  BY DEF IInv, TypeOK, locals
<1>2. FreshSlots'
  BY DEF FreshSlots, linked
<1>3. GraftInv'
  BY DEF GraftInv
<1>4. SiblingChains'
  <2>1. Family!Children(1, parent_index', 0) = {}
    BY DEF Family!Children
  <2>2. linked' = 1
    BY DEF linked
  <2>3. Cardinality({}) = 0
    BY FS_EmptySet
  <2>4. child_count'[0] = 0 /\ first_child_index'[0] = INVALID_INDEX
    OBVIOUS
  <2>5. 0 .. linked' - 1 = {0}
    BY <2>2
  <2> QED
    BY <2>1, <2>2, <2>3, <2>4, <2>5 DEF SiblingChains, ChildrenOf, IsLeast
<1>5. LoopInv'
  BY DEF LoopInv
<1> QED
  BY <1>1, <1>2, <1>3, <1>4, <1>5 DEF IInv

(* A step that only moves the cursors of the loops keeps the chains.       *)
LEMMA CursorStep ==
  ASSUME IInv, UNCHANGED <<size, parent_index, first_child_index,
                           next_sibling_index, child_count>>,
         (pc = "walk") = (pc' = "walk")
  PROVE  FreshSlots' /\ SiblingChains'
<1>1. linked' = linked
  BY DEF linked
<1>2. FreshSlots'
  BY <1>1 DEF IInv, FreshSlots
<1>3. SiblingChains'
  BY <1>1 DEF IInv, SiblingChains, ChildrenOf
<1> QED
  BY <1>2, <1>3

(* The arena as the lemmas about its links see it: right after a node p    *)
(* has been appended that still has to be linked.                          *)
LEMMA AppendedNode ==
  ASSUME IInv, NEW p \in 0 .. size - 1, pc = "idle", size < MaxBranches
  PROVE  LET par == [parent_index EXCEPT ![size] = p]
         IN  /\ LinkTypes(size, par, first_child_index, next_sibling_index,
                          child_count)
             /\ Chains(size, par, first_child_index, next_sibling_index,
                       child_count)
             /\ par[size] = p
             /\ \A q : Family!Children(size, par, q)
                         = Family!Children(size, parent_index, q)
<1> DEFINE par == [parent_index EXCEPT ![size] = p]
<1>1. size \in Nat \ {0} /\ 0 .. size \subseteq Slots
  BY BranchAssumption DEF IInv, TypeOK, Slots
<1>2. par[size] = p /\ \A c \in 0 .. size - 1 : par[c] = parent_index[c]
  BY <1>1 DEF IInv, TypeOK
<1>3. LinkTypes(size, par, first_child_index, next_sibling_index, child_count)
  <2>1. child_count \in [Slots -> Nat]
    BY BranchAssumption DEF IInv, TypeOK
  <2>2. \A c \in 1 .. size : par[c] \in 0 .. c - 1
    BY <1>1, <1>2 DEF IInv, GraftInv
  <2>3. /\ first_child_index[size] = INVALID_INDEX
        /\ next_sibling_index[size] = INVALID_INDEX
        /\ child_count[size] = 0
    BY <1>1, BranchAssumption DEF IInv, FreshSlots, linked
  <2> QED
    BY <1>1, <2>1, <2>2, <2>3 DEF IInv, TypeOK, LinkTypes
<1>4. \A q : Family!Children(size, par, q)
               = Family!Children(size, parent_index, q)
  BY <1>1, ChildrenFrame
<1>5. Chains(size, par, first_child_index, next_sibling_index, child_count)
  <2>1. Chains(size, parent_index, first_child_index, next_sibling_index,
               child_count)
    BY ChainsOfState DEF IInv, linked
  <2>2. \A q \in 0 .. size - 1 :
          Younger(size, par, q) = Younger(size, parent_index, q)
    BY <1>2, <1>4 DEF Younger
  <2> QED
    BY <1>1, <1>2, <1>4, <2>1, <2>2 DEF Chains
<1> QED
  BY <1>2, <1>3, <1>4, <1>5

(* A new branch starts its call: it is in the arena but not yet linked.    *)
LEMMA AddSubBranchStep ==
  ASSUME ShortOfWrap, IInv, NEW p \in Slots, AddSubBranch(p)
  PROVE  IInv'
<1> DEFINE par == [parent_index EXCEPT ![size] = p]
<1>1. /\ p \in 0 .. size - 1 /\ pc = "idle" /\ size < MaxBranches
      /\ size \in Nat \ {0} /\ size \in Slots /\ size' = size + 1
      /\ parent_index' = par /\ par[size] = p
      /\ next_sibling_index' = next_sibling_index
  BY BranchAssumption DEF IInv, TypeOK, AddSubBranch, Slots
<1>2. /\ LinkTypes(size, par, first_child_index, next_sibling_index,
                   child_count)
      /\ Chains(size, par, first_child_index, next_sibling_index, child_count)
      /\ \A q : Family!Children(size, par, q)
                  = Family!Children(size, parent_index, q)
  BY <1>1, AppendedNode
<1>3. \A c \in 1 .. size' - 1 : parent_index'[c] \in 0 .. c - 1
  BY <1>1, <1>2 DEF LinkTypes
<1>root. parent_index'[0] = INVALID_INDEX /\ next_sibling_index'[0] = INVALID_INDEX
  BY <1>1 DEF IInv, GraftInv, TypeOK
<1>types. /\ parent_index' \in [Slots -> Slots \cup {INVALID_INDEX}]
          /\ share \in [Slots -> Nat] /\ 0 \in Slots
          /\ first_child_index \in [Slots -> Slots \cup {INVALID_INDEX}]
          /\ child_count \in [Slots -> 0 .. CountRange - 1]
          /\ child_count \in [Slots -> Nat]
          /\ size' \in 0 .. MaxBranches /\ p \in Slots
          /\ MaxBranches \in Nat \ {0} /\ CountRange \in Nat \ {0}
          /\ MaxBranches <= CountRange
  BY SMTT(30), <1>1, BranchAssumption DEF IInv, TypeOK, Slots, ShortOfWrap
<1>4. CASE child_count[p] = 0
  <2>1. /\ first_child_index' = [first_child_index EXCEPT ![p] = size]
        /\ child_count' = [child_count EXCEPT ![p] = (@ + 1) % CountRange]
        /\ share' = [share EXCEPT ![0] = 1]
        /\ i' = 0 /\ pc' = "rebalance" /\ grafted' = p
        /\ UNCHANGED <<split_share, child_idx, curr>>
    BY <1>4 DEF AddSubBranch, CountChild, EnterRebalance
  <2>2. /\ linked' = size + 1
        /\ child_count' = [child_count EXCEPT ![p] = @ + 1]
    <3>1. size > 0 /\ MaxBranches > 1
      BY <1>1, BranchAssumption
    <3>2. 1 % CountRange = 1
      BY <3>1, BranchAssumption, NoWrap
    <3>3. (child_count[p] + 1) % CountRange = child_count[p] + 1
      BY <1>4, <3>2
    <3> QED
      BY <1>1, <2>1, <3>3 DEF linked
  <2>3. TypeOK'
    <3>1. child_count' \in [Slots -> 0 .. CountRange - 1]
      BY <1>types, <1>1, <1>4, <2>2
    <3>2. share' \in [Slots -> Nat]
      BY <1>types, <2>1
    <3>3. first_child_index' \in [Slots -> Slots \cup {INVALID_INDEX}]
      BY <1>types, <1>1, <2>1
    <3> QED
      BY <1>types, <1>1, <2>1, <3>1, <3>2, <3>3 DEF IInv, TypeOK
  <2>4. FreshSlots'
    <3>1. ASSUME NEW s \in size + 1 .. MaxBranches - 1
          PROVE  /\ first_child_index'[s] = first_child_index[s]
                 /\ child_count'[s] = child_count[s]
                 /\ s \in linked .. MaxBranches - 1
      <4>1. s # p /\ s \in Slots /\ linked = size
        BY <1>types, <1>1 DEF Slots, linked
      <4> QED
        BY <1>types, <1>1, <2>1, <2>2, <4>1
    <3> QED
      BY <1>1, <2>2, <3>1 DEF IInv, FreshSlots
  <2>5. GraftInv'
    BY <1>1, <1>3, <1>root, <2>1 DEF GraftInv
  <2>6. SiblingChains'
    <3>1. Chains(size + 1, par, first_child_index', next_sibling_index',
                 child_count')
      <4>1. Chains(size + 1, par, [first_child_index EXCEPT ![par[size]] = size],
                   next_sibling_index, [child_count EXCEPT ![par[size]] = @ + 1])
        <5> HIDE DEF par
        <5> QED
          BY <1>1, <1>2, <1>4, LinkFirst
      <4> QED
        BY <1>1, <2>1, <2>2, <4>1
    <3> QED
      BY <1>1, <2>2, <3>1 DEF SiblingChains, ChildrenOf, Chains, Younger
  <2>7. LoopInv'
    BY <1>types, <1>1, <1>3, <2>1 DEF LoopInv
  <2> QED
    BY <2>3, <2>4, <2>5, <2>6, <2>7 DEF IInv
<1>5. CASE child_count[p] # 0
  <2>1. /\ curr' = first_child_index[p] /\ pc' = "walk" /\ grafted' = p
        /\ UNCHANGED <<first_child_index, child_count, share, i, split_share,
                       child_idx>>
    BY <1>5 DEF AddSubBranch
  <2>2. linked' = size /\ linked = size
    BY <1>1, <2>1 DEF linked
  <2>3. curr' \in Family!Children(size, par, p)
    <3>1. Family!Children(size, parent_index, p) # {}
      <4>1. child_count[p] = Cardinality(Family!Children(size, parent_index, p))
        BY <1>1, <2>2 DEF IInv, SiblingChains, ChildrenOf
      <4> QED
        BY <1>1, <1>5, <4>1, ChildrenFinite
    <3> QED
      BY <1>1, <1>2, <2>1, <2>2, <3>1
      DEF IInv, SiblingChains, ChildrenOf, IsLeast
  <2>4. curr' \in 1 .. size - 1
    BY <2>3 DEF Family!Children
  <2>5. TypeOK'
    <3>1. curr' \in Slots
      BY <1>types, <1>1, <2>4 DEF Slots
    <3> QED
      BY <1>types, <1>1, <2>1, <3>1 DEF IInv, TypeOK
  <2>6. FreshSlots'
    BY <1>1, <2>1, <2>2 DEF IInv, FreshSlots
  <2>7. GraftInv'
    BY <1>1, <1>3, <1>root, <2>1, <2>2, <2>3 DEF GraftInv, ChildrenOf
  <2>8. SiblingChains'
    BY <1>1, <1>2, <2>1, <2>2
    DEF SiblingChains, ChildrenOf, Chains, Younger
  <2>9. LoopInv'
    BY <2>1 DEF LoopInv
  <2> QED
    BY <2>5, <2>6, <2>7, <2>8, <2>9 DEF IInv
<1> QED
  BY <1>4, <1>5

(* The walk goes from sibling to sibling, without passing the last.        *)
LEMMA WalkSiblingsStep ==
  IInv /\ WalkSiblings => IInv'
<1> SUFFICES ASSUME IInv, WalkSiblings PROVE IInv'
  OBVIOUS
<1>1. /\ pc = "walk" /\ pc' = pc /\ curr' = next_sibling_index[curr]
      /\ next_sibling_index[curr] # INVALID_INDEX
      /\ UNCHANGED <<size, parent_index, share, first_child_index,
                     next_sibling_index, child_count, grafted, i, split_share,
                     child_idx>>
  BY DEF WalkSiblings, arena
<1>2. curr \in 1 .. linked - 1 /\ parent_index[curr] = grafted
  BY <1>1 DEF IInv, GraftInv, ChildrenOf, Family!Children
<1>3. curr' \in ChildrenOf(grafted)
  BY <1>1, <1>2 DEF IInv, SiblingChains, IsLeast
<1>4. linked' = linked /\ linked = size - 1
  BY <1>1 DEF linked
<1>5. curr' \in Slots
  <2>1. curr' \in 1 .. size - 2
    BY <1>3, <1>4 DEF IInv, TypeOK, ChildrenOf, Family!Children
  <2> QED
    BY <2>1, BranchAssumption DEF IInv, TypeOK, Slots
<1>6. TypeOK'
  BY <1>1, <1>5 DEF IInv, TypeOK
<1>7. FreshSlots' /\ SiblingChains'
  BY <1>1, CursorStep
<1>8. GraftInv'
  BY <1>1, <1>3, <1>4 DEF IInv, GraftInv, ChildrenOf
<1>9. LoopInv'
  BY <1>1 DEF LoopInv
<1> QED
  BY <1>6, <1>7, <1>8, <1>9 DEF IInv

(* The new branch is linked after the last of its siblings.                *)
LEMMA LinkSiblingStep ==
  ShortOfWrap /\ IInv /\ LinkSibling => IInv'
<1> SUFFICES ASSUME ShortOfWrap, IInv, LinkSibling PROVE IInv'
  OBVIOUS
<1> DEFINE n == size - 1
<1>1. /\ pc = "walk" /\ pc' = "rebalance" /\ i' = 0
      /\ next_sibling_index[curr] = INVALID_INDEX
      /\ next_sibling_index' = [next_sibling_index EXCEPT ![curr] = n]
      /\ child_count'
           = [child_count EXCEPT ![grafted] = (@ + 1) % CountRange]
      /\ share' = [share EXCEPT ![0] = 1]
      /\ UNCHANGED <<size, parent_index, first_child_index, grafted, curr,
                     split_share, child_idx>>
  BY DEF LinkSibling, CountChild, EnterRebalance
<1>2. /\ n \in Nat \ {0} /\ size = n + 1 /\ n < MaxBranches /\ n \in Slots
      /\ linked = n /\ linked' = size
      /\ parent_index[n] = grafted /\ grafted \in 0 .. n - 1
      /\ curr \in Family!Children(n, parent_index, grafted)
      /\ curr \in 1 .. n - 1 /\ curr \in Slots
  BY <1>1, BranchAssumption
  DEF IInv, TypeOK, GraftInv, linked, ChildrenOf, Family!Children, Slots
<1> HIDE DEF n
<1>3. LinkTypes(n, parent_index, first_child_index, next_sibling_index,
                child_count)
  <2>1. child_count \in [Slots -> Nat]
    BY BranchAssumption DEF IInv, TypeOK
  <2>2. \A c \in 1 .. n : parent_index[c] \in 0 .. c - 1
    BY <1>2 DEF IInv, GraftInv
  <2>3. /\ first_child_index[n] = INVALID_INDEX
        /\ next_sibling_index[n] = INVALID_INDEX
        /\ child_count[n] = 0
    BY <1>2, BranchAssumption DEF IInv, FreshSlots
  <2> QED
    BY <1>2, <2>1, <2>2, <2>3 DEF IInv, TypeOK, LinkTypes
<1>4. Chains(n, parent_index, first_child_index, next_sibling_index,
             child_count)
  BY <1>2, ChainsOfState DEF IInv
<1>5. child_count' = [child_count EXCEPT ![grafted] = @ + 1]
      /\ child_count[grafted] + 1 < MaxBranches
  <2>1. child_count[grafted]
          = Cardinality(Family!Children(n, parent_index, grafted))
    BY <1>2, <1>4 DEF Chains
  <2>2. child_count[grafted] \in 0 .. n - 1
    BY <1>2, <2>1, ChildrenFinite
  <2>3. (child_count[grafted] + 1) % CountRange = child_count[grafted] + 1
    BY SMTT(30), <1>2, <2>2, BranchAssumption, NoWrap
  <2>4. child_count' = [child_count EXCEPT ![grafted] = @ + 1]
    BY <1>1, <2>3
  <2>5. child_count[grafted] + 1 < MaxBranches
    BY <1>2, <2>2, BranchAssumption
  <2> QED
    BY <2>4, <2>5
<1>6. TypeOK'
  <2>1. child_count' \in [Slots -> 0 .. CountRange - 1]
    BY SMTT(30), <1>2, <1>5, BranchAssumption DEF IInv, TypeOK, ShortOfWrap
  <2>2. /\ 0 \in 0 .. MaxBranches
        /\ share' \in [Slots -> Nat]
        /\ next_sibling_index' \in [Slots -> Slots \cup {INVALID_INDEX}]
    <3>1. /\ share \in [Slots -> Nat]
          /\ next_sibling_index \in [Slots -> Slots \cup {INVALID_INDEX}]
      BY DEF IInv, TypeOK
    <3>2. 0 \in 0 .. MaxBranches
      BY BranchAssumption
    <3> QED
      BY <1>1, <1>2, <3>1, <3>2
  <2> QED
    BY <1>1, <2>1, <2>2, BranchAssumption DEF IInv, TypeOK
<1>7. FreshSlots'
  <2>1. ASSUME NEW s \in linked' .. MaxBranches - 1
        PROVE  /\ next_sibling_index'[s] = next_sibling_index[s]
               /\ child_count'[s] = child_count[s]
               /\ s \in linked .. MaxBranches - 1
    <3>1. s \in Slots /\ s # curr /\ s # grafted /\ s \in linked .. MaxBranches - 1
      BY <1>2, BranchAssumption DEF Slots
    <3> QED
      BY <1>1, <1>5, <3>1 DEF IInv, TypeOK
  <2> QED
    BY <1>1, <2>1 DEF IInv, FreshSlots
<1>8. GraftInv'
  <2>1. next_sibling_index'[0] = next_sibling_index[0]
    BY <1>1, <1>2 DEF IInv, TypeOK
  <2> QED
    BY <1>1, <2>1 DEF IInv, GraftInv
<1>9. SiblingChains'
  <2>1. Chains(n + 1, parent_index, first_child_index,
               [next_sibling_index EXCEPT ![curr] = n],
               [child_count EXCEPT ![parent_index[n]] = @ + 1])
    BY <1>1, <1>2, <1>3, <1>4, LinkLast
  <2>2. Chains(linked', parent_index', first_child_index',
               next_sibling_index', child_count')
    BY <1>1, <1>2, <1>5, <2>1
  <2> QED
    BY <2>2 DEF SiblingChains, ChildrenOf, Chains, Younger
<1>10. LoopInv'
  <2>1. share'[0] = 1
    BY <1>1, BranchAssumption DEF IInv, TypeOK, Slots
  <2>2. \A c \in 1 .. size - 1 : parent_index[c] \in Nat
    BY <1>2 DEF IInv, GraftInv
  <2> QED
    BY <1>1, <2>1, <2>2 DEF LoopInv
<1> QED
  BY <1>6, <1>7, <1>8, <1>9, <1>10 DEF IInv

(* The rebalancing starts at the root, with the whole share.               *)
LEMMA RebalanceStep ==
  IInv /\ Rebalance => IInv'
<1> SUFFICES ASSUME IInv, Rebalance PROVE IInv'
  OBVIOUS
<1>1. /\ pc = "idle" /\ pc' = "rebalance" /\ i' = 0
      /\ share' = [share EXCEPT ![0] = 1] /\ size > 0
      /\ UNCHANGED <<size, parent_index, first_child_index,
                     next_sibling_index, child_count, grafted, curr,
                     split_share, child_idx>>
  BY DEF Rebalance, EnterRebalance
<1>2. TypeOK'
  <2>1. share' \in [Slots -> Nat]
    BY <1>1 DEF IInv, TypeOK
  <2> QED
    BY <1>1, <2>1, BranchAssumption DEF IInv, TypeOK
<1>3. FreshSlots' /\ SiblingChains'
  BY <1>1, CursorStep
<1>4. GraftInv'
  BY <1>1 DEF IInv, GraftInv
<1>5. LoopInv'
  <2>1. share'[0] = 1
    BY <1>1, BranchAssumption DEF IInv, TypeOK, Slots
  <2>2. \A c \in 1 .. size - 1 : parent_index[c] \in Nat
    BY DEF IInv, GraftInv
  <2> QED
    BY <1>1, <2>1, <2>2 DEF LoopInv
<1> QED
  BY <1>2, <1>3, <1>4, <1>5 DEF IInv

(* What the steps of the nested loops know of the arena.                   *)
LEMMA LoopFacts ==
  ASSUME IInv, pc \in {"rebalance", "children"}
  PROVE  /\ size \in 1 .. MaxBranches /\ linked = size
         /\ i \in Nat /\ 0 .. size - 1 \subseteq Slots
         /\ share \in [Slots -> Nat] /\ child_count \in [Slots -> Nat]
         /\ \A c \in 1 .. size - 1 : parent_index[c] \in 0 .. c - 1
         /\ \A c \in 1 .. size - 1 :
              /\ c \in ChildrenOf(parent_index[c])
              /\ \A b : c \in ChildrenOf(b) => parent_index[c] = b
         /\ \A b : ChildrenOf(b) \subseteq 1 .. size - 1
BY BranchAssumption
DEF IInv, TypeOK, GraftInv, linked, Slots, ChildrenOf, Family!Children

(* A branch with children splits its share among them.                     *)
LEMMA EnterChildrenStep ==
  IInv /\ EnterChildren => IInv'
<1> SUFFICES ASSUME IInv, EnterChildren PROVE IInv'
  OBVIOUS
<1>1. /\ pc = "rebalance" /\ pc' = "children" /\ i < size
      /\ split_share' = share[i] * child_count[i]
      /\ child_idx' = first_child_index[i]
      /\ child_idx' # INVALID_INDEX
      /\ UNCHANGED <<size, parent_index, share, first_child_index,
                     next_sibling_index, child_count, grafted, curr, i>>
  BY DEF EnterChildren, HasChildren, arena
<1>2. /\ size \in 1 .. MaxBranches /\ linked = size /\ linked' = size
      /\ i \in 0 .. size - 1 /\ i \in Slots
      /\ share \in [Slots -> Nat] /\ child_count \in [Slots -> Nat]
  BY <1>1, LoopFacts DEF linked
<1>3. child_idx' \in ChildrenOf(i) /\ \A c \in ChildrenOf(i) : child_idx' <= c
  BY <1>1, <1>2 DEF IInv, SiblingChains, IsLeast
<1>4. ChildrenOf(i)' = ChildrenOf(i) /\ ChildrenOf(i) \subseteq 1 .. size - 1
  BY <1>1, <1>2, LoopFacts DEF ChildrenOf
<1>5. TypeOK'
  <2>1. share[i] * child_count[i] \in Nat
    BY <1>2
  <2>2. child_idx' \in Slots \cup {INVALID_INDEX}
    BY <1>1, <1>2 DEF IInv, TypeOK
  <2> QED
    BY <1>1, <2>1, <2>2 DEF IInv, TypeOK
<1>6. FreshSlots' /\ SiblingChains'
  BY <1>1, CursorStep
<1>7. GraftInv'
  BY <1>1 DEF IInv, GraftInv
<1>8. LoopInv'
  <2>1. \A c \in ChildrenOf(i) : ~(c < child_idx')
    BY <1>3, <1>4
  <2> QED
    BY <1>1, <1>3, <1>4, <2>1 DEF IInv, LoopInv, SplitOf
<1> QED
  BY <1>5, <1>6, <1>7, <1>8 DEF IInv

(* A branch without children ends the recursion.                           *)
LEMMA SkipLeafStep ==
  IInv /\ SkipLeaf => IInv'
<1> SUFFICES ASSUME IInv, SkipLeaf PROVE IInv'
  OBVIOUS
<1>1. /\ pc = "rebalance" /\ pc' = pc /\ i < size /\ i' = i + 1
      /\ ~HasChildren(i)
      /\ UNCHANGED <<size, parent_index, share, first_child_index,
                     next_sibling_index, child_count, grafted, curr,
                     split_share, child_idx>>
  BY DEF SkipLeaf, arena
<1>2. /\ size \in 1 .. MaxBranches /\ linked = size
      /\ i \in 0 .. size - 1 /\ i \in Slots
      /\ child_count \in [Slots -> Nat]
      /\ \A c \in 1 .. size - 1 :
           parent_index[c] \in Nat /\ c \in ChildrenOf(parent_index[c])
      /\ ChildrenOf(i) \subseteq 1 .. size - 1
  BY <1>1, LoopFacts
<1>3. ChildrenOf(i) = {}
  <2>1. CASE child_count[i] = 0
    <3>1. Cardinality(Family!Children(size, parent_index, i)) = 0
      BY <1>2, <2>1 DEF IInv, SiblingChains, ChildrenOf
    <3> QED
      BY <1>2, <3>1, ChildrenFinite DEF ChildrenOf
  <2>2. CASE first_child_index[i] = INVALID_INDEX
    <3>1. INVALID_INDEX \notin 1 .. size - 1
      BY <1>2, BranchAssumption
    <3> QED
      BY <1>2, <2>2, <3>1 DEF IInv, SiblingChains, IsLeast
  <2> QED
    BY <1>1, <1>2, <2>1, <2>2 DEF HasChildren
<1>4. TypeOK'
  BY SMTT(30), <1>1, <1>2, BranchAssumption DEF IInv, TypeOK
<1>5. FreshSlots' /\ SiblingChains'
  BY <1>1, CursorStep
<1>6. GraftInv'
  BY <1>1 DEF IInv, GraftInv
<1>7. LoopInv'
  <2>1. \A c \in 1 .. size - 1 : parent_index[c] < i + 1 => parent_index[c] < i
    BY <1>2, <1>3
  <2> QED
    BY <1>1, <2>1 DEF IInv, LoopInv, SplitOf
<1> QED
  BY <1>4, <1>5, <1>6, <1>7 DEF IInv

(* One child gets its part, and its own line is next.                      *)
LEMMA ShareWithChildStep ==
  IInv /\ ShareWithChild => IInv'
<1> SUFFICES ASSUME IInv, ShareWithChild PROVE IInv'
  OBVIOUS
<1>1. /\ pc = "children" /\ pc' = pc /\ child_idx # INVALID_INDEX
      /\ share' = [share EXCEPT ![child_idx] = split_share]
      /\ child_idx' = next_sibling_index[child_idx]
      /\ UNCHANGED <<size, parent_index, first_child_index,
                     next_sibling_index, child_count, grafted, curr, i,
                     split_share>>
  BY DEF ShareWithChild
<1>2. /\ size \in 1 .. MaxBranches /\ linked = size /\ linked' = size
      /\ i \in Nat /\ 0 .. size - 1 \subseteq Slots
      /\ share \in [Slots -> Nat]
      /\ \A c \in 1 .. size - 1 : parent_index[c] \in 0 .. c - 1
      /\ \A b : ChildrenOf(b) \subseteq 1 .. size - 1
  BY <1>1, LoopFacts DEF linked
<1>3. /\ child_idx \in ChildrenOf(i) /\ child_idx \in 1 .. size - 1
      /\ parent_index[child_idx] = i /\ child_idx > i
      /\ child_idx \in Slots
  <2>1. child_idx \in ChildrenOf(i) /\ child_idx \in 1 .. size - 1
    BY <1>1, <1>2 DEF IInv, LoopInv
  <2>2. parent_index[child_idx] = i
    BY <1>1, <2>1, LoopFacts
  <2> QED
    BY <1>2, <2>1, <2>2
<1>4. IsLeast(child_idx', {c \in ChildrenOf(i) : c > child_idx})
  <2>1. IsLeast(child_idx', Younger(size, parent_index, child_idx))
    BY <1>1, <1>2, <1>3, ChainsOfState DEF IInv, Chains
  <2>2. Younger(size, parent_index, child_idx)
          = {c \in ChildrenOf(i) : c > child_idx}
    BY <1>2, <1>3 DEF Younger, ChildrenOf
  <2> QED
    BY <2>1, <2>2
<1>5. ChildrenOf(i)' = ChildrenOf(i)
  BY <1>1, <1>2 DEF ChildrenOf
<1>6. \A b \in 0 .. size - 1 :
        share'[b] = IF b = child_idx THEN split_share ELSE share[b]
  BY <1>1, <1>2
<1>7. TypeOK'
  <2>1. split_share \in Nat
    BY DEF IInv, TypeOK
  <2>2. share' \in [Slots -> Nat]
    BY <1>1, <1>2, <2>1
  <2>3. child_idx' \in Slots \cup {INVALID_INDEX}
    BY <1>1, <1>3 DEF IInv, TypeOK
  <2> QED
    BY <1>1, <2>2, <2>3 DEF IInv, TypeOK
<1>8. FreshSlots' /\ SiblingChains'
  BY <1>1, CursorStep
<1>9. GraftInv'
  BY <1>1 DEF IInv, GraftInv
<1>10. LoopInv'
  <2>1. share'[0] = 1 /\ share'[i] = share[i] /\ i < size
    BY <1>1, <1>2, <1>3, <1>6 DEF IInv, LoopInv
  <2>2. ASSUME NEW c \in 1 .. size - 1, parent_index[c] < i
        PROVE  share'[c] = SplitOf(c)'
    <3>1. c # child_idx /\ parent_index[c] # child_idx
      BY <1>2, <1>3, <2>2
    <3>2. share'[c] = share[c] /\ share'[parent_index[c]] = share[parent_index[c]]
      BY <1>2, <1>6, <3>1
    <3> QED
      BY <1>1, <2>2, <3>2 DEF IInv, LoopInv, SplitOf
  <2>3. split_share' = share'[i] * child_count'[i]
    BY <1>1, <2>1 DEF IInv, LoopInv
  <2>4. child_idx' = INVALID_INDEX \/ child_idx' \in ChildrenOf(i)
    BY <1>4 DEF IsLeast
  <2>5. ASSUME NEW c \in ChildrenOf(i),
               child_idx' = INVALID_INDEX \/ c < child_idx'
        PROVE  share'[c] = split_share
    <3>1. c \in 1 .. size - 1
      BY <1>2
    <3>2. ~(c > child_idx)
      <4>1. SUFFICES ASSUME c > child_idx PROVE FALSE
        OBVIOUS
      <4>2. child_idx' \in ChildrenOf(i) /\ child_idx' <= c
        BY <1>4, <4>1 DEF IsLeast
      <4>3. child_idx' \in 1 .. size - 1
        BY <1>2, <4>2
      <4> QED
        BY <1>2, <2>5, <3>1, <4>2, <4>3, BranchAssumption
    <3>3. CASE c = child_idx
      BY <1>2, <1>3, <1>6, <3>3
    <3>4. CASE c < child_idx
      <4>1. share[c] = split_share
        BY <1>1, <3>4 DEF IInv, LoopInv
      <4> QED
        BY <1>2, <1>3, <1>6, <3>1, <3>4, <4>1
    <3> QED
      BY <1>3, <3>1, <3>2, <3>3, <3>4
  <2> QED
    BY <1>1, <1>5, <2>1, <2>2, <2>3, <2>4, <2>5 DEF LoopInv
<1> QED
  BY <1>7, <1>8, <1>9, <1>10 DEF IInv

(* A list of children that has ended returns to their parent.              *)
LEMMA LeaveChildrenStep ==
  IInv /\ LeaveChildren => IInv'
<1> SUFFICES ASSUME IInv, LeaveChildren PROVE IInv'
  OBVIOUS
<1>1. /\ pc = "children" /\ pc' = "rebalance" /\ i' = i + 1
      /\ ~(child_idx # INVALID_INDEX /\ child_idx < size)
      /\ UNCHANGED <<size, parent_index, share, first_child_index,
                     next_sibling_index, child_count, grafted, curr,
                     split_share, child_idx>>
  BY DEF LeaveChildren, arena
<1>2. /\ size \in 1 .. MaxBranches
      /\ i \in Nat
      /\ \A c \in 1 .. size - 1 :
           parent_index[c] \in Nat /\ c \in ChildrenOf(parent_index[c])
      /\ \A b : ChildrenOf(b) \subseteq 1 .. size - 1
  BY <1>1, LoopFacts
<1>3. child_idx = INVALID_INDEX /\ i < size
  BY <1>1, <1>2 DEF IInv, LoopInv
<1>4. TypeOK'
  BY <1>1, <1>2, <1>3, BranchAssumption DEF IInv, TypeOK
<1>5. FreshSlots' /\ SiblingChains'
  BY <1>1, CursorStep
<1>6. GraftInv'
  BY <1>1 DEF IInv, GraftInv
<1>7. LoopInv'
  <2>1. ASSUME NEW c \in 1 .. size - 1, parent_index[c] < i + 1
        PROVE  share[c] = SplitOf(c)
    <3>1. CASE parent_index[c] < i
      BY <1>1, <3>1 DEF IInv, LoopInv
    <3>2. CASE parent_index[c] = i
      BY <1>1, <1>2, <1>3, <3>2 DEF IInv, LoopInv, SplitOf
    <3> QED
      BY <1>2, <2>1, <3>1, <3>2
  <2>2. share[0] = 1
    BY <1>1 DEF IInv, LoopInv
  <2> QED
    BY <1>1, <2>1, <2>2 DEF LoopInv, SplitOf
<1> QED
  BY <1>4, <1>5, <1>6, <1>7 DEF IInv

(* The call that has shared everything returns.                            *)
LEMMA ReturnStep ==
  IInv /\ Return => IInv'
<1> SUFFICES ASSUME IInv, Return PROVE IInv'
  OBVIOUS
<1>1. /\ pc = "rebalance" /\ pc' = "idle" /\ i >= size
      /\ grafted' = 0 /\ curr' = 0 /\ i' = 0
      /\ split_share' = 0 /\ child_idx' = INVALID_INDEX
      /\ UNCHANGED <<size, parent_index, share, first_child_index,
                     next_sibling_index, child_count>>
  BY DEF Return, arena
<1>2. /\ size \in 1 .. MaxBranches /\ i \in Nat
      /\ \A c \in 1 .. size - 1 : parent_index[c] \in 0 .. c - 1
  BY <1>1, LoopFacts
<1>3. TypeOK'
  BY <1>1, BranchAssumption DEF IInv, TypeOK, Slots
<1>4. FreshSlots' /\ SiblingChains'
  BY <1>1, CursorStep
<1>5. GraftInv'
  BY <1>1 DEF IInv, GraftInv
<1>6. LoopInv'
  <2>1. \A c \in 1 .. size - 1 : parent_index[c] < i
    BY <1>1, <1>2
  <2> QED
    BY <1>1, <2>1 DEF IInv, LoopInv, SplitOf
<1> QED
  BY <1>3, <1>4, <1>5, <1>6 DEF IInv

(* Every step preserves the inductive invariant.                           *)
LEMMA NextIInv ==
  ShortOfWrap /\ IInv /\ [Next]_vars => IInv'
<1> SUFFICES ASSUME ShortOfWrap, IInv, [Next]_vars PROVE IInv'
  OBVIOUS
<1>1. CASE UNCHANGED vars
  BY <1>1 DEF vars, arena, locals, IInv, TypeOK, FreshSlots, GraftInv,
              SiblingChains, LoopInv, SplitOf, linked, ChildrenOf
<1> QED
  BY <1>1, CreateRootBranchStep, AddSubBranchStep, WalkSiblingsStep,
     LinkSiblingStep, RebalanceStep, EnterChildrenStep, SkipLeafStep,
     ShareWithChildStep, LeaveChildrenStep, ReturnStep
  DEF Next, Step

-----------------------------------------------------------------------------
(* The inductive invariant holds in every reachable state.                 *)
THEOREM InductiveInvariant ==
  ASSUME ShortOfWrap
  PROVE  Spec => []IInv
<1>1. Init => IInv
  BY InitIInv
<1>2. IInv /\ [Next]_vars => IInv'
  BY NextIInv
<1> QED
  BY <1>1, <1>2, PTL DEF Spec

(* Every index and every cursor stays in the arena and the counters stay   *)
(* in their range, whatever the number of branches.                        *)
THEOREM TypeCorrect ==
  ASSUME ShortOfWrap
  PROVE  Spec => []TypeOK
<1>1. IInv => TypeOK
  BY DEF IInv
<1> QED
  BY <1>1, InductiveInvariant, PTL

(* add_sub_branch keeps every sibling chain complete and in order, and     *)
(* child_count exact, however the tree grows.                              *)
THEOREM ChainsCorrect ==
  ASSUME ShortOfWrap
  PROVE  Spec => []SiblingChains
<1>1. IInv => SiblingChains
  BY DEF IInv
<1> QED
  BY <1>1, InductiveInvariant, PTL

(* FamilyTree counts as BranchTree does.                                   *)
LEMMA SameCardinality ==
  \A S : Family!Cardinality(S) = Cardinality(S)
BY DEF Family!Cardinality, Cardinality

(* The shares the rebalance leaves are per stirpes.                        *)
LEMMA IdlePerStirpes ==
  IInv => SharesPerStirpes
<1> SUFFICES ASSUME IInv, pc = "idle", size > 0
             PROVE  Family!IsPerStirpes(size, parent_index, share)
  BY DEF SharesPerStirpes
<1>1. share[0] = 1
  BY DEF IInv, LoopInv
<1>2. ASSUME NEW c \in 1 .. size - 1
      PROVE  share[c] = share[parent_index[c]]
               * Cardinality(Family!Children(size, parent_index,
                                             parent_index[c]))
  <2>1. parent_index[c] \in 0 .. size - 1 /\ linked = size
    BY DEF IInv, TypeOK, GraftInv, linked
  <2>2. child_count[parent_index[c]]
          = Cardinality(Family!Children(size, parent_index, parent_index[c]))
    BY <2>1 DEF IInv, SiblingChains, ChildrenOf
  <2> QED
    BY <2>2 DEF IInv, LoopInv, SplitOf
<1>3. \A c \in 1 .. size - 1 : share[c] = share[parent_index[c]]
               * Cardinality(Family!Children(size, parent_index,
                                             parent_index[c]))
  BY <1>2
<1> QED
  BY <1>1, <1>3, SameCardinality DEF Family!IsPerStirpes

(* Each add_sub_branch and each rebalance ends with every branch owning an *)
(* even split of its parent's share, however deep or wide the tree is and  *)
(* in whatever order its branches were added.                              *)
THEOREM PerStirpes ==
  ASSUME ShortOfWrap
  PROVE  Spec => []SharesPerStirpes
BY IdlePerStirpes, InductiveInvariant, PTL

-----------------------------------------------------------------------------
(* No link that leads somewhere is redirected while the arena grows.       *)
THEOREM StableLinks ==
  ASSUME ShortOfWrap
  PROVE  Spec => LinksAreStable
<1> DEFINE Stable ==
      size' >= size =>
        \A b \in 0 .. size - 1 :
          /\ parent_index'[b] = parent_index[b]
          /\ first_child_index[b] # INVALID_INDEX
               => first_child_index'[b] = first_child_index[b]
          /\ next_sibling_index[b] # INVALID_INDEX
               => next_sibling_index'[b] = next_sibling_index[b]
<1>1. ASSUME IInv, [Next]_vars PROVE [Stable]_arena
  <2> SUFFICES ASSUME Next, NEW b \in 0 .. size - 1, size' >= size
               PROVE  /\ parent_index'[b] = parent_index[b]
                      /\ first_child_index[b] # INVALID_INDEX
                           => first_child_index'[b] = first_child_index[b]
                      /\ next_sibling_index[b] # INVALID_INDEX
                           => next_sibling_index'[b] = next_sibling_index[b]
    BY <1>1 DEF vars, arena
  <2>1. size \in 0 .. MaxBranches /\ 0 .. size - 1 \subseteq Slots
    BY <1>1, BranchAssumption DEF IInv, TypeOK, Slots
  <2>2. CASE CreateRootBranch
    <3>1. size = 1 /\ b = 0 /\ linked = 1
      BY <2>1, <2>2 DEF CreateRootBranch, linked
    <3>2. Family!Children(1, parent_index, 0) = {}
      BY DEF Family!Children
    <3>3. first_child_index[0] = INVALID_INDEX
      BY <1>1, <3>1, <3>2 DEF IInv, SiblingChains, ChildrenOf, IsLeast
    <3> QED
      BY <1>1, <2>1, <2>2, <3>1, <3>3 DEF CreateRootBranch, IInv, GraftInv
  <2>3. ASSUME NEW p \in Slots, AddSubBranch(p)
        PROVE  /\ parent_index'[b] = parent_index[b]
               /\ next_sibling_index' = next_sibling_index
               /\ first_child_index[b] # INVALID_INDEX
                    => first_child_index'[b] = first_child_index[b]
    <3>1. /\ parent_index' = [parent_index EXCEPT ![size] = p]
          /\ next_sibling_index' = next_sibling_index
          /\ p < size /\ pc = "idle"
      BY <2>3 DEF AddSubBranch
    <3>2. parent_index'[b] = parent_index[b]
      BY <1>1, <2>1, <3>1 DEF IInv, TypeOK
    <3>3. CASE child_count[p] = 0
      <4>1. p \in 0 .. size - 1 /\ size \in Nat \ {0} /\ linked = size
        BY <2>1, <3>1, BranchAssumption DEF Slots, linked
      <4>2. Cardinality(Family!Children(size, parent_index, p)) = 0
        BY <1>1, <3>3, <4>1 DEF IInv, SiblingChains, ChildrenOf
      <4>3. Family!Children(size, parent_index, p) = {}
        BY <4>1, <4>2, ChildrenFinite
      <4>4. first_child_index[p] = INVALID_INDEX
        BY <1>1, <4>1, <4>3 DEF IInv, SiblingChains, ChildrenOf, IsLeast
      <4>5. first_child_index' = [first_child_index EXCEPT ![p] = size]
        BY <2>3, <3>3 DEF AddSubBranch
      <4> QED
        BY <1>1, <2>1, <3>1, <3>2, <4>4, <4>5 DEF IInv, TypeOK
    <3>4. CASE child_count[p] # 0
      BY <2>3, <3>1, <3>2, <3>4 DEF AddSubBranch
    <3> QED
      BY <3>3, <3>4
  <2>4. CASE LinkSibling
    BY <1>1, <2>1, <2>4 DEF LinkSibling, IInv, TypeOK
  <2>5. CASE Rebalance
    BY <2>5 DEF Rebalance
  <2>6. CASE WalkSiblings \/ EnterChildren \/ SkipLeaf \/ ShareWithChild
             \/ LeaveChildren \/ Return
    BY <2>6 DEF WalkSiblings, EnterChildren, SkipLeaf, ShareWithChild,
                LeaveChildren, Return, arena
  <2> QED
    BY <2>2, <2>3, <2>4, <2>5, <2>6 DEF Next, Step
<1> QED
  BY <1>1, InductiveInvariant, PTL DEF Spec, LinksAreStable

-----------------------------------------------------------------------------
(* What the children of a branch own between them is what it owns.         *)

(* A split into k parts of what is 1/d of a whole that d and k divide.     *)
LEMMA SplitIsEven ==
  ASSUME NEW whole \in Nat, NEW d \in Nat \ {0}, NEW k \in Nat \ {0},
         whole % d = 0, whole % (d * k) = 0
  PROVE  k * (whole \div (d * k)) = whole \div d
<1> DEFINE q == whole \div (d * k)
<1>1. d * k \in Nat \ {0}
  OBVIOUS
<1>2. q \in Nat /\ whole = (d * k) * q
  BY <1>1
<1> HIDE DEF q
<1>3. whole = d * (k * q) /\ k * q \in Nat
  BY <1>2
<1>4. whole \div d = k * q
  BY <1>3
<1> QED
  BY <1>4 DEF q

(* The same for the branches of an arena no call is changing.              *)
LEMMA ChildrenOwnTheParent ==
  ASSUME IInv, pc = "idle", size > 0, PartsAreWhole,
         \A b \in 0 .. size - 1 : share[b] # 0,
         NEW p \in 0 .. size - 1, child_count[p] # 0
  PROVE  Total(Parts, ChildrenOf(p)) = Parts[p]
<1> DEFINE C == ChildrenOf(p)
           d == share[p]
           k == child_count[p]
<1>1. linked = size /\ size \in Nat \ {0} /\ size <= MaxBranches
  BY DEF linked, IInv, TypeOK
<1>2. /\ C = Family!Children(size, parent_index, p)
      /\ IsFiniteSet(C) /\ k = Cardinality(C)
  BY <1>1, ChildrenFinite DEF ChildrenOf, IInv, SiblingChains
<1>3. p \in Slots /\ C \subseteq 1 .. size - 1 /\ C \subseteq Slots
  BY <1>1, <1>2, BranchAssumption DEF Slots, Family!Children
<1>4. d \in Nat \ {0} /\ k \in Nat \ {0} /\ Scale \in Nat
  BY <1>3, BranchAssumption DEF IInv, TypeOK
<1>5. \A c \in C : share[c] = d * k /\ c \in 0 .. size - 1
  BY <1>1, <1>2, <1>3 DEF IInv, LoopInv, SplitOf, Family!Children
<1>6. Parts[p] = Scale \div d /\ Scale % d = 0
  BY <1>3, <1>4 DEF Parts, PartsAreWhole
<1>7. C # {}
  BY <1>2, <1>4, FS_EmptySet
<1>8. d * k # 0 /\ d * k \in Nat
  BY <1>4
<1> HIDE DEF C, d, k
<1>9. \A c \in C : Parts[c] = Scale \div (d * k)
  BY <1>3, <1>5, <1>8 DEF Parts
<1>10. Scale % (d * k) = 0
  BY <1>5, <1>7, <1>8 DEF PartsAreWhole
<1>11. Total(Parts, C) = k * (Scale \div (d * k))
  <2>1. Scale \div (d * k) \in Int
    BY <1>4, <1>8
  <2> QED
    BY <1>2, <1>9, <2>1, TotalConstant
<1> QED
  BY <1>4, <1>6, <1>10, <1>11, SplitIsEven DEF C

(* A branch of a settled arena has a share.                                *)
LEMMA SharesAreSet ==
  ASSUME IInv, pc = "idle", size > 0
  PROVE  \A b \in 0 .. size - 1 : share[b] # 0
<1> DEFINE L == {n \in Nat : n < size => share[n] # 0}
<1>1. size \in Nat /\ size <= MaxBranches
  BY DEF IInv, TypeOK
<1>2. ASSUME NEW n \in Nat, \A m \in 0 .. n - 1 : m \in L
      PROVE  n \in L
  <2>1. CASE n = 0
    BY <2>1 DEF IInv, LoopInv
  <2>2. CASE n # 0 /\ n < size
    <3> DEFINE p == parent_index[n]
    <3>1. p \in 0 .. n - 1 /\ n \in 1 .. size - 1
      BY <1>1, <2>2 DEF IInv, GraftInv
    <3>2. share[n] = share[p] * child_count[p]
      BY <3>1 DEF IInv, LoopInv, SplitOf
    <3>3. share[p] # 0 /\ p \in 0 .. size - 1 /\ p \in Slots
      BY <1>1, <1>2, <3>1, BranchAssumption DEF Slots
    <3>4. /\ child_count[p] = Cardinality(ChildrenOf(p))
          /\ ChildrenOf(p) = Family!Children(size, parent_index, p)
      BY <3>3 DEF IInv, SiblingChains, ChildrenOf, linked
    <3>5. n \in ChildrenOf(p)
      BY <3>1, <3>4 DEF Family!Children
    <3>6. child_count[p] # 0
      BY <1>1, <3>4, <3>5, ChildrenFinite
    <3>7. share[p] \in Nat /\ child_count[p] \in Nat
      BY <3>3, BranchAssumption DEF IInv, TypeOK
    <3> HIDE DEF p
    <3>8. share[p] * child_count[p] # 0
      BY <3>3, <3>6, <3>7
    <3> QED BY <3>2, <3>8
  <2> QED BY <2>1, <2>2
<1>3. Nat \subseteq L
  <2> HIDE DEF L
  <2> QED BY <1>2, NatSetStrong
<1> QED
  BY <1>1, <1>3

(* Whatever the tree, the shares of its leaves add up to the whole fund:   *)
(* the parts of the inner branches are those of all branches but the root. *)
THEOREM LeavesOwnTheFund ==
  ASSUME ShortOfWrap
  PROVE  Spec => []LeafSharesTotal
<1>1. ASSUME IInv, pc = "idle", size > 0, PartsAreWhole
      PROVE  Total(Parts, Leaves) = Scale
  <2> DEFINE Nodes == 0 .. size - 1
             Inner == {b \in Nodes : child_count[b] # 0}
             F == [b \in Inner |-> ChildrenOf(b)]
  <2>1. /\ size \in Nat \ {0} /\ size <= MaxBranches /\ linked = size
        /\ Nodes \subseteq Slots /\ IsFiniteSet(Nodes) /\ Scale \in Nat
    <3>1. /\ size \in Nat \ {0} /\ size <= MaxBranches /\ linked = size
          /\ Scale \in Nat /\ MaxBranches \in Nat
      BY <1>1, BranchAssumption DEF IInv, TypeOK, linked
    <3>2. Nodes \subseteq Slots
      BY <3>1 DEF Slots
    <3>3. IsFiniteSet(Nodes)
      BY <3>1, FS_Interval
    <3> QED BY <3>1, <3>2, <3>3
  <2>2. \A b \in Nodes : share[b] \in Nat \ {0} /\ Parts[b] \in Int
    <3> SUFFICES ASSUME NEW b \in Nodes
                 PROVE  share[b] \in Nat \ {0} /\ Parts[b] \in Int
      OBVIOUS
    <3>1. share[b] # 0
      BY <1>1, SharesAreSet
    <3>2. b \in Slots /\ share[b] \in Nat
      BY <1>1, <2>1 DEF IInv, TypeOK
    <3>3. Parts[b] = Scale \div share[b]
      BY <3>1, <3>2 DEF Parts
    <3> HIDE DEF Nodes
    <3>4. Scale \div share[b] \in Int
      BY <2>1, <3>1, <3>2
    <3> QED BY <3>1, <3>2, <3>3, <3>4
  <2>3. /\ Leaves = Nodes \ Inner /\ Inner \in SUBSET Nodes
        /\ IsFiniteSet(Inner) /\ 0 \in Nodes
    BY <2>1, FS_Subset DEF Leaves
  <2>4. \A b \in Inner : /\ IsFiniteSet(F[b])
                         /\ F[b] = Family!Children(size, parent_index, b)
                         /\ F[b] \subseteq Nodes
                         /\ Parts[b] = Total(Parts, F[b])
    <3> SUFFICES ASSUME NEW b \in Inner
                 PROVE  /\ IsFiniteSet(F[b])
                        /\ F[b] = Family!Children(size, parent_index, b)
                        /\ F[b] \subseteq Nodes
                        /\ Parts[b] = Total(Parts, F[b])
      OBVIOUS
    <3>1. F[b] = Family!Children(size, parent_index, b)
      BY <2>1 DEF ChildrenOf
    <3>2. F[b] \subseteq Nodes
      BY <3>1 DEF Family!Children
    <3>3. IsFiniteSet(F[b])
      BY <2>1, <3>2, FS_Subset
    <3>4. Parts[b] = Total(Parts, ChildrenOf(b))
      BY <1>1, <2>2, ChildrenOwnTheParent
    <3> QED BY <3>1, <3>2, <3>3, <3>4
  <2>5. \A x : x \in Nodes \ {0} <=> \E b \in Inner : x \in F[b]
    <3>1. ASSUME NEW c \in Nodes \ {0}
          PROVE  \E b \in Inner : c \in F[b]
      <4> DEFINE p == parent_index[c]
      <4>1. p \in Nodes /\ c \in 1 .. size - 1
        BY <1>1, <2>1 DEF IInv, GraftInv
      <4>2. c \in Family!Children(size, parent_index, p)
        BY <4>1 DEF Family!Children
      <4>3. child_count[p] # 0
        BY <1>1, <2>1, <4>1, <4>2, ChildrenFinite
        DEF IInv, SiblingChains, ChildrenOf
      <4> QED BY <2>4, <4>1, <4>2, <4>3
    <3>2. ASSUME NEW b \in Inner, NEW c \in F[b]
          PROVE  c \in Nodes \ {0}
      BY <2>4 DEF Family!Children
    <3> HIDE DEF F, Inner, Nodes
    <3> QED BY <3>1, <3>2
  <2>6. \A a, b \in Inner : a # b => F[a] \cap F[b] = {}
    BY <2>4 DEF Family!Children
  <2>7. \A b \in Inner : \A x \in F[b] : Parts[x] \in Int
    BY <2>2, <2>4
  <2> HIDE DEF F, Inner, Nodes
  <2>8. Total(Parts, Nodes \ {0}) = Total(Parts, Inner)
    BY <2>3, <2>4, <2>5, <2>6, <2>7, TotalOfTotals
  <2>9. Total(Parts, Nodes) = Parts[0] + Total(Parts, Nodes \ {0})
    BY <2>1, <2>2, <2>3, TotalRemove
  <2>10. Total(Parts, Nodes) = Total(Parts, Inner) + Total(Parts, Leaves)
    BY <2>1, <2>2, <2>3, TotalSplit
  <2>11. Parts[0] = Scale
    <3>1. share[0] = 1 /\ 0 \in Slots
      BY <1>1, BranchAssumption DEF IInv, LoopInv, Slots
    <3> QED BY <2>1, <3>1 DEF Parts
  <2>12. Total(Parts, Inner) \in Int /\ Total(Parts, Leaves) \in Int
    <3>1. IsFiniteSet(Leaves) /\ Leaves \subseteq Nodes /\ Inner \subseteq Nodes
      BY <2>1, <2>3, FS_Subset
    <3> QED BY <2>2, <2>3, <3>1, TotalType
  <2> QED
    BY <2>1, <2>8, <2>9, <2>10, <2>11, <2>12
<1> QED
  BY <1>1, InductiveInvariant, PTL DEF LeafSharesTotal

-----------------------------------------------------------------------------
(* The arena, seen between the calls that change it, is the abstract tree. *)
THEOREM RefinesFamilyTree ==
  ASSUME ShortOfWrap
  PROVE  Spec => ImplementsFamilyTree
<1> USE BranchAssumption
<1>1. Init => Family!Init
  BY DEF Init, Family!Init, Slots, Family!Slots
<1>2. ASSUME IInv, IInv', SharesPerStirpes', [Next]_vars
      PROVE  [Family!Next]_(Family!vars)
  <2>1. /\ share \in [Slots -> Nat] /\ share # Unsettled
        /\ share' \in [Slots -> Nat] /\ share' # Unsettled
        /\ parent_index' \in [Slots -> Nat]
        /\ size \in 0 .. MaxBranches
    <3>1. Slots \cup {INVALID_INDEX} \subseteq Nat
      BY DEF Slots
    <3>2. parent_index' \in [Slots -> Slots \cup {INVALID_INDEX}]
      BY <1>2 DEF IInv, TypeOK
    <3>3. parent_index' \in [Slots -> Nat]
      BY <3>1, <3>2
    <3>4. Unsettled \notin [Slots -> Nat]
      BY DEF Slots
    <3> QED
      BY <1>2, <3>3, <3>4 DEF IInv, TypeOK
  <2>2. Slots = Family!Slots
    BY DEF Slots, Family!Slots
  <2>3. CASE CreateRootBranch
    <3>1. pc = "idle" /\ pc' = "idle" /\ size' = 1
      BY <2>3 DEF CreateRootBranch
    <3>2. Family!IsPerStirpes(size', parent_index', share')
      BY <1>2, <3>1 DEF SharesPerStirpes
    <3> QED
      BY <2>1, <2>2, <3>1, <3>2 DEF Family!Next, Family!Found
  <2>4. ASSUME NEW p \in Slots, AddSubBranch(p)
        PROVE  Family!Next
    <3>1. pc = "idle" /\ pc' # "idle" /\ p < size /\ size < MaxBranches
          /\ size' = size + 1
          /\ parent_index' = [parent_index EXCEPT ![size] = p]
      BY <2>4 DEF AddSubBranch, CountChild, EnterRebalance
    <3>2. p \in 0 .. size - 1
      BY <2>1, <3>1 DEF Slots
    <3> QED
      BY <2>1, <3>1, <3>2 DEF Family!Next, Family!Graft
  <2>5. CASE Rebalance
    BY <2>1, <2>5
    DEF Rebalance, EnterRebalance, Family!Next, Family!BeginRebalance
  <2>6. CASE Return
    <3>1. pc # "idle" /\ pc' = "idle" /\ UNCHANGED <<size, parent_index, share>>
      BY <2>6 DEF Return, arena
    <3>2. size > 0
      BY <1>2, <3>1 DEF IInv, GraftInv
    <3>3. Family!IsPerStirpes(size, parent_index, share')
      BY <1>2, <3>1, <3>2 DEF SharesPerStirpes
    <3> QED
      BY <2>1, <2>2, <3>1, <3>3 DEF Family!Next, Family!Settle
  <2>7. CASE WalkSiblings \/ LinkSibling \/ EnterChildren \/ SkipLeaf
             \/ ShareWithChild \/ LeaveChildren
    <3>1. pc # "idle" /\ pc' # "idle" /\ UNCHANGED <<size, parent_index>>
      BY <2>7 DEF WalkSiblings, LinkSibling, CountChild, EnterRebalance,
                  EnterChildren, SkipLeaf, ShareWithChild, LeaveChildren,
                  arena
    <3> QED
      BY <3>1 DEF Family!vars
  <2>8. CASE UNCHANGED vars
    BY <2>8 DEF vars, arena, Family!vars
  <2> QED
    BY <1>2, <2>3, <2>4, <2>5, <2>6, <2>7, <2>8 DEF Next, Step
<1> QED
  BY <1>1, <1>2, InductiveInvariant, PerStirpes, PTL
  DEF Spec, ImplementsFamilyTree, Family!Spec

=============================================================================
