--------------------------- MODULE RandomPoolProofs ---------------------------
(***************************************************************************)
(* Proofs about RandomPool for every batch size, every set of seeds and    *)
(* every set of draws that are too small: no draw is used twice, and a     *)
(* pool that computes its variates ahead implements NormalStream.          *)
(***************************************************************************)
EXTENDS RandomPool, SequenceTheorems, TLAPS

-----------------------------------------------------------------------------
(* The inductive invariant.                                                *)

(* Between two calls a pool that is not empty has delivered something.  A  *)
(* refill writes to a whole batch.                                         *)
PhaseInv ==
  /\ pc = "ready" /\ Len(pool) > 0 => cursor > 0 /\ last = pool[cursor]
  /\ pc # "ready" => Len(pool) = batch_size /\ cursor = 0
  /\ pc \in {"draw", "accept"} => i < batch_size
  /\ pc = "take" => i = batch_size

(* The pair that waits for a first draw that is not tiny.                  *)
PendingInv ==
  pc = "accept" =>
    /\ u2 >= 1
    /\ \/ u1 = u2 - 1
       \/ /\ u1 > u2
          /\ IsTiny(rng.seed, u2 - 1)
          /\ \A k \in u2 + 1 .. u1 - 1 : IsTiny(rng.seed, k)
    /\ rng.drawn = Stream!AfterPair(u1, u2)

(* The first draw of the pair that is or will be drawn next.               *)
Start == IF pc = "accept" THEN u2 - 1 ELSE rng.drawn

(* Every variate of the batch is a half of an accepted pair.               *)
VariatesInv ==
  \A k \in 1 .. Filled :
    /\ pool[k] \in Variates
    /\ pool[k].seed = rng.seed
    /\ pool[k].u2 >= 1
    /\ Stream!AcceptedFrom(rng.seed, pool[k].u2 - 1, pool[k].u1)
    /\ pool[k].part = IF k % 2 = 1 THEN "cos" ELSE "sin"
    /\ pool[k].u1 < Start /\ pool[k].u2 < Start

(* The two halves of a pair are neighbours, a pair begins with the draw    *)
(* after the pair before it, and the next one after the last, unless       *)
(* somebody else has drawn since.                                          *)
ChainInv ==
  /\ \A k \in 1 .. Filled - 1 :
       IF k % 2 = 1
       THEN pool[k + 1] = [pool[k] EXCEPT !.part = "sin"]
       ELSE pool[k + 1].u2 - 1 = Stream!AfterPair(pool[k].u1, pool[k].u2)
  /\ Filled > 0 =>
       LET end == Stream!AfterPair(pool[Filled].u1, pool[Filled].u2)
       IN  Start = end \/ (pc = "ready" /\ owner = "demographics" /\ Start > end)

(* No draw of an earlier pair comes after one of a later pair.             *)
OrderInv ==
  \A k, l \in 1 .. Filled :
    k < l =>
      \/ \A m \in DrawsOf(pool[k]), n \in DrawsOf(pool[l]) : m < n
      \/ pool[k].part = "cos" /\ pool[l] = [pool[k] EXCEPT !.part = "sin"]

IInv == TypeOK /\ PhaseInv /\ PendingInv /\ VariatesInv /\ ChainInv /\ OrderInv

-----------------------------------------------------------------------------
(* The invariant holds of an empty pool.                                   *)
LEMMA InitInv == Init => IInv
<1> SUFFICES ASSUME Init PROVE IInv
  OBVIOUS
<1> USE PoolAssumption DEF Init
<1>1. <<>> \in Seq(Variates \cup {Zero}) /\ Len(<<>>) = 0
  BY EmptySeq
<1>2. batch_size \in Nat /\ batch_size >= 2 /\ batch_size % 2 = 0
  BY DEF BatchOf
<1>3. TypeOK
  BY <1>1, <1>2 DEF TypeOK, Seeded
<1>4. Filled = 0
  BY <1>1 DEF Filled
<1> QED
  BY <1>1, <1>3, <1>4
  DEF IInv, PhaseInv, PendingInv, VariatesInv, ChainInv, OrderInv

(* Half of a pair that was drawn and accepted.                             *)
LEMMA NewVariate ==
  ASSUME TypeOK, PendingInv, StorePair, NEW half \in {"cos", "sin"}
  PROVE  /\ Variate(half) \in Variates
         /\ Variate(half).seed = rng.seed
         /\ Variate(half).u1 = u1 /\ Variate(half).u2 = u2
         /\ Variate(half).part = half
         /\ u2 >= 1 /\ u1 >= u2 - 1
         /\ Stream!AcceptedFrom(rng.seed, u2 - 1, u1)
BY DEF Variate, TypeOK, PendingInv, StorePair, Variates, IsTiny,
       Stream!AcceptedFrom, Stream!IsTiny

(* What a pair adds to the pool and what it leaves alone.                  *)
LEMMA StoredPair ==
  ASSUME TypeOK, PhaseInv, PendingInv, StorePair
  PROVE  /\ i + 2 <= batch_size /\ i' = i + 2 /\ i' % 2 = 0
         /\ pool' \in Seq(Variates \cup {Zero}) /\ Len(pool') = Len(pool)
         /\ pool'[i + 1] = Variate("cos") /\ pool'[i + 2] = Variate("sin")
         /\ \A k \in 1 .. i : pool'[k] = pool[k]
<1> DEFINE S == Variates \cup {Zero}
           first == [pool EXCEPT ![i + 1] = Variate("cos")]
<1>1. i + 2 <= batch_size /\ i' = i + 2 /\ i' % 2 = 0 /\ i \in Nat
      /\ Len(pool) = batch_size /\ pool \in Seq(S)
  <2>1. /\ i \in Nat /\ batch_size \in Nat /\ i < batch_size
        /\ i % 2 = 0 /\ batch_size % 2 = 0
    BY DEF TypeOK, PhaseInv, StorePair
  <2>2. i + 2 <= batch_size /\ (i + 2) % 2 = 0
    BY <2>1
  <2> QED
    BY <2>1, <2>2 DEF TypeOK, PhaseInv, StorePair
<1>2. Variate("cos") \in S /\ Variate("sin") \in S
  BY NewVariate
<1>3. i + 1 \in 1 .. Len(pool) /\ i + 2 \in 1 .. Len(pool)
  BY <1>1 DEF TypeOK
<1> HIDE DEF S
<1>4. /\ first \in Seq(S) /\ Len(first) = Len(pool)
      /\ \A k \in 1 .. Len(pool) :
           first[k] = IF k = i + 1 THEN Variate("cos") ELSE pool[k]
  BY <1>1, <1>2, <1>3, ExceptSeq
<1>5. pool' = [first EXCEPT ![i + 2] = Variate("sin")]
  BY DEF StorePair
<1> HIDE DEF first
<1>6. /\ pool' \in Seq(S) /\ Len(pool') = Len(first)
      /\ \A k \in 1 .. Len(first) :
           pool'[k] = IF k = i + 2 THEN Variate("sin") ELSE first[k]
  BY <1>2, <1>3, <1>4, <1>5, ExceptSeq
<1>7. \A k \in 1 .. i : k \in 1 .. Len(pool) /\ k # i + 1 /\ k # i + 2
  BY <1>1, <1>3
<1> QED
  BY <1>1, <1>3, <1>4, <1>6, <1>7 DEF S

-----------------------------------------------------------------------------
(* Every step keeps the variables within their types.                      *)
LEMMA TypeStep == ASSUME IInv, [Next]_vars PROVE TypeOK'
<1> USE PoolAssumption DEF IInv, TypeOK
<1>1. ASSUME NEW s \in Seeds, SetSeed(s) PROVE TypeOK'
  <2>1. <<>> \in Seq(Variates \cup {Zero}) /\ Len(<<>>) = 0
    BY EmptySeq
  <2> QED
    BY <1>1, <2>1 DEF SetSeed, Called, Seeded, locals
<1>2. CASE DrawDirectly
  BY SMTT(30), <1>2 DEF DrawDirectly, Called, Drawn, locals
<1>3. CASE BeginRefill
  <2>1. \A k \in 1 .. batch_size :
          (IF k <= Len(pool) THEN pool[k] ELSE Zero) \in Variates \cup {Zero}
    BY ElementOfSeq
  <2>2. pool' \in Seq(Variates \cup {Zero}) /\ Len(pool') = batch_size
    BY <1>3, <2>1 DEF BeginRefill
  <2> QED
    BY <1>3, <2>2 DEF BeginRefill, Called
<1>4. CASE GetNext \/ GetFirst
  <2>1. cursor + 1 \in 1 .. Len(pool)
    BY <1>4 DEF GetNext, GetFirst, PhaseInv
  <2>2. pool[cursor + 1] \in Variates
    BY <1>4, <2>1 DEF VariatesInv, Filled, GetNext, GetFirst, Called, PhaseInv
  <2> QED
    BY SMTT(30), <1>4, <2>1, <2>2 DEF GetNext, GetFirst, Called, Deliver
<1>5. CASE DrawPair \/ Redraw
  BY SMTT(30), <1>5 DEF DrawPair, Redraw, Drawn
<1>6. CASE StorePair
  BY <1>6, StoredPair DEF StorePair
<1>7. CASE UNCHANGED vars
  BY <1>7 DEF vars, locals
<1> QED
  BY <1>1, <1>2, <1>3, <1>4, <1>5, <1>6, <1>7 DEF Next, Step

(* Every step keeps the phases in their order.                             *)
LEMMA PhaseStep == ASSUME IInv, [Next]_vars PROVE PhaseInv'
<1> USE DEF IInv, TypeOK, PhaseInv
<1>1. ASSUME NEW s \in Seeds, SetSeed(s) PROVE PhaseInv'
  BY <1>1 DEF SetSeed, Called, locals
<1>2. CASE DrawDirectly
  BY <1>2 DEF DrawDirectly, Called, locals
<1>3. CASE BeginRefill
  BY <1>3 DEF BeginRefill, Called
<1>4. CASE GetNext \/ GetFirst
  BY <1>4 DEF GetNext, GetFirst, Called, Deliver
<1>5. CASE DrawPair \/ Redraw
  BY <1>5 DEF DrawPair, Redraw
<1>6. CASE StorePair
  <2>1. i' <= batch_size /\ Len(pool') = batch_size
    BY <1>6, StoredPair DEF StorePair
  <2> QED
    BY <1>6, <2>1 DEF StorePair
<1>7. CASE UNCHANGED vars
  BY <1>7 DEF vars, locals
<1> QED
  BY <1>1, <1>2, <1>3, <1>4, <1>5, <1>6, <1>7 DEF Next, Step

(* Every step keeps what is pending in step with the cursor.               *)
LEMMA PendingStep == ASSUME IInv, [Next]_vars PROVE PendingInv'
<1> USE DEF IInv, TypeOK, PendingInv
<1>1. CASE DrawPair
  BY <1>1 DEF DrawPair, Drawn, Stream!AfterPair
<1>2. CASE Redraw
  <2>1. /\ u1' = rng.drawn /\ u2' = u2 /\ rng'.drawn = rng.drawn + 1
        /\ rng'.seed = rng.seed /\ IsTiny(rng.seed, u1)
    BY <1>2 DEF Redraw, Drawn
  <2>2. CASE u1 = u2 - 1
    BY <1>2, <2>1, <2>2 DEF Redraw, Stream!AfterPair
  <2>3. CASE u1 > u2
    <3>1. u1' = u1 + 1
      BY <1>2, <2>1, <2>3 DEF Redraw, Stream!AfterPair
    <3>2. \A k \in u2 + 1 .. u1' - 1 : IsTiny(rng.seed, k)
      BY <1>2, <2>1, <2>3, <3>1 DEF Redraw
    <3> QED
      BY SMTT(30), <1>2, <2>1, <2>3, <3>1, <3>2 DEF Redraw, Stream!AfterPair, IsTiny
  <2> QED
    BY <1>2, <2>2, <2>3 DEF Redraw
<1>3. CASE pc' # "accept"
  BY <1>3
<1>4. CASE UNCHANGED vars
  BY <1>4 DEF vars, locals, IsTiny, Stream!AfterPair
<1>5. CASE /\ Next /\ ~DrawPair /\ ~Redraw
  <2>1. pc' # "accept"
    BY <1>5 DEF Next, Step, SetSeed, DrawDirectly, BeginRefill, GetNext,
                GetFirst, StorePair, Called, Deliver, locals
  <2> QED
    BY <1>3, <2>1
<1> QED
  BY <1>1, <1>2, <1>4, <1>5

-----------------------------------------------------------------------------
(* The part of the invariant about the batch.                              *)
BatchInv == VariatesInv /\ ChainInv /\ OrderInv

(* It only depends on the batch, on where the next pair starts and on      *)
(* whether it may have been moved on.                                      *)
LEMMA SameBatch ==
  ASSUME BatchInv, rng'.seed = rng.seed, Filled' = Filled,
         \A k \in 1 .. Filled : pool'[k] = pool[k], Filled \in Nat,
         Start' = Start,
         pc = "ready" /\ owner = "demographics"
           => pc' = "ready" /\ owner' = "demographics"
  PROVE  BatchInv'
<1>1. VariatesInv'
  BY DEF BatchInv, VariatesInv, Stream!AcceptedFrom, Stream!IsTiny
<1>2. ChainInv'
  BY DEF BatchInv, ChainInv, Stream!AfterPair
<1>3. OrderInv'
  BY DEF BatchInv, OrderInv, DrawsOf
<1> QED
  BY <1>1, <1>2, <1>3 DEF BatchInv

(* Every step keeps the batch consistent with its seed.                    *)
LEMMA BatchStep == ASSUME IInv, [Next]_vars PROVE BatchInv'
<1> USE DEF IInv, TypeOK
<1>1. BatchInv /\ Filled \in Nat
  BY DEF BatchInv, Filled
<1>2. ASSUME NEW s \in Seeds, SetSeed(s) PROVE BatchInv'
  <2>1. Filled' = 0
    BY <1>2 DEF SetSeed, Called, locals, Filled
  <2> QED
    BY <2>1 DEF BatchInv, VariatesInv, ChainInv, OrderInv
<1>3. CASE DrawDirectly
  <2>1. /\ pc = "ready" /\ pc' = "ready" /\ owner = "demographics"
        /\ owner' = owner /\ pool' = pool /\ Filled' = Filled
        /\ rng'.seed = rng.seed /\ Start' = Start + 1 /\ Start = rng.drawn
    BY <1>3 DEF DrawDirectly, Called, Drawn, locals, Filled, Start
  <2>2. VariatesInv'
    BY SMTT(30), <2>1 DEF VariatesInv, Variates, Stream!AcceptedFrom, Stream!IsTiny
  <2>3. ChainInv'
    <3>1. Filled > 0 =>
            Stream!AfterPair(pool[Filled].u1, pool[Filled].u2) \in Int
      BY <1>1 DEF VariatesInv, Variates, Stream!AfterPair
    <3> QED
      BY SMTT(30), <1>1, <2>1, <3>1 DEF ChainInv, Stream!AfterPair
  <2>4. OrderInv'
    BY SMTT(30), <2>1 DEF OrderInv, DrawsOf
  <2> QED
    BY <2>2, <2>3, <2>4 DEF BatchInv
<1>4. CASE BeginRefill
  <2>1. Filled' = 0
    BY <1>4 DEF BeginRefill, Filled
  <2> QED
    BY <2>1 DEF BatchInv, VariatesInv, ChainInv, OrderInv
<1>5. CASE GetNext \/ GetFirst
  <2>1. /\ Filled' = Filled /\ Start' = Start
    BY <1>5 DEF GetNext, GetFirst, Called, Deliver, Filled, Start, PhaseInv
  <2> QED
    BY <1>1, <1>5, <2>1, SameBatch DEF GetNext, GetFirst, Called, Deliver
<1>6. CASE DrawPair \/ Redraw
  <2>1. Filled' = Filled /\ Start' = Start /\ rng'.seed = rng.seed /\ pc # "ready"
    BY <1>6 DEF DrawPair, Redraw, Drawn, Filled, Start
  <2> QED
    BY <1>1, <1>6, <2>1, SameBatch DEF DrawPair, Redraw
<1>7. CASE StorePair
  <2> DEFINE cos == Variate("cos")
             sin == Variate("sin")
  <2>1. /\ pc = "accept" /\ pc' \in {"draw", "take"} /\ rng' = rng
        /\ owner' = owner
        /\ Filled = i /\ Filled' = i + 2 /\ Start = u2 - 1
        /\ Start' = Stream!AfterPair(u1, u2)
        /\ \A k \in 1 .. i : pool'[k] = pool[k]
        /\ pool'[i + 1] = cos /\ pool'[i + 2] = sin
        /\ i \in Nat /\ i % 2 = 0 /\ u1 \in Nat /\ u2 \in Nat
    BY <1>7, StoredPair DEF StorePair, Filled, Start, PendingInv
  <2>2. \A half \in {"cos", "sin"} :
          /\ Variate(half) \in Variates
          /\ Variate(half).seed = rng.seed
          /\ Variate(half).u1 = u1 /\ Variate(half).u2 = u2
          /\ Variate(half).part = half
          /\ u2 >= 1 /\ u1 >= u2 - 1
          /\ Stream!AcceptedFrom(rng.seed, u2 - 1, u1)
    BY <1>7, NewVariate
  <2>3. sin = [cos EXCEPT !.part = "sin"]
    BY DEF Variate
  <2>4. u1 < Start' /\ u2 < Start' /\ Start < Start' /\ Start \in Int
        /\ Start' \in Int
    BY <2>1, <2>2 DEF Stream!AfterPair
  <2> HIDE DEF cos, sin
  <2> DEFINE OldVariate(k) ==
               /\ pool[k] \in Variates
               /\ pool[k].seed = rng.seed
               /\ pool[k].u2 >= 1
               /\ Stream!AcceptedFrom(rng.seed, pool[k].u2 - 1, pool[k].u1)
               /\ pool[k].part = IF k % 2 = 1 THEN "cos" ELSE "sin"
               /\ pool[k].u1 < Start /\ pool[k].u2 < Start
             Halves(k) == pool[k + 1] = [pool[k] EXCEPT !.part = "sin"]
             Adjacent(k) ==
               pool[k + 1].u2 - 1 = Stream!AfterPair(pool[k].u1, pool[k].u2)
  <2>a. \A k \in 1 .. i : OldVariate(k)
    BY <2>1 DEF VariatesInv
  <2>b. \A k \in 1 .. i - 1 : IF k % 2 = 1 THEN Halves(k) ELSE Adjacent(k)
    BY <2>1 DEF ChainInv
  <2>c. i > 0 => Start = Stream!AfterPair(pool[i].u1, pool[i].u2)
    BY <2>1 DEF ChainInv
  <2>5. VariatesInv'
    <3> SUFFICES ASSUME NEW k \in 1 .. i + 2
                 PROVE  /\ pool'[k] \in Variates
                        /\ pool'[k].seed = rng.seed
                        /\ pool'[k].u2 >= 1
                        /\ Stream!AcceptedFrom(rng.seed, pool'[k].u2 - 1,
                                               pool'[k].u1)
                        /\ pool'[k].part = IF k % 2 = 1 THEN "cos" ELSE "sin"
                        /\ pool'[k].u1 < Start' /\ pool'[k].u2 < Start'
      BY <2>1 DEF VariatesInv, Stream!AcceptedFrom, Stream!IsTiny
    <3>1. CASE k \in 1 .. i
      <4>1. pool'[k] = pool[k] /\ OldVariate(k)
        BY <2>1, <2>a, <3>1
      <4>2. pool[k].u1 \in Nat /\ pool[k].u2 \in Nat
        BY <4>1 DEF Variates
      <4>3. pool[k].u1 < Start' /\ pool[k].u2 < Start'
        BY SMTT(30), <2>4, <4>1, <4>2
      <4> QED
        BY ONLY <4>1, <4>3
    <3>2. CASE k = i + 1
      BY SMTT(30), <2>1, <2>2, <2>4, <3>2 DEF cos
    <3>3. CASE k = i + 2
      BY <2>1, <2>2, <2>4, <3>3 DEF sin
    <3> QED
      BY <2>1, <3>1, <3>2, <3>3
  <2>6. ChainInv'
    <3>1. ASSUME NEW k \in 1 .. i + 1
          PROVE  IF k % 2 = 1
                 THEN pool'[k + 1] = [pool'[k] EXCEPT !.part = "sin"]
                 ELSE pool'[k + 1].u2 - 1
                        = Stream!AfterPair(pool'[k].u1, pool'[k].u2)
      <4>1. CASE k < i
        <5>1. pool'[k] = pool[k] /\ pool'[k + 1] = pool[k + 1]
          BY SMTT(30), <2>1, <4>1
        <5>2. IF k % 2 = 1 THEN Halves(k) ELSE Adjacent(k)
          <6>1. k \in 1 .. i - 1
            BY <2>1, <4>1
          <6> QED
            BY <6>1, <2>b
        <5> QED
          BY <5>1, <5>2
      <4>2. CASE k = i
        <5>1. /\ pool'[k] = pool[i] /\ pool'[k + 1] = cos /\ i > 0
              /\ cos.u2 = u2 /\ k % 2 # 1
          BY <2>1, <2>2, <4>2 DEF cos
        <5> QED
          BY <2>1, <2>c, <4>2, <5>1
      <4>3. CASE k = i + 1
        <5>1. pool'[k] = cos /\ pool'[k + 1] = sin
          BY <2>1, <4>3
        <5>2. k % 2 = 1
          BY <2>1, <4>3
        <5> QED
          BY <2>3, <5>1, <5>2
      <4> QED
        BY SMTT(30), <2>1, <4>1, <4>2, <4>3
    <3>2. Start' = Stream!AfterPair(pool'[i + 2].u1, pool'[i + 2].u2)
      BY <2>1, <2>2 DEF sin
    <3>3. /\ Filled' = i + 2 /\ i + 2 - 1 = i + 1
      BY <2>1
    <3> QED
      BY SMTT(30), <2>1, <3>1, <3>2, <3>3 DEF ChainInv, Stream!AfterPair
  <2>7. OrderInv'
    <3> SUFFICES ASSUME NEW k \in 1 .. i + 2, NEW l \in 1 .. i + 2, k < l
                 PROVE  \/ \A m \in DrawsOf(pool'[k]), n \in DrawsOf(pool'[l]) :
                             m < n
                        \/ /\ pool'[k].part = "cos"
                           /\ pool'[l] = [pool'[k] EXCEPT !.part = "sin"]
      BY <2>1 DEF OrderInv, DrawsOf
    <3>1. CASE l <= i
      <4>1. k \in 1 .. Filled /\ l \in 1 .. Filled
            /\ pool'[k] = pool[k] /\ pool'[l] = pool[l]
        BY <2>1, <3>1
      <4> QED
        BY SMTT(30), <4>1 DEF OrderInv, DrawsOf
    <3>2. CASE k <= i /\ l > i
      <4>1. pool'[k] = pool[k] /\ pool[k] \in Variates
            /\ pool[k].u1 < Start /\ pool[k].u2 < Start
        BY <2>1, <2>a, <3>2
      <4>2. pool'[l].u1 = u1 /\ pool'[l].u2 = u2
        <5>1. l = i + 1 \/ l = i + 2
          BY <2>1, <3>2
        <5> QED
          BY <2>1, <2>2, <5>1 DEF cos, sin
      <4>3. u1 >= Start /\ u2 >= Start
        BY <2>1, <2>2
      <4> QED
        <5>1. pool[k].u1 \in Nat /\ pool[k].u2 \in Nat
          BY <4>1 DEF Variates
        <5>2. /\ pool[k].u1 < u1 /\ pool[k].u1 < u2
              /\ pool[k].u2 < u1 /\ pool[k].u2 < u2
          <6>1. Start \in Int /\ u1 \in Nat /\ u2 \in Nat
            BY <2>1, <2>4
          <6> QED
            BY ONLY <6>1, <4>1, <4>3, <5>1
        <5> QED
          BY <4>1, <4>2, <5>2 DEF DrawsOf
    <3>3. CASE k = i + 1 /\ l = i + 2
      BY <2>1, <2>2, <2>3, <3>3 DEF cos
    <3> QED
      BY SMTT(30), <2>1, <3>1, <3>2, <3>3
  <2> QED
    BY <2>5, <2>6, <2>7 DEF BatchInv
<1>8. CASE UNCHANGED vars
  <2>1. Filled' = Filled /\ Start' = Start
    BY <1>8 DEF vars, locals, Filled, Start
  <2> QED
    BY <1>1, <1>8, <2>1, SameBatch DEF vars, locals
<1> QED
  BY <1>2, <1>3, <1>4, <1>5, <1>6, <1>7, <1>8 DEF Next, Step

(* The calls keep the invariant.                                           *)
THEOREM InductiveInvariant == Spec => []IInv
<1>1. IInv /\ [Next]_vars => IInv'
  BY TypeStep, PhaseStep, PendingStep, BatchStep DEF IInv, BatchInv
<1> QED
  BY InitInv, <1>1, PTL DEF Spec

(* The fields keep their types and every batch its even length.            *)
THEOREM TypeCorrect == Spec => []TypeOK
BY InductiveInvariant, PTL DEF IInv

(* No draw is used for two variates that do not belong together, and none  *)
(* that was made before the last call of set_seed is used at all.          *)
THEOREM DrawsAreFresh == Spec => []BatchIsFresh
<1>1. ASSUME IInv PROVE BatchIsFresh
  <2> USE <1>1 DEF IInv
  <2>1. Start \in Int /\ rng.drawn \in Nat /\ Start <= rng.drawn
    BY DEF TypeOK, Start, PendingInv, Stream!AfterPair
  <2>2. ASSUME NEW k \in 1 .. Filled
        PROVE  /\ pool[k].seed = rng.seed
               /\ ~IsTiny(rng.seed, pool[k].u1)
               /\ \A n \in DrawsOf(pool[k]) : n < rng.drawn
    <3>1. /\ pool[k] \in Variates /\ pool[k].seed = rng.seed
          /\ Stream!AcceptedFrom(rng.seed, pool[k].u2 - 1, pool[k].u1)
          /\ pool[k].u1 < Start /\ pool[k].u2 < Start
      BY DEF VariatesInv
    <3>2. pool[k].u1 \in Nat /\ pool[k].u2 \in Nat
      BY <3>1 DEF Variates
    <3>3. \A n \in DrawsOf(pool[k]) : n < rng.drawn
      <4> HIDE DEF Start
      <4> QED
        BY <2>1, <3>1, <3>2 DEF DrawsOf
    <3> QED
      BY <3>1, <3>3 DEF Stream!AcceptedFrom, Stream!IsTiny, IsTiny
  <2> QED
    BY <2>2 DEF BatchIsFresh, OrderInv
<1> QED
  BY <1>1, InductiveInvariant, PTL

-----------------------------------------------------------------------------
(* The abstract state during a refill does not change.                     *)
LEMMA RefillIsHidden ==
  ASSUME IInv, BeginRefill \/ DrawPair \/ Redraw \/ StorePair
  PROVE  UNCHANGED Stream!stream
<1> USE DEF IInv, TypeOK
<1>1. Upcoming' = Upcoming
  <2>1. CASE BeginRefill
    BY <2>1 DEF BeginRefill, Called, Upcoming
  <2>2. CASE DrawPair \/ Redraw
    BY <2>2 DEF DrawPair, Redraw, Upcoming
  <2>3. CASE StorePair
    <3>1. /\ pc = "accept" /\ pc' # "ready" /\ pc' # "accept" /\ i' = i + 2
          /\ i \in Nat /\ rng' = rng
          /\ pool'[i + 1].u2 = u2 /\ \A k \in 1 .. i : pool'[k] = pool[k]
      BY SMTT(30), <2>3, StoredPair, NewVariate DEF StorePair
    <3>2. CASE i = 0
      BY <3>1, <3>2 DEF Upcoming
    <3>3. CASE i > 0
      BY <3>1, <3>3 DEF Upcoming
    <3> QED
      BY <3>1, <3>2, <3>3
  <2> QED
    BY <2>1, <2>2, <2>3
<1>2. rng'.seed = rng.seed /\ last' = last /\ owner' = owner
  BY DEF BeginRefill, DrawPair, Redraw, StorePair, Drawn
<1> QED
  BY <1>1, <1>2 DEF Stream!stream

(* What get_next returns is what the stream delivers.                      *)
LEMMA DeliveryIsNext ==
  ASSUME IInv, IInv', GetNext \/ GetFirst
  PROVE  Stream!DeliverCos \/ Stream!DeliverSin
<1> DEFINE c == cursor + 1
<1>1. /\ c \in 1 .. Len(pool) /\ c \in 1 .. Filled /\ Filled = Len(pool)
      /\ last' = pool[c] /\ cursor' = c /\ pc' = "ready"
      /\ rng' = rng /\ pool' = pool /\ owner' = owner
      /\ Len(pool) = batch_size /\ batch_size % 2 = 0
      /\ Filled \in Nat /\ Start = rng.drawn /\ Start' = rng.drawn
  BY SMTT(30)
  DEF IInv, TypeOK, PhaseInv, Filled, GetNext, GetFirst, Called, Deliver,
      Start
<1>2. /\ pool[c] \in Variates /\ pool[c].seed = rng.seed
      /\ pool[c].u2 >= 1
      /\ Stream!AcceptedFrom(rng.seed, pool[c].u2 - 1, pool[c].u1)
      /\ pool[c].part = IF c % 2 = 1 THEN "cos" ELSE "sin"
  BY <1>1 DEF IInv, VariatesInv
<1>3. Upcoming = [position |-> pool[c].u2 - 1, half |-> pool[c].part]
  <2>1. CASE GetNext
    BY <2>1, <1>1 DEF GetNext, Called, Upcoming
  <2>2. CASE GetFirst
    <3>1. pc = "take" /\ cursor = 0 /\ i = batch_size /\ c = 1 /\ i > 0
      BY <2>2 DEF IInv, TypeOK, PhaseInv, GetFirst
    <3> QED
      BY <3>1, <1>2 DEF Upcoming
  <2> QED
    BY <2>1, <2>2
<1>4. Upcoming' =
        IF c < Len(pool)
        THEN [position |-> pool[c + 1].u2 - 1, half |-> pool[c + 1].part]
        ELSE [position |-> rng.drawn, half |-> "cos"]
  BY <1>1 DEF Upcoming
<1>5. c < Len(pool) =>
        IF c % 2 = 1
        THEN pool[c + 1] = [pool[c] EXCEPT !.part = "sin"]
        ELSE pool[c + 1].u2 - 1 = Stream!AfterPair(pool[c].u1, pool[c].u2)
  BY <1>1 DEF IInv, ChainInv
<1> HIDE DEF c
<1>6. CASE c % 2 = 1
  <2>1. c < Len(pool)
    BY <1>1, <1>6
  <2>2. Upcoming'.position = Upcoming.position /\ Upcoming'.half = "sin"
    BY <1>2, <1>3, <1>4, <1>5, <1>6, <2>1 DEF Variates
  <2>3. last' = Stream!Variate(rng.seed, pool[c].u1, pool[c].u2, "cos")
    BY <1>1, <1>2, <1>6 DEF Variates, Stream!Variate
  <2>4. last' # Nobody
    BY <1>1, <1>2, PoolAssumption DEF Variates
  <2>5. Upcoming.half = "cos" /\ Upcoming.position + 1 = pool[c].u2
        /\ Upcoming.position = pool[c].u2 - 1 /\ last'.u1 = pool[c].u1
    BY <1>1, <1>2, <1>3, <1>6 DEF Variates
  <2> QED
    BY <1>1, <1>2, <2>2, <2>3, <2>4, <2>5 DEF Stream!DeliverCos
<1>7. CASE c % 2 # 1
  <2>1. /\ pc = "ready" /\ cursor > 0 /\ last = pool[cursor]
        /\ cursor \in 1 .. Filled - 1 /\ cursor % 2 = 1
    <3>1. pc = "ready"
      BY <1>1, <1>7 DEF c, GetNext, GetFirst, Called, IInv, PhaseInv
    <3>2. cursor > 0 /\ last = pool[cursor] /\ cursor \in Nat
      BY <1>1, <3>1 DEF IInv, TypeOK, PhaseInv
    <3>3. cursor \in 1 .. Filled - 1 /\ cursor % 2 = 1
      BY <1>1, <1>7, <3>2 DEF c
    <3> QED
      BY <3>1, <3>2, <3>3
  <2>2. /\ last \in Variates /\ last.part = "cos"
        /\ pool[c] = [last EXCEPT !.part = "sin"]
    <3>1. cursor \in 1 .. Filled
      BY <1>1, <2>1
    <3>2. last \in Variates /\ last.part = "cos"
      BY <2>1, <3>1 DEF IInv, VariatesInv
    <3>3. pool[cursor + 1] = [last EXCEPT !.part = "sin"]
      BY <2>1 DEF IInv, ChainInv
    <3> QED
      BY <3>2, <3>3 DEF c
  <2>3. last # Nobody /\ last.u1 = pool[c].u1 /\ last.u2 = pool[c].u2
    BY <2>2, PoolAssumption DEF Variates
  <2>4. Upcoming.half = "sin"
    BY <1>2, <1>3, <1>7
  <2>5. CASE c < Len(pool)
    <3>1. c + 1 \in 1 .. Filled /\ (c + 1) % 2 = 1
      BY <1>1, <1>7, <2>5
    <3>2. pool[c + 1].part = "cos"
      BY <3>1 DEF IInv, VariatesInv
    <3>3. /\ Upcoming'.half = "cos"
          /\ Upcoming'.position = Stream!AfterPair(last.u1, last.u2)
      BY <1>4, <1>5, <1>7, <2>3, <2>5, <3>2
    <3> QED
      BY <1>1, <2>2, <2>3, <2>4, <3>3 DEF Stream!DeliverSin
  <2>6. CASE c = Len(pool)
    <3>1. /\ Upcoming'.half = "cos" /\ Upcoming'.position = rng.drawn
      BY <1>1, <1>4, <2>6
    <3>2. LET end == Stream!AfterPair(last.u1, last.u2)
          IN  rng.drawn = end \/ (owner = "demographics" /\ rng.drawn > end)
      BY <1>1, <2>3, <2>6 DEF IInv, ChainInv
    <3> QED
      BY <1>1, <2>2, <2>3, <2>4, <3>1, <3>2 DEF Stream!DeliverSin
  <2> QED
    BY <1>1, <2>5, <2>6
<1> QED
  BY <1>6, <1>7

(* The pool is invisible: for every batch size its caller gets the stream  *)
(* a generator without a pool would give, from the seed set last.          *)
THEOREM RefinesStream == Spec => IsAStream
<1>1. Init => Stream!StreamInit
  <2> SUFFICES ASSUME Init PROVE Stream!StreamInit
    OBVIOUS
  <2>1. Upcoming = [position |-> 0, half |-> "cos"]
    BY DEF Init, Seeded, Upcoming
  <2> QED
    BY <2>1 DEF Init, Seeded, Stream!StreamInit
<1>2. ASSUME IInv, IInv', [Next]_vars
      PROVE  [Stream!StreamNext]_(Stream!stream)
  <2>1. ASSUME NEW s \in Seeds, SetSeed(s) PROVE Stream!Reseed
    <3>1. Upcoming' = [position |-> 0, half |-> "cos"]
      BY <2>1 DEF SetSeed, Called, Seeded, locals, Upcoming
    <3> QED
      BY <2>1, <3>1 DEF SetSeed, Seeded, Stream!Reseed
  <2>2. CASE DrawDirectly
    <3>1. /\ pc = "ready" /\ pc' = pc /\ pool' = pool /\ cursor' = cursor
          /\ rng'.drawn = rng.drawn + 1 /\ rng'.seed = rng.seed
          /\ owner = "demographics" /\ owner' = owner /\ last' = last
          /\ rng.drawn \in Nat
      BY <1>2, <2>2 DEF DrawDirectly, Called, Drawn, locals, IInv, TypeOK
    <3>2. CASE cursor < Len(pool)
      <4>1. Upcoming' = Upcoming
        BY <3>1, <3>2 DEF Upcoming
      <4> QED
        BY <3>1, <4>1 DEF Stream!stream
    <3>3. CASE ~(cursor < Len(pool))
      <4>1. /\ Upcoming = [position |-> rng.drawn, half |-> "cos"]
            /\ Upcoming' = [position |-> rng.drawn + 1, half |-> "cos"]
        BY <3>1, <3>3 DEF Upcoming
      <4> QED
        BY <3>1, <4>1 DEF Stream!Skip, Stream!StreamNext
    <3> QED
      BY <3>2, <3>3
  <2>3. CASE UNCHANGED vars
    BY <2>3 DEF vars, locals, Upcoming, Stream!stream
  <2> QED
    BY <1>2, <2>1, <2>2, <2>3, RefillIsHidden, DeliveryIsNext
    DEF Next, Step, Stream!StreamNext
<1> QED
  BY <1>1, <1>2, InductiveInvariant, PTL DEF Spec, IsAStream, Stream!StreamSpec

=============================================================================
