------------------------------ MODULE RandomPool ------------------------------
(***************************************************************************)
(* The random numbers of the simulation: a Xoshiro256PlusPlus generator,   *)
(* the NormalRandomPool that computes normal variates from it in batches,  *)
(* and their two owners.  MarketEngine, which can be given a new seed,     *)
(* draws from its generator through the pool only; DemographicEngine,      *)
(* which cannot, also draws from it directly.                              *)
(*                                                                         *)
(* A generator is known by its seed and the number of draws made since; a  *)
(* variate by the draws it is computed from (see NormalStream).            *)
(***************************************************************************)
EXTENDS Integers, Sequences

CONSTANTS
  Seeds,
  Requests,  \* the batch sizes a pool may be constructed with
  Tiny,      \* the draws <<seed, n>> that are at most 1e-15
  Nobody,    \* no variate
  Zero,      \* the value of an element that resize adds
  MaxCalls   \* bound on the number of calls

ASSUME PoolAssumption ==
  /\ Requests \subseteq Nat
  /\ Nobody \notin [seed : Seeds, u1 : Nat, u2 : Nat, part : {"cos", "sin"}]
  /\ Tiny \subseteq Seeds \X Nat
  /\ MaxCalls \in Nat

VARIABLES
  owner,       \* "market" or "demographics"
  rng,         \* the generator
  pool, cursor, batch_size, \* of the NormalRandomPool
  pc,          \* where get_next is, "ready" between two calls
  i, u1, u2,   \* the local variables of refill
  last,        \* the variate get_next returned last since the last seed
  calls        \* counted to bound the instance

locals == <<pc, i, u1, u2>>
vars == <<owner, rng, pool, cursor, batch_size, locals, last, calls>>

(* Slip: an odd batch size is taken as it is.                              *)
BatchAsRequested(requested) == IF requested < 2 THEN 2 ELSE requested

(* The pairs fill a batch of even length.                                  *)
BatchOf(requested) ==
  IF requested < 2 THEN 2 ELSE requested + (requested % 2)

(* seed(): all four words of the state come from the seed.                 *)
Seeded(s) == [seed |-> s, drawn |-> 0]

(* operator() and next_double: the state moves on by one draw.             *)
Drawn(generator, n) == [generator EXCEPT !.drawn = @ + n]

IsTiny(s, n) == <<s, n>> \in Tiny

Init ==
  /\ owner \in {"market", "demographics"}
  /\ \E s \in Seeds : rng = Seeded(s)
  /\ \E requested \in Requests : batch_size = BatchOf(requested)
  /\ pool = <<>> /\ cursor = 0
  /\ pc = "ready" /\ i = 0 /\ u1 = 0 /\ u2 = 0
  /\ last = Nobody
  /\ calls = 0

Called ==
  /\ pc = "ready"
  /\ calls < MaxCalls
  /\ calls' = calls + 1

(* Slip: the variates drawn ahead outlive their seed.                      *)
SetSeedOnly(s) ==
  /\ owner = "market"
  /\ Called
  /\ rng' = Seeded(s)
  /\ last' = Nobody
  /\ UNCHANGED <<owner, pool, cursor, batch_size, locals>>

(* MarketEngine::set_seed.                                                 *)
SetSeed(s) ==
  /\ owner = "market"
  /\ Called
  /\ rng' = Seeded(s)
  /\ pool' = <<>> /\ cursor' = 0
  /\ last' = Nobody
  /\ UNCHANGED <<owner, batch_size, locals>>

(* DemographicEngine decides about births, branches and the estate.        *)
DrawDirectly ==
  /\ owner = "demographics"
  /\ Called
  /\ rng' = Drawn(rng, 1)
  /\ UNCHANGED <<owner, pool, cursor, batch_size, locals, last>>

(* get_next finds the pool used up: resize keeps what is there, or adds    *)
(* zeros, and refill starts.                                               *)
BeginRefill ==
  /\ Called
  /\ cursor >= Len(pool)
  /\ pool' = [k \in 1 .. batch_size |->
                IF k <= Len(pool) THEN pool[k] ELSE Zero]
  /\ cursor' = 0
  /\ i' = 0
  /\ pc' = "draw"
  /\ UNCHANGED <<owner, rng, batch_size, u1, u2, last>>

(* The next pair of uniform draws.                                         *)
DrawPair ==
  /\ pc = "draw"
  /\ u1' = rng.drawn /\ u2' = rng.drawn + 1
  /\ rng' = Drawn(rng, 2)
  /\ pc' = "accept"
  /\ UNCHANGED <<owner, pool, cursor, batch_size, i, last, calls>>

(* Slip: the same draw is looked at again.                                 *)
RedrawInVain ==
  /\ pc = "accept"
  /\ IsTiny(rng.seed, u1)
  /\ UNCHANGED vars

(* The logarithm of a tiny u1 is avoided.                                  *)
Redraw ==
  /\ pc = "accept"
  /\ IsTiny(rng.seed, u1)
  /\ u1' = rng.drawn
  /\ rng' = Drawn(rng, 1)
  /\ UNCHANGED <<owner, pool, cursor, batch_size, pc, i, u2, last, calls>>

Variate(part) == [seed |-> rng.seed, u1 |-> u1, u2 |-> u2, part |-> part]

(* Slip: the variates of a pair change places.                             *)
StoreSwapped ==
  /\ pc = "accept"
  /\ ~IsTiny(rng.seed, u1)
  /\ pool' = [pool EXCEPT ![i + 1] = Variate("sin"), ![i + 2] = Variate("cos")]
  /\ i' = i + 2
  /\ pc' = IF i' < batch_size THEN "draw" ELSE "take"
  /\ UNCHANGED <<owner, rng, cursor, batch_size, u1, u2, last, calls>>

StorePair ==
  /\ pc = "accept"
  /\ ~IsTiny(rng.seed, u1)
  /\ pool' = [pool EXCEPT ![i + 1] = Variate("cos"), ![i + 2] = Variate("sin")]
  /\ i' = i + 2
  /\ pc' = IF i' < batch_size THEN "draw" ELSE "take"
  /\ UNCHANGED <<owner, rng, cursor, batch_size, u1, u2, last, calls>>

Deliver ==
  /\ last' = pool[cursor + 1]
  /\ cursor' = cursor + 1
  /\ pc' = "ready"
  /\ UNCHANGED <<owner, rng, pool, batch_size, i, u1, u2>>

(* get_next on a pool that still has variates.                             *)
GetNext ==
  /\ Called
  /\ cursor < Len(pool)
  /\ Deliver

(* get_next after a refill.                                                *)
GetFirst ==
  /\ pc = "take"
  /\ Deliver
  /\ UNCHANGED calls

-----------------------------------------------------------------------------
(* The steps of a get_next that has started.                               *)
Step == DrawPair \/ Redraw \/ StorePair \/ GetFirst

Next ==
  \/ \E s \in Seeds : SetSeed(s)
  \/ DrawDirectly
  \/ BeginRefill
  \/ GetNext
  \/ Step

(* A refill runs on: nothing can stop it.                                  *)
Spec == Init /\ [][Next]_vars /\ WF_vars(Step)

-----------------------------------------------------------------------------
Variates ==
  [seed : Seeds, u1 : Nat, u2 : Nat, part : {"cos", "sin"}]

(* The type invariant.  The elements a refill has not reached are          *)
(* variates of the batch before or zeros.                                  *)
TypeOK ==
  /\ owner \in {"market", "demographics"}
  /\ rng \in [seed : Seeds, drawn : Nat]
  /\ batch_size \in Nat /\ batch_size >= 2 /\ batch_size % 2 = 0
  /\ pool \in Seq(Variates \cup {Zero})
  /\ Len(pool) \in {0, batch_size}
  /\ cursor \in 0 .. Len(pool)
  /\ pc \in {"ready", "draw", "accept", "take"}
  /\ i \in 0 .. batch_size /\ i % 2 = 0
  /\ u1 \in Nat /\ u2 \in Nat
  /\ last \in Variates \cup {Nobody}
  /\ calls \in 0 .. MaxCalls

(* How many elements of the pool belong to the present batch.              *)
Filled == IF pc = "ready" THEN Len(pool) ELSE i

(* The draws a variate is computed from.                                   *)
DrawsOf(v) == {v.u1, v.u2}

(* Every variate of the batch comes from draws that were made from the     *)
(* present seed and accepted, and no draw is used twice, but by the two    *)
(* variates of a pair: what is handed out later is new.                    *)
BatchIsFresh ==
  /\ \A k \in 1 .. Filled :
       /\ pool[k].seed = rng.seed
       /\ ~IsTiny(rng.seed, pool[k].u1)
       /\ \A n \in DrawsOf(pool[k]) : n < rng.drawn
  /\ \A k, l \in 1 .. Filled :
       k < l =>
         \/ \A m \in DrawsOf(pool[k]), n \in DrawsOf(pool[l]) : m < n
         \/ pool[k].part = "cos" /\ pool[l] = [pool[k] EXCEPT !.part = "sin"]

(* Every get_next returns, however small the draws turn out.               *)
CallsReturn == pc # "ready" ~> pc = "ready"

-----------------------------------------------------------------------------
(* A pool is a stream that nobody computes ahead.  What comes next is at   *)
(* the cursor if there is something, or else where the batch to come       *)
(* starts: during its refill, at the first pair it has drawn.              *)
Upcoming ==
  IF pc = "ready" /\ cursor < Len(pool)
  THEN [position |-> pool[cursor + 1].u2 - 1, half |-> pool[cursor + 1].part]
  ELSE [position |-> IF pc # "ready" /\ i > 0 THEN pool[1].u2 - 1
                     ELSE IF pc = "accept" THEN u2 - 1
                     ELSE rng.drawn,
        half |-> "cos"]

Stream == INSTANCE NormalStream WITH
  seed <- rng.seed, position <- Upcoming.position, half <- Upcoming.half,
  shared <- owner = "demographics"

(* However many variates are computed ahead, the caller sees the stream.   *)
IsAStream == Stream!StreamSpec

=============================================================================
