----------------------------- MODULE NormalStream -----------------------------
(***************************************************************************)
(* What a pool of normal variates promises its caller: Box and Muller's    *)
(* transform of the draws of one generator, two variates from each pair,   *)
(* in the order of the draws, each delivered once, and after a new seed    *)
(* nothing that was drawn before.  How many are computed ahead shows only  *)
(* where the generator has other users too: their draws are then missing   *)
(* between one pair and the next.                                          *)
(*                                                                         *)
(* The n-th draw from a seed is the pair of the two; a variate is named by *)
(* the draws u1 and u2 it is computed from and by its part, cos or sin.    *)
(***************************************************************************)
EXTENDS Integers

CONSTANTS
  Seeds,
  Tiny,    \* the draws <<seed, n>> that are at most 1e-15
  Nobody   \* no variate

VARIABLES
  seed,
  position,  \* the first draw of the pair that is delivered next
  half,      \* the part of it that is delivered next
  last,      \* the variate that was delivered last
  shared     \* whether the generator has other users

stream == <<seed, position, half, last, shared>>

Variate(s, u1, u2, part) == [seed |-> s, u1 |-> u1, u2 |-> u2, part |-> part]

IsTiny(s, n) == <<s, n>> \in Tiny

(* The draw at n is followed by one for the angle.  If the draw at n is    *)
(* tiny it is replaced by the first later one that is not, u1.             *)
AcceptedFrom(s, n, u1) ==
  /\ ~IsTiny(s, u1)
  /\ \/ u1 = n
     \/ /\ u1 >= n + 2
        /\ IsTiny(s, n)
        /\ \A k \in n + 2 .. u1 - 1 : IsTiny(s, k)

(* The first draw after those of a pair.                                   *)
AfterPair(u1, u2) == IF u1 > u2 THEN u1 + 1 ELSE u2 + 1

StreamInit ==
  /\ seed \in Seeds
  /\ position = 0 /\ half = "cos"
  /\ last = Nobody
  /\ shared \in BOOLEAN

DeliverCos ==
  /\ half = "cos"
  /\ last' # Nobody
  /\ AcceptedFrom(seed, position, last'.u1)
  /\ last' = Variate(seed, last'.u1, position + 1, "cos")
  /\ half' = "sin"
  /\ UNCHANGED <<seed, position, shared>>

DeliverSin ==
  /\ half = "sin"
  /\ last # Nobody
  /\ last.part = "cos"
  /\ last' = [last EXCEPT !.part = "sin"]
  /\ half' = "cos"
  /\ \/ position' = AfterPair(last.u1, last.u2)
     \/ shared /\ position' > AfterPair(last.u1, last.u2)
  /\ UNCHANGED <<seed, shared>>

(* Another user draws.                                                     *)
Skip ==
  /\ shared
  /\ half = "cos"
  /\ position' > position
  /\ UNCHANGED <<seed, half, last, shared>>

Reseed ==
  /\ seed' \in Seeds
  /\ position' = 0 /\ half' = "cos"
  /\ last' = Nobody
  /\ UNCHANGED shared

StreamNext == DeliverCos \/ DeliverSin \/ Skip \/ Reseed

StreamSpec == StreamInit /\ [][StreamNext]_stream

=============================================================================
