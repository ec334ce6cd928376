--------------------------------- MODULE Sums ---------------------------------
(* Sums of amounts over finite sets.                                       *)
EXTENDS Integers, FiniteSetsExt

(* The total of amounts[x] for the x in S.                                 *)
Total(amounts, S) == MapThenSumSet(LAMBDA x : amounts[x], S)

=============================================================================
