------------------------------- MODULE MCEstate -------------------------------
(* Instances of Estate for TLC.                                            *)
EXTENDS Estate

Heir(b, age, contribution) ==
  [branch |-> b, age |-> age, contribution |-> contribution]

(* An adult in the sub-branch and a minor in the root; a lone founder.     *)
YoungFamilies ==
  {[parents |-> <<1>>, heirs |-> <<Heir(2, 2, 8), Heir(1, 0, 4)>>],
   [parents |-> <<1, 1>>, heirs |-> <<Heir(2, 1, 8)>>]}

(* A founder alone in a sub-branch.                                        *)
LoneFounder == {[parents |-> <<1>>, heirs |-> <<Heir(2, 1, 8)>>]}

CapOf(m, num, den) == [mode |-> m, cap_num |-> num, cap_den |-> den]

(* Half of the fund a year; a quarter without spillover; nothing at all.   *)
Hybrid == {CapOf("HYBRID_SPILLOVER", 1, 2)}
HybridOrPaused == Hybrid \cup {CapOf("HYBRID_SPILLOVER", 0, 1)}
AnyPolicy == HybridOrPaused \cup {CapOf("STRICT_PARTITION", 1, 4)}

=============================================================================
