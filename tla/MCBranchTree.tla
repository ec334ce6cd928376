----------------------------- MODULE MCBranchTree -----------------------------
(* Instances of BranchTree for TLC.                                        *)
EXTENDS BranchTree

(* The reciprocals of shares in a tree with n branches below the root:     *)
(* every generation on the way to a branch splits the share once.          *)
Splits[n \in 0 .. MaxBranches - 1] ==
  {1} \cup UNION {{k * d : d \in Splits[n - k]} : k \in 1 .. n}

(* So the parts of the fund are whole in every tree of the instance.       *)
ASSUME ScaleIsEnough ==
  \A d \in Splits[MaxBranches - 1] : Scale % d = 0

=============================================================================
