----------------------------- MODULE MCRandomPool -----------------------------
(* Instances of RandomPool for TLC.                                        *)
EXTENDS RandomPool

(* Draws that are tiny where a pair is expected, several in a row, and one *)
(* that is in the place of an angle and does no harm.                      *)
SomeTiny == ({11} \X {0, 2, 3, 7}) \cup ({12} \X {1, 4})

=============================================================================
