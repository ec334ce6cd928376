--------------------------- MODULE MCTelemetryExport ---------------------------
(* Instances of TelemetryExport for TLC.                                   *)
EXTENDS TelemetryExport

(* A year with heirs only, as the fund records them, and one with branches. *)
AnySnapshot == {[branches |-> 0, heirs |-> 2], [branches |-> 2, heirs |-> 1]}

(* run_simulation_json, _binary and _both, with a path or without.         *)
AnyExports == {<<>>, <<"json">>, <<"bin">>, <<"json", "bin">>}

=============================================================================
