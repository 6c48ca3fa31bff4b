------------------------- MODULE MCMetricsCollector -------------------------
(* MetricsCollector for TLC. *)
EXTENDS MetricsCollector, TLC

RestartSymmetry == Permutations(Restarts) \cup Permutations(Pods)

=============================================================================
