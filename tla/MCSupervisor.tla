---------------------------- MODULE MCSupervisor ----------------------------
(* The wall clock is set by more than the heartbeat's limit, either way. *)
EXTENDS Supervisor

MCStepSizes == {-8, 8}

=============================================================================
