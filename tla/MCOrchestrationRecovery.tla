------------------------ MODULE MCOrchestrationRecovery ------------------------
(* One client, four events, a lost connection and failed requests, for TLC. *)
EXTENDS OrchestrationRecovery
=============================================================================
