--------------------------- MODULE MCOrchestrator ---------------------------
(* Orchestrator with a clock that can pass ValidUntil during a call.       *)
EXTENDS Orchestrator
=============================================================================
