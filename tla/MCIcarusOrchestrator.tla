----------------------- MODULE MCIcarusOrchestrator -----------------------
(* Model checking of IcarusOrchestrator: two experiments, two processes.  *)
EXTENDS IcarusOrchestrator
=============================================================================
