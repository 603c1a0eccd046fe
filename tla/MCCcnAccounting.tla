-------------------------- MODULE MCCcnAccounting --------------------------
(* Model checking of CcnAccounting, on the networks of MCCcnSim.           *)
EXTENDS MCCcnSim, CcnAccounting
=============================================================================
