---------------------------- MODULE MCInstances ----------------------------
(* An instance of Instances for TLC: MCInstances.cfg gives the constants.  *)
EXTENDS Instances
=============================================================================
