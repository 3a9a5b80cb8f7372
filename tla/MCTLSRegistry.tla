---------------------------- MODULE MCTLSRegistry ----------------------------
(* Instances of the registry: threads register, exit, walk and finalize.   *)
EXTENDS RegistryQueue
=============================================================================
