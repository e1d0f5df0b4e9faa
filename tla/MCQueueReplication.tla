-------------------------- MODULE MCQueueReplication --------------------------
(***************************************************************************)
(* Instances of QueueReplication.                                          *)
(***************************************************************************)
EXTENDS QueueReplication, TLC

Symmetry == Permutations(Brokers)
=============================================================================
