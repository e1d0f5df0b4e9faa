------------------------- MODULE MCIngressCompletion -------------------------
(***************************************************************************)
(* Instances of IngressCompletion.                                         *)
(***************************************************************************)
EXTENDS IngressCompletion
=============================================================================
