----------------------------- MODULE MCDtxBranch -----------------------------
(***************************************************************************)
(* Instances of DtxBranch.                                                 *)
(***************************************************************************)
EXTENDS DtxBranch, TLC

Symmetry == Permutations(Sessions)
=============================================================================
