--------------------------- MODULE MCLinearJournal ---------------------------
(* A small instance of LinearJournal for TLC.                              *)
EXTENDS LinearJournal

Symmetry == Permutations(Messages)
=============================================================================
