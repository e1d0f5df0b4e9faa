--------------------------- MODULE MCMessageGroups ---------------------------
(***************************************************************************)
(* Two consumers and a browser that acquires some of what it is shown, each *)
(* under a name of its own.                                                *)
(***************************************************************************)
EXTENDS MessageGroups, TLC

CONSTANTS c1, c2, b1

TypeOfThree == c1 :> "CONSUMER" @@ c2 :> "CONSUMER" @@ b1 :> "BROWSER"

OwnNames == [c \in {c1, c2, b1} |-> c]

Symmetry == Permutations({c1, c2})
=============================================================================
