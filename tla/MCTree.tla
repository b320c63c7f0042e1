-------------------------------- MODULE MCTree --------------------------------
(***************************************************************************)
(* A small block tree for model checking.  The branches a and b fork above *)
(* height 1, c leaves a above height 2:                                    *)
(*                                                                         *)
(*    g0 - a1 - a2 - a3 - a4                                               *)
(*          |    `--- c3 - c4                                              *)
(*          `--- b2 - b3 - b4                                              *)
(***************************************************************************)
EXTENDS Naturals, TLC

Trunk == 0 :> "g0" @@ 1 :> "a1"
BranchA == Trunk @@ 2 :> "a2" @@ 3 :> "a3" @@ 4 :> "a4"
BranchB == Trunk @@ 2 :> "b2" @@ 3 :> "b3" @@ 4 :> "b4"
BranchC == Trunk @@ 2 :> "a2" @@ 3 :> "c3" @@ 4 :> "c4"

MCMaxHeight == 4

MCChains ==
  {[n \in 0..h |-> br[n]] : h \in 1..MCMaxHeight, br \in {BranchA, BranchB, BranchC}}

MCBlock == UNION {{c[n] : n \in DOMAIN c} : c \in MCChains}

MCNumber == [b \in MCBlock |-> CHOOSE n \in 0..MCMaxHeight : \E c \in MCChains : n \in DOMAIN c /\ c[n] = b]

MCParent ==
  [b \in MCBlock |->
     IF b = "g0" THEN "g0"
     ELSE CHOOSE p \in MCBlock : \E c \in MCChains :
            MCNumber[b] \in DOMAIN c /\ c[MCNumber[b]] = b /\ c[MCNumber[b] - 1] = p]
===============================================================================
