-------------------------- MODULE MCModelExecution --------------------------
(* Instance of ModelExecution for TLC: a tier of three children on two     *)
(* providers, so that an account failure bars one child and leaves one.    *)
EXTENDS ModelExecution, TLC

CONSTANTS m1, m2, m3, p1, p2

MCModels == {m1, m2, m3}

MCChildren == <<m1, m2, m3>>

MCProvider == m1 :> p1 @@ m2 :> p1 @@ m3 :> p2

MCUnfit == {m1}

=============================================================================
