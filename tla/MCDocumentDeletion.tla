------------------------- MODULE MCDocumentDeletion -------------------------
(* Instance of DocumentDeletion for TLC.                                   *)
EXTENDS DocumentDeletion, TLC

Symmetry == Permutations(Txs)

=============================================================================
