------------------------ MODULE MCNormalReceiptBilling ------------------------
(* Small instances of NormalReceiptBilling for TLC. *)
EXTENDS NormalReceiptBilling, TLC

CONSTANTS w1, w2, m1, m2

\* Request threads are interchangeable, and so are managers.
Symmetry == Permutations(Workers) \cup Permutations(Managers)

=============================================================================
