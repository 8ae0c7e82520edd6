--------------------------- MODULE MCDocumentStore ---------------------------
(* Small instances of DocumentStore for TLC. *)
EXTENDS DocumentStore, TLC

\* cdIDs and keys are only compared for equality; descriptions too.
Symmetry == Permutations(CdId) \cup Permutations(Key) \cup Permutations(Desc)
===============================================================================
