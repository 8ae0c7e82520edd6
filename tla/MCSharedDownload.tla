--------------------------- MODULE MCSharedDownload ---------------------------
(* Small instances of SharedDownload for TLC. *)
EXTENDS SharedDownload

\* Two fields that differ in every attribute; versions that grow and shrink, one of them
\* with a field more than the base in which the keys are written.
A == [desc |-> "a", type |-> "name", rect |-> "ra"]
B == [desc |-> "b", type |-> "serial", rect |-> "rb"]
SmallFields == {A, B}
EdgeVersions == {<<B>>, <<A, A, A, B>>}
===============================================================================
