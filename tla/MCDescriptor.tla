---------------------------- MODULE MCDescriptor ----------------------------
(* Instances of Descriptor for TLC. *)
EXTENDS Descriptor

Symmetric == Permutations(Proc)

\* Two processes that open, write and destroy; a table of two entries that is
\* damaged, with repairs of it that are interrupted; and a compaction that goes
\* on after an edit was torn.
MCBudgets ==
    {[opens |-> 3, puts |-> 1, edits |-> 2, faults |-> 2, repairs |-> 1],
     [opens |-> 2, puts |-> 2, edits |-> 1, faults |-> 3, repairs |-> 2],
     [opens |-> 2, puts |-> 2, edits |-> 2, faults |-> 1, repairs |-> 0]}
=============================================================================
