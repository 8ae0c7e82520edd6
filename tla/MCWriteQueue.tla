---------------------------- MODULE MCWriteQueue ----------------------------
(* An instance of WriteQueue for TLC. *)
EXTENDS WriteQueue

CONSTANTS c1, c2, c3

MCClient == {c1, c2, c3}

\* A write that leaves a block without room for a header, a long one with sync, and a client that forces a flush or
\* writes a short batch with sync.
MCRequests == (c1 :> {[size |-> 3, sync |-> FALSE]})
           @@ (c2 :> {[size |-> 5, sync |-> TRUE]})
           @@ (c3 :> {[size |-> 0, sync |-> FALSE], [size |-> 1, sync |-> TRUE]})
=============================================================================
