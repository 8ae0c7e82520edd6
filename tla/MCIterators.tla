---------------------------- MODULE MCIterators -----------------------------
(* An instance of Iterators for TLC. *)
EXTENDS Iterators

CONSTANT MaxOps

\* Keys that are prefixes of each other, and a run of 0xff.
MCUser == {<<1>>, <<1, 1>>, <<3>>}

\* A block of one entry may share its filter with the next, and a block of two
\* may reach over the next filter.
MCValue == <<0, 0, 0>>

Operation == [key : MCUser, type : {"put", "del"}]

MCHistories == UNION {[1..n -> Operation] : n \in 1..MaxOps}
=============================================================================
