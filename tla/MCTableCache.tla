---------------------------- MODULE MCTableCache ----------------------------
(* An instance of TableCache for TLC: three files that share two hash     *)
(* values, one of them twice as large.                                     *)
EXTENDS TableCache

ThreadSymmetry == Permutations(Thread)
MCHash == [k \in File |-> IF k = 3 THEN 2 ELSE 1 + 2 * (k % 2)]
MCCharge == [k \in File |-> IF k = 3 THEN 2 ELSE 1]
=============================================================================
