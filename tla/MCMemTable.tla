----------------------------- MODULE MCMemTable -----------------------------
(* An instance of MemTable for TLC: a block has room for three puts or so, *)
(* and a put is large enough for a block of its own.                       *)
EXTENDS MemTable

MCSize == [put |-> 5, del |-> 1]
=============================================================================
