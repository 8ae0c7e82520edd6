------------------------------ MODULE KVStore -------------------------------
(***************************************************************************)
(* What leveldb::DB promises to its callers (include/leveldb/db.h,         *)
(* options.h, write_batch.h): a map from keys to values that is changed by *)
(* whole batches, can be read as of any earlier moment, and of which a     *)
(* crash may forget only what was never promised to be durable.            *)
(*                                                                         *)
(* A batch is a non-empty set of entries with distinct sequence numbers;   *)
(* the value a put writes is identified by its sequence number.            *)
(***************************************************************************)
EXTENDS Integers

CONSTANT Batch    \* the batches a client may write

VARIABLES hist,     \* the batches the map consists of
          doubt,    \* the batches begun, or failed, that a crash may revive
          durable   \* the batches that no crash may lose

vars == <<hist, doubt, durable>>

\* What a read of key k as of sequence number s returns: the number of the
\* newest put that no deletion follows, 0 if there is none.
Value(k, s) ==
    LET ents == {e \in UNION hist : e.key = k /\ e.seq <= s}
        newest == {e \in ents : \A d \in ents : d.seq <= e.seq}
    IN IF \E e \in newest : e.type = "put"
       THEN (CHOOSE e \in newest : TRUE).seq ELSE 0

Init == hist = {} /\ doubt = {} /\ durable = {}

Begin(b) == /\ b \notin hist \union doubt
            /\ doubt' = doubt \union {b}
            /\ UNCHANGED <<hist, durable>>

\* The write returns: all of the batch becomes visible in one step.
Commit(b, sync) == /\ b \in doubt
                   /\ doubt' = doubt \ {b}
                   /\ hist' = hist \union {b}
                   /\ durable' = IF sync THEN durable \union {b} ELSE durable

\* The process ends, or the machine stops.  If only the process ended, every
\* batch that returned is still there; if the machine stopped, at least the
\* durable ones are, and what is found then is durable.  A batch is there as
\* a whole or not at all.
Crash(machine) ==
    /\ hist' \subseteq hist \union doubt
    /\ durable \subseteq hist'
    /\ ~machine => hist \subseteq hist'
    /\ durable' = IF machine THEN hist' ELSE durable
    /\ doubt' = {}

Next == \/ \E b \in Batch : Begin(b)
        \/ \E b \in doubt, sync \in BOOLEAN : Commit(b, sync)
        \/ \E machine \in BOOLEAN : Crash(machine)

Spec == Init /\ [][Next]_vars
=============================================================================
