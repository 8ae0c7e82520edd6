------------------------------ MODULE DBCursor ------------------------------
(***************************************************************************)
(* What leveldb::Iterator promises to a caller of DB::NewIterator          *)
(* (include/leveldb/iterator.h, db.h): a cursor over the keys that the     *)
(* database had when it was created, in order, with their values, which    *)
(* every call of a method takes to the place that the method names.  After *)
(* a read error, status() is not OK any more and nothing else is promised. *)
(***************************************************************************)
CONSTANTS Less(_, _),
          End           \* the position of a cursor that is not valid

VARIABLES map,          \* the pairs <<key, value>> that the cursor is over
          at,           \* the pair it is at, or End
          ok,           \* status().ok()
          call          \* the last call: its method, and the key that it
                        \* seeks or moves on from

vars == <<map, at, ok, call>>

First(S) == IF S = {} THEN End ELSE CHOOSE p \in S : \A q \in S : ~Less(q[1], p[1])
LastOf(S) == IF S = {} THEN End ELSE CHOOSE p \in S : \A q \in S : ~Less(p[1], q[1])

NoCall == [method |-> "none", key |-> End]
Init == at = End /\ ok \in BOOLEAN /\ call = NoCall

\* The methods, each taken to be the call just made.
SeekToFirst == call'.method = "SeekToFirst" /\ at' = First(map)
SeekToLast == call'.method = "SeekToLast" /\ at' = LastOf(map)
Seek == call'.method = "Seek" /\ at' = First({p \in map : ~Less(p[1], call'.key)})
Next == /\ call'.method = "Next"
        /\ at # End /\ call'.key = at[1]
        /\ at' = First({p \in map : Less(at[1], p[1])})
Prev == /\ call'.method = "Prev"
        /\ at # End /\ call'.key = at[1]
        /\ at' = LastOf({p \in map : Less(p[1], at[1])})

Move == ok /\ ok' /\ (SeekToFirst \/ SeekToLast \/ Seek \/ Next \/ Prev)
ReadError == ok' = FALSE

Spec == Init /\ [][UNCHANGED map /\ (Move \/ ReadError)]_vars
=============================================================================
