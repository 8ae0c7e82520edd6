----------------------------- MODULE Iterators ------------------------------
(***************************************************************************)
(* The iterator that DBImpl::NewIterator returns: a DBIter (db/db_iter.cc) *)
(* over a MergingIterator (table/merger.cc) over an iterator of the        *)
(* memtable and one of each table (TableFormat).  The caller moves it in   *)
(* any way, and other threads insert into the memtable in between.         *)
(***************************************************************************)
EXTENDS TableFormat

CONSTANTS User,         \* user keys
          Histories,    \* the operations that made the database: sequences of
                        \* [key, type]; the i-th has sequence number i
          MaxInserts,   \* bound on the entries newer than the iterator
          Value,        \* the bytes of every value
          MaxDamaged,   \* bound on the operations of a database in whose table
                        \* one block cannot be read
          None

VARIABLES mem,          \* the memtable: a set of internal keys
          src,          \* the tables, newest first
          sequence_,    \* the snapshot of the iterator
          it,           \* the DBIter
          call,         \* the last call of the iterator: its method, and the key that
                        \* it seeks or moves on from
          seen          \* for the properties: the keys written, as of now

vars == <<mem, src, sequence_, it, call, seen>>

RECURSIVE FindNextUserEntry(_, _, _), FindPrevUserEntry(_, _), PrevToOtherKey(_, _)

-----------------------------------------------------------------------------
(***************************************************************************)
(* The children.  Child 0 is MemTableIterator, a node of the skip list;    *)
(* child i is an iterator of the i-th table.                               *)
(***************************************************************************)

Least(S) == IF S = {} THEN None ELSE CHOOSE k \in S : \A j \in S : ~KeyLess(j, k)
Greatest(S) == IF S = {} THEN None ELSE CHOOSE k \in S : \A j \in S : ~KeyLess(k, j)

Children == 0..Len(src)

\* c is the position of child i.
ChildValid(i, c) == IF i = 0 THEN c # None ELSE TableValid(src[i], c)
ChildKey(i, c) == IF i = 0 THEN c ELSE TableKey(src[i], c)

NodeMove(k, how) ==
    CASE how.to = "first" -> Least(mem)
      [] how.to = "last" -> Greatest(mem)
      [] how.to = "next" -> Least({j \in mem : KeyLess(k, j)})
      [] how.to = "prev" -> Greatest({j \in mem : KeyLess(j, k)})
      [] how.to = "seek" -> Least({j \in mem : ~KeyLess(j, how.target)})
ChildMove(i, c, how) == IF i = 0 THEN NodeMove(c, how) ELSE TableMove(src[i], c, how)

-----------------------------------------------------------------------------
(***************************************************************************)
(* MergingIterator.                                                        *)
(***************************************************************************)

MergeValid(m) == m.current # None
MergeKey(m) == ChildKey(m.current, m.at[m.current])
MergeStatusOk(m) == \A i \in 1..Len(src) : TableStatusOk(src[i], m.at[i])

\* Merging children at these positions: FindSmallest, FindLargest.
FindSmallest(at) ==
    LET valid == {i \in Children : ChildValid(i, at[i])}
    IN [at |-> at, direction |-> "forward",
        current |-> IF valid = {} THEN None
                    ELSE CHOOSE i \in valid : \A j \in valid :
                            ~KeyLess(ChildKey(j, at[j]), ChildKey(i, at[i]))]
FindLargest(at) ==
    LET valid == {i \in Children : ChildValid(i, at[i])}
    IN [at |-> at, direction |-> "reverse",
        current |-> IF valid = {} THEN None
                    ELSE CHOOSE i \in valid : \A j \in valid :
                            ~KeyLess(ChildKey(i, at[i]), ChildKey(j, at[j]))]

EachChild(m, how) == [i \in Children |-> ChildMove(i, m.at[i], how)]
MergeSeekToFirst(m) == FindSmallest(EachChild(m, ToFirst))
MergeSeekToLast(m) == FindLargest(EachChild(m, ToLast))
MergeSeek(m, target) == FindSmallest(EachChild(m, SeekTo(target)))

\* Move the current child, the children being at these positions.
MoveCurrent(m, at, how) == [at EXCEPT ![m.current] = ChildMove(m.current, @, how)]

\* When the direction changes, the other children are first moved past the
\* current key.
AfterKey(i, c, k) ==
    IF ChildValid(i, c) /\ ChildKey(i, c) = k THEN ChildMove(i, c, ToNext) ELSE c
AllAfter(m, k) ==
    [i \in Children |-> IF i = m.current THEN m.at[i]
                        ELSE AfterKey(i, ChildMove(i, m.at[i], SeekTo(k)), k)]
MergeNext(m) ==
    FindSmallest(MoveCurrent(m, IF m.direction = "forward" THEN m.at
                                ELSE AllAfter(m, MergeKey(m)), ToNext))

\* Mutated BeforeKey: a child that has no key at or after the current one is
\* left past its end when the direction changes.
BeforeKeyNoLast(i, c) == IF ChildValid(i, c) THEN ChildMove(i, c, ToPrev) ELSE c

BeforeKey(i, c) == ChildMove(i, c, IF ChildValid(i, c) THEN ToPrev ELSE ToLast)
AllBefore(m, k) ==
    [i \in Children |-> IF i = m.current THEN m.at[i]
                        ELSE BeforeKey(i, ChildMove(i, m.at[i], SeekTo(k)))]

MergePrev(m) ==
    FindLargest(MoveCurrent(m, IF m.direction = "reverse" THEN m.at
                               ELSE AllBefore(m, MergeKey(m)), ToPrev))

-----------------------------------------------------------------------------
(***************************************************************************)
(* DBIter.  saved is the key and the value it has saved.                   *)
(***************************************************************************)

Visible(k) == SequenceOf(k) <= sequence_

\* The loop of FindNextUserEntry at the key k; next is iter_ after Next.
FindNextAfter(d, next, skipping, skip) ==
    IF ~MergeValid(next) THEN [d EXCEPT !.m = next, !.valid = FALSE, !.savedKey = <<>>]
    ELSE FindNextUserEntry([d EXCEPT !.m = next], skipping, skip)
FindNextAt(d, k, skipping, skip) ==
    LET deletes == Visible(k) /\ TypeOf(k) = "del"
    IN IF Visible(k) /\ TypeOf(k) = "put" /\ ~(skipping /\ ~Less(skip, ExtractUserKey(k)))
       THEN [d EXCEPT !.valid = TRUE, !.savedKey = <<>>]
       ELSE FindNextAfter(d, MergeNext(d.m), skipping \/ deletes,
                          IF deletes THEN ExtractUserKey(k) ELSE skip)
FindNextUserEntry(d, skipping, skip) == FindNextAt(d, MergeKey(d.m), skipping, skip)

\* The loop of FindPrevUserEntry: the entry k is saved, or hides those after
\* it, and iter_ moves back.  type is value_type.
SaveEntry(d, k) ==
    IF ~Visible(k) THEN d
    ELSE IF TypeOf(k) = "del" THEN [d EXCEPT !.savedKey = <<>>, !.savedValue = 0]
    ELSE [d EXCEPT !.savedKey = ExtractUserKey(k), !.savedValue = SequenceOf(k)]
FindPrevUserEntry(d, type) ==
    IF /\ MergeValid(d.m)
       /\ ~ /\ Visible(MergeKey(d.m)) /\ type # "del"
            /\ Less(ExtractUserKey(MergeKey(d.m)), d.savedKey)
    THEN FindPrevUserEntry([SaveEntry(d, MergeKey(d.m)) EXCEPT !.m = MergePrev(@)],
                           IF Visible(MergeKey(d.m)) THEN TypeOf(MergeKey(d.m)) ELSE type)
    ELSE IF type = "del"
    THEN [d EXCEPT !.valid = FALSE, !.savedKey = <<>>, !.savedValue = 0,
                   !.direction = "forward"]
    ELSE [d EXCEPT !.valid = TRUE]

\* FindNextUserEntry of a DBIter that has moved its iter_, if that is valid.
FindNextIfValid(d, skipping) ==
    IF MergeValid(d.m) THEN FindNextUserEntry(d, skipping, d.savedKey)
    ELSE [d EXCEPT !.valid = FALSE]

DBSeekToFirst(d) ==
    FindNextIfValid([d EXCEPT !.direction = "forward", !.savedValue = 0,
                              !.m = MergeSeekToFirst(@)], FALSE)

DBSeekToLast(d) ==
    FindPrevUserEntry([d EXCEPT !.direction = "reverse", !.savedValue = 0,
                                !.m = MergeSeekToLast(@)], "del")

DBSeek(d, user) ==
    LET target == InternalKey(user, sequence_, "put")
    IN FindNextIfValid([d EXCEPT !.direction = "forward", !.savedValue = 0,
                                 !.savedKey = target, !.m = MergeSeek(@, target)], FALSE)

\* The first part of Next: iter_ is made to point at an entry for the key.
AtCurrentKey(d) ==
    IF d.direction = "forward" THEN [d EXCEPT !.savedKey = ExtractUserKey(MergeKey(d.m))]
    ELSE [d EXCEPT !.direction = "forward",
                   !.m = IF MergeValid(@) THEN MergeNext(@) ELSE MergeSeekToFirst(@)]
DBNextFrom(d) ==
    IF MergeValid(d.m) THEN FindNextUserEntry(d, TRUE, d.savedKey)
    ELSE [d EXCEPT !.valid = FALSE, !.savedKey = <<>>]
DBNext(d) == DBNextFrom(AtCurrentKey(d))

\* Step back until the user key is another one.
PrevToOther(m, user) ==
    IF ~MergeValid(m) \/ Less(ExtractUserKey(MergeKey(m)), user) THEN m
    ELSE PrevToOtherKey(m, user)
PrevToOtherKey(m, user) == PrevToOther(MergePrev(m), user)

\* Prev of a DBIter that has made iter_ point before the entries of its key.
DBPrevFrom(d) ==
    IF d.direction = "forward" /\ ~MergeValid(d.m)
    THEN [d EXCEPT !.valid = FALSE, !.savedKey = <<>>, !.savedValue = 0]
    ELSE FindPrevUserEntry([d EXCEPT !.direction = "reverse"], "del")
BeforeCurrentKey(d, user) ==
    IF d.direction = "reverse" THEN d
    ELSE [d EXCEPT !.savedKey = user, !.m = PrevToOtherKey(@, user)]
DBPrev(d) == DBPrevFrom(BeforeCurrentKey(d, ExtractUserKey(MergeKey(d.m))))

key(d) == IF d.direction = "forward" THEN ExtractUserKey(MergeKey(d.m)) ELSE d.savedKey
value(d) == IF d.direction = "forward" THEN SequenceOf(MergeKey(d.m)) ELSE d.savedValue

-----------------------------------------------------------------------------
NewIterator == [m |-> [at |-> [i \in Children |-> IF i = 0 THEN None ELSE NewTableIter(src[i])],
                       current |-> None, direction |-> "forward"],
                direction |-> "forward", valid |-> FALSE,
                savedKey |-> <<>>, savedValue |-> 0]

\* The pairs that the database had at sequence_.
Snapshot ==
    LET old == {k \in seen : Visible(k)}
        newest == {k \in old : \A j \in old : ExtractUserKey(j) = ExtractUserKey(k)
                                                => SequenceOf(j) <= SequenceOf(k)}
    IN {<<ExtractUserKey(k), SequenceOf(k)>> : k \in {e \in newest : TypeOf(e) = "put"}}

Cursor == INSTANCE DBCursor WITH
            End <- None,
            map <- Snapshot,
            ok <- MergeStatusOk(it.m),
            at <- IF it.valid /\ MergeStatusOk(it.m) THEN <<key(it), value(it)>> ELSE None

\* Some database: the oldest n operations in a table, cut into blocks in any
\* way, the others in the memtable, and an iterator at any sequence number.
Init ==
    \E h \in Histories : \E n \in 0..Len(h) :
        LET written(i) == InternalKey(h[i].key, i, h[i].type)
            order == SetToSortSeq({written(i) : i \in 1..n}, KeyLess)
            pairs == [i \in DOMAIN order |-> <<order[i], IF TypeOf(order[i]) = "put" THEN Value ELSE <<>> >>]
        IN /\ seen = {written(i) : i \in DOMAIN h}
           /\ mem = {written(i) : i \in (n + 1)..Len(h)}
           /\ \E cuts \in SUBSET (1..n - 1) :
                 \E file \in {BuildTable(pairs, cuts)} :
                    \E bad \in {{}} \union (IF Len(h) > MaxDamaged THEN {}
                                            ELSE {{b} : b \in DOMAIN file.blocks}) :
                       src = IF n = 0 THEN <<>> ELSE <<Open(file, bad)>>
           /\ sequence_ \in 0..Len(h)
           /\ it = NewIterator
           /\ call = Cursor!NoCall

Called(method, user) == call' = [method |-> method, key |-> user]

SeekToFirst == Called("SeekToFirst", None) /\ it' = DBSeekToFirst(it)
SeekToLast == Called("SeekToLast", None) /\ it' = DBSeekToLast(it)
Seek(user) == Called("Seek", user) /\ it' = DBSeek(it, user)
Next_ == it.valid /\ Called("Next", key(it)) /\ it' = DBNext(it)
Prev == it.valid /\ Called("Prev", key(it)) /\ it' = DBPrev(it)

\* Another thread writes: the entry is newer than the iterator's snapshot.
Insert(user, type) ==
    LET k == InternalKey(user, Cardinality(seen) + 1, type)
    IN /\ Cardinality({e \in seen : SequenceOf(e) > sequence_}) < MaxInserts
       /\ mem' = mem \union {k} /\ seen' = seen \union {k}

Next ==
    \/ /\ SeekToFirst \/ SeekToLast \/ Next_ \/ Prev \/ \E u \in User : Seek(u)
       /\ UNCHANGED <<mem, src, sequence_, seen>>
    \/ /\ \E u \in User, type \in {"put", "del"} : Insert(u, type)
       /\ UNCHANGED <<src, sequence_, it, call>>

Spec == Init /\ [][Next]_vars

-----------------------------------------------------------------------------
TypeOK == /\ mem \subseteq seen
          /\ it.valid \in BOOLEAN
          /\ it.direction \in {"forward", "reverse"}
          /\ it.m.direction \in {"forward", "reverse"}
          /\ it.m.current \in Children \union {None}

\* Through changes of direction, deletions, entries newer than the snapshot,
\* block boundaries and insertions by others, the iterator is where a cursor
\* over the snapshot would be; if it has skipped a block that cannot be read,
\* status() says so from then on.
ImplementsCursor == Cursor!Spec

\* Table::InternalGet finds the entry that a search of the whole table would
\* find, if that is of the user key: neither the shortened keys of the index
\* nor the filter hide one, and a damaged block is an error, never an entry
\* that seems to be missing.  (A Get has nothing to do with the iterator: it
\* is enough to look while that has not been moved.)
GetFinds ==
    it = NewIterator => \A i \in DOMAIN src : \A u \in User, s \in 0..Cardinality(seen) :
        LET target == InternalKey(u, s, "put")
            first == Least({k \in seen \ mem : ~KeyLess(k, target)})
            got == InternalGet(src[i], target)
        IN first # None /\ ExtractUserKey(first) = u /\ got.ok => got.found = first
=============================================================================
