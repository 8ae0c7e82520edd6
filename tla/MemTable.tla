------------------------------ MODULE MemTable ------------------------------
(***************************************************************************)
(* A memtable (db/memtable.cc): a skip list (db/skiplist.h) in the memory  *)
(* of an arena (util/arena.cc).  One writer inserts, link by link, while   *)
(* readers search without any lock; the memtable is deleted when the       *)
(* database and the last reader have dropped it.                           *)
(*                                                                         *)
(* Nodes are numbered in the order of their insertion, which is that of    *)
(* the sequence numbers; 0 is head_.  A step of a reader is one load of a  *)
(* link.  The links of a new node hold garbage until they are set.         *)
(***************************************************************************)
EXTENDS Integers, Sequences, FiniteSets, FiniteSetsExt

CONSTANTS UserKey,     \* integers in comparator order
          MaxSeq,      \* bound on the entries
          kMaxHeight,  \* 12 in the code
          Reader,
          Size,        \* type -> length of an encoded entry
          kBlockSize,  \* of the arena, 4096 in the code
          kAlign,      \* 8 in the code
          kLink,       \* bytes of a pointer
          Nil, Garbage

ASSUME MemTableAssumption ==
    /\ UserKey \subseteq Int /\ MaxSeq \in Nat /\ kMaxHeight \in Nat \ {0}
    /\ Size \in [{"put", "del"} -> Nat \ {0}] /\ {kBlockSize, kAlign, kLink} \subseteq Nat \ {0}
    /\ kLink % kAlign = 0 /\ kBlockSize % kAlign = 0
    /\ IsFiniteSet(Reader) /\ Garbage \notin Int \union {Nil}
    /\ Nil \notin Int \union [key : Int, seq : Nat, type : {"put", "del"}]

VARIABLES keys,         \* the entry of each node: [key, seq, type]
          next_,        \* node -> level -> node; the height is the number of levels
          max_height_,
          heights,      \* the values that max_height_ has had
          insert,       \* the insertion in progress: [prev, level, set]
          left,         \* entries of the batch that are still to be added
          lastSequence, \* last_sequence_: the batches that are visible
          arena,        \* the block that is allocated from, alloc_ptr_ in it, the
                        \* bytes remaining there, memory_usage_, number of blocks
          chunks,       \* every allocation: [block, from, to, size, node]
          refs_,        \* 0: the memtable is deleted
          held,         \* the database still has its reference
          asOf,         \* reader -> the sequence number it reads at, Nil for
                        \* one that has no reference
          node_,        \* reader -> position of its iterator, Nil if not Valid
          search        \* reader -> the search in progress, or Idle

list == <<keys, next_, max_height_, heights>>
memory == <<arena, chunks>>
owners == <<refs_, held>>
readers == <<asOf, node_, search>>
vars == <<list, insert, left, lastSequence, memory, owners, readers>>

head_ == 0
Level == 0..(kMaxHeight - 1)
Idle == [op |-> "idle", target |-> Nil, x |-> head_, level |-> 0, before |-> {}]
NoInsert == [prev |-> << >>, level |-> 0, set |-> FALSE]

\* InternalKeyComparator, by user key and then by falling packed number.
Tag(e) == e.seq * 2 + (IF e.type = "put" THEN 1 ELSE 0)
\* Mutated Less: the older entry of a user key comes first.
LessOldestFirst(a, b) == a.key < b.key \/ (a.key = b.key /\ Tag(a) < Tag(b))

Less(a, b) == a.key < b.key \/ (a.key = b.key /\ Tag(a) > Tag(b))

-----------------------------------------------------------------------------
(***************************************************************************)
(* Arena.  The results are [a, c]: the arena, and the chunk allocated.     *)
(***************************************************************************)

Chunk(b, p, n, size, isNode) ==
    [block |-> b, from |-> p, to |-> p + n, size |-> size, node |-> isNode]

\* A large object gets a block of its own; otherwise the rest of the block
\* in use is wasted.  Blocks are numbered in the order of allocation.
AllocateFallback(a, n, isNode) ==
    IF n > kBlockSize \div 4
    THEN [a |-> [a EXCEPT !.usage = @ + n + kLink, !.blocks = @ + 1],
          c |-> Chunk(a.blocks + 1, 0, n, n, isNode)]
    ELSE [a |-> [block |-> a.blocks + 1, ptr |-> n, remaining |-> kBlockSize - n,
                 usage |-> a.usage + kBlockSize + kLink, blocks |-> a.blocks + 1],
          c |-> Chunk(a.blocks + 1, 0, n, kBlockSize, isNode)]

Allocate(a, n) ==
    IF n <= a.remaining
    THEN [a |-> [a EXCEPT !.ptr = @ + n, !.remaining = @ - n],
          c |-> Chunk(a.block, a.ptr, n, kBlockSize, FALSE)]
    ELSE AllocateFallback(a, n, FALSE)

\* Mutated AllocateAligned: the slop is not taken from what remains.
AllocateAlignedSlop(a, n) ==
    LET mod == a.ptr % kAlign
        slop == IF mod = 0 THEN 0 ELSE kAlign - mod
    IN IF n <= a.remaining
       THEN [a |-> [a EXCEPT !.ptr = @ + n + slop, !.remaining = @ - n],
             c |-> Chunk(a.block, a.ptr + slop, n, kBlockSize, TRUE)]
       ELSE AllocateFallback(a, n, TRUE)

AllocateAligned(a, n) ==
    LET mod == a.ptr % kAlign
        slop == IF mod = 0 THEN 0 ELSE kAlign - mod
    IN IF n + slop <= a.remaining
       THEN [a |-> [a EXCEPT !.ptr = @ + n + slop, !.remaining = @ - n - slop],
             c |-> Chunk(a.block, a.ptr + slop, n, kBlockSize, TRUE)]
       ELSE AllocateFallback(a, n, TRUE)

NewNode(a, height) == AllocateAligned(a, kLink * (1 + height))

-----------------------------------------------------------------------------
\* The constructor allocates head_ and clears its links.
Init ==
    /\ keys = <<>>
    /\ next_ = [n \in {head_} |-> [l \in Level |-> Nil]]
    /\ max_height_ = 1 /\ heights = {1}
    /\ insert = NoInsert /\ left = 0 /\ lastSequence = 0
    /\ LET r == NewNode([block |-> 0, ptr |-> 0, remaining |-> 0, usage |-> 0,
                         blocks |-> 0], kMaxHeight)
       IN arena = r.a /\ chunks = {r.c}
    /\ refs_ = 1 /\ held = TRUE
    /\ asOf = [r \in Reader |-> Nil] /\ node_ = asOf /\ search = [r \in Reader |-> Idle]

\* Mutated KeyIsAfterNode: an equal key counts as after the node.
KeyIsNotBeforeNode(e, n) == n # Nil /\ ~Less(e, keys[n])

\* KeyIsAfterNode: null n is considered infinite.
KeyIsAfterNode(e, n) == n # Nil /\ Less(keys[n], e)

\* FindGreaterOrEqual by the writer, which nobody disturbs, leaves at each
\* level up to max_height_ a node before e whose next node is not before e.
FindGreaterOrEqual(e, prev) ==
    \A l \in 0..(max_height_ - 1) :
        /\ prev[l] # head_ => Less(keys[prev[l]], e)
        /\ l \in DOMAIN next_[prev[l]]
        /\ ~KeyIsAfterNode(e, next_[prev[l]][l])

\* WriteBatchInternal::InsertInto begins with a batch of n entries.
InsertInto(n) ==
    /\ held /\ left = 0 /\ Len(keys) + n <= MaxSeq
    /\ lastSequence = Len(keys)
    /\ left' = n
    /\ UNCHANGED <<list, insert, lastSequence, memory, owners, readers>>

\* MemTable::Add: the entry is encoded into a new buffer, and Insert finds
\* the nodes before it, raises max_height_ and allocates the node.
Add(k, type, height) ==
    /\ left > 0 /\ insert = NoInsert
    /\ max_height_' = Max({height, max_height_})
    /\ LET e == [key |-> k, seq |-> Len(keys) + 1, type |-> type]
           buf == Allocate(arena, Size[type])
           node == NewNode(buf.a, height)
       IN /\ keys' = Append(keys, e)
          /\ next_' = [n \in DOMAIN next_ \union {e.seq} |->
                         IF n = e.seq THEN [l \in 0..(height - 1) |-> Garbage] ELSE next_[n]]
          /\ \E prev \in [0..(max_height_' - 1) -> DOMAIN next_] :
                /\ FindGreaterOrEqual(e, prev)
                /\ \A l \in max_height_..(height - 1) : prev[l] = head_
                /\ insert' = [prev |-> prev, level |-> 0, set |-> FALSE]
          /\ arena' = node.a /\ chunks' = chunks \union {buf.c, node.c}
    /\ heights' = heights \union {max_height_'}
    /\ left' = left - 1
    /\ UNCHANGED <<lastSequence, owners, readers>>

New == Len(keys)

\* x->NoBarrier_SetNext(i, prev[i]->NoBarrier_Next(i))
SetNext ==
    /\ insert # NoInsert /\ ~insert.set
    /\ LET i == insert.level
       IN next_' = [next_ EXCEPT ![New][i] = next_[insert.prev[i]][i]]
    /\ insert' = [insert EXCEPT !.set = TRUE]
    /\ UNCHANGED <<keys, max_height_, heights, left, lastSequence, memory, owners, readers>>

\* prev[i]->SetNext(i, x) publishes the node at this level.  After the last
\* entry of the batch the writer sets the last sequence.
Publish ==
    /\ insert # NoInsert /\ insert.set
    /\ LET i == insert.level
           last == i + 1 = Cardinality(DOMAIN next_[New])
       IN /\ next_' = [next_ EXCEPT ![insert.prev[i]][i] = New]
          /\ insert' = IF last THEN NoInsert
                       ELSE [insert EXCEPT !.level = i + 1, !.set = FALSE]
          /\ lastSequence' = IF last /\ left = 0 THEN New ELSE lastSequence
    /\ UNCHANGED <<keys, max_height_, heights, left, memory, owners, readers>>

-----------------------------------------------------------------------------
(***************************************************************************)
(* Readers.                                                                *)
(***************************************************************************)

\* The nodes that are in the list: those linked at level 0.
Linked == {n \in 1..Len(keys) : \E m \in DOMAIN next_ : next_[m][0] = n}

\* A search begins at head_, at a height that may be stale.
Begin(r, op, target) ==
    \E h \in heights :
        search' = [search EXCEPT ![r] = [op |-> op, target |-> target, x |-> head_,
                                         level |-> h - 1, before |-> Linked]]

\* Mutated Ref: the reference is not counted.
RefUncounted(r) ==
    /\ held /\ asOf[r] = Nil
    /\ asOf' = [asOf EXCEPT ![r] = lastSequence]
    /\ UNCHANGED <<list, insert, left, lastSequence, memory, owners, node_, search>>

\* DBImpl::Get or NewIterator takes a reference, and the sequence number that
\* is current now.
Ref(r) ==
    /\ held /\ asOf[r] = Nil
    /\ refs_' = refs_ + 1
    /\ asOf' = [asOf EXCEPT ![r] = lastSequence]
    /\ UNCHANGED <<list, insert, left, lastSequence, memory, held, node_, search>>

Ready(r) == asOf[r] # Nil /\ search[r].op = "idle"

\* MemTable::Get, and an iterator's Seek to a user key.
Seek(r, k) ==
    /\ Ready(r)
    /\ Begin(r, "seek", [key |-> k, seq |-> asOf[r], type |-> "put"])
    /\ UNCHANGED <<list, insert, left, lastSequence, memory, owners, asOf, node_>>

SeekToLast(r) ==
    /\ Ready(r)
    /\ Begin(r, "last", Nil)
    /\ UNCHANGED <<list, insert, left, lastSequence, memory, owners, asOf, node_>>

\* Iterator::Prev searches for the node before the current one.
PrevOf(r) ==
    /\ Ready(r) /\ node_[r] # Nil
    /\ Begin(r, "less", keys[node_[r]])
    /\ UNCHANGED <<list, insert, left, lastSequence, memory, owners, asOf, node_>>

\* Iterator::Next follows one link, SeekToFirst that of head_.
NextFrom(r, x) ==
    /\ Ready(r) /\ x \in {head_, node_[r]} \ {Nil}
    /\ search' = [search EXCEPT ![r] =
                     [op |-> "next", target |-> IF x = head_ THEN Nil ELSE keys[x],
                      x |-> x, level |-> 0, before |-> Linked]]
    /\ UNCHANGED <<list, insert, left, lastSequence, memory, owners, asOf, node_>>

\* One turn of the loop of FindGreaterOrEqual, FindLessThan or FindLast: on
\* to the next node, down a level, or done.
Step(r) ==
    /\ search[r].op # "idle"
    /\ LET s == search[r]
           next == next_[s.x][s.level]
           on == CASE s.op = "next" -> FALSE
                   [] s.op = "last" -> next # Nil
                   [] OTHER -> KeyIsAfterNode(s.target, next)
           found == IF s.op \in {"seek", "next"} THEN next
                    ELSE IF s.x = head_ THEN Nil ELSE s.x
       IN IF on THEN /\ search' = [search EXCEPT ![r].x = next]
                     /\ UNCHANGED node_
          ELSE IF s.level > 0 THEN /\ search' = [search EXCEPT ![r].level = s.level - 1]
                                   /\ UNCHANGED node_
          ELSE /\ node_' = [node_ EXCEPT ![r] = found]
               /\ search' = [search EXCEPT ![r] = Idle]
    /\ UNCHANGED <<list, insert, left, lastSequence, memory, owners, asOf>>

\* The reader is done with the memtable.  MemTable::Unref by the last owner
\* deletes it, with the arena.
Unref(r) ==
    /\ Ready(r)
    /\ refs_' = refs_ - 1
    /\ asOf' = [asOf EXCEPT ![r] = Nil] /\ node_' = [node_ EXCEPT ![r] = Nil]
    /\ UNCHANGED <<list, insert, left, lastSequence, memory, held, search>>

\* The memtable has become a table: CompactMemTable drops it.
Drop ==
    /\ held /\ left = 0 /\ insert = NoInsert
    /\ held' = FALSE /\ refs_' = refs_ - 1
    /\ UNCHANGED <<list, insert, left, lastSequence, memory, readers>>

Next ==
    \/ \E n \in 1..2 : InsertInto(n)
    \/ \E k \in UserKey, type \in {"put", "del"}, h \in 1..kMaxHeight : Add(k, type, h)
    \/ SetNext
    \/ Publish
    \/ \E r \in Reader : \/ Ref(r)
                         \/ \E k \in UserKey : Seek(r, k)
                         \/ SeekToLast(r) \/ PrevOf(r)
                         \/ \E x \in DOMAIN next_ : NextFrom(r, x)
                         \/ Step(r) \/ Unref(r)
    \/ Drop

Spec == Init /\ [][Next]_vars

-----------------------------------------------------------------------------
Entry == [key : UserKey, seq : 1..MaxSeq, type : {"put", "del"}]

TypeOK ==
    /\ \A i \in DOMAIN keys : keys[i] \in Entry
    /\ DOMAIN next_ = 0..Len(keys)
    /\ \A n \in DOMAIN next_ : \A l \in DOMAIN next_[n] :
          next_[n][l] \in 1..Len(keys) \union {Nil, Garbage}
    /\ max_height_ \in heights /\ heights \subseteq 1..kMaxHeight
    /\ left \in 0..2 /\ lastSequence \in 0..MaxSeq
    /\ refs_ \in 0..(Cardinality(Reader) + 1) /\ held \in BOOLEAN
    /\ asOf \in [Reader -> 0..MaxSeq \union {Nil}]
    /\ node_ \in [Reader -> 1..Len(keys) \union {Nil}]

\* "Use a 'release store' so that anybody who reads through this pointer
\* observes a fully initialized version": the next load of a reader is that
\* of a link which its node has and which was set, in a memtable that is not
\* deleted.
LoadsValid ==
    \A r \in Reader : asOf[r] # Nil =>
        /\ refs_ > 0
        /\ LET s == search[r]
           IN s.op # "idle" => /\ s.level \in DOMAIN next_[s.x]
                               /\ next_[s.x][s.level] # Garbage

\* A search s ends at node n: that is on the right side of the target, and
\* nothing that was in the list when it began lies between the two.
EndsRight(s, n) ==
    LET past(e) == s.target = Nil \/ Less(s.target, e)   \* strictly after it
    IN CASE s.op = "seek" -> /\ n # Nil => ~Less(keys[n], s.target)
                             /\ \A m \in s.before : ~Less(keys[m], s.target) =>
                                   n # Nil /\ ~Less(keys[m], keys[n])
         [] s.op = "next" -> /\ n # Nil => past(keys[n])
                             /\ \A m \in s.before : past(keys[m]) =>
                                   n # Nil /\ ~Less(keys[m], keys[n])
         [] s.op = "less" -> /\ n # Nil => Less(keys[n], s.target)
                             /\ \A m \in s.before : Less(keys[m], s.target) =>
                                   n # Nil /\ ~Less(keys[n], keys[m])
         [] s.op = "last" -> \A m \in s.before : n # Nil /\ ~Less(keys[n], keys[m])

\* A search that overlaps insertions is as good as one at some moment.
SearchesRight ==
    [][\A r \in Reader : search[r].op # "idle" /\ search'[r].op = "idle" =>
          EndsRight(search[r], node_'[r])]_vars

\* Node n is what a get of key k as of sequence number seq is to find: the
\* newest entry of the key that is no newer than seq, or none of that key.
FindsAsOf(k, seq, n) ==
    LET older == {i \in 1..seq : keys[i].key = k}
        hit == n # Nil /\ keys[n].key = k
    IN IF older = {} THEN ~hit ELSE hit /\ n = Max(older)

\* MemTable::Get finds the newest entry of the key as of its sequence
\* number, whatever is inserted meanwhile; it compares user keys only.
GetsAsOf ==
    [][\A r \in Reader : search[r].op = "seek" /\ search'[r].op = "idle" =>
          FindsAsOf(search[r].target.key, asOf[r], node_'[r])]_vars

\* Allocations lie within their blocks and apart from each other, and nodes
\* are aligned.
ChunksFit ==
    /\ \A c \in chunks : /\ 0 <= c.from /\ c.to <= c.size
                         /\ c.node => c.from % kAlign = 0
    /\ \A c, d \in chunks : c # d /\ c.block = d.block => c.to <= d.from \/ d.to <= c.from
    /\ Cardinality(chunks) = 1 + 2 * Len(keys)

\* The bytes of the blocks that chunks cs lie in, with the pointer that
\* blocks_ keeps of each: (block, number of the byte).
Taken(cs) == UNION {{c.block} \X (1..(c.size + kLink)) : c \in cs}

\* The arena's chunks fit, those of a block agree on its size, and
\* memory_usage_ is what the blocks take.
ChunksApart ==
    /\ ChunksFit
    /\ \A c, d \in chunks : c.block = d.block => c.size = d.size
    /\ arena.usage = Cardinality(Taken(chunks))

-----------------------------------------------------------------------------
(***************************************************************************)
(* The inductive invariant behind LoadsValid, SearchesRight and GetsAsOf.  *)
(***************************************************************************)

Inserting == insert # NoInsert

\* What a link may hold, and the links of one node.
Link == 1..Len(keys) \union {Nil, Garbage}
Links == UNION {[0..(h - 1) -> Link] : h \in 1..kMaxHeight}

ListTypes ==
    /\ keys \in Seq([key : Int, seq : Nat, type : {"put", "del"}])
    /\ \A i \in 1..Len(keys) : keys[i].seq = i
    /\ next_ \in [0..Len(keys) -> Links] /\ DOMAIN next_[head_] = Level
    /\ max_height_ \in heights /\ heights \subseteq 1..kMaxHeight

\* Links that are not set are those of the new node, from the level on that
\* the writer has come to.
UnsetAbove ==
    \A n \in 0..Len(keys) : \A l \in DOMAIN next_[n] : next_[n][l] = Garbage <=>
        /\ Inserting /\ n = New
        /\ l > insert.level \/ (l = insert.level /\ ~insert.set)

\* A link leads to a node that has a link of its own at that level, set, and
\* that is in the list.
LinksLead ==
    \A n \in 0..Len(keys) : \A l \in DOMAIN next_[n] : next_[n][l] \in 1..Len(keys) =>
        LET m == next_[n][l]
        IN l \in DOMAIN next_[m] /\ next_[m][l] # Garbage /\ m \in Linked

\* Where the writer is.
InsertAt ==
    Inserting =>
        /\ insert = [prev |-> insert.prev, level |-> insert.level, set |-> insert.set]
        /\ New \in Nat \ {0} /\ insert.set \in BOOLEAN
        /\ insert.level \in DOMAIN next_[New]
        /\ \A l \in DOMAIN next_[New] : /\ insert.prev[l] \in 0..(New - 1)
                                        /\ l \in DOMAIN next_[insert.prev[l]]

\* At level 0 it is about to link the new node in its place.
InsertPlace ==
    Inserting /\ insert.level = 0 =>
        LET p == insert.prev[0]
        IN /\ New \notin Linked
           /\ p = head_ \/ Less(keys[p], keys[New])
           /\ ~KeyIsAfterNode(keys[New], next_[p][0])
           /\ insert.set => next_[New][0] = next_[p][0]

\* Every entry is in the list, but for the new one until it is linked.
AllLinked ==
    \A n \in 1..Len(keys) : n \in Linked \/ (Inserting /\ n = New /\ insert.level = 0)

\* At level 0 the links go upwards and leave out nothing that is in the list.
Sorted ==
    \A x \in Linked \union {head_} :
        /\ next_[x][0] # Nil => x = head_ \/ Less(keys[x], keys[next_[x][0]])
        /\ \A y \in Linked : x = head_ \/ Less(keys[x], keys[y]) =>
              next_[x][0] # Nil /\ ~Less(keys[y], keys[next_[x][0]])

ListInv ==
    /\ ListTypes /\ UnsetAbove /\ LinksLead /\ InsertAt /\ InsertPlace
    /\ AllLinked /\ Sorted

SearchFields == {"op", "target", "x", "level", "before"}

\* The position of a search: a node in the list that is before the target.
SearchAt(s) ==
    /\ s.x \in Linked \union {head_}
    /\ s.level \in DOMAIN next_[s.x] /\ next_[s.x][s.level] # Garbage
    /\ s.before \subseteq Linked
    /\ s.op \in {"seek", "less", "next", "last"}
    /\ s.op \in {"seek", "less"} => /\ s.target \in [key : Int, seq : Nat, type : {"put", "del"}]
                                    /\ s.x = head_ \/ Less(keys[s.x], s.target)
    /\ s.op = "next" => s.level = 0 /\ s.target = IF s.x = head_ THEN Nil ELSE keys[s.x]

ReadersInv ==
    /\ asOf \in [Reader -> Nat \union {Nil}] /\ DOMAIN search = Reader /\ DOMAIN node_ = Reader
    /\ \A r \in Reader :
          /\ DOMAIN search[r] = SearchFields
          /\ node_[r] # Nil => node_[r] \in Linked
          /\ search[r].op # "idle" => asOf[r] # Nil /\ SearchAt(search[r])
          /\ asOf[r] # Nil => asOf[r] <= lastSequence
          /\ search[r].op = "seek" =>
                /\ search[r].target.seq = asOf[r] /\ search[r].target.type = "put"
                /\ 1..asOf[r] \subseteq search[r].before

\* What is visible is in the list; a reference is counted once.
SequenceInv ==
    /\ lastSequence \in 0..Len(keys)
    /\ Inserting => lastSequence < Len(keys)

RefsInv ==
    /\ held \in BOOLEAN
    /\ refs_ = Cardinality({r \in Reader : asOf[r] # Nil}) + (IF held THEN 1 ELSE 0)

MemTableInv == ListInv /\ ReadersInv /\ SequenceInv /\ RefsInv

(***************************************************************************)
(* The inductive invariant behind ChunksApart.                             *)
(***************************************************************************)

\* What is left of the block in use lies within it.
ArenaFields(a) ==
    /\ a \in [block : Nat, ptr : Nat, remaining : Nat, usage : Nat, blocks : Nat]
    /\ a.block <= a.blocks /\ a.ptr + a.remaining <= kBlockSize

\* A chunk of arena a: what is left of the block in use comes after it.
ChunkOf(a, c) ==
    /\ c \in [block : Nat, from : Nat, to : Nat, size : Nat, node : BOOLEAN]
    /\ c.block <= a.blocks /\ c.from < c.to /\ c.to <= c.size
    /\ c.node => c.from % kAlign = 0
    /\ c.block = a.block => c.to <= a.ptr

Apart(c, d) == c.block = d.block => c.to <= d.from \/ d.to <= c.from

\* cs are chunks of arena a, and no two of them overlap.
ArenaHolds(a, cs) ==
    /\ ArenaFields(a) /\ IsFiniteSet(cs)
    /\ \A c \in cs : ChunkOf(a, c)
    /\ \A c, d \in cs : c # d => Apart(c, d)

\* The usage of arena a is what the blocks of chunks cs take.  A block that
\* is allocated from already has a chunk, so it is counted.
UsageExact(a, cs) ==
    /\ IsFiniteSet(Taken(cs)) /\ a.usage = Cardinality(Taken(cs))
    /\ \A c, d \in cs : c.block = d.block => c.size = d.size
    /\ a.block = 0 => a.remaining = 0
    /\ a.block # 0 => \E c \in cs : c.block = a.block /\ c.size = kBlockSize

ArenaInv ==
    /\ ArenaHolds(arena, chunks) /\ UsageExact(arena, chunks)
    /\ keys \in Seq([key : Int, seq : Nat, type : {"put", "del"}])
    /\ Cardinality(chunks) = 1 + 2 * Len(keys)
=============================================================================
