---------------------------- MODULE TableFormat -----------------------------
(***************************************************************************)
(* LevelDB's table files: how they are built (table/block_builder.cc,      *)
(* table_builder.cc, filter_block.cc, util/bloom.cc, util/comparator.cc)   *)
(* and how they are read (table/block.cc, two_level_iterator.cc, table.cc, *)
(* format.cc).                                                             *)
(*                                                                         *)
(* A byte is a number; an internal key is the bytes of a user key and, as  *)
(* one more element, its tag (sequence number and type).  Positions in a   *)
(* block count entries; offsets in a file count bytes of keys, and a block *)
(* handle is an offset.  Iterators are records and their methods operators *)
(* from one record to the next.                                            *)
(***************************************************************************)
EXTENDS Integers, Sequences, FiniteSets, SequencesExt, TLC

CONSTANTS MaxByte,                \* 0xff
          block_restart_interval,
          kFilterBase,            \* 2048 in the code
          kBlockTrailerSize,      \* 5 in the code
          NoHandle, NoFilter

-----------------------------------------------------------------------------
(***************************************************************************)
(* Keys.                                                                   *)
(***************************************************************************)

TagBase == MaxByte + 1
kMaxSequenceNumber == 1000
PackSequenceAndType(seq, type) == TagBase + 2 * seq + (IF type = "put" THEN 1 ELSE 0)
InternalKey(user, seq, type) == Append(user, PackSequenceAndType(seq, type))
ExtractUserKey(k) == Front(k)
SequenceOf(k) == (Last(k) - TagBase) \div 2
TypeOf(k) == IF (Last(k) - TagBase) % 2 = 1 THEN "put" ELSE "del"

\* The length of the longest common prefix.
Common(a, b) == Max({n \in 0..Min({Len(a), Len(b)}) : SubSeq(a, 1, n) = SubSeq(b, 1, n)})

\* Slice::compare < 0 of sequences that differ at i, and of any; and
\* InternalKeyComparator::Compare < 0.
LessAt(u, v, i) == i <= Len(v) /\ (i > Len(u) \/ u[i] < v[i])
Less(u, v) == LessAt(u, v, Common(u, v) + 1)
KeyLess(a, b) == \/ Less(ExtractUserKey(a), ExtractUserKey(b))
                 \/ ExtractUserKey(a) = ExtractUserKey(b) /\ Last(a) > Last(b)

\* BytewiseComparatorImpl::FindShortestSeparator and FindShortSuccessor
ShortestSeparator(start, limit) ==
    LET i == Common(start, limit) + 1
    IN IF i <= Len(start) /\ i <= Len(limit) /\ start[i] < MaxByte /\ start[i] + 1 < limit[i]
       THEN Append(SubSeq(start, 1, i - 1), start[i] + 1)
       ELSE start
ShortSuccessor(key) ==
    LET free == {i \in DOMAIN key : key[i] # MaxByte}
    IN IF free = {} THEN key
       ELSE Append(SubSeq(key, 1, Min(free) - 1), key[Min(free)] + 1)

\* The same two of InternalKeyComparator: only a shorter user key is taken.
Shortened(key, user) ==
    IF Len(user) < Len(ExtractUserKey(key)) /\ Less(ExtractUserKey(key), user)
    THEN InternalKey(user, kMaxSequenceNumber, "put") ELSE key
FindShortestSeparator(start, limit) ==
    Shortened(start, ShortestSeparator(ExtractUserKey(start), ExtractUserKey(limit)))
FindShortSuccessor(key) == Shortened(key, ShortSuccessor(ExtractUserKey(key)))

-----------------------------------------------------------------------------
(***************************************************************************)
(* Building.                                                               *)
(***************************************************************************)

\* BlockBuilder: Add for each pair of a key and a value, then Finish.
BuildBlock(pairs, interval) ==
    LET isRestart(i) == (i - 1) % interval = 0
        shared(i) == IF isRestart(i) THEN 0 ELSE Common(pairs[i - 1][1], pairs[i][1])
    IN [entries |-> [i \in DOMAIN pairs |->
                       [shared |-> shared(i),
                        delta |-> SubSeq(pairs[i][1], shared(i) + 1, Len(pairs[i][1])),
                        value |-> pairs[i][2]]],
        restarts |-> <<1>> \o SelectSeq([i \in 1..Len(pairs) |-> i],
                                        LAMBDA i : i > 1 /\ isRestart(i))]

\* BloomFilterPolicy with two probes and a hash that knows collisions; the
\* filter is the set of its bits.
kBloomBits == 8
BloomHash(user) == FoldLeft(LAMBDA h, byte : (h * 3 + byte) % 64, 1, user)
Probes(user) == LET h == BloomHash(user)
                    delta == (h \div 8) + ((h % 8) * 8)
                IN {(h + j * delta) % kBloomBits : j \in 0..1}
CreateFilter(users) == UNION {Probes(u) : u \in users}

\* FilterBlockBuilder.  Keys are gathered until a block begins at or past
\* the next multiple of the base; the multiples in between get empty filters.
NewFilterBlock == [keys |-> {}, filters |-> <<>>]
GenerateFilter(f) == [keys |-> {}, filters |-> Append(f.filters, CreateFilter(f.keys))]
StartBlock(f, offset) ==
    LET more == (offset \div kFilterBase) - Len(f.filters)
    IN IF more <= 0 THEN f
       ELSE [keys |-> {}, filters |-> GenerateFilter(f).filters \o [i \in 1..more - 1 |-> {}]]
FinishFilter(f) == IF f.keys = {} THEN f.filters ELSE GenerateFilter(f).filters

\* TableBuilder::Rep.  blocks maps offsets in the file to what is there;
\* pending is the handle of the block whose index entry is still to come.
NewTableBuilder == [offset |-> 0, blocks |-> << >>, data |-> <<>>, index |-> <<>>,
                    pending |-> <<>>, filter |-> NewFilterBlock]

\* The bytes of a data block.
SizeOf(block) == FoldLeft(LAMBDA n, e : n + Len(e.delta) + Len(e.value), 0, block.entries)

WriteRawBlock(r, contents, size) ==
    [r EXCEPT !.blocks = @ @@ (r.offset :> contents),
              !.offset = @ + size + kBlockTrailerSize]

\* A data block, and the StartBlock of the filter at the offset after it.
WriteDataBlock(r, block) ==
    LET offset == r.offset + SizeOf(block) + kBlockTrailerSize
    IN [WriteRawBlock(r, block, SizeOf(block)) EXCEPT !.filter = StartBlock(@, offset)]

Flush(r) ==
    IF r.data = <<>> THEN r
    ELSE [WriteDataBlock(r, BuildBlock(r.data, block_restart_interval)) EXCEPT
             !.data = <<>>, !.pending = <<Last(r.data)[1], r.offset>>]

\* The index entry of the last block, once the next key is known.
AddIndexEntry(r, separator) ==
    IF r.pending = <<>> THEN r
    ELSE [r EXCEPT !.index = Append(@, <<separator, r.pending[2]>>), !.pending = <<>>]

\* The first part of Add: the index entry is written when a key follows the block.
BeforeAdd(r, key) ==
    AddIndexEntry(r, IF r.pending = <<>> THEN <<>>
                     ELSE FindShortestSeparator(r.pending[1], key))
FlushIf(full, r) == IF full THEN Flush(r) ELSE r

\* Mutated AddPair: a key goes into the filter after a full block is flushed.
AddPairLate(r, pair, full) ==
    [FlushIf(full, [BeforeAdd(r, pair[1]) EXCEPT !.data = Append(@, pair)])
        EXCEPT !.filter.keys = @ \union {ExtractUserKey(pair[1])}]

\* TableBuilder::Add; full: the data block has reached block_size.
AddPair(r, pair, full) ==
    FlushIf(full, [BeforeAdd(r, pair[1]) EXCEPT
                      !.data = Append(@, pair),
                      !.filter.keys = @ \union {ExtractUserKey(pair[1])}])

\* TableBuilder::Finish: the filter block, the metaindex block that has its
\* handle, the index block and the footer with the handles of these two.
Footer(r, index, metaindex) ==
    [blocks |-> WriteRawBlock(r, BuildBlock(r.index, 1), Len(r.index)).blocks,
     metaindex |-> metaindex, index |-> index]
AddLastEntry(r, metaindex) ==
    Footer(AddIndexEntry(r, IF r.pending = <<>> THEN <<>>
                            ELSE FindShortSuccessor(r.pending[1])),
           r.offset, metaindex)
FinishWithIndex(r, filterHandle) ==
    AddLastEntry(WriteRawBlock(r, filterHandle, 1), r.offset)
FinishWithFilter(r, filters) ==
    FinishWithIndex(WriteRawBlock(r, filters, Len(filters)), r.offset)
Finish(r) == LET flushed == Flush(r) IN FinishWithFilter(flushed, FinishFilter(flushed.filter))

\* A table of some pairs, with a Flush after each position of cuts.
BuildTable(pairs, cuts) ==
    Finish(FoldLeft(LAMBDA r, i : AddPair(r, pairs[i], i \in cuts), NewTableBuilder,
                    [i \in DOMAIN pairs |-> i]))

-----------------------------------------------------------------------------
(***************************************************************************)
(* Opening.  bad are the offsets of the blocks that cannot be read, or     *)
(* whose checksum is found wrong.                                          *)
(***************************************************************************)

ReadBlock(file, bad, handle) == [ok |-> handle \notin bad, block |-> file.blocks[handle]]

\* Table::ReadMeta and ReadFilter: without a filter the table works as well.
ReadFilter(file, bad) ==
    LET meta == ReadBlock(file, bad, file.metaindex)
        filter == ReadBlock(file, bad, meta.block)
    IN IF meta.ok /\ filter.ok THEN filter.block ELSE NoFilter

\* Table::Open; a table that cannot be opened yields error iterators.
Open(file, bad) ==
    LET index == ReadBlock(file, bad, file.index)
        data == {h \in DOMAIN file.blocks : h < file.blocks[file.metaindex]}
    IN [ok |-> index.ok,
        index |-> IF index.ok THEN index.block ELSE BuildBlock(<<>>, 1),
        filter |-> ReadFilter(file, bad),
        data |-> [h \in data |-> file.blocks[h]], bad |-> bad \intersect data]

-----------------------------------------------------------------------------
(***************************************************************************)
(* Block::Iter.  current is the entry's number, past the last if invalid;  *)
(* next is where ParseNextKey goes on.                                     *)
(***************************************************************************)

NumRestarts(b) == Len(b.restarts)
GetRestartPoint(b, i) == b.restarts[i + 1]
Invalid(b, it) == [it EXCEPT !.current = Len(b.entries) + 1, !.restart = NumRestarts(b)]

NewBlockIter(b) == [current |-> Len(b.entries) + 1, restart |-> NumRestarts(b),
                    key |-> <<>>, next |-> Len(b.entries) + 1]
BlockValid(b, it) == it.current <= Len(b.entries)
BlockValue(b, it) == b.entries[it.current].value

ParseNextKey(b, it) ==
    IF it.next > Len(b.entries) THEN Invalid(b, it)
    ELSE LET e == b.entries[it.next]
         IN [current |-> it.next,
             key |-> SubSeq(it.key, 1, e.shared) \o e.delta,
             restart |-> Max({it.restart} \union
                             {r \in it.restart..NumRestarts(b) - 1 :
                                 GetRestartPoint(b, r) < it.next}),
             next |-> it.next + 1]

SeekToRestartPoint(b, it, i) ==
    [it EXCEPT !.key = <<>>, !.restart = i, !.next = GetRestartPoint(b, i)]

\* ParseNextKey, once and then until the end of the entry reaches stop.
ParseUntil(b, it, stop) ==
    LET again(p) == IF ~BlockValid(b, p) \/ p.next >= stop THEN p ELSE ParseNextKey(b, p)
        parse[n \in 0..Len(b.entries)] ==
            IF n = 0 THEN ParseNextKey(b, it) ELSE again(parse[n - 1])
    IN parse[Len(b.entries)]

BlockNext(b, it) == ParseNextKey(b, it)

BlockPrev(b, it) ==
    LET before == {r \in 0..it.restart : GetRestartPoint(b, r) < it.current}
    IN IF before = {} THEN Invalid(b, it)
       ELSE ParseUntil(b, SeekToRestartPoint(b, it, Max(before)), it.current)

\* The linear search: ParseNextKey, once and then until the key is not before the target.
BlockScan(b, it, target) ==
    LET again(p) == IF ~BlockValid(b, p) \/ ~KeyLess(p.key, target) THEN p
                    ELSE ParseNextKey(b, p)
        parse[n \in 0..Len(b.entries)] ==
            IF n = 0 THEN ParseNextKey(b, it) ELSE again(parse[n - 1])
    IN parse[Len(b.entries)]

\* The binary search over the restart points, and the linear one from there.
BlockSeek(b, it, target) ==
    LET search[left \in 0..NumRestarts(b), right \in -1..NumRestarts(b)] ==
            IF left >= right THEN left
            ELSE LET mid == (left + right + 1) \div 2
                 IN IF KeyLess(b.entries[GetRestartPoint(b, mid)].delta, target)
                    THEN search[mid, right] ELSE search[left, mid - 1]
    IN BlockScan(b, SeekToRestartPoint(b, it, search[0, NumRestarts(b) - 1]), target)

BlockSeekToFirst(b, it) == ParseNextKey(b, SeekToRestartPoint(b, it, 0))
BlockSeekToLast(b, it) ==
    ParseUntil(b, SeekToRestartPoint(b, it, NumRestarts(b) - 1), Len(b.entries) + 1)

\* The methods of an iterator.
ToFirst == [to |-> "first", target |-> <<>>]
ToLast == [to |-> "last", target |-> <<>>]
ToNext == [to |-> "next", target |-> <<>>]
ToPrev == [to |-> "prev", target |-> <<>>]
SeekTo(target) == [to |-> "seek", target |-> target]

BlockMove(b, it, how) ==
    CASE how.to = "first" -> BlockSeekToFirst(b, it)
      [] how.to = "last" -> BlockSeekToLast(b, it)
      [] how.to = "next" -> BlockNext(b, it)
      [] how.to = "prev" -> BlockPrev(b, it)
      [] how.to = "seek" -> BlockSeek(b, it, how.target)

-----------------------------------------------------------------------------
(***************************************************************************)
(* TwoLevelIterator over the index block and the data blocks of a table.   *)
(* handle is that of data_iter_, NoHandle when that is null; a block       *)
(* that cannot be read yields an iterator that is never valid.  err is     *)
(* ~status_.ok().                                                          *)
(***************************************************************************)

NewTableIter(t) == [index |-> NewBlockIter(t.index), handle |-> NoHandle,
                    data |-> NewBlockIter(t.index), err |-> FALSE]
TableValid(t, it) == /\ it.handle # NoHandle /\ it.handle \notin t.bad
                     /\ BlockValid(t.data[it.handle], it.data)
TableKey(t, it) == it.data.key
TableStatusOk(t, it) == t.ok /\ ~it.err /\ it.handle \notin t.bad

SetDataIterator(t, it, h) ==
    [it EXCEPT !.err = @ \/ it.handle \in t.bad, !.handle = h,
               !.data = IF h = NoHandle THEN @ ELSE NewBlockIter(t.data[h])]

InitDataBlock(t, it) ==
    IF ~BlockValid(t.index, it.index) THEN SetDataIterator(t, it, NoHandle)
    ELSE LET h == BlockValue(t.index, it.index)
         IN IF it.handle = h THEN it ELSE SetDataIterator(t, it, h)

\* A method of the data iterator; nothing if that is null or an error.
OnData(t, it, how) ==
    IF it.handle = NoHandle \/ it.handle \in t.bad THEN it
    ELSE [it EXCEPT !.data = BlockMove(t.data[it.handle], @, how)]

\* SkipEmptyDataBlocksForward and SkipEmptyDataBlocksBackward: how moves the
\* index iterator, and enter the data iterator of the block that it gets to.
SkipEmptyDataBlock(t, it, how, enter) ==
    IF TableValid(t, it) THEN it
    ELSE IF ~BlockValid(t.index, it.index) THEN SetDataIterator(t, it, NoHandle)
    ELSE OnData(t, InitDataBlock(t, [it EXCEPT !.index = BlockMove(t.index, @, how)]), enter)
SkipEmptyDataBlocks(t, it, how, enter) ==
    LET after[n \in 0..Len(t.index.entries) + 1] ==
            IF n = 0 THEN it ELSE SkipEmptyDataBlock(t, after[n - 1], how, enter)
    IN after[Len(t.index.entries) + 1]

\* The methods.  Next and Prev leave the index iterator where it is.
TableMove(t, it, how) ==
    LET moved == IF how \in {ToNext, ToPrev} THEN it
                 ELSE InitDataBlock(t, [it EXCEPT !.index = BlockMove(t.index, @, how)])
        back == how \in {ToLast, ToPrev}
    IN SkipEmptyDataBlocks(t, OnData(t, moved, how), IF back THEN ToPrev ELSE ToNext,
                           IF back THEN ToLast ELSE ToFirst)

-----------------------------------------------------------------------------
\* FilterBlockReader::KeyMayMatch for the data block at offset h; out of
\* range is a match, an empty filter is none.
KeyMayMatch(filters, h, user) ==
    LET index == h \div kFilterBase + 1
    IN index \in DOMAIN filters => Probes(user) \subseteq filters[index]

\* The parts of InternalGet: it is the iterator of the block; h is the
\* block's handle; i is the iterator of the index.
GetInBlock(b, it) == [ok |-> TRUE, found |-> IF BlockValid(b, it) THEN it.key ELSE <<>>]
GetAt(t, k, h) ==
    IF t.filter # NoFilter /\ ~KeyMayMatch(t.filter, h, ExtractUserKey(k))
    THEN [ok |-> TRUE, found |-> <<>>]
    ELSE IF h \in t.bad THEN [ok |-> FALSE, found |-> <<>>]
    ELSE GetInBlock(t.data[h], BlockSeek(t.data[h], NewBlockIter(t.data[h]), k))
GetAtIndex(t, k, i) ==
    IF ~BlockValid(t.index, i) THEN [ok |-> TRUE, found |-> <<>>]
    ELSE GetAt(t, k, BlockValue(t.index, i))

\* Table::InternalGet: its status, and the key of the entry that it hands to
\* handle_result, <<>> if none.
InternalGet(t, k) ==
    IF ~t.ok THEN [ok |-> FALSE, found |-> <<>>]
    ELSE GetAtIndex(t, k, BlockSeek(t.index, NewBlockIter(t.index), k))
=============================================================================
