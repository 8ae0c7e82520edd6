----------------------------- MODULE LogFormat ------------------------------
(***************************************************************************)
(* The record format of LevelDB's logs and MANIFESTs (db/log_format.h,     *)
(* log_writer.cc, log_reader.cc): a file is a sequence of blocks, a record *)
(* is cut into fragments that do not cross a block, and a reader finds its *)
(* feet again after damage.                                                *)
(*                                                                         *)
(* A file is a sequence of cells, the unit of writing.  A header's cells   *)
(* carry the fragment's type and, for the checksum, its contents: a header *)
(* is intact when its cells follow one another, and its checksum matches   *)
(* when the contents follow.  Any other cells taken for a header fail the  *)
(* check of the length or of the checksum; both drop the rest of a block.  *)
(***************************************************************************)
EXTENDS Integers, Sequences, SequencesExt

CONSTANTS kBlockSize,   \* 32768 in the code
          kHeaderSize   \* 7 in the code

ASSUME BlockAssumption == /\ kHeaderSize \in Nat \ {0}
                          /\ kBlockSize \in Nat /\ kBlockSize > kHeaderSize

\* A cell: the i-th of a header, one of a payload (i = 0), or of a trailer.
HeaderCell(type, data, i) == [type |-> type, data |-> data, i |-> i]
DataCell(x) == [type |-> "data", data |-> x, i |-> 0]
ZeroCell == [type |-> "zero", data |-> <<>>, i |-> 0]

\* Mutated EmitPhysicalRecord: the trailer of a block is not filled.
EmitPhysicalRecordUnpadded(piece) ==
    [i \in 1..kHeaderSize |-> HeaderCell(piece.type, piece.data, i)]
      \o [j \in 1..Len(piece.data) |-> DataCell(piece.data[j])]

\* Writer::EmitPhysicalRecord, after the trailer of pad cells that AddRecord
\* fills a block with when no header fits into it.
EmitPhysicalRecord(piece) ==
    [j \in 1..piece.pad |-> ZeroCell]
      \o [i \in 1..kHeaderSize |-> HeaderCell(piece.type, piece.data, i)]
      \o [j \in 1..Len(piece.data) |-> DataCell(piece.data[j])]

\* Writer::AddRecord with block_offset_ = offset: the pieces it emits, each
\* with the block_offset_ after it.
AddRecord(offset, data) ==
    LET emit[o \in 0..kBlockSize, from \in 0..Len(data), begin \in BOOLEAN] ==
          LET leftover == kBlockSize - o
              o2 == IF leftover < kHeaderSize THEN 0 ELSE o
              avail == kBlockSize - o2 - kHeaderSize
              left == Len(data) - from
              length == IF left < avail THEN left ELSE avail
              end == left = length
              type == IF begin /\ end THEN "full"
                      ELSE IF begin THEN "first" ELSE IF end THEN "last" ELSE "middle"
              after == o2 + kHeaderSize + length
              piece == [pad |-> IF o2 = o THEN 0 ELSE leftover, type |-> type,
                        data |-> SubSeq(data, from + 1, from + length),
                        offset |-> after]
          IN <<piece>> \o (IF end THEN <<>> ELSE emit[after, from + length, FALSE])
    IN emit[offset, 0, TRUE]

Cells(pieces) == FlattenSeq([j \in DOMAIN pieces |-> EmitPhysicalRecord(pieces[j])])

-----------------------------------------------------------------------------
\* The header at position p of the file is whole.
Intact(file, p) ==
    /\ file[p + 1].i = 1
    /\ \A i \in 1..kHeaderSize : file[p + i] = [file[p + 1] EXCEPT !.i = i]

\* Reader::ReadPhysicalRecord at position p: what it returns, the position
\* it leaves the reader at, and the cells it reports as lost.
ReadPhysicalRecord(file, initialOffset, p) ==
    LET BlockEnd(q) == ((q \div kBlockSize) + 1) * kBlockSize
        \* fewer cells than a header: skip the trailer, or the file ends
        start == IF BlockEnd(p) - p < kHeaderSize THEN BlockEnd(p) ELSE p
        eof == BlockEnd(start) > Len(file)
        stop == IF eof THEN Len(file) ELSE BlockEnd(start)
        bad(drop) == [type |-> "bad", data |-> <<>>, pos |-> stop, drop |-> drop]
        atEnd == [type |-> "eof", data |-> <<>>, pos |-> stop, drop |-> 0]
    IN IF stop - start < kHeaderSize THEN atEnd
       ELSE IF ~Intact(file, start) THEN bad(stop - start)
       ELSE LET head == file[start + 1]
                next == start + kHeaderSize + Len(head.data)
            IN IF next > stop THEN (IF eof THEN atEnd ELSE bad(stop - start))
               ELSE IF \E j \in 1..Len(head.data) :
                         file[start + kHeaderSize + j] # DataCell(head.data[j])
               THEN bad(stop - start)
               ELSE IF start < initialOffset
               THEN [type |-> "bad", data |-> <<>>, pos |-> next, drop |-> 0]
               ELSE [type |-> head.type, data |-> head.data, pos |-> next, drop |-> 0]

\* SkipToInitialBlock
SkipToInitialBlock(initialOffset) ==
    LET offsetInBlock == initialOffset % kBlockSize
        blockStart == initialOffset - offsetInBlock
    IN IF offsetInBlock > kBlockSize - (kHeaderSize - 1)
       THEN blockStart + kBlockSize ELSE blockStart

\* ReportDrop of bytes, in a reader's state s: only what lies behind the
\* initial offset is reported.
Report(s, initialOffset, bytes) ==
    IF s.pos - bytes >= initialOffset THEN [s EXCEPT !.reports = @ + 1] ELSE s

\* The reader s after a physical record r that it does not look into.
Advance(s, initialOffset, r) ==
    LET t == [s EXCEPT !.pos = r.pos, !.resyncing = @ /\ r.type = "middle"]
    IN IF r.drop > 0 THEN Report(t, initialOffset, r.drop) ELSE t

\* One turn of ReadRecord's loop: the reader s has got r, and t is s after it.
ReadStep(s, initialOffset, r, t) ==
    LET torn == IF s.fragmented /\ s.scratch # <<>>
                THEN Report(t, initialOffset, Len(s.scratch)) ELSE t
        lost == Report(t, initialOffset, Len(r.data))
    IN IF s.resyncing /\ r.type \in {"middle", "last"} THEN t
       ELSE CASE r.type = "full" ->
                   [torn EXCEPT !.recs = Append(@, r.data),
                                !.fragmented = FALSE, !.scratch = <<>>]
              [] r.type = "first" ->
                   [torn EXCEPT !.fragmented = TRUE, !.scratch = r.data]
              [] r.type = "middle" ->
                   IF ~s.fragmented THEN lost ELSE [t EXCEPT !.scratch = @ \o r.data]
              [] r.type = "last" ->
                   IF ~s.fragmented THEN lost
                   ELSE [t EXCEPT !.recs = Append(@, s.scratch \o r.data),
                                  !.fragmented = FALSE, !.scratch = <<>>]
              [] r.type = "eof" -> [t EXCEPT !.done = TRUE]
              [] r.type = "bad" ->
                   IF s.fragmented
                   THEN [Report(t, initialOffset, Len(s.scratch)) EXCEPT
                            !.fragmented = FALSE, !.scratch = <<>>]
                   ELSE t

\* The turn that reads r, and the turn of a reader s.
ReadTurnOf(s, initialOffset, r) == ReadStep(s, initialOffset, r, Advance(s, initialOffset, r))
ReadTurn(file, initialOffset, s) ==
    IF s.done THEN s
    ELSE ReadTurnOf(s, initialOffset, ReadPhysicalRecord(file, initialOffset, s.pos))

\* ReadRecord until it returns false: the records found and the number of
\* corruptions reported.
ReadRecords(file, initialOffset) ==
    LET start == [pos |-> SkipToInitialBlock(initialOffset), fragmented |-> FALSE,
                  scratch |-> <<>>, resyncing |-> initialOffset > 0,
                  recs |-> <<>>, reports |-> 0, done |-> FALSE]
        \* a physical record takes at least a header
        most == (Len(file) \div kHeaderSize) + 1
        read[n \in 0..most] ==
            IF n = 0 THEN start ELSE ReadTurn(file, initialOffset, read[n - 1])
        end == read[most]
    IN [recs |-> end.recs, reports |-> end.reports]
=============================================================================
