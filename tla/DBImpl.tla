------------------------------- MODULE DBImpl -------------------------------
(***************************************************************************)
(* One LevelDB database (db/db_impl.cc, with the state of db/version_set.cc *)
(* and the files on disk): writers append to the log and the memtable, the *)
(* background thread turns memtables into tables and merges tables down    *)
(* the levels, each change of the set of live files is a record of the     *)
(* MANIFEST, readers pin what they read, and the process or the machine    *)
(* may stop at any moment, during recovery too.                            *)
(*                                                                         *)
(* A step is what one thread does while it holds the mutex, or one file    *)
(* operation it does without it.  Writers take turns at the head of the    *)
(* queue (WriteQueue models the queue), and only one background thread     *)
(* runs, so there is one writer and one compaction at a time.  The choices *)
(* made by file size, seek counts and compact_pointer_ are left open.      *)
(***************************************************************************)
EXTENDS VersionSet

CONSTANTS Writes,        \* what clients write: [ops, sync], ops a sequence of
                         \* operations on keys
          MaxFile,       \* bound on the file numbers
          MaxSnapshots,  \* bound on the snapshots alive at a time
          MaxReaders,    \* bound on the iterators and gets alive at a time
          MaxErrors,     \* bound on the failing syncs
          Stops,         \* the ways to stop: TRUE the machine, FALSE the process
          None

ASSUME BoundAssumption == /\ MaxFile \in Nat /\ MaxFile >= 4 /\ MaxSnapshots \in Nat
                          /\ MaxReaders \in Nat /\ MaxErrors \in Nat
                          /\ Stops \subseteq BOOLEAN
ASSUME WriteAssumption ==
    Writes \subseteq [ops : Seq([key : Key, type : {"put", "del"}]) \ {<<>>}, sync : BOOLEAN]

VARIABLES
    \* the disk
    tables,        \* file number -> entries of a table file
    logs,          \* file number -> [recs, synced]: log records, durable prefix
    manifest,      \* what the MANIFEST may replay to, by how much of its
                   \* unsynced tail survives; the last one is all of it
    \* DBImpl and VersionSet
    status,        \* "open", "opening" (inside DB::Open) or "down"
    mem, imm,      \* the memtables; imm = {} stands for a null imm_
    logfileNumber, \* logfile_number_, the log that writers append to
    logNumber,     \* versions_->LogNumber()
    nextFile,      \* next_file_number_
    lastSequence,  \* last_sequence_
    current,       \* the current version
    snapshots,     \* sequence numbers of the snapshots
    readers,       \* iterators and gets: [seq, mem, imm, ver]
    writer,        \* the batch at the head of the queue that is in the log
                   \* but not yet in the memtable
    compact,       \* the compaction in progress
    applying,      \* the edit that LogAndApply is writing
    bgError,       \* ~bg_error_.ok()
    errors,        \* syncs that have failed so far
    \* for the properties only
    hist,          \* the batches that the database consists of: [ents, log]
    durable,       \* the batches that a sync write has acknowledged
    met            \* the interleavings met whose outcome can be wrong: "gap"
                   \* (GapBetweenInputs), "cut" (CutsKey), "retreat" (LogRetreats)

disk == <<tables, logs, manifest>>
versions == <<logNumber, nextFile, lastSequence, current>>
db == <<status, mem, imm, logfileNumber, versions>>
clients == <<snapshots, readers>>
background == <<compact, applying>>
ghosts == <<hist, durable, met>>
vars == <<disk, db, clients, writer, background, bgError, errors, ghosts>>

FileNumber == 0..MaxFile

\* A version: the table files of each level.
Version == [Level -> SUBSET FileNumber]

\* A compaction that merges: its inputs at two levels, the version it
\* references, the entries not yet read, those of them that will be written,
\* and the output files that are finished.
Compaction == [level : 0..(kNumLevels - 2), in0 : SUBSET FileNumber,
               in1 : SUBSET FileNumber, ver : Version, todo : SUBSET Entry,
               keep : SUBSET Entry, out : SUBSET FileNumber]

\* A batch with its numbers, a log, the batch that is being written, what a
\* MANIFEST replays to, and an edit that is being written to it.
Batch == (SUBSET Entry) \ {{}}
LogFile == {l \in [recs : Seq(Batch), synced : Nat] : l.synced <= Len(l.recs)}
Pending == [ents : Batch, sync : BOOLEAN]
Descriptor == [files : Version, log : FileNumber, next : FileNumber, seq : 0..MaxSeq]
Edit == [what : {"flush", "move", "merge", "open"}, ver : Version, log : FileNumber]

ASSUME NoneAssumption == None \notin Pending \union Compaction \union Edit

-----------------------------------------------------------------------------
\* File n of files F is created (or truncated) and holds x.
NewWritableFile(F, n, x) == [f \in DOMAIN F \union {n} |-> IF f = n THEN x ELSE F[f]]
EmptyLog == [recs |-> <<>>, synced |-> 0]

NoFiles == [l \in Level |-> {}]

\* A new database after its first DB::Open: NewDB has written MANIFEST-1
\* (log 0, next file 2), Open has taken 2 for the new MANIFEST and 3 for
\* the log.
Init ==
    /\ tables = << >>
    /\ logs = [n \in {3} |-> EmptyLog]
    /\ manifest = <<[files |-> NoFiles, log |-> 3, next |-> 4, seq |-> 0]>>
    /\ status = "open" /\ mem = {} /\ imm = {}
    /\ logfileNumber = 3 /\ logNumber = 3 /\ nextFile = 4
    /\ lastSequence = 0 /\ current = NoFiles
    /\ snapshots = {} /\ readers = {}
    /\ writer = None /\ compact = None /\ applying = None
    /\ bgError = FALSE /\ errors = 0
    /\ hist = {} /\ durable = {} /\ met = {}

\* A batch with the sequence numbers that SetSequence and MemTableInserter
\* give to its operations.
Numbered(ops, first) ==
    {[key |-> ops[i].key, seq |-> first + i - 1, type |-> ops[i].type] :
        i \in DOMAIN ops}

-----------------------------------------------------------------------------
(***************************************************************************)
(* Writing.                                                                *)
(***************************************************************************)

\* DBImpl::Write at the head of the queue, with room in the memtable: the
\* record is in the log, and the mutex is free while it is synced.
WriteLog(w) ==
    /\ status = "open" /\ writer = None /\ ~bgError
    /\ lastSequence + Len(w.ops) <= MaxSeq
    /\ LET ents == Numbered(w.ops, lastSequence + 1)
       IN /\ logs' = [logs EXCEPT ![logfileNumber].recs = Append(@, ents)]
          /\ writer' = [ents |-> ents, sync |-> w.sync]
    /\ UNCHANGED <<tables, manifest, db, clients, background, bgError, errors, ghosts>>

\* Mutated WriteMem: a sync write returns without the sync.
WriteMemUnsynced ==
    /\ writer # None
    /\ mem' = mem \union writer.ents
    /\ lastSequence' = lastSequence + Cardinality(writer.ents)
    /\ hist' = hist \union {[ents |-> writer.ents, log |-> logfileNumber]}
    /\ durable' = IF writer.sync THEN durable \union {writer.ents} ELSE durable
    /\ writer' = None
    /\ UNCHANGED <<disk, status, imm, logfileNumber, logNumber, nextFile,
                   current, clients, background, bgError, errors, met>>

\* The rest of Write: Sync for a sync write, InsertInto, SetLastSequence.
WriteMem ==
    /\ writer # None
    /\ logs' = IF writer.sync
               THEN [logs EXCEPT ![logfileNumber].synced = Len(logs[logfileNumber].recs)]
               ELSE logs
    /\ mem' = mem \union writer.ents
    /\ lastSequence' = lastSequence + Cardinality(writer.ents)
    /\ hist' = hist \union {[ents |-> writer.ents, log |-> logfileNumber]}
    /\ durable' = IF writer.sync THEN durable \union {writer.ents} ELSE durable
    /\ writer' = None
    /\ UNCHANGED <<tables, manifest, status, imm, logfileNumber, logNumber, nextFile,
                   current, clients, background, bgError, errors, met>>

\* The Sync of a sync write fails: the batch is not inserted, its sequence
\* numbers are used up all the same, and no write is accepted any more.
WriteSyncFails ==
    /\ writer # None /\ writer.sync /\ errors < MaxErrors
    /\ lastSequence' = lastSequence + Cardinality(writer.ents)
    /\ writer' = None
    /\ bgError' = TRUE /\ errors' = errors + 1
    /\ UNCHANGED <<disk, status, mem, imm, logfileNumber, logNumber, nextFile,
                   current, clients, background, ghosts>>

\* MakeRoomForWrite with a full memtable (or a null batch): a new log and a
\* new memtable.  The old log is closed, not synced.
SwitchMemTable ==
    /\ status = "open" /\ writer = None /\ ~bgError
    /\ imm = {} /\ mem # {}
    /\ nextFile < MaxFile
    /\ logs' = NewWritableFile(logs, nextFile, EmptyLog)
    /\ logfileNumber' = nextFile /\ nextFile' = nextFile + 1
    /\ imm' = mem /\ mem' = {}
    /\ UNCHANGED <<tables, manifest, status, logNumber, lastSequence, current,
                   clients, writer, background, bgError, errors, ghosts>>

-----------------------------------------------------------------------------
(***************************************************************************)
(* Snapshots, iterators and gets.                                          *)
(***************************************************************************)

GetSnapshot ==
    /\ status = "open" /\ Cardinality(snapshots) < MaxSnapshots
    /\ snapshots' = snapshots \union {lastSequence}
    /\ UNCHANGED <<disk, db, readers, writer, background, bgError, errors, ghosts>>

ReleaseSnapshot(s) ==
    /\ status = "open"
    /\ snapshots' = snapshots \ {s}
    /\ UNCHANGED <<disk, db, readers, writer, background, bgError, errors, ghosts>>

\* Get and NewInternalIterator reference the memtables and the version that
\* they read without the mutex, at the newest sequence number or at that of
\* a snapshot.  Later insertions into mem_ have larger sequence numbers.
NewIterator(s) ==
    /\ status = "open" /\ Cardinality(readers) < MaxReaders
    /\ readers' = readers \union
                    {[seq |-> s, mem |-> mem, imm |-> imm, ver |-> current]}
    /\ UNCHANGED <<disk, db, snapshots, writer, background, bgError, errors, ghosts>>

CleanupIteratorState(r) ==
    /\ status = "open"
    /\ readers' = readers \ {r}
    /\ UNCHANGED <<disk, db, snapshots, writer, background, bgError, errors, ghosts>>

-----------------------------------------------------------------------------
(***************************************************************************)
(* The set of live files.                                                  *)
(***************************************************************************)

\* The first half of LogAndApply: the edit, with the counters of this
\* moment, is appended to the MANIFEST; the mutex is free until it is synced.
LogAndApply(what, del, add, log, next) ==
    LET edit == [del |-> del, add |-> add, log |-> log, next |-> next,
                 seq |-> lastSequence]
    IN /\ manifest' = Append(manifest, Replay(Last(manifest), edit))
       /\ applying' = [what |-> what, ver |-> Apply(current, edit), log |-> log]

\* Mutated LiveVersions: the references of gets and iterators do not count.
LiveVersionsCurrent(ver, c) == {ver} \union (IF c = None THEN {} ELSE {c.ver})

\* The versions still in the list of VersionSet: the current one, and those
\* that a get, an iterator or a compaction has referenced (Ref) and not let
\* go (Unref deletes the version with its last reference).
LiveVersions(ver, c) ==
    {ver} \union {r.ver : r \in readers} \union (IF c = None THEN {} ELSE {c.ver})

\* The table numbers in use: AddLiveFiles over all versions, and the pending
\* outputs of the running compaction.
LiveFiles(ver, c) ==
    (UNION {FilesOf(v) : v \in LiveVersions(ver, c)})
        \union (IF c = None THEN {} ELSE c.out)

\* DeleteObsoleteFiles: tables in no live version that nobody is building,
\* and logs before the descriptor's.  After a background error nothing is
\* deleted, since the descriptor may have either of two values.
DeleteObsoleteFiles(ver, log, c) ==
    LET live == LiveFiles(ver, c)
    IN IF bgError THEN UNCHANGED <<tables, logs>>
       ELSE /\ tables' = Restrict(tables, DOMAIN tables \intersect live)
            /\ logs' = Restrict(logs, {n \in DOMAIN logs : n >= log})

\* The caller of LogAndApply is through with its compaction, successful or
\* not: CleanupCompaction gives up the pending outputs, ReleaseInputs the
\* version of the inputs.
CleanupCompaction == IF applying.what = "merge" THEN None ELSE compact

\* The second half of LogAndApply: the record is synced, the version becomes
\* current, and the caller goes on: CompactMemTable drops the memtable, a
\* compaction is over (CleanupCompaction, ReleaseInputs), and both delete
\* what has become obsolete; a trivial move does not.
EditInstalled ==
    /\ status = "open" /\ applying # None
    /\ manifest' = <<Last(manifest)>>
    /\ current' = applying.ver /\ logNumber' = applying.log
    /\ applying' = None
    /\ imm' = IF applying.what = "flush" THEN {} ELSE imm
    /\ compact' = CleanupCompaction
    /\ IF applying.what = "move" THEN UNCHANGED <<tables, logs>>
       ELSE DeleteObsoleteFiles(current', logNumber', compact')
    /\ UNCHANGED <<status, mem, logfileNumber, nextFile, lastSequence, clients,
                   writer, bgError, errors, ghosts>>

\* Writing the record fails: the version is dropped and the error recorded.
\* The record may be in the MANIFEST nevertheless (Sync failed), or not.
EditFails ==
    /\ status = "open" /\ applying # None /\ errors < MaxErrors
    /\ manifest' \in {manifest, Front(manifest)}
    /\ applying' = None
    /\ compact' = CleanupCompaction
    /\ bgError' = TRUE /\ errors' = errors + 1
    /\ UNCHANGED <<tables, logs, db, clients, writer, ghosts>>

-----------------------------------------------------------------------------
(***************************************************************************)
(* The background thread.                                                  *)
(***************************************************************************)

Idle == status = "open" /\ applying = None /\ compact = None /\ ~bgError

Merging == status = "open" /\ applying = None /\ compact # None

\* A flush that goes to the output level of the running compaction, between
\* the keys that its inputs cover: possible when the inputs of a manual
\* compaction are apart from each other, since the level is picked by the
\* files of the current version.
GapBetweenInputs(level, ents) ==
    /\ compact # None
    /\ level = compact.level + 1
    /\ LET inputs == compact.in0 \union compact.in1
       IN \E e \in ents : LowKey(tables, inputs) <= e.key
                            /\ e.key <= HighKey(tables, inputs)

\* CompactMemTable and WriteLevel0Table: the immutable memtable becomes a
\* table at the level that is picked for it.  BackgroundCompaction calls it
\* before any other work, DoCompactionWork between two entries of a merge;
\* the latter goes on after an error.
CompactMemTable(level) ==
    /\ Idle \/ (Merging /\ compact.todo # {})
    /\ imm # {} /\ nextFile < MaxFile
    /\ LET keys == {e.key : e \in imm}
       IN level \in PickLevelForMemTableOutput(tables, current, Min(keys), Max(keys))
    /\ met' = met \union (IF GapBetweenInputs(level, imm) THEN {"gap"} ELSE {})
    /\ tables' = NewWritableFile(tables, nextFile, imm)
    /\ nextFile' = nextFile + 1
    /\ LogAndApply("flush", {}, {<<level, nextFile>>}, logfileNumber, nextFile + 1)
    /\ UNCHANGED <<logs, status, mem, imm, logfileNumber, logNumber, lastSequence,
                   current, clients, writer, compact, bgError, errors, hist, durable>>

\* The inputs at level + 1 end with a user key whose older entries begin the
\* next file of that level, which is not an input.
CutsKey(level, inputs) ==
    AddBoundaryInputs(tables, current, level + 1, inputs.in1) # inputs.in1

\* IsTrivialMove, as the set of its possible answers: a single input file
\* with nothing at the next level, unless too many bytes overlap it below.
IsTrivialMove(level, inputs) ==
    LET files == inputs.in0 \union inputs.in1
        single == Cardinality(inputs.in0) = 1 /\ inputs.in1 = {}
        grandparents ==
            IF level + 2 < kNumLevels
            THEN GetOverlappingInputs(tables, current, level + 2,
                                      LowKey(tables, files), HighKey(tables, files))
            ELSE {}
    IN {single} \union (IF grandparents # {} THEN {FALSE} ELSE {})

\* What the merging iterator over the inputs yields.
MakeInputIterator(inputs) == UNION {tables[f] : f \in inputs.in0 \union inputs.in1}

\* AddInputDeletions
InputDeletions(c) ==
    ({c.level} \X c.in0) \union ({c.level + 1} \X c.in1)

\* BackgroundCompaction, once inputs are chosen: a single file with nothing
\* below it is moved; anything else, and anything manual, is merged.
StartCompaction(level, inputs, manual) ==
    /\ met' = met \union (IF CutsKey(level, inputs) THEN {"cut"} ELSE {})
    /\ LET ents == MakeInputIterator(inputs)
           oldest == IF snapshots = {} THEN lastSequence ELSE Min(snapshots)
       IN \/ /\ ~manual /\ TRUE \in IsTrivialMove(level, inputs)
             /\ \E f \in inputs.in0 :
                  LogAndApply("move", {<<level, f>>}, {<<level + 1, f>>},
                              logNumber, nextFile)
             /\ UNCHANGED compact
          \/ /\ manual \/ FALSE \in IsTrivialMove(level, inputs)
             /\ compact' = [level |-> level, in0 |-> inputs.in0, in1 |-> inputs.in1,
                            ver |-> current, todo |-> ents, out |-> {},
                            keep |-> Survivors(tables, current, level, ents, oldest)]
             /\ UNCHANGED <<manifest, applying>>
    /\ UNCHANGED <<tables, logs, db, clients, writer, bgError, errors, hist, durable>>

AutomaticCompaction(level, f) ==
    /\ Idle /\ imm = {} /\ f \in current[level]
    /\ \E inputs \in PickCompaction(tables, current, level, f) :
          StartCompaction(level, inputs, FALSE)

ManualCompaction(level, lo, hi) ==
    /\ Idle /\ imm = {}
    /\ \E inputs \in CompactRange(tables, current, level, lo, hi) :
          StartCompaction(level, inputs, TRUE)

\* ShouldStopBefore and the size limit: a file may be closed after any entry
\* written to it (it is large enough, or overlaps too much two levels down),
\* and it is when the input is exhausted.
EndsOutput(done) ==
    \/ done = compact.todo
    \/ \E e \in done \intersect compact.keep : \A d \in done : ~Before(e, d)

\* OpenCompactionOutputFile at the first entry written, which takes a file
\* number, and FinishCompactionOutputFile: no file where nothing is written.
FinishCompactionOutputFile(ents) ==
    IF ents = {} THEN UNCHANGED <<tables, nextFile>>
    ELSE /\ nextFile < MaxFile
         /\ tables' = NewWritableFile(tables, nextFile, ents)
         /\ nextFile' = nextFile + 1

\* DoCompactionWork up to the end of an output file: entries are read in
\* order and the survivors among them written.
CompactionOutput(done) ==
    /\ Merging /\ compact.todo # {}
    /\ done # {} /\ \A d \in done, e \in compact.todo \ done : Before(d, e)
    /\ EndsOutput(done)
    /\ LET ents == done \intersect compact.keep
       IN /\ compact' = [compact EXCEPT !.todo = @ \ done,
                            !.out = @ \union (IF ents = {} THEN {} ELSE {nextFile})]
          /\ FinishCompactionOutputFile(ents)
    /\ UNCHANGED <<logs, manifest, status, mem, imm, logfileNumber, logNumber,
                   lastSequence, current, clients, writer, applying, bgError,
                   errors, ghosts>>

\* The MANIFEST has the record of a flush whose sync failed, and the next
\* record will name the log before it again: what that log still holds is
\* then both in a table and in the log.
LogRetreats == Last(manifest).log > logNumber

InstallCompactionResults ==
    /\ Merging /\ compact.todo = {}
    /\ met' = met \union (IF LogRetreats THEN {"retreat"} ELSE {})
    /\ LogAndApply("merge",
                   InputDeletions(compact),
                   {compact.level + 1} \X compact.out,
                   logNumber, nextFile)
    /\ UNCHANGED <<tables, logs, db, clients, writer, compact, bgError, errors, hist, durable>>

-----------------------------------------------------------------------------
(***************************************************************************)
(* Stopping and opening again.                                             *)
(***************************************************************************)

Prefix(s, n) == SubSeq(s, 1, n)

\* The tables that the MANIFEST lists hold the whole batch.
InTables(T, h, m) == h.ents \subseteq UNION {T[f] : f \in FilesOf(m.files)}

\* The process ends (the database is deleted, or the process dies) or the
\* machine stops, after which each file has its synced part and any part of
\* what was appended since.  A batch is found again in the logs that the
\* MANIFEST leaves to be read, or in its tables; it may be in both after a
\* record that failed to be synced.
Stop(machine) ==
    /\ status # "down"
    /\ LET loose == {n \in DOMAIN logs : machine /\ logs[n].synced < Len(logs[n].recs)}
       IN \E keep \in [loose -> 0..MaxSeq], i \in 1..Len(manifest) :
            /\ \A n \in loose : keep[n] \in logs[n].synced .. Len(logs[n].recs)
            /\ ~machine => i = Len(manifest)
            /\ logs' = [n \in DOMAIN logs |->
                          IF n \in loose
                          THEN [recs |-> Prefix(logs[n].recs, keep[n]), synced |-> keep[n]]
                          ELSE logs[n]]
            /\ manifest' = IF machine THEN <<manifest[i]>> ELSE manifest
    /\ LET m == Last(manifest')
       IN hist' = {h \in hist : h.log < m.log \/ InTables(tables, h, m)} \union
                  UNION {{[ents |-> logs'[n].recs[i], log |-> n] :
                              i \in DOMAIN logs'[n].recs} :
                            n \in {l \in DOMAIN logs : l >= m.log}}
    /\ durable' = IF machine THEN {h.ents : h \in hist'} ELSE durable
    /\ status' = "down"
    /\ mem' = {} /\ imm' = {} /\ snapshots' = {} /\ readers' = {}
    /\ writer' = None /\ compact' = None /\ applying' = None
    /\ logfileNumber' = 0 /\ logNumber' = 0 /\ nextFile' = 0 /\ lastSequence' = 0
    /\ current' = NoFiles /\ bgError' = FALSE
    /\ UNCHANGED <<tables, errors, met>>

\* The records that the memtable holds become a level-0 table (WriteLevel0Table).
WriteRecovered(acc, recs) ==
    IF recs = <<>> THEN acc
    ELSE [next |-> acc.next + 1, new |-> acc.new \union {acc.next},
          tabs |-> NewWritableFile(acc.tabs, acc.next, UNION ToSet(recs))]

\* Mutated RecoverLogFile: the number of the log that is read is not marked as used.
RecoverLogFileUnmarked(acc, n, cut) ==
    WriteRecovered(acc, logs[n].recs)

\* RecoverLogFile: the records of log n go to one table, or to two when the
\* write buffer is full after the first cut[n] records.  The next file number
\* moves past that of the log after the log has been read.
RecoverLogFile(acc, n, cut) ==
    LET recs == logs[n].recs
        full == IF n \in DOMAIN cut THEN cut[n] ELSE 0
        after == WriteRecovered(WriteRecovered(acc, Prefix(recs, full)),
                                SubSeq(recs, full + 1, Len(recs)))
    IN [next |-> Max({after.next, n + 1}), new |-> after.new, tabs |-> after.tabs]

\* The logs that the descriptor does not cover, in the order of their numbers:
\* the next file number then, the new tables, and the files with them.
RecoverLogs(start, newer, cut) ==
    LET read[n \in 0..MaxFile] ==
            IF n = 0 THEN [next |-> start, new |-> {}, tabs |-> tables]
            ELSE IF n \in newer THEN RecoverLogFile(read[n - 1], n, cut)
            ELSE read[n - 1]
    IN read[MaxFile]

\* DB::Open: VersionSet::Recover replays the MANIFEST and takes a number for
\* the new one, the logs it does not cover become tables, and a new log is
\* created.  Nothing of that is in the descriptor yet.
Recover ==
    /\ status = "down"
    /\ LET m == Last(manifest)
           newer == {n \in DOMAIN logs : n >= m.log}
           long == {n \in newer : Len(logs[n].recs) > 1}
           seqs == {e.seq : e \in UNION UNION {ToSet(logs[n].recs) : n \in newer}}
       IN \E cut \in [long -> 0..MaxSeq] :
            /\ \A n \in long : cut[n] < Len(logs[n].recs)
            /\ LET r == RecoverLogs(m.next + 1, newer, cut)
               IN /\ r.next < MaxFile
                  /\ tables' = r.tabs
                  /\ logs' = NewWritableFile(logs, r.next, EmptyLog)
                  /\ logfileNumber' = r.next /\ nextFile' = r.next + 1
                  /\ applying' = [what |-> "open", log |-> r.next,
                                  ver |-> [m.files EXCEPT ![0] = @ \union r.new]]
            /\ current' = m.files /\ logNumber' = m.log
            /\ lastSequence' = Max({m.seq} \union seqs)
    /\ status' = "opening"
    /\ UNCHANGED <<manifest, mem, imm, clients, writer, compact, bgError, errors, ghosts>>

\* The rest of DB::Open: a new MANIFEST with a full snapshot is synced and
\* SetCurrentFile renames it into place, then the leftovers are deleted.
FinishOpen ==
    /\ status = "opening"
    /\ manifest' = <<[files |-> applying.ver, log |-> applying.log,
                      next |-> nextFile, seq |-> lastSequence]>>
    /\ current' = applying.ver /\ logNumber' = applying.log
    /\ applying' = None
    /\ DeleteObsoleteFiles(current', logNumber', None)
    /\ status' = "open"
    /\ UNCHANGED <<mem, imm, logfileNumber, nextFile, lastSequence, clients, writer,
                   compact, bgError, errors, ghosts>>

-----------------------------------------------------------------------------
Next ==
    \/ \E w \in Writes : WriteLog(w)
    \/ WriteMem
    \/ WriteSyncFails
    \/ SwitchMemTable
    \/ GetSnapshot
    \/ \E s \in snapshots : ReleaseSnapshot(s)
    \/ \E s \in snapshots \union {lastSequence} : NewIterator(s)
    \/ \E r \in readers : CleanupIteratorState(r)
    \/ \E level \in 0..kMaxMemCompactLevel : CompactMemTable(level)
    \/ \E level \in 0..(kNumLevels - 2) : \E f \in current[level] :
          AutomaticCompaction(level, f)
    \/ \E level \in 0..(kNumLevels - 2), lo, hi \in Key :
          lo <= hi /\ ManualCompaction(level, lo, hi)
    \/ Merging /\ \E done \in SUBSET compact.todo : CompactionOutput(done)
    \/ InstallCompactionResults
    \/ EditInstalled
    \/ EditFails
    \/ \E machine \in Stops : Stop(machine)
    \/ Recover
    \/ FinishOpen

Spec == Init /\ [][Next]_vars

-----------------------------------------------------------------------------
(***************************************************************************)
(* Properties.                                                             *)
(***************************************************************************)

TypeOK ==
    /\ DOMAIN tables \subseteq FileNumber /\ tables \in [DOMAIN tables -> Batch]
    /\ DOMAIN logs \subseteq FileNumber
    /\ logs \in [DOMAIN logs -> LogFile]
    /\ manifest \in Seq(Descriptor) \ {<<>>}
    /\ status \in {"open", "opening", "down"}
    /\ mem \in SUBSET Entry /\ imm \in SUBSET Entry
    /\ logfileNumber \in FileNumber /\ logNumber \in FileNumber /\ nextFile \in FileNumber
    /\ lastSequence \in 0..MaxSeq /\ current \in Version
    /\ snapshots \in SUBSET (0..MaxSeq)
    /\ \A r \in readers : r.ver \in Version
    /\ writer \in Pending \union {None}
    /\ compact \in Compaction \union {None}
    /\ applying \in Edit \union {None}
    /\ bgError \in BOOLEAN /\ errors \in 0..MaxErrors
    /\ hist \in SUBSET [ents : Batch, log : FileNumber] /\ durable \in SUBSET Batch

\* No file is missing that someone will open: the tables of the current
\* version, of every version a reader or the running compaction has
\* referenced, the outputs it has finished, and, whatever part of the
\* MANIFEST survives, the tables it then lists and the logs that hold what
\* they do not (DeleteObsoleteFiles runs while all of these are in use).
FilesPresent ==
    /\ FilesOf(current) \subseteq DOMAIN tables
    /\ \A r \in readers : FilesOf(r.ver) \subseteq DOMAIN tables
    /\ compact # None => FilesOf(compact.ver) \union compact.out \subseteq DOMAIN tables
    /\ \A i \in DOMAIN manifest :
          /\ FilesOf(manifest[i].files) \subseteq DOMAIN tables
          /\ \A h \in hist :
                \/ h.log < manifest[i].log
                \/ h.log \in DOMAIN logs /\ h.ents \in ToSet(logs[h.log].recs)
                \/ InTables(tables, h, manifest[i])

\* "Make sure there is no overlap in levels > 0" (Builder::SaveTo), which
\* the binary searches rely on, for the current version: unless a flush went
\* between the inputs of a running compaction, into its output level.
LevelsDisjoint == "gap" \notin met => NoOverlap(tables, current)

\* A file number is never given out while a file of that kind and number is
\* still referred to, across crashes during recovery too.
NumbersFresh ==
    status = "open" =>
        /\ \A f \in FilesOf(current) : f < nextFile
        /\ \A i \in DOMAIN manifest : \A f \in FilesOf(manifest[i].files) : f < nextFile
        /\ \A n \in DOMAIN logs : n <= logfileNumber
        /\ logfileNumber < nextFile

\* The abstract database that the batches make up.  Those that are in a log
\* and have not returned are in doubt.
KV == INSTANCE KVStore WITH
        Batch <- {Numbered(w.ops, n) : w \in Writes, n \in 1..MaxSeq},
        hist <- {h.ents : h \in hist},
        doubt <- (UNION {ToSet(logs[n].recs) : n \in DOMAIN logs}) \ {h.ents : h \in hist},
        durable <- durable

\* Batches become visible whole, in one step and in no other way than by a
\* write that returns; the end of the process loses none of them, the
\* machine's end none that a sync write acknowledged, however often recovery
\* itself is interrupted.
ImplementsKVStore == KV!Spec

\* What DBImpl::Get finds through the memtables and the levels is what the
\* batches say, now, as of every snapshot, and for every get or iterator in
\* the memtables and the version that it has pinned.
GetsRight ==
    status = "open" => \A k \in Key :
        /\ \A s \in snapshots \union {lastSequence} :
              Get(tables, mem, imm, current, k, s) = KV!Value(k, s)
        /\ \A r \in readers :
              Get(tables, r.mem, r.imm, r.ver, k, r.seq) = KV!Value(k, r.seq)

\* Reads agree with the writes, through every flush, compaction, failed sync
\* and recovery, unless one of the three interleavings was met before.
ReadsHistory == met = {} => GetsRight

\* What DoCompactionWork says of the deletion markers that it drops: the data
\* of the key in the levels it merges is dropped with them, so that a deleted
\* key does not come back.
DeletesHold == GetsRight

-----------------------------------------------------------------------------
(***************************************************************************)
(* The inductive invariant behind FilesPresent, NumbersFresh and           *)
(* ImplementsKVStore.                                                      *)
(***************************************************************************)

UpTo(ents, s) == \A e \in ents : e.seq <= s

\* Logs L hold batch h; they do in their synced part.
Logged(L, h) == h.log \in DOMAIN L /\ h.ents \in ToSet(L[h.log].recs)
Synced(L, h) == h.log \in DOMAIN L /\ \E i \in 1..L[h.log].synced : L[h.log].recs[i] = h.ents

\* Nobody uses the database before DB::Open has returned.
Unused ==
    /\ status # "open" => /\ readers = {} /\ snapshots = {} /\ mem = {} /\ imm = {}
                          /\ writer = None /\ compact = None /\ ~bgError
    /\ status = "down" => applying = None
    /\ status = "opening" => applying # None

\* The next file number of a descriptor is past its log and its tables,
\* which exist and have no later sequence number.
DescriptorOK(m, T) ==
    /\ 0 < m.log /\ m.log < m.next
    /\ \A f \in FilesOf(m.files) : f < m.next /\ f \in DOMAIN T /\ UpTo(T[f], m.seq)

DescriptorsOK(M, T) ==
    \A i \in DOMAIN M : /\ DescriptorOK(M[i], T)
                        /\ \A j \in i..Len(M) : M[i].next <= M[j].next

DescriptorsInv == DescriptorsOK(manifest, tables)

\* The numbers given out are below the next one, the log of the writers is
\* the last log, and the log of the current version the first one needed.
NumbersInv ==
    /\ status # "down" => /\ logfileNumber \in DOMAIN logs /\ logfileNumber < nextFile
                          /\ \A n \in DOMAIN logs : n <= logfileNumber
    /\ status = "open" => /\ 0 < logNumber /\ \A f \in DOMAIN tables : f < nextFile
                          /\ \A i \in DOMAIN manifest : /\ logNumber <= manifest[i].log
                                                        /\ manifest[i].log <= logfileNumber
                                                        /\ manifest[i].next <= nextFile
    /\ status = "opening" => /\ 0 < logfileNumber
                             /\ applying.log = logfileNumber /\ logs[logfileNumber].recs = <<>>
                             /\ \A f \in FilesOf(applying.ver) : f < nextFile

\* The versions in use exist, and while nothing has failed the MANIFEST ends
\* with the version that is current, or will be.
VersionsInv ==
    /\ FilesOf(current) \subseteq DOMAIN tables
    /\ \A r \in readers : FilesOf(r.ver) \subseteq DOMAIN tables
    /\ compact # None => FilesOf(compact.ver) \union compact.out \subseteq DOMAIN tables
    /\ applying # None => FilesOf(applying.ver) \subseteq DOMAIN tables
    /\ status = "open" /\ ~bgError =>
          Last(manifest).files = IF applying = None THEN current ELSE applying.ver
    /\ status = "open" /\ applying # None =>
          Last(manifest).log = applying.log /\ Len(manifest) > 1

\* A batch is behind the log of descriptor m, in a log or in its tables.
BatchOK(h, m, L, T) ==
    /\ h.log < m.log => UpTo(h.ents, m.seq)
    /\ h.log < m.log \/ h.log \in DOMAIN L
    /\ h.log < m.log \/ Logged(L, h) \/ InTables(T, h, m)

\* In an open database the tables are not needed for that.
BatchesInv ==
    /\ \A h \in hist, i \in DOMAIN manifest : BatchOK(h, manifest[i], logs, tables)
    /\ status = "open" => \A h \in hist : h.log < logNumber \/ Logged(logs, h)
    /\ status = "opening" => \A h \in hist : h.log < logfileNumber

\* A record of a log is a batch of the database, or the one being written,
\* or one whose sync has failed.
RecordsInv ==
    \A n \in DOMAIN logs : \A ents \in ToSet(logs[n].recs) :
        \/ [ents |-> ents, log |-> n] \in hist
        \/ /\ status = "open" /\ n = logfileNumber
           /\ bgError \/ (writer # None /\ ents = writer.ents)

\* No sequence number has been used beyond the last one, except by the
\* batch that is being written.
SequenceInv ==
    /\ status # "down" =>
          /\ \A h \in hist : UpTo(h.ents, lastSequence)
          /\ \A n \in DOMAIN logs : \A ents \in ToSet(logs[n].recs) :
                UpTo(ents, lastSequence) \/ (writer # None /\ ents = writer.ents)
    /\ status = "open" =>
          /\ UpTo(mem, lastSequence) /\ UpTo(imm, lastSequence)
          /\ \A f \in DOMAIN tables : UpTo(tables[f], lastSequence)
          /\ compact # None => UpTo(compact.todo, lastSequence)
    /\ status = "opening" =>
          \A f \in FilesOf(applying.ver) : UpTo(tables[f], lastSequence)

\* The batch being written is in the log and has the next sequence numbers.
WriterInv ==
    writer # None =>
        /\ status = "open" /\ Logged(logs, [ents |-> writer.ents, log |-> logfileNumber])
        /\ \E w \in Writes : /\ lastSequence + Len(w.ops) <= MaxSeq
                             /\ writer.ents = Numbered(w.ops, lastSequence + 1)

\* A durable batch is behind the log of each descriptor, in its tables, or
\* in the synced part of a log.
DurableOK(h, m, L, T) == h.log < m.log \/ InTables(T, h, m) \/ Synced(L, h)

DurableInv ==
    \A d \in durable : \E h \in hist :
        /\ h.ents = d
        /\ status = "open" => h.log < logNumber \/ Synced(logs, h)
        /\ \A i \in DOMAIN manifest : DurableOK(h, manifest[i], logs, tables)

DBInv == /\ TypeOK /\ Unused /\ DescriptorsInv /\ NumbersInv /\ VersionsInv
         /\ BatchesInv /\ RecordsInv /\ SequenceInv /\ WriterInv /\ DurableInv
=============================================================================
