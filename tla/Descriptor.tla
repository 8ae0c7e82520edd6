----------------------------- MODULE Descriptor -----------------------------
(***************************************************************************)
(* The life of a LevelDB directory: which process owns it (LOCK), which    *)
(* descriptor is in force (CURRENT, MANIFEST-n), and how Open, LogAndApply,*)
(* Close, DestroyDB and RepairDB keep that so across errors, kills and     *)
(* power failures.  Sources: db/db_impl.cc (NewDB, Recover, Open,          *)
(* DestroyDB), db/version_set.cc (LogAndApply, Recover, WriteSnapshot),    *)
(* db/version_edit.cc, db/filename.cc, db/repair.cc, util/coding.cc,       *)
(* util/env.cc and util/env_posix.cc.                                      *)
(*                                                                         *)
(* What is stored is a set of sequence numbers: a log and a table hold     *)
(* some.  A file is a sequence of chunks (a manifest's are its records, as *)
(* EncodeTo writes them), of which the first `synced' withstand a power    *)
(* failure; directory operations reach the disk in their order, and a      *)
(* power failure may undo the last ones, back to the last time that the    *)
(* directory was synced.                                                   *)
(***************************************************************************)
EXTENDS Integers, Sequences, FiniteSets, SequencesExt, Functions, TLC

CONSTANTS Proc,
          kNumLevels,
          VarintBase,     \* 128 in the code
          kMaxVarint,     \* bytes of a varint at most
          Torn, Bad,      \* part of a record; a record with a wrong checksum
          Budgets         \* bounds: records of how many calls of Open and DestroyDB
                          \* (opens), puts, edits, faults and repairs there may be

VARIABLES fs,       \* the file system: inodes and directory images
          lockfile, \* the inode of LOCK, 0 when there is none
          lockfd,   \* the inode that each process has locked, 0 if none
          flocked,  \* the processes whose fcntl lock is in force
          st,       \* what each process does
          told,     \* what the program has been promised
          left      \* how much of each bound is left

vars == <<fs, lockfile, lockfd, flocked, st, told, left>>

RECURSIVE Listed(_), PutVarint(_), Entries(_, _)

\* The elements of a set in some order.
Listed(S) == IF S = {} THEN <<>>
             ELSE LET x == CHOOSE x \in S : TRUE IN <<x>> \o Listed(S \ {x})

-----------------------------------------------------------------------------
(***************************************************************************)
(* util/coding.cc                                                          *)
(***************************************************************************)

PutVarint(n) == IF n < VarintBase THEN <<n>>
                ELSE <<VarintBase + (n % VarintBase)>> \o PutVarint(n \div VarintBase)

GetVarint(in) ==
    LET ends == {i \in DOMAIN in : in[i] < VarintBase}
        n == Min(ends)
    IN IF ends = {} \/ Min(ends) > kMaxVarint
       THEN [ok |-> FALSE, value |-> 0, rest |-> in]
       ELSE [ok |-> TRUE,
             value |-> FoldRight(LAMBDA b, v : VarintBase * v + (b % VarintBase),
                                 SubSeq(in, 1, n), 0),
             rest |-> SubSeq(in, n + 1, Len(in))]

PutLengthPrefixedSlice(s) == PutVarint(Len(s)) \o s
GetLengthPrefixedSlice(in) ==
    LET n == GetVarint(in)
    IN [ok |-> n.ok /\ Len(n.rest) >= n.value,
        value |-> SubSeq(n.rest, 1, n.value),
        rest |-> SubSeq(n.rest, n.value + 1, Len(n.rest))]

-----------------------------------------------------------------------------
(***************************************************************************)
(* db/version_edit.cc.  A VersionEdit is the sequence of its entries, each *)
(* a tag and its values, in the order in which EncodeTo writes them.       *)
(***************************************************************************)

kComparator == 1
kLogNumber == 2
kNextFileNumber == 3
kLastSequence == 4
kCompactPointer == 5
kDeletedFile == 6
kNewFile == 7
kPrevLogNumber == 9

\* The values that follow a tag.
Layout(tag) ==
    CASE tag = kComparator -> <<"slice">>
      [] tag \in {kLogNumber, kPrevLogNumber, kNextFileNumber, kLastSequence} -> <<"number">>
      [] tag = kCompactPointer -> <<"level", "slice">>
      [] tag = kDeletedFile -> <<"level", "number">>
      [] tag = kNewFile -> <<"level", "number", "number", "slice", "slice">>
      [] OTHER -> <<>>

EncodeTo(edit) ==
    FlattenSeq([i \in DOMAIN edit |->
        LET kinds == Layout(edit[i][1])
        IN PutVarint(edit[i][1]) \o
           FlattenSeq([j \in DOMAIN kinds |->
               IF kinds[j] = "slice" THEN PutLengthPrefixedSlice(edit[i][2][j])
               ELSE PutVarint(edit[i][2][j])])])

\* GetLevel, GetVarint64 and GetInternalKey
GetItem(kind, in) ==
    CASE kind = "slice" -> GetLengthPrefixedSlice(in)
      [] kind = "number" -> GetVarint(in)
      [] kind = "level" -> LET v == GetVarint(in)
                           IN [v EXCEPT !.ok = @ /\ v.value < kNumLevels]
\* g read after the items of r
WithItem(r, g) == [ok |-> g.ok, value |-> Append(r.value, g.value), rest |-> g.rest]
GetItems(kinds, in) ==
    FoldLeft(LAMBDA r, kind : IF ~r.ok THEN r ELSE WithItem(r, GetItem(kind, r.rest)),
             [ok |-> TRUE, value |-> <<>>, rest |-> in], kinds)

\* DecodeFrom's loop, after the entries of edit: a tag, and the items that follow it.
WithItems(edit, tag, items) ==
    IF ~items.ok THEN [ok |-> FALSE, edit |-> edit]
    ELSE Entries(items.rest, Append(edit, <<tag, items.value>>))
WithTag(in, edit, tag) ==
    IF ~tag.ok THEN [ok |-> in = <<>>, edit |-> edit]
    ELSE IF Layout(tag.value) = <<>> THEN [ok |-> FALSE, edit |-> edit]
    ELSE WithItems(edit, tag.value, GetItems(Layout(tag.value), tag.rest))
Entries(in, edit) == WithTag(in, edit, GetVarint(in))
DecodeFrom(in) == Entries(in, <<>>)

-----------------------------------------------------------------------------
(***************************************************************************)
(* db/filename.cc.  A name is a prefix, two digits ("%06llu" has six at    *)
(* least) and a suffix.                                                    *)
(***************************************************************************)

MakeFileName(prefix, n, suffix) == <<prefix, (n \div 10) % 10, n % 10, suffix>>
DescriptorFileName(n) == MakeFileName("MANIFEST-", n, "")
LogFileName(n) == MakeFileName("", n, ".log")
TableFileName(n) == MakeFileName("", n, ".ldb")
TempFileName(n) == MakeFileName("", n, ".dbtmp")
CurrentFileName == MakeFileName("CURRENT", 0, "")

ConsumeDecimalNumber(name) == 10 * name[2] + name[3]
ParseFileName(name) ==
    [name |-> name, number |-> ConsumeDecimalNumber(name),
     type |-> CASE name[1] = "CURRENT" -> "current" [] name[1] = "MANIFEST-" -> "manifest"
                [] name[4] = ".log" -> "log" [] name[4] = ".ldb" -> "table"
                [] name[4] = ".dbtmp" -> "temp"]

-----------------------------------------------------------------------------
(***************************************************************************)
(* util/env_posix.cc and what it stands on.  fs.dirs are the directory's   *)
(* images since it was last synced, the last being the present one.        *)
(***************************************************************************)

Dir(f) == Last(f.dirs)
FileExists(f, name) == name \in DOMAIN Dir(f)
Data(f, name) == f.inodes[Dir(f)[name]].data
GetChildren(f) == {ParseFileName(n) : n \in DOMAIN Dir(f)}
Numbers(f, type) == {c.number : c \in {c \in GetChildren(f) : c.type = type}}

\* Inodes that no image names are gone.
Collect(f) == [f EXCEPT !.inodes = Restrict(@, UNION {Range(d) : d \in Range(f.dirs)})]
WithDir(f, d) == IF d = Dir(f) THEN f ELSE Collect([f EXCEPT !.dirs = Append(@, d)])

\* O_TRUNC | O_CREAT
NewWritableFile(f, name) ==
    IF FileExists(f, name)
    THEN [f EXCEPT !.inodes[Dir(f)[name]] = [data |-> <<>>, synced |-> 0]]
    ELSE LET i == Min(1..Cardinality(DOMAIN f.inodes) + 1 \ DOMAIN f.inodes)
         IN WithDir([f EXCEPT !.inodes = @ @@ (i :> [data |-> <<>>, synced |-> 0])],
                    Dir(f) @@ (name :> i))
\* Append and Flush: the chunk has left the process.
Write(f, name, chunk) == [f EXCEPT !.inodes[Dir(f)[name]].data = Append(@, chunk)]
\* SyncFd of the file; and of the directory, which precedes it for a manifest.
SyncDirIfManifest(f, name) ==
    IF name[1] = "MANIFEST-" THEN Collect([f EXCEPT !.dirs = <<Dir(f)>>]) ELSE f
Sync(f, name) == LET d == SyncDirIfManifest(f, name)
                 IN [d EXCEPT !.inodes[Dir(d)[name]].synced = Len(d.inodes[Dir(d)[name]].data)]
DeleteFiles(f, names) == WithDir(f, Restrict(Dir(f), DOMAIN Dir(f) \ names))
RenameFile(f, from, to) ==
    WithDir(f, (to :> Dir(f)[from]) @@ Restrict(Dir(f), DOMAIN Dir(f) \ {from}))

\* A whole file, written and synced (DoWriteStringToFile, BuildTable).
WriteFileSync(f, name, chunk) == Sync(Write(NewWritableFile(f, name), name, chunk), name)

-----------------------------------------------------------------------------
(***************************************************************************)
(* Tables and logs.  A table is the sequence numbers that can be read from *)
(* it and those in damaged blocks; a log's chunks are sequence numbers.    *)
(***************************************************************************)

Table(good) == [good |-> good, bad |-> {}]
TableAt(f, n) == IF FileExists(f, TableFileName(n)) /\ Data(f, TableFileName(n)) # <<>>
                 THEN Data(f, TableFileName(n))[1] ELSE Table({})
LogAt(f, n) == Range(Data(f, LogFileName(n)))

\* All that tables and logs hold, whether a version names them or not.
Readable(f) == UNION {TableAt(f, n).good : n \in Numbers(f, "table")}
               \union UNION {LogAt(f, n) : n \in Numbers(f, "log")}

\* FileMetaData of a table.  Of one user key, the newest entry is the
\* smallest internal key.
Meta(level, n, seqs) == <<level, n, Cardinality(seqs), <<1, Max(seqs)>>, <<1, Min(seqs)>>>>
NumberOf(meta) == meta[2]

-----------------------------------------------------------------------------
(***************************************************************************)
(* VersionSet.                                                             *)
(***************************************************************************)

comparator == <<3, 1>>
Empty == [files |-> {}, pointers |-> << >>, log |-> 0, prev |-> 0, next |-> 2, last |-> 0]

\* Builder::Apply, and the fields that Recover takes from an edit.
ApplyEntry(v, e) ==
    LET x == e[2]
    IN CASE e[1] = kComparator -> [v EXCEPT !.ok = @ /\ x[1] = comparator]
         [] e[1] = kLogNumber -> [v EXCEPT !.log = x[1], !.have = @ \union {"log"}]
         [] e[1] = kPrevLogNumber -> [v EXCEPT !.prev = x[1]]
         [] e[1] = kNextFileNumber -> [v EXCEPT !.next = x[1], !.have = @ \union {"next"}]
         [] e[1] = kLastSequence -> [v EXCEPT !.last = x[1], !.have = @ \union {"last"}]
         [] e[1] = kCompactPointer -> [v EXCEPT !.pointers = (x[1] :> x[2]) @@ @]
         [] e[1] = kDeletedFile -> [v EXCEPT !.files = {m \in @ : <<m[1], m[2]>> # x}]
         [] e[1] = kNewFile -> [v EXCEPT !.files = @ \union {x}]

\* The edit that r has decoded.
ApplyEdit(v, r) == IF ~r.ok THEN [v EXCEPT !.ok = FALSE] ELSE FoldLeft(ApplyEntry, v, r.edit)

\* A record of a manifest.  What was cut off at the end of the file is not
\* reported; a record that follows it, or a wrong checksum, is.
ApplyRecord(v, record, last) ==
    IF record = Torn /\ last THEN v
    ELSE IF record \in {Torn, Bad} THEN [v EXCEPT !.ok = FALSE]
    ELSE ApplyEdit(v, DecodeFrom(record))

\* VersionSet::Recover
CurrentOk(f) == /\ FileExists(f, CurrentFileName) /\ Data(f, CurrentFileName) # <<>>
                /\ Last(Data(f, CurrentFileName)[1]) = "\n"
                /\ FileExists(f, Front(Data(f, CurrentFileName)[1]))
ApplyRecords(records) ==
    FoldLeft(LAMBDA v, i : ApplyRecord(v, records[i], i = Len(records)),
             Empty @@ [ok |-> TRUE, have |-> {}], [i \in DOMAIN records |-> i])
Complete(v) == [v EXCEPT !.ok = @ /\ v.have = {"log", "next", "last"}]
Recovered(f) ==
    IF ~CurrentOk(f) THEN Empty @@ [ok |-> FALSE, have |-> {}]
    ELSE Complete(ApplyRecords(Data(f, Front(Data(f, CurrentFileName)[1]))))

\* The logs that DBImpl::Recover replays, and the tables that it misses.
LogsToReplay(f, v) == {n \in Numbers(f, "log") : n >= v.log \/ n = v.prev}
Missing(f, v) == {NumberOf(m) : m \in v.files} \ {c.number : c \in GetChildren(f)}
\* All that the database holds once it is open.
Contents(f, v) == UNION {TableAt(f, NumberOf(m)).good : m \in v.files}
                  \union UNION {LogAt(f, n) : n \in LogsToReplay(f, v)}

\* The two records that LogAndApply writes.
NewFiles(files) == LET s == Listed(files) IN [i \in DOMAIN s |-> <<kNewFile, s[i]>>]
Deleted(files) == LET s == Listed(files)
                  IN [i \in DOMAIN s |-> <<kDeletedFile, SubSeq(s[i], 1, 2)>>]
Pointers(ps) == LET levels == Listed(DOMAIN ps)
                IN [i \in DOMAIN levels |-> <<kCompactPointer, <<levels[i], ps[levels[i]]>>>>]
Snapshot(v) == <<<<kComparator, <<comparator>>>>>> \o Pointers(v.pointers) \o NewFiles(v.files)
EditRecord(e, v) ==
    <<<<kLogNumber, <<e.log>>>>, <<kPrevLogNumber, <<0>>>>,
      <<kNextFileNumber, <<v.next>>>>, <<kLastSequence, <<v.last>>>>>>
    \o Pointers(e.pointers) \o Deleted(e.deleted) \o NewFiles(e.added)
Applied(e, v) == [v EXCEPT !.log = e.log, !.prev = 0, !.pointers = e.pointers @@ @,
                           !.files = (@ \ e.deleted) \union e.added]

-----------------------------------------------------------------------------
(***************************************************************************)
(* LockFile and UnlockFile.  fcntl locks belong to the process: closing    *)
(* any descriptor of the file gives them up.                               *)
(***************************************************************************)

HasLock(p) == lockfd[p] # 0
\* The inode of LOCK that open() with O_CREAT finds or makes.
LockInode == IF lockfile # 0 THEN lockfile ELSE Max({lockfd[p] : p \in Proc} \union {0}) + 1
\* Mutated LockGranted: only the process's own table of locks is asked.
LockGrantedUnasked(p) == ~HasLock(p)

LockGranted(p) == /\ ~HasLock(p)
                  /\ \A q \in flocked : q # p => lockfd[q] # LockInode
TakeLock(p) == /\ LockGranted(p)
               /\ lockfile' = LockInode
               /\ lockfd' = [lockfd EXCEPT ![p] = LockInode]
               /\ flocked' = flocked \union {p}
LockDenied(p) == /\ ~LockGranted(p)
                 /\ lockfile' = LockInode
                 /\ flocked' = IF HasLock(p) /\ lockfd[p] = LockInode THEN flocked \ {p}
                               ELSE flocked
                 /\ UNCHANGED lockfd
DropLock(p) == /\ lockfd' = [lockfd EXCEPT ![p] = 0]
               /\ flocked' = flocked \ {p}
               /\ UNCHANGED lockfile
NoLockChange == UNCHANGED <<lockfile, lockfd, flocked>>

-----------------------------------------------------------------------------
(***************************************************************************)
(* The processes.  st[p].pc says what p does next, st[p].v is its          *)
(* VersionSet, and job what else the call at hand keeps.                   *)
(***************************************************************************)

Idle == [pc |-> "idle"]
Owners == {p \in Proc : HasLock(p)}

\* Nothing is promised once two processes own the database, or use it while
\* a third repairs it.
Clash == Cardinality(Owners) > 1
Repairing(p) == \/ st[p].pc \in {"convert", "archive", "copy", "discard", "manifest", "repaired"}
                \/ st[p].pc \in {"current", "rename"} /\ st[p].then = "repaired"
Alone(p) == ~Clash /\ \A q \in Proc \ {p} : ~Repairing(q)
Goes(p, next) == st' = [st EXCEPT ![p] = next]
Count(what) == left[what] > 0 /\ left' = [left EXCEPT ![what] = @ - 1]
Fault == Count("faults")
Quiet == UNCHANGED <<told, left>>

Init == /\ fs = [inodes |-> << >>, dirs |-> <<<< >>>>]
        /\ lockfile = 0
        /\ lockfd = [p \in Proc |-> 0]
        /\ flocked = {}
        /\ st = [p \in Proc |-> Idle]
        /\ told = [puts |-> {}, durable |-> {}, power |-> FALSE, intact |-> TRUE, fresh |-> FALSE,
                   limbo |-> {}, leaked |-> FALSE, broken |-> FALSE, salvage |-> {}]
        /\ left \in Budgets

\* DB::Open up to the lock, and DBImpl::Recover's test for CURRENT.
Open(p) ==
    /\ Alone(p) /\ st[p] = Idle
    /\ Count("opens")
    /\ \/ /\ TakeLock(p)
          /\ Goes(p, [pc |-> IF FileExists(fs, CurrentFileName) THEN "recover" ELSE "newdb"])
       \/ /\ LockDenied(p) /\ UNCHANGED st
    /\ UNCHANGED <<fs, told>>

\* A second DB::Open in a process that has the database.
OpenAgain(p) ==
    /\ Alone(p) /\ HasLock(p)
    /\ Count("opens")
    /\ LockDenied(p)
    /\ told' = [told EXCEPT !.leaked = TRUE]
    /\ UNCHANGED <<fs, st>>

\* An Open that fails deletes the DBImpl, which unlocks.
OpenFails(p) == DropLock(p) /\ Goes(p, Idle)

\* NewDB: the first manifest is closed, not synced.
NewDB(p) ==
    LET name == DescriptorFileName(1)
        record == EncodeTo(<<<<kComparator, <<comparator>>>>, <<kLogNumber, <<0>>>>,
                             <<kNextFileNumber, <<2>>>>, <<kLastSequence, <<0>>>>>>)
    IN /\ Alone(p) /\ st[p].pc = "newdb"
       /\ \/ /\ fs' = Write(NewWritableFile(fs, name), name, record)
             /\ Goes(p, [pc |-> "current", number |-> 1, then |-> "recover"])
             /\ NoLockChange /\ UNCHANGED left
             /\ told' = [told EXCEPT !.puts = {}, !.durable = {}, !.limbo = {},
                                     !.fresh = TRUE, !.power = FALSE]
          \/ /\ Fault
             /\ fs' = DeleteFiles(fs, {name})
             /\ OpenFails(p) /\ UNCHANGED told

\* SetCurrentFile: a temporary file, synced, and then renamed.
SetCurrentTemp(p) ==
    LET tmp == TempFileName(st[p].number)
    IN /\ Alone(p) /\ st[p].pc = "current"
       /\ fs' = WriteFileSync(fs, tmp, Append(DescriptorFileName(st[p].number), "\n"))
       /\ Goes(p, [st[p] EXCEPT !.pc = "rename"])
       /\ NoLockChange /\ Quiet

\* What follows SetCurrentFile in its three callers when it failed.
CurrentFails(p, f) ==
    CASE st[p].then = "recover" -> fs' = f /\ OpenFails(p)
      [] st[p].then = "install" -> /\ fs' = DeleteFiles(f, {DescriptorFileName(st[p].number)})
                                   /\ OpenFails(p)
      [] st[p].then = "repaired" -> fs' = f /\ Goes(p, Idle) /\ NoLockChange
SetCurrentFails(p) ==
    /\ Alone(p) /\ st[p].pc \in {"current", "rename"}
    /\ Fault
    /\ CurrentFails(p, DeleteFiles(fs, {TempFileName(st[p].number)}))
    /\ UNCHANGED told

\* DeleteObsoleteFiles, for the version set v with no outputs pending.
Keep(c, v, manifest) ==
    CASE c.type = "log" -> c.number >= v.log \/ c.number = v.prev
      [] c.type = "manifest" -> c.number >= manifest
      [] c.type \in {"table", "temp"} -> c.number \in {NumberOf(m) : m \in v.files}
      [] c.type = "current" -> TRUE
DeleteObsoleteFiles(f, v, manifest) ==
    DeleteFiles(f, {c.name : c \in {c \in GetChildren(f) : ~Keep(c, v, manifest)}})

\* The end of a LogAndApply that succeeded, first: while opening.
Installed(p, f, first) ==
    LET v == Applied(st[p].edit, st[p].v)
    IN /\ fs' = IF st[p].err = "no" THEN DeleteObsoleteFiles(f, v, st[p].manifest) ELSE f
       /\ Goes(p, [pc |-> "open", v |-> v, manifest |-> st[p].manifest,
                   mem |-> IF st[p].edit.log = st[p].v.log THEN st[p].mem ELSE {},
                   logfile |-> st[p].logfile,
                   err |-> IF st[p].err = "no" THEN "no" ELSE "stop"])
       /\ told' = [told EXCEPT !.durable = IF first THEN @
                                           ELSE @ \union UNION {TableAt(f, NumberOf(m)).good :
                                                                  m \in v.files},
                               !.limbo = @ \ {NumberOf(m) : m \in st[p].edit.added},
                               !.broken = FALSE, !.salvage = {}]

SetCurrentRename(p) ==
    LET f == RenameFile(fs, TempFileName(st[p].number), CurrentFileName)
    IN /\ Alone(p) /\ st[p].pc = "rename"
       /\ NoLockChange /\ UNCHANGED left
       /\ CASE st[p].then = "recover" -> /\ fs' = f /\ Goes(p, [pc |-> "recover"])
                                         /\ UNCHANGED told
            [] st[p].then = "install" -> Installed(p, f, TRUE)
            [] st[p].then = "repaired" -> /\ fs' = f /\ Goes(p, [pc |-> "repaired"])
                                          /\ UNCHANGED told

-----------------------------------------------------------------------------
(***************************************************************************)
(* DBImpl::Recover and the rest of DB::Open.                               *)
(***************************************************************************)

MarkFileNumberUsed(v, n) == [v EXCEPT !.next = IF @ <= n THEN n + 1 ELSE @]

\* Mutated RecoverLogFile: what the log holds stays in a memtable.
RecoverLogFileUnsaved(r, n) ==
    [r EXCEPT !.v = MarkFileNumberUsed([@ EXCEPT !.last = Max({@} \union LogAt(r.f, n))], n)]

\* RecoverLogFile for the log n: its contents become a level-0 table.
RecoverLogFile(r, n) ==
    LET seqs == LogAt(r.f, n)
        number == r.v.next
        built == [f |-> WriteFileSync(r.f, TableFileName(number), Table(seqs)),
                  v |-> [r.v EXCEPT !.next = @ + 1, !.last = Max({@} \union seqs)],
                  added |-> r.added \union {Meta(0, number, seqs)}]
        done == IF seqs = {} THEN r ELSE built
    IN [done EXCEPT !.v = MarkFileNumberUsed(@, n)]

\* The state in which the logs are replayed: what was marked used is lost when
\* next_file_number_ is assigned.
BeforeLogs(read) ==
    LET version == [Empty EXCEPT !.files = read.files, !.pointers = read.pointers]
        marked == MarkFileNumberUsed(MarkFileNumberUsed(version, read.prev), read.log)
    IN [marked EXCEPT !.next = read.next + 1, !.last = read.last,
                      !.log = read.log, !.prev = read.prev]
\* The state after them.
Replayed(read) ==
    FoldLeft(RecoverLogFile, [f |-> fs, v |-> BeforeLogs(read), added |-> {}],
             SortSeq(Listed(LogsToReplay(fs, read)), <))

\* The logs are replayed, r is the result; Open goes on to LogAndApply.
LogsReplayed(p, manifest, r, logfile) ==
    /\ fs' = NewWritableFile(r.f, LogFileName(logfile))
    /\ Goes(p, [pc |-> "descriptor", v |-> [r.v EXCEPT !.next = @ + 1],
                manifest |-> manifest, mem |-> {}, logfile |-> logfile, err |-> "no",
                edit |-> [log |-> logfile, pointers |-> << >>, deleted |-> {},
                          added |-> r.added],
                first |-> TRUE])
    /\ told' = [told EXCEPT !.limbo = @ \union {NumberOf(m) : m \in r.added}]

Recover(p) ==
    /\ Alone(p) /\ st[p].pc = "recover"
    /\ \E read \in {Recovered(fs)} :
       \/ /\ read.ok /\ Missing(fs, read) = {}
          /\ \E r \in {Replayed(read)} : LogsReplayed(p, read.next, r, r.v.next)
          /\ NoLockChange /\ UNCHANGED left
       \/ /\ ~read.ok \/ Missing(fs, read) # {}
          /\ OpenFails(p)
          /\ told' = [told EXCEPT !.broken = TRUE]
          /\ UNCHANGED <<fs, left>>
       \/ /\ Fault
          /\ OpenFails(p)
          /\ told' = [told EXCEPT !.broken = TRUE]
          /\ UNCHANGED fs

-----------------------------------------------------------------------------
(***************************************************************************)
(* VersionSet::LogAndApply.                                                *)
(***************************************************************************)

\* What a failed call leaves: nothing of a new manifest; else the error
\* that stops all but the compaction that is under way.
ApplyFails(p, f) ==
    IF st[p].first
    THEN fs' = DeleteFiles(f, {DescriptorFileName(st[p].manifest)}) /\ OpenFails(p)
    ELSE /\ fs' = f /\ NoLockChange
         /\ Goes(p, [pc |-> "open", v |-> st[p].v, manifest |-> st[p].manifest,
                     mem |-> st[p].mem, logfile |-> st[p].logfile,
                     err |-> IF st[p].err = "no" /\ st[p].edit.deleted = {} THEN "last" ELSE "stop"])

\* The snapshot if the manifest is new, and the record of the edit.
WriteRecord(p) ==
    LET name == DescriptorFileName(st[p].manifest)
        f == IF ~st[p].first THEN fs
             ELSE Write(NewWritableFile(fs, name), name, EncodeTo(Snapshot(st[p].v)))
        record == EncodeTo(EditRecord(st[p].edit, st[p].v))
    IN /\ Alone(p) /\ st[p].pc = "descriptor"
       /\ UNCHANGED told
       /\ \/ /\ fs' = Write(f, name, record)
             /\ Goes(p, [st[p] EXCEPT !.pc = "sync"])
             /\ NoLockChange /\ UNCHANGED left
          \/ Fault /\ ApplyFails(p, f)
          \/ Fault /\ ApplyFails(p, Write(f, name, Torn))

SyncRecord(p) ==
    LET name == DescriptorFileName(st[p].manifest)
    IN /\ Alone(p) /\ st[p].pc = "sync"
       /\ \/ /\ st[p].first
             /\ fs' = Sync(fs, name)
             /\ Goes(p, [st[p] EXCEPT !.pc = "current"] @@
                        [number |-> st[p].manifest, then |-> "install"])
             /\ told' = [told EXCEPT !.intact = @ \/ told.fresh, !.fresh = FALSE]
             /\ NoLockChange /\ UNCHANGED left
          \/ ~st[p].first /\ Installed(p, Sync(fs, name), FALSE) /\ NoLockChange /\ UNCHANGED left
          \/ Fault /\ ApplyFails(p, fs) /\ UNCHANGED told
          \/ Fault /\ ApplyFails(p, SyncDirIfManifest(fs, name)) /\ UNCHANGED told

-----------------------------------------------------------------------------
(***************************************************************************)
(* The open database.                                                      *)
(***************************************************************************)

\* DBImpl::Write of one entry, not synced.
Put(p) ==
    LET seq == st[p].v.last + 1
    IN /\ Alone(p) /\ st[p].pc = "open" /\ st[p].err = "no"
       /\ Count("puts")
       /\ fs' = Write(fs, LogFileName(st[p].logfile), seq)
       /\ Goes(p, [st[p] EXCEPT !.v.last = seq, !.mem = @ \union {seq}])
       /\ told' = [told EXCEPT !.puts = @ \union {seq}]
       /\ NoLockChange

\* A LogAndApply of the open database, with the tables that it adds built.
Edit(p, f, next, e, logfile) ==
    /\ fs' = f
    /\ Goes(p, [pc |-> "descriptor", v |-> [st[p].v EXCEPT !.next = next],
                manifest |-> st[p].manifest, mem |-> st[p].mem, logfile |-> logfile,
                err |-> st[p].err, edit |-> e, first |-> FALSE])
    /\ told' = [told EXCEPT !.limbo = @ \union {NumberOf(m) : m \in e.added}]
    /\ NoLockChange

\* The memtable switch of MakeRoomForWrite
Flush(p) ==
    /\ Alone(p) /\ Count("edits")
    /\ st[p].pc = "open" /\ st[p].err = "no" /\ st[p].mem # {}
    /\ fs' = NewWritableFile(fs, LogFileName(st[p].v.next))
    /\ Goes(p, [st[p] EXCEPT !.pc = "flush", !.logfile = st[p].v.next, !.v.next = @ + 1])
    /\ NoLockChange /\ UNCHANGED told

\* WriteLevel0Table and what CompactMemTable records
WriteLevel0Table(p) ==
    LET number == st[p].v.next
    IN /\ Alone(p) /\ st[p].pc = "flush"
       /\ Edit(p, WriteFileSync(fs, TableFileName(number), Table(st[p].mem)), number + 1,
               [log |-> st[p].logfile, pointers |-> << >>, deleted |-> {},
                added |-> {Meta(0, number, st[p].mem)}], st[p].logfile)
       /\ UNCHANGED left

\* A compaction of level 0 into level 1.
Compact(p) ==
    LET inputs == st[p].v.files
        seqs == UNION {TableAt(fs, NumberOf(m)).good : m \in inputs}
        number == st[p].v.next
    IN /\ Alone(p) /\ Count("edits")
       /\ st[p].pc = "open" /\ st[p].err # "stop"
       /\ \E m \in inputs : m[1] = 0
       /\ seqs # {}
       /\ Edit(p, WriteFileSync(fs, TableFileName(number), Table(seqs)), number + 1,
               [log |-> st[p].v.log, pointers |-> (0 :> <<1, Min(seqs)>>), deleted |-> inputs,
                added |-> {Meta(1, number, seqs)}], st[p].logfile)

\* ~DBImpl
Close(p) == /\ Alone(p) /\ st[p].pc = "open"
            /\ OpenFails(p)
            /\ UNCHANGED <<fs, told, left>>

-----------------------------------------------------------------------------
(***************************************************************************)
(* Failures.                                                               *)
(***************************************************************************)

\* What is in a table or a log that no sync has reached, under any name that
\* it has in an image of the directory.
NotSynced ==
    LET loose(d) == {c \in {ParseFileName(n) : n \in DOMAIN d} :
                        fs.inodes[d[c.name]].synced < Len(fs.inodes[d[c.name]].data)}
        held(d, c) == CASE c.type = "table" -> fs.inodes[d[c.name]].data[1].good
                        [] c.type = "log" -> Range(fs.inodes[d[c.name]].data)
                        [] OTHER -> {}
    IN UNION {UNION {held(d, c) : c \in loose(d)} : d \in Range(fs.dirs)}

\* What RepairTable is copying, its source being archived.
Copying == UNION {st[p].seqs : p \in {q \in Proc : st[q].pc = "copy"}}

\* A process ends; what it had written is with the operating system.  The
\* copy that RepairTable had not finished is no table.
Kill(p) ==
    /\ Alone(p) /\ st[p] # Idle
    /\ Fault
    /\ DropLock(p) /\ Goes(p, Idle)
    /\ told' = [told EXCEPT !.salvage = IF st[p].pc = "copy" THEN @ \ (Copying \ Readable(fs))
                                        ELSE @]
    /\ UNCHANGED fs

PowerFailure ==
    /\ ~Clash /\ Fault
    /\ \E i \in DOMAIN fs.dirs :
         LET named == Range(fs.dirs[i])
             loose == {n \in named : fs.inodes[n].synced < Len(fs.inodes[n].data)}
             longest == Max({Len(fs.inodes[n].data) : n \in named} \union {0})
         IN \E cut \in [loose -> 0..longest] :
              /\ \A n \in loose : cut[n] \in fs.inodes[n].synced..Len(fs.inodes[n].data)
              /\ fs' = [dirs |-> <<fs.dirs[i]>>,
                        inodes |-> [n \in named |->
                          LET kept == IF n \in loose THEN cut[n] ELSE Len(fs.inodes[n].data)
                          IN [data |-> SubSeq(fs.inodes[n].data, 1, kept), synced |-> kept]]]
    /\ lockfd' = [p \in Proc |-> 0] /\ flocked' = {} /\ UNCHANGED lockfile
    /\ st' = [p \in Proc |-> Idle]
    /\ told' = [told EXCEPT !.power = TRUE, !.fresh = FALSE,
                            !.salvage = @ \ (Copying \union NotSynced)]

\* A block of a table, or a record of a manifest, goes bad on the disk.
Damage ==
    /\ \A p \in Proc : st[p] = Idle
    /\ Fault
    /\ \/ \E n \in Numbers(fs, "table") :
            \E seq \in TableAt(fs, n).good :
              /\ fs' = [fs EXCEPT !.inodes[Dir(fs)[TableFileName(n)]].data[1] =
                         [good |-> @.good \ {seq}, bad |-> @.bad \union {seq}]]
              /\ told' = [told EXCEPT !.intact = FALSE, !.fresh = FALSE,
                                      !.salvage = @ \ ({seq} \ Readable(fs'))]
       \/ \E n \in Numbers(fs, "manifest") :
            \E i \in DOMAIN Data(fs, DescriptorFileName(n)) :
              /\ fs' = [fs EXCEPT !.inodes[Dir(fs)[DescriptorFileName(n)]].data[i] = Bad]
              /\ told' = [told EXCEPT !.intact = FALSE, !.fresh = FALSE]
    /\ NoLockChange /\ UNCHANGED st

-----------------------------------------------------------------------------
(***************************************************************************)
(* DestroyDB.                                                              *)
(***************************************************************************)

\* GetChildren comes before the lock.  The order of a directory is taken to be
\* one or the other way round.
DestroyList(p) ==
    /\ Alone(p) /\ st[p] = Idle
    /\ Count("opens")
    /\ LET names == Listed(DOMAIN Dir(fs))
       IN \E listed \in {names, Reverse(names)} : Goes(p, [pc |-> "destroy", names |-> listed])
    /\ NoLockChange /\ UNCHANGED <<fs, told>>

DestroyLock(p) ==
    /\ Alone(p) /\ st[p].pc = "destroy"
    /\ \/ TakeLock(p) /\ Goes(p, [st[p] EXCEPT !.pc = "delete"])
       \/ LockDenied(p) /\ Goes(p, Idle)
    /\ UNCHANGED <<fs, told, left>>

\* A power failure that undoes deletions is one that came earlier.
DestroyDelete(p) ==
    /\ Alone(p) /\ st[p].pc = "delete"
    /\ st[p].names # <<>>
    /\ fs' = Collect([fs EXCEPT !.dirs =
                          <<Restrict(Dir(fs), DOMAIN Dir(fs) \ {Head(st[p].names)})>>])
    /\ Goes(p, [st[p] EXCEPT !.names = Tail(@)])
    /\ told' = [told EXCEPT !.intact = FALSE, !.fresh = FALSE, !.salvage = {}]
    /\ NoLockChange /\ UNCHANGED left

DestroyUnlock(p) ==
    /\ Alone(p) /\ st[p].pc = "delete" /\ st[p].names = <<>>
    /\ DropLock(p)
    /\ Goes(p, [pc |-> "unlink"])
    /\ UNCHANGED <<fs, told, left>>

\* LOCK is deleted when it is no longer locked, or locked by another.
DestroyUnlink(p) ==
    /\ Alone(p) /\ st[p].pc = "unlink"
    /\ lockfile' = 0
    /\ told' = [told EXCEPT !.leaked = @ \/ \E q \in Proc : HasLock(q)]
    /\ Goes(p, Idle)
    /\ UNCHANGED <<fs, lockfd, flocked, left>>

-----------------------------------------------------------------------------
(***************************************************************************)
(* RepairDB, called where Open has failed.  It takes no lock.              *)
(***************************************************************************)

FindFiles(p) ==
    LET others == {c \in GetChildren(fs) : c.type # "manifest"}
    IN /\ \A q \in Proc : st[q] = Idle
       /\ told.broken /\ DOMAIN Dir(fs) # {}
       /\ Count("repairs")
       /\ Goes(p, [pc |-> "convert", next |-> Max({c.number : c \in others} \union {0}) + 1,
                   logs |-> Numbers(fs, "log"), numbers |-> Numbers(fs, "table"),
                   manifests |-> {DescriptorFileName(n) : n \in Numbers(fs, "manifest")},
                   tables |-> {}])
       /\ told' = [told EXCEPT !.salvage = @ \union Readable(fs), !.intact = FALSE,
                               !.fresh = FALSE]
       /\ NoLockChange /\ UNCHANGED fs

\* Between two steps of the repair, the rest of them.
Resume(p) == [f \in {"pc", "next", "logs", "numbers", "manifests", "tables"} |->
                  IF f = "pc" THEN "convert" ELSE st[p][f]]

\* Mutated ConvertLogToTable: the new table is not among those to be scanned.
ConvertLogOnly(p) ==
    /\ st[p].pc = "convert"
    /\ \E n \in st[p].logs :
         /\ fs' = IF LogAt(fs, n) = {} THEN fs
                  ELSE WriteFileSync(fs, TableFileName(st[p].next), Table(LogAt(fs, n)))
         /\ Goes(p, [st[p] EXCEPT !.pc = "archive", !.next = @ + 1] @@ [log |-> n])
    /\ NoLockChange /\ Quiet

\* ConvertLogToTable: BuildTable leaves no file of a log with nothing in it.
ConvertLogToTable(p) ==
    /\ st[p].pc = "convert"
    /\ \E n \in st[p].logs :
         LET seqs == LogAt(fs, n)
             table == TableFileName(st[p].next)
             built == IF seqs = {} THEN {} ELSE {st[p].next}
         IN /\ fs' = IF seqs = {} THEN fs ELSE WriteFileSync(fs, table, Table(seqs))
            /\ Goes(p, [st[p] EXCEPT !.pc = "archive", !.next = @ + 1,
                                     !.numbers = @ \union built] @@ [log |-> n])
    /\ NoLockChange /\ Quiet

\* ArchiveFile of the log, even if its conversion failed.
ArchiveLog(p) ==
    /\ st[p].pc = "archive"
    /\ fs' = DeleteFiles(fs, {LogFileName(st[p].log)})
    /\ Goes(p, [Resume(p) EXCEPT !.logs = @ \ {st[p].log}])
    /\ NoLockChange /\ Quiet

\* ScanTable of a table that reads well, or that needs RepairTable, as one
\* with nothing in it does: its copy is begun and the table archived.
ScanTable(p) ==
    /\ st[p].pc = "convert" /\ st[p].logs = {}
    /\ \E n \in st[p].numbers :
         LET t == TableAt(fs, n)
             scanned == [st[p] EXCEPT !.numbers = @ \ {n}]
             copy == TableFileName(st[p].next)
         IN IF t.bad = {} /\ t.good # {}
            THEN /\ Goes(p, [scanned EXCEPT !.tables = @ \union {<<n, t.good>>}])
                 /\ UNCHANGED fs
            ELSE /\ fs' = DeleteFiles(NewWritableFile(fs, copy), {TableFileName(n)})
                 /\ Goes(p, [scanned EXCEPT !.pc = "copy", !.next = @ + 1] @@
                            [table |-> n, seqs |-> t.good, copy |-> copy])
    /\ NoLockChange /\ Quiet

\* The end of RepairTable: the copy is finished, not synced, and renamed; one
\* of nothing stays as it is.
FinishCopy(p) ==
    LET written == Write(fs, st[p].copy, Table(st[p].seqs))
    IN /\ st[p].pc = "copy"
       /\ IF st[p].seqs = {}
          THEN fs' = fs /\ Goes(p, Resume(p))
          ELSE /\ fs' = RenameFile(written, st[p].copy, TableFileName(st[p].table))
               /\ Goes(p, [Resume(p) EXCEPT !.tables = @ \union {<<st[p].table, st[p].seqs>>}])
       /\ NoLockChange /\ Quiet

\* WriteDescriptor: the new descriptor in a temporary file, not synced.
WriteDescriptor(p) ==
    LET tables == st[p].tables
        files == {Meta(0, t[1], t[2]) : t \in tables}
        record == EncodeTo(<<<<kComparator, <<comparator>>>>, <<kLogNumber, <<0>>>>,
                             <<kNextFileNumber, <<st[p].next>>>>,
                             <<kLastSequence, <<Max(UNION {t[2] : t \in tables} \union {0})>>>>>>
                           \o NewFiles(files))
    IN /\ st[p].pc = "convert" /\ st[p].logs = {} /\ st[p].numbers = {}
       /\ fs' = Write(NewWritableFile(fs, TempFileName(1)), TempFileName(1), record)
       /\ Goes(p, [pc |-> "discard", manifests |-> st[p].manifests])
       /\ NoLockChange /\ Quiet

DiscardManifests(p) ==
    /\ st[p].pc = "discard"
    /\ fs' = DeleteFiles(fs, st[p].manifests)
    /\ Goes(p, [pc |-> "manifest"])
    /\ NoLockChange /\ Quiet

InstallManifest(p) ==
    /\ st[p].pc = "manifest"
    /\ fs' = RenameFile(fs, TempFileName(1), DescriptorFileName(1))
    /\ Goes(p, [pc |-> "current", number |-> 1, then |-> "repaired"])
    /\ NoLockChange /\ Quiet

\* Where there was neither a table nor a log, the next manifest has number 1
\* too, and the next Open writes it over the one in force.
RepairReturns(p) ==
    /\ st[p].pc = "repaired"
    /\ Goes(p, Idle)
    /\ told' = [told EXCEPT !.puts = Contents(fs, Recovered(fs)), !.durable = {}, !.limbo = {},
                            !.fresh = Recovered(fs).next > 1, !.power = FALSE]
    /\ NoLockChange /\ UNCHANGED <<fs, left>>

-----------------------------------------------------------------------------
Step(p) == \/ Open(p) \/ OpenAgain(p) \/ NewDB(p)
           \/ SetCurrentTemp(p) \/ SetCurrentRename(p) \/ SetCurrentFails(p)
           \/ Recover(p) \/ WriteRecord(p) \/ SyncRecord(p)
           \/ Put(p) \/ Flush(p) \/ WriteLevel0Table(p) \/ Compact(p) \/ Close(p) \/ Kill(p)
           \/ DestroyList(p) \/ DestroyLock(p) \/ DestroyDelete(p)
           \/ DestroyUnlock(p) \/ DestroyUnlink(p)
           \/ FindFiles(p) \/ ConvertLogToTable(p) \/ ArchiveLog(p) \/ ScanTable(p) \/ FinishCopy(p)
           \/ WriteDescriptor(p) \/ DiscardManifests(p) \/ InstallManifest(p)
           \/ RepairReturns(p)
Next == (\E p \in Proc : Step(p)) \/ PowerFailure \/ Damage

Spec == Init /\ [][Next]_vars

-----------------------------------------------------------------------------
(***************************************************************************)
(* Properties.                                                             *)
(***************************************************************************)

\* The lock keeps a second process out, but for the two ways in which a
\* process gives it away: a second Open in the owner's process closes a
\* descriptor of LOCK, which drops the fcntl lock, and DestroyDB unlinks
\* LOCK after another process has locked it (LockFile, DestroyDB).
OneOwner == Clash => told.leaked

\* A manifest in which nothing can be read, as NewDB leaves it when the power
\* fails, and one in which a record follows a torn one.
NeverSynced(f) == Data(f, CurrentFileName)[1] = Append(DescriptorFileName(1), "\n")
                  /\ Data(f, DescriptorFileName(1)) = <<>>
TornInside(f) == LET records == Data(f, Front(Data(f, CurrentFileName)[1]))
                 IN \E i \in 1..Len(records) - 1 : records[i] = Torn

\* Whenever it happens that the processes end or the power fails, the
\* directory is one that Open makes a database of, holding all that was
\* promised: every write, if the power has not failed, and else what the
\* tables held when a LogAndApply of the open database last succeeded.  The
\* exceptions are the first manifest, which NewDB does not sync; a torn
\* record that a later one follows; and a record that reached the disk before
\* the tables it adds had, of an edit that was not acknowledged.
PromisedSurvive ==
    told.intact /\ FileExists(fs, CurrentFileName) =>
        \/ CurrentOk(fs) /\ (NeverSynced(fs) \/ TornInside(fs))
        \/ LET r == Recovered(fs)
           IN /\ r.ok
              /\ \/ Missing(fs, r) # {} /\ Missing(fs, r) \subseteq told.limbo /\ told.power
                 \/ /\ Missing(fs, r) = {}
                    /\ IF told.power THEN told.durable \subseteq Contents(fs, r)
                       ELSE told.puts \subseteq Contents(fs, r)
                    /\ \A m \in r.files : m[4][2] <= r.last /\ NumberOf(m) < r.next

\* A repair that returns leaves a descriptor with which all is in the database
\* that could be read when it began, or when a repair before it began that did
\* not come to its end; and no number is given out again that a table has
\* (Repairer::Run).  A kill may only lose the copy that RepairTable had not
\* finished, a power failure only that and what had not been synced.
RepairKeeps ==
    \A p \in Proc : st[p].pc = "repaired" =>
        LET r == Recovered(fs)
        IN /\ r.ok /\ Missing(fs, r) = {}
           /\ told.salvage \subseteq Contents(fs, r)
           /\ \A m \in r.files : m[4][2] <= r.last
           /\ \A n \in Numbers(fs, "table") : n < r.next
=============================================================================
