----------------------------- MODULE WriteQueue -----------------------------
(***************************************************************************)
(* The threads of LevelDB and the path of a batch to the disk: DBImpl's    *)
(* queue of writers with group commit (db/db_impl.cc), the log it appends  *)
(* to (LogFormat), the background thread of util/env_posix.cc that makes   *)
(* room by flushing memtables and merging level-0 tables, TEST_Compact-    *)
(* MemTable as the client that forces a flush, and the destructor.         *)
(*                                                                         *)
(* A step is what a thread does while it holds mutex_, or one file         *)
(* operation outside it.  Sleeping on a condition variable is explicit, so *)
(* that a missing signal shows.  A batch is identified by its client, who  *)
(* writes once; what batches say is the matter of DBImpl.                  *)
(***************************************************************************)
EXTENDS LogFormat, FiniteSets

CONSTANTS Client,
          Requests,     \* what each client may ask for: [size, sync], size 0
                        \* for the null batch of TEST_CompactMemTable
          MaxGroup,     \* BuildBatchGroup's limit on a group's size,
          SmallBatch,   \* and by how much a batch up to this size may grow
          WriteBuffer,  \* write_buffer_size
          L0Compact, L0Slowdown, L0Stop,  \* kL0_...Trigger
          MaxErrors,    \* bound on failing file operations
          None

ASSUME QueueAssumption ==
    /\ \A c \in Client : \A r \in Requests[c] : r.size \in Nat /\ r.sync \in BOOLEAN
    /\ {MaxGroup, SmallBatch, WriteBuffer, MaxErrors} \subseteq Nat
    /\ {L0Compact, L0Slowdown, L0Stop} \subseteq Nat \ {0}
    /\ L0Compact <= L0Slowdown /\ L0Slowdown <= L0Stop
    /\ None \notin {"ok", "error"} /\ None \notin Seq(SUBSET Client)

VARIABLES
    req, pc, result,   \* per client: its request, where it is, its status
    queue,             \* writers_
    last,              \* length of the queue up to last_writer
    force, mayDelay,   \* locals of MakeRoomForWrite
    log, old,          \* the log of mem_, and of imm_
    mem, imm,          \* the groups of batches in mem_, in the order they were
                       \* inserted, and those in imm_ (None: null)
    tables,            \* the batches in tables
    l0, merging,       \* level-0 files; how many of them are being merged
    scheduled,         \* background_compaction_scheduled_
    work, bg,          \* background_work_queue_ and the thread that serves it
    bgError, errors,
    closer             \* the thread in ~DBImpl

clients == <<req, pc, result, queue, last, force, mayDelay>>
store == <<log, old, mem, imm, tables>>
back == <<l0, merging, scheduled, work, bg>>
vars == <<clients, store, back, bgError, errors, closer>>

\* recs and failed are for the properties: the records written whole, and
\* whether an append has failed.
NewLog == [cells |-> <<>>, offset |-> 0, synced |-> 0, recs |-> <<>>, failed |-> FALSE]

Init ==
    /\ req = [c \in Client |-> None] /\ pc = [c \in Client |-> "idle"]
    /\ result = [c \in Client |-> None]
    /\ queue = <<>> /\ last = 0 /\ force = FALSE /\ mayDelay = FALSE
    /\ log = NewLog /\ old = None /\ mem = <<>> /\ imm = None /\ tables = {}
    /\ l0 = 0 /\ merging = 0 /\ scheduled = FALSE /\ work = 0 /\ bg = "none"
    /\ bgError = FALSE /\ errors = 0 /\ closer = "no"

Null(c) == req[c].size = 0

\* The first n writers.
Foremost(n) == {queue[i] : i \in 1..n}

shuttingDown == closer # "no"

\* background_work_finished_signal_.SignalAll()
Woken(p) == [c \in Client |-> CASE p[c] = "room wait" -> "room"
                                [] p[c] = "flush wait" -> "flush"
                                [] OTHER -> p[c]]
CloserWoken == IF closer = "waiting" THEN "awake" ELSE closer

\* PosixEnv::Schedule: the thread is started or, if the queue was empty and
\* it is waiting, woken up.
Schedule(thread) ==
    /\ work' = work + 1
    /\ bg' = IF thread = "none" \/ (work = 0 /\ thread = "waiting") THEN "ready"
             ELSE thread

\* MaybeScheduleCompaction, with the state it looks at after the caller's
\* changes; thread is where the background thread is then.
MaybeScheduleCompaction(already, error, immutable, level0, thread) ==
    IF already \/ shuttingDown \/ error \/ (immutable = None /\ level0 < L0Compact)
    THEN scheduled' = already /\ work' = work /\ bg' = thread
    ELSE scheduled' = TRUE /\ Schedule(thread)

-----------------------------------------------------------------------------
(***************************************************************************)
(* Writers.                                                                *)
(***************************************************************************)

\* The start of Write: a client that finds others before it goes to sleep.
Write(c, r) ==
    /\ pc[c] = "idle" /\ ~shuttingDown
    /\ req' = [req EXCEPT ![c] = r]
    /\ queue' = Append(queue, c)
    /\ IF queue = <<>>
       THEN /\ pc' = [pc EXCEPT ![c] = "room"]
            /\ force' = (r.size = 0) /\ mayDelay' = (r.size # 0)
       ELSE pc' = [pc EXCEPT ![c] = "sleeping"] /\ UNCHANGED <<force, mayDelay>>
    /\ UNCHANGED <<result, last, store, back, bgError, errors, closer>>

\* A client wakes up in Write: another has done its work, or it is its turn.
WakeUp(c) ==
    /\ pc[c] = "awake"
    /\ IF result[c] # None
       THEN /\ pc' = [pc EXCEPT ![c] = IF Null(c) /\ result[c] = "ok" THEN "flush"
                                       ELSE "returned"]
            /\ UNCHANGED <<force, mayDelay>>
       ELSE IF c = queue[1]
       THEN pc' = [pc EXCEPT ![c] = "room"] /\ force' = Null(c) /\ mayDelay' = ~Null(c)
       ELSE pc' = [pc EXCEPT ![c] = "sleeping"] /\ UNCHANGED <<force, mayDelay>>
    /\ UNCHANGED <<req, result, queue, last, store, back, bgError, errors, closer>>

\* The size of a group of the first n writers.
GroupSize(n) == FoldLeft(LAMBDA s, c : s + req[c].size, 0, SubSeq(queue, 1, n))

\* max_size: the group of a small batch stays small.
MaxSize == LET first == req[queue[1]].size
           IN IF first <= SmallBatch THEN first + SmallBatch ELSE MaxGroup

\* Mutated Joins: a sync write joins a group whose leader does not sync.
JoinsAnySync(n) == Null(queue[n]) \/ GroupSize(n) <= MaxSize

\* The n-th writer joins the group.  A sync write is not handled by a leader
\* that does not sync; null batches are passed over.
Joins(n) == /\ req[queue[n]].sync => req[queue[1]].sync
            /\ Null(queue[n]) \/ GroupSize(n) <= MaxSize

\* BuildBatchGroup: how far down the queue the group goes.
BuildBatchGroup ==
    CHOOSE n \in 1..Len(queue) : /\ \A m \in 2..n : Joins(m)
                                 /\ n < Len(queue) => ~Joins(n + 1)

\* Mutated PopWriters: the new head of the queue is not signalled.
PopWritersSilent(c, upto, status, p) ==
    LET done == Foremost(upto)
    IN /\ result' = [d \in Client |-> IF d \in done THEN status ELSE result[d]]
       /\ queue' = SubSeq(queue, upto + 1, Len(queue))
       /\ pc' = [d \in Client |->
                   IF d = c THEN (IF Null(c) /\ status = "ok" THEN "flush" ELSE "returned")
                   ELSE IF p[d] = "sleeping" /\ d \in done THEN "awake" ELSE p[d]]
       /\ last' = 0

\* The end of Write: the writers up to last_writer get the leader's status,
\* and the new head of the queue is woken up.  p is pc with other changes.
PopWriters(c, upto, status, p) ==
    LET done == Foremost(upto)
        rest == SubSeq(queue, upto + 1, Len(queue))
        wakes(d) == p[d] = "sleeping" /\ (d \in done \/ (rest # <<>> /\ d = rest[1]))
    IN /\ result' = [d \in Client |-> IF d \in done THEN status ELSE result[d]]
       /\ queue' = rest
       /\ pc' = [d \in Client |->
                   IF d = c THEN (IF Null(c) /\ status = "ok" THEN "flush" ELSE "returned")
                   ELSE IF wakes(d) THEN "awake" ELSE p[d]]
       /\ last' = 0

\* mem_->ApproximateMemoryUsage()
MemSize == MapThenSumSet(LAMBDA c : req[c].size, UNION ToSet(mem))

\* Write after MakeRoomForWrite has returned OK.
RoomMade(c) ==
    IF Null(c) THEN PopWriters(c, 1, "ok", pc)
    ELSE /\ last' = BuildBatchGroup
         /\ pc' = [pc EXCEPT ![c] = "logging"]
         /\ UNCHANGED <<queue, result>>

\* One round of the loop in MakeRoomForWrite.
MakeRoomForWrite(c) ==
    /\ pc[c] = "room"
    /\ LET mustDelay == mayDelay /\ l0 >= L0Slowdown
           room == ~force /\ MemSize <= WriteBuffer
           blocked == imm # None \/ l0 >= L0Stop
       IN \/ /\ bgError
             /\ PopWriters(c, 1, "error", pc)
             /\ UNCHANGED <<mayDelay, store, back, errors>>
          \/ /\ ~bgError /\ mustDelay
             /\ pc' = [pc EXCEPT ![c] = "delayed"] /\ mayDelay' = FALSE
             /\ UNCHANGED <<result, queue, last, store, back, errors>>
          \/ /\ ~bgError /\ ~mustDelay /\ room
             /\ RoomMade(c)
             /\ UNCHANGED <<mayDelay, store, back, errors>>
          \/ /\ ~bgError /\ ~mustDelay /\ ~room /\ blocked
             /\ pc' = [pc EXCEPT ![c] = "room wait"]
             /\ UNCHANGED <<result, queue, last, mayDelay, store, back, errors>>
          \/ /\ ~bgError /\ ~mustDelay /\ ~room /\ ~blocked
             /\ RoomMade(c)
             /\ old' = log /\ log' = NewLog /\ imm' = mem /\ mem' = <<>>
             /\ MaybeScheduleCompaction(scheduled, FALSE, mem, l0, bg)
             /\ UNCHANGED <<mayDelay, tables, l0, merging, errors>>
          \/ \* the new log cannot be created
             /\ ~bgError /\ ~mustDelay /\ ~room /\ ~blocked /\ errors < MaxErrors
             /\ PopWriters(c, 1, "error", pc)
             /\ errors' = errors + 1
             /\ UNCHANGED <<mayDelay, store, back>>
    /\ UNCHANGED <<req, force, bgError, closer>>

\* SleepForMicroseconds is over.
Delayed(c) ==
    /\ pc[c] = "delayed"
    /\ pc' = [pc EXCEPT ![c] = "room"]
    /\ UNCHANGED <<req, result, queue, last, force, mayDelay, store, back,
                   bgError, errors, closer>>

\* The record of a group: the contents of its batches, one after the other.
Contents(group) ==
    FlattenSeq([i \in DOMAIN group |-> [j \in 1..req[group[i]].size |-> <<group[i], j>>]])

\* log_->AddRecord, outside the mutex.  When a write fails, part of the
\* record may be in the file; block_offset_ has moved past the fragment that
\* failed all the same, and what PosixWritableFile had buffered is dropped.
LogRecord(c) ==
    /\ pc[c] = "logging"
    /\ LET data == Contents(SubSeq(queue, 1, last))
           pieces == AddRecord(log.offset, data)
           upTo(n) == Cells(SubSeq(pieces, 1, n))
       IN \/ /\ log' = [log EXCEPT !.cells = @ \o upTo(Len(pieces)),
                                   !.offset = pieces[Len(pieces)].offset,
                                   !.recs = Append(@, data)]
             /\ pc' = [pc EXCEPT ![c] = "logged"]
             /\ UNCHANGED errors
          \/ /\ errors < MaxErrors /\ errors' = errors + 1
             /\ \E n \in 1..Len(pieces) :
                \E k \in Len(upTo(n - 1)) .. Len(upTo(n)) - 1 :
                   log' = [log EXCEPT !.cells = @ \o SubSeq(upTo(n), 1, k),
                                      !.offset = pieces[n].offset,
                                      !.failed = TRUE]
             /\ pc' = [pc EXCEPT ![c] = "failed"]
    /\ UNCHANGED <<req, result, queue, last, force, mayDelay, old, mem, imm, tables,
                   back, bgError, closer>>

\* Mutated Commit: only the leader's own batch is inserted.
CommitLeaderOnly(c) ==
    \/ /\ pc[c] = "logged"
       /\ mem' = Append(mem, {c})
       /\ log' = IF req[c].sync THEN [log EXCEPT !.synced = Len(log.cells)] ELSE log
       /\ PopWriters(c, last, "ok", pc)
       /\ UNCHANGED <<req, force, mayDelay, old, imm, tables, back, bgError, errors, closer>>
    \/ /\ pc[c] = "failed"
       /\ PopWriters(c, last, "error", pc)
       /\ UNCHANGED <<req, force, mayDelay, store, back, bgError, errors, closer>>

\* The rest of Write: Sync, InsertInto, and the mutex again.
Commit(c) ==
    \/ /\ pc[c] = "logged"
       /\ mem' = Append(mem, {d \in Foremost(last) : ~Null(d)})
       /\ log' = IF req[c].sync THEN [log EXCEPT !.synced = Len(log.cells)] ELSE log
       /\ PopWriters(c, last, "ok", pc)
       /\ UNCHANGED <<bgError, errors, closer>>
       /\ UNCHANGED <<req, force, mayDelay, old, imm, tables, back>>
    \/ \* Sync fails: RecordBackgroundError
       /\ pc[c] = "logged" /\ req[c].sync /\ errors < MaxErrors
       /\ errors' = errors + 1 /\ bgError' = TRUE
       /\ PopWriters(c, last, "error", Woken(pc)) /\ closer' = CloserWoken
       /\ UNCHANGED <<req, force, mayDelay, store, back>>
    \/ /\ pc[c] = "failed"
       /\ PopWriters(c, last, "error", pc)
       /\ UNCHANGED <<req, force, mayDelay, store, back, bgError, errors, closer>>

\* TEST_CompactMemTable waits until the memtable it has made immutable is in
\* a table.
TEST_CompactMemTable(c) ==
    /\ pc[c] = "flush"
    /\ IF imm # None /\ ~bgError
       THEN pc' = [pc EXCEPT ![c] = "flush wait"] /\ UNCHANGED result
       ELSE /\ pc' = [pc EXCEPT ![c] = "returned"]
            /\ result' = [result EXCEPT ![c] = IF imm # None THEN "error" ELSE @]
    /\ UNCHANGED <<req, queue, last, force, mayDelay, store, back, bgError, errors, closer>>

-----------------------------------------------------------------------------
(***************************************************************************)
(* The background thread.                                                  *)
(***************************************************************************)

\* PosixEnv::BackgroundThreadMain
BackgroundThreadMain ==
    /\ bg = "ready"
    /\ IF work = 0 THEN bg' = "waiting" /\ work' = work
       ELSE bg' = "call" /\ work' = work - 1
    /\ UNCHANGED <<clients, store, l0, merging, scheduled, bgError, errors, closer>>

\* Mutated BackgroundDone: the destructor is not woken up.
BackgroundDoneSilent(error, immutable, level0) ==
    /\ MaybeScheduleCompaction(FALSE, error, immutable, level0, "ready")
    /\ pc' = Woken(pc) /\ closer' = closer

\* The end of BackgroundCall.
BackgroundDone(error, immutable, level0) ==
    /\ MaybeScheduleCompaction(FALSE, error, immutable, level0, "ready")
    /\ pc' = Woken(pc) /\ closer' = CloserWoken

\* BackgroundCall and BackgroundCompaction up to the first Unlock.
BackgroundCall ==
    /\ bg = "call"
    /\ IF shuttingDown \/ bgError \/ (imm = None /\ l0 < L0Compact)
       THEN /\ BackgroundDone(bgError, imm, l0)
            /\ UNCHANGED merging
       ELSE /\ bg' = IF imm # None THEN "flush" ELSE "merge"
            /\ merging' = IF imm # None THEN 0 ELSE l0
            /\ UNCHANGED <<scheduled, work, pc, closer>>
    /\ UNCHANGED <<req, result, queue, last, force, mayDelay, store, l0, bgError, errors>>

\* CompactMemTable: the immutable memtable becomes a table, at level 0 or
\* below (none if it is empty), and its log is deleted.
CompactMemTable ==
    \/ /\ ~shuttingDown
       /\ tables' = tables \union UNION ToSet(imm)
       /\ imm' = None /\ old' = None
       /\ l0' \in {l0, l0 + (IF imm = <<>> THEN 0 ELSE 1)}
       /\ UNCHANGED <<bgError, errors>>
    \/ /\ shuttingDown
       /\ bgError' = TRUE
       /\ UNCHANGED <<tables, imm, old, l0, errors>>
    \/ /\ errors < MaxErrors
       /\ errors' = errors + 1 /\ bgError' = TRUE
       /\ UNCHANGED <<tables, imm, old, l0>>

FlushDone ==
    /\ bg = "flush"
    /\ CompactMemTable
    /\ BackgroundDone(bgError', imm', l0')
    /\ UNCHANGED <<req, result, queue, last, force, mayDelay, log, mem, merging>>

\* DoCompactionWork flushes an immutable memtable that it meets, and wakes
\* those that wait for it.
FlushWhileMerging ==
    /\ bg = "merge" /\ imm # None /\ ~shuttingDown
    /\ CompactMemTable
    /\ pc' = Woken(pc) /\ closer' = CloserWoken
    /\ UNCHANGED <<req, result, queue, last, force, mayDelay, log, mem,
                   merging, scheduled, work, bg>>

\* The end of a merge: the level-0 files it began with are gone.
MergeDone ==
    /\ bg = "merge"
    /\ \/ /\ ~shuttingDown
          /\ l0' = l0 - merging
          /\ UNCHANGED <<bgError, errors>>
       \/ /\ shuttingDown \/ errors < MaxErrors
          /\ errors' = IF shuttingDown THEN errors ELSE errors + 1
          /\ bgError' = TRUE
          /\ UNCHANGED l0
    /\ merging' = 0
    /\ BackgroundDone(bgError', imm, l0')
    /\ UNCHANGED <<req, result, queue, last, force, mayDelay, store>>

-----------------------------------------------------------------------------
\* ~DBImpl: no other call may be running; it waits for the background work.
Close ==
    /\ closer = "no" /\ \A c \in Client : pc[c] \in {"idle", "returned"}
    /\ closer' = IF scheduled THEN "waiting" ELSE "closed"
    /\ UNCHANGED <<clients, store, back, bgError, errors>>

CloseWakes ==
    /\ closer = "awake"
    /\ closer' = IF scheduled THEN "waiting" ELSE "closed"
    /\ UNCHANGED <<clients, store, back, bgError, errors>>

WriterStep(c) ==
    \/ WakeUp(c) \/ MakeRoomForWrite(c) \/ Delayed(c)
    \/ LogRecord(c) \/ Commit(c) \/ TEST_CompactMemTable(c)

BackgroundStep ==
    BackgroundThreadMain \/ BackgroundCall \/ FlushDone \/ FlushWhileMerging \/ MergeDone

Next ==
    \/ \E c \in Client : (\E r \in Requests[c] : Write(c, r)) \/ WriterStep(c)
    \/ BackgroundStep
    \/ Close \/ CloseWakes

\* Threads that are not asleep run, and SleepForMicroseconds ends.
Fairness == /\ \A c \in Client : WF_vars(WriterStep(c))
            /\ WF_vars(BackgroundStep) /\ WF_vars(CloseWakes)

Spec == Init /\ [][Next]_vars /\ Fairness

-----------------------------------------------------------------------------
TypeOK ==
    /\ \A c \in Client : req[c] \in Requests[c] \union {None}
    /\ \A c \in Client : result[c] \in {None, "ok", "error"}
    /\ pc \in [Client -> {"idle", "sleeping", "awake", "room", "room wait", "delayed",
                          "logging", "logged", "failed", "flush", "flush wait", "returned"}]
    /\ ToSet(queue) \subseteq Client /\ last \in 0..Len(queue)
    /\ log.synced \in 0..Len(log.cells) /\ log.offset \in 0..kBlockSize
    /\ (old = None) = (imm = None)
    /\ tables \subseteq Client /\ l0 \in Nat /\ merging \in 0..l0
    /\ work \in 0..1 /\ bg \in {"none", "waiting", "ready", "call", "flush", "merge"}
    /\ closer \in {"no", "waiting", "awake", "closed"}

\* What recovery finds in a log of which the first n cells are left.
Found(file, n) == ReadRecords(SubSeq(file.cells, 1, n), 0)

Batches(recs) == {x[1] : x \in UNION {ToSet(recs[i]) : i \in DOMAIN recs}}

Acknowledged(c) == result[c] = "ok" /\ ~Null(c)

\* The groups that hold the batch of c.
MemPlaces(c) == {i \in DOMAIN mem : c \in mem[i]}
ImmPlaces(c) == IF imm = None THEN {} ELSE {i \in DOMAIN imm : c \in imm[i]}

\* A write that was acknowledged is in exactly one of the memtables and the
\* tables, one that failed is in none, whoever in the queue did the work.
StatusIsOwn ==
    \A c \in Client :
        LET n == Cardinality(MemPlaces(c)) + Cardinality(ImmPlaces(c))
                   + (IF c \in tables THEN 1 ELSE 0)
        IN /\ result[c] # None => n = (IF Acknowledged(c) THEN 1 ELSE 0)
           /\ n <= 1

\* Stopping the process at any moment loses no acknowledged batch, and
\* stopping the machine none whose client asked for sync, also when the
\* batch was logged by another client: it is in a table, or reading the logs
\* finds it, whatever part of their unsynced tail is left.  This needs every
\* append to the log to have succeeded (after one that fails, later records
\* are not where the reader looks for them).
AcknowledgedSurvive ==
    \A c \in {d \in Client : Acknowledged(d)} :
        \/ c \in tables
        \/ \E file \in {log} \union (IF old = None THEN {} ELSE {old}) :
             \/ file.failed
             \/ LET kept == IF req[c].sync THEN file.synced ELSE Len(file.cells)
                IN \A n \in kept..Len(file.cells) : c \in Batches(Found(file, n).recs)

\* However much of a log's tail is lost, even in the middle of a header, and
\* wherever an append has failed, the records found are records that were
\* written, whole and in order; if no append has failed they are the oldest
\* ones, and nothing is reported as corrupt.
RecordsWhole ==
    \A n \in 0..Len(log.cells) :
        LET found == Found(log, n)
        IN IF log.failed
           THEN \E S \in SUBSET DOMAIN log.recs :
                   found.recs = [i \in 1..Cardinality(S) |->
                                   log.recs[SetToSortSeq(S, <)[i]]]
           ELSE IsPrefix(found.recs, log.recs) /\ found.reports = 0

\* Every write returns, whoever it has to wait for, also after errors.
WritesReturn == \A c \in Client : pc[c] # "idle" ~> pc[c] = "returned"

\* The destructor returns.
CloseReturns == closer # "no" ~> closer = "closed"

-----------------------------------------------------------------------------
(***************************************************************************)
(* The inductive invariant behind StatusIsOwn, and what keeps the threads  *)
(* from waiting for a signal that does not come.                           *)
(***************************************************************************)

Waiting == {"sleeping", "awake"}
Committing == {"logging", "logged", "failed"}
Leading == {"room", "room wait", "delayed"} \union Committing
Pc == {"idle", "flush", "flush wait", "returned"} \union Waiting \union Leading

QueueTypes ==
    /\ \A c \in Client : req[c] \in Requests[c] \union {None}
    /\ req = [c \in Client |-> req[c]]
    /\ result \in [Client -> {None, "ok", "error"}]
    /\ pc \in [Client -> Pc]
    /\ queue \in Seq(Client) /\ last \in Nat
    /\ mem \in Seq(SUBSET Client) /\ imm \in Seq(SUBSET Client) \union {None}
    /\ tables \subseteq Client

\* A client is in the queue once, from its Write until it has a status.
Queued ==
    /\ \A i, j \in 1..Len(queue) : queue[i] = queue[j] => i = j
    /\ \A i \in 1..Len(queue) :
          /\ result[queue[i]] = None
          /\ pc[queue[i]] \in Waiting \union (IF i = 1 THEN Leading ELSE {})
    /\ \A c \in Client \ ToSet(queue) :
          IF result[c] = None THEN pc[c] = "idle"
          ELSE pc[c] \in {"awake", "flush", "flush wait", "returned"}

\* Only a client without a batch waits for a flush; and a group that is being
\* committed is part of the queue.
InGroup ==
    /\ \A c \in Client : pc[c] \in {"flush", "flush wait"} => Null(c)
    /\ \A c \in Client : pc[c] \in Committing => last \in 1..Len(queue)

\* A batch is in one group of one memtable or in a table, if it is anywhere.
OnePlace ==
    \A c \in Client :
        /\ \A i, j \in MemPlaces(c) : i = j
        /\ \A i, j \in ImmPlaces(c) : i = j
        /\ MemPlaces(c) = {} \/ ImmPlaces(c) = {}
        /\ c \in tables => MemPlaces(c) = {} /\ ImmPlaces(c) = {}

Somewhere(c) == MemPlaces(c) # {} \/ ImmPlaces(c) # {} \/ c \in tables

\* The batches that are somewhere are those of the clients that were told so.
PlacedIfAcknowledged == \A c \in Client : Acknowledged(c) <=> Somewhere(c)

\* The background thread flushes only an immutable memtable that there is.
FlushesSomething == bg = "flush" => imm # None

QueueInv ==
    QueueTypes /\ Queued /\ InGroup /\ OnePlace /\ PlacedIfAcknowledged /\ FlushesSomething

\* Work is scheduled if and only if the background thread is going to do it or
\* is at it, and whenever there is any to do.
WorkScheduled ==
    /\ scheduled => \/ work = 1 /\ bg = "ready"
                    \/ work = 0 /\ bg \in {"call", "flush", "merge"}
    /\ ~scheduled => work = 0 /\ bg \in {"none", "waiting", "ready"}
    /\ (~bgError /\ ~shuttingDown /\ (imm # None \/ l0 >= L0Compact)) => scheduled

\* Whoever sleeps will be signalled: the writer at the head of the queue is
\* never asleep, a writer that is asleep is behind it, and who waits for the
\* background thread waits for work that is scheduled and has a thread.
SleepersWake ==
    /\ queue # <<>> => pc[queue[1]] # "sleeping"
    /\ \A c \in Client : pc[c] = "sleeping" => c \in ToSet(queue)
    /\ (\E c \in Client : pc[c] \in {"room wait", "flush wait"}) \/ closer = "waiting" => scheduled
    /\ scheduled => (work = 1 /\ bg = "ready") \/ bg \in {"call", "flush", "merge"}

\* No client is in a call once the destructor has begun.
ClosedAlone == shuttingDown => \A c \in Client : pc[c] \in {"idle", "returned"}

WakeInv ==
    /\ QueueInv /\ SleepersWake /\ WorkScheduled /\ ClosedAlone
    /\ scheduled \in BOOLEAN /\ bgError \in BOOLEAN /\ l0 \in Nat /\ merging \in Nat
    /\ bg = "merge" => merging <= l0
=============================================================================
