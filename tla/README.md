# Docs: a verification project in TLA+

The program is an iPhone app (`src/PROJECT/document`, Swift, SwiftUI, Core Data,
Firebase). An author imports a PDF, marks fields on it and shares the result under an
identifier that is shown as a QR code. A recipient scans or types the identifier,
downloads the document, fills its fields in by hand or from stored personal data, and
exports the filled PDF. About 2,900 lines are the app's own. The libraries it is built
with are in the repository too (`src/PROJECT/Pods`), and two of them carry most of the
code with state of its own: LevelDB, in which the Firebase client keeps its data, and nanopb,
with which the diagnostics reports are written.

This directory holds TLA+ modules for the parts that keep state, TLC configurations for
small instances of them, and TLAPS proofs for the parts whose correctness matters most.
`PROJECT.json` lists components, runs, mutants, hazards, theorems, and for every
definition the source lines it stands for.

## 1. Inventory

### The app

| Component | Source | State | Operations |
|---|---|---|---|
| Document library and store | `GlobalEnviroment.swift`, `DocumentModel.swift`, `ContentView.swift`, `DetailedDocumentView.swift` | the lists `loadedDocuments` and `createdDocuments`, `fieldsToFill` of each document, the Core Data context and the store on disk | download, create, add and remove a field, delete a document, save on entering the background, load at start |
| Field kinds | `DocumentModel.swift` | none | conversion of a kind to its label and back |
| Sharing | `GlobalEnviroment.shareDoucment`, the Firebase client | the client's queue of unacknowledged writes, the tree under `/shared/<id>` | share, send, acknowledge, disconnect, reconnect, restart |
| Downloading | `GlobalEnviroment.downloadDocument` | the pending read | read, answer and decode |
| Creating, uploading | `CreateDocumentView.swift`, `DocumentPicker.swift`, `PDFRelay.swift` | the create screen and its `url` field, the picker, uploads under way, stored files, created documents | type, pick, cancel, store, answer, create, close, open |
| Marking fields | `PDFRelay.swift`, `SetupDocumentFieldView.swift`, `PDFKitView.swift` | the page's selection, the sheet, its copy of the selection, the description | select, open the sheet, type, add, abandon |
| Personal data | `PersonalDataView.swift`, `GlobalEnviroment.swift` | the list, its rows in context and store, the form | add, delete, save, load |
| Filling in and exporting | `DetailedLoadedDocumentModel.swift`, `ActivityViewController.swift` | the texts on the screen, `fillWith` of each field, the exported data | open, type, autocomplete, share, leave |
| Home screen | `ContentView.swift`, `HomeSegmentedControl.swift` | tab, sheets, identifier field, busy flag, pending downloads | switch, present, type, scan, download, answer |
| Scene life cycle | `SceneDelegate.swift` | none of its own | start, save on entering the background |

The parts meet in `GlobalEnviroment`, an environment object that every view reads and
writes, and in one managed object context: a save made by one screen also stores what an
earlier failed save of another screen left pending. Firebase answers through callbacks on
the main queue. The author's and the recipient's app meet only in the database tree and
in the stored file.

Every handler runs on the main queue, so handlers do not interleave with each other. What
is hard is elsewhere:

* **kills between two saves of one handler**, and saves that fail and are only printed;
* **writes that are resent** after a lost connection, some of which the server has
  applied already, and writes that are lost because they are kept in memory only;
* **a read between two writes** of one share, as the QR code is shown before any write is
  acknowledged;
* **answers that come late**: an upload's to a screen that has gone or was reopened, a
  download's to a field in which the user has typed something else meanwhile;
* **two ways to identify one thing**: fields by position in memory and by description in
  the store, personal data by order of addition and by the clock;
* **something must happen in the end**: a share made off line arrives, a request is answered.

### The libraries

| Component | Source (under `Pods`) | State | Operations |
|---|---|---|---|
| Versions and compaction choice | `db/version_set.cc`, `version_edit.cc`, `dbformat.cc` | which table lies at which level | find a key, choose the inputs of a merge, apply an edit |
| Database core | `db/db_impl.cc`, `builder.cc`, `snapshot.h` | memtables, log, versions, live files, snapshots, the background thread | write, read, flush, merge, delete files, recover |
| Write queue and log | `db_impl.cc` (`Write`, `MakeRoomForWrite`), `db/log_writer.cc`, `log_reader.cc`, `util/env_posix.cc` | the queue of writers, condition variables, the log's blocks | group, append, sync, wait for room, close, read back |
| Tables and iterators | `table/*.cc`, `util/bloom.cc`, `util/comparator.cc`, `db/db_iter.cc` | blocks, restarts, filters; the position of each iterator | build, look up, move to and fro |
| Table cache, open files | `db/table_cache.cc`, `util/cache.cc`, `env_posix.cc` | hash table, two lists, reference counts, limiters | look up, open, insert, release, erase |
| Memtable | `db/skiplist.h`, `memtable.cc`, `util/arena.cc` | links, heights, memory, references | insert, search, drop |
| Descriptor, lock, repair | `db_impl.cc`, `version_set.cc`, `db/repair.cc`, `util/env_posix.cc` | LOCK, CURRENT, MANIFEST and the directory | open, record an edit, close, destroy, repair |
| nanopb, log transport | `nanopb/*.c`, `GDTCCTNanopbHelpers.m` | the message in memory, the stream, allocations | encode, frame, decode, update, release |
| Checksums and base64 | `util/crc32c.cc`, `fbase64.c` | a running checksum | extend, mask, encode, decode |

Threads meet in `DBImpl::mutex_`, which is given up around file operations; what was read
before is used afterwards. Processes meet in the LOCK file. What is hard:

* **state used after an unlock**: a version that a flush replaced while a merge ran, the
  cache entry somebody else inserted meanwhile, the queue after the leader has written for others;
* **a stop between two file operations**, with synced and unsynced data, in recovery too;
* **lock-free readers** beside a writer;
* **condition variables**: who must be woken, and a close while others wait;
* **boundaries**: a record that ends six bytes before a block does, a table cut between two
  versions of one key, a full cache, a varint that is too long, a message without a byte.

### What makes each component correct

* *store*: a restart shows what the user saw; a download is whole; a deletion is final;
* *sharing, downloading*: when the writes are acknowledged the server holds the last version
  and nothing of an older one, a download made then decodes to it, and a share arrives;
* *creating, marking*: an address stands for a stored file, the one the author picked; a field lies
  where its author selected text;
* *personal data, filling, home screen*: erased data stays erased and is not exported; a
  download asks for what was typed, and what was requested arrives;
* *database core*: live files exist, levels are disjoint, file numbers are new, a read sees the history of
  the writes, and what was promised to be durable survives a crash;
* *write queue*: a caller gets the status of its own write, an acknowledged write is read back, and
  nobody waits for ever;
* *descriptor*: one owner, nothing promised is lost, repair keeps what can be read;
* *tables, iterators*: an iterator is a cursor over a snapshot, a lookup finds what is there;
* *table cache*: the counts, lists, limits and open files agree, and an entry in use is open;
* *memtable*: readers load initialised links of live memory and get the right answer;
* *encodings*: what is read is what was written, whatever the pieces, and no memory leaks.

## 2. Modules and how they correspond to the code

| Module | Uses | What it models |
|---|---|---|
| `FieldTypes` | | `FieldType`, `stringFromFieldType`, `fieldTypeFromString` |
| `DocumentStore` | `FieldTypes` | everything that changes document and field rows |
| `SharedDatabase` | `FieldTypes` | `shareDoucment`; the client's write queue as far as a share uses it |
| `SharedDownload` | `SharedDatabase` | a recipient beside the author: read, key order, decoding |
| `CreateDocument` | | create screen, picker, uploads, opening the PDF page |
| `MarkFields` | `FieldTypes` | selection, sheet, added fields |
| `AppScreens` | `CreateDocument`, `MarkFields` | both on one screen: the page of an opened document beside uploads |
| `PersonalData` | `FieldTypes` | list, rows and screen of personal data |
| `FillDocument` | `PersonalData` | the screen of a downloaded document |
| `HomeScreen` | | tabs, sheets, downloads by typing and scanning |
| `HomePages` | `FillDocument`, `HomeScreen` | the home screen with the sheet and the page opened from it |
| `KVStore` | | abstract: what `leveldb::DB` promises |
| `VersionSet` | | operators: versions, lookup, compaction inputs, edits |
| `DBImpl` | `VersionSet`, `KVStore` | the database; implements `KVStore` |
| `LogFormat` | | operators: the records of a log, written and read |
| `WriteQueue` | `LogFormat` | writers, background thread, destructor |
| `TableFormat` | | operators: building and reading tables |
| `DBCursor` | | abstract: what `leveldb::Iterator` promises |
| `Iterators` | `TableFormat`, `DBCursor` | the stacked iterators; implements `DBCursor` |
| `TableCache` | | cache shard, limiters, open and deleted files |
| `MemTable` | | skip list, arena, references |
| `Descriptor` | | LOCK, CURRENT and MANIFEST of one directory |
| `MessageFields` | | field descriptors and the generated ones |
| `NanoPB` | `MessageFields` | operators: encode, decode, release |
| `LogTransport` | `NanoPB` | a message's way from sender to receiver |
| `Codecs` | | crc32c and base64 |
| `Formats` | `LogTransport`, `Codecs` | the encodings side by side |
| `MC...` | the module it names | values for the constants, and symmetry |
| `...Proofs` | the module it names | theorems and proofs |

Variables and actions keep the names of the code (`shareDoucment` and `GlobalEnviroment`
are spelt as in the source). Variables marked *history* in a module record what happened so
that properties can speak of it; they steer nothing, except `used` in the app's modules, which says
that UUIDs and instants do not repeat. Definitions that begin with `Mutated` in their comment are
broken variants: each shows that a property notices the defect, and no specification
uses them.

Modelling decisions, the app:

* **A handler is one action** unless it saves several times: then there is one action per
  save, `job` says how far the handler has come, and a kill may fall between any two. A
  block that a handler posts to the main queue for itself runs before the user's next
  touch and is part of the action.
* **`Save`** writes all pending changes or fails and leaves them pending, as `context.save()`
  in a `do`/`catch` that prints does. On entering the background a failed save ends the
  process (`fatalError`). `FetchedResults` are taken to be current with the context.
* **`DocumentStore`** keeps the fields of a document as a set; a field has a key, which
  stands for its rectangle and identity, a description, which may be equal for two fields,
  and a kind. The order of the fields is left out.
* **`SharedDatabase`**: a share is one write at the root, which replaces the subtree, and three
  writes per field. The client keeps a write until it is acknowledged, resends the queue in order
  after a reconnect, and loses it in a restart (persistence is not switched on);
  `lastShared` is `NoVersion` after a restart that dropped writes. The server applies and
  acknowledges in the order of sending; it is external. Getting a token, opening a connection and authenticating are one step
  from "no connection" to "connected" (`tryScheduleReconnect`, `restoreAuth`), as nothing is sent in between. After a lost acknowledgement a
  write is applied twice, so the tree can go back to an older version, or to a mixture,
  until the queue is replayed. Every version has a url, and no write is rejected.
* **`SharedDownload`** decodes the tree as the code does: a missing description is empty, a missing
  or unknown kind is `custom`, a missing rectangle is zero. Children come in the order of
  their keys as strings, `field10` before `field2`: `Digits` and `compareKey` model that
  order for numerals to the base `Base`, ten in the code.
* **`CreateDocument`**: `documentId` is a constant of the view, so it is new with each presentation of the
  screen and again whenever the home screen is evaluated under it (`rebuild`), while url field and picker stay.
  The picker keeps the identifier it was made with (`documentName`), which names the stored file; `first` tells which names belong
  to the screen that is up. An upload outlives its screen; its callbacks then write to
  state nobody sees. `URL(string:)` is nil for the empty string, so `PDFRelay` of a document
  without an address fails its force unwrap and the app ends, as it does for an
  unreadable file and a missing download address.
* **`FillDocument`**: `addOverlay` writes the texts into a file or leaves none behind; what it draws is left out.
* **`MarkFields`**: the sheet is built in the same step as the press of the button, with a
  copy of the selection; the page may report another selection under the sheet.
* **`PersonalData`, `FillDocument`**: the app is for the iPhone only, upright, so screens are a
  stack, and personal data cannot be edited while a document is open. Entries are
  identified by `createdAt`; two are never created at one instant, but the clock may be set
  back.
* **`HomeScreen`**: an identifier that a database path may not contain raises an exception
  that nothing catches (`malformedId`); an unknown one is answered without a document.
* **`Kill`, `Launch`, `Stop`, `Exit`, `Restart`** are the operating system's.

Modelling decisions, the libraries:

* **A step** is what a thread does while it holds a mutex, one atomic operation, or one file
  operation done without the mutex. Code between two waits is one step only where the mutex is held throughout.
* **`DBImpl`** has one writer and one background thread, as the queue and `background_compaction_scheduled_`
  see to; `WriteQueue` shows the first of these with any number of clients. What a put writes is identified by its sequence number.
  Choices by file size, seek count and `compact_pointer_` are left open, so a merge may start anywhere. `AddBoundaryInputs` is the least set that
  its loop's step adds nothing to, and the files that `CompactRange` keeps are a first part, by `BySmallestKey`, of those in the range. Recovery reads the logs
  in the order of their numbers by a recursive function (`RecoverLogs`), a log at a time (`RecoverLogFile`). Directory operations are
  durable in their order here; `Descriptor` is the module that looks at them one by one.
* **`KVStore`** lets a crash forget unsynced batches and no synced ones. A synced write may survive while an unsynced one before
  it, in the log of the memtable before, does not: the code syncs one log only.
* **`WriteQueue`** writes its batches cell by cell through `LogFormat`. Sleeping on a condition
  variable is explicit, so that a missing signal shows.
* **`Descriptor`** has one step per file operation or run of operations on one file. For a kill these are single steps: writing a table or a
  temporary file whole, the replay of the logs in `Recover`, and moving the old manifests to `lost`; power failures see the directory after each operation
  within them too. File names are parsed and edits encoded as the code does, since which files recovery and repair take up depends on it. It stops at the first state in which two processes own the directory; repair runs alone; destroying
  lists the directory in one of two orders; archived files are dropped; repairing a directory with
  neither table nor log uses MANIFEST-000001 again, as the code does.
* **`TableFormat`** keeps keys as sequences of small bytes with the tag as one more element, so prefixes, separators
  and successors are computed as in the code. Bloom filters have eight bits, two probes and a small hash with collisions.
* **`TableCache`** has one shard; hash and charge are parameters. A chain of the hash table is a sequence, `usage_` the number of pairs of an entry and a unit
  of its charge, and `Resize` distributes the entries at once, in the order in which the loop leaves them. `Limiter::Acquire` takes one before it
  looks whether there was any, and gives it back then: a thread is at a place of its own meanwhile (`noMap`, `noDescriptor`).
* **`MemTable`**: a load of a link sees the last store to it, which the pairs of acquire and release give for links that are
  published this way; `max_height_`, which is read without a barrier, may be any value it has had. A link that is not set yet
  holds `Garbage`. The writer's own search, which nobody disturbs, is stated by what it leaves in `prev`; the readers' searches go step by step.
* **`DBCursor`** keeps the call that was made, method and key: the position after it must be the one that this method promises from the
  position before it (`Next` the next key of the snapshot and no other), or an error.
* **`NanoPB`, `Codecs`**: widths are parameters; loops are recursive operators. The tables of crc32c are computed from the polynomial, so a wrong
  literal in `crc32c.cc` would not be seen; `AcceleratedCRC32C` gives 0 as in a build without the crc32c library, so `CanAccelerateCRC32C` is false. Whether a number held by
  pointer has its proto3 default is decided by whether the pointer is NULL; the code compares as many bytes of it as the number has, which differs for an address whose low bytes are zero.

## 3. Runs

| Run | Configuration | Distinct states | Result |
|---|---|---|---|
| `document_store` | `DocumentStore.cfg` | 36,105 (up to symmetry) | holds |
| `sharing` | `SharedDownload.cfg` | 754,992 | holds |
| `app_screens` | `AppScreens.cfg` | 4,181,025 (up to symmetry) | holds |
| `home_pages` | `HomePages.cfg` | 541,264 | holds |
| `db_core` | `DBImpl.cfg` | 608,183 | holds |
| `deleted_reappears` | `DBImplCut.cfg` | | violation |
| `descriptor` | `Descriptor.cfg` | 808,430 (up to symmetry) | holds |
| `write_path` | `WriteQueue.cfg` | 12,601 | holds |
| `iterate` | `Iterators.cfg` | 222,099 | holds |
| `table_cache` | `TableCache.cfg` | 1,182,614 (up to symmetry) | holds |
| `memtable` | `MemTable.cfg` | 1,540,394 | holds |
| `formats` | `Formats.cfg` | 111,642 | holds |

Deadlock is checked for the app and the iterators. The other runs of the libraries switch it off: their clients do a bounded number of
operations and then rest. That nobody is left waiting is `WritesReturn` and `CloseReturns`.

**document_store** (two documents, three fields, two descriptions). `CrashSafe`: between
handlers, with everything saved, a restart shows the lists and fields on the screen, but
for documents where `removeField` met two equal descriptions. `WholeUnlessTorn`: a downloaded document has
all its fields, unless a kill or a failed save met its download. `DeletedStaysDeleted`: a row of a deleted
document does not come back into the store. Two documents let one disturb the other
(a save of one stores what the other left pending); three fields give a download of two and an
edit beside it; two descriptions allow equal and different ones. Documents, keys and
descriptions are only compared for equality, hence the symmetry.

**sharing** (versions that grow and shrink over the boundary of two digits, base three; two shares, a lost
connection, a restart). `Converged`: once all writes are acknowledged the server holds
exactly the version shared last. `SettledRead`: a download answered then decodes to that version, its
fields in order below the boundary and complete but reordered above it. `EventuallyArrives`: a share
reaches the server unless a newer one replaces it or a restart drops it. More shares and lost connections
repeat the same situations; the proof covers every number of them.

**app_screens** (two files, two identifiers, two uploads at a time, two places). `NoDanglingURL`: an
address of a stored file in the url field or in a document has a file behind it.
`PickedFileStored`: what is stored under a name is the file its author picked last under it, whatever
is uploaded under other names, unless its uploads overlapped, failed or were lost. `AddedWhereChosen`: a field
lies where text was selected when the sheet came up, whatever the page reports under it. Two identifiers
and two uploads let a late answer meet a newer screen or an identifier made anew under the picker, and two uploads under one name overtake
each other.

**home_pages** (two instants, one text, two downloads; a shared and a malformed identifier).
`ErasedStaysErased`: no failed save, kill or restart undoes a stored deletion. `ExportsCurrentData`: an export has
no text from an entry deleted before the page was opened. `AsksForTyped`: the download asks for the typed identifier unless an
answer emptied the field in between. `RequestedArrives`: what was asked for is listed in the end. Two downloads
allow one to be answered between the typing and the start of the other.

**db_core** (two keys, two kinds of batches with three entries in all, nine file numbers, three levels, one snapshot, one reader, one failing sync; stops of the process
and of the machine). `FilesPresent`: every file a version in use names is there. `LevelsDisjoint`:
tables of a level above 0 do not overlap. `NumbersFresh`: a file number given out is
of no file yet written. `ReadsHistory`: a lookup at any live snapshot finds the newest entry not above
it. `ImplementsKVStore`: the whole implements `KVStore`, with the contents as the refinement mapping. Nine numbers
are enough for two flushes, a merge and a recovery in one behaviour.

**deleted_reappears** (four entries, four levels, no stops): see the disagreement below.

**descriptor** (two processes and one of three budgets: three opens, one put, two edits, two faults and a repair; two opens, two puts, one edit,
three faults and two repairs; two opens, two puts, two edits and one fault). `OneOwner`: two processes do
not both have the database open, but where a second open or `DestroyDB` gave the lock away (below). `PromisedSurvive`:
what was acknowledged as durable is found by the next open. `RepairKeeps`: a repair that ends has kept what could be read when it began, or when an
interrupted repair before it began; a kill may lose the copy that `RepairTable` had not finished, a power failure that and what was not synced. The first budget is for processes in
each other's way. In the second a table holds two entries, one of which is damaged, so that there is something to copy, and a repair that was interrupted
is followed by another. In the third an edit follows a torn one.

**write_path** (three clients, blocks of six cells, buffers of three, one failing call). `StatusIsOwn`: the batch of a caller is in exactly one of the memtables and the tables
if it was told OK, and in none if not. `AcknowledgedSurvive`: acknowledged synced writes are read back from the log
after a crash, unless a failed append had put the log out of step. `RecordsWhole`: what is read back is whole batches in their order.
`WritesReturn`, `CloseReturns`: every write, and the destructor, returns.

**iterate** (three user keys, one of them a prefix of another; every history of up to three puts and deletions, split between memtable and table and between blocks in every way; restarts at every
second entry; any number of moves; one insertion; one damaged block in histories of up to two operations).
`GetFinds`: a lookup in a table finds what is in it, filters included, if its blocks can be read. `ImplementsCursor`: the stack of iterators
is a cursor over the snapshot: every `SeekToFirst`, `SeekToLast`, `Seek`, `Next` and `Prev` ends where that call should.

**table_cache** (two threads, three files, two of one hash bucket, capacity two, one map, one descriptor). `Accounted`: hash
table, lists, reference counts and usage agree. `InUseIsOpen`: what a thread holds is open. `LimitersExact`: the
limiters count what is held. `DeletedNotOpen`: when a file is deleted no table of it is open or being opened.

**memtable** (two user keys, three entries, heights up to two, one reader). `LoadsValid`: a link that is loaded is initialised
and its memory is live. `ChunksApart`: pieces of the arena do not overlap and are aligned. `SearchesRight`, `GetsAsOf`: a search gives the least key at or above
its target of what was there when it began or came since, and a lookup what its sequence number entitles it to.

**formats** (every kind of field, four payload bits in a byte, messages of up to 100 bytes, allocations failing at
every point, of which no decoding has more than seven). `ReadAsWritten`: decoding undamaged bytes that encoding wrote gives the message back, framed or not, or merged with what was there; it fails
only when memory runs out or an array of fixed size is full. `MemoryIsOwned`: what is allocated is in the message or freed, once. `ChecksumOfStream`: a checksum does not depend on the pieces it was computed by.
`TextIsCanonical`: base64 text decodes to bytes that encode to it, or is refused.

### Fairness

* `FairSharer` has weak fairness on sending, acknowledging and reconnecting: the Firebase
  client reconnects by itself and sends its queue while connected, and the server answers
  each write. Connections are lost finitely often (`MaxDisconnects`): with endlessly many, no
  protocol makes progress. Nothing forces the user or a restart.
* `PagesSpec` has weak fairness on the answer to each download while the app runs: the
  client lists its reads again after a reconnect, and reading `/shared` is allowed to
  everyone. There is none on `Kill` or `Launch`, nor on anything the user does.
* `WriteQueue` has weak fairness on every thread that can run: the scheduler of the
  operating system is fair, and a signalled thread gets the mutex in the end. Clients are not forced to
  write or to close.

### Disagreements

One run checks what a comment of the code says and finds that the code does otherwise (`findings` in
`PROJECT.json` quotes it): **deleted_reappears**. `SetupOtherInputs` takes the
inputs of the lower level by key range and does not add the file that goes on with the last key, so a
merge drops a deletion while an older value of the key stays in that file, and the deleted key is
there again (`version_set.cc:1410`; the comments are `db_impl.cc:952-958`, `version_set.cc:1369-1373`).

What else was met while modelling. The properties of the passing runs say what holds all the same, and name
the exceptions:

1. A kill between two saves of a download leaves a document that comes back with a part of its fields, and nothing
   fetches the rest (`GlobalEnviroment.swift:72`; exception in `WholeUnlessTorn`).
2. `removeField` deletes the rows of every field with the same description, and takes one field off the screen; a
   restart loses the other (`DetailedDocumentView.swift:114`; exception in `CrashSafe`).
3. The QR code is shown before the writes are through, so a recipient can read and keep a document that
   was never shared (`GlobalEnviroment.swift:116`; `SettledRead` speaks of settled reads).
4. Create pressed before the upload is answered makes a document without an address; opening it ends the app
   (`CreateDocumentView.swift:139`).
5. A manual compaction whose inputs are disjoint, with a flush into the gap between them while it runs, makes
   files of a level above 0 overlap (`version_set.cc:724`, `747-749`; exception in `LevelsDisjoint`).
6. A flush during a merge whose MANIFEST sync fails although the record got there: the record of the merge names
   the old log again, and a power failure then makes a stale read possible.
7. A failed `AddRecord` puts the log writer out of step with the file; writes acknowledged later can be lost
   (exception in `AcknowledgedSurvive`). A null batch absorbed into another's group returns OK without having
   switched the memtable.
8. The directory: `NewDB`'s manifest is never synced; `AddRecord` flushes before `SyncDirIfManifest`, against the comment in
   `env_posix.cc`; a torn MANIFEST record followed by another makes the database unopenable; a second `LockFile` that
   fails closes its descriptor and with it drops the lock held, and `DestroyDB` unlinks LOCK after it has unlocked it; the rename of CURRENT is not
   followed by a sync of the directory; `RepairTable` archives the source before the copy is finished.
9. nanopb: a submessage held by pointer that comes twice is replaced, not merged; an empty packed field fails if it is read by a
   callback of its number; `f_b64_pton` needs room for up to one quantum more than it writes.

## 4. Proofs

TLC explores the instances above; the theorems hold for every value of the constants: any
number of documents, fields, shares, lost connections, screens, clients, readers, entries, files, threads and levels.

| Module | Theorems | Obligations |
|---|---|---|
| `DocumentStoreProofs` | `TypeCorrect`, `Invariance`, `RestartShowsScreen`, `OrphanRows`, `DownloadsAreWhole`, `DeletionIsFinal` | 593 |
| `SharedDatabaseProofs` | `SharerInvariance`, `SharingConverges`, `VersionInvariance`, `VersionsNeverMix`, `DownloadsOnlyRead`, `DownloadsConverge`, `DownloadsOneVersion` | 883 |
| `AppScreensProofs` | `ScreensInvariance`, `ScreensImplementCreate`, `AddressesHaveFiles`, `UploadsStorePicked`, `FieldsWhereChosen`, `UnwrapsSelection`, `DescriptionsAreFresh`, `FieldsHaveDocument` | 546 |
| `HomePagesProofs` | `PagesInvariance`, `ErasedForGood`, `ExportsAreCurrent`, `DownloadsAskForTyped`, `BusyOnlyWhileDownloading`, `PagesImplementParts` | 757 |
| `WriteQueueProofs` | `StatusesAreOwn`, `SleepersAreWoken` | 1,494 |
| `MemTableProofs` | `MemTableInvariance`, `ReadersLoadSetLinks`, `SearchesEndRight`, `GetsFindAsOf`, `ArenaCutsApart` | 2,402 |
| `TableCacheProofs` | `Invariant`, `TypeCorrect`, `BooksKept`, `UsedStaysOpen`, `LimitersRight`, `DeletedIsClosed` | 3,407 |
| `DBImplProofs` | `Invariance`, `TypeCorrect`, `FilesArePresent`, `NumbersAreFresh`, `ImplementsKV` | 4,310 |

Assumptions are the `ASSUME`s of the modules: bounds and sizes are natural numbers, the kinds in
use are kinds of the enumeration, the values that stand for "none" are none of the others, versions
are sequences of fields no longer than `MaxFields`, the triggers of level 0 are positive
and in order, the sets of readers, threads and keys are finite, a write is a non-empty sequence of operations, and there are file numbers for the files
that a new database has. TLC evaluates each of them in a run.
Every inductive invariant was checked by TLC, in the instance of the run, before it was proved.

**`DocumentStore`.** `CrashSafe` compares store and screen only when nothing is pending, so it says
nothing of the states in between. `IInv` ties screen and context (`ScreenFollowsContext`), says how
far each handler has come (`JobOK`), what rows a whole document has in context and in store
(`Whole`), to whom rows without a document belong (`Orphans`), that no pending change
revives a deleted document (`Graves`), and that identifiers are not reused (`Fresh`,
`OneList`). Every action has a lemma; as most of them change the context through `Save`, each is
split on whether the save succeeded. `DeletionIsFinal` is an action property that follows
from `Graves`: a row enters the store only from the context.

**`SharedDatabase`, `SharedDownload`.** `Converged` speaks of an empty queue; acknowledging a write shortens the
queue, and a lost connection moves the replay back to its start. `SharerInv` therefore says
where replaying the queue leads, from two positions: from the start, which is what a
reconnect does, and from the writes this connection has sent. `Settles` states it leaf by
leaf, by the last write that touches a leaf, so that no recursion over the queue is needed.
A share makes both replays end in the new version (its first write wipes
the tree), sending moves along the second replay, and an acknowledged write at the
start was already applied. `OneVersionAtATime` needs to know what the queue looks like:
`VersionInv` adds that it consists of whole versions, but for a first one whose acknowledged writes have left it
(`WholeVersions`), and that the server holds the first writes of one version, which the next write to be sent goes on with
unless it begins another version (`PartArrived`). That part ends with the first lost connection, after which old writes are
applied again. `DownloadsOnlyRead` shows that `SharedDownload` implements `SharedDatabase`,
so that both results hold beside a recipient too.

**`CreateDocument`, `MarkFields`, `AppScreens`.** `NoDanglingURL` is not inductive since an answer brings an address:
`AnswersHaveFiles` says that who awaits one has stored a file. `PickedFileStored` needs
`OneUpload`: an undisturbed name has one upload, of the file picked last.
`ScreensNested` says that a picker lies over a create screen and that both have a name. For the page, `PageInv` says that a sheet has
a selection of its own and lies over a page on which fields can be added.
`ScreensImplementCreate`: a step of the composition is a step of `CreateDocument` or leaves it alone.

**`PersonalData`, `FillDocument`, `HomeScreen`, `HomePages`.** `PagesInv` has one part per screen and one that says which of them is up.
`DataInv`: an entry in list, context or store is known by its instant, instants are used once, and an erased one is in none of them.
`FillInv`: while a page is open nobody edits the personal data (`PageAlone`), hence every text that came from it is still
there (`TextsCurrent`). `HomeInv`: the identifier field holds what was typed unless an answer emptied it, and without overlaps there is one
download. `ScreensAgree` is what `FillInv` and `DataInv` need of each other. `PagesImplementParts` says that the composition implements
`HomeScreen`, without its fairness, and `FillDocument`.

**`WriteQueue`.** `StatusIsOwn` counts the places of a batch. `QueueInv` says that the queue has each writer once, none with a
status (`Queued`), that the group being written is a part of the queue (`InGroup`), that each batch is in one group of one memtable
or in the tables (`OnePlace`), that it is there exactly if its writer was told so (`PlacedIfAcknowledged`), and that a flush has a memtable
to flush. `BuildBatchGroup` is a choice; a lemma shows that there is something to choose. `SleepersWake` is the safety
part of `WritesReturn` and `CloseReturns`: `WakeInv` adds that work is scheduled exactly if the background thread has it before it or
is at it, and whenever there is any (`WorkScheduled`), and that no client is in a call once the destructor has begun (`ClosedAlone`, which the code
requires of its callers).

**`MemTable`.** `ListInv` says, of the list: a link that is not set is one of the new node, from the level on that
the writer has come to (`UnsetAbove`); a link leads to a node of the list that has a set link at that level (`LinksLead`);
the writer is about to link the new node in its place (`InsertAt`, `InsertPlace`); level 0 is sorted and leaves nothing out (`Sorted`, `AllLinked`).
`ReadersInv` says of a search that it stands at a node of the list before its target (`SearchAt`), and of a lookup that everything its
sequence number entitles it to was in the list when it began. A publication at level 0 is the step that matters: the new node takes over
its predecessor's link, so no search loses what lies behind it. `RefsInv` counts the references. `SearchesRight` and
`GetsAsOf` follow for the one step that ends a search. For the arena, `ArenaInv` says that what is left of the block in use comes after
every chunk of it and that block numbers are not used twice; the alignment rests on a lemma about `%`. `ChunksApart` also sums the sizes of the
blocks: as the number of the bytes taken, to which an allocation adds those of a new block or none (`UsageExact`).

**`TableCache`.** Four properties rest on one invariant, `TCInv`. `Good` says of cache, program counters and disk together: an entry has one reference
per user and one of the cache, `lru_` and `in_use_` split the cached entries by whether there are users, the hash table has
each cached entry in the chain of its bucket, and nothing else (`CacheOK`); where a thread stands says what
it holds (`PcOK`); a key held is the key of a file (`UsesKey`) that exists (`OnDisk`). `Limits` counts the maps and descriptors given out against
the threads and entries that have one, or are about to give back what was not to be had; `FilesOK` says that the files of the current version exist.
`DeletedNotOpen` is `OnDisk`, read the other way: a key of an entry or of a thread that opens it is a file that exists, so a deleted one has neither. Every step of a thread is
first split into what it does to the cache, for which there are lemmas about `Ref`, `Unref`, `FinishErase`, `Insert` and `Resize`, and
what it does to the limiters. Sums of charges and counts of holders are cardinalities, so that a step changes them by the one element it adds or takes.
What a chain holds after a removal or a `Resize` is a recursive function of its length (`Only`); it is proved by the least
counterexample (`LeastNat`, `Induction`), an induction stated over a set of numbers instead of a predicate.

**`DBImpl`.** `FilesPresent` speaks of every state that a MANIFEST with an unsynced tail may replay to, and none of it is inductive by itself. `DBInv` says
that every descriptor a crash may find has its tables on disk, below its next file number and with no later sequence number (`DescriptorsInv`); that numbers given out are below the next
one and the log of the writers is the last log (`NumbersInv`); that while nothing has failed the MANIFEST ends with the version that is, or will be,
current (`VersionsInv`); that a batch is behind the log number of each descriptor, in a log, or in that descriptor's tables (`BatchesInv`); that a
record in a log is a batch, the one being written, or one whose sync failed (`RecordsInv`); that no sequence number beyond the last one is in
use except by the batch being written (`SequenceInv`, `WriterInv`); and that a durable batch rests on tables or on the synced part of a log (`DurableInv`).
There is a lemma per action. Those that leave the disk alone, or only add to it, share the lemmas about disks that keep what was there (`KeepsLogs`, `KeepsTables`);
edits of the MANIFEST share one about appending a record (`RecordLogged`, `EditLogged`); those that delete files one about what `DeleteObsoleteFiles`
leaves (`FilesLeft`, `LiveFilesAre`). Recovery reads the logs by a recursive function of the log number; `RecoverLogsOK` follows it by the same induction over a
set: whatever was read so far, the tables of the descriptors are untouched, the next number is past every table written and every log read. A crash in the middle
of recovery needs no argument of its own: `DBInv` holds while the database is opening, and of it alone the proof that `Stop` keeps it
makes use. For `ImplementsKV` each action is shown to begin a batch, to commit one, to be a crash, or to change neither the batches nor
those in doubt: `WriteLog` begins (its sequence numbers are new), `WriteMem` commits, `Stop` is the crash, and a log that is deleted has only records of batches that are in the
database.

Only model-checked, and why:

* the liveness properties `EventuallyArrives`, `RequestedArrives`, `WritesReturn` and `CloseReturns`: fairness is
  out of the prover's reach;
* what folds, sorts and recursive functions over sequences compute for every input: decoding in `SharedDownload`
  (`SettledRead`), the records of `LogFormat` (`AcknowledgedSurvive`, `RecordsWhole`). Induction works here only where it can be stated over a set
  of numbers, as in `TableCacheProofs` and `DBImplProofs`;
* `LevelsDisjoint` and `ReadsHistory` of `DBImpl`: they rest on the order of entries within and across levels, hence on what the binary search
  `FindFile`, the sorted `files_` and the merge's `Survivors` compute, and on the ghost `met` that names the three interleavings after which they fail;
* `Descriptor`, `Iterators`, `NanoPB`, `LogTransport` and `Codecs`, whose loops are recursive operators.

## 5. Not modelled

* The rest of `Pods`: Firebase but for the behaviour the app relies on (the write queue,
  the order of keys, the check of paths), the fetcher, promises, the code scanner. Also not:
  storage tokens, the server's rules, rejected writes.
* Layout and the views in `Design`; the drawing of texts into the PDF (geometry without
  state); making the QR code; the code scanner.
* `TextPersonalInfo`'s archiving: nothing writes the `UserDefaults` key that is read at start.
* Flags that are set and never read: `uplodingDocument`, `isDocPicked`, `documentPickerMode`,
  `typeInIsPresented`, `downloadOptionsIsPresented`. Names of documents, which nothing tells apart.
* The order of a document's fields after a restart, and sharing a document with an empty
  url: both are listed as hazards.
* LevelDB: `reuse_logs`; the forced switch of an empty memtable in `DBImpl` (it is in `WriteQueue`); manual compaction in
  `WriteQueue` (it is in `DBImpl`); sizes and seek counts, which only choose among the steps modelled; the iterator over the files
  of a level; byte encodings of entries, handles and the footer; compression; damage that is not detected when
  `verify_checksums` is off; the sharding of the cache, the block cache and the `.sst` fallback; the C
  interface, tools and statistics.
* nanopb: oneofs, arrays of fixed count, arrays of pointers to strings or bytes and their release (`pb_decode.c:1219-1231`), `PB_SIZE_MAX`, fields of 8 and 16 bits.
* Literals: the tables of crc32c; the arithmetic of `Hash`, of which only the collisions matter.

## 6. Plan

Modules were written in the order of what a user can lose: the store first, then the shared
tree that carries a document between two users, then reading it, then the screens whose
answers come late, then the libraries beneath. What is left:

1. Proofs: `LevelsDisjoint` and `ReadsHistory` of `DBImpl`, from lemmas about the order of the files of a level; `OneOwner` of `Descriptor`
   once its loops are functions.
2. A composition of the author's created document, its sharing and the recipient's store,
   with documents that have no address: what an author marked is what a recipient's
   restart shows, or nothing.
3. An abstract specification of the library (documents with their fields, changed by atomic
   operations) and a refinement by `DocumentStore` where no kill or failed save
   meets a handler; an abstract register that `SharedDatabase` implements once connections are kept.
4. The order of fields in `DocumentStore`: rows are fetched by parent only, so the numbering of
   the next share depends on the store.
