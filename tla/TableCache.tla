----------------------------- MODULE TableCache -----------------------------
(***************************************************************************)
(* Open tables (db/table_cache.cc) in an LRU cache (util/cache.cc), over   *)
(* files whose maps and descriptors are limited (util/env_posix.cc).       *)
(*                                                                         *)
(* Threads look tables up, open the missing ones without holding a lock,   *)
(* and use what they got until they release it, while the cache evicts     *)
(* and the background thread drops the tables of deleted files.  A step is *)
(* one critical section of the cache, one atomic operation of a limiter,   *)
(* or one file operation.  The model has one shard; every key has one.     *)
(***************************************************************************)
EXTENDS Integers, Sequences, FiniteSets, SequencesExt

CONSTANTS Thread,
          File,        \* table files, by number
          Hash,        \* file -> hash of its cache key
          Charge,      \* file -> charge; TableCache passes 1, a block its size
          capacity_,   \* of the cache; 0 turns caching off
          kMinLength,  \* least number of hash buckets, 4 in the code
          MaxMmaps,    \* mmap_limiter_, 1000 on 64 bit
          MaxFds,      \* fd_limiter_
          MaxErrors,   \* bound on failing file operations
          None

Kind == {"mmap", "fd", "reopen"}  \* of file objects

ASSUME CacheAssumption ==
    /\ IsFiniteSet(Thread) /\ None \notin Nat \union File \union Kind
    /\ Hash \in [File -> Nat] /\ Charge \in [File -> Nat \ {0}]
    /\ capacity_ \in Nat /\ kMinLength \in Nat \ {0}
    /\ MaxMmaps \in Nat /\ MaxFds \in Nat /\ MaxErrors \in Nat

VARIABLES handles,   \* allocated address -> LRUHandle [key, kind, refs, in_cache],
                     \* kind the file object behind the cached table
          lru_,      \* the entries that nobody uses, oldest first
          in_use_,   \* the entries that someone uses
          list_,     \* the buckets of the hash table, from 0
          elems_,
          usage_,
          mmapAllowed, fdAllowed,  \* acquires_allowed_ of the two limiters
          pc,        \* thread -> [at, key, handle, kind]
          live,      \* the files of the versions in use
          disk,      \* the files that exist
          errors

cache == <<handles, lru_, in_use_, list_, elems_, usage_>>
limiters == <<mmapAllowed, fdAllowed>>
vars == <<cache, limiters, pc, live, disk, errors>>

Idle == [at |-> "idle", key |-> None, handle |-> None, kind |-> None]
Empty(n) == [b \in 0..(n - 1) |-> <<>>]

Init ==
    /\ handles = << >> /\ lru_ = <<>> /\ in_use_ = {}
    /\ list_ = Empty(kMinLength) /\ elems_ = 0 /\ usage_ = 0
    /\ mmapAllowed = MaxMmaps /\ fdAllowed = MaxFds
    /\ pc = [t \in Thread |-> Idle]
    /\ live = File /\ disk = File /\ errors = 0

-----------------------------------------------------------------------------
(***************************************************************************)
(* HandleTable.  A table is [list, elems]; H gives the handles.            *)
(***************************************************************************)

Length(list) == Cardinality(DOMAIN list)
Bucket(list, k) == Hash[k] % Length(list)

\* The elements of s that are in S, in their order (SelectSeq, as a function
\* that can be reasoned about).
Only(s, S) ==
    LET kept[i \in 0..Len(s)] ==
            IF i = 0 THEN <<>>
            ELSE IF s[i] \in S THEN Append(kept[i - 1], s[i]) ELSE kept[i - 1]
    IN kept[Len(s)]

\* FindPointer: the place of k in its bucket, 0 for the trailing slot.
FindPointer(H, list, k) == SelectInSeq(list[Bucket(list, k)], LAMBDA e : H[e].key = k)

Find(H, list, k) ==
    LET i == FindPointer(H, list, k)
    IN IF i = 0 THEN None ELSE list[Bucket(list, k)][i]

\* Resize, called when elems_ has just passed length_: the least doubling with
\* room for every entry is twice length_.  A new bucket gets entries of one
\* old bucket, each pushed at its head.
Resize(H, list) ==
    LET n == 2 * Length(list)
    IN [b \in 0..(n - 1) |->
           Reverse(Only(list[b % Length(list)], {e \in DOMAIN H : Hash[H[e].key] % n = b}))]

\* HandleTable::Insert takes the place of an entry with the same key.
TableInsert(H, list, elems, e) ==
    LET b == Bucket(list, H[e].key)
        i == FindPointer(H, list, H[e].key)
        put == [list EXCEPT ![b] = IF i = 0 THEN Append(@, e) ELSE [@ EXCEPT ![i] = e]]
    IN IF i # 0 THEN [list |-> put, elems |-> elems]
       ELSE [list |-> IF elems + 1 > Length(list) THEN Resize(H, put) ELSE put,
             elems |-> elems + 1]

-----------------------------------------------------------------------------
(***************************************************************************)
(* LRUCache, as functions on c, the cache.                                 *)
(***************************************************************************)

Cache == [H |-> handles, lru |-> lru_, used |-> in_use_, list |-> list_,
          elems |-> elems_, usage |-> usage_]

\* The charges of the entries of S, as the number of the units charged.
SumCharge(H, S) == Cardinality(UNION {{e} \X (1..Charge[H[e].key]) : e \in S})

\* Mutated Ref: an entry that gets a user stays in lru_.
RefStaysIdle(c, e) == [c EXCEPT !.H[e].refs = @ + 1]

Ref(c, e) ==
    LET idle == c.H[e].refs = 1 /\ c.H[e].in_cache
    IN [c EXCEPT !.H[e].refs = @ + 1,
                 !.lru = IF idle THEN Only(@, DOMAIN c.H \ {e}) ELSE @,
                 !.used = IF idle THEN @ \union {e} ELSE @]

\* The last reference deletes the entry, the one before that leaves it to the
\* cache alone, as its newest.
Unref(c, e) ==
    IF c.H[e].refs = 1
    THEN [c EXCEPT !.H = [x \in DOMAIN c.H \ {e} |-> c.H[x]]]
    ELSE IF c.H[e].in_cache /\ c.H[e].refs = 2
    THEN [c EXCEPT !.H[e].refs = 1, !.used = @ \ {e}, !.lru = Append(@, e)]
    ELSE [c EXCEPT !.H[e].refs = @ - 1]

\* Mutated FinishErase: the entries are deleted although someone may use them.
FinishEraseAtOnce(c, S) ==
    [c EXCEPT !.H = [e \in DOMAIN c.H \ S |-> c.H[e]],
              !.lru = Only(@, DOMAIN c.H \ S), !.used = @ \ S,
              !.usage = @ - SumCharge(c.H, S)]

\* FinishErase of each entry of S, all out of the hash table already: they
\* leave the lists and lose the reference of the cache, the last one of those
\* that nobody uses.
FinishErase(c, S) ==
    LET last == {e \in S : c.H[e].refs = 1}
        erased(h) == [h EXCEPT !.refs = @ - 1, !.in_cache = FALSE]
    IN [c EXCEPT !.H = [e \in DOMAIN c.H \ last |->
                           IF e \in S THEN erased(c.H[e]) ELSE c.H[e]],
                 !.lru = Only(@, DOMAIN c.H \ S), !.used = @ \ S,
                 !.usage = @ - SumCharge(c.H, S)]

\* HandleTable::Remove and FinishErase of each entry of S.
Erase(c, S) ==
    FinishErase([c EXCEPT !.list = [b \in DOMAIN c.list |-> Only(c.list[b], DOMAIN c.H \ S)],
                          !.elems = @ - Cardinality(S)], S)

\* The oldest idle entries go as long as the usage is too large and one is
\* left: as many as there are beginnings of lru_ that free too little.
Evict(c) ==
    LET oldest(n) == ToSet(SubSeq(c.lru, 1, n))
        gone == Cardinality({n \in 0..(Len(c.lru) - 1) :
                                c.usage - SumCharge(c.H, oldest(n)) > capacity_})
    IN Erase(c, oldest(gone))

\* LRUCache::Insert of a table for k over a file object, at address e.
CacheInsert(c, e, k, kind) ==
    LET new == [key |-> k, kind |-> kind, refs |-> IF capacity_ > 0 THEN 2 ELSE 1,
                in_cache |-> capacity_ > 0]
        H == [x \in DOMAIN c.H \union {e} |-> IF x = e THEN new ELSE c.H[x]]
        r == TableInsert(H, c.list, c.elems, e)
        old == Find(c.H, c.list, k)
    IN IF capacity_ = 0 THEN [c EXCEPT !.H = H]
       ELSE Evict(FinishErase([c EXCEPT !.H = H, !.used = @ \union {e},
                                        !.usage = @ + Charge[k],
                                        !.list = r.list, !.elems = r.elems], {old} \ {None}))

\* The cache after an operation.  The deleter of each deleted entry closes its
\* file object, which gives the map or descriptor back to its limiter.
Becomes(c) ==
    LET closed(kind) ==
            Cardinality({e \in DOMAIN handles \ DOMAIN c.H : handles[e].kind = kind})
    IN /\ handles' = c.H /\ lru_' = c.lru /\ in_use_' = c.used
       /\ list_' = c.list /\ elems_' = c.elems /\ usage_' = c.usage
       /\ mmapAllowed' = mmapAllowed + closed("mmap")
       /\ fdAllowed' = fdAllowed + closed("fd")

-----------------------------------------------------------------------------
(***************************************************************************)
(* TableCache::Get and NewIterator: FindTable, use, Release.               *)
(***************************************************************************)

Goto(t, at) == pc' = [pc EXCEPT ![t].at = at]

\* The key is that of a file of a version that the thread has referenced.
Lookup(t, k) ==
    /\ pc[t].at = "idle" /\ k \in live
    /\ LET e == Find(handles, list_, k)
       IN IF e = None
          THEN /\ pc' = [pc EXCEPT ![t] = [at |-> "open", key |-> k, handle |-> None, kind |-> None]]
               /\ UNCHANGED <<cache, limiters>>
          ELSE /\ Becomes(Ref(Cache, e))
               /\ pc' = [pc EXCEPT ![t] = [at |-> "use", key |-> k, handle |-> e, kind |-> None]]
    /\ UNCHANGED <<live, disk, errors>>

\* NewRandomAccessFile: ::open, then fetch_sub of the limiter of maps.
Open(t) ==
    /\ pc[t].at = "open" /\ pc[t].key \in disk
    /\ mmapAllowed' = mmapAllowed - 1
    /\ Goto(t, IF mmapAllowed > 0 THEN "map" ELSE "noMap")
    /\ UNCHANGED <<cache, fdAllowed, live, disk, errors>>

\* The file cannot be opened, and neither can one with the old suffix .sst.
OpenFails(t) ==
    /\ pc[t].at = "open" /\ (pc[t].key \notin disk \/ errors < MaxErrors)
    /\ errors' = IF pc[t].key \in disk THEN errors + 1 ELSE errors
    /\ pc' = [pc EXCEPT ![t] = Idle]
    /\ UNCHANGED <<cache, limiters, live, disk>>

\* Acquire has failed and puts back what it took.
NoMap(t) ==
    /\ pc[t].at = "noMap"
    /\ mmapAllowed' = mmapAllowed + 1
    /\ Goto(t, "descriptor")
    /\ UNCHANGED <<cache, fdAllowed, live, disk, errors>>

Mmap(t) ==
    /\ pc[t].at = "map"
    /\ pc' = [pc EXCEPT ![t].at = "opened", ![t].kind = "mmap"]
    /\ UNCHANGED <<cache, limiters, live, disk, errors>>

\* Mutated MmapFails: the limiter is not released.
MmapFailsLeaking(t) ==
    /\ pc[t].at = "map" /\ errors < MaxErrors
    /\ errors' = errors + 1
    /\ pc' = [pc EXCEPT ![t] = Idle]
    /\ UNCHANGED <<cache, limiters, live, disk>>

\* GetFileSize or mmap fails: NewRandomAccessFile releases the limiter.
MmapFails(t) ==
    /\ pc[t].at = "map" /\ errors < MaxErrors
    /\ mmapAllowed' = mmapAllowed + 1
    /\ errors' = errors + 1
    /\ pc' = [pc EXCEPT ![t] = Idle]
    /\ UNCHANGED <<cache, fdAllowed, live, disk>>

\* PosixRandomAccessFile: the same with the limiter of descriptors; without
\* one the file is opened again for every read.
Descriptor(t) ==
    /\ pc[t].at = "descriptor"
    /\ fdAllowed' = fdAllowed - 1
    /\ pc' = [pc EXCEPT ![t].at = IF fdAllowed > 0 THEN "opened" ELSE "noDescriptor",
                        ![t].kind = IF fdAllowed > 0 THEN "fd" ELSE None]
    /\ UNCHANGED <<cache, mmapAllowed, live, disk, errors>>

NoDescriptor(t) ==
    /\ pc[t].at = "noDescriptor"
    /\ fdAllowed' = fdAllowed + 1
    /\ pc' = [pc EXCEPT ![t].at = "opened", ![t].kind = "reopen"]
    /\ UNCHANGED <<cache, mmapAllowed, live, disk, errors>>

\* Table::Open fails: the file object is deleted, nothing is cached.
TableOpenFails(t) ==
    /\ pc[t].at = "opened" /\ errors < MaxErrors
    /\ mmapAllowed' = IF pc[t].kind = "mmap" THEN mmapAllowed + 1 ELSE mmapAllowed
    /\ fdAllowed' = IF pc[t].kind = "fd" THEN fdAllowed + 1 ELSE fdAllowed
    /\ errors' = errors + 1
    /\ pc' = [pc EXCEPT ![t] = Idle]
    /\ UNCHANGED <<cache, live, disk>>

\* The table goes into the cache, in the place of one that another thread
\* has put there since the lookup missed.
Insert(t) ==
    /\ pc[t].at = "opened"
    /\ LET e == CHOOSE x \in 1..(Cardinality(DOMAIN handles) + 1) : x \notin DOMAIN handles
       IN /\ Becomes(CacheInsert(Cache, e, pc[t].key, pc[t].kind))
          /\ pc' = [pc EXCEPT ![t] = [at |-> "use", key |-> pc[t].key, handle |-> e, kind |-> None]]
    /\ UNCHANGED <<live, disk, errors>>

Release(t) ==
    /\ pc[t].at = "use"
    /\ Becomes(Unref(Cache, pc[t].handle))
    /\ pc' = [pc EXCEPT ![t] = Idle]
    /\ UNCHANGED <<live, disk, errors>>

-----------------------------------------------------------------------------
\* A compaction has replaced the file; no version with it will be current.
Obsolete(k) ==
    /\ k \in live
    /\ live' = live \ {k}
    /\ UNCHANGED <<cache, limiters, pc, disk, errors>>

\* Mutated DeleteFile: the table of the file is left in the cache.
DeleteFileOnly(k) ==
    /\ k \in disk \ live /\ \A t \in Thread : pc[t].key # k
    /\ disk' = disk \ {k}
    /\ UNCHANGED <<cache, limiters, pc, live, errors>>

\* DeleteObsoleteFiles, once no version that has the file is referenced: the
\* cache forgets the table, then the file is deleted.
DeleteFile(k) ==
    /\ k \in disk \ live /\ \A t \in Thread : pc[t].key # k
    /\ Becomes(Erase(Cache, {Find(handles, list_, k)} \ {None}))
    /\ disk' = disk \ {k}
    /\ UNCHANGED <<pc, live, errors>>

\* Cache::Prune
Prune ==
    /\ lru_ # <<>>
    /\ Becomes(Erase(Cache, ToSet(lru_)))
    /\ UNCHANGED <<pc, live, disk, errors>>

\* The database is deleted, and with it its table cache; it is opened again
\* with an empty one.  The limiters belong to the process.
Close ==
    /\ \A t \in Thread : pc[t].at = "idle"
    /\ handles # << >>
    /\ Becomes([Cache EXCEPT !.H = [e \in DOMAIN handles \ ToSet(lru_) |-> handles[e]],
                             !.lru = <<>>, !.list = Empty(kMinLength),
                             !.elems = 0, !.usage = 0])
    /\ UNCHANGED <<pc, live, disk, errors>>

Next ==
    \/ \E t \in Thread : \/ \E k \in File : Lookup(t, k)
                         \/ Open(t) \/ OpenFails(t) \/ NoMap(t) \/ Mmap(t) \/ MmapFails(t)
                         \/ Descriptor(t) \/ NoDescriptor(t)
                         \/ TableOpenFails(t) \/ Insert(t) \/ Release(t)
    \/ \E k \in File : Obsolete(k) \/ DeleteFile(k)
    \/ Prune
    \/ Close

Spec == Init /\ [][Next]_vars

-----------------------------------------------------------------------------
TypeOK ==
    /\ \A e \in DOMAIN handles :
          handles[e] \in [key : File, kind : Kind,
                          refs : 1..(Cardinality(Thread) + 1), in_cache : BOOLEAN]
    /\ \A i \in DOMAIN lru_ : lru_[i] \in DOMAIN handles
    /\ in_use_ \subseteq DOMAIN handles
    /\ elems_ \in Nat /\ usage_ \in Nat
    /\ mmapAllowed \in Int /\ fdAllowed \in Int
    /\ live \subseteq disk /\ disk \subseteq File /\ errors \in 0..MaxErrors

Users(e) == {t \in Thread : pc[t].handle = e}

\* The bookkeeping of the cache, after any interleaving of its users: an
\* entry has one reference per user and one of the cache; the idle ones are
\* in lru_, the used ones in in_use_, those that were erased or replaced
\* while in use in neither; usage_ is the sum of the charges; and the hash
\* table finds exactly the entries of the cache, each by its key.
Accounted ==
    LET cached == {e \in DOMAIN handles : handles[e].in_cache}
    IN /\ \A e \in DOMAIN handles :
             handles[e].refs = Cardinality(Users(e)) + (IF handles[e].in_cache THEN 1 ELSE 0)
       /\ ToSet(lru_) = {e \in cached : Users(e) = {}} /\ IsInjective(lru_)
       /\ in_use_ = {e \in cached : Users(e) # {}}
       /\ usage_ = SumCharge(handles, cached)
       /\ elems_ = Cardinality(cached)
       /\ UNION {ToSet(list_[b]) : b \in DOMAIN list_} = cached
       /\ \A e \in cached : Find(handles, list_, handles[e].key) = e

\* Whoever uses a table has the table of the file that was asked for, it is
\* not deleted, and its file can be read, even without a descriptor.
InUseIsOpen ==
    \A t \in Thread : pc[t].at = "use" =>
        /\ pc[t].handle \in DOMAIN handles
        /\ handles[pc[t].handle].key = pc[t].key
        /\ pc[t].key \in disk

\* The maps and descriptors held, by cached tables and by threads about to
\* insert one, are those the limiters count, and no more than allowed: no
\* failure, replacement or eviction leaks one or gives one back twice.
LimitersExact ==
    LET held(kind) == Cardinality({e \in DOMAIN handles : handles[e].kind = kind})
                      + Cardinality({t \in Thread : pc[t].kind = kind})
        at(place) == Cardinality({t \in Thread : pc[t].at = place})
    IN /\ held("mmap") + at("map") <= MaxMmaps /\ held("fd") <= MaxFds
       /\ mmapAllowed = MaxMmaps - held("mmap") - at("map") - at("noMap")
       /\ fdAllowed = MaxFds - held("fd") - at("noDescriptor")

\* No table of a deleted file is left open: neither in the cache nor with a
\* thread that was opening it while the file was being dropped.
DeletedNotOpen ==
    \A k \in File \ disk : /\ \A e \in DOMAIN handles : handles[e].key # k
                           /\ \A t \in Thread : pc[t].key # k

=============================================================================
