----------------------------- MODULE VersionSet -----------------------------
(***************************************************************************)
(* The file metadata of LevelDB (db/version_set.cc, db/dbformat.cc): which *)
(* tables a version holds at which level, how a lookup finds the tables to *)
(* search, and how a compaction chooses its inputs.                        *)
(*                                                                         *)
(* Everything here is a pure operator.  T is the content of the table      *)
(* files: a function from file numbers to non-empty sets of entries; the   *)
(* smallest and largest key that FileMetaData caches are those of the set. *)
(* A version is a function from levels to sets of file numbers.  File      *)
(* sizes are left out: a choice the code makes by size is a choice here.   *)
(***************************************************************************)
EXTENDS Integers, Sequences, FiniteSets, SequencesExt

CONSTANTS Key,                  \* user keys, integers in comparator order
          kNumLevels,           \* 7 in the code
          kMaxMemCompactLevel,  \* 2 in the code
          MaxSeq                \* the sequence numbers of the model

ASSUME KeyAssumption == Key \subseteq Int /\ IsFiniteSet(Key) /\ Key # {}
ASSUME LevelAssumption == /\ kNumLevels \in Nat /\ kNumLevels >= 2
                          /\ kMaxMemCompactLevel \in 0..(kNumLevels - 1)
ASSUME SeqAssumption == MaxSeq \in Nat \ {0}

Level == 0..(kNumLevels - 1)

\* An entry of a memtable or a table.  The value of a put is identified by
\* its sequence number; "del" is a deletion marker.
Entry == [key : Key, seq : 1..MaxSeq, type : {"put", "del"}]

kMaxSequenceNumber == MaxSeq + 1

\* InternalKeyComparator::Compare(a, b) < 0: user key up, sequence down.
Before(a, b) == a.key < b.key \/ (a.key = b.key /\ a.seq > b.seq)

smallest(T, f) == CHOOSE e \in T[f] : \A d \in T[f] : ~Before(d, e)
largest(T, f) == CHOOSE e \in T[f] : \A d \in T[f] : ~Before(e, d)

\* Builder::BySmallestKey: file f comes before file g.
BySmallestKey(T, f, g) ==
    LET a == smallest(T, f)
        b == smallest(T, g)
    IN Before(a, b) \/ (~Before(b, a) /\ f < g)

\* The files of a level in the order in which SaveTo lays them out.
files_(T, v, level) ==
    SetToSortSeq(v[level], LAMBDA f, g : BySmallestKey(T, f, g))

-----------------------------------------------------------------------------
(***************************************************************************)
(* Lookup.                                                                 *)
(***************************************************************************)

\* The binary search for the first file whose largest key is at or after
\* the target; Len(files) + 1 when there is none.
FindFile(T, files, target) ==
    LET search[left \in 0..Len(files), right \in 0..Len(files)] ==
            IF left >= right THEN right
            ELSE LET mid == (left + right) \div 2
                 IN IF Before(largest(T, files[mid + 1]), target)
                    THEN search[mid + 1, right]
                    ELSE search[left, mid]
    IN search[0, Len(files)] + 1

\* The entry that a seek to (k, s) finds in a memtable or a table, as the
\* set of at most one entry: the newest for k that is not newer than s.
Seek(ents, k, s) ==
    {e \in ents : /\ e.key = k /\ e.seq <= s
                  /\ \A d \in ents : d.key = k /\ d.seq <= s => d.seq <= e.seq}

\* The files Version::Get searches at a level, in the order it does so: at
\* level 0 every file whose range has the key, newest first; below that the
\* one file the binary search lands on, if its range has begun.
FilesToSearch(T, v, level, k, s) ==
    IF level = 0
    THEN SetToSortSeq({f \in v[0] : /\ smallest(T, f).key <= k
                                    /\ k <= largest(T, f).key},
                      LAMBDA f, g : f > g)
    ELSE LET files == files_(T, v, level)
             index == FindFile(T, files, [key |-> k, seq |-> s])
         IN IF index > Len(files) THEN <<>>
            ELSE IF k < smallest(T, files[index]).key THEN <<>>
            ELSE <<files[index]>>

\* Version::Get: the first hit on the way down the levels.
VersionGet(T, v, k, s) ==
    LET path == FlattenSeq([i \in 1..kNumLevels |->
                                FilesToSearch(T, v, i - 1, k, s)])
        hits == SelectSeq(path, LAMBDA f : Seek(T[f], k, s) # {})
    IN IF hits = <<>> THEN {} ELSE Seek(T[hits[1]], k, s)

\* DBImpl::Get: the memtable, the immutable memtable, the version.  The
\* result is the sequence number of the put that is read, 0 for NotFound.
Get(T, mem, imm, v, k, s) ==
    LET found == IF Seek(mem, k, s) # {} THEN Seek(mem, k, s)
                 ELSE IF Seek(imm, k, s) # {} THEN Seek(imm, k, s)
                 ELSE VersionGet(T, v, k, s)
    IN IF \E e \in found : e.type = "put"
       THEN (CHOOSE e \in found : TRUE).seq ELSE 0

-----------------------------------------------------------------------------
(***************************************************************************)
(* Ranges of user keys.  A null bound of the code is the extreme key.      *)
(***************************************************************************)

\* AfterFile and BeforeFile both false: the ranges meet.
Meets(T, f, lo, hi) == lo <= largest(T, f).key /\ smallest(T, f).key <= hi

\* SomeFileOverlapsRange: all files at level 0, one binary search below.
OverlapInLevel(T, v, level, lo, hi) ==
    IF level = 0 THEN \E f \in v[0] : Meets(T, f, lo, hi)
    ELSE LET files == files_(T, v, level)
             index == FindFile(T, files,
                               [key |-> lo, seq |-> kMaxSequenceNumber])
         IN index <= Len(files) /\ smallest(T, files[index]).key <= hi

\* The files of a level that overlap the range.  At level 0 a file that
\* sticks out of the range widens it and the search starts again, until no
\* file does: the least range around lo..hi that no file of it leaves.
GetOverlappingInputs(T, v, level, lo, hi) ==
    LET closed == {r \in Key \X Key :
                     /\ r[1] <= lo /\ hi <= r[2]
                     /\ \A f \in v[0] : Meets(T, f, r[1], r[2]) =>
                           /\ r[1] <= smallest(T, f).key
                           /\ largest(T, f).key <= r[2]}
                  \union {<<Min(Key), Max(Key)>>}
        begin == IF level = 0 THEN Max({r[1] : r \in closed}) ELSE lo
        end == IF level = 0 THEN Min({r[2] : r \in closed}) ELSE hi
    IN {f \in v[level] : Meets(T, f, begin, end)}

\* GetRange and GetRange2, as user keys (their callers use nothing else).
LowKey(T, fs) == Min({smallest(T, f).key : f \in fs})
HighKey(T, fs) == Max({largest(T, f).key : f \in fs})

\* Mutated PickLevelForMemTableOutput: the level that the table leaves is looked
\* at, not the one that it is pushed to.
PickLevelUnchecked(T, v, lo, hi) ==
    LET free == {l \in 0..kMaxMemCompactLevel :
                    \A m \in 0..(l - 1) : ~OverlapInLevel(T, v, m, lo, hi)}
    IN {Max(free)}

\* PickLevelForMemTableOutput.  The push stops at a level whose successor
\* overlaps, and it may stop earlier when the level after that holds too
\* many overlapping bytes: the set of levels it may return.
PickLevelForMemTableOutput(T, v, lo, hi) ==
    LET free == {l \in 0..kMaxMemCompactLevel :
                    \A m \in 0..l : ~OverlapInLevel(T, v, m, lo, hi)}
    IN IF free = {} THEN {0}
       ELSE {l \in free :
               \/ l = Max(free)
               \/ /\ l + 2 < kNumLevels
                  /\ GetOverlappingInputs(T, v, l + 2, lo, hi) # {}}

-----------------------------------------------------------------------------
(***************************************************************************)
(* The inputs of a compaction.                                             *)
(***************************************************************************)

\* AddBoundaryInputs: as long as a file of the level begins with the user
\* key that the chosen files end with, take the first such file as well: the
\* least set of files that a file of it, or the last chosen one, leads to.
AddBoundaryInputs(T, v, level, chosen) ==
    LET last(S) == CHOOSE f \in S : \A g \in S :
                       ~Before(largest(T, f), largest(T, g))
        next(f) == {g \in v[level] :
                       /\ Before(largest(T, f), smallest(T, g))
                       /\ smallest(T, g).key = largest(T, f).key}
        first(S) == CHOOSE f \in S : \A g \in S :
                       ~Before(smallest(T, g), smallest(T, f))
        leads(f, S) == next(f) # {} => first(next(f)) \in S
        closed == {S \in SUBSET v[level] : /\ leads(last(chosen), S)
                                           /\ \A f \in S : leads(f, S)}
    IN IF chosen = {} THEN {} ELSE chosen \union {g \in v[level] : \A S \in closed : g \in S}

\* SetupOtherInputs: the overlapping files of the next level, and then, if
\* that does not enlarge the next level's share, every file of this level in
\* the whole range.  The growth is given up when it would be too large, so
\* both outcomes are possible.
SetupOtherInputs(T, v, level, chosen) ==
    LET in0 == AddBoundaryInputs(T, v, level, chosen)
        in1 == GetOverlappingInputs(T, v, level + 1,
                                    LowKey(T, in0), HighKey(T, in0))
        all == in0 \union in1
        more0 == AddBoundaryInputs(T, v, level,
                     GetOverlappingInputs(T, v, level,
                                          LowKey(T, all), HighKey(T, all)))
        more1 == GetOverlappingInputs(T, v, level + 1,
                                      LowKey(T, more0), HighKey(T, more0))
        grows == /\ in1 # {}
                 /\ Cardinality(more0) > Cardinality(in0)
                 /\ Cardinality(more1) = Cardinality(in1)
    IN {[in0 |-> in0, in1 |-> in1]}
         \union (IF grows THEN {[in0 |-> more0, in1 |-> more1]} ELSE {})

\* PickCompaction from a file that a full level or a seek has singled out.
PickCompaction(T, v, level, f) ==
    SetupOtherInputs(T, v, level,
        IF level = 0
        THEN GetOverlappingInputs(T, v, 0, smallest(T, f).key, largest(T, f).key)
        ELSE {f})

\* VersionSet::CompactRange: the files in a range of keys; below level 0 it
\* stops after as many of them as reach the size limit.
CompactRange(T, v, level, lo, hi) ==
    LET inputs == GetOverlappingInputs(T, v, level, lo, hi)
        first(S) == \A f \in S, g \in inputs : BySmallestKey(T, g, f) => g \in S
        shots == IF level = 0 THEN {inputs}
                 ELSE {S \in SUBSET inputs : S # {} /\ first(S)}
    IN IF inputs = {} THEN {}
       ELSE UNION {SetupOtherInputs(T, v, level, shot) : shot \in shots}

\* Compaction::IsBaseLevelForKey
IsBaseLevelForKey(T, v, level, k) ==
    \A m \in (level + 2)..(kNumLevels - 1) : \A f \in v[m] :
        ~(smallest(T, f).key <= k /\ k <= largest(T, f).key)

\* Mutated Survivors: an entry is dropped below any newer one, snapshots or not.
SurvivorsNewest(T, v, level, ents, smallestSnapshot) ==
    {e \in ents :
       /\ \A d \in ents : d.key = e.key => d.seq <= e.seq
       /\ ~ /\ e.type = "del" /\ e.seq <= smallestSnapshot
            /\ IsBaseLevelForKey(T, v, level, e.key)}

\* The entries of a compaction's inputs that DoCompactionWork writes out:
\* not those hidden below a newer entry that every snapshot sees, nor a
\* deletion every snapshot sees with nothing left under it to delete.
Survivors(T, v, level, ents, smallestSnapshot) ==
    {e \in ents :
       /\ \A d \in ents : d.key = e.key /\ d.seq > e.seq => d.seq > smallestSnapshot
       /\ ~ /\ e.type = "del" /\ e.seq <= smallestSnapshot
            /\ IsBaseLevelForKey(T, v, level, e.key)}

-----------------------------------------------------------------------------
(***************************************************************************)
(* Version edits.  A descriptor is what a MANIFEST replays to.             *)
(***************************************************************************)

\* Builder::Apply and SaveTo: deletions, then additions, level by level.
Apply(v, edit) ==
    [l \in Level |-> (v[l] \ {d[2] : d \in {x \in edit.del : x[1] = l}})
                         \union {a[2] : a \in {x \in edit.add : x[1] = l}}]

Replay(desc, edit) == [files |-> Apply(desc.files, edit), log |-> edit.log,
                       next |-> edit.next, seq |-> edit.seq]

FilesOf(v) == UNION {v[l] : l \in Level}

\* What SaveTo checks of every level but 0 in a debug build.
NoOverlap(T, v) ==
    \A l \in Level \ {0} : \A f, g \in v[l] :
        f # g => \/ Before(largest(T, f), smallest(T, g))
                 \/ Before(largest(T, g), smallest(T, f))
=============================================================================
