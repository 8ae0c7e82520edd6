---------------------------- MODULE DBImplProofs ----------------------------
(***************************************************************************)
(* Proofs about DBImpl, for any writes, keys, levels and bounds: numbers   *)
(* are never given out twice, no file is deleted that someone will open,   *)
(* and the database implements KVStore, over failed syncs, crashes and     *)
(* crashes during recovery.  DBInv is inductive; it speaks of the disk,    *)
(* and each action has a lemma that says which part of it changes how.     *)
(***************************************************************************)
EXTENDS DBImpl, FiniteSetTheorems, SequenceTheorems, WellFoundedInduction, TLAPS

\* A set of natural numbers that is not empty has a least element.
LEMMA LeastNat ==
    ASSUME NEW T \in SUBSET Nat, T # {}
    PROVE  \E m \in T : \A x \in T : m <= x
<1> DEFINE R == OpToRel(<, Nat)
<1>1. IsWellFoundedOn(R, Nat)
    BY NatLessThanWellFounded
<1> HIDE DEF R
<1>2. PICK m \in T : \A y \in T : ~ (<<y, m>> \in R)
    BY <1>1, WFMin
<1>3. \A y \in T : ~(y < m)
    BY <1>2 DEF R, OpToRel
<1> QED BY <1>3

\* Induction up to n, for a set: what it proves of a recursive function does
\* not need an operator as a parameter.
LEMMA Induction ==
    ASSUME NEW n \in Nat, NEW T \in SUBSET (0..n), 0 \in T,
           \A i \in 1..n : i - 1 \in T => i \in T
    PROVE  T = 0..n
<1> SUFFICES ASSUME (0..n) \ T # {} PROVE FALSE
    OBVIOUS
<1>1. PICK m \in (0..n) \ T : \A x \in (0..n) \ T : m <= x
  <2> DEFINE M == (0..n) \ T
  <2>1. M \in SUBSET Nat /\ M # {}
    OBVIOUS
  <2> HIDE DEF M
  <2>2. \E m \in M : \A x \in M : m <= x
    BY <2>1, LeastNat
  <2> QED BY <2>2 DEF M
<1>2. m \in 1..n /\ m - 1 \in 0..n /\ ~(m <= m - 1)
    BY <1>1
<1> QED BY <1>1, <1>2

\* A set of natural numbers with a bound has a largest element.
LEMMA MaxOfBounded ==
    ASSUME NEW b \in Nat, NEW S \in SUBSET (0..b), S # {}
    PROVE  Max(S) \in S /\ \A x \in S : x <= Max(S)
<1> DEFINE T == {b - x : x \in S}
<1>1. T \in SUBSET Nat /\ T # {}
  <2>1. \A x \in S : b - x \in Nat
    OBVIOUS
  <2> QED BY <2>1
<1>2. PICK m \in T : \A x \in T : m <= x
  <2> HIDE DEF T
  <2> QED BY <1>1, LeastNat
<1>3. PICK k \in S : m = b - k
    BY <1>2
<1>4. \A x \in S : k >= x
    BY <1>2, <1>3
<1>5. Max(S) \in S /\ \A y \in S : Max(S) >= y
    BY <1>4 DEF Max
<1> QED BY <1>5

\* The larger of two numbers.
LEMMA MaxOfTwo ==
    ASSUME NEW a \in Nat, NEW b \in Nat
    PROVE  Max({a, b}) \in Nat /\ a <= Max({a, b}) /\ b <= Max({a, b})
<1>1. \E x \in {a, b} : \A y \in {a, b} : x >= y
  <2>1. CASE a >= b
    BY <2>1
  <2>2. CASE ~(a >= b)
    BY <2>2
  <2> QED BY <2>1, <2>2
<1>2. Max({a, b}) \in {a, b} /\ \A y \in {a, b} : Max({a, b}) >= y
    BY <1>1 DEF Max
<1> QED BY <1>2

-----------------------------------------------------------------------------
\* One file more, or one that is written anew.
LEMMA FileAdded ==
    ASSUME NEW F, NEW n, NEW x, NEW U, U = NewWritableFile(F, n, x)
    PROVE  /\ DOMAIN U = DOMAIN F \union {n} /\ U[n] = x
           /\ \A f \in DOMAIN F : f # n => U[f] = F[f]
    BY DEF NewWritableFile

\* A file of the same kind as the others.
LEMMA FileAddedType ==
    ASSUME NEW B, NEW F, F \in [DOMAIN F -> B], NEW n, NEW x \in B, NEW U, U = NewWritableFile(F, n, x)
    PROVE  U \in [DOMAIN U -> B]
    BY DEF NewWritableFile

\* The files of a version are those of its levels.
LEMMA FilesOfMember ==
    ASSUME NEW v, NEW f
    PROVE  f \in FilesOf(v) <=> \E l \in Level : f \in v[l]
    BY DEF FilesOf

\* An edit adds no other files than it says.
LEMMA ApplyFiles ==
    ASSUME NEW v \in Version, NEW edit, \A a \in edit.add : a[2] \in FileNumber
    PROVE  /\ Apply(v, edit) \in Version
           /\ \A f \in FilesOf(Apply(v, edit)) : f \in FilesOf(v) \/ \E a \in edit.add : f = a[2]
<1>1. \A l \in Level : v[l] \in SUBSET FileNumber
    BY DEF Version
<1>2. Apply(v, edit) \in Version
    BY <1>1 DEF Apply, Version
<1>3. \A l \in Level : Apply(v, edit)[l] = (v[l] \ {d[2] : d \in {x \in edit.del : x[1] = l}})
                         \union {a[2] : a \in {x \in edit.add : x[1] = l}}
    BY DEF Apply
<1>4. ASSUME NEW f \in FilesOf(Apply(v, edit))
      PROVE  f \in FilesOf(v) \/ \E a \in edit.add : f = a[2]
  <2>1. PICK l \in Level : f \in Apply(v, edit)[l]
    BY FilesOfMember
  <2>2. f \in v[l] \/ \E a \in edit.add : f = a[2]
    BY <2>1, <1>3
  <2> QED BY <2>2, FilesOfMember
<1> QED BY <1>2, <1>4

\* The files of a version are file numbers.
LEMMA FilesAreNumbers ==
    ASSUME NEW v \in Version
    PROVE  FilesOf(v) \in SUBSET FileNumber
    BY DEF FilesOf, Version

\* A MANIFEST replays to something, in the end to its last descriptor.
LEMMA LastOf ==
    ASSUME NEW M \in Seq(Descriptor) \ {<<>>}
    PROVE  /\ Len(M) \in Nat /\ Len(M) >= 1 /\ DOMAIN M = 1..Len(M)
           /\ Len(M) \in DOMAIN M /\ Last(M) = M[Len(M)] /\ Last(M) \in Descriptor
           /\ \A i \in DOMAIN M : M[i] \in Descriptor
<1>1. Len(M) \in Nat /\ DOMAIN M = 1..Len(M) /\ Len(M) # 0
    BY EmptySeq, LenProperties
<1> QED BY <1>1 DEF Last

\* One record more.
LEMMA AppendRecord ==
    ASSUME NEW M \in Seq(Descriptor) \ {<<>>}, NEW m \in Descriptor, NEW N, N = Append(M, m)
    PROVE  /\ N \in Seq(Descriptor) \ {<<>>} /\ Len(N) = Len(M) + 1 /\ Len(N) > 1 /\ Last(N) = m
           /\ DOMAIN N = 1..(Len(M) + 1) /\ N[Len(M) + 1] = m
           /\ \A i \in DOMAIN M : i \in DOMAIN N /\ N[i] = M[i]
           /\ \A i \in DOMAIN N : i \in DOMAIN M \/ (i = Len(M) + 1 /\ N[i] = m)
<1>1. Len(M) \in Nat /\ Len(M) >= 1 /\ DOMAIN M = 1..Len(M)
    BY LastOf
<1>2. /\ N \in Seq(Descriptor) /\ Len(N) = Len(M) + 1 /\ N[Len(M) + 1] = m
      /\ \A i \in 1..Len(M) : N[i] = M[i]
    OBVIOUS
<1>3. DOMAIN N = 1..(Len(M) + 1)
    BY <1>2
<1> QED BY <1>1, <1>2, <1>3 DEF Last

\* A record that did not get into the MANIFEST.
LEMMA FrontRecords ==
    ASSUME NEW M \in Seq(Descriptor) \ {<<>>}, Len(M) > 1, NEW N, N = Front(M)
    PROVE  /\ N \in Seq(Descriptor) \ {<<>>} /\ Len(N) = Len(M) - 1
           /\ \A i \in DOMAIN N : i \in DOMAIN M /\ N[i] = M[i]
<1>1. Len(M) \in Nat /\ DOMAIN M = 1..Len(M)
    BY LastOf
<1>2. N = SubSeq(M, 1, Len(M) - 1)
    BY DEF Front
<1>3. N \in Seq(Descriptor) /\ Len(N) = Len(M) - 1 /\ \A i \in 1..(Len(M) - 1) : N[i] = M[i]
    BY <1>1, <1>2
<1> QED BY <1>1, <1>3, EmptySeq, LenProperties

\* A MANIFEST with one record.
LEMMA OneRecord ==
    ASSUME NEW m \in Descriptor, NEW N, N = <<m>>
    PROVE  /\ N \in Seq(Descriptor) \ {<<>>} /\ Last(N) = m /\ Len(N) = 1
           /\ DOMAIN N = {1} /\ N[1] = m
    BY DEF Last

-----------------------------------------------------------------------------
\* Logs K hold what logs L do, and have synced it if L have.
KeepsLogs(L, K) ==
    /\ DOMAIN L \subseteq DOMAIN K
    /\ \A n \in DOMAIN L :
          /\ L[n].synced <= K[n].synced
          /\ \A i \in DOMAIN L[n].recs : i \in DOMAIN K[n].recs /\ K[n].recs[i] = L[n].recs[i]

\* Files F of T are unchanged in U.
KeepsTables(T, U, F) == \A f \in F : f \in DOMAIN U /\ U[f] = T[f]

\* The records of a log.
LEMMA LogTypes ==
    ASSUME NEW l \in LogFile
    PROVE  /\ l.recs \in Seq(Batch) /\ l.synced \in Nat /\ Len(l.recs) \in Nat
           /\ DOMAIN l.recs = 1..Len(l.recs) /\ l.synced <= Len(l.recs)
           /\ \A i \in DOMAIN l.recs : l.recs[i] \in Batch
           /\ ToSet(l.recs) \in SUBSET Batch
<1>1. l.recs \in Seq(Batch) /\ l.synced \in Nat /\ l.synced <= Len(l.recs)
    BY DEF LogFile
<1>2. Len(l.recs) \in Nat /\ DOMAIN l.recs = 1..Len(l.recs) /\ \A i \in DOMAIN l.recs : l.recs[i] \in Batch
    BY <1>1
<1> QED BY <1>1, <1>2 DEF ToSet

\* A batch in a log stays there.
LEMMA LoggedKept ==
    ASSUME NEW L, NEW K, KeepsLogs(L, K), NEW h, Logged(L, h)
    PROVE  Logged(K, h)
    BY DEF KeepsLogs, Logged, ToSet

\* A batch in the synced part of a log stays there.
LEMMA SyncedKept ==
    ASSUME NEW L, NEW K, L \in [DOMAIN L -> LogFile], K \in [DOMAIN K -> LogFile],
           KeepsLogs(L, K), NEW h, Synced(L, h)
    PROVE  Synced(K, h)
<1> DEFINE n == h.log
<1>1. n \in DOMAIN L /\ n \in DOMAIN K
    BY DEF Synced, KeepsLogs
<1>2. PICK i \in 1..L[n].synced : L[n].recs[i] = h.ents
    BY DEF Synced
<1>3. L[n] \in LogFile /\ K[n] \in LogFile
    BY <1>1
<1>4. L[n].synced \in Nat /\ K[n].synced \in Nat /\ L[n].synced <= K[n].synced /\ i \in DOMAIN L[n].recs
  <2>1. L[n].synced \in Nat /\ K[n].synced \in Nat /\ DOMAIN L[n].recs = 1..Len(L[n].recs)
          /\ L[n].synced <= Len(L[n].recs) /\ Len(L[n].recs) \in Nat
    BY <1>3, LogTypes
  <2>2. L[n].synced <= K[n].synced
    BY <1>1 DEF KeepsLogs
  <2> QED BY <1>2, <2>1, <2>2
<1>5. K[n].recs[i] = h.ents /\ i \in 1..K[n].synced
  <2>1. K[n].recs[i] = L[n].recs[i]
    BY <1>1, <1>4 DEF KeepsLogs
  <2> QED BY <1>2, <1>4, <2>1
<1> QED BY <1>1, <1>5 DEF Synced

\* What is synced is logged.
LEMMA SyncedLogged ==
    ASSUME NEW L, L \in [DOMAIN L -> LogFile], NEW h, Synced(L, h)
    PROVE  Logged(L, h)
<1> DEFINE n == h.log
<1>1. n \in DOMAIN L
    BY DEF Synced
<1>2. PICK i \in 1..L[n].synced : L[n].recs[i] = h.ents
    BY DEF Synced
<1>3. L[n].synced \in Nat /\ DOMAIN L[n].recs = 1..Len(L[n].recs)
        /\ L[n].synced <= Len(L[n].recs) /\ Len(L[n].recs) \in Nat
    BY <1>1, LogTypes
<1>4. i \in DOMAIN L[n].recs
    BY <1>3
<1> QED BY <1>1, <1>2, <1>4 DEF Logged, ToSet

\* Tables that are kept hold what they held.
LEMMA InTablesKept ==
    ASSUME NEW T, NEW U, NEW m, KeepsTables(T, U, FilesOf(m.files)), NEW h, InTables(T, h, m)
    PROVE  InTables(U, h, m)
<1>1. {T[f] : f \in FilesOf(m.files)} = {U[f] : f \in FilesOf(m.files)}
    BY DEF KeepsTables
<1> QED BY <1>1 DEF InTables

\* A descriptor whose tables are kept.
LEMMA DescriptorKept ==
    ASSUME NEW T, NEW U, NEW m, KeepsTables(T, U, FilesOf(m.files)), DescriptorOK(m, T)
    PROVE  DescriptorOK(m, U)
    BY DEF DescriptorOK, KeepsTables

\* Descriptors whose tables are kept.
LEMMA DescriptorsKept ==
    ASSUME NEW M, NEW T, NEW U, DescriptorsOK(M, T),
           \A i \in DOMAIN M : KeepsTables(T, U, FilesOf(M[i].files))
    PROVE  DescriptorsOK(M, U)
    BY DescriptorKept DEF DescriptorsOK

\* The tables of the descriptors exist.
LEMMA DescriptorTables ==
    ASSUME NEW M, NEW T, NEW U, DescriptorsOK(M, T), KeepsTables(T, U, DOMAIN T)
    PROVE  \A i \in DOMAIN M : KeepsTables(T, U, FilesOf(M[i].files))
    BY DEF DescriptorsOK, DescriptorOK, KeepsTables

\* A batch when logs and tables are kept.
LEMMA BatchKept ==
    ASSUME NEW T, NEW U, NEW L, NEW K, NEW m, NEW h, KeepsLogs(L, K),
           KeepsTables(T, U, FilesOf(m.files)), BatchOK(h, m, L, T)
    PROVE  BatchOK(h, m, K, U)
<1>1. Logged(L, h) => Logged(K, h)
    BY LoggedKept
<1>2. InTables(T, h, m) => InTables(U, h, m)
    BY InTablesKept
<1>3. h.log \in DOMAIN L => h.log \in DOMAIN K
    BY DEF KeepsLogs
<1> QED BY <1>1, <1>2, <1>3 DEF BatchOK

\* A durable batch when logs and tables are kept.
LEMMA DurableKept ==
    ASSUME NEW T, NEW U, NEW L, NEW K, NEW m, NEW h,
           L \in [DOMAIN L -> LogFile], K \in [DOMAIN K -> LogFile], KeepsLogs(L, K),
           KeepsTables(T, U, FilesOf(m.files)), DurableOK(h, m, L, T)
    PROVE  DurableOK(h, m, K, U)
<1>1. Synced(L, h) => Synced(K, h)
    BY SyncedKept
<1>2. InTables(T, h, m) => InTables(U, h, m)
    BY InTablesKept
<1> QED BY <1>1, <1>2 DEF DurableOK

\* Nothing changes.
LEMMA KeepSame ==
    ASSUME NEW L, L \in [DOMAIN L -> LogFile], NEW T, NEW F, F \subseteq DOMAIN T
    PROVE  KeepsLogs(L, L) /\ KeepsTables(T, T, F)
<1>1. \A n \in DOMAIN L : L[n].synced \in Nat
    BY LogTypes
<1> QED BY <1>1 DEF KeepsLogs, KeepsTables

\* Logs K are L with a record appended to log n.
Appended(L, K, n, ents) ==
    /\ DOMAIN K = DOMAIN L /\ K \in [DOMAIN K -> LogFile] /\ KeepsLogs(L, K)
    /\ \A k \in DOMAIN L : k # n => K[k] = L[k]
    /\ ToSet(K[n].recs) = ToSet(L[n].recs) \union {ents}

\* A record is appended to a log.
LEMMA LogAppended ==
    ASSUME NEW L, L \in [DOMAIN L -> LogFile], NEW n \in DOMAIN L, NEW ents \in Batch,
           NEW K, K = [L EXCEPT ![n].recs = Append(@, ents)]
    PROVE  Appended(L, K, n, ents)
<1> DEFINE recs == Append(L[n].recs, ents)
<1>1. L[n] \in LogFile
    OBVIOUS
<1>2. L[n] \in [recs : Seq(Batch), synced : Nat]
    BY <1>1 DEF LogFile
<1>3. K = [L EXCEPT ![n] = [L[n] EXCEPT !.recs = recs]]
    OBVIOUS
<1>4. [L[n] EXCEPT !.recs = recs] = [recs |-> recs, synced |-> L[n].synced]
  <2> HIDE DEF recs
  <2> QED BY <1>2
<1>5. DOMAIN K = DOMAIN L /\ \A k \in DOMAIN L : K[k] = IF k = n THEN [recs |-> recs, synced |-> L[n].synced] ELSE L[k]
    BY <1>3, <1>4
<1>6. /\ L[n].recs \in Seq(Batch) /\ L[n].synced \in Nat /\ Len(L[n].recs) \in Nat
      /\ DOMAIN L[n].recs = 1..Len(L[n].recs) /\ L[n].synced <= Len(L[n].recs)
    BY <1>1, LogTypes
<1>7. /\ recs \in Seq(Batch) /\ Len(recs) = Len(L[n].recs) + 1 /\ DOMAIN recs = 1..(Len(L[n].recs) + 1)
      /\ \A i \in 1..Len(L[n].recs) : recs[i] = L[n].recs[i]
      /\ recs[Len(L[n].recs) + 1] = ents
    BY <1>6
<1> HIDE DEF recs
<1>8. [recs |-> recs, synced |-> L[n].synced] \in LogFile
  <2>1. L[n].synced <= Len(recs)
    BY <1>6, <1>7
  <2> QED BY <1>6, <1>7, <2>1 DEF LogFile
<1>9. K \in [DOMAIN K -> LogFile]
  <2>1. \A k \in DOMAIN K : K[k] \in LogFile
    BY <1>5, <1>8
  <2> QED BY <2>1, <1>3
<1>10. K[n].recs = recs /\ K[n].synced = L[n].synced
    BY <1>5
<1>11. KeepsLogs(L, K)
  <2> SUFFICES ASSUME NEW k \in DOMAIN L
               PROVE  /\ L[k].synced <= K[k].synced
                      /\ \A i \in DOMAIN L[k].recs : i \in DOMAIN K[k].recs /\ K[k].recs[i] = L[k].recs[i]
    BY <1>5 DEF KeepsLogs
  <2>1. CASE k = n
    BY <2>1, <1>6, <1>7, <1>10
  <2>2. CASE k # n
    <3>1. L[k].synced \in Nat
      BY LogTypes
    <3> QED BY <2>2, <3>1, <1>5
  <2> QED BY <2>1, <2>2
<1>12. ToSet(recs) = ToSet(L[n].recs) \union {ents}
    BY <1>6, <1>7 DEF ToSet
<1> QED BY <1>5, <1>9, <1>10, <1>11, <1>12 DEF Appended

\* Logs K are L with log n synced.
SyncedAt(L, K, n) ==
    /\ DOMAIN K = DOMAIN L /\ K \in [DOMAIN K -> LogFile] /\ KeepsLogs(L, K)
    /\ \A k \in DOMAIN L : K[k].recs = L[k].recs
    /\ K[n].synced = Len(K[n].recs)

\* A log is synced.
LEMMA LogSynced ==
    ASSUME NEW L, L \in [DOMAIN L -> LogFile], NEW n \in DOMAIN L,
           NEW K, K = [L EXCEPT ![n].synced = Len(L[n].recs)]
    PROVE  SyncedAt(L, K, n)
<1> DEFINE s == Len(L[n].recs)
<1>1. L[n] \in LogFile
    OBVIOUS
<1>2. L[n] \in [recs : Seq(Batch), synced : Nat]
    BY <1>1 DEF LogFile
<1>3. K = [L EXCEPT ![n] = [L[n] EXCEPT !.synced = s]]
    OBVIOUS
<1>4. [L[n] EXCEPT !.synced = s] = [recs |-> L[n].recs, synced |-> s]
    BY <1>2
<1>5. DOMAIN K = DOMAIN L /\ \A k \in DOMAIN L : K[k] = IF k = n THEN [recs |-> L[n].recs, synced |-> s] ELSE L[k]
    BY <1>3, <1>4
<1>6. L[n].recs \in Seq(Batch) /\ L[n].synced \in Nat /\ s \in Nat /\ L[n].synced <= s
    BY <1>1, LogTypes
<1>7. [recs |-> L[n].recs, synced |-> s] \in LogFile
    BY <1>6 DEF LogFile
<1>8. K \in [DOMAIN K -> LogFile]
  <2>1. \A k \in DOMAIN K : K[k] \in LogFile
    BY <1>5, <1>7
  <2> QED BY <2>1, <1>3
<1>9. K[n].recs = L[n].recs /\ K[n].synced = s /\ \A k \in DOMAIN L : k # n => K[k] = L[k]
    BY <1>5
<1>10. \A k \in DOMAIN L : K[k].recs = L[k].recs /\ L[k].synced <= K[k].synced
  <2> SUFFICES ASSUME NEW k \in DOMAIN L PROVE K[k].recs = L[k].recs /\ L[k].synced <= K[k].synced
    OBVIOUS
  <2>1. L[k].synced \in Nat
    BY LogTypes
  <2> HIDE DEF s
  <2>2. CASE k = n
    BY <2>2, <1>6, <1>9
  <2>3. CASE k # n
    BY <2>1, <2>3, <1>9
  <2> QED BY <2>2, <2>3
<1>11. KeepsLogs(L, K)
    BY <1>5, <1>10 DEF KeepsLogs
<1> QED BY <1>5, <1>8, <1>9, <1>10, <1>11 DEF SyncedAt

\* Logs K are L with an empty log n.
Created(L, K, n) ==
    /\ DOMAIN K = DOMAIN L \union {n} /\ K \in [DOMAIN K -> LogFile] /\ KeepsLogs(L, K)
    /\ \A k \in DOMAIN L : K[k] = L[k]
    /\ K[n].recs = <<>> /\ ToSet(K[n].recs) = {}

\* An empty log is created.
LEMMA LogCreated ==
    ASSUME NEW L, L \in [DOMAIN L -> LogFile], NEW n, n \notin DOMAIN L,
           NEW K, K = NewWritableFile(L, n, EmptyLog)
    PROVE  Created(L, K, n)
<1>1. EmptyLog \in LogFile /\ EmptyLog.recs = <<>> /\ ToSet(<<>>) = {}
    BY DEF EmptyLog, LogFile, ToSet
<1>2. /\ DOMAIN K = DOMAIN L \union {n} /\ K[n] = EmptyLog
      /\ \A f \in DOMAIN L : f # n => K[f] = L[f]
    BY DEF NewWritableFile
<1>4. K \in [DOMAIN K -> LogFile]
    BY <1>1, FileAddedType
<1>3. \A k \in DOMAIN L : K[k] = L[k] /\ L[k].synced \in Nat
    BY <1>2, LogTypes
<1>5. KeepsLogs(L, K)
    BY <1>2, <1>3 DEF KeepsLogs
<1> QED BY <1>1, <1>2, <1>3, <1>4, <1>5 DEF Created

-----------------------------------------------------------------------------
\* The numbers that a write gives to its operations.
LEMMA NumberedBatch ==
    ASSUME NEW w \in Writes, NEW s \in Nat, s + Len(w.ops) <= MaxSeq
    PROVE  /\ Len(w.ops) \in Nat /\ Len(w.ops) >= 1
           /\ Numbered(w.ops, s + 1) \in Batch
           /\ Cardinality(Numbered(w.ops, s + 1)) = Len(w.ops)
           /\ UpTo(Numbered(w.ops, s + 1), s + Len(w.ops))
           /\ ~UpTo(Numbered(w.ops, s + 1), s)
<1> DEFINE ops == w.ops
           n == Len(ops)
           ent(i) == [key |-> ops[i].key, seq |-> (s + 1) + i - 1, type |-> ops[i].type]
           N == Numbered(ops, s + 1)
           b == [i \in 1..n |-> ent(i)]
<1>1. ops \in Seq([key : Key, type : {"put", "del"}]) /\ ops # <<>>
    BY WriteAssumption
<1>2. n \in Nat /\ n # 0 /\ DOMAIN ops = 1..n /\ \A i \in 1..n : ops[i] \in [key : Key, type : {"put", "del"}]
    BY <1>1, EmptySeq, LenProperties
<1>3. MaxSeq \in Nat /\ s + n <= MaxSeq
    BY SeqAssumption
<1> HIDE DEF n, ops
<1>4. N = {ent(i) : i \in 1..n}
    BY <1>2 DEF Numbered
<1>5. \A i \in 1..n : ent(i) \in Entry /\ ent(i).seq = s + i
  <2> SUFFICES ASSUME NEW i \in 1..n PROVE ent(i) \in Entry /\ ent(i).seq = s + i
    OBVIOUS
  <2>1. ops[i].key \in Key /\ ops[i].type \in {"put", "del"}
    BY <1>2
  <2>2. (s + 1) + i - 1 = s + i /\ s + i \in 1..MaxSeq
    BY <1>2, <1>3
  <2> QED BY <2>1, <2>2 DEF Entry
<1> HIDE DEF ent
<1>6. N \in SUBSET Entry /\ ent(1) \in N /\ ent(1).seq = s + 1
  <2>1. 1 \in 1..n
    BY <1>2
  <2> QED BY <1>4, <1>5, <2>1
<1>7. b \in Bijection(1..n, N)
  <2>1. b \in [1..n -> N]
    BY <1>4
  <2>2. \A i, j \in 1..n : b[i] = b[j] => i = j
    BY <1>2, <1>5
  <2>3. \A e \in N : \E i \in 1..n : b[i] = e
    BY <1>4
  <2>4. IsInjective(b)
    BY <2>2 DEF IsInjective
  <2> QED BY <2>1, <2>3, <2>4 DEF Bijection, Injection, Surjection
<1>8. Cardinality(N) = n
  <2>1. IsFiniteSet(1..n) /\ Cardinality(1..n) = n
    <3>1. 1 \in Int /\ n \in Int
      BY <1>2
    <3>2. IsFiniteSet(1..n) /\ Cardinality(1..n) = IF 1 > n THEN 0 ELSE n - 1 + 1
      BY <3>1, FS_Interval
    <3> QED BY <1>2, <3>2
  <2>2. ExistsBijection(1..n, N)
    BY <1>7 DEF ExistsBijection
  <2> HIDE DEF N
  <2> QED BY <2>1, <2>2, FS_Bijection
<1>9. \A e \in N : e.seq <= s + n
    BY <1>2, <1>4, <1>5
<1>10. ~(s + 1 <= s)
    OBVIOUS
<1>11. /\ n \in Nat /\ n >= 1 /\ N \in Batch /\ Cardinality(N) = n /\ UpTo(N, s + n) /\ ~UpTo(N, s)
  <2> HIDE DEF N
  <2> QED BY <1>2, <1>6, <1>8, <1>9, <1>10 DEF UpTo, Batch
<1> QED BY <1>11 DEF n, ops

\* The files of a level that overlap a range are files of the level.
LEMMA OverlapsAreOfLevel ==
    ASSUME NEW T, NEW v, NEW level, NEW lo, NEW hi
    PROVE  GetOverlappingInputs(T, v, level, lo, hi) \in SUBSET v[level]
    BY DEF GetOverlappingInputs

\* So are those that share a user key with the last.
LEMMA BoundariesAreOfLevel ==
    ASSUME NEW T, NEW v, NEW level, NEW chosen \in SUBSET v[level]
    PROVE  AddBoundaryInputs(T, v, level, chosen) \in SUBSET v[level]
<1>1. CASE chosen = {}
    BY <1>1 DEF AddBoundaryInputs
<1>2. CASE chosen # {}
  <2>1. \E P : AddBoundaryInputs(T, v, level, chosen) = chosen \union {g \in v[level] : g \in P}
    <3> DEFINE last(S) == CHOOSE f \in S : \A g \in S : ~Before(largest(T, f), largest(T, g))
               next(f) == {g \in v[level] : /\ Before(largest(T, f), smallest(T, g))
                                            /\ smallest(T, g).key = largest(T, f).key}
               first(S) == CHOOSE f \in S : \A g \in S : ~Before(smallest(T, g), smallest(T, f))
               leads(f, S) == next(f) # {} => first(next(f)) \in S
               closed == {S \in SUBSET v[level] : leads(last(chosen), S) /\ \A f \in S : leads(f, S)}
               P == {g \in v[level] : \A S \in closed : g \in S}
    <3>1. AddBoundaryInputs(T, v, level, chosen) = chosen \union P
      BY <1>2, Zenon DEF AddBoundaryInputs
    <3>2. P = {g \in v[level] : g \in P}
      OBVIOUS
    <3> QED BY <3>1, <3>2
  <2> QED BY <2>1
<1> QED BY <1>1, <1>2

\* The inputs of a compaction are files of the version, at two levels.
InputsOf(v, level, inputs) ==
    /\ inputs.in0 \in SUBSET v[level] /\ inputs.in1 \in SUBSET v[level + 1]

LEMMA SetupInputs ==
    ASSUME NEW T, NEW v, NEW level, NEW chosen \in SUBSET v[level],
           NEW inputs \in SetupOtherInputs(T, v, level, chosen)
    PROVE  InputsOf(v, level, inputs)
<1> DEFINE in0 == AddBoundaryInputs(T, v, level, chosen)
           in1 == GetOverlappingInputs(T, v, level + 1, LowKey(T, in0), HighKey(T, in0))
           all == in0 \union in1
           more0 == AddBoundaryInputs(T, v, level,
                        GetOverlappingInputs(T, v, level, LowKey(T, all), HighKey(T, all)))
           more1 == GetOverlappingInputs(T, v, level + 1, LowKey(T, more0), HighKey(T, more0))
<1>1. in0 \in SUBSET v[level] /\ in1 \in SUBSET v[level + 1]
    BY OverlapsAreOfLevel, BoundariesAreOfLevel
<1>2. more0 \in SUBSET v[level] /\ more1 \in SUBSET v[level + 1]
    BY OverlapsAreOfLevel, BoundariesAreOfLevel
<1>3. inputs = [in0 |-> in0, in1 |-> in1] \/ inputs = [in0 |-> more0, in1 |-> more1]
    BY Zenon DEF SetupOtherInputs
<1> HIDE DEF in0, in1, more0, more1
<1> QED BY <1>1, <1>2, <1>3 DEF InputsOf

\* The inputs of an automatic compaction.
LEMMA PickInputs ==
    ASSUME NEW T, NEW v, NEW level, NEW f \in v[level], NEW inputs \in PickCompaction(T, v, level, f)
    PROVE  InputsOf(v, level, inputs)
<1> DEFINE chosen == IF level = 0
                     THEN GetOverlappingInputs(T, v, 0, smallest(T, f).key, largest(T, f).key)
                     ELSE {f}
<1>1. chosen \in SUBSET v[level]
    BY OverlapsAreOfLevel
<1>2. inputs \in SetupOtherInputs(T, v, level, chosen)
    BY DEF PickCompaction
<1> HIDE DEF chosen
<1> QED BY <1>1, <1>2, SetupInputs

\* The inputs of a manual compaction.
LEMMA RangeInputs ==
    ASSUME NEW T, NEW v, NEW level, NEW lo, NEW hi, NEW inputs \in CompactRange(T, v, level, lo, hi)
    PROVE  InputsOf(v, level, inputs)
<1> DEFINE all == GetOverlappingInputs(T, v, level, lo, hi)
<1>1. all \in SUBSET v[level]
    BY OverlapsAreOfLevel
<1>2. PICK chosen \in SUBSET all : inputs \in SetupOtherInputs(T, v, level, chosen)
  <2> DEFINE begins(S) == \A f \in S, g \in all : BySmallestKey(T, g, f) => g \in S
             shots == IF level = 0 THEN {all} ELSE {S \in SUBSET all : S # {} /\ begins(S)}
  <2>1. inputs \in UNION {SetupOtherInputs(T, v, level, shot) : shot \in shots}
    BY Zenon DEF CompactRange
  <2>2. shots \in SUBSET SUBSET all
    OBVIOUS
  <2> HIDE DEF shots
  <2> QED BY <2>1, <2>2
<1> QED BY <1>1, <1>2, SetupInputs

-----------------------------------------------------------------------------
\* What recovery has made of tables T after it has read the logs in newer up
\* to number n: new tables from number start on, whose entries are at most s.
ReadOK(acc, start, T, newer, n, s) ==
    /\ acc.next \in Nat /\ start <= acc.next
    /\ \A k \in newer : k <= n => k < acc.next
    /\ \A f \in acc.new : f \in Nat /\ start <= f /\ f < acc.next
    /\ DOMAIN acc.tabs = DOMAIN T \union acc.new
    /\ acc.tabs \in [DOMAIN acc.tabs -> Batch]
    /\ \A f \in DOMAIN T : f < start => acc.tabs[f] = T[f]
    /\ \A f \in acc.new : UpTo(acc.tabs[f], s)

\* A memtable of records becomes a table.
LEMMA WriteRecoveredOK ==
    ASSUME NEW acc, NEW start \in Nat, NEW T, NEW newer \in SUBSET Nat, NEW n \in Nat, NEW s,
           ReadOK(acc, start, T, newer, n, s),
           NEW recs \in Seq(Batch), \A r \in ToSet(recs) : UpTo(r, s)
    PROVE  ReadOK(WriteRecovered(acc, recs), start, T, newer, n, s)
<1>1. CASE recs = <<>>
    BY <1>1 DEF WriteRecovered
<1>2. CASE recs # <<>>
  <2> DEFINE ents == UNION ToSet(recs)
             tabs == NewWritableFile(acc.tabs, acc.next, ents)
             r == [next |-> acc.next + 1, new |-> acc.new \union {acc.next}, tabs |-> tabs]
  <2>1. WriteRecovered(acc, recs) = r
    BY <1>2 DEF WriteRecovered
  <2>2. ents \in Batch
    <3>1. ToSet(recs) \in SUBSET Batch
      BY DEF ToSet
    <3>2. recs[1] \in ToSet(recs)
      <4>1. Len(recs) \in Nat /\ Len(recs) # 0 /\ DOMAIN recs = 1..Len(recs)
        BY <1>2, EmptySeq, LenProperties
      <4>2. 1 \in DOMAIN recs
        BY <4>1
      <4> QED BY <4>2 DEF ToSet
    <3> QED BY <3>1, <3>2 DEF Batch
  <2>3. UpTo(ents, s)
    BY DEF UpTo
  <2> HIDE DEF ents
  <2>4. /\ acc.next \in Nat /\ start <= acc.next /\ acc.tabs \in [DOMAIN acc.tabs -> Batch]
        /\ DOMAIN acc.tabs = DOMAIN T \union acc.new
    BY DEF ReadOK
  <2>5. /\ DOMAIN tabs = DOMAIN acc.tabs \union {acc.next} /\ tabs[acc.next] = ents
        /\ \A f \in DOMAIN acc.tabs : f # acc.next => tabs[f] = acc.tabs[f]
    BY DEF NewWritableFile
  <2>6. tabs \in [DOMAIN tabs -> Batch]
    BY <2>2, <2>4, FileAddedType
  <2> HIDE DEF tabs
  <2>7. r.next = acc.next + 1 /\ r.new = acc.new \union {acc.next} /\ r.tabs = tabs
    OBVIOUS
  <2> HIDE DEF r
  <2>8. r.next \in Nat /\ start <= r.next /\ \A k \in newer : k <= n => k < r.next
    <3>1. \A k \in newer : k <= n => k < acc.next
      BY DEF ReadOK
    <3>2. \A k \in newer : k <= n => k < acc.next + 1
      <4> SUFFICES ASSUME NEW k \in newer, k <= n PROVE k < acc.next + 1
        OBVIOUS
      <4>1. k \in Nat /\ k < acc.next
        BY <3>1
      <4> QED BY <2>4, <4>1
    <3> QED BY <2>4, <2>7, <3>2
  <2>9. \A f \in r.new : f \in Nat /\ start <= f /\ f < r.next
    <3> SUFFICES ASSUME NEW f \in r.new PROVE f \in Nat /\ start <= f /\ f < r.next
      OBVIOUS
    <3>1. CASE f = acc.next
      BY <2>4, <2>7, <3>1
    <3>2. CASE f # acc.next
      <4>1. f \in acc.new
        BY <2>7, <3>2
      <4>2. f \in Nat /\ start <= f /\ f < acc.next
        BY <4>1 DEF ReadOK
      <4> QED BY <2>4, <2>7, <4>2
    <3> QED BY <3>1, <3>2
  <2>10. \A f \in DOMAIN T : f < start => r.tabs[f] = T[f]
    <3> SUFFICES ASSUME NEW f \in DOMAIN T, f < start PROVE tabs[f] = T[f]
      BY <2>7
    <3>1. acc.tabs[f] = T[f] /\ f \in DOMAIN acc.tabs
      BY <2>4 DEF ReadOK
    <3>2. f # acc.next
      BY <2>4
    <3> QED BY <2>5, <3>1, <3>2
  <2>11. \A f \in r.new : UpTo(r.tabs[f], s)
    <3> SUFFICES ASSUME NEW f \in r.new PROVE UpTo(tabs[f], s)
      BY <2>7
    <3>1. CASE f = acc.next
      BY <3>1, <2>3, <2>5
    <3>2. CASE f # acc.next
      <4>1. f \in acc.new /\ f \in DOMAIN acc.tabs /\ UpTo(acc.tabs[f], s)
        BY <3>2, <2>4, <2>7 DEF ReadOK
      <4> QED BY <4>1, <3>2, <2>5
    <3> QED BY <3>1, <3>2
  <2>12. DOMAIN r.tabs = DOMAIN T \union r.new
    BY <2>4, <2>5, <2>7
  <2>13. r.tabs \in [DOMAIN r.tabs -> Batch]
    BY <2>6, <2>7
  <2> QED BY <2>1, <2>8, <2>9, <2>10, <2>11, <2>12, <2>13 DEF ReadOK
<1> QED BY <1>1, <1>2

\* A part of the records.
LEMMA PartOf ==
    ASSUME NEW recs \in Seq(Batch), NEW a \in Nat \ {0}, NEW b \in 0..Len(recs)
    PROVE  SubSeq(recs, a, b) \in Seq(Batch) /\ ToSet(SubSeq(recs, a, b)) \in SUBSET ToSet(recs)
<1> DEFINE p == SubSeq(recs, a, b)
<1>1. Len(recs) \in Nat /\ DOMAIN recs = 1..Len(recs)
    OBVIOUS
<1>2. p \in Seq(Batch) /\ DOMAIN p = 1..Len(p) /\ \A i \in DOMAIN p : p[i] = recs[a + i - 1] /\ a + i - 1 \in 1..Len(recs)
  <2>1. CASE a <= b
    BY <1>1, <2>1
  <2>2. CASE ~(a <= b)
    <3>1. p = <<>>
      BY <1>1, <2>2
    <3> QED BY <3>1
  <2> QED BY <2>1, <2>2
<1> HIDE DEF p
<1>3. ToSet(p) \in SUBSET ToSet(recs)
    BY <1>1, <1>2 DEF ToSet
<1> QED BY <1>2, <1>3 DEF p

\* The places at which the write buffer may be full.
CutsOK(cut) == \A n \in DOMAIN cut : cut[n] \in Nat /\ cut[n] < Len(logs[n].recs)

\* One log is read.
LEMMA RecoverLogFileOK ==
    ASSUME NEW acc, NEW start \in Nat, NEW T, NEW newer \in SUBSET Nat, NEW n \in Nat \ {0}, NEW s,
           ReadOK(acc, start, T, newer, n - 1, s), NEW cut, CutsOK(cut), n \in newer,
           logs[n] \in LogFile, \A r \in ToSet(logs[n].recs) : UpTo(r, s)
    PROVE  ReadOK(RecoverLogFile(acc, n, cut), start, T, newer, n, s)
<1> DEFINE recs == logs[n].recs
           full == IF n \in DOMAIN cut THEN cut[n] ELSE 0
           p == SubSeq(recs, 1, full)
           q == SubSeq(recs, full + 1, Len(recs))
           mid == WriteRecovered(acc, p)
           after == WriteRecovered(mid, q)
           r == RecoverLogFile(acc, n, cut)
<1>1. recs \in Seq(Batch) /\ Len(recs) \in Nat
    BY LogTypes
<1>2. full \in 0..Len(recs)
    BY <1>1 DEF CutsOK
<1>3. r = [next |-> Max({after.next, n + 1}), new |-> after.new, tabs |-> after.tabs]
    BY DEF RecoverLogFile, Prefix
<1> HIDE DEF full, recs
<1>4. /\ p \in Seq(Batch) /\ ToSet(p) \in SUBSET ToSet(recs)
      /\ q \in Seq(Batch) /\ ToSet(q) \in SUBSET ToSet(recs)
  <2>1. 1 \in Nat \ {0} /\ full + 1 \in Nat \ {0} /\ Len(recs) \in 0..Len(recs)
    BY <1>1, <1>2
  <2> QED BY <1>1, <1>2, <2>1, PartOf
<1>5. \A x \in ToSet(recs) : UpTo(x, s)
    BY DEF recs
<1> HIDE DEF p, q
<1>6. n - 1 \in Nat
    OBVIOUS
<1>7. ReadOK(mid, start, T, newer, n - 1, s)
  <2>1. \A x \in ToSet(p) : UpTo(x, s)
    BY <1>4, <1>5
  <2> QED BY <1>4, <1>6, <2>1, WriteRecoveredOK
<1> HIDE DEF mid
<1>8. ReadOK(after, start, T, newer, n - 1, s)
  <2>1. \A x \in ToSet(q) : UpTo(x, s)
    BY <1>4, <1>5
  <2> QED BY <1>4, <1>6, <1>7, <2>1, WriteRecoveredOK
<1> HIDE DEF after
<1> DEFINE next == Max({after.next, n + 1})
<1>9. after.next \in Nat /\ start <= after.next
    BY <1>8 DEF ReadOK
<1>10. next \in Nat /\ after.next <= next /\ n + 1 <= next
    BY <1>9, MaxOfTwo
<1> HIDE DEF next
<1>11. r.next = next /\ r.new = after.new /\ r.tabs = after.tabs
    BY <1>3 DEF next
<1> HIDE DEF r
<1>12. r.next \in Nat /\ start <= r.next
    BY <1>9, <1>10, <1>11
<1>13. \A k \in newer : k <= n => k < r.next
  <2>1. \A k \in newer : k <= n - 1 => k < after.next
    BY <1>8 DEF ReadOK
  <2> SUFFICES ASSUME NEW k \in newer, k <= n PROVE k < next
    BY <1>11
  <2>2. k \in Nat /\ (k = n \/ k <= n - 1)
    OBVIOUS
  <2> QED BY <2>1, <2>2, <1>9, <1>10
<1>14. \A f \in r.new : f \in Nat /\ start <= f /\ f < r.next
  <2>1. \A f \in after.new : f \in Nat /\ start <= f /\ f < after.next
    BY <1>8 DEF ReadOK
  <2> QED BY <2>1, <1>9, <1>10, <1>11
<1>15. /\ DOMAIN r.tabs = DOMAIN T \union r.new /\ r.tabs \in [DOMAIN r.tabs -> Batch]
       /\ \A f \in DOMAIN T : f < start => r.tabs[f] = T[f]
       /\ \A f \in r.new : UpTo(r.tabs[f], s)
    BY <1>8, <1>11 DEF ReadOK
<1>16. ReadOK(r, start, T, newer, n, s)
    BY <1>12, <1>13, <1>14, <1>15 DEF ReadOK
<1> QED BY <1>16 DEF r

\* What is read before log n, and log n if it is to be read.
ReadStep(newer, cut, n, acc) == IF n \in newer THEN RecoverLogFile(acc, n, cut) ELSE acc

\* f is the function that RecoverLogs defines, up to log n.
IsRead(start, newer, cut, n, f) ==
    /\ f = [i \in 0..n |-> f[i]] /\ f[0] = [next |-> start, new |-> {}, tabs |-> tables]
    /\ \A i \in 1..n : f[i] = ReadStep(newer, cut, i, f[i - 1])

\* RecoverLogs reads log after log.
LEMMA RecoverLogsSteps ==
    ASSUME NEW start, NEW newer, NEW cut
    PROVE  \E f : IsRead(start, newer, cut, MaxFile, f) /\ RecoverLogs(start, newer, cut) = f[MaxFile]
<1> DEFINE N == MaxFile
           base == [next |-> start, new |-> {}, tabs |-> tables]
           Step(f, n) == IF n = 0 THEN base
                         ELSE IF n \in newer THEN RecoverLogFile(f[n - 1], n, cut) ELSE f[n - 1]
           Fun(f) == f = [n \in 0..N |-> Step(f, n)]
           D == {n \in 0..N : \E f : IsRead(start, newer, cut, n, f)}
<1>0. N \in Nat
    BY BoundAssumption
<1> HIDE DEF N, base
<1>1. 0 \in D
  <2>1. IsRead(start, newer, cut, 0, [i \in 0..0 |-> base])
    BY DEF IsRead, base
  <2> QED BY <2>1, <1>0
<1>2. ASSUME NEW n \in 1..N, n - 1 \in D PROVE n \in D
  <2>1. PICK f : IsRead(start, newer, cut, n - 1, f)
    BY <1>2
  <2> DEFINE k == ReadStep(newer, cut, n, f[n - 1])
             g == [i \in 0..n |-> IF i = n THEN k ELSE f[i]]
  <2> HIDE DEF k
  <2>2. g = [i \in 0..n |-> g[i]]
    OBVIOUS
  <2>3. g[0] = base
    <3>1. g[0] = f[0]
      BY <1>0
    <3> QED BY <3>1, <2>1 DEF IsRead, base
  <2>4. ASSUME NEW i \in 1..n PROVE g[i] = ReadStep(newer, cut, i, g[i - 1])
    <3>1. g[i - 1] = f[i - 1]
      BY <1>0
    <3>2. CASE i = n
      <4>1. g[i] = k
        BY <3>2, <1>0
      <4> HIDE DEF g
      <4> QED BY <3>1, <3>2, <4>1 DEF k
    <3>3. CASE i # n
      <4>1. i \in 1..(n - 1)
        BY <3>3, <1>0
      <4>2. g[i] = f[i]
        BY <3>3, <1>0
      <4>3. f[i] = ReadStep(newer, cut, i, f[i - 1])
        BY <2>1, <4>1 DEF IsRead
      <4> HIDE DEF g
      <4> QED BY <3>1, <4>2, <4>3
    <3> QED BY <3>2, <3>3
  <2>5. IsRead(start, newer, cut, n, g)
    <3> HIDE DEF g
    <3> QED BY <2>2, <2>3, <2>4 DEF IsRead, base
  <2> HIDE DEF g
  <2> QED BY <2>5, <1>0
<1>3. D = 0..N
  <2> HIDE DEF D
  <2>1. \A i \in 1..N : i - 1 \in D => i \in D
    BY <1>2
  <2>2. D \in SUBSET (0..N)
    BY DEF D
  <2> QED BY <2>1, <2>2, <1>0, <1>1, Induction
<1>4. PICK f : IsRead(start, newer, cut, N, f)
  <2>1. N \in D
    <3> HIDE DEF D
    <3> QED BY <1>3, <1>0
  <2> QED BY <2>1
<1>5. Fun(f)
  <2>1. ASSUME NEW i \in 0..N PROVE f[i] = Step(f, i)
    <3>1. CASE i = 0
      BY <3>1, <1>4 DEF IsRead, base
    <3>2. CASE i # 0
      <4>1. i \in 1..N
        BY <3>2, <1>0
      <4>2. f[i] = ReadStep(newer, cut, i, f[i - 1])
        BY <4>1, <1>4 DEF IsRead
      <4> QED BY <4>2, <3>2 DEF ReadStep
    <3> QED BY <3>1, <3>2
  <2>2. f = [i \in 0..N |-> f[i]]
    BY <1>4 DEF IsRead
  <2> HIDE DEF Step
  <2> QED BY <2>1, <2>2
<1> DEFINE h == CHOOSE g : Fun(g)
<1>6. Fun(h)
  <2> HIDE DEF Fun
  <2> QED BY <1>5
<1>7. RecoverLogs(start, newer, cut) = h[N]
    BY Zenon DEF RecoverLogs, h, N, base
<1>8. IsRead(start, newer, cut, N, h)
  <2> HIDE DEF h
  <2>1. \A i \in 0..N : h[i] = Step(h, i)
    <3> HIDE DEF Step
    <3> QED BY <1>6
  <2>2. h = [i \in 0..N |-> h[i]]
    <3> HIDE DEF Step
    <3> QED BY <1>6
  <2>3. h[0] = base
    BY <2>1, <1>0
  <2>4. ASSUME NEW i \in 1..N PROVE h[i] = ReadStep(newer, cut, i, h[i - 1])
    <3>1. i \in 0..N /\ i # 0
      BY <1>0
    <3> QED BY <2>1, <3>1 DEF ReadStep
  <2> QED BY <2>2, <2>3, <2>4 DEF IsRead, base
<1> HIDE DEF h
<1> QED BY <1>7, <1>8 DEF N

\* What recovery makes of the tables.
LEMMA RecoverLogsOK ==
    ASSUME NEW start \in Nat, NEW newer \in SUBSET (1..MaxFile), NEW cut, CutsOK(cut), NEW s,
           tables \in [DOMAIN tables -> Batch],
           \A n \in newer : logs[n] \in LogFile /\ \A r \in ToSet(logs[n].recs) : UpTo(r, s)
    PROVE  ReadOK(RecoverLogs(start, newer, cut), start, tables, newer, MaxFile, s)
<1>0. MaxFile \in Nat /\ newer \in SUBSET Nat
    BY BoundAssumption
<1>1. PICK f : /\ IsRead(start, newer, cut, MaxFile, f)
               /\ RecoverLogs(start, newer, cut) = f[MaxFile]
    BY RecoverLogsSteps
<1> DEFINE D == {n \in 0..MaxFile : ReadOK(f[n], start, tables, newer, n, s)}
<1>2. 0 \in D
  <2>1. f[0] = [next |-> start, new |-> {}, tabs |-> tables]
    BY <1>1 DEF IsRead
  <2>2. f[0].next = start /\ f[0].new = {} /\ f[0].tabs = tables
    BY <2>1
  <2>3. \A k \in newer : ~(k <= 0)
    BY <1>0
  <2>4. ReadOK(f[0], start, tables, newer, 0, s)
    BY <2>2, <2>3 DEF ReadOK
  <2> QED BY <2>4, <1>0
<1>3. ASSUME NEW n \in 1..MaxFile, n - 1 \in D PROVE n \in D
  <2>1. ReadOK(f[n - 1], start, tables, newer, n - 1, s)
    BY <1>3
  <2>2. f[n] = ReadStep(newer, cut, n, f[n - 1])
    BY <1>1 DEF IsRead
  <2>3. n \in Nat \ {0} /\ n \in 0..MaxFile
    BY <1>0
  <2>4. CASE n \in newer
    <3>1. f[n] = RecoverLogFile(f[n - 1], n, cut)
      BY <2>2, <2>4 DEF ReadStep
    <3>2. ReadOK(RecoverLogFile(f[n - 1], n, cut), start, tables, newer, n, s)
      BY <1>0, <2>1, <2>3, <2>4, RecoverLogFileOK
    <3> QED BY <2>3, <3>1, <3>2
  <2>5. CASE n \notin newer
    <3>1. f[n] = f[n - 1]
      BY <2>2, <2>5 DEF ReadStep
    <3>2. \A k \in newer : k <= n => k <= n - 1
      BY <1>0, <2>3, <2>5
    <3>3. ReadOK(f[n - 1], start, tables, newer, n, s)
      BY <2>1, <3>2 DEF ReadOK
    <3> QED BY <2>3, <3>1, <3>3
  <2> QED BY <2>4, <2>5
<1>4. D = 0..MaxFile
  <2> HIDE DEF D
  <2>1. \A i \in 1..MaxFile : i - 1 \in D => i \in D
    BY <1>3
  <2>2. D \in SUBSET (0..MaxFile)
    BY DEF D
  <2> QED BY <2>1, <2>2, <1>0, <1>2, Induction
<1>5. MaxFile \in D
  <2> HIDE DEF D
  <2> QED BY <1>0, <1>4
<1> QED BY <1>1, <1>5

-----------------------------------------------------------------------------
\* An edit of MANIFEST M that may be logged when tables T have become U.
EditOK(M, T, U, edit) ==
    /\ M \in Seq(Descriptor) \ {<<>>} /\ DescriptorsOK(M, T) /\ KeepsTables(T, U, DOMAIN T)
    /\ edit.log \in FileNumber /\ edit.next \in FileNumber /\ edit.seq \in 0..MaxSeq
    /\ 0 < edit.log /\ edit.log < edit.next /\ \A i \in DOMAIN M : M[i].next <= edit.next
    /\ \A a \in edit.add : a[2] \in FileNumber /\ a[2] < edit.next /\ a[2] \in DOMAIN U
    /\ \A f \in DOMAIN U : UpTo(U[f], edit.seq)

\* MANIFEST N is M with the record of an edit.
RecordOK(M, U, edit, N) ==
    /\ N \in Seq(Descriptor) \ {<<>>} /\ Len(N) > 1 /\ DescriptorsOK(N, U)
    /\ Last(N) = Replay(Last(M), edit)
    /\ \A i \in DOMAIN N : (i \in DOMAIN M /\ N[i] = M[i]) \/ N[i] = Last(N)

\* One more record of a MANIFEST: the descriptor that it replays to.
LEMMA RecordLogged ==
    ASSUME NEW M, NEW T, NEW U, NEW edit, EditOK(M, T, U, edit),
           NEW N, N = Append(M, Replay(Last(M), edit))
    PROVE  RecordOK(M, U, edit, N)
<1> DEFINE m == Replay(Last(M), edit)
           v == Apply(Last(M).files, edit)
<1>0. /\ M \in Seq(Descriptor) \ {<<>>} /\ DescriptorsOK(M, T) /\ KeepsTables(T, U, DOMAIN T)
      /\ edit.log \in FileNumber /\ edit.next \in FileNumber /\ edit.seq \in 0..MaxSeq
      /\ 0 < edit.log /\ edit.log < edit.next /\ \A i \in DOMAIN M : M[i].next <= edit.next
      /\ \A a \in edit.add : a[2] \in FileNumber /\ a[2] < edit.next /\ a[2] \in DOMAIN U
      /\ \A f \in DOMAIN U : UpTo(U[f], edit.seq)
    BY DEF EditOK
<1> USE <1>0
<1>1. /\ Len(M) \in Nat /\ DOMAIN M = 1..Len(M) /\ Last(M) \in Descriptor
      /\ \A i \in DOMAIN M : M[i] \in Descriptor
      /\ Last(M) = M[Len(M)] /\ Len(M) \in DOMAIN M
    BY LastOf
<1>2. Last(M).files \in Version
    BY <1>1 DEF Descriptor
<1>3. /\ v \in Version
      /\ \A f \in FilesOf(v) : f \in FilesOf(Last(M).files) \/ \E a \in edit.add : f = a[2]
    BY <1>2, ApplyFiles
<1> HIDE DEF v
<1>4. m = [files |-> v, log |-> edit.log, next |-> edit.next, seq |-> edit.seq]
    BY DEF Replay, v
<1>5. m \in Descriptor /\ m.files = v /\ m.log = edit.log /\ m.next = edit.next /\ m.seq = edit.seq
    BY <1>3, <1>4 DEF Descriptor
<1> HIDE DEF m
<1>6. /\ N \in Seq(Descriptor) \ {<<>>} /\ Len(N) = Len(M) + 1 /\ Len(N) > 1 /\ Last(N) = m
      /\ DOMAIN N = 1..(Len(M) + 1) /\ N[Len(M) + 1] = m
      /\ \A i \in DOMAIN M : i \in DOMAIN N /\ N[i] = M[i]
      /\ \A i \in DOMAIN N : i \in DOMAIN M \/ (i = Len(M) + 1 /\ N[i] = m)
  <2>1. N = Append(M, m)
    BY DEF m
  <2> QED BY <1>5, <2>1, AppendRecord
<1>7. DescriptorOK(m, U)
  <2>1. \A f \in FilesOf(v) : f < edit.next /\ f \in DOMAIN U /\ UpTo(U[f], edit.seq)
    <3> SUFFICES ASSUME NEW f \in FilesOf(v) PROVE f < edit.next /\ f \in DOMAIN U
      OBVIOUS
    <3>1. CASE \E a \in edit.add : f = a[2]
      BY <3>1
    <3>2. CASE f \in FilesOf(Last(M).files)
      <4>1. DescriptorOK(M[Len(M)], T)
        BY <1>1 DEF DescriptorsOK
      <4>2. f < Last(M).next /\ f \in DOMAIN T
        BY <1>1, <3>2, <4>1 DEF DescriptorOK
      <4>3. f \in FileNumber /\ Last(M).next \in FileNumber /\ Last(M).next <= edit.next
        <5>1. f \in FileNumber
          BY <1>3, FilesAreNumbers
        <5>2. Last(M).next \in FileNumber
          BY <1>1 DEF Descriptor
        <5>3. Last(M).next <= edit.next
          BY <1>1
        <5> QED BY <5>1, <5>2, <5>3
      <4>4. f \in DOMAIN U
        BY <4>2 DEF KeepsTables
      <4>5. f < edit.next
        BY <4>2, <4>3, BoundAssumption DEF FileNumber
      <4> QED BY <4>4, <4>5
    <3> QED BY <1>3, <3>1, <3>2
  <2> QED BY <1>5, <2>1 DEF DescriptorOK
<1>8. DescriptorsOK(M, U)
  <2>1. \A i \in DOMAIN M : KeepsTables(T, U, FilesOf(M[i].files))
    BY DescriptorTables
  <2> QED BY <2>1, DescriptorsKept
<1>9. DescriptorsOK(N, U)
  <2> SUFFICES ASSUME NEW i \in DOMAIN N
               PROVE  DescriptorOK(N[i], U) /\ \A j \in i..Len(N) : N[i].next <= N[j].next
    BY DEF DescriptorsOK
  <2>1. CASE i \in DOMAIN M
    <3>1. N[i] = M[i] /\ DescriptorOK(M[i], U)
      BY <2>1, <1>6, <1>8 DEF DescriptorsOK
    <3>2. ASSUME NEW j \in i..Len(N) PROVE M[i].next <= N[j].next
      <4>1. CASE j = Len(M) + 1
        BY <2>1, <4>1, <1>5, <1>6
      <4>2. CASE j # Len(M) + 1
        <5>1. j \in i..Len(M) /\ j \in DOMAIN M
          BY <2>1, <4>2, <1>1, <1>6
        <5>2. M[i].next <= M[j].next
          BY <2>1, <5>1, <1>8 DEF DescriptorsOK
        <5> QED BY <5>1, <5>2, <1>6
      <4> QED BY <4>1, <4>2
    <3> QED BY <3>1, <3>2
  <2>2. CASE i = Len(M) + 1 /\ N[i] = m
    <3>1. \A j \in i..Len(N) : j = i
      BY <2>2, <1>1, <1>6
    <3>2. m.next <= m.next
      BY <1>5, BoundAssumption DEF FileNumber
    <3> QED BY <2>2, <3>1, <3>2, <1>7
  <2> QED BY <2>1, <2>2, <1>6
<1>10. \A i \in DOMAIN N : (i \in DOMAIN M /\ N[i] = M[i]) \/ N[i] = Last(N)
    BY <1>6
<1>11. Last(N) = Replay(Last(M), edit)
    BY <1>6 DEF m
<1> QED BY <1>6, <1>9, <1>10, <1>11 DEF RecordOK

\* The types of what a batch consists of.
LEMMA HistTypes ==
    ASSUME TypeOK, NEW h \in hist
    PROVE  h.ents \in Batch /\ h.log \in FileNumber /\ h.log \in Nat /\ h = [ents |-> h.ents, log |-> h.log]
<1>1. h \in [ents : Batch, log : FileNumber]
    BY DEF TypeOK
<1>2. FileNumber \in SUBSET Nat
    BY BoundAssumption DEF FileNumber
<1> QED BY <1>1, <1>2

\* The first half of LogAndApply, by any of its callers.
LEMMA EditLogged ==
    ASSUME DBInv, status = "open", NEW what \in {"flush", "move", "merge"}, NEW del, NEW add,
           NEW log \in FileNumber, NEW next \in FileNumber, LogAndApply(what, del, add, log, next),
           logNumber <= log, log <= logfileNumber, nextFile <= next, nextFile' = next,
           KeepsTables(tables, tables', DOMAIN tables),
           \A a \in add : a[2] \in FileNumber /\ a[2] < next /\ a[2] \in DOMAIN tables',
           \A f \in DOMAIN tables' : UpTo(tables'[f], lastSequence),
           applying = None,
           UNCHANGED <<logs, hist, durable, status, logNumber, logfileNumber, lastSequence,
                       current, bgError>>
    PROVE  /\ manifest' \in Seq(Descriptor) \ {<<>>} /\ applying' \in Edit /\ applying' # None
           /\ DescriptorsInv' /\ BatchesInv' /\ DurableInv'
           /\ Len(manifest') > 1 /\ Last(manifest').log = applying'.log
           /\ FilesOf(applying'.ver) \subseteq DOMAIN tables'
           /\ ~bgError => Last(manifest').files = applying'.ver
           /\ \A i \in DOMAIN manifest' : /\ logNumber <= manifest'[i].log
                                          /\ manifest'[i].log <= logfileNumber
                                          /\ manifest'[i].next <= next
<1> DEFINE edit == [del |-> del, add |-> add, log |-> log, next |-> next, seq |-> lastSequence]
           M == manifest
           N == manifest'
           v == Apply(current, edit)
<1>1. N = Append(M, Replay(Last(M), edit)) /\ applying' = [what |-> what, ver |-> v, log |-> log]
    BY DEF LogAndApply
<1>2. edit.add = add /\ edit.log = log /\ edit.next = next /\ edit.seq = lastSequence
    OBVIOUS
<1> HIDE DEF edit
<1>3. FileNumber \in SUBSET Nat
    BY BoundAssumption DEF FileNumber
<1>4. /\ M \in Seq(Descriptor) \ {<<>>} /\ lastSequence \in 0..MaxSeq /\ current \in Version
      /\ logNumber \in Nat /\ logfileNumber \in Nat /\ nextFile \in Nat /\ log \in Nat /\ next \in Nat
    BY <1>3 DEF DBInv, TypeOK
<1>5. /\ 0 < logNumber /\ logfileNumber < nextFile
      /\ \A i \in DOMAIN M : logNumber <= M[i].log /\ M[i].log <= logfileNumber /\ M[i].next <= nextFile
    BY DEF DBInv, NumbersInv
<1>6. \A i \in DOMAIN M : M[i].log \in Nat /\ M[i].next \in Nat
  <2>1. \A i \in DOMAIN M : M[i] \in Descriptor
    BY <1>4, LastOf
  <2> QED BY <1>3, <2>1 DEF Descriptor
<1>7. 0 < log /\ log < next /\ \A i \in DOMAIN M : M[i].next <= next
    BY <1>4, <1>5, <1>6
<1>8. DescriptorsOK(M, tables)
    BY DEF DBInv, DescriptorsInv
<1> DEFINE m == Replay(Last(M), edit)
<1>9. /\ N \in Seq(Descriptor) \ {<<>>} /\ Len(N) > 1 /\ DescriptorsOK(N, tables') /\ Last(N) = m
      /\ \A i \in DOMAIN N : (i \in DOMAIN M /\ N[i] = M[i]) \/ N[i] = Last(N)
  <2>1. /\ edit.log \in FileNumber /\ edit.next \in FileNumber /\ edit.seq \in 0..MaxSeq
        /\ 0 < edit.log /\ edit.log < edit.next /\ \A i \in DOMAIN M : M[i].next <= edit.next
        /\ \A a \in edit.add : a[2] \in FileNumber /\ a[2] < edit.next /\ a[2] \in DOMAIN tables'
        /\ \A f \in DOMAIN tables' : UpTo(tables'[f], edit.seq)
    BY <1>2, <1>4, <1>7
  <2> HIDE DEF N, M
  <2>2. M \in Seq(Descriptor) \ {<<>>} /\ DescriptorsOK(M, tables)
          /\ N = Append(M, Replay(Last(M), edit)) /\ KeepsTables(tables, tables', DOMAIN tables)
    BY <1>1, <1>4, <1>8
  <2> HIDE DEF m
  <2>3. /\ N \in Seq(Descriptor) \ {<<>>} /\ Len(N) > 1 /\ DescriptorsOK(N, tables')
        /\ Last(N) = Replay(Last(M), edit)
        /\ \A i \in DOMAIN N : (i \in DOMAIN M /\ N[i] = M[i]) \/ N[i] = Last(N)
    <3>1. EditOK(M, tables, tables', edit)
      BY <2>1, <2>2 DEF EditOK
    <3>2. RecordOK(M, tables', edit, N)
      BY <2>2, <3>1, RecordLogged, Zenon
    <3> QED BY <3>2 DEF RecordOK
  <2> QED BY <2>3 DEF m
<1>10. m.log = log /\ m.next = next /\ m.seq = lastSequence /\ m.files = Apply(Last(M).files, edit)
    BY <1>2 DEF Replay
<1> HIDE DEF m
<1>11. v \in Version /\ FilesOf(v) \subseteq DOMAIN tables'
  <2>1. v \in Version /\ \A f \in FilesOf(v) : f \in FilesOf(current) \/ \E a \in add : f = a[2]
    BY <1>2, <1>4, ApplyFiles
  <2>2. FilesOf(current) \subseteq DOMAIN tables
    BY DEF DBInv, VersionsInv
  <2>3. DOMAIN tables \subseteq DOMAIN tables'
    BY DEF KeepsTables
  <2> QED BY <2>1, <2>2, <2>3
<1>12. ~bgError => m.files = v
  <2>1. ~bgError => Last(M).files = current
    BY DEF DBInv, VersionsInv
  <2> QED BY <2>1, <1>10
<1> HIDE DEF v
<1>13. applying' \in Edit /\ applying'.ver = v /\ applying'.log = log
    BY <1>1, <1>11 DEF Edit
<1>14. applying' # None
    BY <1>13, NoneAssumption
<1>15. ASSUME NEW i \in DOMAIN N
       PROVE  logNumber <= N[i].log /\ N[i].log <= logfileNumber /\ N[i].next <= next
  <2>1. CASE i \in DOMAIN M /\ N[i] = M[i]
    BY <2>1, <1>5, <1>7
  <2>2. CASE N[i] = m
    BY <2>2, <1>4, <1>10
  <2> QED BY <2>1, <2>2, <1>9
<1>16. ASSUME NEW h \in hist
       PROVE  /\ h.log \in Nat /\ UpTo(h.ents, lastSequence)
              /\ h.log < logNumber \/ Logged(logs, h)
  <2>1. h.log \in Nat
    BY HistTypes DEF DBInv
  <2> QED BY <2>1 DEF DBInv, BatchesInv, SequenceInv
<1>17. logs \in [DOMAIN logs -> LogFile] /\ KeepsLogs(logs, logs)
  <2>1. logs \in [DOMAIN logs -> LogFile]
    BY DEF DBInv, TypeOK
  <2> QED BY <2>1, KeepSame
<1>18. \A i \in DOMAIN M : KeepsTables(tables, tables', FilesOf(M[i].files))
    BY <1>8, DescriptorTables
<1>19. ASSUME NEW h \in hist, NEW i \in DOMAIN N
       PROVE  BatchOK(h, N[i], logs, tables')
  <2>1. CASE i \in DOMAIN M /\ N[i] = M[i]
    <3>1. BatchOK(h, M[i], logs, tables)
      BY <2>1 DEF DBInv, BatchesInv
    <3> QED BY <2>1, <3>1, <1>17, <1>18, BatchKept
  <2>2. CASE N[i] = m
    <3>1. h.log < logNumber => h.log < m.log
      BY <1>4, <1>10, <1>16
    <3>2. Logged(logs, h) => h.log \in DOMAIN logs
      BY DEF Logged
    <3> QED BY <2>2, <3>1, <3>2, <1>10, <1>16 DEF BatchOK
  <2> QED BY <2>1, <2>2, <1>9
<1>20. ASSUME NEW h \in hist, NEW i \in DOMAIN N, h.log < logNumber \/ Synced(logs, h)
       PROVE  DurableOK(h, N[i], logs, tables')
  <2>1. logNumber <= N[i].log /\ N[i].log \in Nat
    <3>1. N[i] \in Descriptor
      <4> HIDE DEF N
      <4> QED BY <1>9, LastOf
    <3> QED BY <1>3, <1>15, <3>1 DEF Descriptor
  <2>2. h.log < logNumber => h.log < N[i].log
    BY <2>1, <1>4, <1>16
  <2> QED BY <2>2, <1>20 DEF DurableOK
<1>21. BatchesInv'
  <2>1. \A h \in hist : h.log < logNumber \/ Logged(logs, h)
    BY <1>16
  <2> QED BY <1>19, <2>1 DEF BatchesInv
<1>22. DurableInv'
  <2>1. \A d \in durable : \E h \in hist : h.ents = d /\ (h.log < logNumber \/ Synced(logs, h))
    BY DEF DBInv, DurableInv
  <2>2. \A d \in durable : \E h \in hist :
            /\ h.ents = d /\ (h.log < logNumber \/ Synced(logs, h))
            /\ \A i \in DOMAIN N : DurableOK(h, N[i], logs, tables')
    BY <1>20, <2>1
  <2> QED BY <2>2 DEF DurableInv
<1>23. DescriptorsInv'
    BY <1>9 DEF DescriptorsInv
<1>24. Last(N).log = applying'.log /\ (~bgError => Last(N).files = applying'.ver)
    BY <1>9, <1>10, <1>12, <1>13
<1>25. FilesOf(applying'.ver) \subseteq DOMAIN tables'
    BY <1>11, <1>13
<1> QED BY <1>9, <1>13, <1>14, <1>15, <1>21, <1>22, <1>23, <1>24, <1>25

-----------------------------------------------------------------------------
\* A larger bound on sequence numbers.
LEMMA UpToMore ==
    ASSUME NEW ents \in SUBSET Entry, NEW s \in Nat, NEW t \in Nat, s <= t, UpTo(ents, s)
    PROVE  UpTo(ents, t)
<1>1. \A e \in ents : e.seq \in Nat
    BY SeqAssumption DEF Entry
<1> QED BY <1>1 DEF UpTo

\* Batches are sets of entries.
LEMMA BatchEntries ==
    ASSUME NEW b \in Batch
    PROVE  b \in SUBSET Entry
BY DEF Batch

\* The disk of an open database, as its types say.
LEMMA DiskTypes ==
    ASSUME TypeOK
    PROVE  /\ logs \in [DOMAIN logs -> LogFile] /\ tables \in [DOMAIN tables -> Batch]
           /\ manifest \in Seq(Descriptor) \ {<<>>}
           /\ DOMAIN logs \in SUBSET Nat /\ DOMAIN tables \in SUBSET Nat
           /\ logNumber \in Nat /\ logfileNumber \in Nat /\ nextFile \in Nat
           /\ lastSequence \in Nat /\ lastSequence <= MaxSeq /\ MaxSeq \in Nat
           /\ \A i \in DOMAIN manifest : /\ manifest[i] \in Descriptor /\ manifest[i].log \in Nat
                                         /\ manifest[i].next \in Nat
<1>1. FileNumber \in SUBSET Nat /\ MaxSeq \in Nat
    BY BoundAssumption, SeqAssumption DEF FileNumber
<1>2. /\ logs \in [DOMAIN logs -> LogFile] /\ tables \in [DOMAIN tables -> Batch]
      /\ manifest \in Seq(Descriptor) \ {<<>>}
      /\ DOMAIN logs \in SUBSET FileNumber /\ DOMAIN tables \in SUBSET FileNumber
      /\ logNumber \in FileNumber /\ logfileNumber \in FileNumber /\ nextFile \in FileNumber
      /\ lastSequence \in 0..MaxSeq
    BY DEF TypeOK
<1>3. \A i \in DOMAIN manifest : manifest[i] \in Descriptor
    BY <1>2, LastOf
<1>4. \A i \in DOMAIN manifest : manifest[i].log \in Nat /\ manifest[i].next \in Nat
    BY <1>1, <1>3 DEF Descriptor
<1>5. lastSequence \in Nat /\ lastSequence <= MaxSeq
    BY <1>1, <1>2
<1> QED BY <1>1, <1>2, <1>3, <1>4, <1>5

\* The disk K, U keeps what disk L, T has.
Keeps(L, K, T, U) == /\ KeepsLogs(L, K) /\ K \in [DOMAIN K -> LogFile]
                     /\ KeepsTables(T, U, DOMAIN T)

\* What the batches of an open database rest on is kept with the disk.
LEMMA DiskKept ==
    ASSUME DBInv, status = "open", Keeps(logs, logs', tables, tables'), UNCHANGED manifest
    PROVE  /\ DescriptorsInv'
           /\ \A h \in hist : /\ \A i \in DOMAIN manifest : BatchOK(h, manifest[i], logs', tables')
                              /\ h.log < logNumber \/ Logged(logs', h)
           /\ \A d \in durable : \E h \in hist :
                 /\ h.ents = d
                 /\ h.log < logNumber \/ Synced(logs', h)
                 /\ \A i \in DOMAIN manifest : DurableOK(h, manifest[i], logs', tables')
<1>1. logs \in [DOMAIN logs -> LogFile] /\ DescriptorsOK(manifest, tables)
    BY DEF DBInv, TypeOK, DescriptorsInv
<1>2. /\ KeepsLogs(logs, logs') /\ logs' \in [DOMAIN logs' -> LogFile]
      /\ KeepsTables(tables, tables', DOMAIN tables)
    BY DEF Keeps
<1>3. \A i \in DOMAIN manifest : KeepsTables(tables, tables', FilesOf(manifest[i].files))
    BY <1>1, <1>2, DescriptorTables
<1>4. DescriptorsInv'
  <2>1. DescriptorsOK(manifest, tables')
    BY <1>1, <1>3, DescriptorsKept
  <2> QED BY <2>1 DEF DescriptorsInv
<1>5. ASSUME NEW h \in hist, NEW i \in DOMAIN manifest PROVE BatchOK(h, manifest[i], logs', tables')
  <2>1. BatchOK(h, manifest[i], logs, tables)
    BY DEF DBInv, BatchesInv
  <2> QED BY <2>1, <1>2, <1>3, BatchKept
<1>6. ASSUME NEW h \in hist PROVE h.log < logNumber \/ Logged(logs', h)
  <2>1. h.log < logNumber \/ Logged(logs, h)
    BY DEF DBInv, BatchesInv
  <2> QED BY <2>1, <1>2, LoggedKept
<1>7. ASSUME NEW d \in durable
      PROVE  \E h \in hist : /\ h.ents = d
                             /\ h.log < logNumber \/ Synced(logs', h)
                             /\ \A i \in DOMAIN manifest : DurableOK(h, manifest[i], logs', tables')
  <2>1. PICK h \in hist : /\ h.ents = d
                          /\ h.log < logNumber \/ Synced(logs, h)
                          /\ \A i \in DOMAIN manifest : DurableOK(h, manifest[i], logs, tables)
    BY DEF DBInv, DurableInv
  <2>2. h.log < logNumber \/ Synced(logs', h)
    BY <2>1, <1>1, <1>2, SyncedKept
  <2>3. \A i \in DOMAIN manifest : DurableOK(h, manifest[i], logs', tables')
    BY <2>1, <1>1, <1>2, <1>3, DurableKept
  <2> QED BY <2>1, <2>2, <2>3
<1> QED BY <1>4, <1>5, <1>6, <1>7

\* So are the invariants about batches, if the batches are the same.
LEMMA BatchesKept ==
    ASSUME DBInv, status = "open", Keeps(logs, logs', tables, tables'),
           UNCHANGED <<manifest, hist, durable, status, logNumber>>
    PROVE  DescriptorsInv' /\ BatchesInv' /\ DurableInv'
<1>1. DescriptorsInv'
    BY DiskKept
<1>2. BatchesInv'
    BY DiskKept DEF BatchesInv
<1>3. DurableInv'
    BY DiskKept DEF DurableInv
<1> QED BY <1>1, <1>2, <1>3

\* The sequence numbers in use stay below a larger last one.
LEMMA SequenceMore ==
    ASSUME DBInv, status = "open", NEW s \in Nat, lastSequence <= s
    PROVE  /\ \A h \in hist : UpTo(h.ents, s)
           /\ \A n \in DOMAIN logs : \A ents \in ToSet(logs[n].recs) :
                 UpTo(ents, s) \/ (writer # None /\ ents = writer.ents)
           /\ UpTo(mem, s) /\ UpTo(imm, s)
           /\ \A f \in DOMAIN tables : UpTo(tables[f], s)
           /\ compact # None => UpTo(compact.todo, s)
<1>1. TypeOK /\ SequenceInv
    BY DEF DBInv
<1>2. lastSequence \in Nat
    BY <1>1, DiskTypes
<1>3. ASSUME NEW h \in hist PROVE UpTo(h.ents, s)
  <2>1. h.ents \in SUBSET Entry
    BY <1>1, HistTypes, BatchEntries
  <2>2. UpTo(h.ents, lastSequence)
    BY <1>1 DEF SequenceInv
  <2> QED BY <2>1, <2>2, <1>2, UpToMore
<1>4. ASSUME NEW n \in DOMAIN logs, NEW ents \in ToSet(logs[n].recs)
      PROVE  UpTo(ents, s) \/ (writer # None /\ ents = writer.ents)
  <2>1. logs[n] \in LogFile
    BY <1>1, DiskTypes
  <2>2. ents \in SUBSET Entry
    BY <2>1, LogTypes, BatchEntries
  <2>3. UpTo(ents, lastSequence) \/ (writer # None /\ ents = writer.ents)
    BY <1>1 DEF SequenceInv
  <2> QED BY <2>2, <2>3, <1>2, UpToMore
<1>5. UpTo(mem, s) /\ UpTo(imm, s)
  <2>1. mem \in SUBSET Entry /\ imm \in SUBSET Entry
    BY <1>1 DEF TypeOK
  <2>2. UpTo(mem, lastSequence) /\ UpTo(imm, lastSequence)
    BY <1>1 DEF SequenceInv
  <2> QED BY <2>1, <2>2, <1>2, UpToMore
<1>6. ASSUME NEW f \in DOMAIN tables PROVE UpTo(tables[f], s)
  <2>1. tables[f] \in Batch
    BY <1>1, DiskTypes
  <2>2. UpTo(tables[f], lastSequence)
    BY <1>1 DEF SequenceInv
  <2> QED BY <2>1, <2>2, <1>2, UpToMore, BatchEntries
<1>7. ASSUME compact # None PROVE UpTo(compact.todo, s)
  <2>1. compact \in Compaction
    BY <1>1, <1>7 DEF TypeOK
  <2>2. compact.todo \in SUBSET Entry
    BY <2>1 DEF Compaction
  <2>3. UpTo(compact.todo, lastSequence)
    BY <1>1, <1>7 DEF SequenceInv
  <2> QED BY <2>2, <2>3, <1>2, UpToMore
<1> QED BY <1>3, <1>4, <1>5, <1>6, <1>7

\* With no write under way and no error, each record is a batch.
LEMMA QuietRecords ==
    ASSUME DBInv, writer = None, ~bgError
    PROVE  \A n \in DOMAIN logs : \A ents \in ToSet(logs[n].recs) : [ents |-> ents, log |-> n] \in hist
BY Zenon DEF DBInv, RecordsInv

-----------------------------------------------------------------------------
\* A record is appended to the log.
LEMMA WriteLogInv ==
    ASSUME DBInv, NEW w \in Writes, WriteLog(w)
    PROVE  DBInv'
<1> DEFINE ents == Numbered(w.ops, lastSequence + 1)
<1>1. /\ status = "open" /\ writer = None /\ ~bgError /\ lastSequence + Len(w.ops) <= MaxSeq
      /\ logs' = [logs EXCEPT ![logfileNumber].recs = Append(@, ents)]
      /\ writer' = [ents |-> ents, sync |-> w.sync]
      /\ UNCHANGED <<tables, manifest, db, clients, background, bgError, errors, ghosts>>
    BY DEF WriteLog
<1>2. /\ UNCHANGED <<tables, manifest, status, mem, imm, logfileNumber, logNumber, nextFile, lastSequence, current>>
      /\ UNCHANGED <<snapshots, readers, compact, applying, bgError, errors, hist, durable, met>>
    BY <1>1 DEF db, versions, clients, background, ghosts
<1>3. TypeOK /\ lastSequence \in Nat /\ logs \in [DOMAIN logs -> LogFile]
    BY DiskTypes DEF DBInv
<1>4. ents \in Batch
    BY <1>1, <1>3, NumberedBatch
<1> HIDE DEF ents
<1>5. logfileNumber \in DOMAIN logs
    BY <1>1 DEF DBInv, NumbersInv
<1>6. /\ DOMAIN logs' = DOMAIN logs /\ logs' \in [DOMAIN logs' -> LogFile] /\ KeepsLogs(logs, logs')
      /\ \A k \in DOMAIN logs : k # logfileNumber => logs'[k] = logs[k]
      /\ ToSet(logs'[logfileNumber].recs) = ToSet(logs[logfileNumber].recs) \union {ents}
  <2>1. logs' = [logs EXCEPT ![logfileNumber].recs = Append(@, ents)]
    BY <1>1
  <2>2. Appended(logs, logs', logfileNumber, ents)
    BY <2>1, <1>3, <1>4, <1>5, LogAppended, Zenon
  <2> QED BY <2>2 DEF Appended
<1>7. writer' \in Pending /\ writer' # None /\ writer'.ents = ents
  <2>1. w.sync \in BOOLEAN
    BY WriteAssumption
  <2>2. writer' \in Pending /\ writer'.ents = ents
    BY <1>1, <1>4, <2>1 DEF Pending
  <2> QED BY <2>2, NoneAssumption
<1>8. TypeOK'
    BY <1>2, <1>3, <1>6, <1>7 DEF TypeOK
<1>9. Unused'
    BY <1>1, <1>2 DEF Unused
<1>10. DescriptorsInv' /\ BatchesInv' /\ DurableInv'
  <2>1. KeepsTables(tables, tables', DOMAIN tables)
    BY <1>2 DEF KeepsTables
  <2>2. Keeps(logs, logs', tables, tables')
    BY <2>1, <1>6 DEF Keeps
  <2> QED BY <2>2, <1>1, <1>2, BatchesKept
<1>11. NumbersInv'
    BY <1>1, <1>2, <1>6 DEF DBInv, NumbersInv
<1>12. VersionsInv'
    BY <1>1, <1>2 DEF DBInv, VersionsInv
<1>13. \A n \in DOMAIN logs' : \A e \in ToSet(logs'[n].recs) :
          e \in ToSet(logs[n].recs) \/ (n = logfileNumber /\ e = ents)
    BY <1>6
<1>14. RecordsInv'
  <2>1. \A n \in DOMAIN logs : \A e \in ToSet(logs[n].recs) : [ents |-> e, log |-> n] \in hist
    <3>1. writer = None /\ ~bgError
      BY <1>1
    <3> QED BY <3>1, QuietRecords, Zenon
  <2>2. UNCHANGED <<status, logfileNumber, hist>> /\ DOMAIN logs' = DOMAIN logs
    BY <1>2, <1>6
  <2> SUFFICES ASSUME NEW n \in DOMAIN logs, NEW e \in ToSet(logs'[n].recs)
               PROVE  \/ [ents |-> e, log |-> n] \in hist
                      \/ status = "open" /\ n = logfileNumber /\ writer' # None /\ e = writer'.ents
    BY <2>2, Zenon DEF RecordsInv
  <2> QED BY <2>1, <2>2, <1>1, <1>7, <1>13
<1>15. SequenceInv'
  <2>1. \A n \in DOMAIN logs : \A e \in ToSet(logs[n].recs) : UpTo(e, lastSequence)
    BY <1>1 DEF DBInv, SequenceInv
  <2>2. \A n \in DOMAIN logs' : \A e \in ToSet(logs'[n].recs) :
            UpTo(e, lastSequence') \/ (writer' # None /\ e = writer'.ents)
    BY <2>1, <1>2, <1>6, <1>7, <1>13
  <2> QED BY <2>2, <1>1, <1>2 DEF DBInv, SequenceInv
<1>16. WriterInv'
  <2>1. Logged(logs', [ents |-> ents, log |-> logfileNumber])
    BY <1>5, <1>6 DEF Logged
  <2> QED BY <2>1, <1>1, <1>2, <1>7 DEF WriterInv, ents
<1> QED BY <1>8, <1>9, <1>10, <1>11, <1>12, <1>14, <1>15, <1>16 DEF DBInv

\* The batch being written has the next sequence numbers.
LEMMA WriterNumbers ==
    ASSUME DBInv, writer # None
    PROVE  /\ status = "open" /\ writer.ents \in Batch /\ writer.sync \in BOOLEAN
           /\ Logged(logs, [ents |-> writer.ents, log |-> logfileNumber])
           /\ lastSequence + Cardinality(writer.ents) \in 0..MaxSeq
           /\ lastSequence <= lastSequence + Cardinality(writer.ents)
           /\ UpTo(writer.ents, lastSequence + Cardinality(writer.ents))
           /\ ~UpTo(writer.ents, lastSequence)
<1>1. PICK w \in Writes : /\ lastSequence + Len(w.ops) <= MaxSeq
                          /\ writer.ents = Numbered(w.ops, lastSequence + 1)
    BY DEF DBInv, WriterInv
<1>2. lastSequence \in Nat /\ MaxSeq \in Nat /\ writer \in Pending
  <2>1. TypeOK
    BY DEF DBInv
  <2>2. writer \in Pending
    BY <2>1 DEF TypeOK
  <2> QED BY <2>1, <2>2, DiskTypes
<1>3. /\ Len(w.ops) \in Nat
      /\ Cardinality(writer.ents) = Len(w.ops)
      /\ UpTo(writer.ents, lastSequence + Len(w.ops))
      /\ ~UpTo(writer.ents, lastSequence)
    BY <1>1, <1>2, NumberedBatch
<1>4. writer.ents \in Batch /\ writer.sync \in BOOLEAN
    BY <1>2 DEF Pending
<1>5. status = "open" /\ Logged(logs, [ents |-> writer.ents, log |-> logfileNumber])
    BY DEF DBInv, WriterInv
<1>6. lastSequence + Len(w.ops) \in 0..MaxSeq /\ lastSequence <= lastSequence + Len(w.ops)
    BY <1>1, <1>2, <1>3
<1> QED BY <1>3, <1>4, <1>5, <1>6

\* The record is synced, or not, and the logs are the same otherwise.
LEMMA WriteMemLogs ==
    ASSUME DBInv, WriteMem
    PROVE  /\ DOMAIN logs' = DOMAIN logs /\ logs' \in [DOMAIN logs' -> LogFile]
           /\ KeepsLogs(logs, logs') /\ \A k \in DOMAIN logs : logs'[k].recs = logs[k].recs
           /\ writer.sync => logs'[logfileNumber].synced = Len(logs'[logfileNumber].recs)
<1>1. /\ writer # None
      /\ logs' = IF writer.sync
                 THEN [logs EXCEPT ![logfileNumber].synced = Len(logs[logfileNumber].recs)]
                 ELSE logs
    BY DEF WriteMem
<1>2. logs \in [DOMAIN logs -> LogFile] /\ logfileNumber \in DOMAIN logs
  <2>1. status = "open"
    BY <1>1, WriterNumbers
  <2> QED BY <2>1 DEF DBInv, NumbersInv, TypeOK
<1>3. CASE writer.sync
  <2>1. logs' = [logs EXCEPT ![logfileNumber].synced = Len(logs[logfileNumber].recs)]
    BY <1>1, <1>3
  <2>2. SyncedAt(logs, logs', logfileNumber)
    BY <2>1, <1>2, LogSynced, Zenon
  <2> QED BY <2>2 DEF SyncedAt
<1>4. CASE ~writer.sync
  <2>1. logs' = logs
    BY <1>1, <1>4
  <2>2. KeepsLogs(logs, logs)
    BY <1>2, KeepSame
  <2> QED BY <2>1, <2>2, <1>2, <1>4
<1> QED BY <1>3, <1>4

\* The batch is inserted into the memtable.
LEMMA WriteMemInv ==
    ASSUME DBInv, WriteMem
    PROVE  DBInv'
<1> DEFINE ents == writer.ents
           new == [ents |-> ents, log |-> logfileNumber]
           s == lastSequence + Cardinality(ents)
<1>1. /\ writer # None /\ writer' = None /\ mem' = mem \union ents /\ lastSequence' = s
      /\ hist' = hist \union {new}
      /\ durable' = IF writer.sync THEN durable \union {ents} ELSE durable
      /\ UNCHANGED <<tables, manifest, status, imm, logfileNumber, logNumber, nextFile,
                     current, clients, background, bgError, errors, met>>
    BY DEF WriteMem
<1>2. /\ UNCHANGED <<tables, manifest, status, imm, logfileNumber, logNumber, nextFile, current>>
      /\ UNCHANGED <<snapshots, readers, compact, applying, bgError, errors, met>>
    BY <1>1 DEF clients, background
<1>3. /\ DOMAIN logs' = DOMAIN logs /\ logs' \in [DOMAIN logs' -> LogFile]
      /\ KeepsLogs(logs, logs') /\ \A k \in DOMAIN logs : logs'[k].recs = logs[k].recs
      /\ writer.sync => logs'[logfileNumber].synced = Len(logs'[logfileNumber].recs)
    BY WriteMemLogs
<1>4. /\ status = "open" /\ ents \in Batch /\ writer.sync \in BOOLEAN
      /\ Logged(logs, new) /\ s \in 0..MaxSeq /\ lastSequence <= s /\ UpTo(ents, s)
    BY <1>1, WriterNumbers
<1> HIDE DEF s, ents
<1>5. TypeOK /\ MaxSeq \in Nat /\ s \in Nat
    BY <1>4, SeqAssumption DEF DBInv
<1>6. TypeOK'
  <2>1. new \in [ents : Batch, log : FileNumber]
    BY <1>4, <1>5 DEF TypeOK
  <2>2. hist' \in SUBSET [ents : Batch, log : FileNumber]
    BY <2>1, <1>1, <1>5 DEF TypeOK
  <2>3. durable' \in SUBSET Batch
    BY <1>1, <1>4, <1>5 DEF TypeOK
  <2>4. mem' \in SUBSET Entry
    BY <1>1, <1>4, <1>5, BatchEntries DEF TypeOK
  <2>5. lastSequence' \in 0..MaxSeq /\ writer' \in Pending \union {None}
    BY <1>1, <1>4
  <2> HIDE DEF new
  <2> QED BY <2>2, <2>3, <2>4, <2>5, <1>2, <1>3, <1>5 DEF TypeOK
<1>7. Unused'
    BY <1>2, <1>4 DEF Unused
<1>8. new.ents = ents /\ new.log = logfileNumber
    OBVIOUS
<1> HIDE DEF new
<1>9. /\ DescriptorsInv'
      /\ \A h \in hist : /\ \A i \in DOMAIN manifest : BatchOK(h, manifest[i], logs', tables')
                         /\ h.log < logNumber \/ Logged(logs', h)
      /\ \A d \in durable : \E h \in hist :
             /\ h.ents = d
             /\ h.log < logNumber \/ Synced(logs', h)
             /\ \A i \in DOMAIN manifest : DurableOK(h, manifest[i], logs', tables')
  <2>1. KeepsTables(tables, tables', DOMAIN tables)
    BY <1>2 DEF KeepsTables
  <2>2. Keeps(logs, logs', tables, tables') /\ manifest' = manifest
    BY <2>1, <1>2, <1>3 DEF Keeps
  <2> QED BY <2>2, <1>4, DiskKept
<1>10. Logged(logs', new)
    BY <1>3, <1>4, LoggedKept
<1>11. BatchesInv'
  <2>1. ASSUME NEW i \in DOMAIN manifest PROVE BatchOK(new, manifest[i], logs', tables')
    <3>1. manifest[i].log <= logfileNumber /\ manifest[i].log \in Nat /\ logfileNumber \in Nat
      <4>1. manifest[i].log <= logfileNumber
        BY <1>4 DEF DBInv, NumbersInv
      <4> QED BY <4>1, <1>5, DiskTypes
    <3>2. ~(new.log < manifest[i].log)
      BY <3>1, <1>8
    <3>3. new.log \in DOMAIN logs'
      BY <1>10 DEF Logged
    <3> QED BY <3>2, <3>3, <1>10 DEF BatchOK
  <2>2. \A h \in hist', i \in DOMAIN manifest : BatchOK(h, manifest[i], logs', tables')
    BY <2>1, <1>1, <1>9
  <2>3. \A h \in hist' : h.log < logNumber \/ Logged(logs', h)
    BY <1>1, <1>9, <1>10
  <2> QED BY <2>2, <2>3, <1>2, <1>4 DEF BatchesInv
<1>12. DurableInv'
  <2>1. ASSUME writer.sync PROVE Synced(logs', new)
    <3>1. logfileNumber \in DOMAIN logs' /\ ents \in ToSet(logs'[logfileNumber].recs)
      BY <1>8, <1>10 DEF Logged
    <3>2. logs'[logfileNumber] \in LogFile
      BY <1>3, <3>1
    <3>3. DOMAIN logs'[logfileNumber].recs = 1..logs'[logfileNumber].synced
      BY <2>1, <3>2, <1>3, LogTypes
    <3>4. PICK i \in DOMAIN logs'[logfileNumber].recs : logs'[logfileNumber].recs[i] = ents
      BY <3>1 DEF ToSet
    <3> QED BY <3>1, <3>3, <3>4, <1>8 DEF Synced
  <2>2. ASSUME NEW d \in durable'
        PROVE  \E h \in hist' :
                  /\ h.ents = d
                  /\ h.log < logNumber \/ Synced(logs', h)
                  /\ \A i \in DOMAIN manifest : DurableOK(h, manifest[i], logs', tables')
    <3>1. CASE d \in durable
      BY <3>1, <1>1, <1>9
    <3>2. CASE writer.sync /\ d = ents
      <4>1. new \in hist' /\ new.ents = d /\ Synced(logs', new)
        BY <3>2, <2>1, <1>1, <1>8
      <4> QED BY <4>1 DEF DurableOK
    <3> QED BY <3>1, <3>2, <1>1
  <2> QED BY <2>2, <1>2 DEF DurableInv
<1>13. NumbersInv'
    BY <1>2, <1>3, <1>4 DEF DBInv, NumbersInv
<1>14. VersionsInv'
    BY <1>2, <1>4 DEF DBInv, VersionsInv
<1>15. RecordsInv'
  <2> SUFFICES ASSUME NEW n \in DOMAIN logs', NEW e \in ToSet(logs'[n].recs)
               PROVE  \/ [ents |-> e, log |-> n] \in hist'
                      \/ status' = "open" /\ n = logfileNumber' /\ bgError'
    BY Zenon DEF RecordsInv
  <2>1. n \in DOMAIN logs /\ e \in ToSet(logs[n].recs)
    BY <1>3
  <2>2. \/ [ents |-> e, log |-> n] \in hist
        \/ status = "open" /\ n = logfileNumber /\ (bgError \/ e = ents)
    BY <2>1, Zenon DEF DBInv, RecordsInv, ents
  <2>3. n = logfileNumber /\ e = ents => [ents |-> e, log |-> n] = new
    BY DEF new
  <2>4. [ents |-> e, log |-> n] \in hist' \/ (n = logfileNumber /\ status = "open" /\ bgError)
    BY <2>2, <2>3, <1>1, Zenon
  <2>5. UNCHANGED <<status, logfileNumber, bgError>>
    BY <1>2
  <2> QED BY <2>4, <2>5, Zenon
<1>16. SequenceInv'
  <2>1. /\ \A h \in hist : UpTo(h.ents, s)
        /\ \A n \in DOMAIN logs : \A e \in ToSet(logs[n].recs) : UpTo(e, s) \/ e = ents
        /\ UpTo(mem, s) /\ UpTo(imm, s)
        /\ \A f \in DOMAIN tables : UpTo(tables[f], s)
        /\ compact # None => UpTo(compact.todo, s)
    BY <1>4, <1>5, SequenceMore DEF ents
  <2>2. \A h \in hist' : UpTo(h.ents, s)
    BY <2>1, <1>1, <1>4, <1>8
  <2>3. \A n \in DOMAIN logs' : \A e \in ToSet(logs'[n].recs) : UpTo(e, s)
    BY <2>1, <1>3, <1>4
  <2>4. UpTo(mem', s)
    BY <2>1, <1>1, <1>4 DEF UpTo
  <2> QED BY <2>1, <2>2, <2>3, <2>4, <1>1, <1>2, <1>4 DEF SequenceInv
<1>17. WriterInv'
    BY <1>1 DEF WriterInv
<1> QED BY <1>6, <1>7, <1>9, <1>11, <1>12, <1>13, <1>14, <1>15, <1>16, <1>17 DEF DBInv

\* The disk is left alone.
LEMMA KeepAll ==
    ASSUME DBInv, UNCHANGED <<tables, logs>>
    PROVE  Keeps(logs, logs', tables, tables')
<1>1. logs \in [DOMAIN logs -> LogFile]
    BY DEF DBInv, TypeOK
<1>2. KeepsLogs(logs, logs) /\ KeepsTables(tables, tables, DOMAIN tables)
    BY <1>1, KeepSame
<1> QED BY <1>1, <1>2 DEF Keeps

\* A sync of the log fails.
LEMMA WriteSyncFailsInv ==
    ASSUME DBInv, WriteSyncFails
    PROVE  DBInv'
<1> DEFINE s == lastSequence + Cardinality(writer.ents)
<1>1. /\ writer # None /\ writer' = None /\ errors < MaxErrors /\ lastSequence' = s
      /\ bgError' = TRUE /\ errors' = errors + 1
      /\ UNCHANGED <<disk, status, mem, imm, logfileNumber, logNumber, nextFile,
                     current, clients, background, ghosts>>
    BY DEF WriteSyncFails
<1>2. /\ UNCHANGED <<tables, logs, manifest, status, mem, imm, logfileNumber, logNumber, nextFile, current>>
      /\ UNCHANGED <<snapshots, readers, compact, applying, hist, durable, met>>
    BY <1>1 DEF disk, clients, background, ghosts
<1>3. status = "open" /\ s \in 0..MaxSeq /\ lastSequence <= s /\ UpTo(writer.ents, s)
    BY <1>1, WriterNumbers
<1> HIDE DEF s
<1>4. TypeOK /\ MaxSeq \in Nat /\ s \in Nat
    BY <1>3, SeqAssumption DEF DBInv
<1>5. TypeOK'
  <2>1. errors' \in 0..MaxErrors
    BY <1>1, <1>4, BoundAssumption DEF TypeOK
  <2> QED BY <2>1, <1>1, <1>2, <1>3, <1>4 DEF TypeOK
<1>6. Unused'
    BY <1>2, <1>3 DEF Unused
<1>7. DescriptorsInv' /\ BatchesInv' /\ DurableInv'
    BY <1>2, <1>3, KeepAll, BatchesKept
<1>8. NumbersInv'
    BY <1>2, <1>3 DEF DBInv, NumbersInv
<1>9. VersionsInv'
    BY <1>1, <1>2, <1>3 DEF DBInv, VersionsInv
<1>10. RecordsInv'
  <2>1. \A n \in DOMAIN logs : \A e \in ToSet(logs[n].recs) :
            [ents |-> e, log |-> n] \in hist \/ (status = "open" /\ n = logfileNumber)
    BY Zenon DEF DBInv, RecordsInv
  <2>2. UNCHANGED <<logs, hist, status, logfileNumber>> /\ bgError'
    BY <1>1, <1>2
  <2> QED BY <2>1, <2>2, Zenon DEF RecordsInv
<1>11. SequenceInv'
  <2>1. /\ \A h \in hist : UpTo(h.ents, s)
        /\ \A n \in DOMAIN logs : \A e \in ToSet(logs[n].recs) : UpTo(e, s) \/ e = writer.ents
        /\ UpTo(mem, s) /\ UpTo(imm, s)
        /\ \A f \in DOMAIN tables : UpTo(tables[f], s)
        /\ compact # None => UpTo(compact.todo, s)
    BY <1>3, <1>4, SequenceMore
  <2> QED BY <2>1, <1>1, <1>2, <1>3 DEF SequenceInv
<1>12. WriterInv'
    BY <1>1 DEF WriterInv
<1> QED BY <1>5, <1>6, <1>7, <1>8, <1>9, <1>10, <1>11, <1>12 DEF DBInv

\* A new log and a new memtable.
LEMMA SwitchMemTableInv ==
    ASSUME DBInv, SwitchMemTable
    PROVE  DBInv'
<1>1. /\ status = "open" /\ writer = None /\ ~bgError /\ nextFile < MaxFile
      /\ logs' = NewWritableFile(logs, nextFile, EmptyLog)
      /\ logfileNumber' = nextFile /\ nextFile' = nextFile + 1
      /\ imm' = mem /\ mem' = {}
      /\ UNCHANGED <<tables, manifest, status, logNumber, lastSequence, current,
                     clients, writer, background, bgError, errors, ghosts>>
    BY DEF SwitchMemTable
<1>2. /\ UNCHANGED <<tables, manifest, status, logNumber, lastSequence, current>>
      /\ UNCHANGED <<snapshots, readers, writer, compact, applying, bgError, errors, hist, durable, met>>
    BY <1>1 DEF clients, background, ghosts
<1>3. /\ TypeOK /\ logs \in [DOMAIN logs -> LogFile] /\ DOMAIN logs \in SUBSET Nat
      /\ logfileNumber \in Nat /\ nextFile \in Nat /\ DOMAIN tables \in SUBSET Nat
      /\ \A i \in DOMAIN manifest : manifest[i].log \in Nat /\ manifest[i].next \in Nat
    BY DiskTypes DEF DBInv
<1>4. /\ logfileNumber \in DOMAIN logs /\ logfileNumber < nextFile
      /\ \A n \in DOMAIN logs : n <= logfileNumber
    BY <1>1 DEF DBInv, NumbersInv
<1>5. nextFile \notin DOMAIN logs
    BY <1>3, <1>4
<1>6. /\ DOMAIN logs' = DOMAIN logs \union {nextFile} /\ logs' \in [DOMAIN logs' -> LogFile]
      /\ KeepsLogs(logs, logs') /\ \A k \in DOMAIN logs : logs'[k] = logs[k]
      /\ ToSet(logs'[nextFile].recs) = {}
  <2>1. logs' = NewWritableFile(logs, nextFile, EmptyLog)
    BY <1>1
  <2>2. Created(logs, logs', nextFile)
    BY <2>1, <1>3, <1>5, LogCreated, Zenon
  <2> QED BY <2>2 DEF Created
<1>7. TypeOK'
  <2>1. nextFile \in FileNumber /\ nextFile + 1 \in FileNumber
    BY <1>1, <1>3, BoundAssumption DEF FileNumber
  <2>2. DOMAIN logs' \subseteq FileNumber
    BY <2>1, <1>3, <1>6 DEF TypeOK
  <2> QED BY <2>1, <2>2, <1>1, <1>2, <1>3, <1>6 DEF TypeOK
<1>8. Unused'
    BY <1>1, <1>2 DEF Unused
<1>9. DescriptorsInv' /\ BatchesInv' /\ DurableInv'
  <2>1. KeepsTables(tables, tables', DOMAIN tables)
    BY <1>2 DEF KeepsTables
  <2>2. Keeps(logs, logs', tables, tables')
    BY <2>1, <1>6 DEF Keeps
  <2> QED BY <2>2, <1>1, <1>2, BatchesKept
<1>10. NumbersInv'
  <2>1. /\ 0 < logNumber /\ \A f \in DOMAIN tables : f < nextFile
        /\ \A i \in DOMAIN manifest : /\ logNumber <= manifest[i].log
                                      /\ manifest[i].log <= logfileNumber
                                      /\ manifest[i].next <= nextFile
    BY <1>1 DEF DBInv, NumbersInv
  <2>2. \A n \in DOMAIN logs' : n <= nextFile
    BY <1>3, <1>4, <1>6
  <2>3. nextFile < nextFile + 1 /\ \A f \in DOMAIN tables : f < nextFile + 1
    BY <2>1, <1>3
  <2>4. \A i \in DOMAIN manifest : manifest[i].log <= nextFile /\ manifest[i].next <= nextFile + 1
    BY <2>1, <1>3, <1>4
  <2> QED BY <2>1, <2>2, <2>3, <2>4, <1>1, <1>2, <1>6 DEF NumbersInv
<1>11. VersionsInv'
    BY <1>1, <1>2 DEF DBInv, VersionsInv
<1>12. \A n \in DOMAIN logs' : \A e \in ToSet(logs'[n].recs) : n \in DOMAIN logs /\ e \in ToSet(logs[n].recs)
    BY <1>6
<1>13. RecordsInv'
  <2>1. \A n \in DOMAIN logs : \A e \in ToSet(logs[n].recs) : [ents |-> e, log |-> n] \in hist
    <3>1. writer = None /\ ~bgError
      BY <1>1
    <3> QED BY <3>1, QuietRecords, Zenon
  <2>2. hist' = hist
    BY <1>2
  <2> QED BY <2>1, <2>2, <1>12, Zenon DEF RecordsInv
<1>14. SequenceInv'
  <2>1. UpTo({}, lastSequence)
    BY DEF UpTo
  <2>2. \A n \in DOMAIN logs' : \A e \in ToSet(logs'[n].recs) :
            UpTo(e, lastSequence) \/ (writer # None /\ e = writer.ents)
    BY <1>1, <1>12 DEF DBInv, SequenceInv
  <2> QED BY <2>1, <2>2, <1>1, <1>2 DEF DBInv, SequenceInv
<1>15. WriterInv'
    BY <1>1, <1>2 DEF WriterInv
<1> QED BY <1>7, <1>8, <1>9, <1>10, <1>11, <1>13, <1>14, <1>15 DEF DBInv

\* Neither the logs nor the batches change.
LEMMA RecordsKept ==
    ASSUME RecordsInv, logs' = logs, hist' = hist, status' = status,
           logfileNumber' = logfileNumber, bgError' = bgError, writer' = writer
    PROVE  RecordsInv'
<1> SUFFICES ASSUME NEW n \in DOMAIN logs, NEW e \in ToSet(logs[n].recs)
             PROVE  \/ [ents |-> e, log |-> n] \in hist
                    \/ /\ status = "open" /\ n = logfileNumber
                       /\ bgError \/ (writer # None /\ e = writer.ents)
    BY DEF RecordsInv
<1> QED BY DEF RecordsInv

\* Snapshots, iterators and gets: nothing but the clients' own state changes.
LEMMA ClientsInv ==
    ASSUME DBInv, status = "open", snapshots' \in SUBSET (0..MaxSeq),
           \A r \in readers' : r.ver \in Version /\ FilesOf(r.ver) \subseteq DOMAIN tables,
           UNCHANGED <<disk, db, writer, background, bgError, errors, ghosts>>
    PROVE  DBInv'
<1>1. /\ UNCHANGED <<tables, logs, manifest, status, mem, imm, logfileNumber, logNumber, nextFile>>
      /\ UNCHANGED <<lastSequence, current, writer, compact, applying, bgError, errors, hist, durable, met>>
    BY DEF disk, db, versions, background, ghosts
<1>2. TypeOK'
    BY <1>1 DEF DBInv, TypeOK
<1>3. Unused'
    BY <1>1 DEF DBInv, Unused
<1>4. DescriptorsInv' /\ BatchesInv' /\ DurableInv'
    BY <1>1, KeepAll, BatchesKept
<1>5. NumbersInv'
    BY <1>1 DEF DBInv, NumbersInv
<1>6. VersionsInv'
    BY <1>1 DEF DBInv, VersionsInv
<1>7. RecordsInv'
    BY <1>1, RecordsKept DEF DBInv
<1>8. SequenceInv'
    BY <1>1 DEF DBInv, SequenceInv
<1>9. WriterInv'
    BY <1>1 DEF DBInv, WriterInv
<1> QED BY <1>2, <1>3, <1>4, <1>5, <1>6, <1>7, <1>8, <1>9 DEF DBInv

\* A snapshot is taken.
LEMMA GetSnapshotInv ==
    ASSUME DBInv, GetSnapshot
    PROVE  DBInv'
<1>1. snapshots' \in SUBSET (0..MaxSeq)
    BY DEF GetSnapshot, DBInv, TypeOK
<1>2. \A r \in readers : r.ver \in Version /\ FilesOf(r.ver) \subseteq DOMAIN tables
    BY DEF DBInv, TypeOK, VersionsInv
<1> QED BY <1>1, <1>2, ClientsInv DEF GetSnapshot

\* A snapshot is released.
LEMMA ReleaseSnapshotInv ==
    ASSUME DBInv, NEW s \in snapshots, ReleaseSnapshot(s)
    PROVE  DBInv'
<1>1. snapshots' \in SUBSET (0..MaxSeq)
    BY DEF ReleaseSnapshot, DBInv, TypeOK
<1>2. \A r \in readers : r.ver \in Version /\ FilesOf(r.ver) \subseteq DOMAIN tables
    BY DEF DBInv, TypeOK, VersionsInv
<1> QED BY <1>1, <1>2, ClientsInv DEF ReleaseSnapshot

\* A reader references the current version.
LEMMA NewIteratorInv ==
    ASSUME DBInv, NEW s, NewIterator(s)
    PROVE  DBInv'
<1>1. snapshots' \in SUBSET (0..MaxSeq)
    BY DEF NewIterator, DBInv, TypeOK
<1>2. \A r \in readers : r.ver \in Version /\ FilesOf(r.ver) \subseteq DOMAIN tables
    BY DEF DBInv, TypeOK, VersionsInv
<1>3. current \in Version /\ FilesOf(current) \subseteq DOMAIN tables
    BY DEF DBInv, TypeOK, VersionsInv
<1>4. \A r \in readers' : r \in readers \/ r.ver = current
    BY DEF NewIterator
<1> QED BY <1>1, <1>2, <1>3, <1>4, ClientsInv DEF NewIterator

\* A reader lets go.
LEMMA CleanupIteratorStateInv ==
    ASSUME DBInv, NEW r \in readers, CleanupIteratorState(r)
    PROVE  DBInv'
<1>1. snapshots' \in SUBSET (0..MaxSeq)
    BY DEF CleanupIteratorState, DBInv, TypeOK
<1>2. \A q \in readers' : q.ver \in Version /\ FilesOf(q.ver) \subseteq DOMAIN tables
    BY DEF CleanupIteratorState, DBInv, TypeOK, VersionsInv
<1> QED BY <1>1, <1>2, ClientsInv DEF CleanupIteratorState

-----------------------------------------------------------------------------
\* What tables T may become while the numbers below next are given out.
TablesOK(T, U, next, s) ==
    /\ KeepsTables(T, U, DOMAIN T) /\ U \in [DOMAIN U -> Batch] /\ DOMAIN U \subseteq FileNumber
    /\ \A f \in DOMAIN U : f < next /\ UpTo(U[f], s)

\* The tables are left alone, and the next number may grow.
LEMMA TablesSame ==
    ASSUME DBInv, status = "open", NEW next \in Nat, nextFile <= next
    PROVE  TablesOK(tables, tables, next, lastSequence)
<1>1. TypeOK /\ DOMAIN tables \in SUBSET Nat /\ nextFile \in Nat
    BY DiskTypes DEF DBInv
<1>2. KeepsTables(tables, tables, DOMAIN tables)
    BY DEF KeepsTables
<1>3. tables \in [DOMAIN tables -> Batch] /\ DOMAIN tables \subseteq FileNumber
    BY <1>1 DEF TypeOK
<1>4. \A f \in DOMAIN tables : f < nextFile /\ UpTo(tables[f], lastSequence)
    BY DEF DBInv, NumbersInv, SequenceInv
<1>5. \A f \in DOMAIN tables : f < next
    BY <1>1, <1>4
<1> QED BY <1>2, <1>3, <1>4, <1>5 DEF TablesOK

\* A table is written under the next file number.
LEMMA TableWritten ==
    ASSUME DBInv, status = "open", nextFile < MaxFile, NEW ents \in Batch, UpTo(ents, lastSequence),
           NEW U, U = NewWritableFile(tables, nextFile, ents)
    PROVE  /\ TablesOK(tables, U, nextFile + 1, lastSequence)
           /\ DOMAIN U = DOMAIN tables \union {nextFile}
<1>1. TypeOK /\ DOMAIN tables \in SUBSET Nat /\ nextFile \in Nat
    BY DiskTypes DEF DBInv
<1>2. /\ DOMAIN U = DOMAIN tables \union {nextFile} /\ U[nextFile] = ents
      /\ \A f \in DOMAIN tables : f # nextFile => U[f] = tables[f]
    BY DEF NewWritableFile
<1>3. U \in [DOMAIN U -> Batch]
  <2>1. tables \in [DOMAIN tables -> Batch]
    BY <1>1 DEF TypeOK
  <2> QED BY <2>1, FileAddedType
<1>4. \A f \in DOMAIN tables : f < nextFile /\ UpTo(tables[f], lastSequence)
    BY DEF DBInv, NumbersInv, SequenceInv
<1>5. nextFile \in FileNumber /\ DOMAIN U \subseteq FileNumber
    BY <1>1, <1>2 DEF TypeOK
<1>6. KeepsTables(tables, U, DOMAIN tables)
    BY <1>1, <1>2, <1>4 DEF KeepsTables
<1>7. \A f \in DOMAIN U : f < nextFile + 1 /\ UpTo(U[f], lastSequence)
    BY <1>1, <1>2, <1>4
<1> QED BY <1>2, <1>3, <1>5, <1>6, <1>7 DEF TablesOK

\* The log of the current version is not past that of the writers.
LEMMA LogsInOrder ==
    ASSUME DBInv, status = "open"
    PROVE  logNumber <= logfileNumber
<1>1. /\ manifest \in Seq(Descriptor) \ {<<>>} /\ logNumber \in Nat /\ logfileNumber \in Nat
      /\ \A i \in DOMAIN manifest : manifest[i].log \in Nat
    BY DiskTypes DEF DBInv
<1>2. \A i \in DOMAIN manifest : logNumber <= manifest[i].log /\ manifest[i].log <= logfileNumber
    BY DEF DBInv, NumbersInv
<1>3. Len(manifest) \in DOMAIN manifest
    BY <1>1, LastOf
<1> QED BY <1>1, <1>2, <1>3

\* A change of the set of live files goes into the MANIFEST.
LEMMA EditInv ==
    ASSUME DBInv, status = "open", applying = None,
           NEW what \in {"flush", "move", "merge"}, NEW del, NEW add,
           NEW log \in FileNumber, NEW next \in FileNumber, LogAndApply(what, del, add, log, next),
           logNumber <= log, log <= logfileNumber, nextFile <= next, nextFile' = next,
           TablesOK(tables, tables', next, lastSequence),
           \A a \in add : a[2] \in FileNumber /\ a[2] < next /\ a[2] \in DOMAIN tables',
           UNCHANGED <<logs, status, mem, imm, logfileNumber, logNumber, lastSequence, current,
                       clients, writer, compact, bgError, errors, hist, durable>>
    PROVE  DBInv'
<1>1. /\ UNCHANGED <<logs, status, mem, imm, logfileNumber, logNumber, lastSequence, current>>
      /\ UNCHANGED <<snapshots, readers, writer, compact, bgError, errors, hist, durable>>
    BY DEF clients
<1>2. /\ KeepsTables(tables, tables', DOMAIN tables) /\ tables' \in [DOMAIN tables' -> Batch]
      /\ DOMAIN tables' \subseteq FileNumber
      /\ \A f \in DOMAIN tables' : f < next /\ UpTo(tables'[f], lastSequence)
    BY DEF TablesOK
<1>3. /\ manifest' \in Seq(Descriptor) \ {<<>>} /\ applying' \in Edit /\ applying' # None
      /\ DescriptorsInv' /\ BatchesInv' /\ DurableInv'
      /\ Len(manifest') > 1 /\ Last(manifest').log = applying'.log
      /\ FilesOf(applying'.ver) \subseteq DOMAIN tables'
      /\ ~bgError => Last(manifest').files = applying'.ver
      /\ \A i \in DOMAIN manifest' : /\ logNumber <= manifest'[i].log
                                     /\ manifest'[i].log <= logfileNumber
                                     /\ manifest'[i].next <= next
    BY <1>1, <1>2, EditLogged
<1>4. TypeOK
    BY DEF DBInv
<1>5. TypeOK'
    BY <1>1, <1>2, <1>3, <1>4 DEF TypeOK
<1>6. Unused'
    BY <1>1 DEF Unused
<1>7. NumbersInv'
  <2>1. /\ logfileNumber \in DOMAIN logs /\ logfileNumber < nextFile /\ 0 < logNumber
        /\ \A n \in DOMAIN logs : n <= logfileNumber
    BY DEF DBInv, NumbersInv
  <2>2. logfileNumber < next
    <3>1. logfileNumber \in Nat /\ nextFile \in Nat /\ next \in Nat
      BY <1>4, DiskTypes, BoundAssumption DEF FileNumber
    <3> QED BY <2>1, <3>1
  <2> QED BY <2>1, <2>2, <1>1, <1>2, <1>3 DEF NumbersInv
<1>8. VersionsInv'
  <2>1. DOMAIN tables \subseteq DOMAIN tables'
    BY <1>2 DEF KeepsTables
  <2>2. /\ FilesOf(current) \subseteq DOMAIN tables
        /\ \A r \in readers : FilesOf(r.ver) \subseteq DOMAIN tables
        /\ compact # None => FilesOf(compact.ver) \union compact.out \subseteq DOMAIN tables
    BY DEF DBInv, VersionsInv
  <2>3. /\ FilesOf(current') \subseteq DOMAIN tables'
        /\ \A r \in readers' : FilesOf(r.ver) \subseteq DOMAIN tables'
        /\ compact' # None => FilesOf(compact'.ver) \union compact'.out \subseteq DOMAIN tables'
    BY <2>1, <2>2, <1>1
  <2>4. status' = "open" /\ ~bgError' =>
            Last(manifest').files = IF applying' = None THEN current' ELSE applying'.ver
    BY <1>1, <1>3
  <2> QED BY <2>3, <2>4, <1>3 DEF VersionsInv
<1>9. RecordsInv'
    BY <1>1, RecordsKept DEF DBInv
<1>10. SequenceInv'
    BY <1>1, <1>2 DEF DBInv, SequenceInv
<1>11. WriterInv'
    BY <1>1 DEF DBInv, WriterInv
<1> QED BY <1>3, <1>5, <1>6, <1>7, <1>8, <1>9, <1>10, <1>11 DEF DBInv

\* The immutable memtable becomes a table.
LEMMA CompactMemTableInv ==
    ASSUME DBInv, NEW level, CompactMemTable(level)
    PROVE  DBInv'
<1>1. /\ status = "open" /\ applying = None /\ imm # {} /\ nextFile < MaxFile
      /\ tables' = NewWritableFile(tables, nextFile, imm) /\ nextFile' = nextFile + 1
      /\ LogAndApply("flush", {}, {<<level, nextFile>>}, logfileNumber, nextFile + 1)
      /\ UNCHANGED <<logs, status, mem, imm, logfileNumber, logNumber, lastSequence,
                     current, clients, writer, compact, bgError, errors, hist, durable>>
    BY DEF CompactMemTable, Idle, Merging
<1>2. TypeOK /\ nextFile \in Nat /\ logfileNumber \in Nat /\ logNumber \in Nat
    BY DiskTypes DEF DBInv
<1>3. imm \in Batch /\ UpTo(imm, lastSequence)
    BY <1>1, <1>2 DEF DBInv, TypeOK, SequenceInv, Batch
<1>4. /\ TablesOK(tables, tables', nextFile + 1, lastSequence)
      /\ DOMAIN tables' = DOMAIN tables \union {nextFile}
    BY <1>1, <1>3, TableWritten
<1>5. /\ nextFile \in FileNumber /\ nextFile + 1 \in FileNumber /\ logfileNumber \in FileNumber
      /\ nextFile < nextFile + 1 /\ nextFile <= nextFile + 1 /\ logfileNumber <= logfileNumber
    BY <1>1, <1>2, BoundAssumption DEF FileNumber, TypeOK
<1>6. logNumber <= logfileNumber
    BY <1>1, LogsInOrder
<1>7. \A a \in {<<level, nextFile>>} : a[2] \in FileNumber /\ a[2] < nextFile + 1 /\ a[2] \in DOMAIN tables'
    BY <1>4, <1>5
<1> QED BY <1>1, <1>4, <1>5, <1>6, <1>7, EditInv

\* A file moves to the next level.
LEMMA MoveInv ==
    ASSUME DBInv, Idle, NEW level, NEW inputs, InputsOf(current, level, inputs),
           NEW f \in inputs.in0, level \in Level,
           LogAndApply("move", {<<level, f>>}, {<<level + 1, f>>}, logNumber, nextFile),
           UNCHANGED <<tables, logs, db, clients, writer, compact, bgError, errors, hist, durable>>
    PROVE  DBInv'
<1>1. /\ status = "open" /\ applying = None /\ ~bgError
      /\ UNCHANGED <<tables, logs, status, mem, imm, logfileNumber, logNumber, nextFile, lastSequence, current,
                     clients, writer, compact, bgError, errors, hist, durable>>
    BY DEF Idle, db, versions
<1>2. /\ TypeOK /\ nextFile \in Nat /\ logfileNumber \in Nat /\ logNumber \in Nat
      /\ nextFile \in FileNumber /\ logNumber \in FileNumber /\ current \in Version
    BY DiskTypes DEF DBInv, TypeOK
<1>3. TablesOK(tables, tables', nextFile, lastSequence)
  <2>1. TablesOK(tables, tables, nextFile, lastSequence)
    BY <1>1, <1>2, TablesSame
  <2> QED BY <2>1, <1>1
<1>4. logNumber <= logfileNumber
    BY <1>1, LogsInOrder
<1>5. f \in FileNumber /\ f < nextFile /\ f \in DOMAIN tables
  <2>1. f \in FilesOf(current)
    BY FilesOfMember DEF InputsOf
  <2>2. f \in DOMAIN tables /\ \A k \in DOMAIN tables : k < nextFile
    BY <2>1, <1>1 DEF DBInv, VersionsInv, NumbersInv
  <2> QED BY <2>1, <2>2, <1>2, FilesAreNumbers
<1>6. \A a \in {<<level + 1, f>>} : a[2] \in FileNumber /\ a[2] < nextFile /\ a[2] \in DOMAIN tables'
    BY <1>1, <1>5
<1>7. /\ nextFile <= nextFile /\ logNumber <= logNumber /\ nextFile' = nextFile
      /\ UNCHANGED <<logs, status, mem, imm, logfileNumber, logNumber, lastSequence, current,
                     clients, writer, compact, bgError, errors, hist, durable>>
    BY <1>1, <1>2
<1> QED BY <1>1, <1>2, <1>3, <1>4, <1>6, <1>7, EditInv

\* The inputs of a merge are chosen and the current version referenced.
LEMMA MergeInv ==
    ASSUME DBInv, Idle, NEW level \in 0..(kNumLevels - 2), NEW inputs, InputsOf(current, level, inputs),
           NEW keep, keep \in SUBSET MakeInputIterator(inputs),
           compact' = [level |-> level, in0 |-> inputs.in0, in1 |-> inputs.in1, ver |-> current,
                       todo |-> MakeInputIterator(inputs), out |-> {}, keep |-> keep],
           UNCHANGED <<tables, logs, db, clients, writer, bgError, errors, hist, durable>>,
           UNCHANGED <<manifest, applying>>
    PROVE  DBInv'
<1> DEFINE todo == MakeInputIterator(inputs)
<1>1. /\ status = "open" /\ applying = None /\ ~bgError
      /\ UNCHANGED <<tables, logs, manifest, status, mem, imm, logfileNumber, logNumber, nextFile, lastSequence>>
      /\ UNCHANGED <<current, snapshots, readers, writer, applying, bgError, errors, hist, durable>>
    BY DEF Idle, db, versions, clients
<1>2. TypeOK /\ current \in Version /\ tables \in [DOMAIN tables -> Batch]
    BY DEF DBInv, TypeOK
<1>3. level \in Level /\ level + 1 \in Level
    BY LevelAssumption DEF Level
<1>4. /\ inputs.in0 \subseteq FilesOf(current) /\ inputs.in1 \subseteq FilesOf(current)
      /\ FilesOf(current) \subseteq DOMAIN tables /\ FilesOf(current) \subseteq FileNumber
  <2>1. \A f \in inputs.in0 \union inputs.in1 : f \in FilesOf(current)
    BY <1>3, FilesOfMember DEF InputsOf
  <2>2. FilesOf(current) \subseteq DOMAIN tables
    BY DEF DBInv, VersionsInv
  <2> QED BY <2>1, <2>2, <1>2, FilesAreNumbers
<1>5. todo \in SUBSET Entry /\ UpTo(todo, lastSequence)
  <2>1. \A f \in DOMAIN tables : tables[f] \in SUBSET Entry /\ UpTo(tables[f], lastSequence)
    BY <1>1, <1>2, BatchEntries DEF DBInv, SequenceInv
  <2> QED BY <2>1, <1>4 DEF MakeInputIterator, UpTo
<1> HIDE DEF todo
<1>6. compact' = [level |-> level, in0 |-> inputs.in0, in1 |-> inputs.in1, ver |-> current,
                  todo |-> todo, out |-> {}, keep |-> keep]
    BY DEF todo
<1>7. keep \in SUBSET Entry /\ inputs.in0 \in SUBSET FileNumber /\ inputs.in1 \in SUBSET FileNumber
    BY <1>4, <1>5 DEF todo
<1>8. /\ compact' \in Compaction /\ compact'.ver = current /\ compact'.todo = todo /\ compact'.out = {}
    BY <1>2, <1>5, <1>6, <1>7 DEF Compaction
<1>9. TypeOK'
    BY <1>1, <1>2, <1>8 DEF TypeOK
<1>10. Unused'
    BY <1>1 DEF Unused
<1>11. DescriptorsInv' /\ BatchesInv' /\ DurableInv'
    BY <1>1, KeepAll, BatchesKept
<1>12. NumbersInv'
    BY <1>1 DEF DBInv, NumbersInv
<1>13. VersionsInv'
  <2>1. FilesOf(compact'.ver) \union compact'.out \subseteq DOMAIN tables
    BY <1>4, <1>8
  <2> QED BY <2>1, <1>1 DEF DBInv, VersionsInv
<1>14. RecordsInv'
    BY <1>1, RecordsKept DEF DBInv
<1>15. SequenceInv'
    BY <1>1, <1>5, <1>8 DEF DBInv, SequenceInv
<1>16. WriterInv'
    BY <1>1 DEF DBInv, WriterInv
<1> QED BY <1>9, <1>10, <1>11, <1>12, <1>13, <1>14, <1>15, <1>16 DEF DBInv

\* A compaction is started.
LEMMA StartCompactionInv ==
    ASSUME DBInv, Idle, NEW level \in 0..(kNumLevels - 2), NEW inputs, InputsOf(current, level, inputs),
           NEW manual, StartCompaction(level, inputs, manual)
    PROVE  DBInv'
<1> DEFINE oldest == IF snapshots = {} THEN lastSequence ELSE Min(snapshots)
           keep == Survivors(tables, current, level, MakeInputIterator(inputs), oldest)
<1>1. /\ UNCHANGED <<tables, logs, db, clients, writer, bgError, errors, hist, durable>>
      /\ \/ /\ \E f \in inputs.in0 :
                  LogAndApply("move", {<<level, f>>}, {<<level + 1, f>>}, logNumber, nextFile)
            /\ UNCHANGED compact
         \/ /\ compact' = [level |-> level, in0 |-> inputs.in0, in1 |-> inputs.in1, ver |-> current,
                           todo |-> MakeInputIterator(inputs), out |-> {}, keep |-> keep]
            /\ UNCHANGED <<manifest, applying>>
    BY DEF StartCompaction
<1>2. level \in Level
    BY LevelAssumption DEF Level
<1>3. keep \in SUBSET MakeInputIterator(inputs)
    BY DEF Survivors
<1> HIDE DEF keep
<1>4. CASE /\ \E f \in inputs.in0 :
                 LogAndApply("move", {<<level, f>>}, {<<level + 1, f>>}, logNumber, nextFile)
           /\ UNCHANGED compact
  <2>1. PICK f \in inputs.in0 :
            LogAndApply("move", {<<level, f>>}, {<<level + 1, f>>}, logNumber, nextFile)
    BY <1>4
  <2>2. UNCHANGED <<tables, logs, db, clients, writer, compact, bgError, errors, hist, durable>>
    BY <1>1, <1>4
  <2> QED BY <2>1, <2>2, <1>2, MoveInv
<1>5. CASE /\ compact' = [level |-> level, in0 |-> inputs.in0, in1 |-> inputs.in1, ver |-> current,
                          todo |-> MakeInputIterator(inputs), out |-> {}, keep |-> keep]
           /\ UNCHANGED <<manifest, applying>>
    BY <1>1, <1>3, <1>5, MergeInv
<1> QED BY <1>1, <1>4, <1>5

\* A full level or a seek starts a compaction.
LEMMA AutomaticCompactionInv ==
    ASSUME DBInv, NEW level \in 0..(kNumLevels - 2), NEW f, AutomaticCompaction(level, f)
    PROVE  DBInv'
<1>1. Idle /\ f \in current[level]
    BY DEF AutomaticCompaction
<1>2. PICK inputs \in PickCompaction(tables, current, level, f) : StartCompaction(level, inputs, FALSE)
    BY DEF AutomaticCompaction
<1>3. InputsOf(current, level, inputs)
    BY <1>1, PickInputs
<1> QED BY <1>1, <1>2, <1>3, StartCompactionInv

\* CompactRange starts a compaction.
LEMMA ManualCompactionInv ==
    ASSUME DBInv, NEW level \in 0..(kNumLevels - 2), NEW lo, NEW hi, ManualCompaction(level, lo, hi)
    PROVE  DBInv'
<1>1. Idle
    BY DEF ManualCompaction
<1>2. PICK inputs \in CompactRange(tables, current, level, lo, hi) : StartCompaction(level, inputs, TRUE)
    BY DEF ManualCompaction
<1>3. InputsOf(current, level, inputs)
    BY RangeInputs
<1> QED BY <1>1, <1>2, <1>3, StartCompactionInv

\* Part of the input of a merge is read, and its survivors become a table.
LEMMA CompactionOutputInv ==
    ASSUME DBInv, NEW done \in SUBSET compact.todo, CompactionOutput(done)
    PROVE  DBInv'
<1> DEFINE ents == done \intersect compact.keep
           files == IF ents = {} THEN {} ELSE {nextFile}
<1>1. /\ status = "open" /\ applying = None /\ compact # None
      /\ compact' = [compact EXCEPT !.todo = @ \ done, !.out = @ \union files]
      /\ FinishCompactionOutputFile(ents)
      /\ UNCHANGED <<logs, manifest, status, mem, imm, logfileNumber, logNumber,
                     lastSequence, current, clients, writer, applying, bgError, errors, ghosts>>
    BY DEF CompactionOutput, Merging
<1>2. /\ UNCHANGED <<logs, manifest, status, mem, imm, logfileNumber, logNumber, lastSequence, current>>
      /\ UNCHANGED <<snapshots, readers, writer, applying, bgError, errors, hist, durable>>
    BY <1>1 DEF clients, ghosts
<1>3. TypeOK /\ nextFile \in Nat /\ logfileNumber \in Nat /\ compact \in Compaction /\ DOMAIN tables \in SUBSET Nat
      /\ \A i \in DOMAIN manifest : manifest[i].next \in Nat
  <2>1. TypeOK
    BY DEF DBInv
  <2>2. compact \in Compaction
    BY <2>1, <1>1 DEF TypeOK
  <2> QED BY <2>1, <2>2, DiskTypes
<1>4. /\ compact.todo \in SUBSET Entry /\ compact.out \in SUBSET FileNumber
      /\ UpTo(compact.todo, lastSequence)
      /\ FilesOf(compact.ver) \union compact.out \subseteq DOMAIN tables
    BY <1>1, <1>3 DEF DBInv, SequenceInv, VersionsInv, Compaction
<1>5. ents \in SUBSET Entry /\ UpTo(ents, lastSequence)
    BY <1>4 DEF UpTo
<1> HIDE DEF ents
<1>6. /\ TablesOK(tables, tables', nextFile', lastSequence) /\ files \subseteq DOMAIN tables'
      /\ files \subseteq FileNumber /\ nextFile <= nextFile' /\ nextFile' \in FileNumber
  <2>1. CASE ents = {}
    <3>1. UNCHANGED <<tables, nextFile>> /\ files = {}
      BY <1>1, <2>1 DEF FinishCompactionOutputFile
    <3>2. nextFile <= nextFile /\ nextFile \in FileNumber
      BY <1>3 DEF TypeOK
    <3>3. TablesOK(tables, tables, nextFile, lastSequence)
      BY <1>1, <1>3, <3>2, TablesSame
    <3> QED BY <3>1, <3>2, <3>3
  <2>2. CASE ents # {}
    <3>1. /\ nextFile < MaxFile /\ tables' = NewWritableFile(tables, nextFile, ents)
          /\ nextFile' = nextFile + 1 /\ files = {nextFile}
      BY <1>1, <2>2 DEF FinishCompactionOutputFile
    <3>2. ents \in Batch
      BY <1>5, <2>2 DEF Batch
    <3>3. /\ TablesOK(tables, tables', nextFile + 1, lastSequence)
          /\ DOMAIN tables' = DOMAIN tables \union {nextFile}
      BY <3>1, <3>2, <1>1, <1>5, TableWritten
    <3>4. nextFile <= nextFile + 1 /\ nextFile \in FileNumber /\ nextFile + 1 \in FileNumber
      BY <1>3, <3>1, BoundAssumption DEF TypeOK, FileNumber
    <3> QED BY <3>1, <3>3, <3>4
  <2> QED BY <2>1, <2>2
<1> HIDE DEF files
<1>7. /\ KeepsTables(tables, tables', DOMAIN tables) /\ tables' \in [DOMAIN tables' -> Batch]
      /\ DOMAIN tables' \subseteq FileNumber /\ DOMAIN tables \subseteq DOMAIN tables'
      /\ \A f \in DOMAIN tables' : f < nextFile' /\ UpTo(tables'[f], lastSequence)
    BY <1>6 DEF TablesOK, KeepsTables
<1>8. /\ compact' \in Compaction /\ compact'.ver = compact.ver
      /\ compact'.todo = compact.todo \ done /\ compact'.out = compact.out \union files
    BY <1>1, <1>3, <1>6 DEF Compaction
<1>9. compact' # None
    BY <1>8, NoneAssumption
<1>10. TypeOK'
    BY <1>2, <1>3, <1>6, <1>7, <1>8 DEF TypeOK
<1>11. Unused'
    BY <1>1, <1>2 DEF Unused
<1>12. DescriptorsInv' /\ BatchesInv' /\ DurableInv'
  <2>1. logs \in [DOMAIN logs -> LogFile] /\ KeepsLogs(logs, logs)
    BY <1>3, DiskTypes, KeepSame
  <2>2. Keeps(logs, logs', tables, tables')
    BY <2>1, <1>2, <1>7 DEF Keeps
  <2> QED BY <2>2, <1>1, <1>2, BatchesKept
<1>13. NumbersInv'
  <2>1. /\ logfileNumber \in DOMAIN logs /\ logfileNumber < nextFile /\ 0 < logNumber
        /\ \A n \in DOMAIN logs : n <= logfileNumber
        /\ \A i \in DOMAIN manifest : /\ logNumber <= manifest[i].log
                                      /\ manifest[i].log <= logfileNumber
                                      /\ manifest[i].next <= nextFile
    BY <1>1 DEF DBInv, NumbersInv
  <2>2. nextFile' \in Nat
    BY <1>6, BoundAssumption DEF FileNumber
  <2>3. logfileNumber < nextFile' /\ \A i \in DOMAIN manifest : manifest[i].next <= nextFile'
    BY <2>1, <2>2, <1>3, <1>6
  <2> QED BY <2>1, <2>3, <1>1, <1>2, <1>7 DEF NumbersInv
<1>14. VersionsInv'
  <2>1. FilesOf(compact'.ver) \union compact'.out \subseteq DOMAIN tables'
    BY <1>4, <1>6, <1>7, <1>8
  <2>2. FilesOf(current) \subseteq DOMAIN tables /\ \A r \in readers : FilesOf(r.ver) \subseteq DOMAIN tables
    BY DEF DBInv, VersionsInv
  <2>3. FilesOf(current') \subseteq DOMAIN tables' /\ \A r \in readers' : FilesOf(r.ver) \subseteq DOMAIN tables'
    BY <2>2, <1>2, <1>7
  <2> QED BY <2>1, <2>3, <1>1, <1>2 DEF DBInv, VersionsInv
<1>15. RecordsInv'
    BY <1>2, RecordsKept DEF DBInv
<1>16. SequenceInv'
  <2>1. UpTo(compact'.todo, lastSequence)
    BY <1>4, <1>8 DEF UpTo
  <2> QED BY <2>1, <1>1, <1>2, <1>7 DEF DBInv, SequenceInv
<1>17. WriterInv'
    BY <1>2 DEF DBInv, WriterInv
<1> QED BY <1>10, <1>11, <1>12, <1>13, <1>14, <1>15, <1>16, <1>17 DEF DBInv

\* The outputs of a merge replace its inputs.
LEMMA InstallCompactionResultsInv ==
    ASSUME DBInv, InstallCompactionResults
    PROVE  DBInv'
<1> DEFINE add == {compact.level + 1} \X compact.out
<1>1. /\ status = "open" /\ applying = None /\ compact # None
      /\ LogAndApply("merge", InputDeletions(compact), add, logNumber, nextFile)
      /\ UNCHANGED <<tables, logs, db, clients, writer, compact, bgError, errors, hist, durable>>
    BY DEF InstallCompactionResults, Merging
<1>2. UNCHANGED <<tables, logs, status, mem, imm, logfileNumber, logNumber, nextFile, lastSequence, current,
                  clients, writer, compact, bgError, errors, hist, durable>>
    BY <1>1 DEF db, versions
<1>3. /\ TypeOK /\ nextFile \in Nat /\ logfileNumber \in Nat /\ logNumber \in Nat
      /\ nextFile \in FileNumber /\ logNumber \in FileNumber
    BY DiskTypes DEF DBInv, TypeOK
<1>4. TablesOK(tables, tables', nextFile, lastSequence)
  <2>1. TablesOK(tables, tables, nextFile, lastSequence)
    BY <1>1, <1>3, TablesSame
  <2> QED BY <2>1, <1>2
<1>5. logNumber <= logfileNumber
    BY <1>1, LogsInOrder
<1>6. \A f \in compact.out : f \in DOMAIN tables /\ f \in FileNumber /\ f < nextFile
  <2>1. compact.out \subseteq DOMAIN tables /\ \A f \in DOMAIN tables : f < nextFile
    BY <1>1 DEF DBInv, VersionsInv, NumbersInv
  <2>2. DOMAIN tables \subseteq FileNumber
    BY <1>3 DEF TypeOK
  <2> QED BY <2>1, <2>2
<1>7. \A a \in add : a[2] \in FileNumber /\ a[2] < nextFile /\ a[2] \in DOMAIN tables'
  <2>1. \A a \in add : a[2] \in compact.out
    OBVIOUS
  <2> QED BY <2>1, <1>2, <1>6
<1> HIDE DEF add
<1>8. /\ nextFile <= nextFile /\ logNumber <= logNumber /\ nextFile' = nextFile
      /\ UNCHANGED <<logs, status, mem, imm, logfileNumber, logNumber, lastSequence, current,
                     clients, writer, compact, bgError, errors, hist, durable>>
    BY <1>2, <1>3
<1> QED BY <1>1, <1>3, <1>4, <1>5, <1>7, <1>8, EditInv

-----------------------------------------------------------------------------
\* Files G are some of files F.
Fewer(F, G) == \A f \in DOMAIN G : f \in DOMAIN F /\ G[f] = F[f]

\* What DeleteObsoleteFiles leaves.
LEMMA FilesLeft ==
    ASSUME NEW ver, NEW log, NEW c, DeleteObsoleteFiles(ver, log, c)
    PROVE  /\ Fewer(tables, tables') /\ Fewer(logs, logs')
           /\ bgError => tables' = tables /\ logs' = logs
           /\ ~bgError => DOMAIN tables' \subseteq LiveFiles(ver, c) /\ \A n \in DOMAIN logs' : n >= log
           /\ \A f \in DOMAIN tables : f \in LiveFiles(ver, c) => f \in DOMAIN tables'
           /\ \A n \in DOMAIN logs : n >= log => n \in DOMAIN logs'
<1> DEFINE live == LiveFiles(ver, c)
           newer == {n \in DOMAIN logs : n >= log}
<1>1. CASE bgError
  <2>1. tables' = tables /\ logs' = logs
    BY <1>1 DEF DeleteObsoleteFiles
  <2> QED BY <2>1, <1>1 DEF Fewer
<1>2. CASE ~bgError
  <2>1. tables' = [f \in DOMAIN tables \intersect live |-> tables[f]] /\ logs' = [n \in newer |-> logs[n]]
    BY <1>2 DEF DeleteObsoleteFiles, Restrict
  <2> HIDE DEF live
  <2>2. Fewer(tables, tables') /\ Fewer(logs, logs')
    BY <2>1 DEF Fewer
  <2>3. DOMAIN tables' = DOMAIN tables \intersect live /\ DOMAIN logs' = newer
    BY <2>1
  <2> QED BY <2>2, <2>3, <1>2 DEF live
<1> QED BY <1>1, <1>2

\* The tables in use.
LEMMA LiveFilesAre ==
    ASSUME NEW ver, NEW c
    PROVE  /\ FilesOf(ver) \subseteq LiveFiles(ver, c)
           /\ \A r \in readers : FilesOf(r.ver) \subseteq LiveFiles(ver, c)
           /\ c # None => FilesOf(c.ver) \union c.out \subseteq LiveFiles(ver, c)
           /\ c = None /\ readers = {} => LiveFiles(ver, c) = FilesOf(ver)
<1>1. ver \in LiveVersions(ver, c) /\ \A r \in readers : r.ver \in LiveVersions(ver, c)
    BY DEF LiveVersions
<1>2. c # None => c.ver \in LiveVersions(ver, c)
    BY DEF LiveVersions
<1>3. \A v \in LiveVersions(ver, c) : FilesOf(v) \subseteq LiveFiles(ver, c)
    BY DEF LiveFiles
<1>4. c # None => c.out \subseteq LiveFiles(ver, c)
  <2> SUFFICES ASSUME c # None, NEW f \in c.out PROVE f \in LiveFiles(ver, c)
    OBVIOUS
  <2> QED BY DEF LiveFiles
<1>5. ASSUME c = None, readers = {} PROVE LiveFiles(ver, c) = FilesOf(ver)
  <2>1. LiveVersions(ver, c) = {ver}
    BY <1>5 DEF LiveVersions
  <2> QED BY <2>1, <1>5 DEF LiveFiles
<1> QED BY <1>1, <1>2, <1>3, <1>4, <1>5

\* Fewer logs and fewer tables have their types.
LEMMA FewerTypes ==
    ASSUME NEW B, NEW F, F \in [DOMAIN F -> B], NEW G, G = [f \in DOMAIN G |-> G[f]], Fewer(F, G)
    PROVE  G \in [DOMAIN G -> B] /\ DOMAIN G \subseteq DOMAIN F
BY DEF Fewer

\* The edit is synced: what it means for the files.
InstalledOK(m, log, ver, c) ==
    /\ Fewer(tables, tables') /\ Fewer(logs, logs')
    /\ \A n \in DOMAIN logs : n >= log => n \in DOMAIN logs'
    /\ KeepsTables(tables, tables', FilesOf(m.files)) /\ FilesOf(ver) \subseteq DOMAIN tables'
    /\ \A r \in readers : FilesOf(r.ver) \subseteq DOMAIN tables'
    /\ c # None => FilesOf(c.ver) \union c.out \subseteq DOMAIN tables'
    /\ tables' \in [DOMAIN tables' -> Batch] /\ logs' \in [DOMAIN logs' -> LogFile]

LEMMA InstalledFiles ==
    ASSUME DBInv, EditInstalled
    PROVE  InstalledOK(Last(manifest), applying.log, applying.ver, CleanupCompaction)
<1> DEFINE m == Last(manifest)
           ver == applying.ver
           log == applying.log
           c == CleanupCompaction
<1>1. /\ status = "open" /\ applying # None
      /\ \/ tables' = tables /\ logs' = logs
         \/ DeleteObsoleteFiles(ver, log, c)
    BY DEF EditInstalled
<1>2. tables \in [DOMAIN tables -> Batch] /\ logs \in [DOMAIN logs -> LogFile]
    BY DEF DBInv, TypeOK
<1>3. /\ FilesOf(ver) \subseteq DOMAIN tables
      /\ \A r \in readers : FilesOf(r.ver) \subseteq DOMAIN tables
      /\ c # None => FilesOf(c.ver) \union c.out \subseteq DOMAIN tables
      /\ ~bgError => m.files = ver
    BY <1>1 DEF DBInv, VersionsInv, CleanupCompaction
<1>4. FilesOf(m.files) \subseteq DOMAIN tables
  <2>1. Len(manifest) \in DOMAIN manifest /\ m = manifest[Len(manifest)]
    BY LastOf DEF DBInv, TypeOK
  <2>2. DescriptorOK(manifest[Len(manifest)], tables)
    BY <2>1 DEF DBInv, DescriptorsInv, DescriptorsOK
  <2> QED BY <2>1, <2>2 DEF DescriptorOK
<1> HIDE DEF m, ver, log, c
<1>5. CASE tables' = tables /\ logs' = logs
  <2>1. KeepsTables(tables, tables, FilesOf(m.files)) /\ Fewer(tables, tables) /\ Fewer(logs, logs)
    BY <1>4 DEF KeepsTables, Fewer
  <2> QED BY <2>1, <1>2, <1>3, <1>5 DEF InstalledOK, m, ver, log, c
<1>6. CASE DeleteObsoleteFiles(ver, log, c)
  <2>1. /\ Fewer(tables, tables') /\ Fewer(logs, logs')
        /\ bgError => tables' = tables /\ logs' = logs
        /\ \A f \in DOMAIN tables : f \in LiveFiles(ver, c) => f \in DOMAIN tables'
        /\ \A n \in DOMAIN logs : n >= log => n \in DOMAIN logs'
    BY <1>6, FilesLeft
  <2>2. /\ FilesOf(ver) \subseteq LiveFiles(ver, c)
        /\ \A r \in readers : FilesOf(r.ver) \subseteq LiveFiles(ver, c)
        /\ c # None => FilesOf(c.ver) \union c.out \subseteq LiveFiles(ver, c)
    BY LiveFilesAre
  <2>3. /\ FilesOf(ver) \subseteq DOMAIN tables'
        /\ \A r \in readers : FilesOf(r.ver) \subseteq DOMAIN tables'
        /\ c # None => FilesOf(c.ver) \union c.out \subseteq DOMAIN tables'
    BY <2>1, <2>2, <1>3
  <2>4. FilesOf(m.files) \subseteq DOMAIN tables'
    <3>1. CASE bgError
      BY <3>1, <2>1, <1>4
    <3>2. CASE ~bgError
      BY <3>2, <2>3, <1>3
    <3> QED BY <3>1, <3>2
  <2>5. KeepsTables(tables, tables', FilesOf(m.files))
    BY <2>1, <2>4 DEF KeepsTables, Fewer
  <2>6. tables' \in [DOMAIN tables' -> Batch] /\ logs' \in [DOMAIN logs' -> LogFile]
    <3>1. tables' = [f \in DOMAIN tables' |-> tables'[f]] /\ logs' = [n \in DOMAIN logs' |-> logs'[n]]
      BY <1>2, <1>6 DEF DeleteObsoleteFiles, Restrict
    <3> QED BY <3>1, <2>1, <1>2, FewerTypes
  <2> QED BY <2>1, <2>3, <2>5, <2>6 DEF InstalledOK, m, ver, log, c
<1> QED BY <1>1, <1>5, <1>6

\* The edit is synced and its version becomes the current one.
LEMMA EditInstalledInv ==
    ASSUME DBInv, EditInstalled
    PROVE  DBInv'
<1> DEFINE m == Last(manifest)
           log == applying.log
           ver == applying.ver
           c == CleanupCompaction
<1>1. /\ status = "open" /\ applying # None /\ manifest' = <<m>>
      /\ current' = ver /\ logNumber' = log /\ applying' = None
      /\ imm' = {} \/ imm' = imm
      /\ compact' = c
      /\ UNCHANGED <<status, mem, logfileNumber, nextFile, lastSequence, clients,
                     writer, bgError, errors, ghosts>>
    BY DEF EditInstalled
<1>2. /\ UNCHANGED <<status, mem, logfileNumber, nextFile, lastSequence>>
      /\ UNCHANGED <<snapshots, readers, writer, bgError, errors, hist, durable>>
    BY <1>1 DEF clients, ghosts
<1>3. /\ TypeOK /\ manifest \in Seq(Descriptor) \ {<<>>} /\ logs \in [DOMAIN logs -> LogFile]
      /\ logfileNumber \in Nat /\ nextFile \in Nat /\ logNumber \in Nat
      /\ DOMAIN logs \in SUBSET Nat /\ applying \in Edit
  <2>1. TypeOK
    BY DEF DBInv
  <2>2. applying \in Edit
    BY <2>1, <1>1 DEF TypeOK
  <2> QED BY <2>1, <2>2, DiskTypes
<1>4. m \in Descriptor /\ Len(manifest) \in DOMAIN manifest /\ m = manifest[Len(manifest)]
    BY <1>3, LastOf
<1>5. /\ m.log = log /\ log \in Nat /\ log \in FileNumber /\ ver \in Version /\ m.next \in Nat
      /\ ~bgError => m.files = ver
  <2>1. m.log = log /\ (~bgError => m.files = ver)
    BY <1>1 DEF DBInv, VersionsInv
  <2>2. log \in FileNumber /\ ver \in Version
    BY <1>3 DEF Edit
  <2>3. FileNumber \in SUBSET Nat
    BY BoundAssumption DEF FileNumber
  <2> QED BY <2>1, <2>2, <2>3, <1>4 DEF Descriptor
<1>6. /\ DescriptorOK(m, tables) /\ m.next <= m.next
      /\ 0 < log /\ logNumber <= log /\ log <= logfileNumber /\ m.next <= nextFile
  <2>1. DescriptorOK(m, tables)
    BY <1>4 DEF DBInv, DescriptorsInv, DescriptorsOK
  <2>2. logNumber <= m.log /\ m.log <= logfileNumber /\ m.next <= nextFile
    BY <1>1, <1>4 DEF DBInv, NumbersInv
  <2> QED BY <2>1, <2>2, <1>5 DEF DescriptorOK
<1>7. InstalledOK(m, log, ver, c)
    BY InstalledFiles
<1>8. /\ Fewer(tables, tables') /\ Fewer(logs, logs')
      /\ \A n \in DOMAIN logs : n >= log => n \in DOMAIN logs'
      /\ KeepsTables(tables, tables', FilesOf(m.files)) /\ FilesOf(ver) \subseteq DOMAIN tables'
      /\ \A r \in readers : FilesOf(r.ver) \subseteq DOMAIN tables'
      /\ c # None => FilesOf(c.ver) \union c.out \subseteq DOMAIN tables'
      /\ tables' \in [DOMAIN tables' -> Batch] /\ logs' \in [DOMAIN logs' -> LogFile]
    BY <1>7 DEF InstalledOK
<1>9. DOMAIN tables' \subseteq DOMAIN tables /\ DOMAIN logs' \subseteq DOMAIN logs
    BY <1>8 DEF Fewer
<1>10. c \in Compaction \union {None} /\ (c # None => compact # None /\ c = compact)
    BY <1>3 DEF TypeOK, CleanupCompaction
<1> HIDE DEF m, log, ver, c
<1>11. /\ manifest' \in Seq(Descriptor) \ {<<>>} /\ Last(manifest') = m
       /\ DOMAIN manifest' = {1} /\ manifest'[1] = m /\ Len(manifest') = 1
    BY <1>1, <1>4, OneRecord
<1>12. TypeOK'
  <2>1. imm' \in SUBSET Entry
    BY <1>1, <1>3 DEF TypeOK
  <2>2. DOMAIN tables' \subseteq FileNumber /\ DOMAIN logs' \subseteq FileNumber
    BY <1>3, <1>9 DEF TypeOK
  <2> QED BY <2>1, <2>2, <1>1, <1>2, <1>3, <1>5, <1>8, <1>10, <1>11 DEF TypeOK
<1>13. Unused'
    BY <1>1, <1>2 DEF Unused
<1>14. DescriptorsInv'
  <2>1. DescriptorOK(m, tables')
    BY <1>6, <1>8, DescriptorKept
  <2>2. \A j \in 1..1 : j = 1
    OBVIOUS
  <2> QED BY <2>1, <2>2, <1>6, <1>11 DEF DescriptorsInv, DescriptorsOK
<1>15. NumbersInv'
  <2>1. /\ logfileNumber \in DOMAIN logs /\ logfileNumber < nextFile
        /\ \A n \in DOMAIN logs : n <= logfileNumber
        /\ \A f \in DOMAIN tables : f < nextFile
    BY <1>1 DEF DBInv, NumbersInv
  <2>2. logfileNumber \in DOMAIN logs'
    BY <2>1, <1>3, <1>5, <1>6, <1>8
  <2>3. \A i \in DOMAIN manifest' : /\ log <= manifest'[i].log /\ manifest'[i].log <= logfileNumber
                                    /\ manifest'[i].next <= nextFile
    BY <1>5, <1>6, <1>11
  <2> QED BY <2>1, <2>2, <2>3, <1>1, <1>2, <1>6, <1>9 DEF NumbersInv
<1>16. VersionsInv'
  <2>1. ~bgError' => Last(manifest').files = current'
    BY <1>1, <1>2, <1>5, <1>11
  <2> QED BY <2>1, <1>1, <1>2, <1>8 DEF VersionsInv
<1>17. ASSUME NEW h, h.log \in Nat, Logged(logs, h), ~(h.log < log) PROVE Logged(logs', h)
  <2>1. h.log \in DOMAIN logs' /\ logs'[h.log] = logs[h.log]
    BY <1>5, <1>8, <1>17 DEF Logged, Fewer
  <2> QED BY <2>1, <1>17 DEF Logged
<1>18. ASSUME NEW h, h.log \in Nat, Synced(logs, h), ~(h.log < log) PROVE Synced(logs', h)
  <2>1. h.log \in DOMAIN logs' /\ logs'[h.log] = logs[h.log]
    BY <1>5, <1>8, <1>18 DEF Synced, Fewer
  <2> QED BY <2>1, <1>18 DEF Synced
<1>19. BatchesInv'
  <2>1. ASSUME NEW h \in hist PROVE BatchOK(h, m, logs', tables') /\ (h.log < log \/ Logged(logs', h))
    <3>1. BatchOK(h, m, logs, tables) /\ (h.log < logNumber \/ Logged(logs, h))
      BY <1>1, <1>4 DEF DBInv, BatchesInv
    <3>2. h.log \in Nat
      BY <1>3, HistTypes
    <3>3. h.log < log \/ Logged(logs', h)
      BY <3>1, <3>2, <1>3, <1>5, <1>6, <1>17
    <3>4. h.log < log \/ h.log \in DOMAIN logs'
      BY <3>3 DEF Logged
    <3> QED BY <3>1, <3>3, <3>4, <1>5 DEF BatchOK
  <2> QED BY <2>1, <1>1, <1>2, <1>11 DEF BatchesInv
<1>20. DurableInv'
  <2>1. ASSUME NEW d \in durable
        PROVE  \E h \in hist : /\ h.ents = d /\ (h.log < log \/ Synced(logs', h))
                              /\ DurableOK(h, m, logs', tables')
    <3>1. PICK h \in hist : h.ents = d /\ (h.log < logNumber \/ Synced(logs, h))
      BY <1>1 DEF DBInv, DurableInv
    <3>2. h.log \in Nat
      BY <1>3, HistTypes
    <3>3. h.log < log \/ Synced(logs', h)
      BY <3>1, <3>2, <1>3, <1>5, <1>6, <1>18
    <3> QED BY <3>1, <3>3, <1>5 DEF DurableOK
  <2> QED BY <2>1, <1>1, <1>2, <1>11 DEF DurableInv
<1>21. \A n \in DOMAIN logs' : n \in DOMAIN logs /\ logs'[n] = logs[n]
    BY <1>8 DEF Fewer
<1>22. RecordsInv'
  <2> SUFFICES ASSUME NEW n \in DOMAIN logs', NEW e \in ToSet(logs'[n].recs)
               PROVE  \/ [ents |-> e, log |-> n] \in hist'
                      \/ /\ status' = "open" /\ n = logfileNumber'
                         /\ bgError' \/ (writer' # None /\ e = writer'.ents)
    BY DEF RecordsInv
  <2>1. \/ [ents |-> e, log |-> n] \in hist
        \/ /\ status = "open" /\ n = logfileNumber
           /\ bgError \/ (writer # None /\ e = writer.ents)
    BY <1>21 DEF DBInv, RecordsInv
  <2>2. /\ hist' = hist /\ status' = status /\ logfileNumber' = logfileNumber
        /\ bgError' = bgError /\ writer' = writer
    BY <1>2
  <2> QED BY <2>1, <2>2
<1>23. SequenceInv'
  <2>1. \A f \in DOMAIN tables' : UpTo(tables'[f], lastSequence)
    BY <1>1, <1>8 DEF DBInv, SequenceInv, Fewer
  <2>2. \A n \in DOMAIN logs' : \A e \in ToSet(logs'[n].recs) :
            UpTo(e, lastSequence) \/ (writer # None /\ e = writer.ents)
    BY <1>1, <1>21 DEF DBInv, SequenceInv
  <2>3. UpTo(imm', lastSequence)
    BY <1>1 DEF DBInv, SequenceInv, UpTo
  <2>4. compact' # None => UpTo(compact'.todo, lastSequence)
    BY <1>1, <1>10 DEF DBInv, SequenceInv
  <2>5. UpTo(mem, lastSequence) /\ \A h \in hist : UpTo(h.ents, lastSequence)
    BY <1>1 DEF DBInv, SequenceInv
  <2> QED BY <2>1, <2>2, <2>3, <2>4, <2>5, <1>1, <1>2 DEF SequenceInv
<1>24. WriterInv'
  <2>1. ASSUME writer # None PROVE Logged(logs', [ents |-> writer.ents, log |-> logfileNumber])
    <3>1. Logged(logs, [ents |-> writer.ents, log |-> logfileNumber])
      BY <2>1 DEF DBInv, WriterInv
    <3>2. ~(logfileNumber < log)
      BY <1>3, <1>5, <1>6
    <3> QED BY <3>1, <3>2, <1>3, <1>17
  <2> QED BY <2>1, <1>1, <1>2 DEF DBInv, WriterInv
<1> QED BY <1>12, <1>13, <1>14, <1>15, <1>16, <1>19, <1>20, <1>22, <1>23, <1>24 DEF DBInv

\* The edit fails: one more error, and one record that may be missing.
LEMMA EditFailsInv ==
    ASSUME DBInv, EditFails
    PROVE  DBInv'
<1> DEFINE M == manifest
           N == manifest'
<1>1. /\ status = "open" /\ applying # None /\ errors < MaxErrors
      /\ N = M \/ N = Front(M)
      /\ applying' = None /\ compact' = CleanupCompaction
      /\ bgError' = TRUE /\ errors' = errors + 1
      /\ UNCHANGED <<tables, logs, db, clients, writer, ghosts>>
    BY DEF EditFails
<1>2. /\ UNCHANGED <<tables, logs, status, mem, imm, logfileNumber, logNumber, nextFile, lastSequence, current>>
      /\ UNCHANGED <<snapshots, readers, writer, hist, durable>>
    BY <1>1 DEF db, versions, clients, ghosts
<1>3. TypeOK /\ M \in Seq(Descriptor) \ {<<>>} /\ Len(M) > 1
    BY <1>1 DEF DBInv, TypeOK, VersionsInv
<1>4. /\ N \in Seq(Descriptor) \ {<<>>} /\ Len(N) <= Len(M) /\ Len(N) \in Nat /\ Len(M) \in Nat
      /\ \A i \in DOMAIN N : i \in DOMAIN M /\ N[i] = M[i]
      /\ DOMAIN N = 1..Len(N) /\ DOMAIN M = 1..Len(M)
  <2> HIDE DEF M, N
  <2>0. Len(M) \in Nat /\ DOMAIN M = 1..Len(M)
    BY <1>3, LastOf
  <2>1. CASE N = M
    BY <2>0, <2>1, <1>3
  <2>2. CASE N = Front(M)
    <3>1. /\ N \in Seq(Descriptor) \ {<<>>} /\ Len(N) = Len(M) - 1
          /\ \A i \in DOMAIN N : i \in DOMAIN M /\ N[i] = M[i]
      BY <2>2, <1>3, FrontRecords
    <3>2. Len(N) \in Nat /\ DOMAIN N = 1..Len(N)
      BY <3>1, LastOf
    <3> QED BY <2>0, <3>1, <3>2
  <2> QED BY <2>1, <2>2, <1>1
<1>5. compact' \in Compaction \union {None} /\ (compact' # None => compact # None /\ compact' = compact)
    BY <1>1, <1>3 DEF TypeOK, CleanupCompaction
<1>6. TypeOK'
  <2>1. errors' \in 0..MaxErrors
    BY <1>1, <1>3, BoundAssumption DEF TypeOK
  <2>2. bgError' \in BOOLEAN /\ applying' \in Edit \union {None}
    BY <1>1
  <2>3. manifest' \in Seq(Descriptor) \ {<<>>}
    BY <1>4
  <2> HIDE DEF M, N
  <2> QED BY <2>1, <2>2, <2>3, <1>2, <1>3, <1>5 DEF TypeOK
<1>7. Unused'
    BY <1>1, <1>2 DEF Unused
<1>8. DescriptorsInv'
  <2>1. DescriptorsOK(M, tables)
    BY DEF DBInv, DescriptorsInv
  <2>2. DescriptorsOK(N, tables)
    <3> HIDE DEF M, N
    <3> SUFFICES ASSUME NEW i \in DOMAIN N
                 PROVE  DescriptorOK(N[i], tables) /\ \A j \in i..Len(N) : N[i].next <= N[j].next
      BY DEF DescriptorsOK
    <3>1. i \in DOMAIN M /\ N[i] = M[i] /\ \A j \in i..Len(N) : j \in i..Len(M) /\ N[j] = M[j]
      BY <1>4
    <3> QED BY <3>1, <2>1 DEF DescriptorsOK
  <2> QED BY <2>2, <1>2 DEF DescriptorsInv
<1>9. NumbersInv'
  <2>1. \A i \in DOMAIN N : /\ logNumber <= N[i].log /\ N[i].log <= logfileNumber
                            /\ N[i].next <= nextFile
    BY <1>1, <1>4 DEF DBInv, NumbersInv
  <2> QED BY <2>1, <1>1, <1>2 DEF DBInv, NumbersInv
<1>10. VersionsInv'
    BY <1>1, <1>2, <1>5 DEF DBInv, VersionsInv
<1>11. BatchesInv'
  <2>1. \A h \in hist, i \in DOMAIN N : BatchOK(h, N[i], logs, tables)
    BY <1>4 DEF DBInv, BatchesInv
  <2> QED BY <2>1, <1>1, <1>2 DEF DBInv, BatchesInv
<1>12. DurableInv'
  <2>1. ASSUME NEW d \in durable
        PROVE  \E h \in hist : /\ h.ents = d /\ (h.log < logNumber \/ Synced(logs, h))
                              /\ \A i \in DOMAIN N : DurableOK(h, N[i], logs, tables)
    <3>1. PICK h \in hist : /\ h.ents = d /\ (h.log < logNumber \/ Synced(logs, h))
                           /\ \A i \in DOMAIN M : DurableOK(h, M[i], logs, tables)
      BY <1>1 DEF DBInv, DurableInv
    <3> QED BY <3>1, <1>4
  <2> QED BY <2>1, <1>2 DEF DurableInv
<1>13. RecordsInv'
  <2> SUFFICES ASSUME NEW n \in DOMAIN logs, NEW e \in ToSet(logs[n].recs)
               PROVE  [ents |-> e, log |-> n] \in hist \/ (status = "open" /\ n = logfileNumber)
    BY <1>1, <1>2 DEF RecordsInv
  <2> QED BY DEF DBInv, RecordsInv
<1>14. SequenceInv'
  <2>1. compact' # None => UpTo(compact'.todo, lastSequence)
    BY <1>1, <1>5 DEF DBInv, SequenceInv
  <2> QED BY <2>1, <1>1, <1>2 DEF DBInv, SequenceInv
<1>15. WriterInv'
    BY <1>2 DEF DBInv, WriterInv
<1> QED BY <1>6, <1>7, <1>8, <1>9, <1>10, <1>11, <1>12, <1>13, <1>14, <1>15 DEF DBInv

\* The rest of DB::Open.
LEMMA FinishOpenInv ==
    ASSUME DBInv, FinishOpen
    PROVE  DBInv'
<1> DEFINE ver == applying.ver
           log == applying.log
           m == [files |-> ver, log |-> log, next |-> nextFile, seq |-> lastSequence]
<1>1. /\ status = "opening" /\ status' = "open" /\ manifest' = <<m>>
      /\ current' = ver /\ logNumber' = log /\ applying' = None
      /\ DeleteObsoleteFiles(ver, log, None)
      /\ UNCHANGED <<mem, imm, logfileNumber, nextFile, lastSequence, clients, writer,
                     compact, bgError, errors, ghosts>>
    BY DEF FinishOpen
<1>2. /\ UNCHANGED <<mem, imm, logfileNumber, nextFile, lastSequence>>
      /\ UNCHANGED <<snapshots, readers, writer, compact, bgError, errors, hist, durable>>
    BY <1>1 DEF clients, ghosts
<1>3. /\ readers = {} /\ snapshots = {} /\ mem = {} /\ imm = {} /\ writer = None /\ compact = None
      /\ ~bgError /\ applying # None
    BY <1>1 DEF DBInv, Unused
<1>4. /\ TypeOK /\ applying \in Edit /\ lastSequence \in 0..MaxSeq /\ nextFile \in FileNumber
      /\ tables \in [DOMAIN tables -> Batch] /\ logs \in [DOMAIN logs -> LogFile]
      /\ DOMAIN logs \in SUBSET Nat /\ logfileNumber \in Nat /\ nextFile \in Nat
  <2>1. TypeOK
    BY DEF DBInv
  <2>2. applying \in Edit /\ lastSequence \in 0..MaxSeq /\ nextFile \in FileNumber
    BY <2>1, <1>3 DEF TypeOK
  <2> QED BY <2>1, <2>2, DiskTypes
<1>5. ver \in Version /\ log \in FileNumber
    BY <1>4 DEF Edit
<1>6. /\ 0 < logfileNumber /\ log = logfileNumber /\ logs[logfileNumber].recs = <<>>
      /\ logfileNumber \in DOMAIN logs /\ logfileNumber < nextFile
      /\ \A n \in DOMAIN logs : n <= logfileNumber
      /\ \A f \in FilesOf(ver) : f < nextFile
    BY <1>1 DEF DBInv, NumbersInv
<1>7. /\ Fewer(tables, tables') /\ Fewer(logs, logs')
      /\ DOMAIN tables' \subseteq FilesOf(ver)
      /\ \A n \in DOMAIN logs' : n >= log
      /\ \A f \in DOMAIN tables : f \in FilesOf(ver) => f \in DOMAIN tables'
      /\ \A n \in DOMAIN logs : n >= log => n \in DOMAIN logs'
  <2>1. /\ Fewer(tables, tables') /\ Fewer(logs, logs')
        /\ DOMAIN tables' \subseteq LiveFiles(ver, None) /\ \A n \in DOMAIN logs' : n >= log
        /\ \A f \in DOMAIN tables : f \in LiveFiles(ver, None) => f \in DOMAIN tables'
        /\ \A n \in DOMAIN logs : n >= log => n \in DOMAIN logs'
    BY <1>1, <1>3, FilesLeft
  <2>2. LiveFiles(ver, None) = FilesOf(ver)
    BY <1>3, LiveFilesAre
  <2> QED BY <2>1, <2>2
<1>8. tables' \in [DOMAIN tables' -> Batch] /\ logs' \in [DOMAIN logs' -> LogFile]
  <2>1. tables' = [f \in DOMAIN tables' |-> tables'[f]] /\ logs' = [n \in DOMAIN logs' |-> logs'[n]]
    BY <1>1, <1>3 DEF DeleteObsoleteFiles, Restrict
  <2> QED BY <2>1, <1>4, <1>7, FewerTypes
<1>9. /\ DOMAIN tables' \subseteq DOMAIN tables /\ DOMAIN logs' = {logfileNumber}
      /\ logs'[logfileNumber] = logs[logfileNumber]
  <2>1. logfileNumber \in DOMAIN logs'
    BY <1>4, <1>6, <1>7
  <2>2. \A n \in DOMAIN logs' : n \in DOMAIN logs /\ n = logfileNumber
    <3> SUFFICES ASSUME NEW n \in DOMAIN logs' PROVE n \in DOMAIN logs /\ n = logfileNumber
      OBVIOUS
    <3>1. n \in DOMAIN logs
      BY <1>7 DEF Fewer
    <3>2. n \in Nat /\ n <= logfileNumber /\ n >= logfileNumber
      BY <3>1, <1>4, <1>6, <1>7
    <3> QED BY <3>1, <3>2, <1>4
  <2>3. DOMAIN tables' \subseteq DOMAIN tables /\ logs'[logfileNumber] = logs[logfileNumber]
    BY <2>1, <1>7 DEF Fewer
  <2> QED BY <2>1, <2>2, <2>3
<1>10. ToSet(logs'[logfileNumber].recs) = {}
    BY <1>6, <1>9 DEF ToSet
<1>11. \A f \in FilesOf(ver) : /\ f \in DOMAIN tables' /\ tables'[f] = tables[f]
                              /\ UpTo(tables[f], lastSequence)
  <2>1. FilesOf(ver) \subseteq DOMAIN tables /\ \A f \in FilesOf(ver) : UpTo(tables[f], lastSequence)
    BY <1>1, <1>3 DEF DBInv, VersionsInv, SequenceInv
  <2> QED BY <2>1, <1>7 DEF Fewer
<1>12. /\ m \in Descriptor /\ m.files = ver /\ m.log = logfileNumber /\ m.next = nextFile
       /\ m.seq = lastSequence
    BY <1>4, <1>5, <1>6 DEF Descriptor
<1> HIDE DEF m, ver, log
<1>13. /\ manifest' \in Seq(Descriptor) \ {<<>>} /\ Last(manifest') = m
       /\ DOMAIN manifest' = {1} /\ manifest'[1] = m /\ Len(manifest') = 1
    BY <1>1, <1>12, OneRecord
<1>14. \A h \in hist : h.log < logfileNumber /\ UpTo(h.ents, lastSequence)
    BY <1>1 DEF DBInv, BatchesInv, SequenceInv
<1>15. TypeOK'
  <2>1. DOMAIN tables' \subseteq FileNumber /\ DOMAIN logs' \subseteq FileNumber
    BY <1>4, <1>9 DEF TypeOK
  <2> QED BY <2>1, <1>1, <1>2, <1>4, <1>5, <1>8, <1>13 DEF TypeOK
<1>16. Unused'
    BY <1>1 DEF Unused
<1>17. DescriptorsInv'
  <2>1. DescriptorOK(m, tables')
    BY <1>6, <1>11, <1>12 DEF DescriptorOK
  <2>2. \A j \in 1..1 : j = 1
    OBVIOUS
  <2>3. m.next <= m.next
    BY <1>4, <1>12
  <2> QED BY <2>1, <2>2, <2>3, <1>13 DEF DescriptorsInv, DescriptorsOK
<1>18. NumbersInv'
  <2>1. \A f \in DOMAIN tables' : f < nextFile
    BY <1>6, <1>7
  <2>2. \A n \in DOMAIN logs' : n <= logfileNumber
    BY <1>4, <1>9
  <2>3. logfileNumber <= logfileNumber /\ nextFile <= nextFile
    BY <1>4
  <2> QED BY <2>1, <2>2, <2>3, <1>1, <1>2, <1>6, <1>9, <1>12, <1>13 DEF NumbersInv
<1>19. VersionsInv'
    BY <1>1, <1>2, <1>3, <1>11, <1>12, <1>13 DEF VersionsInv
<1>20. BatchesInv'
  <2>1. \A h \in hist : BatchOK(h, m, logs', tables')
    BY <1>12, <1>14 DEF BatchOK
  <2> QED BY <2>1, <1>1, <1>2, <1>6, <1>13, <1>14 DEF BatchesInv
<1>21. RecordsInv'
    BY <1>9, <1>10 DEF RecordsInv
<1>22. SequenceInv'
  <2>1. UpTo({}, lastSequence)
    BY DEF UpTo
  <2>2. \A f \in DOMAIN tables' : UpTo(tables'[f], lastSequence)
    BY <1>7, <1>11
  <2>3. \A n \in DOMAIN logs' : \A e \in ToSet(logs'[n].recs) : UpTo(e, lastSequence)
    BY <1>9, <1>10
  <2> QED BY <2>1, <2>2, <2>3, <1>1, <1>2, <1>3, <1>14 DEF SequenceInv
<1>23. WriterInv'
    BY <1>2, <1>3 DEF WriterInv
<1>24. DurableInv'
  <2>1. \A d \in durable : \E h \in hist : h.ents = d
    BY DEF DBInv, DurableInv
  <2>2. \A h \in hist : h.log < log /\ DurableOK(h, m, logs', tables')
    BY <1>6, <1>12, <1>14 DEF DurableOK
  <2> QED BY <2>1, <2>2, <1>1, <1>2, <1>13 DEF DurableInv
<1> QED BY <1>15, <1>16, <1>17, <1>18, <1>19, <1>20, <1>21, <1>22, <1>23, <1>24 DEF DBInv

\* A version with new files at level 0.
LEMMA LevelZeroFiles ==
    ASSUME NEW v \in Version, NEW new \in SUBSET FileNumber, NEW u, u = [v EXCEPT ![0] = @ \union new]
    PROVE  u \in Version /\ FilesOf(u) = FilesOf(v) \union new
<1>1. 0 \in Level
    BY LevelAssumption DEF Level
<1>2. u \in Version
    BY <1>1 DEF Version
<1>3. \A l \in Level : u[l] = IF l = 0 THEN v[0] \union new ELSE v[l]
    BY DEF Version
<1>4. \A f : f \in FilesOf(u) <=> f \in FilesOf(v) \/ f \in new
  <2> SUFFICES ASSUME NEW f PROVE f \in FilesOf(u) <=> f \in FilesOf(v) \/ f \in new
    OBVIOUS
  <2>1. (f \in FilesOf(u) <=> \E l \in Level : f \in u[l]) /\ (f \in FilesOf(v) <=> \E l \in Level : f \in v[l])
    BY FilesOfMember
  <2> QED BY <2>1, <1>1, <1>3
<1> QED BY <1>2, <1>4

\* The last descriptor, and those before it.
LEMMA LastDescriptor ==
    ASSUME DBInv
    PROVE  /\ Last(manifest) \in Descriptor /\ DescriptorOK(Last(manifest), tables)
           /\ \E i \in DOMAIN manifest : Last(manifest) = manifest[i]
           /\ Last(manifest).log \in Nat /\ Last(manifest).next \in Nat /\ Last(manifest).seq \in 0..MaxSeq
           /\ \A i \in DOMAIN manifest : /\ manifest[i].next \in Nat
                                         /\ manifest[i].next <= Last(manifest).next
<1>1. TypeOK
    BY DEF DBInv
<1>2. /\ manifest \in Seq(Descriptor) \ {<<>>}
      /\ \A i \in DOMAIN manifest : manifest[i] \in Descriptor /\ manifest[i].log \in Nat /\ manifest[i].next \in Nat
    BY <1>1, DiskTypes
<1>3. /\ Len(manifest) \in Nat /\ DOMAIN manifest = 1..Len(manifest) /\ Len(manifest) \in DOMAIN manifest
      /\ Last(manifest) = manifest[Len(manifest)]
    BY <1>2, LastOf
<1>4. DescriptorsOK(manifest, tables)
    BY DEF DBInv, DescriptorsInv
<1>5. \A i \in DOMAIN manifest : Len(manifest) \in i..Len(manifest)
    BY <1>3
<1>6. \A i \in DOMAIN manifest : manifest[i].next <= manifest[Len(manifest)].next
    BY <1>4, <1>5 DEF DescriptorsOK
<1>7. DescriptorOK(manifest[Len(manifest)], tables)
    BY <1>3, <1>4 DEF DescriptorsOK
<1>8. manifest[Len(manifest)].seq \in 0..MaxSeq
    BY <1>2, <1>3 DEF Descriptor
<1> QED BY <1>2, <1>3, <1>6, <1>7, <1>8

\* The logs that recovery reads, and the last sequence number it finds.
NewerLogs == {n \in DOMAIN logs : n >= Last(manifest).log}
FoundSequence == Max({Last(manifest).seq} \union
                     {e.seq : e \in UNION UNION {ToSet(logs[n].recs) : n \in NewerLogs}})

\* No record that is read and no table has a larger one.
LEMMA FoundOK ==
    ASSUME DBInv
    PROVE  /\ FoundSequence \in 0..MaxSeq /\ Last(manifest).seq <= FoundSequence
           /\ \A n \in NewerLogs : \A r \in ToSet(logs[n].recs) : UpTo(r, FoundSequence)
<1> DEFINE all == UNION UNION {ToSet(logs[n].recs) : n \in NewerLogs}
           seqs == {e.seq : e \in all}
           S == {Last(manifest).seq} \union seqs
<1>1. Last(manifest).seq \in 0..MaxSeq /\ MaxSeq \in Nat
    BY LastDescriptor, SeqAssumption
<1>2. \A n \in NewerLogs : \A r \in ToSet(logs[n].recs) : r \in SUBSET Entry
  <2>1. logs \in [DOMAIN logs -> LogFile]
    BY DEF DBInv, TypeOK
  <2>2. \A n \in NewerLogs : logs[n] \in LogFile
    BY <2>1 DEF NewerLogs
  <2> QED BY <2>2, LogTypes, BatchEntries
<1>3. all \in SUBSET Entry
    BY <1>2
<1>4. \A e \in Entry : e.seq \in 0..MaxSeq
    BY <1>1 DEF Entry
<1>5. S \in SUBSET (0..MaxSeq) /\ S # {}
  <2> HIDE DEF all
  <2> QED BY <1>1, <1>3, <1>4
<1>6. FoundSequence = Max(S)
    BY Zenon DEF FoundSequence
<1>7. \A n \in NewerLogs : \A r \in ToSet(logs[n].recs) : \A e \in r : e \in all
    OBVIOUS
<1>8. \A e \in all : e.seq \in S
  <2> HIDE DEF all
  <2> QED OBVIOUS
<1>9. Last(manifest).seq \in S
    OBVIOUS
<1> HIDE DEF S, all
<1>10. Max(S) \in S /\ \A x \in S : x <= Max(S)
    BY <1>1, <1>5, MaxOfBounded
<1>11. \A n \in NewerLogs : \A r \in ToSet(logs[n].recs) : UpTo(r, FoundSequence)
    BY <1>6, <1>7, <1>8, <1>10 DEF UpTo
<1> QED BY <1>5, <1>6, <1>9, <1>10, <1>11

\* Each batch is found at the latest there.
LEMMA HistFound ==
    ASSUME DBInv, NEW h \in hist
    PROVE  UpTo(h.ents, FoundSequence)
<1> DEFINE m == Last(manifest)
<1>1. /\ TypeOK /\ h.ents \in SUBSET Entry /\ h.log \in Nat
    BY HistTypes, BatchEntries DEF DBInv
<1>2. m.seq \in Nat /\ FoundSequence \in Nat /\ m.seq <= FoundSequence /\ m.log \in Nat /\ DescriptorOK(m, tables)
    BY FoundOK, LastDescriptor
<1>3. BatchOK(h, m, logs, tables)
    BY LastDescriptor DEF DBInv, BatchesInv
<1> HIDE DEF m
<1>4. CASE h.log < m.log
  <2>1. UpTo(h.ents, m.seq)
    BY <1>3, <1>4 DEF BatchOK
  <2> QED BY <2>1, <1>1, <1>2, UpToMore
<1>5. CASE InTables(tables, h, m)
  <2>1. UpTo(h.ents, m.seq)
    BY <1>2, <1>5 DEF DescriptorOK, InTables, UpTo
  <2> QED BY <2>1, <1>1, <1>2, UpToMore
<1>6. CASE Logged(logs, h) /\ ~(h.log < m.log)
  <2>1. h.log \in NewerLogs /\ h.ents \in ToSet(logs[h.log].recs)
    BY <1>1, <1>2, <1>6 DEF NewerLogs, Logged, m
  <2> QED BY <2>1, FoundOK
<1> QED BY <1>3, <1>4, <1>5, <1>6 DEF BatchOK

\* The logs are read, and the result has room.
RecoverOK(r) ==
    /\ r.next \in Nat /\ r.next \in FileNumber /\ r.next + 1 \in FileNumber
    /\ 0 < r.next /\ Last(manifest).log < r.next /\ \A n \in DOMAIN logs : n < r.next
    /\ r.new \in SUBSET FileNumber
    /\ \A f \in r.new : f < r.next + 1
    /\ \A f \in FilesOf(Last(manifest).files) : f < r.next + 1
    /\ DOMAIN r.tabs = DOMAIN tables \union r.new /\ DOMAIN r.tabs \subseteq FileNumber
    /\ r.tabs \in [DOMAIN r.tabs -> Batch]
    /\ \A i \in DOMAIN manifest : KeepsTables(tables, r.tabs, FilesOf(manifest[i].files))
    /\ \A f \in r.new : UpTo(r.tabs[f], FoundSequence)

LEMMA RecoveredFiles ==
    ASSUME DBInv, NEW cut, CutsOK(cut), NEW r,
           r = RecoverLogs(Last(manifest).next + 1, NewerLogs, cut), r.next < MaxFile
    PROVE  RecoverOK(r)
<1> DEFINE m == Last(manifest)
           start == m.next + 1
           s == FoundSequence
<1>1. /\ TypeOK /\ DOMAIN logs \in SUBSET Nat /\ tables \in [DOMAIN tables -> Batch]
      /\ logs \in [DOMAIN logs -> LogFile] /\ DOMAIN tables \in SUBSET Nat
    BY DiskTypes DEF DBInv
<1>2. /\ m.log \in Nat /\ m.next \in Nat /\ DescriptorOK(m, tables)
      /\ \A i \in DOMAIN manifest : manifest[i].next \in Nat /\ manifest[i].next <= m.next
      /\ \E i \in DOMAIN manifest : m = manifest[i]
    BY LastDescriptor
<1> HIDE DEF m
<1>3. 0 < m.log /\ m.log < m.next
    BY <1>2 DEF DescriptorOK
<1>4. MaxFile \in Nat /\ DOMAIN logs \in SUBSET (0..MaxFile) /\ DOMAIN tables \in SUBSET (0..MaxFile)
    BY <1>1, BoundAssumption DEF TypeOK, FileNumber
<1>5. NewerLogs \in SUBSET (1..MaxFile) /\ NewerLogs \in SUBSET DOMAIN logs
  <2> SUFFICES ASSUME NEW n \in NewerLogs PROVE n \in 1..MaxFile /\ n \in DOMAIN logs
    OBVIOUS
  <2>1. n \in DOMAIN logs /\ n >= m.log
    BY DEF NewerLogs, m
  <2> QED BY <2>1, <1>2, <1>3, <1>4
<1>6. start \in Nat
    BY <1>2
<1>7. \A n \in NewerLogs : logs[n] \in LogFile /\ \A x \in ToSet(logs[n].recs) : UpTo(x, s)
    BY <1>1, <1>5, FoundOK
<1>8. ReadOK(r, start, tables, NewerLogs, MaxFile, s)
  <2>1. r = RecoverLogs(start, NewerLogs, cut)
    BY DEF m
  <2> HIDE DEF start, s
  <2> QED BY <2>1, <1>1, <1>5, <1>6, <1>7, RecoverLogsOK
<1>9. /\ r.next \in Nat /\ start <= r.next
      /\ \A k \in NewerLogs : k <= MaxFile => k < r.next
      /\ \A f \in r.new : f \in Nat /\ start <= f /\ f < r.next
      /\ DOMAIN r.tabs = DOMAIN tables \union r.new
      /\ r.tabs \in [DOMAIN r.tabs -> Batch]
      /\ \A f \in DOMAIN tables : f < start => r.tabs[f] = tables[f]
      /\ \A f \in r.new : UpTo(r.tabs[f], s)
    BY <1>8 DEF ReadOK
<1> HIDE DEF s
<1>10. r.next \in FileNumber /\ r.next + 1 \in FileNumber /\ 0 < r.next /\ m.next < r.next /\ m.log < r.next
    BY <1>2, <1>3, <1>4, <1>9 DEF FileNumber
<1>11. ASSUME NEW n \in DOMAIN logs PROVE n < r.next
  <2>1. n \in Nat /\ n <= MaxFile
    BY <1>4
  <2>2. CASE n < m.log
    BY <2>1, <2>2, <1>2, <1>3, <1>9, <1>10
  <2>3. CASE ~(n < m.log)
    <3>1. n \in NewerLogs
      BY <2>1, <2>3, <1>2 DEF NewerLogs, m
    <3> QED BY <2>1, <3>1, <1>9
  <2> QED BY <2>2, <2>3
<1>12. r.new \in SUBSET FileNumber /\ \A f \in r.new : f < r.next + 1
  <2> SUFFICES ASSUME NEW f \in r.new PROVE f \in FileNumber /\ f < r.next + 1
    OBVIOUS
  <2>1. f \in Nat /\ f < r.next
    BY <1>9
  <2> QED BY <2>1, <1>4, <1>9 DEF FileNumber
<1>13. DOMAIN r.tabs \subseteq FileNumber
    BY <1>4, <1>9, <1>12 DEF FileNumber
<1>14. ASSUME NEW i \in DOMAIN manifest, NEW f \in FilesOf(manifest[i].files)
       PROVE  f \in DOMAIN tables /\ f \in Nat /\ f < start /\ f < r.next + 1
  <2>1. f < manifest[i].next /\ f \in DOMAIN tables
    BY DEF DBInv, DescriptorsInv, DescriptorsOK, DescriptorOK
  <2>2. f \in Nat /\ manifest[i].next \in Nat /\ manifest[i].next <= m.next
    BY <2>1, <1>1, <1>2
  <2> QED BY <2>1, <2>2, <1>2, <1>9, <1>10
<1>15. \A i \in DOMAIN manifest : KeepsTables(tables, r.tabs, FilesOf(manifest[i].files))
    BY <1>9, <1>14 DEF KeepsTables
<1>16. \A f \in FilesOf(m.files) : f < r.next + 1
    BY <1>2, <1>14
<1> QED BY <1>9, <1>10, <1>11, <1>12, <1>13, <1>15, <1>16 DEF RecoverOK, s, m

\* DB::Open reads the MANIFEST and the logs.
LEMMA RecoverInv ==
    ASSUME DBInv, Recover
    PROVE  DBInv'
<1> DEFINE m == Last(manifest)
           long == {n \in NewerLogs : Len(logs[n].recs) > 1}
           s == FoundSequence
<1>1. PICK cut \in [long -> 0..MaxSeq] :
          /\ \A n \in long : cut[n] < Len(logs[n].recs)
          /\ LET r == RecoverLogs(m.next + 1, NewerLogs, cut)
             IN /\ r.next < MaxFile
                /\ tables' = r.tabs
                /\ logs' = NewWritableFile(logs, r.next, EmptyLog)
                /\ logfileNumber' = r.next /\ nextFile' = r.next + 1
                /\ applying' = [what |-> "open", log |-> r.next,
                                ver |-> [m.files EXCEPT ![0] = @ \union r.new]]
          /\ current' = m.files /\ logNumber' = m.log
          /\ lastSequence' = s
    BY Zenon DEF Recover, NewerLogs, FoundSequence
<1> DEFINE R == RecoverLogs(m.next + 1, NewerLogs, cut)
<1> PICK r : r = R
    OBVIOUS
<1>2. /\ r.next < MaxFile /\ tables' = r.tabs
      /\ logs' = NewWritableFile(logs, r.next, EmptyLog)
      /\ logfileNumber' = r.next /\ nextFile' = r.next + 1
      /\ applying' = [what |-> "open", log |-> r.next, ver |-> [m.files EXCEPT ![0] = @ \union r.new]]
      /\ current' = m.files /\ logNumber' = m.log /\ lastSequence' = s
    BY <1>1
<1>3. /\ status = "down" /\ status' = "opening"
      /\ UNCHANGED <<manifest, mem, imm, snapshots, readers, writer, compact, bgError, errors, hist, durable>>
    BY DEF Recover, clients, ghosts
<1>4. CutsOK(cut)
  <2>1. \A n \in long : cut[n] \in Nat
    BY SeqAssumption
  <2> QED BY <2>1, <1>1 DEF CutsOK
<1>5. RecoverOK(r)
    BY <1>2, <1>4, RecoveredFiles
<1> HIDE DEF R, long
<1>6. /\ readers = {} /\ snapshots = {} /\ mem = {} /\ imm = {} /\ writer = None /\ compact = None
      /\ ~bgError /\ applying = None
    BY <1>3 DEF DBInv, Unused
<1>7. TypeOK /\ logs \in [DOMAIN logs -> LogFile]
    BY DEF DBInv, TypeOK
<1>8. /\ r.next \in Nat /\ r.next \in FileNumber /\ r.next + 1 \in FileNumber
      /\ 0 < r.next /\ m.log < r.next /\ \A n \in DOMAIN logs : n < r.next
      /\ r.new \in SUBSET FileNumber
      /\ \A f \in r.new : f < r.next + 1
      /\ \A f \in FilesOf(m.files) : f < r.next + 1
      /\ DOMAIN r.tabs = DOMAIN tables \union r.new /\ DOMAIN r.tabs \subseteq FileNumber
      /\ r.tabs \in [DOMAIN r.tabs -> Batch]
      /\ \A i \in DOMAIN manifest : KeepsTables(tables, r.tabs, FilesOf(manifest[i].files))
      /\ \A f \in r.new : UpTo(r.tabs[f], s)
    BY <1>5 DEF RecoverOK
<1>9. /\ m \in Descriptor /\ DescriptorOK(m, tables) /\ \E i \in DOMAIN manifest : m = manifest[i]
      /\ m.log \in FileNumber /\ m.files \in Version /\ m.seq \in Nat
  <2>1. m \in Descriptor /\ DescriptorOK(m, tables) /\ \E i \in DOMAIN manifest : m = manifest[i]
    BY LastDescriptor
  <2> HIDE DEF m
  <2> QED BY <2>1, SeqAssumption DEF Descriptor
<1>10. s \in 0..MaxSeq /\ m.seq <= s /\ s \in Nat
    BY FoundOK, SeqAssumption
<1> DEFINE ver == [m.files EXCEPT ![0] = @ \union r.new]
<1>11. ver \in Version /\ FilesOf(ver) = FilesOf(m.files) \union r.new
  <2> HIDE DEF m
  <2> QED BY <1>8, <1>9, LevelZeroFiles
<1>12. applying' = [what |-> "open", log |-> r.next, ver |-> ver]
    BY <1>2
<1> HIDE DEF ver, m, s
<1>13. applying' \in Edit /\ applying'.ver = ver /\ applying'.log = r.next /\ applying' # None
  <2>1. applying' \in Edit /\ applying'.ver = ver /\ applying'.log = r.next
    BY <1>8, <1>11, <1>12 DEF Edit
  <2> QED BY <2>1, NoneAssumption
<1>14. /\ DOMAIN logs' = DOMAIN logs \union {r.next} /\ logs' \in [DOMAIN logs' -> LogFile]
       /\ KeepsLogs(logs, logs') /\ \A k \in DOMAIN logs : logs'[k] = logs[k]
       /\ logs'[r.next].recs = <<>> /\ ToSet(logs'[r.next].recs) = {}
  <2>1. r.next \notin DOMAIN logs /\ logs' = NewWritableFile(logs, r.next, EmptyLog)
    BY <1>2, <1>8
  <2>2. Created(logs, logs', r.next)
    BY <2>1, <1>7, LogCreated, Zenon
  <2> QED BY <2>2 DEF Created
<1>15. KeepsTables(tables, tables', FilesOf(m.files))
    BY <1>2, <1>8, <1>9
<1>16. TypeOK'
  <2>1. DOMAIN logs' \subseteq FileNumber /\ DOMAIN tables' \subseteq FileNumber
    BY <1>2, <1>7, <1>8, <1>14 DEF TypeOK
  <2>2. tables' \in [DOMAIN tables' -> Batch]
    BY <1>2, <1>8
  <2>3. /\ logfileNumber' \in FileNumber /\ nextFile' \in FileNumber /\ logNumber' \in FileNumber
        /\ lastSequence' \in 0..MaxSeq /\ current' \in Version
    BY <1>2, <1>8, <1>9, <1>10
  <2> QED BY <2>1, <2>2, <2>3, <1>3, <1>7, <1>13, <1>14 DEF TypeOK
<1>17. Unused'
    BY <1>3, <1>6, <1>13 DEF Unused
<1>18. DescriptorsInv'
  <2>1. DescriptorsOK(manifest, tables')
    BY <1>2, <1>8, DescriptorsKept DEF DBInv, DescriptorsInv
  <2> QED BY <2>1, <1>3 DEF DescriptorsInv
<1>19. NumbersInv'
  <2>1. \A n \in DOMAIN logs' : n <= r.next
    <3>1. DOMAIN logs \in SUBSET Nat
      BY <1>7, DiskTypes
    <3> QED BY <3>1, <1>8, <1>14
  <2>2. \A f \in FilesOf(ver) : f < r.next + 1
    BY <1>8, <1>11
  <2>3. r.next < r.next + 1
    BY <1>8
  <2> QED BY <2>1, <2>2, <2>3, <1>2, <1>3, <1>8, <1>13, <1>14 DEF NumbersInv
<1>20. VersionsInv'
  <2>1. FilesOf(m.files) \subseteq DOMAIN tables'
    BY <1>15 DEF KeepsTables
  <2>2. FilesOf(ver) \subseteq DOMAIN tables'
    BY <2>1, <1>2, <1>8, <1>11
  <2> QED BY <2>1, <2>2, <1>2, <1>3, <1>6, <1>13 DEF VersionsInv
<1>21. BatchesInv'
  <2>1. ASSUME NEW h \in hist, NEW i \in DOMAIN manifest PROVE BatchOK(h, manifest[i], logs', tables')
    <3>1. BatchOK(h, manifest[i], logs, tables)
      BY DEF DBInv, BatchesInv
    <3>2. KeepsTables(tables, tables', FilesOf(manifest[i].files))
      BY <1>2, <1>8
    <3> QED BY <3>1, <3>2, <1>14, BatchKept
  <2>2. ASSUME NEW h \in hist PROVE h.log < r.next
    <3>1. BatchOK(h, m, logs, tables)
      BY <1>9 DEF DBInv, BatchesInv
    <3>2. h.log < m.log \/ h.log \in DOMAIN logs
      BY <3>1 DEF BatchOK
    <3>3. h.log \in Nat
      BY <1>7, HistTypes
    <3>4. m.log \in Nat
      BY LastDescriptor DEF m
    <3> QED BY <3>2, <3>3, <3>4, <1>8
  <2> QED BY <2>1, <2>2, <1>2, <1>3 DEF BatchesInv
<1>22. \A n \in DOMAIN logs' : \A e \in ToSet(logs'[n].recs) : [ents |-> e, log |-> n] \in hist
  <2>1. \A n \in DOMAIN logs : \A e \in ToSet(logs[n].recs) : [ents |-> e, log |-> n] \in hist
    BY <1>3 DEF DBInv, RecordsInv
  <2> QED BY <2>1, <1>14
<1>23. RecordsInv'
  <2>1. hist' = hist
    BY <1>3
  <2> QED BY <2>1, <1>22 DEF RecordsInv
<1>24. SequenceInv'
  <2>1. \A h \in hist : UpTo(h.ents, s)
    BY HistFound DEF s
  <2>2. \A n \in DOMAIN logs' : \A e \in ToSet(logs'[n].recs) : UpTo(e, s)
    <3> SUFFICES ASSUME NEW n \in DOMAIN logs', NEW e \in ToSet(logs'[n].recs) PROVE UpTo(e, s)
      OBVIOUS
    <3>1. [ents |-> e, log |-> n] \in hist
      BY <1>22
    <3> QED BY <3>1, <2>1
  <2>3. \A f \in FilesOf(ver) : UpTo(tables'[f], s)
    <3>1. ASSUME NEW f \in FilesOf(m.files) PROVE UpTo(tables'[f], s)
      <4>1. UpTo(tables[f], m.seq) /\ tables'[f] = tables[f] /\ f \in DOMAIN tables
        BY <1>9, <1>15 DEF DescriptorOK, KeepsTables
      <4>2. tables[f] \in SUBSET Entry
        BY <4>1, <1>7, BatchEntries DEF TypeOK
      <4> QED BY <4>1, <4>2, <1>9, <1>10, UpToMore
    <3> QED BY <3>1, <1>2, <1>8, <1>11
  <2> QED BY <2>1, <2>2, <2>3, <1>2, <1>3, <1>13 DEF SequenceInv
<1>25. WriterInv'
    BY <1>3, <1>6 DEF WriterInv
<1>26. DurableInv'
  <2>1. ASSUME NEW d \in durable
        PROVE  \E h \in hist : /\ h.ents = d
                               /\ \A i \in DOMAIN manifest : DurableOK(h, manifest[i], logs', tables')
    <3>1. PICK h \in hist : /\ h.ents = d
                            /\ \A i \in DOMAIN manifest : DurableOK(h, manifest[i], logs, tables)
      BY DEF DBInv, DurableInv
    <3>2. \A i \in DOMAIN manifest : KeepsTables(tables, tables', FilesOf(manifest[i].files))
      BY <1>2, <1>8
    <3>3. \A i \in DOMAIN manifest : DurableOK(h, manifest[i], logs', tables')
      BY <3>1, <3>2, <1>7, <1>14, DurableKept
    <3> QED BY <3>1, <3>3
  <2> QED BY <2>1, <1>3 DEF DurableInv
<1> QED BY <1>16, <1>17, <1>18, <1>19, <1>20, <1>21, <1>23, <1>24, <1>25, <1>26 DEF DBInv

\* What the end of the process or of the machine leaves of logs L.
Survive(L, K, machine) ==
    /\ DOMAIN K = DOMAIN L /\ K \in [DOMAIN K -> LogFile]
    /\ \A n \in DOMAIN L : /\ L[n].synced <= K[n].synced
                           /\ \A i \in DOMAIN K[n].recs : i \in DOMAIN L[n].recs /\ K[n].recs[i] = L[n].recs[i]
                           /\ machine => K[n].synced = Len(K[n].recs)
    /\ ~machine => K = L

\* A prefix of a log that holds its synced part.
LEMMA LogCut ==
    ASSUME NEW l \in LogFile, NEW k \in l.synced..Len(l.recs), NEW c, c = [recs |-> SubSeq(l.recs, 1, k), synced |-> k]
    PROVE  /\ c \in LogFile /\ l.synced <= c.synced /\ c.synced = Len(c.recs)
           /\ \A i \in DOMAIN c.recs : i \in DOMAIN l.recs /\ c.recs[i] = l.recs[i]
<1>1. /\ l.recs \in Seq(Batch) /\ l.synced \in Nat /\ Len(l.recs) \in Nat
      /\ DOMAIN l.recs = 1..Len(l.recs)
    BY LogTypes
<1>2. k \in Nat /\ k <= Len(l.recs) /\ l.synced <= k
    BY <1>1
<1> DEFINE p == SubSeq(l.recs, 1, k)
<1>3. p \in Seq(Batch) /\ Len(p) = k /\ DOMAIN p = 1..k /\ \A i \in 1..k : p[i] = l.recs[i]
    BY <1>1, <1>2
<1> HIDE DEF p
<1>4. c = [recs |-> p, synced |-> k] /\ c.recs = p /\ c.synced = k
    BY DEF p
<1>5. c \in LogFile
    BY <1>2, <1>3, <1>4 DEF LogFile
<1> QED BY <1>1, <1>2, <1>3, <1>4, <1>5

\* What a stop leaves on the disk.
LEMMA StopDisk ==
    ASSUME DBInv, NEW machine \in BOOLEAN, Stop(machine)
    PROVE  /\ Survive(logs, logs', machine)
           /\ \E i \in DOMAIN manifest :
                 /\ Last(manifest') = manifest[i]
                 /\ manifest' = IF machine THEN <<manifest[i]>> ELSE manifest
<1> DEFINE loose == {n \in DOMAIN logs : machine /\ logs[n].synced < Len(logs[n].recs)}
<1>1. PICK keep \in [loose -> 0..MaxSeq], i \in 1..Len(manifest) :
            /\ \A n \in loose : keep[n] \in logs[n].synced .. Len(logs[n].recs)
            /\ ~machine => i = Len(manifest)
            /\ logs' = [n \in DOMAIN logs |->
                          IF n \in loose
                          THEN [recs |-> Prefix(logs[n].recs, keep[n]), synced |-> keep[n]]
                          ELSE logs[n]]
            /\ manifest' = IF machine THEN <<manifest[i]>> ELSE manifest
    BY Zenon DEF Stop
<1>2. logs \in [DOMAIN logs -> LogFile] /\ manifest \in Seq(Descriptor) \ {<<>>}
    BY DEF DBInv, TypeOK
<1>3. /\ DOMAIN manifest = 1..Len(manifest) /\ Last(manifest) = manifest[Len(manifest)]
      /\ \A j \in DOMAIN manifest : manifest[j] \in Descriptor
    BY <1>2, LastOf
<1>4. Last(manifest') = manifest[i]
  <2>1. CASE machine
    <3>1. manifest' = <<manifest[i]>>
      BY <1>1, <2>1
    <3> QED BY <3>1, <1>3, OneRecord
  <2>2. CASE ~machine
    BY <1>1, <1>3, <2>2
  <2> QED BY <2>1, <2>2
<1>5. ASSUME NEW n \in DOMAIN logs
      PROVE  /\ logs'[n] \in LogFile /\ logs[n].synced <= logs'[n].synced
             /\ \A j \in DOMAIN logs'[n].recs : j \in DOMAIN logs[n].recs /\ logs'[n].recs[j] = logs[n].recs[j]
             /\ machine => logs'[n].synced = Len(logs'[n].recs)
  <2>1. logs[n] \in LogFile
    BY <1>2
  <2>2. logs[n].synced \in Nat /\ Len(logs[n].recs) \in Nat /\ logs[n].synced <= Len(logs[n].recs)
    BY <2>1, LogTypes
  <2>3. CASE n \in loose
    <3>1. logs'[n] = [recs |-> SubSeq(logs[n].recs, 1, keep[n]), synced |-> keep[n]]
      BY <1>1, <2>3 DEF Prefix
    <3>2. keep[n] \in logs[n].synced .. Len(logs[n].recs)
      BY <1>1, <2>3
    <3> HIDE DEF loose
    <3> QED BY <2>1, <3>1, <3>2, LogCut
  <2>4. CASE n \notin loose
    <3>1. logs'[n] = logs[n]
      BY <1>1, <2>4
    <3>2. machine => logs[n].synced = Len(logs[n].recs)
      BY <2>2, <2>4
    <3> QED BY <2>1, <2>2, <3>1, <3>2
  <2> QED BY <2>3, <2>4
<1>6. DOMAIN logs' = DOMAIN logs /\ logs' = [n \in DOMAIN logs |-> logs'[n]]
    BY <1>1
<1>7. ~machine => logs' = logs
  <2> SUFFICES ASSUME ~machine PROVE logs' = logs
    OBVIOUS
  <2>1. loose = {}
    OBVIOUS
  <2>2. logs' = [n \in DOMAIN logs |-> logs[n]]
    BY <1>1, <2>1
  <2> QED BY <2>2, <1>2
<1>8. logs' \in [DOMAIN logs' -> LogFile]
    BY <1>5, <1>6
<1>9. Survive(logs, logs', machine)
    BY <1>5, <1>6, <1>7, <1>8 DEF Survive
<1>10. i \in DOMAIN manifest /\ manifest' = IF machine THEN <<manifest[i]>> ELSE manifest
    BY <1>1, <1>3
<1> QED BY <1>4, <1>9, <1>10

\* Records that survive were there, and what was synced survives.
LEMMA WhatSurvives ==
    ASSUME NEW L, L \in [DOMAIN L -> LogFile], NEW K, NEW machine \in BOOLEAN, Survive(L, K, machine)
    PROVE  /\ \A n \in DOMAIN L : ToSet(K[n].recs) \subseteq ToSet(L[n].recs)
           /\ \A h : Logged(K, h) => Logged(L, h)
           /\ \A h : Synced(L, h) => Synced(K, h)
           /\ machine => \A h : Logged(K, h) => Synced(K, h)
<1>1. DOMAIN K = DOMAIN L /\ K \in [DOMAIN K -> LogFile]
    BY DEF Survive
<1>2. \A n \in DOMAIN L : /\ L[n].synced <= K[n].synced
                           /\ \A i \in DOMAIN K[n].recs : i \in DOMAIN L[n].recs /\ K[n].recs[i] = L[n].recs[i]
    BY DEF Survive
<1>3. \A n \in DOMAIN L : /\ L[n].synced \in Nat /\ K[n].synced \in Nat
                          /\ DOMAIN K[n].recs = 1..Len(K[n].recs) /\ Len(K[n].recs) \in Nat
                          /\ K[n].synced <= Len(K[n].recs)
    BY <1>1, LogTypes
<1>4. \A n \in DOMAIN L : ToSet(K[n].recs) \subseteq ToSet(L[n].recs)
  <2> SUFFICES ASSUME NEW n \in DOMAIN L, NEW e \in ToSet(K[n].recs) PROVE e \in ToSet(L[n].recs)
    OBVIOUS
  <2>1. PICK i \in DOMAIN K[n].recs : K[n].recs[i] = e
    BY DEF ToSet
  <2>2. i \in DOMAIN L[n].recs /\ L[n].recs[i] = e
    BY <2>1, <1>2
  <2> QED BY <2>2 DEF ToSet
<1>5. \A h : Logged(K, h) => Logged(L, h)
    BY <1>1, <1>4 DEF Logged
<1>6. ASSUME NEW h, Synced(L, h) PROVE Synced(K, h)
  <2>1. h.log \in DOMAIN L
    BY <1>6 DEF Synced
  <2>2. PICK i \in 1..L[h.log].synced : L[h.log].recs[i] = h.ents
    BY <1>6 DEF Synced
  <2>3. i \in 1..K[h.log].synced /\ i \in DOMAIN K[h.log].recs
    BY <2>1, <2>2, <1>2, <1>3
  <2>4. K[h.log].recs[i] = h.ents /\ h.log \in DOMAIN K
    BY <2>1, <2>2, <2>3, <1>1, <1>2
  <2> QED BY <2>3, <2>4 DEF Synced
<1>7. machine => \A n \in DOMAIN L : K[n].synced = Len(K[n].recs)
    BY DEF Survive
<1>8. ASSUME machine, NEW h, Logged(K, h) PROVE Synced(K, h)
  <2>1. h.log \in DOMAIN L /\ h.log \in DOMAIN K /\ h.ents \in ToSet(K[h.log].recs)
    BY <1>1, <1>8 DEF Logged
  <2>2. PICK i \in DOMAIN K[h.log].recs : K[h.log].recs[i] = h.ents
    BY <2>1 DEF ToSet
  <2>3. K[h.log].synced = Len(K[h.log].recs) /\ DOMAIN K[h.log].recs = 1..Len(K[h.log].recs)
    BY <2>1, <1>3, <1>8, <1>7
  <2> QED BY <2>1, <2>2, <2>3 DEF Synced
<1> QED BY <1>4, <1>5, <1>6, <1>8

\* The batches that are found after a stop.
LEMMA StopHist ==
    ASSUME DBInv, NEW machine \in BOOLEAN, Stop(machine), NEW m, m = Last(manifest')
    PROVE  /\ \A h \in hist : h.log < m.log \/ InTables(tables, h, m) => h \in hist'
           /\ \A n \in DOMAIN logs : n >= m.log =>
                 \A e \in ToSet(logs'[n].recs) : [ents |-> e, log |-> n] \in hist'
           /\ \A h \in hist' :
                 \/ h \in hist /\ (h.log < m.log \/ InTables(tables, h, m))
                 \/ \E n \in DOMAIN logs : \E e \in ToSet(logs'[n].recs) :
                       n >= m.log /\ h = [ents |-> e, log |-> n]
<1> DEFINE old == {h \in hist : h.log < m.log \/ InTables(tables, h, m)}
           newer == {l \in DOMAIN logs : l >= m.log}
           recs(n) == {[ents |-> logs'[n].recs[i], log |-> n] : i \in DOMAIN logs'[n].recs}
           all == UNION {recs(n) : n \in newer}
<1>1. hist' = old \union all
    BY Zenon DEF Stop
<1>2. \A h : h \in all <=> \E n \in newer : h \in recs(n)
    OBVIOUS
<1>3. \A n \in newer : \A h : h \in recs(n) <=> \E e \in ToSet(logs'[n].recs) : h = [ents |-> e, log |-> n]
    BY DEF ToSet
<1> HIDE DEF all, recs
<1>4. \A h : h \in hist' <=> h \in old \/ \E n \in newer : \E e \in ToSet(logs'[n].recs) : h = [ents |-> e, log |-> n]
    BY <1>1, <1>2, <1>3
<1> QED BY <1>4

\* A batch that rests on the tables or on synced records is found again.
LEMMA DurableFound ==
    ASSUME DBInv, NEW machine \in BOOLEAN, Stop(machine), NEW h \in hist,
           DurableOK(h, Last(manifest'), logs, tables)
    PROVE  h \in hist'
<1> PICK m : m = Last(manifest')
    OBVIOUS
<1>1. logs \in [DOMAIN logs -> LogFile] /\ h.log \in Nat /\ h = [ents |-> h.ents, log |-> h.log]
    BY HistTypes DEF DBInv, TypeOK
<1>2. Survive(logs, logs', machine) /\ \E i \in DOMAIN manifest : m = manifest[i]
    BY StopDisk
<1>3. m.log \in Nat
    BY <1>2, DiskTypes DEF DBInv
<1>4. CASE h.log < m.log \/ InTables(tables, h, m)
    BY <1>4, StopHist
<1>5. CASE Synced(logs, h) /\ ~(h.log < m.log)
  <2>1. Synced(logs', h) /\ logs' \in [DOMAIN logs' -> LogFile] /\ DOMAIN logs' = DOMAIN logs
    BY <1>1, <1>2, <1>5, WhatSurvives DEF Survive
  <2>2. Logged(logs', h)
    BY <2>1, SyncedLogged
  <2>3. h.log \in DOMAIN logs /\ h.ents \in ToSet(logs'[h.log].recs) /\ h.log >= m.log
    BY <2>1, <2>2, <1>1, <1>3, <1>5 DEF Logged
  <2> QED BY <2>3, <1>1, StopHist
<1> QED BY <1>4, <1>5 DEF DurableOK

\* The process or the machine stops.
LEMMA StopInv ==
    ASSUME DBInv, NEW machine \in BOOLEAN, Stop(machine)
    PROVE  DBInv'
<1> PICK m : m = Last(manifest')
    OBVIOUS
<1>1. /\ status # "down" /\ status' = "down"
      /\ durable' = IF machine THEN {h.ents : h \in hist'} ELSE durable
      /\ mem' = {} /\ imm' = {} /\ snapshots' = {} /\ readers' = {}
      /\ writer' = None /\ compact' = None /\ applying' = None
      /\ logfileNumber' = 0 /\ logNumber' = 0 /\ nextFile' = 0 /\ lastSequence' = 0
      /\ current' = NoFiles /\ bgError' = FALSE /\ tables' = tables /\ errors' = errors
    BY Zenon DEF Stop
<1>2. /\ TypeOK /\ logs \in [DOMAIN logs -> LogFile] /\ manifest \in Seq(Descriptor) \ {<<>>}
      /\ DOMAIN logs \in SUBSET Nat /\ DOMAIN logs \subseteq FileNumber /\ logfileNumber \in Nat
      /\ \A i \in DOMAIN manifest : manifest[i] \in Descriptor /\ manifest[i].log \in Nat
    BY DiskTypes DEF DBInv, TypeOK
<1>3. Survive(logs, logs', machine)
    BY StopDisk
<1>4. PICK k \in DOMAIN manifest : m = manifest[k] /\ manifest' = IF machine THEN <<manifest[k]>> ELSE manifest
    BY StopDisk
<1>5. m \in Descriptor /\ m.log \in Nat
    BY <1>2, <1>4
<1>6. /\ DOMAIN logs' = DOMAIN logs /\ logs' \in [DOMAIN logs' -> LogFile]
      /\ ~machine => logs' = logs
    BY <1>3 DEF Survive
<1>7. /\ \A n \in DOMAIN logs : ToSet(logs'[n].recs) \subseteq ToSet(logs[n].recs)
      /\ \A h : Logged(logs', h) => Logged(logs, h)
      /\ \A h : Synced(logs, h) => Synced(logs', h)
      /\ machine => \A h : Logged(logs', h) => Synced(logs', h)
    BY <1>2, <1>3, WhatSurvives
<1>8. /\ \A h \in hist : h.log < m.log \/ InTables(tables, h, m) => h \in hist'
      /\ \A n \in DOMAIN logs : n >= m.log =>
            \A e \in ToSet(logs'[n].recs) : [ents |-> e, log |-> n] \in hist'
      /\ \A h \in hist' :
            \/ h \in hist /\ (h.log < m.log \/ InTables(tables, h, m))
            \/ \E n \in DOMAIN logs : \E e \in ToSet(logs'[n].recs) :
                  n >= m.log /\ h = [ents |-> e, log |-> n]
    BY StopHist
<1>9. /\ manifest' \in Seq(Descriptor) \ {<<>>}
      /\ machine => DOMAIN manifest' = {1} /\ manifest'[1] = m /\ Len(manifest') = 1
      /\ ~machine => manifest' = manifest
      /\ \A i \in DOMAIN manifest' : \E j \in DOMAIN manifest : manifest'[i] = manifest[j]
  <2>1. CASE machine
    <3>1. manifest' = <<m>>
      BY <2>1, <1>4
    <3>2. manifest' \in Seq(Descriptor) \ {<<>>} /\ DOMAIN manifest' = {1} /\ manifest'[1] = m /\ Len(manifest') = 1
      BY <3>1, <1>5, OneRecord
    <3> QED BY <2>1, <3>2, <1>4
  <2>2. CASE ~machine
    BY <2>2, <1>2, <1>4
  <2> QED BY <2>1, <2>2
<1>10. ASSUME NEW h \in hist'
       PROVE  h \in [ents : Batch, log : FileNumber]
  <2>1. CASE h \in hist
    BY <2>1, <1>2 DEF TypeOK
  <2>2. CASE \E n \in DOMAIN logs : \E e \in ToSet(logs'[n].recs) : h = [ents |-> e, log |-> n]
    <3>1. PICK n \in DOMAIN logs : \E e \in ToSet(logs'[n].recs) : h = [ents |-> e, log |-> n]
      BY <2>2
    <3>2. ToSet(logs'[n].recs) \in SUBSET Batch
      BY <1>6, LogTypes
    <3> QED BY <3>1, <3>2, <1>2
  <2> QED BY <2>1, <2>2, <1>8
<1>11. TypeOK'
  <2>1. 0 \in FileNumber /\ NoFiles \in Version /\ 0 \in 0..MaxSeq
    BY BoundAssumption, SeqAssumption DEF FileNumber, Version, NoFiles
  <2>2. durable' \in SUBSET Batch
    <3>1. durable \in SUBSET Batch
      BY <1>2 DEF TypeOK
    <3>2. {h.ents : h \in hist'} \in SUBSET Batch
      BY <1>10
    <3> QED BY <3>1, <3>2, <1>1
  <2>3. hist' \in SUBSET [ents : Batch, log : FileNumber]
    BY <1>10
  <2> QED BY <2>1, <2>2, <2>3, <1>1, <1>2, <1>6, <1>9 DEF TypeOK
<1>12. Unused'
    BY <1>1 DEF Unused
<1>13. DescriptorsInv'
  <2>1. DescriptorsOK(manifest, tables)
    BY DEF DBInv, DescriptorsInv
  <2>2. CASE machine
    <3>1. DescriptorOK(m, tables)
      BY <2>1, <1>4 DEF DescriptorsOK
    <3>2. \A j \in 1..1 : j = 1
      OBVIOUS
    <3>3. m.next <= m.next
      BY <1>5, BoundAssumption DEF Descriptor, FileNumber
    <3> QED BY <2>2, <3>1, <3>2, <3>3, <1>1, <1>9 DEF DescriptorsInv, DescriptorsOK
  <2>3. CASE ~machine
    BY <2>1, <2>3, <1>1, <1>9 DEF DescriptorsInv
  <2> QED BY <2>2, <2>3
<1>14. NumbersInv'
    BY <1>1 DEF NumbersInv
<1>15. VersionsInv'
  <2>1. FilesOf(NoFiles) = {}
    BY DEF FilesOf, NoFiles
  <2> QED BY <2>1, <1>1 DEF VersionsInv
<1>16. ASSUME NEW n \in DOMAIN logs, NEW e \in ToSet(logs[n].recs), NEW j \in DOMAIN manifest, n < manifest[j].log
       PROVE  [ents |-> e, log |-> n] \in hist
  <2>1. \/ [ents |-> e, log |-> n] \in hist
        \/ status = "open" /\ n = logfileNumber
    BY DEF DBInv, RecordsInv
  <2>2. status = "open" => manifest[j].log <= logfileNumber
    BY DEF DBInv, NumbersInv
  <2> QED BY <2>1, <2>2, <1>2, <1>16
<1>17. BatchesInv'
  <2> SUFFICES ASSUME NEW h \in hist', NEW i \in DOMAIN manifest'
               PROVE  BatchOK(h, manifest'[i], logs', tables)
    BY <1>1 DEF BatchesInv
  <2>1. PICK j \in DOMAIN manifest : manifest'[i] = manifest[j] /\ (machine => manifest[j] = m)
    BY <1>9
  <2>2. CASE h \in hist /\ (h.log < m.log \/ InTables(tables, h, m))
    <3>1. BatchOK(h, manifest[j], logs, tables)
      BY <2>2 DEF DBInv, BatchesInv
    <3>2. CASE machine
      BY <2>1, <2>2, <3>1, <3>2, <1>6 DEF BatchOK
    <3>3. CASE ~machine
      BY <2>1, <3>1, <3>3, <1>6
    <3> QED BY <3>2, <3>3
  <2>3. CASE \E n \in DOMAIN logs : \E e \in ToSet(logs'[n].recs) : n >= m.log /\ h = [ents |-> e, log |-> n]
    <3>1. PICK n \in DOMAIN logs : \E e \in ToSet(logs'[n].recs) : n >= m.log /\ h = [ents |-> e, log |-> n]
      BY <2>3
    <3>2. PICK e \in ToSet(logs'[n].recs) : n >= m.log /\ h = [ents |-> e, log |-> n]
      BY <3>1
    <3>3. h.log = n /\ h.ents = e /\ Logged(logs', h) /\ h.log \in DOMAIN logs'
      BY <3>2, <1>6 DEF Logged
    <3>4. ASSUME n < manifest[j].log PROVE UpTo(e, manifest[j].seq)
      <4>1. e \in ToSet(logs[n].recs)
        BY <1>7
      <4>2. h \in hist
        BY <4>1, <3>2, <3>4, <1>16
      <4>3. BatchOK(h, manifest[j], logs, tables)
        BY <4>2 DEF DBInv, BatchesInv
      <4> QED BY <4>3, <3>3, <3>4 DEF BatchOK
    <3> QED BY <2>1, <3>3, <3>4 DEF BatchOK
  <2> QED BY <2>2, <2>3, <1>8
<1>18. RecordsInv'
  <2> SUFFICES ASSUME NEW n \in DOMAIN logs, NEW e \in ToSet(logs'[n].recs)
               PROVE  [ents |-> e, log |-> n] \in hist'
    BY <1>6 DEF RecordsInv
  <2>1. CASE n >= m.log
    BY <2>1, <1>8
  <2>2. CASE n < m.log
    <3>1. [ents |-> e, log |-> n] \in hist
      BY <2>2, <1>4, <1>7, <1>16
    <3>2. [ents |-> e, log |-> n].log < m.log
      BY <2>2
    <3> QED BY <3>1, <3>2, <1>8
  <2> QED BY <2>1, <2>2, <1>2, <1>5
<1>19. SequenceInv'
    BY <1>1 DEF SequenceInv
<1>20. WriterInv'
    BY <1>1 DEF WriterInv
<1>21. DurableInv'
  <2> SUFFICES ASSUME NEW d \in durable'
               PROVE  \E h \in hist' : /\ h.ents = d
                                      /\ \A i \in DOMAIN manifest' : DurableOK(h, manifest'[i], logs', tables)
    BY <1>1 DEF DurableInv
  <2>1. CASE machine
    <3>1. PICK h \in hist' : h.ents = d
      BY <2>1, <1>1
    <3>2. DurableOK(h, m, logs', tables)
      <4>1. CASE h.log < m.log \/ InTables(tables, h, m)
        BY <4>1 DEF DurableOK
      <4>2. CASE \E n \in DOMAIN logs : \E e \in ToSet(logs'[n].recs) : h = [ents |-> e, log |-> n]
        <5>1. Logged(logs', h)
          BY <4>2, <1>6 DEF Logged
        <5> QED BY <5>1, <2>1, <1>7 DEF DurableOK
      <4> QED BY <4>1, <4>2, <1>8
    <3> QED BY <2>1, <3>1, <3>2, <1>9
  <2>2. CASE ~machine
    <3>1. PICK h \in hist : /\ h.ents = d
                           /\ \A i \in DOMAIN manifest : DurableOK(h, manifest[i], logs, tables)
      BY <2>2, <1>1 DEF DBInv, DurableInv
    <3>2. h \in hist'
      BY <3>1, <2>2, <1>4, DurableFound
    <3> QED BY <2>2, <3>1, <3>2, <1>6, <1>9
  <2> QED BY <2>1, <2>2
<1> QED BY <1>11, <1>12, <1>13, <1>14, <1>15, <1>17, <1>18, <1>19, <1>20, <1>21 DEF DBInv

\* The files of a database that has just been created.
LEMMA InitInv ==
    ASSUME Init
    PROVE  DBInv
<1> DEFINE m == [files |-> NoFiles, log |-> 3, next |-> 4, seq |-> 0]
<1>1. /\ tables = << >> /\ logs = [n \in {3} |-> EmptyLog] /\ manifest = <<m>>
      /\ status = "open" /\ mem = {} /\ imm = {}
      /\ logfileNumber = 3 /\ logNumber = 3 /\ nextFile = 4
      /\ lastSequence = 0 /\ current = NoFiles
      /\ snapshots = {} /\ readers = {}
      /\ writer = None /\ compact = None /\ applying = None
      /\ bgError = FALSE /\ errors = 0
      /\ hist = {} /\ durable = {}
    BY DEF Init
<1>2. {0, 3, 4} \subseteq FileNumber /\ 0 \in 0..MaxSeq /\ 0 \in 0..MaxErrors
    BY BoundAssumption, SeqAssumption DEF FileNumber
<1>3. NoFiles \in Version /\ FilesOf(NoFiles) = {}
    BY DEF NoFiles, Version, FilesOf
<1>4. m \in Descriptor /\ m.files = NoFiles /\ m.log = 3 /\ m.next = 4 /\ m.seq = 0
    BY <1>2, <1>3 DEF Descriptor
<1> HIDE DEF m
<1>5. /\ manifest \in Seq(Descriptor) \ {<<>>} /\ Last(manifest) = m /\ Len(manifest) = 1
      /\ DOMAIN manifest = {1} /\ manifest[1] = m
    BY <1>1, <1>4, OneRecord
<1>6. EmptyLog \in LogFile /\ ToSet(EmptyLog.recs) = {}
    BY DEF EmptyLog, LogFile, ToSet
<1>7. logs \in [DOMAIN logs -> LogFile] /\ DOMAIN logs = {3} /\ ToSet(logs[3].recs) = {}
    BY <1>1, <1>6
<1>8. DOMAIN tables = {} /\ tables \in [DOMAIN tables -> Batch]
    BY <1>1
<1>9. TypeOK
    BY <1>1, <1>2, <1>3, <1>5, <1>7, <1>8 DEF TypeOK
<1>10. Unused
    BY <1>1 DEF Unused
<1>11. DescriptorsInv
  <2>1. DescriptorOK(m, tables)
    BY <1>3, <1>4 DEF DescriptorOK
  <2>2. \A j \in 1..1 : j = 1
    OBVIOUS
  <2>3. m.next <= m.next
    BY <1>4
  <2> QED BY <2>1, <2>2, <2>3, <1>5 DEF DescriptorsInv, DescriptorsOK
<1>12. NumbersInv
    BY <1>1, <1>4, <1>5, <1>7, <1>8 DEF NumbersInv
<1>13. VersionsInv
    BY <1>1, <1>3, <1>4, <1>5 DEF VersionsInv
<1>14. BatchesInv
    BY <1>1 DEF BatchesInv
<1>15. RecordsInv
    BY <1>7 DEF RecordsInv
<1>16. SequenceInv
    BY <1>1, <1>7, <1>8 DEF SequenceInv, UpTo
<1>17. WriterInv
    BY <1>1 DEF WriterInv
<1>18. DurableInv
    BY <1>1 DEF DurableInv
<1> QED BY <1>9, <1>10, <1>11, <1>12, <1>13, <1>14, <1>15, <1>16, <1>17, <1>18 DEF DBInv

\* Every step keeps the invariant, one lemma for each action.
LEMMA NextInv ==
    ASSUME DBInv, [Next]_vars
    PROVE  DBInv'
<1>1. CASE \E w \in Writes : WriteLog(w)
    BY <1>1, WriteLogInv
<1>2. CASE WriteMem
    BY <1>2, WriteMemInv
<1>3. CASE WriteSyncFails
    BY <1>3, WriteSyncFailsInv
<1>4. CASE SwitchMemTable
    BY <1>4, SwitchMemTableInv
<1>5. CASE GetSnapshot
    BY <1>5, GetSnapshotInv
<1>6. CASE \E s \in snapshots : ReleaseSnapshot(s)
    BY <1>6, ReleaseSnapshotInv
<1>7. CASE \E s \in snapshots \union {lastSequence} : NewIterator(s)
    BY <1>7, NewIteratorInv
<1>8. CASE \E r \in readers : CleanupIteratorState(r)
    BY <1>8, CleanupIteratorStateInv
<1>9. CASE \E level \in 0..kMaxMemCompactLevel : CompactMemTable(level)
    BY <1>9, CompactMemTableInv
<1>10. CASE \E level \in 0..(kNumLevels - 2) : \E f \in current[level] : AutomaticCompaction(level, f)
    BY <1>10, AutomaticCompactionInv
<1>11. CASE \E level \in 0..(kNumLevels - 2), lo, hi \in Key : lo <= hi /\ ManualCompaction(level, lo, hi)
    BY <1>11, ManualCompactionInv
<1>12. CASE Merging /\ \E done \in SUBSET compact.todo : CompactionOutput(done)
    BY <1>12, CompactionOutputInv
<1>13. CASE InstallCompactionResults
    BY <1>13, InstallCompactionResultsInv
<1>14. CASE EditInstalled
    BY <1>14, EditInstalledInv
<1>15. CASE EditFails
    BY <1>15, EditFailsInv
<1>16. CASE \E machine \in Stops : Stop(machine)
    BY <1>16, StopInv, BoundAssumption
<1>17. CASE Recover
    BY <1>17, RecoverInv
<1>18. CASE FinishOpen
    BY <1>18, FinishOpenInv
<1>19. CASE UNCHANGED vars
  <2>1. /\ UNCHANGED <<tables, logs, manifest, status, mem, imm, logfileNumber, logNumber, nextFile, lastSequence>>
        /\ UNCHANGED <<current, snapshots, readers, writer, compact, applying, bgError, errors, hist, durable>>
    BY <1>19 DEF vars, disk, db, versions, clients, background, ghosts
  <2>2. TypeOK' /\ Unused' /\ DescriptorsInv'
    BY <2>1 DEF DBInv, TypeOK, Unused, DescriptorsInv
  <2>3. NumbersInv' /\ VersionsInv'
    BY <2>1 DEF DBInv, NumbersInv, VersionsInv
  <2>4. BatchesInv' /\ SequenceInv'
    BY <2>1 DEF DBInv, BatchesInv, SequenceInv
  <2>5. WriterInv' /\ DurableInv'
    BY <2>1 DEF DBInv, WriterInv, DurableInv
  <2>6. RecordsInv'
    BY <2>1, RecordsKept DEF DBInv
  <2> QED BY <2>2, <2>3, <2>4, <2>5, <2>6 DEF DBInv
<1> QED BY <1>1, <1>2, <1>3, <1>4, <1>5, <1>6, <1>7, <1>8, <1>9, <1>10, <1>11, <1>12, <1>13,
           <1>14, <1>15, <1>16, <1>17, <1>18, <1>19 DEF Next

-----------------------------------------------------------------------------
\* The invariant that the properties rest on: in every reachable state the
\* disk, the MANIFEST, the memtables and the batches agree as DBInv says.
THEOREM Invariance == Spec => []DBInv
<1>1. Init => DBInv
    BY InitInv
<1>2. DBInv /\ [Next]_vars => DBInv'
    BY NextInv
<1> QED BY <1>1, <1>2, PTL DEF Spec

\* The state of the database is well typed: the type invariant of the model.
THEOREM TypeCorrect == Spec => []TypeOK
<1>1. DBInv => TypeOK
    BY DEF DBInv
<1> QED BY <1>1, Invariance, PTL

\* DeleteObsoleteFiles never takes a file that someone will open: a reader,
\* the running compaction, or a recovery from any part of the MANIFEST that
\* may survive.
THEOREM FilesArePresent == Spec => []FilesPresent
<1>1. DBInv => FilesPresent
  <2> SUFFICES ASSUME DBInv PROVE FilesPresent
    OBVIOUS
  <2>1. /\ FilesOf(current) \subseteq DOMAIN tables
        /\ \A r \in readers : FilesOf(r.ver) \subseteq DOMAIN tables
        /\ compact # None => FilesOf(compact.ver) \union compact.out \subseteq DOMAIN tables
    BY DEF DBInv, VersionsInv
  <2>2. \A i \in DOMAIN manifest : FilesOf(manifest[i].files) \subseteq DOMAIN tables
    BY DEF DBInv, DescriptorsInv, DescriptorsOK, DescriptorOK
  <2>3. \A i \in DOMAIN manifest : \A h \in hist :
            \/ h.log < manifest[i].log
            \/ h.log \in DOMAIN logs /\ h.ents \in ToSet(logs[h.log].recs)
            \/ InTables(tables, h, manifest[i])
    BY DEF DBInv, BatchesInv, BatchOK, Logged
  <2> QED BY <2>1, <2>2, <2>3 DEF FilesPresent
<1> QED BY <1>1, Invariance, PTL

\* NewFileNumber gives out no number of a table or log that is still
\* referred to, over crashes in the middle of recovery too.
THEOREM NumbersAreFresh == Spec => []NumbersFresh
<1>1. DBInv => NumbersFresh
  <2> SUFFICES ASSUME DBInv, status = "open"
               PROVE  /\ \A f \in FilesOf(current) : f < nextFile
                      /\ \A i \in DOMAIN manifest : \A f \in FilesOf(manifest[i].files) : f < nextFile
                      /\ \A n \in DOMAIN logs : n <= logfileNumber
                      /\ logfileNumber < nextFile
    BY DEF NumbersFresh
  <2>1. /\ \A f \in DOMAIN tables : f < nextFile
        /\ \A n \in DOMAIN logs : n <= logfileNumber
        /\ logfileNumber < nextFile
    BY DEF DBInv, NumbersInv
  <2>2. FilesOf(current) \subseteq DOMAIN tables
    BY DEF DBInv, VersionsInv
  <2>3. \A i \in DOMAIN manifest : FilesOf(manifest[i].files) \subseteq DOMAIN tables
    BY DEF DBInv, DescriptorsInv, DescriptorsOK, DescriptorOK
  <2> QED BY <2>1, <2>2, <2>3
<1> QED BY <1>1, Invariance, PTL

-----------------------------------------------------------------------------
(***************************************************************************)
(* The refinement: what each action does to the batches of the database    *)
(* and to those in doubt.                                                  *)
(***************************************************************************)

\* The batches of H, the records of logs L, and the batches in doubt.
Ents(H) == {h.ents : h \in H}
InLogs(L) == UNION {ToSet(L[n].recs) : n \in DOMAIN L}
Doubt(L, H) == InLogs(L) \ Ents(H)

\* Who is in doubt.
LEMMA DoubtIs ==
    ASSUME NEW L, NEW H
    PROVE  /\ \A e : e \in InLogs(L) <=> \E n \in DOMAIN L : e \in ToSet(L[n].recs)
           /\ \A e : e \in Ents(H) <=> \E h \in H : h.ents = e
           /\ \A e : e \in Doubt(L, H) <=> e \in InLogs(L) /\ e \notin Ents(H)
BY DEF Ents, InLogs, Doubt

\* Nothing that the callers of the database could tell has happened.
Stutters == /\ Ents(hist') = Ents(hist) /\ durable' = durable
            /\ Doubt(logs', hist') = Doubt(logs, hist)

\* A batch is begun, is committed, or a crash decides on those in doubt.
Begins(b) == /\ b \notin Ents(hist) /\ b \notin Doubt(logs, hist)
             /\ Doubt(logs', hist') = Doubt(logs, hist) \union {b}
             /\ Ents(hist') = Ents(hist) /\ durable' = durable

Commits(b, sync) == /\ b \in Doubt(logs, hist)
                    /\ Doubt(logs', hist') = Doubt(logs, hist) \ {b}
                    /\ Ents(hist') = Ents(hist) \union {b}
                    /\ durable' = IF sync THEN durable \union {b} ELSE durable

Crashes(machine) == /\ Ents(hist') \subseteq Ents(hist) \union Doubt(logs, hist)
                    /\ durable \subseteq Ents(hist')
                    /\ ~machine => Ents(hist) \subseteq Ents(hist')
                    /\ durable' = IF machine THEN Ents(hist') ELSE durable
                    /\ Doubt(logs', hist') = {}

\* Neither the logs nor the batches change.
LEMMA SameLogs ==
    ASSUME logs' = logs, hist' = hist, durable' = durable
    PROVE  Stutters
BY DEF Stutters

\* The logs lose or gain no record but those of batches of the database.
LEMMA SameDoubt ==
    ASSUME hist' = hist, durable' = durable,
           \A n \in DOMAIN logs' : \A e \in ToSet(logs'[n].recs) :
               n \in DOMAIN logs /\ e \in ToSet(logs[n].recs),
           \A n \in DOMAIN logs : \A e \in ToSet(logs[n].recs) :
               \/ n \in DOMAIN logs' /\ e \in ToSet(logs'[n].recs)
               \/ e \in Ents(hist)
    PROVE  Stutters
<1>1. \A e : e \in Doubt(logs', hist') => e \in Doubt(logs, hist)
    BY DoubtIs
<1>2. \A e : e \in Doubt(logs, hist) => e \in Doubt(logs', hist')
    BY DoubtIs
<1>3. Doubt(logs', hist') = Doubt(logs, hist)
  <2> DEFINE A == Doubt(logs', hist')
             B == Doubt(logs, hist)
  <2>1. A \subseteq B /\ B \subseteq A
    BY <1>1, <1>2
  <2> QED BY <2>1
<1> QED BY <1>3 DEF Stutters

\* The batches so far have older sequence numbers than the one being written.
LEMMA NewBatch ==
    ASSUME DBInv, status = "open", NEW b, ~UpTo(b, lastSequence)
    PROVE  /\ b \notin Ents(hist)
           /\ writer = None => b \notin InLogs(logs)
<1>1. \A h \in hist : UpTo(h.ents, lastSequence)
    BY DEF DBInv, SequenceInv
<1>2. \A n \in DOMAIN logs : \A e \in ToSet(logs[n].recs) :
                UpTo(e, lastSequence) \/ (writer # None /\ e = writer.ents)
    BY DEF DBInv, SequenceInv
<1>3. b \notin Ents(hist)
    BY <1>1 DEF Ents
<1>4. ASSUME writer = None PROVE b \notin InLogs(logs)
    BY <1>2, <1>4 DEF InLogs
<1> QED BY <1>3, <1>4

\* A record in the log is a batch in doubt.
LEMMA WriteLogBegins ==
    ASSUME DBInv, NEW w \in Writes, WriteLog(w)
    PROVE  Begins(Numbered(w.ops, lastSequence + 1)) /\ lastSequence + 1 \in 1..MaxSeq
<1> DEFINE ents == Numbered(w.ops, lastSequence + 1)
<1>1. /\ status = "open" /\ writer = None /\ lastSequence + Len(w.ops) <= MaxSeq
      /\ logs' = [logs EXCEPT ![logfileNumber].recs = Append(@, ents)]
      /\ UNCHANGED ghosts
    BY DEF WriteLog
<1>2. hist' = hist /\ durable' = durable
    BY <1>1 DEF ghosts
<1>3. lastSequence \in Nat /\ MaxSeq \in Nat /\ logs \in [DOMAIN logs -> LogFile] /\ logfileNumber \in DOMAIN logs
    BY <1>1, DiskTypes DEF DBInv, NumbersInv
<1>4. Len(w.ops) \in Nat /\ Len(w.ops) >= 1 /\ ents \in Batch /\ ~UpTo(ents, lastSequence)
    BY <1>1, <1>3, NumberedBatch
<1>5. lastSequence + 1 \in 1..MaxSeq
    BY <1>1, <1>3, <1>4
<1>6. PICK b : b = ents
    OBVIOUS
<1>7. logs' = [logs EXCEPT ![logfileNumber].recs = Append(@, b)] /\ b \in Batch /\ ~UpTo(b, lastSequence)
    BY <1>1, <1>4, <1>6
<1> HIDE DEF ents
<1>8. Appended(logs, logs', logfileNumber, b)
    BY <1>3, <1>7, LogAppended, Zenon
<1>9. b \notin Ents(hist) /\ b \notin InLogs(logs)
    BY <1>1, <1>7, NewBatch
<1>10. /\ DOMAIN logs' = DOMAIN logs /\ \A k \in DOMAIN logs : k # logfileNumber => logs'[k] = logs[k]
       /\ ToSet(logs'[logfileNumber].recs) = ToSet(logs[logfileNumber].recs) \union {b}
    BY <1>8 DEF Appended
<1>11. \A e : e \in InLogs(logs') <=> e \in InLogs(logs) \/ e = b
  <2>1. \A e : (\E n \in DOMAIN logs' : e \in ToSet(logs'[n].recs))
                  <=> (\E n \in DOMAIN logs : e \in ToSet(logs[n].recs)) \/ e = b
    BY <1>3, <1>10
  <2> QED BY <2>1 DEF InLogs
<1>12. \A e : e \in Doubt(logs', hist') <=> e \in Doubt(logs, hist) \/ e = b
    BY <1>2, <1>9, <1>11, DoubtIs
<1>13. Doubt(logs', hist') = Doubt(logs, hist) \union {b}
  <2> DEFINE A == Doubt(logs', hist')
             B == Doubt(logs, hist)
  <2>1. \A e : e \in A <=> e \in B \/ e = b
    BY <1>12
  <2> HIDE DEF A, B
  <2>2. A = B \union {b}
    BY <2>1
  <2> QED BY <2>2 DEF A, B
<1>14. b \notin Doubt(logs, hist)
    BY <1>9, DoubtIs
<1>15. Begins(b)
    BY <1>2, <1>9, <1>13, <1>14 DEF Begins
<1> QED BY <1>5, <1>6, <1>15 DEF ents

\* A write that returns commits its batch.
LEMMA WriteMemCommits ==
    ASSUME DBInv, WriteMem
    PROVE  Commits(writer.ents, writer.sync) /\ writer.sync \in BOOLEAN
<1> DEFINE new == [ents |-> writer.ents, log |-> logfileNumber]
<1>1. /\ writer # None /\ hist' = hist \union {new}
      /\ durable' = IF writer.sync THEN durable \union {writer.ents} ELSE durable
    BY DEF WriteMem
<1>2. /\ status = "open" /\ writer.sync \in BOOLEAN /\ Logged(logs, new)
      /\ ~UpTo(writer.ents, lastSequence)
    BY <1>1, WriterNumbers
<1>3. DOMAIN logs' = DOMAIN logs /\ \A k \in DOMAIN logs : logs'[k].recs = logs[k].recs
    BY WriteMemLogs
<1>4. PICK b : b = writer.ents
    OBVIOUS
<1>5. b \notin Ents(hist)
    BY <1>2, <1>4, NewBatch
<1>6. b \in InLogs(logs)
    BY <1>2, <1>4, DoubtIs DEF Logged
<1>7. \A e : e \in InLogs(logs') <=> e \in InLogs(logs)
    BY <1>3 DEF InLogs
<1>8. new.ents = b /\ \A h : h \in hist' <=> h \in hist \/ h = new
    BY <1>1, <1>4
<1> HIDE DEF new
<1>9. \A e : e \in Ents(hist') <=> e \in Ents(hist) \/ e = b
    BY <1>8, DoubtIs
<1>10. \A e : e \in Doubt(logs', hist') <=> e \in Doubt(logs, hist) /\ e # b
    BY <1>7, <1>9, DoubtIs
<1>11. Ents(hist') = Ents(hist) \union {b}
  <2> DEFINE A == Ents(hist')
             B == Ents(hist)
  <2>1. \A e : e \in A <=> e \in B \/ e = b
    BY <1>9
  <2> HIDE DEF A, B
  <2>2. A = B \union {b}
    BY <2>1
  <2> QED BY <2>2 DEF A, B
<1>12. Doubt(logs', hist') = Doubt(logs, hist) \ {b}
  <2> DEFINE A == Doubt(logs', hist')
             B == Doubt(logs, hist)
  <2>1. \A e : e \in A <=> e \in B /\ e # b
    BY <1>10
  <2> HIDE DEF A, B
  <2>2. A = B \ {b}
    BY <2>1
  <2> QED BY <2>2 DEF A, B
<1>13. b \in Doubt(logs, hist)
    BY <1>5, <1>6, DoubtIs
<1> QED BY <1>1, <1>2, <1>4, <1>11, <1>12, <1>13 DEF Commits

\* A new log, with the memtable or in the course of an opening.
LEMMA NewLogStutters ==
    ASSUME NEW n, Created(logs, logs', n), n \notin DOMAIN logs, hist' = hist, durable' = durable
    PROVE  Stutters
<1>1. /\ DOMAIN logs' = DOMAIN logs \union {n} /\ \A k \in DOMAIN logs : logs'[k] = logs[k]
      /\ ToSet(logs'[n].recs) = {}
    BY DEF Created
<1>2. \A k \in DOMAIN logs' : \A e \in ToSet(logs'[k].recs) : k \in DOMAIN logs /\ e \in ToSet(logs[k].recs)
    BY <1>1
<1>3. \A k \in DOMAIN logs : \A e \in ToSet(logs[k].recs) : k \in DOMAIN logs' /\ e \in ToSet(logs'[k].recs)
    BY <1>1
<1> QED BY <1>2, <1>3, SameDoubt

LEMMA SwitchMemTableStutters ==
    ASSUME DBInv, SwitchMemTable
    PROVE  Stutters
<1>1. status = "open" /\ logs' = NewWritableFile(logs, nextFile, EmptyLog) /\ hist' = hist /\ durable' = durable
    BY DEF SwitchMemTable, ghosts
<1>2. logs \in [DOMAIN logs -> LogFile] /\ DOMAIN logs \in SUBSET Nat /\ logfileNumber \in Nat /\ nextFile \in Nat
    BY DiskTypes DEF DBInv
<1>3. logfileNumber < nextFile /\ \A n \in DOMAIN logs : n <= logfileNumber
    BY <1>1 DEF DBInv, NumbersInv
<1>4. nextFile \notin DOMAIN logs
    BY <1>2, <1>3
<1>5. Created(logs, logs', nextFile)
    BY <1>1, <1>2, <1>4, LogCreated, Zenon
<1> QED BY <1>1, <1>4, <1>5, NewLogStutters

\* The logs that are deleted hold nothing but batches of the database.
LEMMA DeletedStutters ==
    ASSUME DBInv, NEW ver, NEW log \in Nat, NEW c, DeleteObsoleteFiles(ver, log, c),
           status = "opening" \/ log <= logfileNumber, hist' = hist, durable' = durable
    PROVE  Stutters
<1>1. Fewer(logs, logs') /\ \A n \in DOMAIN logs : n >= log => n \in DOMAIN logs'
    BY FilesLeft
<1>2. \A n \in DOMAIN logs' : \A e \in ToSet(logs'[n].recs) : n \in DOMAIN logs /\ e \in ToSet(logs[n].recs)
    BY <1>1 DEF Fewer
<1>3. ASSUME NEW n \in DOMAIN logs, NEW e \in ToSet(logs[n].recs)
      PROVE  \/ n \in DOMAIN logs' /\ e \in ToSet(logs'[n].recs)
             \/ e \in Ents(hist)
  <2>1. n \in Nat /\ logfileNumber \in Nat
    BY DiskTypes DEF DBInv
  <2>2. CASE n >= log
    <3>1. n \in DOMAIN logs' /\ logs'[n] = logs[n]
      BY <1>1, <2>2 DEF Fewer
    <3> QED BY <3>1
  <2>3. CASE ~(n >= log)
    <3>1. status # "open" \/ n # logfileNumber
      BY <2>1, <2>3
    <3>2. [ents |-> e, log |-> n] \in hist
      BY <3>1 DEF DBInv, RecordsInv
    <3>3. [ents |-> e, log |-> n].ents = e
      OBVIOUS
    <3> QED BY <3>2, <3>3, DoubtIs
  <2> QED BY <2>2, <2>3
<1> QED BY <1>2, <1>3, SameDoubt

LEMMA EditInstalledStutters ==
    ASSUME DBInv, EditInstalled
    PROVE  Stutters
<1>1. /\ status = "open" /\ applying # None /\ hist' = hist /\ durable' = durable
      /\ current' = applying.ver /\ logNumber' = applying.log
      /\ IF applying.what = "move" THEN UNCHANGED <<tables, logs>>
         ELSE DeleteObsoleteFiles(current', logNumber', compact')
    BY DEF EditInstalled, ghosts
<1>2. CASE applying.what = "move"
    BY <1>1, <1>2, SameLogs
<1>3. CASE applying.what # "move"
  <2>1. Last(manifest).log = applying.log
    BY <1>1 DEF DBInv, VersionsInv
  <2>2. PICK i \in DOMAIN manifest : Last(manifest) = manifest[i]
    BY LastOf DEF DBInv, TypeOK
  <2>3. manifest[i].log \in Nat /\ manifest[i].log <= logfileNumber
    BY <1>1, DiskTypes DEF DBInv, NumbersInv
  <2>4. applying.log \in Nat /\ applying.log <= logfileNumber
    BY <2>1, <2>2, <2>3
  <2>5. DeleteObsoleteFiles(current', applying.log, compact')
    BY <1>1, <1>3
  <2> QED BY <2>4, <2>5, <1>1, DeletedStutters
<1> QED BY <1>2, <1>3

LEMMA FinishOpenStutters ==
    ASSUME DBInv, FinishOpen
    PROVE  Stutters
<1>1. /\ status = "opening" /\ hist' = hist /\ durable' = durable
      /\ DeleteObsoleteFiles(applying.ver, applying.log, None)
    BY DEF FinishOpen, ghosts
<1>2. applying.log = logfileNumber
    BY <1>1 DEF DBInv, NumbersInv
<1>3. applying.log \in Nat
    BY <1>2, DiskTypes DEF DBInv
<1> QED BY <1>1, <1>3, DeletedStutters

LEMMA RecoverStutters ==
    ASSUME DBInv, Recover
    PROVE  Stutters
<1> DEFINE m == Last(manifest)
           long == {n \in NewerLogs : Len(logs[n].recs) > 1}
<1>1. PICK cut \in [long -> 0..MaxSeq] :
          /\ \A n \in long : cut[n] < Len(logs[n].recs)
          /\ LET r == RecoverLogs(m.next + 1, NewerLogs, cut)
             IN /\ r.next < MaxFile
                /\ tables' = r.tabs
                /\ logs' = NewWritableFile(logs, r.next, EmptyLog)
                /\ logfileNumber' = r.next /\ nextFile' = r.next + 1
                /\ applying' = [what |-> "open", log |-> r.next,
                                ver |-> [m.files EXCEPT ![0] = @ \union r.new]]
    BY Zenon DEF Recover, NewerLogs
<1> DEFINE R == RecoverLogs(m.next + 1, NewerLogs, cut)
<1> PICK r : r = R
    OBVIOUS
<1>2. r.next < MaxFile /\ logs' = NewWritableFile(logs, r.next, EmptyLog)
    BY <1>1
<1>3. hist' = hist /\ durable' = durable
    BY DEF Recover, ghosts
<1>4. CutsOK(cut)
  <2>1. \A n \in long : cut[n] \in Nat
    BY SeqAssumption
  <2> QED BY <1>1, <2>1 DEF CutsOK
<1>5. RecoverOK(r)
    BY <1>2, <1>4, RecoveredFiles
<1> HIDE DEF R
<1>6. r.next \notin DOMAIN logs /\ logs \in [DOMAIN logs -> LogFile]
  <2>1. r.next \in Nat /\ \A n \in DOMAIN logs : n < r.next
    BY <1>5 DEF RecoverOK
  <2> QED BY <2>1 DEF DBInv, TypeOK
<1>7. Created(logs, logs', r.next)
    BY <1>2, <1>6, LogCreated, Zenon
<1> QED BY <1>3, <1>6, <1>7, NewLogStutters

\* The end of the process or of the machine.
LEMMA StopCrashes ==
    ASSUME DBInv, NEW machine \in BOOLEAN, Stop(machine)
    PROVE  Crashes(machine)
<1> PICK m : m = Last(manifest')
    OBVIOUS
<1>1. logs \in [DOMAIN logs -> LogFile] /\ Survive(logs, logs', machine)
    BY StopDisk DEF DBInv, TypeOK
<1>2. PICK i \in DOMAIN manifest : m = manifest[i]
    BY StopDisk
<1>3. /\ DOMAIN logs' = DOMAIN logs /\ \A n \in DOMAIN logs : ToSet(logs'[n].recs) \subseteq ToSet(logs[n].recs)
      /\ ~machine => logs' = logs
    BY <1>1, WhatSurvives DEF Survive
<1>4. \A h \in hist' :
          \/ h \in hist
          \/ \E n \in DOMAIN logs : \E e \in ToSet(logs'[n].recs) : h = [ents |-> e, log |-> n]
    BY StopHist
<1>5. Ents(hist') \subseteq Ents(hist) \union Doubt(logs, hist)
  <2> SUFFICES ASSUME NEW h \in hist' PROVE h.ents \in Ents(hist) \/ h.ents \in InLogs(logs)
    BY DEF Ents, Doubt
  <2>1. CASE h \in hist
    BY <2>1, DoubtIs
  <2>2. ASSUME NEW n \in DOMAIN logs, NEW e \in ToSet(logs'[n].recs), h = [ents |-> e, log |-> n]
        PROVE  h.ents \in InLogs(logs)
    <3>1. h.ents = e /\ e \in ToSet(logs[n].recs)
      BY <2>2, <1>3
    <3> QED BY <3>1, DoubtIs
  <2> QED BY <2>1, <2>2, <1>4
<1>6. durable \subseteq Ents(hist')
  <2> SUFFICES ASSUME NEW d \in durable PROVE d \in Ents(hist')
    OBVIOUS
  <2>1. PICK h \in hist : h.ents = d /\ DurableOK(h, m, logs, tables)
    BY <1>2 DEF DBInv, DurableInv
  <2>2. h \in hist'
    BY <2>1, DurableFound
  <2> QED BY <2>1, <2>2, DoubtIs
<1>7. ASSUME ~machine PROVE Ents(hist) \subseteq Ents(hist')
  <2> SUFFICES ASSUME NEW h \in hist PROVE h \in hist'
    BY DoubtIs
  <2>1. h.log \in Nat /\ h = [ents |-> h.ents, log |-> h.log] /\ m.log \in Nat
    BY <1>2, HistTypes, DiskTypes DEF DBInv, TypeOK
  <2>2. h.log < m.log \/ Logged(logs, h) \/ InTables(tables, h, m)
    BY <1>2 DEF DBInv, BatchesInv, BatchOK
  <2>3. CASE h.log < m.log \/ InTables(tables, h, m)
    BY <2>3, StopHist
  <2>4. CASE Logged(logs, h) /\ ~(h.log < m.log)
    <3>1. h.log \in DOMAIN logs /\ h.ents \in ToSet(logs'[h.log].recs) /\ h.log >= m.log
      BY <2>1, <2>4, <1>3, <1>7 DEF Logged
    <3> QED BY <3>1, <2>1, StopHist
  <2> QED BY <2>2, <2>3, <2>4
<1>8. durable' = IF machine THEN Ents(hist') ELSE durable
    BY DEF Stop, Ents
<1>9. Doubt(logs', hist') = {}
  <2>1. DBInv' /\ status' = "down"
    BY StopInv DEF Stop
  <2>2. \A n \in DOMAIN logs' : \A e \in ToSet(logs'[n].recs) : [ents |-> e, log |-> n] \in hist'
    BY <2>1 DEF DBInv, RecordsInv
  <2>3. ASSUME NEW e, e \in InLogs(logs') PROVE e \in Ents(hist')
    <3>1. PICK n \in DOMAIN logs' : e \in ToSet(logs'[n].recs)
      BY <2>3, DoubtIs
    <3>2. [ents |-> e, log |-> n] \in hist' /\ [ents |-> e, log |-> n].ents = e
      BY <3>1, <2>2
    <3> QED BY <3>2, DoubtIs
  <2> QED BY <2>3, DoubtIs
<1> QED BY <1>5, <1>6, <1>7, <1>8, <1>9 DEF Crashes

\* The steps of the abstract database in the terms above.
LEMMA AbstractStep ==
    ASSUME \/ Stutters
           \/ \E w \in Writes, n \in 1..MaxSeq : Begins(Numbered(w.ops, n))
           \/ \E b \in Doubt(logs, hist), sync \in BOOLEAN : Commits(b, sync)
           \/ \E machine \in BOOLEAN : Crashes(machine)
    PROVE  [KV!Next]_(KV!vars)
<1>1. CASE Stutters
    BY <1>1 DEF Stutters, KV!vars, Ents, Doubt, InLogs
<1>2. CASE \E w \in Writes, n \in 1..MaxSeq : Begins(Numbered(w.ops, n))
  <2>1. PICK w \in Writes, n \in 1..MaxSeq : Begins(Numbered(w.ops, n))
    BY <1>2
  <2>2. KV!Begin(Numbered(w.ops, n))
    BY <2>1 DEF Begins, KV!Begin, Ents, Doubt, InLogs
  <2>3. Numbered(w.ops, n) \in {Numbered(v.ops, k) : v \in Writes, k \in 1..MaxSeq}
    OBVIOUS
  <2> QED BY <2>2, <2>3 DEF KV!Next
<1>3. CASE \E b \in Doubt(logs, hist), sync \in BOOLEAN : Commits(b, sync)
  <2>1. PICK b \in Doubt(logs, hist), sync \in BOOLEAN : Commits(b, sync)
    BY <1>3
  <2>2. KV!Commit(b, sync)
    BY <2>1 DEF Commits, KV!Commit, Ents, Doubt, InLogs
  <2> QED BY <2>1, <2>2 DEF KV!Next, Ents, Doubt, InLogs
<1>4. CASE \E machine \in BOOLEAN : Crashes(machine)
  <2>1. PICK machine \in BOOLEAN : Crashes(machine)
    BY <1>4
  <2>2. KV!Crash(machine)
    BY <2>1 DEF Crashes, KV!Crash, Ents, Doubt, InLogs
  <2> QED BY <2>2 DEF KV!Next
<1> QED BY <1>1, <1>2, <1>3, <1>4

\* Every step of the database is one of the abstract database, or none.
LEMMA NextKV ==
    ASSUME DBInv, [Next]_vars
    PROVE  [KV!Next]_(KV!vars)
<1>1. CASE \E w \in Writes : WriteLog(w)
    BY <1>1, WriteLogBegins, AbstractStep
<1>2. CASE WriteMem
  <2>1. Commits(writer.ents, writer.sync) /\ writer.sync \in BOOLEAN
    BY <1>2, WriteMemCommits
  <2>2. writer.ents \in Doubt(logs, hist)
    BY <2>1 DEF Commits
  <2> QED BY <2>1, <2>2, AbstractStep
<1>3. CASE SwitchMemTable
    BY <1>3, SwitchMemTableStutters, AbstractStep
<1>4. CASE EditInstalled
    BY <1>4, EditInstalledStutters, AbstractStep
<1>5. CASE \E machine \in Stops : Stop(machine)
    BY <1>5, StopCrashes, AbstractStep, BoundAssumption
<1>6. CASE Recover
    BY <1>6, RecoverStutters, AbstractStep
<1>7. CASE FinishOpen
    BY <1>7, FinishOpenStutters, AbstractStep
<1>8. CASE logs' = logs /\ hist' = hist /\ durable' = durable
    BY <1>8, SameLogs, AbstractStep
<1>9. CASE WriteSyncFails \/ EditFails \/ InstallCompactionResults
    BY <1>9, <1>8 DEF WriteSyncFails, EditFails, InstallCompactionResults, disk, ghosts
<1>10. CASE \/ GetSnapshot \/ \E s \in snapshots : ReleaseSnapshot(s)
            \/ \E s \in snapshots \union {lastSequence} : NewIterator(s)
            \/ \E r \in readers : CleanupIteratorState(r)
    BY <1>10, <1>8 DEF GetSnapshot, ReleaseSnapshot, NewIterator, CleanupIteratorState, disk, ghosts
<1>11. CASE \E level \in 0..kMaxMemCompactLevel : CompactMemTable(level)
    BY <1>11, <1>8, Zenon DEF CompactMemTable
<1>12. CASE \/ \E level \in 0..(kNumLevels - 2) : \E f \in current[level] : AutomaticCompaction(level, f)
            \/ \E level \in 0..(kNumLevels - 2), lo, hi \in Key : lo <= hi /\ ManualCompaction(level, lo, hi)
  <2>1. \E level, inputs, manual : StartCompaction(level, inputs, manual)
    BY <1>12, Zenon DEF AutomaticCompaction, ManualCompaction
  <2> QED BY <2>1, <1>8, Zenon DEF StartCompaction
<1>13. CASE Merging /\ \E done \in SUBSET compact.todo : CompactionOutput(done)
    BY <1>13, <1>8, Zenon DEF CompactionOutput, ghosts
<1>14. CASE UNCHANGED vars
    BY <1>14, <1>8 DEF vars, disk, ghosts
<1> QED BY <1>1, <1>2, <1>3, <1>4, <1>5, <1>6, <1>7, <1>9, <1>10, <1>11, <1>12, <1>13, <1>14 DEF Next

\* The database implements the abstract one: batches become visible whole, in
\* one step, when their write returns; the end of the process loses none that
\* returned and the end of the machine none that a sync write acknowledged,
\* whatever the background thread and an interrupted recovery were doing.
THEOREM ImplementsKV == Spec => ImplementsKVStore
<1>1. Init => KV!Init
  <2> SUFFICES ASSUME Init PROVE KV!Init
    OBVIOUS
  <2>1. hist = {} /\ durable = {} /\ logs = [n \in {3} |-> EmptyLog]
    BY DEF Init
  <2>2. ToSet(EmptyLog.recs) = {}
    BY DEF EmptyLog, ToSet
  <2>3. \A n \in DOMAIN logs : ToSet(logs[n].recs) = {}
    BY <2>1, <2>2
  <2> QED BY <2>1, <2>3 DEF KV!Init
<1>2. DBInv /\ [Next]_vars => [KV!Next]_(KV!vars)
    BY NextKV
<1> QED BY <1>1, <1>2, Invariance, PTL DEF Spec, ImplementsKVStore, KV!Spec
=============================================================================
