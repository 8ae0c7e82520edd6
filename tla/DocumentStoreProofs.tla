------------------------- MODULE DocumentStoreProofs -------------------------
(***************************************************************************)
(* Proofs about DocumentStore, for any sets of documents, fields,          *)
(* descriptions and kinds. The lemmas up to FieldsDelete say how one edit  *)
(* of the rows changes what loadDocuments would make of them; the          *)
(* invariance proof then treats FieldsIn, LoadedIn and CreatedIn as given. *)
(***************************************************************************)
EXTENDS DocumentStore, TLAPS

\* Reading back a stored kind gives the kind that was stored.
LEMMA RoundTrip ==
  ASSUME NEW t \in FieldType
  PROVE  fieldTypeFromString(stringFromFieldType(t)) = t
BY DEF FieldType, fieldTypeFromString, stringFromFieldType

\* A field read back from its own row is the field that was written.
LEMMA RowInverse ==
  ASSUME NEW d \in CdId, NEW f \in Field
  PROVE  /\ RowOf(d, f) \in FieldRow
         /\ FieldOf(RowOf(d, f)) = f
         /\ RowOf(d, f).parent = d
         /\ RowOf(d, f).desc = f.desc
<1>1. f.type \in FieldType
  BY TypesAssumption DEF Field
<1>2. fieldTypeFromString(stringFromFieldType(f.type)) = f.type
  BY <1>1, RoundTrip
<1> QED
  BY <1>2 DEF RowOf, FieldOf, FieldRow, Field

\* Every row that can be stored is the row of the field it is read as.
LEMMA FieldInverse ==
  ASSUME NEW r \in FieldRow
  PROVE  FieldOf(r) \in Field /\ RowOf(r.parent, FieldOf(r)) = r
<1>1. PICK t \in Types : r.type = stringFromFieldType(t)
  BY DEF FieldRow
<1>2. fieldTypeFromString(r.type) = t
  BY <1>1, RoundTrip, TypesAssumption
<1> QED
  BY <1>1, <1>2 DEF RowOf, FieldOf, FieldRow, Field

\* FieldsIn in terms of the rows that are written.
LEMMA FieldsInRows ==
  ASSUME NEW c \in Content, NEW d \in CdId
  PROVE  FieldsIn(c, d) = {f \in Field : RowOf(d, f) \in c.fields}
<1>1. ASSUME NEW f \in FieldsIn(c, d)
      PROVE  f \in Field /\ RowOf(d, f) \in c.fields
  <2>1. PICK r \in c.fields : r.parent = d /\ f = FieldOf(r)
    BY DEF FieldsIn
  <2>2. r \in FieldRow
    BY DEF Content
  <2> QED
    BY <2>1, <2>2, FieldInverse
<1>2. ASSUME NEW f \in Field, RowOf(d, f) \in c.fields
      PROVE  f \in FieldsIn(c, d)
  BY <1>2, RowInverse DEF FieldsIn
<1> QED
  BY <1>1, <1>2

\* Inserting the row of field f of document d adds f to d and nothing elsewhere.
LEMMA FieldsInsert ==
  ASSUME NEW c \in Content, NEW d \in CdId, NEW f \in Field,
         NEW n, n = [c EXCEPT !.fields = @ \cup {RowOf(d, f)}]
  PROVE  /\ n \in Content /\ n.docs = c.docs
         /\ FieldsIn(n, d) = FieldsIn(c, d) \cup {f}
         /\ \A e \in CdId \ {d} : FieldsIn(n, e) = FieldsIn(c, e)
<1>1. n \in Content /\ n.docs = c.docs /\ n.fields = c.fields \cup {RowOf(d, f)}
  BY RowInverse DEF Content
<1>2. \A e \in CdId, g \in Field : RowOf(e, g) = RowOf(d, f) <=> e = d /\ g = f
  BY RowInverse
<1>3. \A e \in CdId : FieldsIn(n, e) = {g \in Field : RowOf(e, g) \in n.fields}
  BY <1>1, FieldsInRows
<1>4. \A e \in CdId : FieldsIn(c, e) = {g \in Field : RowOf(e, g) \in c.fields}
  BY FieldsInRows
<1> QED
  BY <1>1, <1>2, <1>3, <1>4

\* Deleting the rows of document d with f's description removes the fields of d
\* with that description and nothing elsewhere.
LEMMA FieldsRemove ==
  ASSUME NEW c \in Content, NEW d \in CdId, NEW f \in Field,
         NEW n, n = [c EXCEPT !.fields = @ \ {r \in c.fields : r.parent = d /\ r.desc = f.desc}]
  PROVE  /\ n \in Content /\ n.docs = c.docs
         /\ FieldsIn(n, d) = {g \in FieldsIn(c, d) : g.desc # f.desc}
         /\ \A e \in CdId \ {d} : FieldsIn(n, e) = FieldsIn(c, e)
<1>1. /\ n \in Content /\ n.docs = c.docs
      /\ n.fields = {r \in c.fields : ~ (r.parent = d /\ r.desc = f.desc)}
  BY DEF Content
<1>2. \A e \in CdId, g \in Field : RowOf(e, g).parent = e /\ RowOf(e, g).desc = g.desc
  BY RowInverse
<1>3. \A e \in CdId : FieldsIn(n, e) = {g \in Field : RowOf(e, g) \in n.fields}
  BY <1>1, FieldsInRows
<1>4. \A e \in CdId : FieldsIn(c, e) = {g \in Field : RowOf(e, g) \in c.fields}
  BY FieldsInRows
<1>5. \A e \in CdId, g \in Field :
        RowOf(e, g) \in n.fields <=> RowOf(e, g) \in c.fields /\ ~ (e = d /\ g.desc = f.desc)
  BY <1>1, <1>2
<1>6. FieldsIn(n, d) = {g \in FieldsIn(c, d) : g.desc # f.desc}
  BY <1>3, <1>4, <1>5
<1>7. \A e \in CdId \ {d} : FieldsIn(n, e) = FieldsIn(c, e)
  BY <1>3, <1>4, <1>5
<1> QED
  BY <1>1, <1>6, <1>7

\* Deleting the rows of document d empties d and changes nothing elsewhere.
LEMMA FieldsDelete ==
  ASSUME NEW c \in Content, NEW d \in CdId,
         NEW n, n = [c EXCEPT !.fields = {r \in @ : r.parent # d}]
  PROVE  /\ n \in Content /\ n.docs = c.docs
         /\ FieldsIn(n, d) = {}
         /\ \A e \in CdId \ {d} : FieldsIn(n, e) = FieldsIn(c, e)
<1>1. n \in Content /\ n.docs = c.docs /\ n.fields = {r \in c.fields : r.parent # d}
  BY DEF Content
<1> QED
  BY <1>1 DEF FieldsIn

\* Inserting a document row adds it to one list; no fields change.
LEMMA DocInsert ==
  ASSUME NEW c \in Content, NEW d \in CdId, NEW m \in {"0", "1"},
         NEW n, n = [c EXCEPT !.docs = @ \cup {[cdId |-> d, groupMode |-> m]}]
  PROVE  /\ n \in Content
         /\ LoadedIn(n) = IF m = "0" THEN LoadedIn(c) \cup {d} ELSE LoadedIn(c)
         /\ CreatedIn(n) = IF m = "1" THEN CreatedIn(c) \cup {d} ELSE CreatedIn(c)
         /\ \A e \in CdId : FieldsIn(n, e) = FieldsIn(c, e)
<1>1. /\ n \in Content /\ n.fields = c.fields
      /\ n.docs = c.docs \cup {[cdId |-> d, groupMode |-> m]}
  BY DEF Content, DocRow
<1>2. /\ LoadedIn(n) = IF m = "0" THEN LoadedIn(c) \cup {d} ELSE LoadedIn(c)
      /\ CreatedIn(n) = IF m = "1" THEN CreatedIn(c) \cup {d} ELSE CreatedIn(c)
  BY <1>1 DEF LoadedIn, CreatedIn
<1> QED
  BY <1>1, <1>2 DEF FieldsIn

\* Deleting a document row takes it off both lists; no fields change.
LEMMA DocDelete ==
  ASSUME NEW c \in Content, NEW d \in CdId,
         NEW n, n = [c EXCEPT !.docs = {r \in @ : r.cdId # d}]
  PROVE  /\ n \in Content
         /\ LoadedIn(n) = LoadedIn(c) \ {d} /\ CreatedIn(n) = CreatedIn(c) \ {d}
         /\ \A e \in CdId : FieldsIn(n, e) = FieldsIn(c, e)
<1>1. n \in Content /\ n.fields = c.fields /\ n.docs = {r \in c.docs : r.cdId # d}
  BY DEF Content
<1>2. LoadedIn(n) = LoadedIn(c) \ {d} /\ CreatedIn(n) = CreatedIn(c) \ {d}
  BY <1>1 DEF LoadedIn, CreatedIn
<1> QED
  BY <1>1, <1>2 DEF FieldsIn
-------------------------------------------------------------------------------
\* The invariant holds of a fresh install.
LEMMA InitIInv == Init => IInv
<1> SUFFICES ASSUME Init PROVE IInv
  OBVIOUS
<1>1. TypeOK
  BY DEF Init, TypeOK, NoFields, NoContent, NoJob, Content
<1>2. /\ LoadedIn(context) = {} /\ CreatedIn(context) = {}
      /\ LoadedIn(store) = {} /\ CreatedIn(store) = {}
      /\ \A d \in CdId : FieldsIn(context, d) = {} /\ FieldsIn(store, d) = {}
  BY DEF Init, NoContent, LoadedIn, CreatedIn, FieldsIn
<1> QED
  BY <1>1, <1>2 DEF Init, IInv, OneList, Fresh, ScreenFollowsContext, JobOK, Whole,
     Orphans, Graves, DocsIn, Downloading, NoJob

\* The start of a download keeps the invariant.
LEMMA DownloadStep ==
  ASSUME IInv, NEW d \in CdId, NEW F \in SUBSET Field, downloadDocument(d, F)
  PROVE  IInv'
<1> DEFINE n == [context EXCEPT !.docs = @ \cup {[cdId |-> d, groupMode |-> "0"]}]
<1>1. /\ n \in Content
      /\ LoadedIn(n) = LoadedIn(context) \cup {d} /\ CreatedIn(n) = CreatedIn(context)
      /\ \A e \in CdId : FieldsIn(n, e) = FieldsIn(context, e)
  BY DocInsert DEF IInv, TypeOK
<1>2. context' = n /\ store' \in {n, store}
  BY DEF downloadDocument, Save
<1>3. d \notin DocsIn(context) \cup DocsIn(store) \cup deleted /\ FieldsIn(context, d) = {} /\ FieldsIn(store, d) = {}
  BY DEF IInv, Fresh, downloadDocument
<1> HIDE DEF n
<1>4. TypeOK'
  BY <1>1, <1>2 DEF IInv, TypeOK, downloadDocument, Idle, screen, KeysOf, Field
<1>5. OneList'
  BY <1>1, <1>2, <1>3 DEF IInv, OneList, DocsIn
<1>6. Fresh'
  BY <1>1, <1>2, <1>3 DEF IInv, Fresh, DocsIn, downloadDocument
<1>7. ScreenFollowsContext'
  BY <1>1, <1>2, <1>3 DEF IInv, TypeOK, ScreenFollowsContext,
     DocsIn, Downloading, downloadDocument, screen, Idle, NoJob
<1>8. JobOK'
  BY <1>1, <1>2, <1>3 DEF IInv, TypeOK, JobOK, DocsIn, downloadDocument, Idle
<1>9. Whole'
  BY <1>1, <1>2, <1>3 DEF IInv, TypeOK, Whole, DocsIn, Pending, Downloading, downloadDocument, Idle, NoJob
<1>10. Orphans' /\ Graves'
  BY <1>1, <1>2, <1>3 DEF IInv, Orphans, Graves, DocsIn, downloadDocument
<1> QED
  BY <1>4, <1>5, <1>6, <1>7, <1>8, <1>9, <1>10 DEF IInv

\* One turn of the download loop keeps the invariant.
LEMMA SaveNextFieldStep ==
  ASSUME IInv, NEW f \in Field, saveNextField(f)
  PROVE  IInv'
<1> DEFINE d == job.doc
           n == [context EXCEPT !.fields = @ \cup {RowOf(d, f)}]
<1>1. job.kind = "download" /\ f \in job.todo /\ alive /\ d \in LoadedIn(context) /\ d \in CdId
  BY DEF saveNextField, IInv, JobOK, LoadedIn
<1>2. /\ n \in Content /\ n.docs = context.docs
      /\ FieldsIn(n, d) = FieldsIn(context, d) \cup {f}
      /\ \A e \in CdId \ {d} : FieldsIn(n, e) = FieldsIn(context, e)
  BY <1>1, FieldsInsert DEF IInv, TypeOK
<1>3. LoadedIn(n) = LoadedIn(context) /\ CreatedIn(n) = CreatedIn(context)
  BY <1>2 DEF LoadedIn, CreatedIn
<1>4. context' = n /\ store' \in {n, store}
  BY DEF saveNextField, Save
<1>5. job' = [job EXCEPT !.todo = @ \ {f}] /\ UNCHANGED <<alive, screen, history>>
  BY DEF saveNextField
<1>6. /\ job'.kind = "download" /\ job'.doc = d
      /\ job'.fields = job.fields /\ job'.todo = job.todo \ {f}
  BY <1>1, <1>5 DEF IInv, TypeOK
<1> HIDE DEF n
<1>7. TypeOK'
  BY <1>2, <1>4, <1>5 DEF IInv, TypeOK, screen, history
<1>8. OneList'
  BY <1>3, <1>4 DEF IInv, OneList
<1>9. Fresh'
  BY <1>1, <1>2, <1>3, <1>4, <1>5 DEF IInv, Fresh, JobOK, DocsIn, history
<1>10. ScreenFollowsContext'
  BY <1>1, <1>2, <1>3, <1>4, <1>5, <1>6 DEF IInv, TypeOK, OneList, ScreenFollowsContext,
     Downloading, screen, history
<1>11. JobOK'
  BY <1>1, <1>2, <1>3, <1>4, <1>5, <1>6 DEF IInv, JobOK, history
<1>12. Whole'
  BY <1>1, <1>2, <1>3, <1>4, <1>5, <1>6 DEF IInv, Whole, Pending, Downloading, history
<1>13. Orphans' /\ Graves'
  BY <1>1, <1>2, <1>3, <1>4, <1>5 DEF IInv, Orphans, Graves, DocsIn, history
<1> QED
  BY <1>7, <1>8, <1>9, <1>10, <1>11, <1>12, <1>13 DEF IInv

\* The end of a download keeps the invariant.
LEMMA FinishDownloadStep ==
  ASSUME IInv, finishDownload
  PROVE  IInv'
<1>1. /\ job.kind = "download" /\ job.todo = {} /\ alive
      /\ job.doc \in LoadedIn(context) /\ job.doc \in CdId
      /\ FieldsIn(context, job.doc) = snapshot[job.doc]
      /\ job.fields = snapshot[job.doc]
      /\ FieldsIn(store, job.doc) \subseteq FieldsIn(context, job.doc)
  BY DEF finishDownload, IInv, JobOK, LoadedIn
<1>2. /\ loadedDocuments' = loadedDocuments \cup {job.doc}
      /\ fieldsToFill' = [fieldsToFill EXCEPT ![job.doc] = job.fields]
      /\ job' = NoJob
      /\ UNCHANGED <<alive, createdDocuments, context, store, history>>
  BY DEF finishDownload
<1>3. TypeOK'
  BY <1>1, <1>2 DEF IInv, TypeOK, NoJob, history
<1>4. OneList' /\ Fresh' /\ Orphans' /\ Graves'
  BY <1>2 DEF IInv, OneList, Fresh, Orphans, Graves, DocsIn, history
<1>5. ScreenFollowsContext'
  BY <1>1, <1>2 DEF IInv, TypeOK, OneList, ScreenFollowsContext, Downloading, NoJob, history
<1>6. JobOK'
  BY <1>1, <1>2 DEF JobOK, NoJob
<1>7. Whole'
  <2>1. Pending' = Pending /\ Downloading' = {} /\ Downloading = {job.doc}
    BY <1>1, <1>2 DEF Pending, Downloading, NoJob
  <2>2. \A e \in CdId \ torn :
          /\ e \in LoadedIn(context) => FieldsIn(context, e) = snapshot[e]
          /\ e \in LoadedIn(store) \ Pending => FieldsIn(store, e) = snapshot[e]
    BY <1>1, <2>1 DEF IInv, Whole, Pending
  <2> QED
    BY <1>2, <2>1, <2>2 DEF Whole, history
<1> QED
  BY <1>3, <1>4, <1>5, <1>6, <1>7 DEF IInv

\* Creating a document keeps the invariant.
LEMMA CreateStep ==
  ASSUME IInv, NEW d \in CdId, addCreatedDocument(d)
  PROVE  IInv'
<1> DEFINE n == [context EXCEPT !.docs = @ \cup {[cdId |-> d, groupMode |-> "1"]}]
<1>1. /\ n \in Content
      /\ LoadedIn(n) = LoadedIn(context) /\ CreatedIn(n) = CreatedIn(context) \cup {d}
      /\ \A e \in CdId : FieldsIn(n, e) = FieldsIn(context, e)
  BY DocInsert DEF IInv, TypeOK
<1>2. context' = n /\ store' \in {n, store}
  BY DEF addCreatedDocument, Save
<1>3. /\ d \notin DocsIn(context) \cup DocsIn(store) \cup deleted
      /\ FieldsIn(context, d) = {} /\ FieldsIn(store, d) = {}
  BY DEF IInv, Fresh, addCreatedDocument
<1> HIDE DEF n
<1>4. TypeOK'
  BY <1>1, <1>2 DEF IInv, TypeOK, addCreatedDocument, Idle
<1>5. OneList'
  BY <1>1, <1>2, <1>3 DEF IInv, OneList, DocsIn
<1>6. Fresh'
  BY <1>1, <1>2, <1>3 DEF IInv, TypeOK, Fresh, DocsIn, addCreatedDocument
<1>7. ScreenFollowsContext'
  BY <1>1, <1>2, <1>3 DEF IInv, TypeOK, ScreenFollowsContext, DocsIn, Downloading,
     addCreatedDocument, Idle, NoJob
<1>8. JobOK'
  BY DEF IInv, JobOK, addCreatedDocument, Idle, NoJob
<1>9. Whole'
  BY <1>1, <1>2, <1>3 DEF IInv, Whole, DocsIn, Pending, Downloading, addCreatedDocument
<1>10. Orphans' /\ Graves'
  BY <1>1, <1>2, <1>3 DEF IInv, Orphans, Graves, DocsIn, addCreatedDocument
<1> QED
  BY <1>4, <1>5, <1>6, <1>7, <1>8, <1>9, <1>10 DEF IInv

\* Marking a field keeps the invariant.
LEMMA AppendFieldStep ==
  ASSUME IInv, NEW d \in CdId, NEW f \in Field, appendField(d, f)
  PROVE  IInv'
<1> DEFINE n == [context EXCEPT !.fields = @ \cup {RowOf(d, f)}]
<1>1. /\ n \in Content /\ n.docs = context.docs
      /\ FieldsIn(n, d) = FieldsIn(context, d) \cup {f}
      /\ \A e \in CdId \ {d} : FieldsIn(n, e) = FieldsIn(context, e)
  BY FieldsInsert DEF IInv, TypeOK
<1>2. LoadedIn(n) = LoadedIn(context) /\ CreatedIn(n) = CreatedIn(context)
  BY <1>1 DEF LoadedIn, CreatedIn
<1>3. context' = n /\ store' \in {n, store}
  BY DEF appendField, Save
<1>4. alive /\ job = NoJob /\ d \in createdDocuments /\ d \in CreatedIn(context)
  BY DEF appendField, Idle, IInv, ScreenFollowsContext
<1>5. d \in used.docs /\ d \notin LoadedIn(context) \cup LoadedIn(store) \cup loadedDocuments
  BY <1>4 DEF IInv, Fresh, OneList, DocsIn, ScreenFollowsContext
<1> HIDE DEF n
<1>6. TypeOK'
  BY <1>1, <1>3 DEF IInv, TypeOK, appendField, Idle, Field
<1>7. OneList'
  BY <1>2, <1>3 DEF IInv, OneList
<1>8. Fresh'
  BY <1>1, <1>2, <1>3, <1>5 DEF IInv, TypeOK, Fresh, DocsIn, appendField
<1>9. ScreenFollowsContext'
  BY <1>1, <1>2, <1>3, <1>4, <1>5 DEF IInv, TypeOK, ScreenFollowsContext, Downloading, appendField
<1>10. JobOK'
  BY <1>4 DEF JobOK, appendField, NoJob
<1>11. Whole'
  BY <1>1, <1>2, <1>3, <1>4, <1>5 DEF IInv, Whole, Pending, Downloading, appendField, NoJob
<1>12. Orphans' /\ Graves'
  BY <1>1, <1>2, <1>3, <1>4 DEF IInv, Orphans, Graves, DocsIn, appendField
<1> QED
  BY <1>6, <1>7, <1>8, <1>9, <1>10, <1>11, <1>12 DEF IInv

\* Removing a field keeps the invariant.
LEMMA RemoveFieldStep ==
  ASSUME IInv, NEW d \in CdId, NEW f \in Field, removeField(d, f)
  PROVE  IInv'
<1> DEFINE n == [context EXCEPT !.fields = @ \ MatchingRows(d, f)]
<1>1. /\ n \in Content /\ n.docs = context.docs
      /\ FieldsIn(n, d) = {g \in FieldsIn(context, d) : g.desc # f.desc}
      /\ \A e \in CdId \ {d} : FieldsIn(n, e) = FieldsIn(context, e)
  BY FieldsRemove DEF IInv, TypeOK, MatchingRows
<1>2. LoadedIn(n) = LoadedIn(context) /\ CreatedIn(n) = CreatedIn(context)
  BY <1>1 DEF LoadedIn, CreatedIn
<1>3. context' = n /\ store' \in {n, store}
  BY DEF removeField, Save
<1>4. alive /\ job = NoJob /\ d \in createdDocuments /\ d \in CreatedIn(context)
  BY DEF removeField, Idle, IInv, ScreenFollowsContext
<1>5. d \in used.docs /\ d \notin LoadedIn(context) \cup LoadedIn(store) \cup loadedDocuments
  BY <1>4 DEF IInv, Fresh, OneList, DocsIn, ScreenFollowsContext
<1>6. MatchingRows(d, f) \subseteq {RowOf(d, f)} =>
        \A g \in FieldsIn(context, d) : g.desc = f.desc => g = f
  <2> SUFFICES ASSUME MatchingRows(d, f) \subseteq {RowOf(d, f)},
                      NEW g \in FieldsIn(context, d), g.desc = f.desc
               PROVE  g = f
    OBVIOUS
  <2>1. g \in Field /\ RowOf(d, g) \in context.fields
    BY FieldsInRows DEF IInv, TypeOK
  <2>2. RowOf(d, g) \in MatchingRows(d, f)
    BY <2>1, RowInverse DEF MatchingRows
  <2> QED
    BY <2>1, <2>2, RowInverse
<1> HIDE DEF n
<1>7. TypeOK'
  BY <1>1, <1>3 DEF IInv, TypeOK, removeField, Idle
<1>8. OneList'
  BY <1>2, <1>3 DEF IInv, OneList
<1>9. Fresh'
  BY <1>1, <1>2, <1>3, <1>5 DEF IInv, TypeOK, Fresh, DocsIn, removeField
<1>10. ScreenFollowsContext'
  BY <1>1, <1>2, <1>3, <1>4, <1>5, <1>6 DEF IInv, TypeOK, ScreenFollowsContext, Downloading, removeField
<1>11. JobOK'
  BY <1>4 DEF JobOK, removeField, NoJob
<1>12. Whole'
  BY <1>1, <1>2, <1>3, <1>4, <1>5 DEF IInv, Whole, Pending, Downloading, removeField, NoJob
<1>13. Orphans' /\ Graves'
  BY <1>1, <1>2, <1>3, <1>4 DEF IInv, Orphans, Graves, DocsIn, removeField
<1> QED
  BY <1>7, <1>8, <1>9, <1>10, <1>11, <1>12, <1>13 DEF IInv

\* The first half of a deletion keeps the invariant.
LEMMA OnDeleteStep ==
  ASSUME IInv, NEW d \in CdId, onDelete(d)
  PROVE  IInv'
<1> DEFINE n == [context EXCEPT !.docs = {r \in @ : r.cdId # d}]
<1>1. /\ n \in Content
      /\ LoadedIn(n) = LoadedIn(context) \ {d} /\ CreatedIn(n) = CreatedIn(context) \ {d}
      /\ \A e \in CdId : FieldsIn(n, e) = FieldsIn(context, e)
  BY DocDelete DEF IInv, TypeOK
<1>2. context' = n /\ store' \in {n, store}
  BY DEF onDelete, Save
<1>3. alive /\ job = NoJob /\ d \in DocsIn(context) /\ d \in used.docs /\ Downloading = {}
  BY DEF onDelete, Idle, IInv, Fresh, ScreenFollowsContext, DocsIn, Downloading, NoJob
<1>4. /\ job' = [kind |-> "delete", doc |-> d, fields |-> {}, todo |-> {}]
      /\ deleted' = deleted \cup {d} /\ torn' = torn \cup ({d} \cap Pending)
      /\ UNCHANGED <<alive, snapshot, clashed, used>>
  BY DEF onDelete
<1> HIDE DEF n
<1>5. TypeOK'
  BY <1>1, <1>2, <1>4 DEF IInv, TypeOK, onDelete
<1>6. OneList'
  BY <1>1, <1>2 DEF IInv, OneList
<1>7. Fresh'
  BY <1>1, <1>2, <1>3, <1>4 DEF IInv, Fresh, DocsIn
<1>8. ScreenFollowsContext'
  BY <1>1, <1>2, <1>3, <1>4 DEF IInv, TypeOK, ScreenFollowsContext, Downloading, onDelete
<1>9. JobOK'
  BY <1>1, <1>2, <1>3, <1>4 DEF IInv, JobOK, Pending, DocsIn
<1>10. Whole'
  BY <1>1, <1>2, <1>3, <1>4 DEF IInv, Whole, Pending, Downloading
<1>11. Orphans'
  BY <1>1, <1>2, <1>4 DEF IInv, Orphans, DocsIn
<1>12. Graves'
  BY <1>1, <1>2, <1>4 DEF IInv, Graves, DocsIn
<1> QED
  BY <1>5, <1>6, <1>7, <1>8, <1>9, <1>10, <1>11, <1>12 DEF IInv

\* The second half of a deletion keeps the invariant.
LEMMA DeleteFieldsStep ==
  ASSUME IInv, deleteFields
  PROVE  IInv'
<1> DEFINE d == job.doc
           n == [context EXCEPT !.fields = {r \in @ : r.parent # d}]
<1>1. /\ alive /\ job.kind = "delete" /\ d \in deleted /\ d \in CdId /\ d \notin DocsIn(context)
      /\ (d \in Pending => d \in torn) /\ Downloading = {}
  BY DEF deleteFields, IInv, TypeOK, JobOK, Downloading
<1>2. /\ n \in Content /\ n.docs = context.docs /\ FieldsIn(n, d) = {}
      /\ \A e \in CdId \ {d} : FieldsIn(n, e) = FieldsIn(context, e)
  BY <1>1, FieldsDelete DEF IInv, TypeOK
<1>3. LoadedIn(n) = LoadedIn(context) /\ CreatedIn(n) = CreatedIn(context)
  BY <1>2 DEF LoadedIn, CreatedIn
<1>4. /\ context' = n /\ store' \in {n, store}
      /\ job' = NoJob /\ UNCHANGED <<alive, screen, history>>
  BY DEF deleteFields, Save
<1> HIDE DEF n
<1>5. TypeOK'
  BY <1>2, <1>4 DEF IInv, TypeOK, NoJob, screen, history
<1>6. OneList'
  BY <1>3, <1>4 DEF IInv, OneList
<1>7. Fresh'
  BY <1>1, <1>2, <1>3, <1>4 DEF IInv, TypeOK, Fresh, DocsIn, history
<1>8. ScreenFollowsContext'
  BY <1>1, <1>2, <1>3, <1>4 DEF IInv, TypeOK, ScreenFollowsContext, DocsIn, Downloading,
     NoJob, screen, history
<1>9. JobOK'
  BY <1>1, <1>4 DEF JobOK, NoJob
<1>10. Whole'
  BY <1>1, <1>2, <1>3, <1>4 DEF IInv, Whole, DocsIn, Pending, Downloading, NoJob, history
<1>11. Orphans' /\ Graves'
  BY <1>1, <1>2, <1>3, <1>4 DEF IInv, Orphans, Graves, DocsIn, history
<1> QED
  BY <1>5, <1>6, <1>7, <1>8, <1>9, <1>10, <1>11 DEF IInv

\* The end of the process keeps the invariant.
LEMMA StopStep ==
  ASSUME IInv, Stop
  PROVE  IInv'
<1>1. /\ alive' = FALSE /\ context' = store /\ job' = NoJob
      /\ loadedDocuments' = {} /\ createdDocuments' = {} /\ fieldsToFill' = NoFields
      /\ torn' = torn \cup Pending \cup Downloading
      /\ UNCHANGED <<store, snapshot, deleted, clashed, used>>
  BY DEF Stop
<1>2. TypeOK'
  <2>1. Downloading \subseteq CdId /\ Pending \subseteq CdId
    BY DEF IInv, JobOK, Downloading, Pending, LoadedIn
  <2> QED
    BY <1>1, <2>1 DEF IInv, TypeOK, NoJob, NoFields
<1>3. OneList' /\ Fresh'
  BY <1>1 DEF IInv, OneList, Fresh, DocsIn
<1>4. ScreenFollowsContext' /\ JobOK'
  BY <1>1 DEF ScreenFollowsContext, JobOK, NoJob
<1>5. Whole'
  BY <1>1 DEF IInv, Whole, Pending, Downloading, NoJob
<1>6. Orphans' /\ Graves'
  BY <1>1 DEF IInv, Orphans, Graves, DocsIn
<1> QED
  BY <1>2, <1>3, <1>4, <1>5, <1>6 DEF IInv

\* Going to the background keeps the invariant.
LEMMA BackgroundStep ==
  ASSUME IInv, sceneDidEnterBackground
  PROVE  IInv'
<1>1. CASE Stop
  BY <1>1, StopStep
<1>2. CASE store' = context /\ UNCHANGED <<alive, screen, context, job, history>>
  <2>1. TypeOK' /\ OneList' /\ Fresh' /\ ScreenFollowsContext' /\ Orphans' /\ Graves'
    BY <1>2 DEF IInv, TypeOK, OneList, Fresh, ScreenFollowsContext, Orphans, Graves, DocsIn,
       Downloading, screen, history
  <2>2. JobOK'
    BY <1>2 DEF IInv, JobOK, sceneDidEnterBackground, Idle, NoJob
  <2>3. Whole'
    BY <1>2 DEF IInv, Whole, Pending, Downloading, history
  <2> QED
    BY <2>1, <2>2, <2>3 DEF IInv
<1> QED
  BY <1>1, <1>2 DEF sceneDidEnterBackground

\* Starting the app keeps the invariant.
LEMMA LoadStep ==
  ASSUME IInv, loadDocuments
  PROVE  IInv'
<1>1. /\ alive' = TRUE /\ loadedDocuments' = LoadedIn(context)
      /\ createdDocuments' = CreatedIn(context)
      /\ fieldsToFill' = [d \in CdId |-> IF d \in DocsIn(context) THEN FieldsIn(context, d) ELSE {}]
      /\ UNCHANGED <<context, store, job, history>> /\ job = NoJob
  BY DEF loadDocuments, IInv, JobOK
<1>2. TypeOK'
  <2>1. \A d \in CdId : FieldsIn(context, d) \subseteq Field
    BY FieldsInRows DEF IInv, TypeOK
  <2> QED
    BY <1>1, <2>1 DEF IInv, TypeOK, LoadedIn, CreatedIn, history
<1>3. OneList' /\ Fresh' /\ Orphans' /\ Graves'
  BY <1>1 DEF IInv, OneList, Fresh, Orphans, Graves, DocsIn, history
<1>4. ScreenFollowsContext'
  <2>1. LoadedIn(context) \subseteq CdId /\ CreatedIn(context) \subseteq CdId
    BY DEF LoadedIn, CreatedIn
  <2> QED
    BY <1>1, <2>1 DEF ScreenFollowsContext, Downloading, NoJob, DocsIn
<1>5. JobOK'
  BY <1>1 DEF JobOK, NoJob
<1>6. Whole'
  BY <1>1 DEF IInv, Whole, Pending, Downloading, history
<1> QED
  BY <1>2, <1>3, <1>4, <1>5, <1>6 DEF IInv

\* Every step keeps the invariant.
LEMMA NextIInv == IInv /\ [Next]_vars => IInv'
<1> SUFFICES ASSUME IInv, [Next]_vars PROVE IInv'
  OBVIOUS
<1>1. ASSUME NEW d \in CdId, NEW F \in SUBSET Field, downloadDocument(d, F) PROVE IInv'
  BY <1>1, DownloadStep
<1>2. ASSUME NEW d \in CdId, addCreatedDocument(d) PROVE IInv'
  BY <1>2, CreateStep
<1>3. ASSUME NEW d \in CdId, NEW f \in Field, appendField(d, f) PROVE IInv'
  BY <1>3, AppendFieldStep
<1>4. ASSUME NEW d \in CdId, NEW f \in Field, removeField(d, f) PROVE IInv'
  BY <1>4, RemoveFieldStep
<1>5. ASSUME NEW d \in CdId, onDelete(d) PROVE IInv'
  BY <1>5, OnDeleteStep
<1>6. ASSUME NEW f \in Field, saveNextField(f) PROVE IInv'
  BY <1>6, SaveNextFieldStep
<1>7. CASE finishDownload
  BY <1>7, FinishDownloadStep
<1>8. CASE deleteFields
  BY <1>8, DeleteFieldsStep
<1>9. CASE Kill
  BY <1>9, StopStep DEF Kill
<1>10. CASE sceneDidEnterBackground
  BY <1>10, BackgroundStep
<1>11. CASE loadDocuments
  BY <1>11, LoadStep
<1>12. CASE UNCHANGED vars
  BY <1>12 DEF vars, screen, history, IInv, TypeOK, OneList, Fresh, ScreenFollowsContext, JobOK,
     Whole, Orphans, Graves, DocsIn, Pending, Downloading
<1> QED
  BY <1>1, <1>2, <1>3, <1>4, <1>5, <1>6, <1>7, <1>8, <1>9, <1>10, <1>11, <1>12 DEF Next

\* The inductive invariant holds in every reachable state.
THEOREM Invariance == Spec => []IInv
  BY InitIInv, NextIInv, PTL DEF Spec

\* Every variable keeps its type: stored rows only carry labels that
\* fieldTypeFromString reads back as the kind that was stored.
THEOREM TypeCorrect == Spec => []TypeOK
<1>1. IInv => TypeOK
  BY DEF IInv
<1> QED
  BY <1>1, Invariance, PTL

\* Between handlers, with nothing left to save, a kill and a restart show what the
\* user sees now; only removeField on two equal descriptions loses fields.
THEOREM RestartShowsScreen == Spec => []CrashSafe
<1>1. IInv => CrashSafe
  BY DEF IInv, CrashSafe, ScreenFollowsContext, Idle, hasChanges, Downloading, NoJob
<1> QED
  BY <1>1, Invariance, PTL

\* Field rows without a document are left by deletions only.
THEOREM OrphanRows == Spec => []OrphansOnlyFromDeletes
<1>1. IInv => OrphansOnlyFromDeletes
  BY DEF IInv, Orphans, OrphansOnlyFromDeletes
<1> QED
  BY <1>1, Invariance, PTL

\* A downloaded document that no kill or delete met half saved has all its fields.
THEOREM DownloadsAreWhole == Spec => []WholeUnlessTorn
<1>1. IInv => WholeUnlessTorn
  BY DEF IInv, TypeOK, Whole, WholeUnlessTorn, ScreenFollowsContext, JobOK, Downloading
<1> QED
  BY <1>1, Invariance, PTL

\* A deletion that reached the disk is never undone.
THEOREM DeletionIsFinal == Spec => DeletedStaysDeleted
<1>1. IInv /\ [Next]_vars =>
        [\A d \in deleted : d \notin DocsIn(store) => d \notin DocsIn(store)']_vars
  <2> SUFFICES ASSUME IInv, Next, NEW d \in deleted, d \notin DocsIn(store)
               PROVE  d \notin DocsIn(store')
    OBVIOUS
  <2>1. d \in CdId /\ d \in used.docs /\ d \notin DocsIn(context)
    BY DEF IInv, TypeOK, Fresh, Graves
  <2>2. store' = store \/ store' = context \/ store' = context'
    BY DEF Next, downloadDocument, addCreatedDocument, appendField, removeField, onDelete,
       saveNextField, finishDownload, deleteFields, Kill, Stop, sceneDidEnterBackground,
       loadDocuments, Save
  <2>3. d \notin DocsIn(context')
    <3>1. \A m \in {"0", "1"} :
            /\ [cdId |-> d, groupMode |-> m] \notin context.docs
            /\ [cdId |-> d, groupMode |-> m] \notin store.docs
      BY <2>1 DEF DocsIn, LoadedIn, CreatedIn
    <3>2. \A m \in {"0", "1"} : [cdId |-> d, groupMode |-> m] \notin context'.docs
      BY <2>1, <3>1 DEF Next, downloadDocument, addCreatedDocument, appendField, removeField, onDelete,
         saveNextField, finishDownload, deleteFields, Kill, Stop, sceneDidEnterBackground,
         loadDocuments, Save, IInv, TypeOK, Content
    <3> QED
      BY <3>2 DEF DocsIn, LoadedIn, CreatedIn
  <2> QED
    BY <2>1, <2>2, <2>3
<1> QED
  BY <1>1, Invariance, PTL DEF Spec, DeletedStaysDeleted
===============================================================================
