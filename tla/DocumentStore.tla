---------------------------- MODULE DocumentStore ----------------------------
(***************************************************************************)
(* The document library of the app: the lists that GlobalEnviroment shows  *)
(* and the Core Data rows they are rebuilt from after a restart.           *)
(*                                                                         *)
(* Every handler runs on the main queue, so no two handlers interleave,    *)
(* but the process can be killed at any point of one: a handler that saves *)
(* the managed object context several times is several actions here, one   *)
(* per save, and job says which handler is under way.                      *)
(***************************************************************************)
EXTENDS FieldTypes

CONSTANTS
  CdId,     \* the UUIDs given to DocumentModel.cdID
  Key,      \* identities of fields: a rectangle on the page, and the object's identity
  Desc,     \* descriptions a user may type
  Types,    \* the field kinds used
  NoDoc     \* no document

ASSUME TypesAssumption == Types \subseteq FieldType
ASSUME NoDocAssumption == NoDoc \notin CdId

VARIABLES
  alive,            \* the process runs
  loadedDocuments,  \* cdIDs in GlobalEnviroment.loadedDocuments
  createdDocuments, \* cdIDs in GlobalEnviroment.createdDocuments
  fieldsToFill,     \* the fields of each listed document, in memory
  context,          \* rows as the managed object context sees them
  store,            \* rows in the persistent store, on disk
  job,              \* the handler that is between two of its saves
  \* History variables: they record what happened and steer nothing, but for used.
  snapshot,         \* the fields each downloaded document had on the server
  torn,             \* documents killed or deleted before all their rows were saved
  deleted,          \* documents on which the user ran onDelete
  clashed,          \* documents where removeField met two rows of one description
  used              \* cdIDs and keys given out so far: UUIDs do not repeat

history == <<snapshot, torn, deleted, clashed, used>>
screen == <<loadedDocuments, createdDocuments, fieldsToFill>>
vars == <<alive, screen, context, store, job, history>>

Field == [key : Key, desc : Desc, type : Types]
DocRow == [cdId : CdId, groupMode : {"0", "1"}]
FieldRow == [parent : CdId, key : Key, desc : Desc, type : {stringFromFieldType(t) : t \in Types}]
Content == [docs : SUBSET DocRow, fields : SUBSET FieldRow]

NoContent == [docs |-> {}, fields |-> {}]
NoJob == [kind |-> "none", doc |-> NoDoc, fields |-> {}, todo |-> {}]
NoFields == [d \in CdId |-> {}]
-------------------------------------------------------------------------------

\* The CDDocumentField row written for field f of document d.
RowOf(d, f) ==
  [parent |-> d, key |-> f.key, desc |-> f.desc, type |-> stringFromFieldType(f.type)]

\* The DocumentField loadDocuments makes of a row.
FieldOf(r) ==
  [key |-> r.key, desc |-> r.desc, type |-> fieldTypeFromString(r.type)]

\* What loadDocuments makes of rows c: the fields of a document, and both lists.
FieldsIn(c, d) == {FieldOf(r) : r \in {row \in c.fields : row.parent = d}}
LoadedIn(c) == {d \in CdId : [cdId |-> d, groupMode |-> "0"] \in c.docs}
CreatedIn(c) == {d \in CdId : [cdId |-> d, groupMode |-> "1"] \in c.docs}
DocsIn(c) == LoadedIn(c) \cup CreatedIn(c)

hasChanges == context # store

\* Documents with fields that no save has brought to the disk yet.
Pending == {d \in CdId : ~ (FieldsIn(context, d) \subseteq FieldsIn(store, d))}

\* The document whose download is under way.
Downloading == IF job.kind = "download" THEN {job.doc} ELSE {}

\* context.save() after the context became c, in a do/catch that only prints the
\* error: all pending changes reach the disk, or none does and they stay pending.
Save(c) ==
  /\ context' = c
  /\ store' \in {c, store}

Idle == alive /\ job = NoJob
-------------------------------------------------------------------------------
Init ==
  /\ alive = FALSE
  /\ loadedDocuments = {} /\ createdDocuments = {} /\ fieldsToFill = NoFields
  /\ context = NoContent /\ store = NoContent
  /\ job = NoJob
  /\ snapshot = NoFields
  /\ torn = {} /\ deleted = {} /\ clashed = {}
  /\ used = [docs |-> {}, keys |-> {}]

KeysOf(F) == {f.key : f \in F}
FreshFields(F) ==
  /\ KeysOf(F) \cap used.keys = {}
  /\ \A f, g \in F : f.key = g.key => f = g

\* The snapshot of a shared document with a non-empty url arrives with fields F:
\* its row is inserted and saved, then the loop over the fields begins.
downloadDocument(d, F) ==
  /\ Idle
  /\ d \notin used.docs /\ FreshFields(F)
  /\ Save([context EXCEPT !.docs = @ \cup {[cdId |-> d, groupMode |-> "0"]}])
  /\ job' = [kind |-> "download", doc |-> d, fields |-> F, todo |-> F]
  /\ snapshot' = [snapshot EXCEPT ![d] = F]
  /\ used' = [docs |-> used.docs \cup {d}, keys |-> used.keys \cup KeysOf(F)]
  /\ UNCHANGED <<alive, screen, torn, deleted, clashed>>

\* One turn of that loop: a row inserted and saved.
saveNextField(f) ==
  /\ alive /\ job.kind = "download" /\ f \in job.todo
  /\ Save([context EXCEPT !.fields = @ \cup {RowOf(job.doc, f)}])
  /\ job' = [job EXCEPT !.todo = @ \ {f}]
  /\ UNCHANGED <<alive, screen, history>>

\* The end of the handler: the document appears on the home screen.
finishDownload ==
  /\ alive /\ job.kind = "download" /\ job.todo = {}
  /\ loadedDocuments' = loadedDocuments \cup {job.doc}
  /\ fieldsToFill' = [fieldsToFill EXCEPT ![job.doc] = job.fields]
  /\ job' = NoJob
  /\ UNCHANGED <<alive, createdDocuments, context, store, history>>

\* CreateDocumentView's Create button: a document without fields.
addCreatedDocument(d) ==
  /\ Idle
  /\ d \notin used.docs
  /\ createdDocuments' = createdDocuments \cup {d}
  /\ Save([context EXCEPT !.docs = @ \cup {[cdId |-> d, groupMode |-> "1"]}])
  /\ used' = [used EXCEPT !.docs = @ \cup {d}]
  /\ UNCHANGED <<alive, loadedDocuments, fieldsToFill, job, snapshot, torn, deleted, clashed>>

\* The user marks a field on the PDF of a created document.
appendField(d, f) ==
  /\ Idle
  /\ d \in createdDocuments /\ f.key \notin used.keys
  /\ Save([context EXCEPT !.fields = @ \cup {RowOf(d, f)}])
  /\ fieldsToFill' = [fieldsToFill EXCEPT ![d] = @ \cup {f}]
  /\ used' = [used EXCEPT !.keys = @ \cup {f.key}]
  /\ UNCHANGED <<alive, loadedDocuments, createdDocuments, job, snapshot, torn, deleted, clashed>>

\* Mutated MatchingRows: the parent is not compared.
MatchingRowsAnyParent(d, f) == {r \in context.fields : r.desc = f.desc}

\* The rows removeField deletes: every one of document d with f's description.
MatchingRows(d, f) == {r \in context.fields : r.parent = d /\ r.desc = f.desc}

\* The user swipes one field of a created document away.
removeField(d, f) ==
  /\ Idle
  /\ d \in createdDocuments /\ f \in fieldsToFill[d]
  /\ Save([context EXCEPT !.fields = @ \ MatchingRows(d, f)])
  /\ fieldsToFill' = [fieldsToFill EXCEPT ![d] = @ \ {f}]
  /\ clashed' = IF MatchingRows(d, f) \subseteq {RowOf(d, f)} THEN clashed
                ELSE clashed \cup {d}
  /\ UNCHANGED <<alive, loadedDocuments, createdDocuments, job, snapshot, torn, deleted, used>>

\* Mutated onDelete: the field rows are deleted and saved before the document's.
onDeleteFieldsFirst(d) ==
  /\ Idle
  /\ d \in loadedDocuments \cup createdDocuments
  /\ loadedDocuments' = loadedDocuments \ {d}
  /\ createdDocuments' = createdDocuments \ {d}
  /\ fieldsToFill' = [fieldsToFill EXCEPT ![d] = {}]
  /\ Save([context EXCEPT !.fields = {r \in @ : r.parent # d}])
  /\ job' = [kind |-> "delete", doc |-> d, fields |-> {}, todo |-> {}]
  /\ deleted' = deleted \cup {d}
  /\ torn' = torn \cup ({d} \cap Pending)
  /\ UNCHANGED <<alive, snapshot, clashed, used>>

\* Mutated onDelete: the document leaves its list, its row stays.
onDeleteListOnly(d) ==
  /\ Idle
  /\ d \in loadedDocuments \cup createdDocuments
  /\ loadedDocuments' = loadedDocuments \ {d}
  /\ createdDocuments' = createdDocuments \ {d}
  /\ fieldsToFill' = [fieldsToFill EXCEPT ![d] = {}]
  /\ job' = [kind |-> "delete", doc |-> d, fields |-> {}, todo |-> {}]
  /\ deleted' = deleted \cup {d}
  /\ torn' = torn \cup ({d} \cap Pending)
  /\ UNCHANGED <<alive, context, store, snapshot, clashed, used>>

\* A document is deleted on the home screen: it leaves its list, and its row is
\* deleted and saved; the rows of its fields follow.
onDelete(d) ==
  /\ Idle
  /\ d \in loadedDocuments \cup createdDocuments
  /\ loadedDocuments' = loadedDocuments \ {d}
  /\ createdDocuments' = createdDocuments \ {d}
  /\ fieldsToFill' = [fieldsToFill EXCEPT ![d] = {}]
  /\ Save([context EXCEPT !.docs = {r \in @ : r.cdId # d}])
  /\ job' = [kind |-> "delete", doc |-> d, fields |-> {}, todo |-> {}]
  /\ deleted' = deleted \cup {d}
  /\ torn' = torn \cup ({d} \cap Pending)
  /\ UNCHANGED <<alive, snapshot, clashed, used>>

\* The rest of onDelete: the field rows go, with one save for all of them.
deleteFields ==
  /\ alive /\ job.kind = "delete"
  /\ Save([context EXCEPT !.fields = {r \in @ : r.parent # job.doc}])
  /\ job' = NoJob
  /\ UNCHANGED <<alive, screen, history>>
-------------------------------------------------------------------------------
\* The process ends: memory and pending changes are gone.
Stop ==
  /\ alive' = FALSE
  /\ loadedDocuments' = {} /\ createdDocuments' = {} /\ fieldsToFill' = NoFields
  /\ context' = store
  /\ job' = NoJob
  /\ torn' = torn \cup Pending \cup Downloading
  /\ UNCHANGED <<store, snapshot, deleted, clashed, used>>

\* The system or the user kills the app, at any point of any handler.
Kill == alive /\ Stop

\* saveContext when the scene goes to the background: pending changes are saved,
\* or the error ends the process (fatalError).
sceneDidEnterBackground ==
  /\ Idle /\ hasChanges
  /\ \/ store' = context /\ UNCHANGED <<alive, screen, context, job, history>>
     \/ Stop

\* The app starts: onAppear rebuilds both lists from the rows.
loadDocuments ==
  /\ ~alive
  /\ alive' = TRUE
  /\ loadedDocuments' = LoadedIn(context)
  /\ createdDocuments' = CreatedIn(context)
  /\ fieldsToFill' = [d \in CdId |->
       IF d \in DocsIn(context) THEN FieldsIn(context, d) ELSE {}]
  /\ UNCHANGED <<context, store, job, history>>

Next ==
  \/ \E d \in CdId :
       \/ \E F \in SUBSET Field : downloadDocument(d, F)
       \/ addCreatedDocument(d)
       \/ \E f \in Field : appendField(d, f) \/ removeField(d, f)
       \/ onDelete(d)
  \/ \E f \in Field : saveNextField(f)
  \/ finishDownload
  \/ deleteFields
  \/ Kill
  \/ sceneDidEnterBackground
  \/ loadDocuments

Spec == Init /\ [][Next]_vars
-------------------------------------------------------------------------------
TypeOK ==
  /\ alive \in BOOLEAN
  /\ loadedDocuments \subseteq CdId /\ createdDocuments \subseteq CdId
  /\ fieldsToFill \in [CdId -> SUBSET Field]
  /\ context \in Content /\ store \in Content
  /\ job \in [kind : {"none", "download", "delete"}, doc : CdId \cup {NoDoc},
              fields : SUBSET Field, todo : SUBSET Field]
  /\ snapshot \in [CdId -> SUBSET Field]
  /\ torn \subseteq CdId /\ deleted \subseteq CdId /\ clashed \subseteq CdId
  /\ used \in [docs : SUBSET CdId, keys : SUBSET Key]

\* Between handlers, once every save has succeeded, killing the app and starting
\* it again shows the lists the user sees now, with the fields the user sees now.
\* Only a document on which removeField deleted two rows at once may come back
\* with fewer fields, and never with a field the user does not see.
CrashSafe ==
  (Idle /\ ~hasChanges) =>
    /\ LoadedIn(store) = loadedDocuments
    /\ CreatedIn(store) = createdDocuments
    /\ \A d \in loadedDocuments \cup createdDocuments :
         /\ FieldsIn(store, d) \subseteq fieldsToFill[d]
         /\ d \notin clashed => FieldsIn(store, d) = fieldsToFill[d]

\* A field row on disk whose document row is missing belongs to a document the
\* user deleted: no download, creation or edit, cut short or with a failed save,
\* leaves field rows without their document.
OrphansOnlyFromDeletes ==
  \A d \in CdId : FieldsIn(store, d) # {} => d \in DocsIn(store) \cup deleted

\* A downloaded document is shown with exactly the fields its server snapshot
\* had, unless a kill or a delete met it with rows that no save had stored. A document that
\* comes back because its deletion was not saved comes back whole.
WholeUnlessTorn ==
  \A d \in loadedDocuments : d \notin torn => fieldsToFill[d] = snapshot[d]

\* A deletion that reached the disk is final: no later save, kill or restart
\* brings the document's row back.
DeletedStaysDeleted ==
  [][\A d \in deleted : d \notin DocsIn(store) => d \notin DocsIn(store)']_vars

-------------------------------------------------------------------------------
(* The inductive invariant behind the properties above. *)

\* A document is in one list only, whatever has been saved.
OneList ==
  /\ LoadedIn(context) \cap CreatedIn(context) = {} /\ LoadedIn(context) \cap CreatedIn(store) = {}
  /\ LoadedIn(store) \cap CreatedIn(context) = {} /\ LoadedIn(store) \cap CreatedIn(store) = {}

\* A cdID that was never given out has no row.
Fresh ==
  \A d \in CdId \ used.docs :
    /\ d \notin DocsIn(context) \cup DocsIn(store) \cup deleted
    /\ FieldsIn(context, d) = {} /\ FieldsIn(store, d) = {}

\* The lists on the screen are the ones the context would give.
ScreenFollowsContext ==
  IF ~alive THEN loadedDocuments = {} /\ createdDocuments = {} ELSE
    /\ loadedDocuments = LoadedIn(context) \ Downloading
    /\ createdDocuments = CreatedIn(context)
    /\ \A d \in loadedDocuments : fieldsToFill[d] = FieldsIn(context, d)
    /\ \A d \in createdDocuments :
         /\ FieldsIn(context, d) \subseteq fieldsToFill[d]
         /\ d \notin clashed => fieldsToFill[d] = FieldsIn(context, d)
    /\ \A d \in CdId \ (loadedDocuments \cup createdDocuments) : fieldsToFill[d] = {}

\* How far each handler has come.
JobOK ==
  /\ job.kind = "none" => job = NoJob
  /\ job.kind = "download" =>
       /\ job.doc \in LoadedIn(context) /\ job.doc \in used.docs
       /\ job.todo \subseteq job.fields /\ job.fields = snapshot[job.doc]
       /\ FieldsIn(context, job.doc) = job.fields \ job.todo
       /\ FieldsIn(store, job.doc) \subseteq FieldsIn(context, job.doc)
  /\ job.kind = "delete" =>
       /\ job.doc \in deleted \ DocsIn(context)
       /\ job.doc \in Pending => job.doc \in torn
  /\ ~alive => context = store /\ job = NoJob

\* Downloaded documents whose rows are all there have all their fields.
Whole ==
  \A d \in CdId \ (torn \cup Downloading) :
    /\ d \in LoadedIn(context) => FieldsIn(context, d) = snapshot[d]
    /\ d \in LoadedIn(store) \ Pending => FieldsIn(store, d) = snapshot[d]

\* Field rows without their document row belong to deleted documents.
Orphans ==
  \A d \in CdId :
    /\ FieldsIn(context, d) # {} => d \in DocsIn(context) \cup deleted
    /\ FieldsIn(store, d) # {} => d \in DocsIn(store) \cup deleted

\* No pending change would bring a deleted document back.
Graves == \A d \in deleted : d \in DocsIn(context) => d \in DocsIn(store)

IInv ==
  /\ TypeOK /\ OneList /\ Fresh /\ ScreenFollowsContext
  /\ JobOK /\ Whole /\ Orphans /\ Graves
===============================================================================
