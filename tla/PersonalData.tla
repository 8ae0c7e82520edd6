----------------------------- MODULE PersonalData -----------------------------
(***************************************************************************)
(* The user's personal data: the list that autocomplete reads, the screen  *)
(* that edits it, and the CDPerData rows it is rebuilt from at a start.    *)
(*                                                                         *)
(* The list is in the order of additions; the rows come back in the order  *)
(* of createdAt, the time the device's clock showed. The clock may be set  *)
(* back, but no two entries are created at the same instant.               *)
(***************************************************************************)
EXTENDS FieldTypes, Integers, SequencesExt

CONSTANTS
  Info,     \* texts of personal data
  Types,    \* the kinds used
  MaxTime   \* bound on the instants at which an entry is created

ASSUME TypesAssumption == Types \subseteq FieldType
ASSUME TimeAssumption == MaxTime \in Nat

VARIABLES
  alive,                   \* the app runs
  personalData,            \* GlobalEnviroment.personalData
  context,                 \* rows as the managed object context sees them
  store,                   \* rows on disk
  personalDataIsPresented, \* the screen is up
  extendView,              \* its form for a new entry is open
  used,                    \* history: instants at which entries were created
  erased                   \* history: entries whose deletion is on disk

history == <<used, erased>>
dataVars == <<alive, personalData, context, store, personalDataIsPresented, extendView, history>>
-------------------------------------------------------------------------------
Time == 1 .. MaxTime
Entry == [info : Info, type : Types, createdAt : Time]
Row == [info : Info, type : {stringFromFieldType(t) : t \in Types}, createdAt : Time]

\* The row written for an entry, and the entry that is read from a row.
RowOf(m) == [m EXCEPT !.type = stringFromFieldType(m.type)]
EntryOf(r) == [r EXCEPT !.type = fieldTypeFromString(r.type)]

\* What fetching the rows may give: each of them once, by rising createdAt.
getAllCDData(rows) ==
  {s \in [1 .. Cardinality(rows) -> rows] :
     /\ \A r \in rows : \E k \in DOMAIN s : s[k] = r
     /\ \A j, k \in DOMAIN s : j < k => s[j] # s[k] /\ s[j].createdAt <= s[k].createdAt}

\* The lists that a start of the app may make of the rows.
Reload(rows) == {[k \in DOMAIN s |-> EntryOf(s[k])] : s \in getAllCDData(rows)}

\* Saving the context succeeds, or it fails and the changes stay in the context.
Save(rows) ==
  /\ context' = rows
  /\ store' \in {rows, store}

InitData ==
  /\ alive = TRUE /\ personalData = <<>>
  /\ context = {} /\ store = {}
  /\ personalDataIsPresented = FALSE /\ extendView = FALSE
  /\ used = {} /\ erased = {}
-------------------------------------------------------------------------------
\* The person button of the home screen, and the sheet's dismissal.
presentPersonalData ==
  /\ alive /\ ~personalDataIsPresented
  /\ personalDataIsPresented' = TRUE /\ extendView' = FALSE
  /\ UNCHANGED <<alive, personalData, context, store, history>>

dismissPersonalData ==
  /\ alive /\ personalDataIsPresented
  /\ personalDataIsPresented' = FALSE /\ extendView' = FALSE
  /\ UNCHANGED <<alive, personalData, context, store, history>>

\* The Add button opens the form, and closes it when no text was typed.
toggleForm ==
  /\ alive /\ personalDataIsPresented
  /\ extendView' = ~extendView
  /\ UNCHANGED <<alive, personalData, context, store, personalDataIsPresented, history>>

\* The Add button with a text typed into the form, at instant t.
createNew(info, type, t) ==
  /\ alive /\ personalDataIsPresented /\ extendView
  /\ t \notin used
  /\ LET model == [info |-> info, type |-> fieldTypeFromString(stringFromFieldType(type)), createdAt |-> t]
     IN  /\ personalData' = Append(personalData, model)
         /\ Save(context \cup {RowOf(model)})
  /\ extendView' = FALSE
  /\ used' = used \cup {t}
  /\ UNCHANGED <<alive, personalDataIsPresented, erased>>

\* Mutated onDelete: only the list is changed.
onDeleteListOnly(k) ==
  /\ alive /\ personalDataIsPresented /\ k \in DOMAIN personalData
  /\ personalData' = RemoveAt(personalData, k)
  /\ erased' = erased \cup {personalData[k].createdAt}
  /\ UNCHANGED <<alive, context, store, personalDataIsPresented, extendView, used>>

\* An entry is swiped away: it leaves the list, and the rows created at the same
\* instant are deleted.
onDelete(k) ==
  /\ alive /\ personalDataIsPresented /\ k \in DOMAIN personalData
  /\ LET model == personalData[k]
     IN  /\ personalData' = RemoveAt(personalData, k)
         /\ Save({r \in context : r.createdAt # model.createdAt})
         /\ erased' = erased \cup (IF store' = context' THEN {model.createdAt} ELSE {})
  /\ UNCHANGED <<alive, personalDataIsPresented, extendView, used>>

\* Another save of the same context, of a document or on entering the background.
saveContext ==
  /\ alive /\ store # context
  /\ store' = context
  /\ erased' = erased \cup {r.createdAt : r \in store \ context}
  /\ UNCHANGED <<alive, personalData, context, personalDataIsPresented, extendView, used>>

\* The app is killed: the lists and what was not saved are lost.
KillData ==
  /\ alive
  /\ alive' = FALSE
  /\ personalData' = <<>> /\ context' = store
  /\ personalDataIsPresented' = FALSE /\ extendView' = FALSE
  /\ UNCHANGED <<store, history>>

\* The app is started and ContentView appears.
onAppear ==
  /\ ~alive
  /\ alive' = TRUE
  /\ personalData' \in Reload(context)
  /\ UNCHANGED <<context, store, personalDataIsPresented, extendView, history>>

NextData ==
  \/ presentPersonalData
  \/ dismissPersonalData
  \/ toggleForm
  \/ \E info \in Info, type \in Types, t \in Time : createNew(info, type, t)
  \/ \E k \in DOMAIN personalData : onDelete(k)
  \/ saveContext
  \/ onAppear
-------------------------------------------------------------------------------
TypeOKData ==
  /\ alive \in BOOLEAN
  /\ personalData \in Seq(Entry)
  /\ context \subseteq Row /\ store \subseteq Row
  /\ personalDataIsPresented \in BOOLEAN /\ extendView \in BOOLEAN
  /\ used \subseteq Time /\ erased \subseteq Time

\* An entry whose deletion reached the disk never comes back, in the list or in
\* the rows, through any number of failed saves, kills and restarts.
ErasedStaysErased ==
  erased \cap {r.createdAt : r \in ToSet(personalData) \cup context \cup store} = {}

-------------------------------------------------------------------------------
(* The inductive invariant behind ErasedStaysErased. *)

\* An instant names at most one row, on disk and in the context together, and at
\* most one entry; and every entry has a row in the context.
InstantsName ==
  /\ \A r, s \in context \cup store : r.createdAt = s.createdAt => r = s
  /\ \A j, k \in DOMAIN personalData : personalData[j].createdAt = personalData[k].createdAt => j = k
  /\ \A k \in DOMAIN personalData : \E r \in context : r.createdAt = personalData[k].createdAt

\* No instant is used again: those of rows and of erased entries are taken.
InstantsUsed == \A r \in context \cup store : r.createdAt \in used

DataInv ==
  /\ TypeOKData /\ IsFiniteSet(context) /\ IsFiniteSet(store)
  /\ ErasedStaysErased /\ InstantsName /\ InstantsUsed /\ erased \subseteq used
===============================================================================
