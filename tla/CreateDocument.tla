---------------------------- MODULE CreateDocument ----------------------------
(***************************************************************************)
(* Creating a document: the create screen, the file picker, the upload of  *)
(* the picked file to Firebase storage, and opening what was created.      *)
(*                                                                         *)
(* The create screen has an identifier, which names the stored file and    *)
(* the document. It is a plain constant of the view: whenever the home     *)
(* screen is evaluated again the view is made anew, with another           *)
(* identifier, while the state of the screen stays and a picker that is up *)
(* keeps the name it got. An upload outlives the picker and the screen:    *)
(* its callbacks arrive at any later time, in any order, and write to the  *)
(* state of the screen that started it, if that is still up.               *)
(***************************************************************************)
EXTENDS Integers

CONSTANTS
  File,         \* files the author may pick
  NoFile,       \* nothing is stored, or picked
  NoDoc,        \* no document is open
  MaxIds,  \* bound on identifiers of create screens
  MaxUploads    \* bound on uploads under way at a time

ASSUME BoundsAssumption == MaxIds \in Nat \ {0} /\ MaxUploads \in Nat
ASSUME NoFileAssumption == NoFile \notin File

VARIABLES
  alive,             \* the app runs
  documentId,        \* the documentId of the create screen made last
  first,             \* the one the screen that is up was presented with, or 0
  createIsPresented, \* the create screen is up
  url,               \* the text of its url field
  pickerIsPresented, \* the file picker is up, over the create screen
  documentName,      \* the name it was made with, or 0
  uploads,           \* uploads under way
  storage,           \* the file stored under each documentId
  createdDocuments,  \* the created documents
  opened,            \* the document shown on a PDFRelay, or NoDoc
  picked,            \* history: the file picked last under each name
  disturbed          \* history: names with overlapping, failed or lost uploads

screen == <<documentId, first, createIsPresented, url, pickerIsPresented, documentName>>
vars == <<alive, screen, uploads, storage, createdDocuments, opened, picked, disturbed>>
-------------------------------------------------------------------------------
Id == 1 .. MaxIds

\* Addresses: an empty field, a typed text that is or is not a URL, or the
\* download address of the file stored under a documentId.
Empty == [at |-> "empty", id |-> 0]
Typed == [at : {"web", "noURL"}, id : {0}]
StoredAt(s) == [at |-> "storage", id |-> s]
Address == {Empty} \cup Typed \cup {StoredAt(s) : s \in Id}

\* URL(string:) gives nil for the empty string and for what is not a URL.
IsURL(a) == a.at \in {"web", "storage"}

Document == [id : Id, url : Address]

\* An upload under way: the picked file is still to be stored, or it is stored and
\* the answer with its download address is awaited.
Upload == [name : Id, slot : 1 .. MaxUploads, file : File, stage : {"put", "address"}]
UploadsOf(s) == {u \in uploads : u.name = s}

\* Mutated pathName: every document's file is stored under the same name.
pathNameFixed(s) == 1

\* The name under which the picked file is stored.
pathName(s) == s

Init ==
  /\ alive = TRUE
  /\ documentId = 0 /\ first = 0 /\ createIsPresented = FALSE
  /\ url = Empty /\ pickerIsPresented = FALSE /\ documentName = 0
  /\ uploads = {} /\ storage = [s \in Id |-> NoFile]
  /\ createdDocuments = {} /\ opened = NoDoc
  /\ picked = [s \in Id |-> NoFile] /\ disturbed = {}

\* A failed force unwrap ends the app, and with it the screens and the uploads.
Crash ==
  /\ alive' = FALSE
  /\ documentId' = documentId /\ first' = 0 /\ createIsPresented' = FALSE
  /\ url' = Empty /\ pickerIsPresented' = FALSE /\ documentName' = 0
  /\ uploads' = {} /\ opened' = NoDoc
  /\ disturbed' = disturbed \cup {u.name : u \in uploads}

\* The url binding a picker got: setting it changes the url field of the screen the
\* picker was over, also if the view was made anew since; nothing is left of the
\* field once that screen is gone.
setURL(s, a) == url' = IF createIsPresented /\ s >= first THEN a ELSE url
-------------------------------------------------------------------------------
\* The user can reach the controls of the create screen, or of the home screen.
OnCreateScreen == alive /\ createIsPresented /\ ~pickerIsPresented
OnHomeScreen == alive /\ ~createIsPresented /\ opened = NoDoc

\* The Create button of the home screen presents a new create screen.
addCreated ==
  /\ OnHomeScreen /\ documentId < MaxIds
  /\ documentId' = documentId + 1 /\ first' = documentId'
  /\ createIsPresented' = TRUE
  /\ url' = Empty
  /\ UNCHANGED <<alive, pickerIsPresented, documentName,
                 uploads, storage, createdDocuments, opened, picked, disturbed>>

\* The home screen is evaluated again while the create screen is up, as when a
\* download ends: the view is made anew, its documentId too.
rebuild ==
  /\ alive /\ createIsPresented /\ documentId < MaxIds
  /\ documentId' = documentId + 1
  /\ UNCHANGED <<alive, first, createIsPresented, url, pickerIsPresented, documentName,
                 uploads, storage, createdDocuments, opened, picked, disturbed>>

\* The author types into the url field.
typeURL(a) ==
  /\ OnCreateScreen
  /\ url' = a
  /\ UNCHANGED <<alive, documentId, first, createIsPresented, pickerIsPresented, documentName,
                 uploads, storage, createdDocuments, opened, picked, disturbed>>

\* The Choose document button; an upload under way does not hold it back.
pickDocument ==
  /\ OnCreateScreen
  /\ pickerIsPresented' = TRUE /\ documentName' = documentId
  /\ UNCHANGED <<alive, documentId, first, createIsPresented, url,
                 uploads, storage, createdDocuments, opened, picked, disturbed>>

\* The picker returns a file: its upload starts and the picker is gone.
didPickDocuments(f, n) ==
  /\ alive /\ pickerIsPresented
  /\ n \notin {u.slot : u \in uploads}
  /\ pickerIsPresented' = FALSE /\ documentName' = 0
  /\ uploads' = uploads \cup {[name |-> documentName, slot |-> n, file |-> f, stage |-> "put"]}
  /\ picked' = [picked EXCEPT ![documentName] = f]
  /\ disturbed' = disturbed \cup (IF UploadsOf(documentName) = {} THEN {} ELSE {documentName})
  /\ UNCHANGED <<alive, documentId, first, createIsPresented, url,
                 storage, createdDocuments, opened>>

\* The file may not be accessed: the handler returns, and the url stays as it is.
pickRefused ==
  /\ alive /\ pickerIsPresented
  /\ pickerIsPresented' = FALSE /\ documentName' = 0
  /\ UNCHANGED <<alive, documentId, first, createIsPresented, url,
                 uploads, storage, createdDocuments, opened, picked, disturbed>>

\* The file cannot be read: its contents are unwrapped all the same.
pickUnreadable ==
  /\ alive /\ pickerIsPresented
  /\ Crash
  /\ UNCHANGED <<storage, createdDocuments, picked>>

\* The picker is cancelled, which empties the url field.
documentPickerWasCancelled ==
  /\ alive /\ pickerIsPresented
  /\ pickerIsPresented' = FALSE /\ documentName' = 0
  /\ setURL(documentName, Empty)
  /\ UNCHANGED <<alive, documentId, first, createIsPresented,
                 uploads, storage, createdDocuments, opened, picked, disturbed>>

\* Mutated putData: the download address is taken before the file is stored.
putDataTooLate(u) ==
  /\ u.stage = "put"
  /\ uploads' = (uploads \ {u}) \cup {[u EXCEPT !.stage = "address"]}
  /\ UNCHANGED <<alive, screen, storage, createdDocuments, opened, picked, disturbed>>

\* The file is stored, in the place of the one stored under that name before, and
\* its download address is asked for.
putData(u) ==
  /\ u.stage = "put"
  /\ storage' = [storage EXCEPT ![pathName(u.name)] = u.file]
  /\ uploads' = (uploads \ {u}) \cup {[u EXCEPT !.stage = "address"]}
  /\ UNCHANGED <<alive, screen, createdDocuments, opened, picked, disturbed>>

\* Storing the file fails, which ends the upload.
putDataFails(u) ==
  /\ u.stage = "put"
  /\ uploads' = uploads \ {u}
  /\ disturbed' = disturbed \cup {u.name}
  /\ UNCHANGED <<alive, screen, storage, createdDocuments, opened, picked>>

\* The download address arrives and replaces the text of the url field of the
\* screen on which the file was picked.
downloadURL(u) ==
  /\ u.stage = "address"
  /\ uploads' = uploads \ {u}
  /\ setURL(u.name, StoredAt(pathName(u.name)))
  /\ UNCHANGED <<alive, documentId, first, createIsPresented, pickerIsPresented, documentName,
                 storage, createdDocuments, opened, picked, disturbed>>

\* No address is received, and the missing one is unwrapped.
downloadURLFails(u) ==
  /\ u.stage = "address"
  /\ Crash
  /\ UNCHANGED <<storage, createdDocuments, picked>>

\* The Create button: the document gets the text that the url field has now.
create ==
  /\ OnCreateScreen
  /\ createdDocuments' = createdDocuments \cup {[id |-> documentId, url |-> url]}
  /\ createIsPresented' = FALSE /\ first' = 0
  /\ url' = Empty
  /\ UNCHANGED <<alive, documentId, pickerIsPresented, documentName,
                 uploads, storage, opened, picked, disturbed>>

\* The Close button.
close ==
  /\ OnCreateScreen
  /\ createIsPresented' = FALSE /\ first' = 0
  /\ url' = Empty
  /\ UNCHANGED <<alive, documentId, pickerIsPresented, documentName,
                 uploads, storage, createdDocuments, opened, picked, disturbed>>

\* A document of the list is opened on its PDF page, whose body unwraps the URL.
PDFRelay(d) ==
  /\ OnHomeScreen /\ d \in createdDocuments
  /\ IF IsURL(d.url)
     THEN /\ opened' = d
          /\ UNCHANGED <<alive, screen, uploads, disturbed>>
     ELSE Crash
  /\ UNCHANGED <<storage, createdDocuments, picked>>

\* The Back button.
dismiss ==
  /\ alive /\ opened # NoDoc
  /\ opened' = NoDoc
  /\ UNCHANGED <<alive, screen, uploads, storage, createdDocuments, picked, disturbed>>

\* The system ends the app; the created documents are in the store.
Kill ==
  /\ alive
  /\ Crash
  /\ UNCHANGED <<storage, createdDocuments, picked>>

\* The user starts the app again.
Launch ==
  /\ ~alive
  /\ alive' = TRUE
  /\ UNCHANGED <<screen, uploads, storage, createdDocuments, opened, picked, disturbed>>

Next ==
  \/ addCreated
  \/ rebuild
  \/ \E a \in Typed \cup {Empty} : typeURL(a)
  \/ pickDocument
  \/ \E f \in File, n \in 1 .. MaxUploads : didPickDocuments(f, n)
  \/ pickRefused
  \/ pickUnreadable
  \/ documentPickerWasCancelled
  \/ \E u \in uploads : putData(u) \/ putDataFails(u) \/ downloadURL(u) \/ downloadURLFails(u)
  \/ create
  \/ close
  \/ \E d \in createdDocuments : PDFRelay(d)
  \/ dismiss
  \/ Kill
  \/ Launch

Spec == Init /\ [][Next]_vars
-------------------------------------------------------------------------------
TypeOK ==
  /\ alive \in BOOLEAN
  /\ documentId \in 0 .. MaxIds /\ first \in 0 .. MaxIds /\ createIsPresented \in BOOLEAN
  /\ documentName \in 0 .. MaxIds
  /\ url \in Address /\ pickerIsPresented \in BOOLEAN
  /\ uploads \subseteq Upload
  /\ storage \in [Id -> File \cup {NoFile}]
  /\ createdDocuments \subseteq Document
  /\ opened \in createdDocuments \cup {NoDoc}
  /\ picked \in [Id -> File \cup {NoFile}]
  /\ disturbed \subseteq Id

\* The addresses in use: the one on the create screen and those of the documents.
InUse == {url} \cup {d.url : d \in createdDocuments}

\* A storage address, in the url field or in a document, is the address of a file
\* that is stored, however the uploads, the screens and the kills interleave.
NoDanglingURL == \A s \in Id : StoredAt(s) \in InUse => storage[s] # NoFile

\* When the uploads under a name are over, what is stored there is the file picked
\* last for that name, whatever other screens upload, and whenever views are made
\* anew (DocumentPicker's pathName, the documentId at the time): unless a pick was made
\* while an earlier upload was under way, or an upload failed or was lost.
PickedFileStored ==
  \A s \in Id \ disturbed :
    UploadsOf(s) = {} /\ picked[s] # NoFile => storage[s] = picked[s]

-------------------------------------------------------------------------------
(* The inductive invariant behind NoDanglingURL and PickedFileStored. *)

\* The picker is over a create screen, and both have a name.
ScreensNested ==
  /\ pickerIsPresented => createIsPresented /\ documentName # 0
  /\ createIsPresented => documentId # 0

\* Whoever awaits the address of a file has stored one.
AnswersHaveFiles ==
  \A u \in uploads : u.stage = "address" => storage[u.name] # NoFile

\* An undisturbed name has at most one upload under way, of the file picked for it
\* last, which is the stored one as soon as its address is awaited.
OneUpload ==
  \A u \in uploads : u.name \notin disturbed =>
    /\ u.file = picked[u.name]
    /\ u.stage = "address" => storage[u.name] = picked[u.name]
    /\ \A v \in uploads : v.name = u.name => v = u

CreateInv ==
  /\ TypeOK /\ NoDanglingURL /\ PickedFileStored
  /\ ScreensNested /\ AnswersHaveFiles /\ OneUpload
===============================================================================
