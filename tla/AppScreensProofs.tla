--------------------------- MODULE AppScreensProofs ---------------------------
(***************************************************************************)
(* Proofs about AppScreens, for any number of files, identifiers, uploads   *)
(* and places of text. The screens with a page up implement CreateDocument,*)
(* whose invariant CreateInv is inductive; PageInv is the page's own.      *)
(***************************************************************************)
EXTENDS AppScreens, TLAPS

\* No screen or picker is up: its name is 0.
LEMMA NoName == 0 \in 0 .. MaxIds
BY BoundsAssumption

\* The invariant holds when the app starts for the first time.
LEMMA InitCreateInv == Init => CreateInv
<1> SUFFICES ASSUME Init PROVE CreateInv
  OBVIOUS
<1>1. TypeOK
  <2>1. documentId \in 0 .. MaxIds /\ first \in 0 .. MaxIds /\ documentName \in 0 .. MaxIds
    BY BoundsAssumption DEF Init
  <2>2. url \in Address
    BY DEF Init, Address
  <2>3. storage \in [Id -> File \cup {NoFile}] /\ picked \in [Id -> File \cup {NoFile}]
    BY DEF Init
  <2> QED BY <2>1, <2>2, <2>3 DEF Init, TypeOK
<1>2. NoDanglingURL
  BY DEF Init, NoDanglingURL, InUse, Empty, StoredAt
<1>3. PickedFileStored /\ ScreensNested /\ AnswersHaveFiles /\ OneUpload
  BY DEF Init, PickedFileStored, ScreensNested, AnswersHaveFiles, OneUpload
<1> QED BY <1>1, <1>2, <1>3 DEF CreateInv

\* A crash or a kill preserves it: uploads that it ends disturb their names.
LEMMA CrashStep ==
  ASSUME CreateInv, Crash, UNCHANGED <<storage, createdDocuments, picked>>
  PROVE  CreateInv'
<1>1. TypeOK'
  BY NoName DEF CreateInv, TypeOK, Crash, Address, Empty, Upload
<1>2. NoDanglingURL'
  BY DEF CreateInv, NoDanglingURL, Crash, InUse, Empty, StoredAt
<1>3. PickedFileStored'
  BY DEF CreateInv, PickedFileStored, Crash, UploadsOf
<1>4. (ScreensNested /\ AnswersHaveFiles /\ OneUpload)'
  BY DEF CreateInv, ScreensNested, AnswersHaveFiles, OneUpload, Crash
<1> QED BY <1>1, <1>2, <1>3, <1>4 DEF CreateInv

\* Handlers that only change what is on the screen, and put no storage address in
\* the url field that was not there, preserve it.
LEMMA ScreenStep ==
  ASSUME CreateInv, TypeOK', ScreensNested',
         UNCHANGED <<uploads, storage, picked, disturbed>>,
         \A s \in Id : StoredAt(s) \in InUse' => StoredAt(s) \in InUse
  PROVE  CreateInv'
<1>1. NoDanglingURL'
  BY DEF CreateInv, NoDanglingURL
<1>2. (PickedFileStored /\ AnswersHaveFiles /\ OneUpload)'
  BY DEF CreateInv, PickedFileStored, AnswersHaveFiles, OneUpload, UploadsOf
<1> QED BY <1>1, <1>2 DEF CreateInv

\* A picked file: its name has no other upload, or is disturbed from now on.
LEMMA PickStep ==
  ASSUME NEW f \in File, NEW n \in 1 .. MaxUploads, CreateInv, didPickDocuments(f, n)
  PROVE  CreateInv'
<1> USE DEF didPickDocuments
<1>0. documentName \in Id /\ TypeOK
  BY BoundsAssumption DEF CreateInv, TypeOK, ScreensNested, Id
<1> DEFINE new == [name |-> documentName, slot |-> n, file |-> f, stage |-> "put"]
<1>1. new \in Upload /\ uploads' = uploads \cup {new}
  BY <1>0 DEF Upload
<1>2. TypeOK'
  BY <1>0, <1>1, NoName DEF TypeOK
<1>3. (NoDanglingURL /\ ScreensNested)'
  BY DEF CreateInv, NoDanglingURL, InUse, ScreensNested
<1>4. AnswersHaveFiles'
  BY <1>1 DEF CreateInv, AnswersHaveFiles
<1>5. ASSUME NEW s \in Id \ disturbed', UploadsOf(s)' = {}, picked[s]' # NoFile
      PROVE  storage[s]' = picked[s]'
  <2>1. s # documentName
    BY <1>1, <1>5 DEF UploadsOf
  <2>2. UploadsOf(s) = {} /\ s \notin disturbed /\ picked'[s] = picked[s]
    BY <1>0, <1>1, <1>5, <2>1 DEF UploadsOf, TypeOK
  <2> QED BY <1>5, <2>2 DEF CreateInv, PickedFileStored
<1>6. ASSUME NEW u \in uploads', u.name \notin disturbed'
      PROVE  /\ u.file = picked'[u.name]
             /\ u.stage = "address" => storage'[u.name] = picked'[u.name]
             /\ \A v \in uploads' : v.name = u.name => v = u
  <2>1. CASE u.name = documentName
    <3>1. UploadsOf(documentName) = {}
      BY <1>6, <2>1
    <3>2. \A v \in uploads : v.name # documentName
      BY <3>1 DEF UploadsOf
    <3>3. u = new /\ picked'[documentName] = f
      BY <1>0, <1>1, <2>1, <3>2 DEF TypeOK
    <3> QED BY <1>1, <3>2, <3>3
  <2>2. CASE u.name # documentName
    <3>1. u \in uploads /\ u.name \notin disturbed /\ u.name \in Id
      BY <1>0, <1>1, <1>6, <2>2 DEF TypeOK, Upload
    <3>2. picked'[u.name] = picked[u.name]
      BY <1>0, <2>2, <3>1 DEF TypeOK
    <3> QED BY <1>1, <2>2, <3>1, <3>2 DEF CreateInv, OneUpload
  <2> QED BY <2>1, <2>2
<1> QED BY <1>2, <1>3, <1>4, <1>5, <1>6 DEF CreateInv, PickedFileStored, OneUpload

\* A stored file: it is the one picked last, if its name is undisturbed.
LEMMA PutStep ==
  ASSUME NEW u \in uploads, CreateInv, putData(u)
  PROVE  CreateInv'
<1> USE DEF putData, pathName, screen
<1>0. TypeOK /\ u \in Upload /\ u.name \in Id /\ u.file \in File
  BY DEF CreateInv, TypeOK, Upload
<1> DEFINE new == [u EXCEPT !.stage = "address"]
<1>1. /\ uploads' = (uploads \ {u}) \cup {new} /\ new \in Upload
      /\ new.name = u.name /\ new.file = u.file /\ new.stage = "address"
  BY <1>0 DEF Upload
<1>2. /\ storage'[u.name] = u.file
      /\ \A s \in Id : s # u.name => storage'[s] = storage[s]
  BY <1>0 DEF TypeOK
<1>3. u.file # NoFile
  BY <1>0, NoFileAssumption
<1>4. TypeOK'
  BY <1>0, <1>1 DEF TypeOK
<1>5. NoDanglingURL'
  BY <1>2, <1>3 DEF CreateInv, NoDanglingURL, InUse
<1>6. AnswersHaveFiles'
  <2> SUFFICES ASSUME NEW v \in uploads', v.stage = "address" PROVE storage'[v.name] # NoFile
    BY DEF AnswersHaveFiles
  <2>1. CASE v.name = u.name
    BY <1>2, <1>3, <2>1
  <2>2. CASE v.name # u.name
    <3>1. v \in uploads /\ v.name \in Id
      BY <1>0, <1>1, <2>2 DEF TypeOK, Upload
    <3> QED BY <1>2, <2>2, <3>1 DEF CreateInv, AnswersHaveFiles
  <2> QED BY <2>1, <2>2
<1>7. ASSUME NEW s \in Id \ disturbed', UploadsOf(s)' = {}, picked[s]' # NoFile
      PROVE  storage[s]' = picked[s]'
  <2>1. s # u.name
    BY <1>1, <1>7 DEF UploadsOf
  <2>2. UploadsOf(s) = {}
    BY <1>1, <1>7, <2>1 DEF UploadsOf
  <2> QED BY <1>2, <1>7, <2>1, <2>2 DEF CreateInv, PickedFileStored
<1>8. ASSUME NEW v \in uploads', v.name \notin disturbed'
      PROVE  /\ v.file = picked'[v.name]
             /\ v.stage = "address" => storage'[v.name] = picked'[v.name]
             /\ \A w \in uploads' : w.name = v.name => w = v
  <2>1. CASE v.name = u.name
    <3>1. u.file = picked[u.name] /\ \A w \in uploads : w.name = u.name => w = u
      BY <1>8, <2>1 DEF CreateInv, OneUpload
    <3>2. v = new /\ \A w \in uploads' : w.name = u.name => w = new
      BY <1>1, <2>1, <3>1
    <3> QED BY <1>1, <1>2, <3>1, <3>2
  <2>2. CASE v.name # u.name
    <3>1. v \in uploads /\ v.name \in Id
      BY <1>0, <1>1, <2>2 DEF TypeOK, Upload
    <3> QED BY <1>1, <1>2, <1>8, <2>2, <3>1 DEF CreateInv, OneUpload
  <2> QED BY <2>1, <2>2
<1> QED BY <1>4, <1>5, <1>6, <1>7, <1>8 DEF CreateInv, PickedFileStored, ScreensNested, OneUpload

\* An answered upload: the address it brings is that of a stored file.
LEMMA AddressStep ==
  ASSUME NEW u \in uploads, CreateInv, downloadURL(u)
  PROVE  CreateInv'
<1> USE DEF downloadURL, pathName
<1>0. TypeOK /\ u \in Upload /\ u.name \in Id
  BY DEF CreateInv, TypeOK, Upload
<1>1. url' = url \/ url' = StoredAt(u.name)
  BY DEF setURL
<1>2. TypeOK'
  BY <1>0, <1>1 DEF TypeOK, Address
<1>3. NoDanglingURL'
  <2> SUFFICES ASSUME NEW s \in Id, StoredAt(s) \in InUse' PROVE storage[s] # NoFile
    BY DEF NoDanglingURL
  <2>1. CASE StoredAt(s) \in InUse
    BY <2>1 DEF CreateInv, NoDanglingURL
  <2>2. CASE StoredAt(s) \notin InUse
    <3>1. StoredAt(s) = StoredAt(u.name)
      BY <1>1, <2>2 DEF InUse
    <3>2. s = u.name
      BY <3>1 DEF StoredAt
    <3> QED BY <3>2 DEF CreateInv, AnswersHaveFiles
  <2> QED BY <2>1, <2>2
<1>4. ASSUME NEW s \in Id \ disturbed', UploadsOf(s)' = {}, picked[s]' # NoFile
      PROVE  storage[s]' = picked[s]'
  <2>1. CASE s = u.name
    BY <1>4, <2>1 DEF CreateInv, OneUpload
  <2>2. CASE s # u.name
    <3>1. UploadsOf(s) = {}
      BY <1>4, <2>2 DEF UploadsOf
    <3> QED BY <1>4, <3>1 DEF CreateInv, PickedFileStored
  <2> QED BY <2>1, <2>2
<1>5. (ScreensNested /\ AnswersHaveFiles /\ OneUpload)'
  BY DEF CreateInv, ScreensNested, AnswersHaveFiles, OneUpload
<1> QED BY <1>2, <1>3, <1>4, <1>5 DEF CreateInv, PickedFileStored

\* A failed upload disturbs its name.
LEMMA PutFailsStep ==
  ASSUME NEW u \in uploads, CreateInv, putDataFails(u)
  PROVE  CreateInv'
<1> USE DEF putDataFails, screen
<1>1. TypeOK'
  BY DEF CreateInv, TypeOK, Upload
<1>2. NoDanglingURL'
  BY DEF CreateInv, NoDanglingURL, InUse
<1>3. ASSUME NEW s \in Id \ disturbed', UploadsOf(s)' = {}, picked[s]' # NoFile
      PROVE  storage[s]' = picked[s]'
  <2>1. UploadsOf(s) = {}
    BY <1>3 DEF UploadsOf
  <2> QED BY <1>3, <2>1 DEF CreateInv, PickedFileStored
<1>4. (ScreensNested /\ AnswersHaveFiles /\ OneUpload)'
  BY DEF CreateInv, ScreensNested, AnswersHaveFiles, OneUpload
<1> QED BY <1>1, <1>2, <1>3, <1>4 DEF CreateInv, PickedFileStored

\* A created document has the address that was in the url field.
LEMMA CreateStep ==
  ASSUME CreateInv, create
  PROVE  CreateInv'
<1> USE DEF create, OnCreateScreen
<1>0. documentId \in Id
  BY BoundsAssumption DEF CreateInv, TypeOK, ScreensNested, Id
<1>1. TypeOK'
  <2>0. TypeOK
    BY DEF CreateInv
  <2>1. createdDocuments' \subseteq Document
    <3>1. [id |-> documentId, url |-> url] \in Document
      BY <1>0, <2>0 DEF TypeOK, Document
    <3> QED BY <2>0, <3>1 DEF TypeOK
  <2>2. opened' \in createdDocuments' \cup {NoDoc}
    BY <2>0 DEF TypeOK
  <2>3. url' \in Address
    BY DEF Address
  <2> QED BY <2>0, <2>1, <2>2, <2>3, NoName DEF TypeOK
<1>2. ScreensNested'
  BY DEF CreateInv, ScreensNested
<1>3. \A s \in Id : StoredAt(s) \in InUse' => StoredAt(s) \in InUse
  BY DEF InUse, StoredAt, Empty
<1> QED BY <1>1, <1>2, <1>3, ScreenStep

\* Every step preserves the invariant.
LEMMA NextCreateInv == CreateInv /\ [Next]_vars => CreateInv'
<1> SUFFICES ASSUME CreateInv, [Next]_vars PROVE CreateInv'
  OBVIOUS
<1>0. TypeOK /\ ScreensNested
  BY DEF CreateInv
<1>1. ASSUME addCreated PROVE CreateInv'
  <2>1. TypeOK'
    BY <1>0, <1>1, BoundsAssumption DEF addCreated, TypeOK, Address
  <2>2. ScreensNested'
    BY <1>0, <1>1, BoundsAssumption DEF addCreated, ScreensNested, TypeOK
  <2>3. \A s \in Id : StoredAt(s) \in InUse' => StoredAt(s) \in InUse
    BY <1>1 DEF addCreated, InUse, StoredAt, Empty
  <2> QED BY <1>1, <2>1, <2>2, <2>3, ScreenStep DEF addCreated
<1>2. ASSUME NEW a \in Typed \cup {Empty}, typeURL(a) PROVE CreateInv'
  <2>1. TypeOK' /\ ScreensNested'
    BY <1>0, <1>2 DEF typeURL, TypeOK, ScreensNested, Address
  <2>2. \A s \in Id : a # StoredAt(s)
    BY DEF Typed, Empty, StoredAt
  <2>3. \A s \in Id : StoredAt(s) \in InUse' => StoredAt(s) \in InUse
    BY <1>2, <2>2 DEF typeURL, InUse
  <2> QED BY <1>2, <2>1, <2>3, ScreenStep DEF typeURL
<1>3. ASSUME pickDocument \/ pickRefused PROVE CreateInv'
  <2>1. TypeOK' /\ ScreensNested'
    BY <1>0, <1>3, NoName DEF pickDocument, pickRefused, OnCreateScreen, TypeOK, ScreensNested
  <2>2. \A s \in Id : StoredAt(s) \in InUse' => StoredAt(s) \in InUse
    BY <1>3 DEF pickDocument, pickRefused, InUse
  <2> QED BY <1>3, <2>1, <2>2, ScreenStep DEF pickDocument, pickRefused
<1>4. ASSUME documentPickerWasCancelled PROVE CreateInv'
  <2>1. url' = url \/ url' = Empty
    BY <1>4 DEF documentPickerWasCancelled, setURL
  <2>2. TypeOK' /\ ScreensNested'
    BY <1>0, <1>4, <2>1, NoName DEF documentPickerWasCancelled, TypeOK, ScreensNested, Address
  <2>3. \A s \in Id : StoredAt(s) \in InUse' => StoredAt(s) \in InUse
    BY <1>4, <2>1 DEF documentPickerWasCancelled, InUse, StoredAt, Empty
  <2> QED BY <1>4, <2>2, <2>3, ScreenStep DEF documentPickerWasCancelled
<1>5. ASSUME close PROVE CreateInv'
  <2>1. TypeOK' /\ ScreensNested'
    BY <1>0, <1>5, NoName DEF close, OnCreateScreen, TypeOK, ScreensNested, Address
  <2>2. \A s \in Id : StoredAt(s) \in InUse' => StoredAt(s) \in InUse
    BY <1>5 DEF close, InUse, StoredAt, Empty
  <2> QED BY <1>5, <2>1, <2>2, ScreenStep DEF close
<1>6. ASSUME pickUnreadable \/ Kill \/ \E u \in uploads : downloadURLFails(u) PROVE CreateInv'
  BY <1>6, CrashStep DEF pickUnreadable, Kill, downloadURLFails
<1>7. ASSUME NEW d \in createdDocuments, PDFRelay(d) PROVE CreateInv'
  <2>1. CASE IsURL(d.url)
    <3>1. TypeOK' /\ ScreensNested'
      BY <1>0, <1>7, <2>1 DEF PDFRelay, screen, TypeOK, ScreensNested
    <3>2. \A s \in Id : StoredAt(s) \in InUse' => StoredAt(s) \in InUse
      BY <1>7, <2>1 DEF PDFRelay, screen, InUse
    <3> QED BY <1>7, <2>1, <3>1, <3>2, ScreenStep DEF PDFRelay, screen
  <2>2. CASE ~IsURL(d.url)
    BY <1>7, <2>2, CrashStep DEF PDFRelay
  <2> QED BY <2>1, <2>2
<1>8. ASSUME dismiss \/ Launch \/ UNCHANGED vars PROVE CreateInv'
  <2>1. TypeOK' /\ ScreensNested'
    <3>1. CASE dismiss
      BY <1>0, <3>1 DEF dismiss, screen, TypeOK, ScreensNested
    <3>2. CASE Launch
      BY <1>0, <3>2 DEF Launch, screen, TypeOK, ScreensNested
    <3>3. CASE UNCHANGED vars
      BY <1>0, <3>3 DEF vars, screen, TypeOK, ScreensNested
    <3> QED BY <1>8, <3>1, <3>2, <3>3
  <2>2. \A s \in Id : StoredAt(s) \in InUse' => StoredAt(s) \in InUse
    BY <1>8 DEF dismiss, Launch, vars, screen, InUse
  <2> QED BY <1>8, <2>1, <2>2, ScreenStep DEF dismiss, Launch, vars, screen
<1>9. ASSUME rebuild PROVE CreateInv'
  <2>1. TypeOK' /\ ScreensNested'
    BY <1>0, <1>9, BoundsAssumption DEF rebuild, TypeOK, ScreensNested
  <2>2. \A s \in Id : StoredAt(s) \in InUse' => StoredAt(s) \in InUse
    BY <1>9 DEF rebuild, InUse
  <2> QED BY <1>9, <2>1, <2>2, ScreenStep DEF rebuild
<1> QED
  BY <1>1, <1>2, <1>3, <1>4, <1>5, <1>6, <1>7, <1>8, <1>9,
     PickStep, PutStep, PutFailsStep, AddressStep, CreateStep DEF Next

-------------------------------------------------------------------------------
(* The screens with the page of an opened document. *)

\* What is done on the page is a stuttering step of CreateDocument, and every other
\* step of the screens is one of its steps.
LEMMA ScreensStep == [ScreensNext]_<<vars, page>> => [Next]_vars
<1> SUFFICES ASSUME [ScreensNext]_<<vars, page>> PROVE [Next]_vars
  OBVIOUS
<1>1. ASSUME NEW d \in createdDocuments, openPage(d) PROVE Next
  BY <1>1 DEF openPage, Next
<1>2. CASE closePage
  BY <1>2 DEF closePage, Next
<1>3. CASE onPage
  BY <1>3 DEF onPage
<1>4. CASE onCreateScreen
  BY <1>4 DEF onCreateScreen, Next
<1>5. CASE onUpload
  BY <1>5 DEF onUpload, Next
<1>6. CASE end
  BY <1>6 DEF end, Next
<1>7. CASE Launch /\ UNCHANGED page
  BY <1>7 DEF Next
<1>8. CASE UNCHANGED <<vars, page>>
  BY <1>8
<1> QED BY <1>1, <1>2, <1>3, <1>4, <1>5, <1>6, <1>7, <1>8 DEF ScreensNext

\* A page that has just come up, or gone, has the invariant, if only the page of a
\* document with an address lets fields be added.
LEMMA FreshPageInv ==
  ASSUME NEW ability \in BOOLEAN, FreshPage(ability),
         ability => alive' /\ opened' # NoDoc /\ IsURL(opened'.url)
  PROVE  PageInv'
BY DEF FreshPage, PageInv, M!TypeOK, M!Selection, M!Field, SelectionAtHand, M!SelectionAtHand,
       DescriptionIsFresh, M!DescriptionIsFresh, SheetOverPage

\* What the user does on the page preserves its invariant.
LEMMA OnPageStep == ASSUME PageInv, onPage PROVE PageInv'
<1> USE DEF onPage, PageInv, SelectionAtHand, M!SelectionAtHand, DescriptionIsFresh,
            M!DescriptionIsFresh, SheetOverPage, vars, M!TypeOK
<1>1. ASSUME NEW s \in M!Selection, M!selectionChanged(s) PROVE PageInv'
  BY <1>1 DEF M!selectionChanged
<1>2. CASE M!addField
  BY <1>2 DEF M!addField
<1>3. ASSUME NEW d \in Desc, M!typeDescription(d) PROVE PageInv'
  BY <1>3 DEF M!typeDescription
<1>4. ASSUME NEW t \in Types, M!appendField(t) PROVE PageInv'
  <2> DEFINE new == [rect |-> selection, desc |-> fieldDescription,
                     type |-> M!fieldTypeFromString(M!stringFromFieldType(t))]
  <2>1. M!fieldTypeFromString(M!stringFromFieldType(t)) = t
    BY PageAssumption
       DEF M!MarkAssumption, M!FieldType, M!fieldTypeFromString, M!stringFromFieldType
  <2>2. new \in M!Field /\ new.rect # NoSelection /\ fields' = fields \cup {new}
    BY <1>4, <2>1 DEF M!appendField, M!Field
  <2>3. M!TypeOK'
    BY <1>4, <2>2 DEF M!appendField, M!Selection
  <2>4. (SelectionAtHand /\ DescriptionIsFresh)'
    BY <1>4, <2>2 DEF M!appendField
  <2>5. SheetOverPage'
    BY <1>4, <2>2 DEF M!appendField
  <2> QED BY <2>3, <2>4, <2>5
<1>5. CASE M!onDisappear
  BY <1>5 DEF M!onDisappear, M!Selection
<1> QED BY <1>1, <1>2, <1>3, <1>4, <1>5 DEF M!Next

\* A step that leaves the page and the document it shows alone preserves its invariant.
LEMMA ElsewhereStep ==
  ASSUME PageInv, UNCHANGED <<page, opened>>, alive => alive'
  PROVE  PageInv'
BY DEF page, PageInv, M!TypeOK, SelectionAtHand, M!SelectionAtHand,
       DescriptionIsFresh, M!DescriptionIsFresh, SheetOverPage

\* Every step of the screens preserves the invariant of the page.
LEMMA NextPageInv == PageInv /\ [ScreensNext]_<<vars, page>> => PageInv'
<1> SUFFICES ASSUME PageInv, [ScreensNext]_<<vars, page>> PROVE PageInv'
  OBVIOUS
<1>1. ASSUME NEW d \in createdDocuments, openPage(d) PROVE PageInv'
  <2>1. opened' # NoDoc => alive' /\ IsURL(opened'.url)
    BY <1>1 DEF openPage, PDFRelay, OnHomeScreen, Crash
  <2> QED BY <1>1, <2>1, FreshPageInv DEF openPage
<1>2. CASE closePage
  BY <1>2, FreshPageInv DEF closePage
<1>3. CASE onCreateScreen
  <2>1. UNCHANGED <<alive, opened>>
    BY <1>3 DEF onCreateScreen, addCreated, rebuild, typeURL, pickDocument, didPickDocuments,
                pickRefused, documentPickerWasCancelled, create, close
  <2> QED BY <1>3, <2>1, ElsewhereStep DEF onCreateScreen
<1>4. CASE onUpload
  <2>1. UNCHANGED <<alive, opened>>
    BY <1>4 DEF onUpload, putData, putDataFails, downloadURL
  <2> QED BY <1>4, <2>1, ElsewhereStep DEF onUpload
<1>5. CASE end
  BY <1>5, FreshPageInv DEF end
<1>6. CASE Launch /\ UNCHANGED page
  BY <1>6, ElsewhereStep DEF Launch
<1>7. CASE UNCHANGED <<vars, page>>
  BY <1>7, ElsewhereStep DEF vars
<1> QED BY <1>1, <1>2, <1>3, <1>4, <1>5, <1>6, <1>7, OnPageStep DEF ScreensNext

\* Fields are added on the page only, and there at the place of the sheet's selection.
LEMMA AddedStep ==
  ASSUME PageInv, [ScreensNext]_<<vars, page>>
  PROVE  \A f \in fields' \ fields : f.rect = chosen
<1>1. CASE onPage
  <2>1. ASSUME NEW t \in Types, M!appendField(t)
        PROVE  \A f \in fields' \ fields : f.rect = chosen
    <3> DEFINE kind == M!fieldTypeFromString(M!stringFromFieldType(t))
    <3>1. fields' = fields \cup {[rect |-> selection, desc |-> fieldDescription, type |-> kind]}
      BY <2>1 DEF M!appendField
    <3>2. selection = chosen
      BY <2>1 DEF M!appendField, PageInv, SheetOverPage
    <3> HIDE DEF kind
    <3> QED BY <3>1, <3>2
  <2>2. CASE fields' = fields
    BY <2>2
  <2> QED
    BY <1>1, <2>1, <2>2
       DEF onPage, M!Next, M!selectionChanged, M!addField, M!typeDescription, M!onDisappear
<1>2. CASE ~onPage
  <2>1. fields' = fields \/ fields' = {}
    BY <1>2 DEF ScreensNext, openPage, closePage, FreshPage, onCreateScreen, onUpload, end, page
  <2> QED BY <2>1
<1> QED BY <1>1, <1>2

\* The inductive invariants hold in every reachable state of the create screen, the
\* picker, the uploads and the page of an opened document.
THEOREM ScreensInvariance == ScreensSpec => [](CreateInv /\ PageInv)
<1>1. ScreensInit => CreateInv /\ PageInv
  <2> SUFFICES ASSUME ScreensInit PROVE CreateInv /\ PageInv
    OBVIOUS
  <2>1. CreateInv
    BY InitCreateInv DEF ScreensInit
  <2>2. PageInv
    BY DEF ScreensInit, M!Init, PageInv, M!TypeOK, M!Selection, M!Field, SelectionAtHand,
           M!SelectionAtHand, DescriptionIsFresh, M!DescriptionIsFresh, SheetOverPage
  <2> QED BY <2>1, <2>2
<1>2. CreateInv /\ PageInv /\ [ScreensNext]_<<vars, page>> => (CreateInv /\ PageInv)'
  BY ScreensStep, NextCreateInv, NextPageInv
<1> QED BY <1>1, <1>2, PTL DEF ScreensSpec

\* The composition of the screens implements CreateDocument: whatever happens on the
\* page of an opened document, creating and uploading go on as if it were not there.
THEOREM ScreensImplementCreate == ScreensSpec => Spec
<1>1. ScreensInit => Init
  BY DEF ScreensInit
<1> QED BY <1>1, ScreensStep, PTL DEF ScreensSpec, Spec

\* An address of a stored file, in the url field or in a created document, always
\* has a file behind it (DocumentPicker's putData and downloadURL).
THEOREM AddressesHaveFiles == ScreensSpec => []NoDanglingURL
<1>1. CreateInv => NoDanglingURL
  BY DEF CreateInv
<1> QED BY <1>1, ScreensInvariance, PTL

\* Uploads under a name without overlaps and failures store the file picked last,
\* whatever other screens upload (pathName is the documentId when the picker came up).
THEOREM UploadsStorePicked == ScreensSpec => []PickedFileStored
<1>1. CreateInv => PickedFileStored
  BY DEF CreateInv
<1> QED BY <1>1, ScreensInvariance, PTL

\* A field is added where text was selected when the sheet was opened, whatever the
\* PDF view reports while the sheet is up (DetailedDocumentView's sheet and its
\* copy of the selection).
THEOREM FieldsWhereChosen == ScreensSpec => AddedWhereChosen
<1>1. PageInv /\ [ScreensNext]_<<vars, page>>
        => [\A f \in fields' \ fields : f.rect = chosen]_<<vars, page>>
  BY AddedStep
<1> QED BY <1>1, ScreensInvariance, PTL DEF ScreensSpec, AddedWhereChosen

\* The sheet's Add field button never unwraps a missing selection, although the page
\* may lose its own while the sheet is up.
THEOREM UnwrapsSelection == ScreensSpec => []SelectionAtHand
<1>1. PageInv => SelectionAtHand
  BY DEF PageInv
<1> QED BY <1>1, ScreensInvariance, PTL

\* No field gets the description of the field before it, on this page or another.
THEOREM DescriptionsAreFresh == ScreensSpec => []DescriptionIsFresh
<1>1. PageInv => DescriptionIsFresh
  BY DEF PageInv
<1> QED BY <1>1, ScreensInvariance, PTL

\* Fields are only added on the page of a created document with an address.
THEOREM FieldsHaveDocument == ScreensSpec => []PageHasDocument
<1>1. CreateInv /\ PageInv => PageHasDocument
  BY DEF CreateInv, TypeOK, PageInv, SheetOverPage, PageHasDocument
<1> QED BY <1>1, ScreensInvariance, PTL
===============================================================================
