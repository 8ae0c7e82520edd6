------------------------------ MODULE AppScreens ------------------------------
(***************************************************************************)
(* Creating documents and marking their fields, composed: the page of an   *)
(* opened document (DetailedDocumentView with its PDFRelay) is the one     *)
(* that MarkFields describes. Its state begins when the page is opened and *)
(* goes with it, while uploads of other documents may be under way.        *)
(***************************************************************************)
EXTENDS CreateDocument

CONSTANTS Rect, Desc, Types, NoSelection

VARIABLES pdfSelection, addFieldAbility, sheetIsPresented, selection, fieldDescription,
          fields, chosen, drafted

M == INSTANCE MarkFields

ASSUME PageAssumption == M!MarkAssumption

page == <<pdfSelection, addFieldAbility, sheetIsPresented, selection, fieldDescription,
          fields, chosen, drafted>>
-------------------------------------------------------------------------------
ScreensInit == Init /\ M!Init /\ ~addFieldAbility

\* The page comes up, or goes, without a selection, a sheet or a text. Fields can be
\* added on the page of a created document.
FreshPage(ability) ==
  /\ pdfSelection' = NoSelection /\ addFieldAbility' = ability
  /\ sheetIsPresented' = FALSE /\ selection' = NoSelection
  /\ fieldDescription' = "" /\ fields' = {} /\ chosen' = NoSelection /\ drafted' = FALSE

\* A document is opened; one without a URL ends the app instead.
openPage(d) == PDFRelay(d) /\ FreshPage(opened' # NoDoc)

\* The Back button, which a sheet covers.
closePage == dismiss /\ ~sheetIsPresented /\ FreshPage(FALSE)

\* What the user does on the page.
onPage == alive /\ opened # NoDoc /\ M!Next /\ UNCHANGED vars

\* The create screen: it is reached from the home screen only, when no page is up.
onCreateScreen ==
  /\ \/ addCreated
     \/ rebuild
     \/ \E a \in Typed \cup {Empty} : typeURL(a)
     \/ pickDocument
     \/ \E f \in File, n \in 1 .. MaxUploads : didPickDocuments(f, n)
     \/ pickRefused
     \/ documentPickerWasCancelled
     \/ create
     \/ close
  /\ UNCHANGED page

\* An upload goes on, whatever is on the screen.
onUpload ==
  /\ \E u \in uploads : putData(u) \/ putDataFails(u) \/ downloadURL(u)
  /\ UNCHANGED page

\* The app ends, with everything that is on the screen.
end ==
  /\ pickUnreadable \/ (\E u \in uploads : downloadURLFails(u)) \/ Kill
  /\ FreshPage(FALSE)

ScreensNext ==
  \/ \E d \in createdDocuments : openPage(d)
  \/ closePage
  \/ onPage
  \/ onCreateScreen
  \/ onUpload
  \/ end
  \/ Launch /\ UNCHANGED page

ScreensSpec == ScreensInit /\ [][ScreensNext]_<<vars, page>>
-------------------------------------------------------------------------------
\* SelectionAtHand of the page that is up: whenever the sheet's button can be
\* pressed there is a selection to unwrap, even if the page lost its own meanwhile.
SelectionAtHand == M!SelectionAtHand

\* DescriptionIsFresh of the page that is up: no field gets the description of the
\* field before it, on this page or on the page of another document.
DescriptionIsFresh == M!DescriptionIsFresh

\* AddedWhereChosen of the page that is up: a field is added where the text was
\* selected when the sheet was opened, while it was up over this page.
AddedWhereChosen == [][\A f \in fields' \ fields : f.rect = chosen]_<<vars, page>>

\* A field is only ever added on the page of a created document that has an address,
\* whatever uploads end meanwhile.
PageHasDocument ==
  fields # {} \/ sheetIsPresented => alive /\ opened \in createdDocuments /\ IsURL(opened.url)
-------------------------------------------------------------------------------
(* The inductive invariant behind these: with CreateInv it is that of the screens. *)

\* The sheet stands over the page of a document, with the selection it was opened for.
SheetOverPage ==
  /\ sheetIsPresented => selection = chosen /\ addFieldAbility
  /\ fields # {} => addFieldAbility
  /\ addFieldAbility => alive /\ opened # NoDoc /\ IsURL(opened.url)

PageInv ==
  /\ M!TypeOK /\ SelectionAtHand /\ DescriptionIsFresh
  /\ SheetOverPage
===============================================================================
