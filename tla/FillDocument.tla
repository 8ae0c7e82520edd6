----------------------------- MODULE FillDocument -----------------------------
(***************************************************************************)
(* Filling in a downloaded document and exporting it, beside the editing   *)
(* of the personal data that Autocomplete draws from. The screens are on a *)
(* navigation stack: personal data is edited from the home screen only,    *)
(* and the texts of a document live as long as its screen.                 *)
(***************************************************************************)
EXTENDS PersonalData

CONSTANTS
  fieldTypes,  \* the kinds of the document's fields, in order
  Text,        \* texts the user types into a field
  NoData       \* nothing exported yet

ASSUME FieldsAssumption == fieldTypes \in Seq(FieldType)
ASSUME TextAssumption == Text \cap Info = {}

VARIABLES
  opened,         \* the document's screen is up
  completeArray,  \* its texts, one for each field
  fillWith,       \* the fillWith of each DocumentField, which outlives the screen
  data,           \* the exported file's texts
  showSheet       \* the system's share sheet is up, showing data

fill == <<opened, completeArray, fillWith, data, showSheet>>
vars == <<dataVars, fill>>

Fields == 1 .. Len(fieldTypes)
\* An empty text for each field.
arrayStringOf == [i \in Fields |-> ""]
-------------------------------------------------------------------------------
Init ==
  /\ InitData
  /\ opened = FALSE /\ completeArray = arrayStringOf
  /\ fillWith = arrayStringOf /\ data = NoData /\ showSheet = FALSE

\* Mutated openDocument: the texts of the last export are shown again.
openDocumentFilled ==
  /\ alive /\ ~personalDataIsPresented /\ ~opened
  /\ opened' = TRUE
  /\ completeArray' = fillWith
  /\ UNCHANGED <<dataVars, fillWith, data, showSheet>>

\* A tap on the document in the list opens its screen, with empty texts.
openDocument ==
  /\ alive /\ ~personalDataIsPresented /\ ~opened
  /\ opened' = TRUE
  /\ completeArray' = arrayStringOf
  /\ UNCHANGED <<dataVars, fillWith, data, showSheet>>

\* The Back button: the screen goes, and its texts with it.
dismiss ==
  /\ alive /\ opened /\ ~showSheet
  /\ opened' = FALSE
  /\ completeArray' = arrayStringOf /\ data' = NoData
  /\ UNCHANGED <<dataVars, fillWith, showSheet>>

\* The user types into a field.
InputForm(i, text) ==
  /\ alive /\ opened /\ ~showSheet
  /\ completeArray' = [completeArray EXCEPT ![i] = text]
  /\ UNCHANGED <<dataVars, opened, fillWith, data, showSheet>>

\* The entries of the kind of field i.
Matches(i) == {k \in DOMAIN personalData : personalData[k].type = fieldTypes[i]}

\* The Autocomplete button: a field gets the text of the last entry of its kind,
\* and keeps its own where there is none.
Autocomplete ==
  /\ alive /\ opened /\ ~showSheet
  /\ completeArray' = [i \in Fields |->
       IF Matches(i) = {} THEN completeArray[i] ELSE personalData[Max(Matches(i))].info]
  /\ UNCHANGED <<dataVars, opened, fillWith, data, showSheet>>

\* The file made of a document: the texts of its fields drawn over its pages, or none
\* where the document or one of its pages cannot be read.
addOverlay(texts) == {texts, NoData}

\* The Share button: the texts go to the fields, addOverlay draws them into a file,
\* and the file is read and shown on the share sheet.
Share ==
  /\ alive /\ opened /\ ~showSheet
  /\ fillWith' = completeArray
  /\ data' \in addOverlay(fillWith') \ {NoData} /\ showSheet' = TRUE
  /\ UNCHANGED <<dataVars, opened, completeArray>>

\* The same where addOverlay gives up: it returns an empty path, at which there is
\* no file, and no sheet is shown.
ShareFails ==
  /\ alive /\ opened /\ ~showSheet
  /\ fillWith' = completeArray
  /\ NoData \in addOverlay(fillWith')
  /\ UNCHANGED <<dataVars, opened, completeArray, data, showSheet>>

\* The share sheet is done or cancelled.
completionWithItemsHandler ==
  /\ alive /\ showSheet
  /\ showSheet' = FALSE
  /\ UNCHANGED <<dataVars, opened, completeArray, fillWith, data>>

\* The app is killed, by the system or by a failed force unwrap during an export.
Kill ==
  /\ KillData
  /\ opened' = FALSE /\ completeArray' = arrayStringOf
  /\ fillWith' = arrayStringOf /\ data' = NoData /\ showSheet' = FALSE

NextFill ==
  \/ openDocument
  \/ dismiss
  \/ \E i \in Fields, text \in Text : InputForm(i, text)
  \/ Autocomplete
  \/ Share
  \/ ShareFails
  \/ completionWithItemsHandler

Next ==
  \/ NextData /\ ~(opened /\ personalDataIsPresented') /\ UNCHANGED fill
  \/ NextFill
  \/ Kill

Spec == Init /\ [][Next]_vars
-------------------------------------------------------------------------------
Filled == [Fields -> Text \cup Info \cup {""}]

TypeOK ==
  /\ TypeOKData
  /\ opened \in BOOLEAN /\ showSheet \in BOOLEAN
  /\ completeArray \in Filled /\ fillWith \in Filled
  /\ data \in Filled \cup {NoData}

\* What is exported was typed on this screen or is in the personal data now: the
\* text of an entry that the user deleted is in no later export.
ExportsCurrentData ==
  showSheet => \A i \in Fields :
    data[i] \in Text \cup {""} \cup {m.info : m \in ToSet(personalData)}

-------------------------------------------------------------------------------
(* The inductive invariant behind ExportsCurrentData. *)

\* The page of a document is never under the sheet of the personal data.
PageAlone ==
  /\ opened => alive /\ ~personalDataIsPresented
  /\ showSheet => opened

\* The texts of an open page were typed there or are in the personal data.
TextsCurrent ==
  opened => \A i \in Fields :
    completeArray[i] \in Text \cup {""} \cup {m.info : m \in ToSet(personalData)}

FillInv == TypeOK /\ ExportsCurrentData /\ PageAlone /\ TextsCurrent
===============================================================================
