------------------------------ MODULE MarkFields ------------------------------
(***************************************************************************)
(* Marking the fields of a created document: text is selected on its PDF   *)
(* page, and a sheet asks for the description and the kind of the field    *)
(* that is to lie there. What happens to an added field, in the list and   *)
(* in the store, is appendField of DocumentStore.                          *)
(***************************************************************************)
EXTENDS FieldTypes

CONSTANTS
  Rect,         \* places of text on the page
  Desc,         \* descriptions the author may type
  Types,        \* the kinds used
  NoSelection   \* no text is selected

\* What is assumed of the constants; AppScreens, which instantiates this module,
\* says so of its own.
MarkAssumption ==
  Types \subseteq FieldType /\ NoSelection \notin Rect /\ "" \notin Desc

VARIABLES
  pdfSelection,      \* the page's selection, as PDFRelay knows it
  addFieldAbility,   \* the page is that of a created document, not of a downloaded one
  sheetIsPresented,  \* the sheet is up
  selection,         \* the sheet's own copy of the selection
  fieldDescription,  \* the text of its description field, which outlives the sheet
  fields,            \* the fields added so far
  chosen,            \* history: the place selected when the sheet was opened
  drafted            \* history: the author typed since a field was last added

vars == <<pdfSelection, addFieldAbility, sheetIsPresented, selection, fieldDescription,
          fields, chosen, drafted>>

Selection == Rect \cup {NoSelection}
Field == [rect : Selection, desc : Desc \cup {""}, type : Types]
-------------------------------------------------------------------------------
Init ==
  /\ pdfSelection = NoSelection /\ addFieldAbility \in BOOLEAN
  /\ sheetIsPresented = FALSE /\ selection = NoSelection
  /\ fieldDescription = ""
  /\ fields = {} /\ chosen = NoSelection /\ drafted = FALSE

\* The PDF view reports another selection, or none; it may do so under the sheet.
selectionChanged(s) ==
  /\ pdfSelection' = s
  /\ UNCHANGED <<addFieldAbility, sheetIsPresented, selection, fieldDescription, fields, chosen, drafted>>

\* The Add field button, which is shown while text is selected: the sheet comes up
\* with the selection as it is now.
addField ==
  /\ pdfSelection # NoSelection /\ addFieldAbility /\ ~sheetIsPresented
  /\ sheetIsPresented' = TRUE /\ selection' = pdfSelection /\ chosen' = pdfSelection
  /\ UNCHANGED <<pdfSelection, addFieldAbility, fieldDescription, fields, drafted>>

\* The author types a description.
typeDescription(d) ==
  /\ sheetIsPresented
  /\ fieldDescription' = d /\ drafted' = TRUE
  /\ UNCHANGED <<pdfSelection, addFieldAbility, sheetIsPresented, selection, fields, chosen>>

\* Mutated appendField: the page's selection is used, not the sheet's.
appendFieldCurrent(t) ==
  /\ sheetIsPresented
  /\ fields' = fields \cup {[rect |-> pdfSelection, desc |-> fieldDescription,
                             type |-> fieldTypeFromString(stringFromFieldType(t))]}
  /\ sheetIsPresented' = FALSE /\ selection' = NoSelection
  /\ fieldDescription' = "" /\ drafted' = FALSE
  /\ UNCHANGED <<pdfSelection, addFieldAbility, chosen>>

\* The sheet's Add field button: the field is added where the sheet's selection is,
\* the sheet goes, and the description is emptied for the next field.
appendField(t) ==
  /\ sheetIsPresented
  /\ fields' = fields \cup {[rect |-> selection, desc |-> fieldDescription,
                             type |-> fieldTypeFromString(stringFromFieldType(t))]}
  /\ sheetIsPresented' = FALSE /\ selection' = NoSelection
  /\ fieldDescription' = "" /\ drafted' = FALSE
  /\ UNCHANGED <<pdfSelection, addFieldAbility, chosen>>

\* The sheet is swiped away: its text stays, for whatever is selected next.
onDisappear ==
  /\ sheetIsPresented
  /\ sheetIsPresented' = FALSE /\ selection' = NoSelection
  /\ UNCHANGED <<pdfSelection, addFieldAbility, fieldDescription, fields, chosen, drafted>>

Next ==
  \/ \E s \in Selection : selectionChanged(s)
  \/ addField
  \/ \E d \in Desc : typeDescription(d)
  \/ \E t \in Types : appendField(t)
  \/ onDisappear

Spec == Init /\ [][Next]_vars
-------------------------------------------------------------------------------
TypeOK ==
  /\ pdfSelection \in Selection /\ selection \in Selection /\ chosen \in Selection
  /\ addFieldAbility \in BOOLEAN /\ sheetIsPresented \in BOOLEAN
  /\ fieldDescription \in Desc \cup {""} /\ drafted \in BOOLEAN
  /\ fields \subseteq Field

\* Whenever the sheet's button can be pressed there is a selection to unwrap, even
\* if the page lost its own meanwhile; so every field lies on selected text.
SelectionAtHand ==
  /\ sheetIsPresented => selection # NoSelection
  /\ \A f \in fields : f.rect # NoSelection

\* A field is added where the text was selected when the sheet was opened, whatever
\* was selected while the sheet was up.
AddedWhereChosen ==
  [][\A f \in fields' \ fields : f.rect = chosen]_vars

\* A field is never added with the description of the field before it: a text in
\* the sheet was typed after the last field was added.
DescriptionIsFresh == ~drafted => fieldDescription = ""
===============================================================================
