---------------------------- MODULE HomePagesProofs ----------------------------
(***************************************************************************)
(* Proofs about HomePages, for any number of entries, instants, fields and *)
(* downloads: DataInv, FillInv and HomeInv are preserved by the components *)
(* they belong to, and the composition adds ScreensAgree.                  *)
(***************************************************************************)
EXTENDS HomePages, TLAPS, FiniteSetTheorems, SequenceTheorems, WellFoundedInduction

-------------------------------------------------------------------------------
(* Operators. *)

\* A bounded non-empty set of numbers has a maximum, which is what Max gives.
LEMMA MaxInSet ==
  ASSUME NEW n \in Nat, NEW S \in SUBSET (1 .. n), S # {}
  PROVE  Max(S) \in S
<1> DEFINE R == {p \in Nat \X Nat : p[1] < p[2]}
           T == {m \in Nat : n - m \in S}
<1>1. IsWellFoundedOn(R, Nat)
  BY NatLessThanWellFounded DEF OpToRel
<1>2. T # {}
  <2>1. PICK x \in S : TRUE
    OBVIOUS
  <2>2. n - x \in Nat /\ n - (n - x) = x
    BY <2>1
  <2> QED BY <2>2
<1>3. PICK y \in T : \A z \in T : ~(<<z, y>> \in R)
  <2> HIDE DEF R
  <2> QED BY <1>1, <1>2, WFMin
<1>4. ASSUME NEW z \in T PROVE y <= z
  <2>1. y \in Nat /\ z \in Nat /\ ~(<<z, y>> \in R)
    BY <1>3
  <2>2. z < y => <<z, y>> \in R
    BY <2>1
  <2> QED BY <2>1, <2>2
<1>5. \A z \in S : n - z \in Nat /\ n - (n - z) = z
  OBVIOUS
<1>6. \A z \in S : n - z \in T
  BY <1>5
<1>7. \A z \in S : n - y >= z
  BY <1>4, <1>6
<1> QED BY <1>7 DEF Max

\* What a list keeps when one of its elements is removed.
LEMMA RemoveAtElements ==
  ASSUME NEW S, NEW s \in Seq(S), NEW k \in 1 .. Len(s)
  PROVE  /\ RemoveAt(s, k) \in Seq(S)
         /\ Len(RemoveAt(s, k)) = Len(s) - 1
         /\ \A i \in 1 .. Len(s) - 1 : RemoveAt(s, k)[i] = s[IF i < k THEN i ELSE i + 1]
<1> DEFINE a == SubSeq(s, 1, k - 1)
           b == SubSeq(s, k + 1, Len(s))
<1>1. a \in Seq(S) /\ Len(a) = k - 1 /\ \A i \in 1 .. k - 1 : a[i] = s[i]
  OBVIOUS
<1>2. b \in Seq(S) /\ Len(b) = Len(s) - k /\ \A i \in 1 .. Len(s) - k : b[i] = s[k + i]
  OBVIOUS
<1> HIDE DEF a, b
<1>3. /\ a \o b \in Seq(S) /\ Len(a \o b) = Len(s) - 1
      /\ \A i \in 1 .. Len(s) - 1 : (a \o b)[i] = IF i < k THEN a[i] ELSE b[i - (k - 1)]
  BY <1>1, <1>2
<1>4. ASSUME NEW i \in 1 .. Len(s) - 1
      PROVE  (a \o b)[i] = s[IF i < k THEN i ELSE i + 1]
  <2>1. CASE i < k
    BY <1>1, <1>3, <2>1
  <2>2. CASE ~(i < k)
    <3>1. i - (k - 1) \in 1 .. Len(s) - k /\ k + (i - (k - 1)) = i + 1
      BY <2>2
    <3> QED BY <1>2, <1>3, <2>2, <3>1
  <2> QED BY <2>1, <2>2
<1>5. RemoveAt(s, k) = a \o b
  BY DEF RemoveAt, a, b
<1> QED BY <1>3, <1>4, <1>5

\* A kind is read back as it was written.
LEMMA KindsConvert ==
  ASSUME NEW t \in Types
  PROVE  fieldTypeFromString(stringFromFieldType(t)) = t
BY TypesAssumption DEF FieldType, fieldTypeFromString, stringFromFieldType

\* The entry read from a row, and the row written for an entry, keep its instant.
LEMMA RowsAndEntries ==
  /\ \A m \in Entry : RowOf(m) \in Row /\ RowOf(m).createdAt = m.createdAt
  /\ \A r \in Row : EntryOf(r) \in Entry /\ EntryOf(r).createdAt = r.createdAt
<1>1. ASSUME NEW m \in Entry PROVE RowOf(m) \in Row /\ RowOf(m).createdAt = m.createdAt
  BY DEF Entry, Row, RowOf
<1>2. ASSUME NEW r \in Row PROVE EntryOf(r) \in Entry /\ EntryOf(r).createdAt = r.createdAt
  <2>1. PICK t \in Types : r.type = stringFromFieldType(t)
    BY DEF Row
  <2>2. fieldTypeFromString(r.type) \in Types
    BY <2>1, KindsConvert
  <2> QED BY <2>2 DEF Entry, Row, EntryOf
<1> QED BY <1>1, <1>2

-------------------------------------------------------------------------------
(* Personal data. *)

\* The invariant holds of the empty store of a first start.
LEMMA InitDataInv == InitData => DataInv
<1> SUFFICES ASSUME InitData PROVE DataInv
  OBVIOUS
<1>1. IsFiniteSet(context) /\ IsFiniteSet(store)
  BY FS_EmptySet DEF InitData
<1>2. TypeOKData
  <2>1. personalData \in Seq(Entry)
    BY EmptySeq DEF InitData
  <2> QED BY <2>1 DEF InitData, TypeOKData
<1>3. ErasedStaysErased /\ InstantsName /\ InstantsUsed /\ erased \subseteq used
  BY DEF InitData, ErasedStaysErased, InstantsName, InstantsUsed
<1> QED BY <1>1, <1>2, <1>3 DEF DataInv

\* A new entry gets an instant that no row, entry or erased entry has.
LEMMA CreateNewStep ==
  ASSUME NEW info \in Info, NEW type \in Types, NEW t \in Time, DataInv, createNew(info, type, t)
  PROVE  DataInv'
<1> DEFINE model == [info |-> info, type |-> type, createdAt |-> t]
<1>1. /\ model \in Entry /\ RowOf(model) \in Row /\ RowOf(model).createdAt = t
  BY RowsAndEntries DEF Entry
<1>2. /\ personalData' = Append(personalData, model)
      /\ context' = context \cup {RowOf(model)} /\ store' \in {context', store}
  BY KindsConvert DEF createNew, Save
<1> DEFINE row == RowOf(model)
<1> HIDE DEF model, row
<1>3. model.createdAt = t /\ row.createdAt = t /\ row \in Row
  BY <1>1 DEF model, row
<1>4. context' = context \cup {row}
  BY <1>2 DEF row
<1>5. t \notin used /\ used' = used \cup {t} /\ erased' = erased
  BY DEF createNew
<1>6. \A r \in context \cup store : r.createdAt # t
  BY <1>5 DEF DataInv, InstantsUsed
<1>7. /\ personalData \in Seq(Entry) /\ Len(personalData') = Len(personalData) + 1
      /\ \A k \in 1 .. Len(personalData) : personalData'[k] = personalData[k]
      /\ personalData'[Len(personalData) + 1] = model
      /\ personalData' \in Seq(Entry)
  BY <1>1, <1>2 DEF DataInv, TypeOKData
<1>8. \A k \in 1 .. Len(personalData) : personalData[k].createdAt # t
  BY <1>6, <1>7 DEF DataInv, InstantsName
<1>9. TypeOKData'
  BY <1>2, <1>3, <1>4, <1>5, <1>7 DEF DataInv, TypeOKData, createNew
<1>10. IsFiniteSet(context') /\ IsFiniteSet(store')
  BY <1>2, <1>4, FS_AddElement DEF DataInv
<1>11. ErasedStaysErased'
  <2>1. t \notin erased
    BY <1>5 DEF DataInv
  <2>2. \A e \in erased : /\ \A r \in context \cup store : r.createdAt # e
                          /\ \A k \in 1 .. Len(personalData) : personalData[k].createdAt # e
    BY <1>7 DEF DataInv, ErasedStaysErased, ToSet
  <2>3. \A e \in erased : /\ \A r \in context' \cup store' : r.createdAt # e
                          /\ \A k \in DOMAIN personalData' : personalData'[k].createdAt # e
    BY <1>2, <1>3, <1>4, <1>7, <2>1, <2>2
  <2> QED BY <1>5, <2>3 DEF ErasedStaysErased, ToSet
<1>12. InstantsName'
  <2>1. \A r, s \in context' \cup store' : r.createdAt = s.createdAt => r = s
    BY <1>2, <1>3, <1>4, <1>6 DEF DataInv, InstantsName
  <2>2. \A j, k \in DOMAIN personalData' :
          personalData'[j].createdAt = personalData'[k].createdAt => j = k
    BY <1>3, <1>7, <1>8 DEF DataInv, InstantsName
  <2>3. \A k \in DOMAIN personalData' : \E r \in context' : r.createdAt = personalData'[k].createdAt
    BY <1>3, <1>4, <1>7 DEF DataInv, InstantsName
  <2> QED BY <2>1, <2>2, <2>3 DEF InstantsName
<1>13. InstantsUsed' /\ erased' \subseteq used'
  BY <1>2, <1>3, <1>4, <1>5 DEF DataInv, InstantsUsed
<1> QED BY <1>9, <1>10, <1>11, <1>12, <1>13 DEF DataInv

\* A deleted entry takes its rows with it, and no other entry has its instant.
LEMMA OnDeleteStep ==
  ASSUME NEW k \in DOMAIN personalData, DataInv, onDelete(k)
  PROVE  DataInv'
<1> DEFINE gone == personalData[k].createdAt
<1>1. /\ personalData \in Seq(Entry) /\ k \in 1 .. Len(personalData) /\ gone \in Time
  <2>1. personalData \in Seq(Entry) /\ k \in 1 .. Len(personalData)
    BY DEF DataInv, TypeOKData
  <2>2. personalData[k] \in Entry
    BY <2>1
  <2> QED BY <2>1, <2>2 DEF Entry
<1>2. /\ personalData' = RemoveAt(personalData, k)
      /\ context' = {r \in context : r.createdAt # gone} /\ store' \in {context', store}
      /\ erased' = erased \cup (IF store' = context' THEN {gone} ELSE {})
      /\ used' = used
  BY DEF onDelete, Save
<1> HIDE DEF gone
<1>3. /\ personalData' \in Seq(Entry) /\ Len(personalData') = Len(personalData) - 1
      /\ \A i \in 1 .. Len(personalData') :
           personalData'[i] = personalData[IF i < k THEN i ELSE i + 1]
  BY <1>1, <1>2, RemoveAtElements
<1>4. \A i \in DOMAIN personalData : i # k => personalData[i].createdAt # gone
  BY <1>1 DEF DataInv, InstantsName, gone
<1>5. \A i \in 1 .. Len(personalData') :
        \E j \in 1 .. Len(personalData) : j # k /\ personalData'[i] = personalData[j]
  BY <1>1, <1>3
<1>6. TypeOKData'
  BY <1>1, <1>2, <1>3 DEF DataInv, TypeOKData, onDelete
<1>7. IsFiniteSet(context') /\ IsFiniteSet(store')
  BY <1>2, FS_Subset DEF DataInv
<1>8. gone \in used
  BY <1>1 DEF DataInv, InstantsName, InstantsUsed, gone
<1>9. ErasedStaysErased'
  <2>1. \A e \in erased : /\ \A r \in context \cup store : r.createdAt # e
                          /\ \A j \in 1 .. Len(personalData) : personalData[j].createdAt # e
    BY <1>1 DEF DataInv, ErasedStaysErased, ToSet
  <2>2. \A e \in erased' : /\ \A r \in context' \cup store' : r.createdAt # e
                           /\ \A i \in 1 .. Len(personalData') : personalData'[i].createdAt # e
    BY <1>1, <1>2, <1>4, <1>5, <2>1
  <2> QED BY <1>3, <2>2 DEF ErasedStaysErased, ToSet
<1>10. InstantsName'
  <2>1. \A r, s \in context' \cup store' : r.createdAt = s.createdAt => r = s
    BY <1>2 DEF DataInv, InstantsName
  <2>2. \A i, j \in DOMAIN personalData' :
          personalData'[i].createdAt = personalData'[j].createdAt => i = j
    <3> SUFFICES ASSUME NEW i \in 1 .. Len(personalData'), NEW j \in 1 .. Len(personalData'),
                        personalData'[i].createdAt = personalData'[j].createdAt
                 PROVE  i = j
      BY <1>3
    <3> DEFINE at(l) == IF l < k THEN l ELSE l + 1
    <3>1. at(i) \in 1 .. Len(personalData) /\ at(j) \in 1 .. Len(personalData)
      BY <1>1, <1>3
    <3>2. personalData[at(i)].createdAt = personalData[at(j)].createdAt
      BY <1>3
    <3>3. at(i) = at(j)
      BY <1>1, <3>1, <3>2 DEF DataInv, InstantsName
    <3> QED BY <1>1, <3>3
  <2>3. \A i \in DOMAIN personalData' : \E r \in context' : r.createdAt = personalData'[i].createdAt
    <3> SUFFICES ASSUME NEW i \in 1 .. Len(personalData')
                 PROVE  \E r \in context' : r.createdAt = personalData'[i].createdAt
      BY <1>3
    <3>1. PICK j \in 1 .. Len(personalData) : j # k /\ personalData'[i] = personalData[j]
      BY <1>5
    <3>2. PICK r \in context : r.createdAt = personalData[j].createdAt
      BY <1>1 DEF DataInv, InstantsName
    <3> QED BY <1>1, <1>2, <1>4, <3>1, <3>2
  <2> QED BY <2>1, <2>2, <2>3 DEF InstantsName
<1>11. InstantsUsed' /\ erased' \subseteq used'
  BY <1>2, <1>8 DEF DataInv, InstantsUsed
<1> QED BY <1>6, <1>7, <1>9, <1>10, <1>11 DEF DataInv

\* A later save erases what the context had deleted: its instants are in no entry, as
\* every entry has a row in the context.
LEMMA SaveContextStep == ASSUME DataInv, saveContext PROVE DataInv'
<1> USE DEF saveContext
<1>1. TypeOKData'
  BY DEF DataInv, TypeOKData, Row
<1>2. IsFiniteSet(context') /\ IsFiniteSet(store')
  BY DEF DataInv
<1>3. ErasedStaysErased'
  <2>1. ASSUME NEW q \in store \ context
        PROVE  /\ \A r \in context : r.createdAt # q.createdAt
               /\ \A k \in DOMAIN personalData : personalData[k].createdAt # q.createdAt
    BY DEF DataInv, InstantsName
  <2> QED BY <2>1 DEF DataInv, ErasedStaysErased, ToSet
<1>4. (InstantsName /\ InstantsUsed)' /\ erased' \subseteq used'
  BY DEF DataInv, InstantsName, InstantsUsed
<1> QED BY <1>1, <1>2, <1>3, <1>4 DEF DataInv

\* The list that is made of the rows at a start has an entry for each of them.
LEMMA OnAppearStep == ASSUME DataInv, onAppear PROVE DataInv'
<1> DEFINE n == Cardinality(context)
<1>1. n \in Nat
  BY FS_CardinalityType DEF DataInv
<1>2. PICK s \in [1 .. n -> context] :
        /\ \A i, j \in DOMAIN s : i < j => s[i] # s[j]
        /\ personalData' = [k \in DOMAIN s |-> EntryOf(s[k])]
  BY DEF onAppear, Reload, getAllCDData
<1> HIDE DEF n
<1>3. context \subseteq Row
  BY DEF DataInv, TypeOKData
<1>4. /\ personalData' \in [1 .. n -> Entry]
      /\ \A k \in 1 .. n : personalData'[k].createdAt = s[k].createdAt
  BY <1>2, <1>3, RowsAndEntries
<1>5. personalData' \in Seq(Entry) /\ DOMAIN personalData' = 1 .. n
  BY <1>1, <1>4
<1>6. TypeOKData'
  BY <1>5 DEF DataInv, TypeOKData, onAppear, history
<1>7. ErasedStaysErased'
  BY <1>2, <1>4, <1>5 DEF DataInv, ErasedStaysErased, ToSet, onAppear, history
<1>8. InstantsName'
  <2>1. ASSUME NEW i \in 1 .. n, NEW j \in 1 .. n, s[i].createdAt = s[j].createdAt PROVE i = j
    <3>1. s[i] = s[j]
      BY <2>1 DEF DataInv, InstantsName
    <3> QED BY <1>1, <1>2, <3>1
  <2>2. \A i \in 1 .. n : \E r \in context : r.createdAt = s[i].createdAt
    OBVIOUS
  <2> QED BY <1>4, <1>5, <2>1, <2>2 DEF DataInv, InstantsName, onAppear
<1> QED BY <1>6, <1>7, <1>8 DEF DataInv, InstantsUsed, onAppear, history

\* A kill loses the list and what was not saved.
LEMMA KillDataStep == ASSUME DataInv, KillData PROVE DataInv'
<1>1. TypeOKData'
  <2>1. personalData' \in Seq(Entry)
    BY EmptySeq DEF KillData
  <2> QED BY <2>1 DEF DataInv, KillData, TypeOKData, history
<1>2. ErasedStaysErased'
  BY DEF DataInv, KillData, ErasedStaysErased, ToSet, history
<1>3. InstantsName'
  BY DEF DataInv, KillData, InstantsName
<1> QED BY <1>1, <1>2, <1>3 DEF DataInv, KillData, InstantsUsed, history

\* The invariant speaks of neither the sheet nor the form.
LEMMA DataUnchanged ==
  ASSUME DataInv, UNCHANGED <<personalData, context, store, history>>,
         {alive', personalDataIsPresented', extendView'} \subseteq BOOLEAN
  PROVE  DataInv'
BY DEF DataInv, TypeOKData, ErasedStaysErased, InstantsName, InstantsUsed, history

\* Every step of the personal data preserves its invariant.
LEMMA NextDataInv == ASSUME DataInv, NextData \/ KillData \/ UNCHANGED dataVars PROVE DataInv'
<1>1. CASE presentPersonalData
  BY <1>1, DataUnchanged DEF presentPersonalData, DataInv, TypeOKData
<1>2. CASE dismissPersonalData
  BY <1>2, DataUnchanged DEF dismissPersonalData, DataInv, TypeOKData
<1>3. CASE toggleForm
  BY <1>3, DataUnchanged DEF toggleForm, DataInv, TypeOKData
<1>4. CASE UNCHANGED dataVars
  BY <1>4, DataUnchanged DEF dataVars, DataInv, TypeOKData
<1> QED
  BY <1>1, <1>2, <1>3, <1>4, CreateNewStep, OnDeleteStep, SaveContextStep, OnAppearStep, KillDataStep
     DEF NextData

-------------------------------------------------------------------------------
(* Filling in a document. *)

\* The texts that an export may have.
Current == Text \cup {""} \cup {m.info : m \in ToSet(personalData)}

\* The invariant of the page with its two uses of these texts named, before and
\* after a step.
LEMMA FillInvParts ==
  /\ FillInv <=> /\ TypeOK /\ PageAlone
                 /\ opened => \A i \in Fields : completeArray[i] \in Current
                 /\ showSheet => \A i \in Fields : data[i] \in Current
  /\ FillInv' <=> /\ TypeOK' /\ PageAlone'
                  /\ opened' => \A i \in Fields : completeArray'[i] \in Current'
                  /\ showSheet' => \A i \in Fields : data'[i] \in Current'
BY DEF FillInv, ExportsCurrentData, TextsCurrent, Current

\* The texts are texts.
LEMMA CurrentTexts == TypeOKData => Current \subseteq Text \cup Info \cup {""}
<1> SUFFICES ASSUME TypeOKData, NEW m \in ToSet(personalData) PROVE m.info \in Info
  BY DEF Current
<1>1. PICK k \in DOMAIN personalData : m = personalData[k]
  BY DEF ToSet
<1>2. m \in Entry
  BY <1>1 DEF TypeOKData
<1> QED BY <1>2 DEF Entry

\* Autocomplete takes its texts from the entries there are.
LEMMA AutocompleteStep == ASSUME DataInv, FillInv, Autocomplete PROVE FillInv'
<1>1. TypeOK /\ PageAlone /\ \A i \in Fields : completeArray[i] \in Current
  BY FillInvParts DEF Autocomplete
<1>2. UNCHANGED <<personalData, alive, personalDataIsPresented, opened, data, showSheet, fillWith>>
      /\ UNCHANGED dataVars
  BY DEF Autocomplete, dataVars
<1>3. personalData \in Seq(Entry) /\ TypeOKData
  BY DEF DataInv, TypeOKData
<1>4. ASSUME NEW i \in Fields, Matches(i) # {}
      PROVE  personalData[Max(Matches(i))].info \in Current
  <2>1. Matches(i) \in SUBSET (1 .. Len(personalData)) /\ Len(personalData) \in Nat
    BY <1>3 DEF Matches
  <2>2. Max(Matches(i)) \in 1 .. Len(personalData)
    BY <1>4, <2>1, MaxInSet
  <2>3. personalData[Max(Matches(i))] \in ToSet(personalData)
    BY <1>3, <2>2 DEF ToSet
  <2> QED BY <2>3 DEF Current
<1>5. /\ DOMAIN completeArray' = Fields
      /\ completeArray' = [i \in Fields |-> completeArray'[i]]
      /\ \A i \in Fields : completeArray'[i] \in Current
  BY <1>1, <1>4 DEF Autocomplete
<1>6. Current' = Current
  BY <1>2 DEF Current
<1>7. completeArray' \in Filled
  BY <1>3, <1>5, CurrentTexts DEF Filled
<1>8. TypeOK'
  BY <1>1, <1>2, <1>7 DEF TypeOK, TypeOKData, dataVars, history
<1> QED BY <1>1, <1>2, <1>5, <1>6, <1>8, FillInvParts DEF PageAlone

\* Every step of the page and of the personal data beside it preserves the invariant.
LEMMA NextFillInv == ASSUME DataInv, FillInv, [Next]_vars PROVE (DataInv /\ FillInv)'
<1>0. TypeOK /\ PageAlone
  BY DEF FillInv
<1>1. CASE NextData /\ ~(opened /\ personalDataIsPresented') /\ UNCHANGED fill
  <2>1. DataInv'
    BY <1>1, NextDataInv
  <2>2. TypeOK'
    BY <1>0, <1>1, <2>1 DEF TypeOK, DataInv, fill
  <2>3. CASE opened
    <3>1. alive /\ ~personalDataIsPresented
      BY <1>0, <2>3 DEF PageAlone
    <3>2. UNCHANGED <<alive, personalData>>
      BY <1>1, <2>3, <3>1
         DEF NextData, presentPersonalData, dismissPersonalData, toggleForm, createNew,
             onDelete, saveContext, onAppear
    <3>3. Current' = Current
      BY <3>2 DEF Current
    <3> QED BY <1>0, <1>1, <2>1, <2>2, <2>3, <3>1, <3>2, <3>3, FillInvParts DEF fill, PageAlone
  <2>4. CASE ~opened
    BY <1>0, <1>1, <2>1, <2>2, <2>4, FillInvParts DEF fill, PageAlone
  <2> QED BY <2>3, <2>4
<1>2. ASSUME NextFill PROVE UNCHANGED dataVars /\ DataInv' /\ TypeOKData' /\ Current' = Current
  <2>1. UNCHANGED dataVars
    BY <1>2 DEF NextFill, openDocument, dismiss, InputForm, Autocomplete, Share, ShareFails,
                completionWithItemsHandler
  <2>2. DataInv'
    BY <2>1, NextDataInv
  <2> QED BY <2>1, <2>2 DEF Current, dataVars, DataInv
<1>3. ASSUME openDocument \/ dismiss PROVE FillInv'
  <2>1. completeArray' = arrayStringOf /\ \A i \in Fields : completeArray'[i] = ""
    BY <1>3 DEF openDocument, dismiss, arrayStringOf
  <2>2. completeArray' \in Filled
    BY <2>1 DEF arrayStringOf, Filled
  <2>3. TypeOK'
    BY <1>0, <1>2, <1>3, <2>2 DEF NextFill, TypeOK, openDocument, dismiss
  <2>4. PageAlone' /\ ~showSheet'
    BY <1>0, <1>3 DEF openDocument, dismiss, PageAlone, dataVars
  <2> QED BY <2>1, <2>3, <2>4, FillInvParts DEF Current
<1>4. ASSUME NEW i \in Fields, NEW text \in Text, InputForm(i, text) PROVE FillInv'
  <2>0. InputForm(i, text) => NextFill
    BY DEF NextFill
  <2>1. /\ completeArray' = [completeArray EXCEPT ![i] = text]
        /\ UNCHANGED <<opened, fillWith, data, showSheet>> /\ opened /\ ~showSheet
    BY <1>4 DEF InputForm
  <2>2. completeArray' \in Filled
    BY <1>0, <2>1 DEF TypeOK, Filled
  <2>3. \A j \in Fields : completeArray'[j] \in Current
    BY <1>0, <2>1, FillInvParts DEF TypeOK, Filled, Current
  <2>4. TypeOK'
    BY <1>0, <1>2, <1>4, <2>0, <2>1, <2>2 DEF TypeOK
  <2> QED BY <1>0, <1>2, <1>4, <2>0, <2>1, <2>3, <2>4, FillInvParts DEF PageAlone, dataVars
<1>5. ASSUME Share PROVE FillInv'
  <2>0. data' = fillWith'
    BY <1>5 DEF Share, addOverlay
  <2>1. TypeOK'
    BY <1>0, <1>2, <1>5, <2>0 DEF NextFill, TypeOK, Share
  <2> QED BY <1>0, <1>2, <1>5, <2>0, <2>1, FillInvParts DEF NextFill, Share, PageAlone, dataVars
<1>6. ASSUME ShareFails \/ completionWithItemsHandler PROVE FillInv'
  <2>1. TypeOK'
    BY <1>0, <1>2, <1>6 DEF NextFill, TypeOK, ShareFails, completionWithItemsHandler
  <2> QED BY <1>0, <1>2, <1>6, <2>1, FillInvParts
          DEF NextFill, ShareFails, completionWithItemsHandler, PageAlone, dataVars
<1>7. CASE Kill
  <2>1. DataInv'
    BY <1>7, NextDataInv DEF Kill
  <2>2. completeArray' \in Filled /\ fillWith' \in Filled
    BY <1>7 DEF Kill, arrayStringOf, Filled
  <2>3. TypeOK'
    BY <1>7, <2>1, <2>2 DEF Kill, TypeOK, DataInv
  <2> QED BY <1>7, <2>1, <2>3, FillInvParts DEF Kill, PageAlone
<1>8. CASE UNCHANGED vars
  <2>1. UNCHANGED dataVars /\ UNCHANGED fill
    BY <1>8 DEF vars
  <2>2. DataInv'
    BY <2>1, NextDataInv
  <2>3. Current' = Current
    BY <2>1 DEF Current, dataVars
  <2>4. TypeOK'
    BY <1>0, <2>1, <2>2 DEF TypeOK, DataInv, fill
  <2> QED BY <1>0, <2>1, <2>2, <2>3, <2>4, FillInvParts DEF PageAlone, dataVars, fill
<1> QED
  BY <1>1, <1>2, <1>3, <1>4, <1>5, <1>6, <1>7, <1>8, AutocompleteStep DEF Next, NextFill

-------------------------------------------------------------------------------
(* The home screen. *)

\* The home screen's invariant holds when the app is first started.
LEMMA InitHomeInv == H!Init => H!HomeInv
<1> SUFFICES ASSUME H!Init PROVE H!HomeInv
  OBVIOUS
<1>0. MaxDownloads \in Nat
  BY ScreenAssumption DEF H!HomeAssumption
<1>1. 0 \in 0 .. MaxDownloads
  BY <1>0
<1>2. H!TypeOK
  BY <1>1 DEF H!Init, H!TypeOK, H!Key
<1>3. H!BusyFlag /\ H!FieldHoldsTyped
  BY DEF H!Init, H!BusyFlag, H!FieldHoldsTyped
<1>4. H!AsksForTyped /\ H!OneAtATime
  BY DEF H!Init, H!AsksForTyped, H!OneAtATime
<1> QED BY <1>2, <1>3, <1>4 DEF H!HomeInv

\* The numbers of the downloads.
LEMMA CountStep ==
  ASSUME started \in 0 .. MaxDownloads, started < MaxDownloads, started' = started + 1
  PROVE  started' \in 1 .. MaxDownloads /\ started' \in 0 .. MaxDownloads
<1>1. MaxDownloads \in Nat
  BY ScreenAssumption DEF H!HomeAssumption
<1> QED BY <1>1

\* A request asks for a new download, in the name of what the field or the code says.
LEMMA RequestStep ==
  ASSUME H!HomeInv, NEW key \in H!Key, NEW from \in {"typed", "scan"}, NEW wanted \in H!Key,
         wanted # "" /\ ~clobbered => key = wanted,
         H!requestDownload(key, from, wanted), UNCHANGED clobbered
  PROVE  /\ pending' \subseteq H!Download /\ started' \in 0 .. MaxDownloads
         /\ downloadingDocument' \in BOOLEAN /\ overlapped' \in BOOLEAN
         /\ H!BusyFlag' /\ H!AsksForTyped' /\ H!OneAtATime'
<1> DEFINE d == [n |-> started', key |-> key, from |-> from, wanted |-> wanted]
<1>0. /\ pending' = pending \cup {d} /\ downloadingDocument' = TRUE
      /\ overlapped' = (overlapped \/ pending # {})
      /\ started < MaxDownloads /\ started' = started + 1
  BY DEF H!requestDownload
<1>1. started' \in 1 .. MaxDownloads /\ started' \in 0 .. MaxDownloads
  <2>1. started \in 0 .. MaxDownloads
    BY DEF H!HomeInv, H!TypeOK
  <2> QED BY <1>0, <2>1, CountStep
<1>2. d \in H!Download
  BY <1>1 DEF H!Download
<1>3. pending' \subseteq H!Download
  BY <1>0, <1>2 DEF H!HomeInv, H!TypeOK
<1>4. H!BusyFlag'
  BY <1>0 DEF H!BusyFlag
<1>5. H!AsksForTyped'
  <2> SUFFICES ASSUME ~clobbered, NEW e \in pending', e.wanted # "" PROVE e.key = e.wanted
    BY DEF H!AsksForTyped
  <2>1. CASE e \in pending
    BY <2>1 DEF H!AsksForTyped, H!HomeInv
  <2>2. CASE e = d
    BY <2>2
  <2> QED BY <1>0, <2>1, <2>2
<1>6. H!OneAtATime'
  BY <1>0 DEF H!OneAtATime, H!HomeInv
<1>7. overlapped' \in BOOLEAN /\ downloadingDocument' \in BOOLEAN
  BY <1>0
<1> QED BY <1>1, <1>3, <1>4, <1>5, <1>6, <1>7

\* Every step of the home screen preserves its invariant.
LEMMA NextHomeInv == ASSUME H!HomeInv, [H!Next]_(H!vars) PROVE H!HomeInv'
<1> USE DEF H!HomeInv
<1>1. CASE \/ H!toggleTab \/ H!scanQRDownloaded \/ H!dismissSheet \/ H!showOptions \/ H!Launch
           \/ \E s \in {"create", "personal"} : H!presentSheet(s)
  <2>1. UNCHANGED <<documentId, downloadingDocument, pending, started, loadedDocuments, typed,
                    clobbered, overlapped>>
    BY <1>1 DEF H!toggleTab, H!scanQRDownloaded, H!dismissSheet, H!showOptions, H!Launch, H!presentSheet
  <2>2. /\ alive' \in BOOLEAN /\ homePageState' \in BOOLEAN /\ showDownloadOptions' \in BOOLEAN
        /\ sheet' \in {"none", "create", "personal", "qr"}
    BY <1>1 DEF H!toggleTab, H!scanQRDownloaded, H!dismissSheet, H!showOptions, H!Launch,
                H!presentSheet, H!ui, H!TypeOK
  <2>3. H!TypeOK'
    BY <2>1, <2>2 DEF H!TypeOK
  <2> QED BY <2>1, <2>3 DEF H!BusyFlag, H!AsksForTyped, H!FieldHoldsTyped, H!OneAtATime
<1>2. CASE \E id \in Id : H!typeId(id)
  <2>1. H!TypeOK'
    BY <1>2 DEF H!typeId, H!ui, H!Key, H!TypeOK
  <2>2. /\ typed' = documentId'
        /\ UNCHANGED <<downloadingDocument, pending, started, loadedDocuments, clobbered, overlapped>>
    BY <1>2 DEF H!typeId
  <2> QED BY <2>1, <2>2 DEF H!BusyFlag, H!AsksForTyped, H!FieldHoldsTyped, H!OneAtATime
<1>3. CASE H!handleTypeIn
  <2>1. /\ H!requestDownload(documentId, "typed", typed)
        /\ typed' = "" /\ showDownloadOptions' = FALSE
        /\ UNCHANGED <<alive, homePageState, sheet, documentId, loadedDocuments, clobbered>>
    BY <1>3 DEF H!handleTypeIn
  <2>2. documentId \in H!Key /\ typed \in H!Key /\ (typed # "" /\ ~clobbered => documentId = typed)
    BY DEF H!TypeOK, H!FieldHoldsTyped
  <2>3. /\ pending' \subseteq H!Download /\ started' \in 0 .. MaxDownloads
        /\ downloadingDocument' \in BOOLEAN /\ overlapped' \in BOOLEAN
        /\ H!BusyFlag' /\ H!AsksForTyped' /\ H!OneAtATime'
    BY <2>1, <2>2, RequestStep
  <2> QED BY <2>1, <2>3 DEF H!TypeOK, H!Key, H!FieldHoldsTyped
<1>4. ASSUME NEW code \in Id, H!handleScan(code) PROVE H!HomeInv'
  <2>1. /\ H!requestDownload(code, "scan", code) /\ sheet' = "none"
        /\ UNCHANGED <<alive, homePageState, showDownloadOptions, documentId, loadedDocuments, typed, clobbered>>
    BY <1>4 DEF H!handleScan
  <2>2. code \in H!Key
    BY DEF H!Key
  <2>3. /\ pending' \subseteq H!Download /\ started' \in 0 .. MaxDownloads
        /\ downloadingDocument' \in BOOLEAN /\ overlapped' \in BOOLEAN
        /\ H!BusyFlag' /\ H!AsksForTyped' /\ H!OneAtATime'
    BY <2>1, <2>2, RequestStep
  <2> QED BY <2>1, <2>3 DEF H!TypeOK, H!FieldHoldsTyped
<1>5. CASE H!malformedId \/ H!Kill
  BY <1>5 DEF H!malformedId, H!Kill, H!requestMalformed, H!Exit, H!Key, H!TypeOK, H!BusyFlag,
    H!AsksForTyped, H!FieldHoldsTyped, H!OneAtATime
<1>6. CASE H!handleScanFailed
  BY <1>6 DEF H!handleScanFailed, H!TypeOK, H!BusyFlag, H!AsksForTyped, H!FieldHoldsTyped, H!OneAtATime
<1>7. ASSUME NEW d \in pending, H!downloaded(d) PROVE H!HomeInv'
  <2>1. H!TypeOK'
    BY <1>7, ScreenAssumption DEF H!downloaded, H!ui, H!TypeOK, H!Key, H!HomeAssumption
  <2>2. H!BusyFlag'
    BY <1>7 DEF H!downloaded, H!BusyFlag, H!OneAtATime
  <2> QED BY <1>7, <2>1, <2>2 DEF H!downloaded, H!AsksForTyped, H!FieldHoldsTyped, H!OneAtATime, H!TypeOK
<1>8. CASE UNCHANGED H!vars
  BY <1>8 DEF H!vars, H!ui, H!TypeOK, H!BusyFlag, H!AsksForTyped, H!FieldHoldsTyped, H!OneAtATime
<1> QED BY <1>1, <1>2, <1>3, <1>4, <1>5, <1>6, <1>7, <1>8 DEF H!Next

-------------------------------------------------------------------------------
(* The composition. *)

\* Everything that changes.
vars_ == <<vars, home>>

\* A step of the composition is a step of the home screen, or leaves it alone.
LEMMA HomeStep == ASSUME [PagesNext]_vars_ PROVE [H!Next]_(H!vars)
<1>1. CASE onHome
  BY <1>1 DEF onHome, H!Next
<1>2. CASE onAnswer
  BY <1>2 DEF onAnswer, H!Next
<1>3. CASE personalSheet
  BY <1>3 DEF personalSheet, H!Next
<1>4. CASE onPersonalData
  BY <1>4 DEF onPersonalData, home, toggleForm, createNew, onDelete, saveContext, H!vars, H!ui
<1>5. CASE onPage
  <2>1. UNCHANGED alive
    BY <1>5 DEF onPage, NextFill, openDocument, dismiss, InputForm, Autocomplete, Share, ShareFails,
                completionWithItemsHandler, dataVars
  <2> QED BY <1>5, <2>1 DEF onPage, home, H!vars, H!ui
<1>6. CASE end
  BY <1>6 DEF end, H!Next
<1>7. CASE start
  BY <1>7 DEF start, H!Next
<1>8. CASE UNCHANGED vars_
  BY <1>8 DEF vars_, vars, dataVars, home, H!vars, H!ui
<1> QED BY <1>1, <1>2, <1>3, <1>4, <1>5, <1>6, <1>7, <1>8 DEF PagesNext

\* A step of the composition is a step of the page and of the personal data.
LEMMA PageStep == ASSUME PageAlone, [PagesNext]_vars_ PROVE [Next]_vars
<1>1. CASE onHome \/ onAnswer
  BY <1>1 DEF onHome, onAnswer
<1>2. CASE personalSheet
  BY <1>2 DEF personalSheet, Next, NextData
<1>3. CASE onPersonalData
  <2>1. UNCHANGED <<fill, personalDataIsPresented>> /\ NextData
    BY <1>3 DEF onPersonalData, toggleForm, createNew, onDelete, saveContext, NextData
  <2> QED BY <2>1 DEF Next, PageAlone
<1>4. CASE onPage
  BY <1>4 DEF onPage, Next
<1>5. CASE end
  BY <1>5 DEF end, Next
<1>6. CASE start
  <2>1. ~alive /\ onAppear /\ UNCHANGED fill
    BY <1>6 DEF start, onAppear
  <2> QED BY <2>1 DEF Next, NextData, PageAlone
<1>7. CASE UNCHANGED vars_
  BY <1>7 DEF vars_
<1> QED BY <1>1, <1>2, <1>3, <1>4, <1>5, <1>6, <1>7 DEF PagesNext

\* The screens go on agreeing on what is up.
LEMMA AgreeStep ==
  ASSUME PageAlone, ScreensAgree, [PagesNext]_vars_ PROVE ScreensAgree'
<1>1. CASE onHome
  <2>1. ~opened /\ UNCHANGED <<opened, personalDataIsPresented>>
    BY <1>1 DEF onHome, vars, dataVars, fill
  <2>2. sheet' = "personal" <=> sheet = "personal"
    BY <1>1 DEF onHome, H!toggleTab, H!presentSheet, H!scanQRDownloaded, H!dismissSheet, H!typeId,
                H!showOptions, H!handleTypeIn, H!handleScan, H!handleScanFailed, H!Touchable, H!ui
  <2> QED BY <2>1, <2>2 DEF ScreensAgree
<1>2. CASE onAnswer
  BY <1>2 DEF onAnswer, vars, dataVars, fill, H!downloaded, H!ui, ScreensAgree
<1>3. CASE personalSheet
  BY <1>3 DEF personalSheet, fill, H!presentSheet, H!dismissSheet, presentPersonalData,
              dismissPersonalData, ScreensAgree
<1>4. CASE onPersonalData
  <2>1. UNCHANGED <<opened, sheet, personalDataIsPresented>>
    BY <1>4 DEF onPersonalData, fill, home, toggleForm, createNew, onDelete, saveContext
  <2> QED BY <2>1 DEF ScreensAgree
<1>5. CASE onPage
  <2>1. UNCHANGED <<sheet, personalDataIsPresented>>
    BY <1>5 DEF onPage, home, NextFill, openDocument, dismiss, InputForm, Autocomplete, Share,
                ShareFails, completionWithItemsHandler, dataVars
  <2>2. opened' => opened \/ sheet = "none"
    BY <1>5 DEF onPage, H!Touchable
  <2> QED BY <2>1, <2>2 DEF ScreensAgree
<1>6. CASE end
  <2>1. sheet' = "none" /\ ~opened' /\ ~personalDataIsPresented'
    BY <1>6 DEF end, Kill, KillData, H!Kill, H!malformedId, H!requestMalformed, H!Exit
  <2> QED BY <2>1 DEF ScreensAgree
<1>7. CASE start
  BY <1>7 DEF start, H!Launch, H!ui, onAppear, fill, ScreensAgree
<1>8. CASE UNCHANGED vars_
  BY <1>8 DEF vars_, vars, dataVars, fill, home, ScreensAgree
<1> QED BY <1>1, <1>2, <1>3, <1>4, <1>5, <1>6, <1>7, <1>8 DEF PagesNext

\* The whole of what the app keeps for personal data, pages and downloads is
\* consistent at every moment: PagesInv is an invariant of the composition.
THEOREM PagesInvariance == PagesSpec => []PagesInv
<1>1. PagesInit => PagesInv
  <2> SUFFICES ASSUME Init, H!Init PROVE PagesInv
    BY DEF PagesInit
  <2>1. DataInv
    BY InitDataInv DEF Init
  <2>2. FillInv /\ ScreensAgree
    <3>1. arrayStringOf \in Filled
      BY DEF arrayStringOf, Filled
    <3>2. TypeOK
      BY <2>1, <3>1 DEF Init, TypeOK, DataInv
    <3>3. ~opened /\ ~showSheet /\ ~personalDataIsPresented /\ sheet = "none"
      BY DEF Init, InitData, H!Init
    <3> QED BY <3>2, <3>3 DEF FillInv, ExportsCurrentData, PageAlone, TextsCurrent, ScreensAgree
  <2> QED BY <2>1, <2>2, InitHomeInv DEF PagesInv
<1>2. PagesInv /\ [PagesNext]_vars_ => PagesInv'
  <2> SUFFICES ASSUME PagesInv, [PagesNext]_vars_ PROVE PagesInv'
    OBVIOUS
  <2>1. DataInv /\ FillInv /\ H!HomeInv /\ ScreensAgree /\ PageAlone
    BY DEF PagesInv, FillInv
  <2>2. [Next]_vars /\ [H!Next]_(H!vars)
    BY <2>1, HomeStep, PageStep
  <2> QED BY <2>1, <2>2, NextFillInv, NextHomeInv, AgreeStep DEF PagesInv
<1> QED BY <1>1, <1>2, PTL DEF PagesSpec, vars_

\* An entry of the personal data whose deletion reached the disk never comes back
\* (CRUDManager, PersonalDataView.onDelete), whatever else the app does meanwhile.
THEOREM ErasedForGood == PagesSpec => []ErasedStaysErased
<1>1. PagesInv => ErasedStaysErased
  BY DEF PagesInv, DataInv
<1> QED BY <1>1, PagesInvariance, PTL

\* An export has only texts typed on its page and texts that are in the personal
\* data now (DocumentView.autocomplete and its Share button).
THEOREM ExportsAreCurrent == PagesSpec => []ExportsCurrentData
<1>1. PagesInv => ExportsCurrentData
  BY DEF PagesInv, FillInv
<1> QED BY <1>1, PagesInvariance, PTL

\* A download asks for what its user typed last, unless an earlier answer emptied
\* the field (HomeView.handleTypeIn and the completion of downloadDocument).
THEOREM DownloadsAskForTyped == PagesSpec => []AsksForTyped
<1>1. PagesInv => AsksForTyped
  BY DEF PagesInv, H!HomeInv, AsksForTyped
<1> QED BY <1>1, PagesInvariance, PTL

\* The busy flag is set only while a download is on its way; and it is set then,
\* unless attempts overlapped (HomeView.downloadingDocument).
THEOREM BusyOnlyWhileDownloading == PagesSpec => []BusyFlag
<1>1. PagesInv => BusyFlag
  BY DEF PagesInv, H!HomeInv, BusyFlag
<1> QED BY <1>1, PagesInvariance, PTL

\* The composition implements its parts: what it does is, seen from the home
\* screen, a behaviour of HomeScreen, and seen from the pages one of FillDocument.
\* (For the home screen the part of its specification without fairness.)
THEOREM PagesImplementParts == PagesSpec => (H!Init /\ [][H!Next]_(H!vars)) /\ Spec
<1>1. PagesInit => H!Init /\ Init
  BY DEF PagesInit
<1>2. PagesInv /\ [PagesNext]_vars_ => [H!Next]_(H!vars) /\ [Next]_vars
  BY HomeStep, PageStep DEF PagesInv, FillInv
<1> QED BY <1>1, <1>2, PagesInvariance, PTL DEF PagesSpec, Spec, vars_
===============================================================================
