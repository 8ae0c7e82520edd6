------------------------------- MODULE HomePages -------------------------------
(***************************************************************************)
(* The home screen composed with what is opened from it: the sheet of the  *)
(* personal data is one of the home screen's sheets, and the page of a     *)
(* downloaded document is opened from the list that the downloads fill.    *)
(* Downloads are answered while either is up, and the app ends for all of  *)
(* them at once.                                                           *)
(***************************************************************************)
EXTENDS FillDocument

CONSTANTS Id, Shared, Malformed, MaxDownloads

VARIABLES homePageState, sheet, showDownloadOptions, documentId, downloadingDocument,
          pending, started, loadedDocuments, typed, clobbered, overlapped

H == INSTANCE HomeScreen

ASSUME ScreenAssumption == H!HomeAssumption

home == <<homePageState, sheet, showDownloadOptions, documentId, downloadingDocument,
          pending, started, loadedDocuments, typed, clobbered, overlapped>>
-------------------------------------------------------------------------------
PagesInit == Init /\ H!Init

\* The home screen's own controls, which the page of a document covers.
onHome ==
  /\ ~opened
  /\ \/ H!toggleTab
     \/ H!presentSheet("create")
     \/ H!scanQRDownloaded
     \/ sheet # "personal" /\ H!dismissSheet
     \/ \E id \in Id : H!typeId(id)
     \/ H!showOptions
     \/ H!handleTypeIn
     \/ \E code \in Id : H!handleScan(code)
     \/ H!handleScanFailed
  /\ UNCHANGED vars

\* A download is answered, whatever is on the screen.
onAnswer == (\E d \in pending : H!downloaded(d)) /\ UNCHANGED vars

\* The person button, and the end of its sheet.
personalSheet ==
  /\ ~opened
  /\ \/ H!presentSheet("personal") /\ presentPersonalData
     \/ H!dismissSheet /\ dismissPersonalData
  /\ UNCHANGED fill

\* What the user does on the sheet of the personal data; and any save of the context.
onPersonalData ==
  /\ \/ toggleForm
     \/ \E info \in Info, type \in Types, t \in Time : createNew(info, type, t)
     \/ \E k \in DOMAIN personalData : onDelete(k)
     \/ saveContext
  /\ UNCHANGED <<fill, home>>

\* The page of a document, which is opened from the list of the downloaded ones.
onPage ==
  /\ opened \/ (H!Touchable /\ homePageState /\ loadedDocuments # {})
  /\ NextFill
  /\ UNCHANGED home

\* The app ends, at any time or by an identifier that is no path, and starts again.
end == Kill /\ (H!Kill \/ (~opened /\ H!malformedId))
start == H!Launch /\ onAppear /\ UNCHANGED fill

PagesNext ==
  \/ onHome
  \/ onAnswer
  \/ personalSheet
  \/ onPersonalData
  \/ onPage
  \/ end
  \/ start

\* The database answers every download while the app runs, as in HomeScreen.
PagesSpec ==
  /\ PagesInit /\ [][PagesNext]_<<vars, home>>
  /\ \A n \in 1 .. MaxDownloads : WF_<<vars, home>>(\E d \in pending : d.n = n /\ H!downloaded(d) /\ UNCHANGED vars)
-------------------------------------------------------------------------------
\* BusyFlag of the home screen, whatever is opened from it.
BusyFlag == H!BusyFlag

\* AsksForTyped of the home screen: also for what is typed before a page or a sheet
\* was opened, and asked for after it.
AsksForTyped == H!AsksForTyped

\* RequestedArrives of the home screen: also while a page or a sheet is up.
RequestedArrives == H!RequestedArrives

-------------------------------------------------------------------------------
\* The home screen and what is opened from it agree on what is up.
ScreensAgree ==
  /\ personalDataIsPresented <=> sheet = "personal"
  /\ opened => sheet = "none"

PagesInv == DataInv /\ FillInv /\ H!HomeInv /\ ScreensAgree
===============================================================================
