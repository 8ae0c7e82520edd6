------------------------------ MODULE HomeScreen ------------------------------
(***************************************************************************)
(* The home screen: its tabs, its sheets, and the downloads it starts from *)
(* a typed identifier or from a scanned QR code.                           *)
(*                                                                         *)
(* A download is answered by the database at any later time, while the     *)
(* user goes on; the screen keeps one busy flag and one text field for all *)
(* of them. What a handler posts to the main queue for itself runs before  *)
(* the next touch, so it is part of the handler's action.                  *)
(***************************************************************************)
EXTENDS Integers

CONSTANTS
  Id,            \* identifiers the user may type or scan
  Shared,        \* those of them under which a document is shared
  Malformed,     \* those with characters that a database path may not have
  MaxDownloads   \* bound on the downloads started

\* Assumed by HomePages, which composes this screen with the pages opened from it.
HomeAssumption ==
  /\ Shared \subseteq Id /\ Malformed \subseteq Id /\ Shared \cap Malformed = {} /\ "" \notin Id
  /\ MaxDownloads \in Nat

VARIABLES
  alive,                \* the app runs
  homePageState,        \* the tab of downloaded documents is shown, not that of created ones
  sheet,                \* the sheet over the screen: "none", "create", "personal" or "qr"
  showDownloadOptions,  \* the identifier field and the QR button are shown
  documentId,           \* the text of the identifier field
  downloadingDocument,  \* the busy flag
  pending,              \* downloads without an answer
  started,              \* how many downloads were started
  loadedDocuments,      \* the identifiers of the downloaded documents
  typed,                \* history: what the user typed since the last download, or ""
  clobbered,            \* history: an answer emptied the field after the user typed
  overlapped            \* history: an attempt began or failed before another's answer

ui == <<homePageState, sheet, showDownloadOptions>>
vars == <<alive, ui, documentId, downloadingDocument, pending, started, loadedDocuments,
          typed, clobbered, overlapped>>
-------------------------------------------------------------------------------
Key == Id \cup {""}

\* A download: its key, how it was started, and, as history, what its user wanted.
Download == [n : 1 .. MaxDownloads, key : Key, from : {"typed", "scan"}, wanted : Key]

\* The controls of the home screen can be touched.
Touchable == alive /\ sheet = "none"

Init ==
  /\ alive = TRUE
  /\ homePageState = TRUE /\ sheet = "none" /\ showDownloadOptions = FALSE
  /\ documentId = "" /\ downloadingDocument = FALSE
  /\ pending = {} /\ started = 0 /\ loadedDocuments = {}
  /\ typed = "" /\ clobbered = FALSE /\ overlapped = FALSE

\* The app ends; the downloaded documents are in the store.
Exit ==
  /\ alive' = FALSE
  /\ homePageState' = TRUE /\ sheet' = "none" /\ showDownloadOptions' = FALSE
  /\ documentId' = "" /\ downloadingDocument' = FALSE
  /\ pending' = {} /\ typed' = "" /\ clobbered' = FALSE /\ overlapped' = FALSE
  /\ UNCHANGED <<started, loadedDocuments>>

\* GlobalEnviroment.downloadDocument up to the observer it installs: the request is
\* on its way, and nothing limits how long.
requestDownload(key, from, wanted) ==
  /\ started < MaxDownloads /\ key \notin Malformed
  /\ started' = started + 1
  /\ pending' = pending \cup {[n |-> started', key |-> key, from |-> from, wanted |-> wanted]}
  /\ downloadingDocument' = TRUE
  /\ overlapped' = (overlapped \/ pending # {})

\* The same with a malformed path: an exception that nothing catches.
requestMalformed(key) ==
  /\ key \in Malformed
  /\ Exit
-------------------------------------------------------------------------------
\* HomeSegmentedControl: the other tab is chosen.
toggleTab ==
  /\ Touchable
  /\ homePageState' = ~homePageState
  /\ UNCHANGED <<alive, sheet, showDownloadOptions, documentId, downloadingDocument,
                 pending, started, loadedDocuments, typed, clobbered, overlapped>>

\* The Create button, on the tab of created documents, and the person button.
presentSheet(s) ==
  /\ Touchable
  /\ s = "create" => ~homePageState
  /\ sheet' = s
  /\ UNCHANGED <<alive, homePageState, showDownloadOptions, documentId, downloadingDocument,
                 pending, started, loadedDocuments, typed, clobbered, overlapped>>

\* The QR button beside the identifier field.
scanQRDownloaded ==
  /\ Touchable /\ showDownloadOptions
  /\ showDownloadOptions' = FALSE
  /\ sheet' = "qr"
  /\ UNCHANGED <<alive, homePageState, documentId, downloadingDocument,
                 pending, started, loadedDocuments, typed, clobbered, overlapped>>

\* A sheet is closed by its user.
dismissSheet ==
  /\ alive /\ sheet # "none"
  /\ sheet' = "none"
  /\ UNCHANGED <<alive, homePageState, showDownloadOptions, documentId, downloadingDocument,
                 pending, started, loadedDocuments, typed, clobbered, overlapped>>

\* The user types into the identifier field.
typeId(id) ==
  /\ Touchable /\ showDownloadOptions
  /\ documentId' = id /\ typed' = id
  /\ UNCHANGED <<alive, ui, downloadingDocument, pending, started, loadedDocuments,
                 clobbered, overlapped>>

\* downloadDocument, the Download button, while the options are hidden: they appear.
showOptions ==
  /\ Touchable /\ homePageState /\ ~showDownloadOptions
  /\ showDownloadOptions' = TRUE
  /\ UNCHANGED <<alive, homePageState, sheet, documentId, downloadingDocument,
                 pending, started, loadedDocuments, typed, clobbered, overlapped>>

\* Mutated handleTypeIn: the field is emptied before its text is used.
handleTypeInCleared ==
  /\ Touchable /\ showDownloadOptions
  /\ requestDownload("", "typed", typed)
  /\ showDownloadOptions' = FALSE
  /\ documentId' = "" /\ typed' = ""
  /\ UNCHANGED <<alive, homePageState, sheet, loadedDocuments, clobbered>>

\* The Download button while the options are shown, or the return key in the field:
\* the document named in the field is asked for.
handleTypeIn ==
  /\ Touchable /\ showDownloadOptions
  /\ requestDownload(documentId, "typed", typed)
  /\ showDownloadOptions' = FALSE
  /\ typed' = ""
  /\ UNCHANGED <<alive, homePageState, sheet, documentId, loadedDocuments, clobbered>>

\* The scanner found a code.
handleScan(code) ==
  /\ alive /\ sheet = "qr"
  /\ requestDownload(code, "scan", code)
  /\ sheet' = "none"
  /\ UNCHANGED <<alive, homePageState, showDownloadOptions, documentId,
                 loadedDocuments, typed, clobbered>>

\* An identifier that is no path was typed or scanned.
malformedId ==
  \/ Touchable /\ showDownloadOptions /\ requestMalformed(documentId)
  \/ alive /\ sheet = "qr" /\ \E code \in Id : requestMalformed(code)

\* The scanner failed: the busy flag is set and cleared again.
handleScanFailed ==
  /\ alive /\ sheet = "qr"
  /\ sheet' = "none"
  /\ downloadingDocument' = FALSE
  /\ overlapped' = (overlapped \/ pending # {})
  /\ UNCHANGED <<alive, homePageState, showDownloadOptions, documentId,
                 pending, started, loadedDocuments, typed, clobbered>>

\* Mutated downloaded: the answer removes the observers of all downloads.
downloadedRemovesAll(d) ==
  /\ alive
  /\ pending' = {}
  /\ loadedDocuments' = loadedDocuments \cup ({d.key} \cap Shared)
  /\ downloadingDocument' = FALSE
  /\ documentId' = IF d.from = "typed" THEN "" ELSE documentId
  /\ clobbered' = (clobbered \/ (d.from = "typed" /\ typed # ""))
  /\ UNCHANGED <<alive, ui, started, typed, overlapped>>

\* The database answers a download: the document is listed if it exists, and the
\* completion clears the busy flag and, for a typed identifier, the field, whatever
\* the field holds by now.
downloaded(d) ==
  /\ alive
  /\ pending' = pending \ {d}
  /\ loadedDocuments' = loadedDocuments \cup ({d.key} \cap Shared)
  /\ downloadingDocument' = FALSE
  /\ documentId' = IF d.from = "typed" THEN "" ELSE documentId
  /\ clobbered' = (clobbered \/ (d.from = "typed" /\ typed # ""))
  /\ UNCHANGED <<alive, ui, started, typed, overlapped>>

\* The system ends the app, and the user starts it again.
Kill == alive /\ Exit

Launch ==
  /\ ~alive
  /\ alive' = TRUE
  /\ UNCHANGED <<ui, documentId, downloadingDocument, pending, started, loadedDocuments,
                 typed, clobbered, overlapped>>

Next ==
  \/ toggleTab
  \/ \E s \in {"create", "personal"} : presentSheet(s)
  \/ scanQRDownloaded
  \/ dismissSheet
  \/ \E id \in Id : typeId(id)
  \/ showOptions
  \/ handleTypeIn
  \/ \E code \in Id : handleScan(code)
  \/ malformedId
  \/ handleScanFailed
  \/ \E d \in pending : downloaded(d)
  \/ Kill
  \/ Launch

\* The database answers every download while the app runs: the client resends its
\* requests after a reconnect and reading /shared is allowed to everyone.
Spec ==
  /\ Init /\ [][Next]_vars
  /\ \A n \in 1 .. MaxDownloads : WF_vars(\E d \in pending : d.n = n /\ downloaded(d))
-------------------------------------------------------------------------------
TypeOK ==
  /\ alive \in BOOLEAN /\ homePageState \in BOOLEAN
  /\ sheet \in {"none", "create", "personal", "qr"} /\ showDownloadOptions \in BOOLEAN
  /\ documentId \in Key /\ downloadingDocument \in BOOLEAN
  /\ pending \subseteq Download /\ started \in 0 .. MaxDownloads
  /\ loadedDocuments \subseteq Id
  /\ typed \in Key /\ clobbered \in BOOLEAN /\ overlapped \in BOOLEAN

\* The busy flag is never set without a download to wait for; and it is set for
\* every download, unless two attempts overlapped.
BusyFlag ==
  /\ downloadingDocument => pending # {}
  /\ (pending # {} /\ ~overlapped) => downloadingDocument

\* A download asks for what the user typed last, if the user typed anything since
\* the download before and no answer emptied the field in between.
AsksForTyped ==
  ~clobbered => \A d \in pending : d.wanted # "" => d.key = d.wanted

\* A shared document that was asked for is listed in the end, however many other
\* downloads are answered before, unless the app ends first.
RequestedArrives ==
  \A id \in Shared : (\E d \in pending : d.key = id) ~> (id \in loadedDocuments \/ ~alive)

-------------------------------------------------------------------------------
(* The inductive invariant behind BusyFlag and AsksForTyped. *)

\* What the user typed is in the field until a download asks for it.
FieldHoldsTyped == ~clobbered /\ typed # "" => documentId = typed

\* Downloads that did not overlap come one at a time.
OneAtATime == ~overlapped => \A d, e \in pending : d = e

HomeInv == TypeOK /\ BusyFlag /\ AsksForTyped /\ FieldHoldsTyped /\ OneAtATime
===============================================================================
