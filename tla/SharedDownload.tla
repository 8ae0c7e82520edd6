---------------------------- MODULE SharedDownload ----------------------------
(***************************************************************************)
(* A recipient who downloads the shared document while the author's writes *)
(* are on their way: SharedDatabase with a reader beside it.               *)
(***************************************************************************)
EXTENDS SharedDatabase, SequencesExt

CONSTANTS
  NoRect,  \* the rectangle of zeros read where no rect is stored
  Base     \* the base in which a child's number is written: ten; a smaller one brings
           \* the boundary of the key order into a smaller instance

ASSUME BaseAssumption == Base \in Nat /\ Base >= 3

VARIABLES
  reader,      \* "idle", or "waiting" for the answer to observeSingleEvent
  downloaded   \* the fields of the document inserted last, or NoVersion

vars == <<sharer, reader, downloaded>>
-------------------------------------------------------------------------------
\* The digits of a child's number.
Digits[n \in Nat] == IF n < Base THEN <<n>> ELSE Append(Digits[n \div Base], n % Base)

\* The order in which a snapshot lists field<i> and field<j>: the keys are no
\* integers, so they are compared as strings.
compareKey(i, j) ==
  LET s == Digits[i]
      t == Digits[j]
  IN  \E k \in 1 .. Len(t) :
        /\ \A m \in 1 .. k - 1 : m <= Len(s) /\ s[m] = t[m]
        /\ k > Len(s) \/ s[k] < t[k]

\* Mutated children: the numbering is taken to start at one.
childrenFromOne(tree) == {i \in 1 .. MaxFields - 1 : \E a \in Attr : tree.leaf[<<i, a>>] # Missing}

\* The children under "fields": those with some leaf.
children(tree) == {i \in 0 .. MaxFields - 1 : \E a \in Attr : tree.leaf[<<i, a>>] # Missing}

\* The value at a leaf, with what the decoder puts for a missing one.
OrElse(v, default) == IF v = Missing THEN default ELSE v

\* The DocumentField made of child field<i>.
FieldFrom(tree, i) ==
  [desc |-> OrElse(tree.leaf[<<i, "desc">>], ""),
   type |-> fieldTypeFromString(OrElse(tree.leaf[<<i, "type">>], "")),
   rect |-> OrElse(tree.leaf[<<i, "rect">>], NoRect)]

\* The fields downloadDocument decodes from a snapshot, in the snapshot's order.
Decode(tree) ==
  LET sorted == SortSeq([i \in 1 .. MaxFields |-> i - 1], compareKey)
      order  == SelectSeq(sorted, LAMBDA i : i \in children(tree))
  IN  [k \in 1 .. Len(order) |-> FieldFrom(tree, order[k])]
-------------------------------------------------------------------------------
Init ==
  /\ InitSharer
  /\ reader = "idle"
  /\ downloaded = NoVersion

\* The recipient scans the QR code: a single-event observer is installed.
observeSingleEvent ==
  /\ reader = "idle"
  /\ reader' = "waiting"
  /\ UNCHANGED <<sharer, downloaded>>

\* The server answers with the tree as it is now, in one message; a tree without
\* a url gives no document.
downloadDocument ==
  /\ reader = "waiting"
  /\ reader' = "idle"
  /\ downloaded' = IF server.url THEN Decode(server) ELSE downloaded
  /\ UNCHANGED sharer

Next ==
  \/ NextSharer /\ UNCHANGED <<reader, downloaded>>
  \/ observeSingleEvent
  \/ downloadDocument

Spec == Init /\ [][Next]_vars

\* The author's client is as fair as in SharedDatabase; a recipient may never read.
FairSpec ==
  /\ Spec
  /\ WF_vars(sendPut /\ UNCHANGED <<reader, downloaded>>)
  /\ WF_vars(ackPut /\ UNCHANGED <<reader, downloaded>>)
  /\ WF_vars(restoreState /\ UNCHANGED <<reader, downloaded>>)
-------------------------------------------------------------------------------
TypeOK ==
  /\ TypeOKSharer
  /\ reader \in {"idle", "waiting"}
  /\ downloaded = NoVersion \/ downloaded \in Seq([desc : STRING, type : FieldType, rect : STRING])

\* A download answered when all the author's writes are acknowledged gives the
\* version shared last: in the author's order for up to ten fields (Base), the same
\* fields in some order for more (the key field10 sorts before field2).
SettledRead ==
  [][(downloadDocument /\ outstandingPuts = <<>> /\ lastShared # NoVersion) =>
       IF Len(lastShared) <= Base THEN downloaded' = lastShared
       ELSE /\ Len(downloaded') = Len(lastShared)
            /\ ToSet(downloaded') = ToSet(lastShared)]_vars

===============================================================================
