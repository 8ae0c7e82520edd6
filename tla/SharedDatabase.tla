---------------------------- MODULE SharedDatabase ----------------------------
(***************************************************************************)
(* One shared document in the Firebase realtime database: the tree the     *)
(* server holds under /shared/<id>, and the writes with which the author's *)
(* app brings it there.                                                    *)
(*                                                                         *)
(* shareDoucment overwrites the root with the name and the url, which also *)
(* wipes every field, and then writes three leaves per field, each with a  *)
(* write of its own. The client keeps every write until it is acknowledged *)
(* and sends all of them again, in order, after a reconnect; it keeps them *)
(* in memory only. The server itself is external: writes of a connection   *)
(* are applied and acknowledged in the order they were sent.               *)
(***************************************************************************)
EXTENDS FieldTypes, Integers, Sequences

CONSTANTS
  Field,           \* fields: records with a desc, a type and a rect
  Versions,        \* the states of the document that the author may share
  MaxFields,       \* bound on the fields of a version
  MaxShares,       \* bound on the presses of the share button
  MaxDisconnects,  \* bound on lost connections
  MaxRestarts,     \* bound on restarts of the author's app
  Missing,         \* no value at a leaf
  NoVersion        \* no version is on its way to the server

ASSUME BoundsAssumption ==
  /\ MaxFields \in Nat
  /\ MaxShares \in Nat /\ MaxDisconnects \in Nat /\ MaxRestarts \in Nat
ASSUME VersionsAssumption ==
  /\ \A F \in Versions : F \in Seq(Field) /\ Len(F) <= MaxFields
  /\ NoVersion \notin Versions

VARIABLES
  outstandingPuts,  \* the author's writes that are not acknowledged yet, oldest first
  sent,             \* how many of them this connection has carried to the server
  connected,        \* the author's connection is up
  server,           \* the tree under /shared/<id>
  lastShared,       \* the version shared last, unless a restart dropped its writes
  shared,           \* history: every version shared so far, in order
  disconnects,      \* lost connections so far
  restarts          \* restarts so far

sharer == <<outstandingPuts, sent, connected, server, lastShared, shared, disconnects, restarts>>
-------------------------------------------------------------------------------
Attr == {"desc", "type", "rect"}
Leaf == (0 .. MaxFields - 1) \X Attr
Root == <<-1, "root">>

\* The value written at attribute a of field f; a kind is written as its label.
Written(f, a) ==
  CASE a = "desc" -> f.desc
    [] a = "type" -> stringFromFieldType(f.type)
    [] OTHER      -> f.rect

Value == {Written(f, a) : f \in Field, a \in Attr} \cup {Missing}
Put == [at : Leaf \cup {Root}, val : Value]

\* A write at the root replaces the whole subtree, so it also clears each leaf.
Writes(p, l) == p.at = Root \/ p.at = l
ValueAt(p, l) == IF p.at = l THEN p.val ELSE Missing

\* setValue as the server applies it.
setValue(p, tree) ==
  [url |-> tree.url \/ p.at = Root,
   leaf |-> [l \in Leaf |-> IF Writes(p, l) THEN ValueAt(p, l) ELSE tree.leaf[l]]]

\* The writes of shareDoucment for version F: the root, then the desc, the type
\* and the rect of field0, of field1, ... The write at position p > 1 belongs to
\* field cntAt(p), and is the turnAt(p)-th of its three.
AttrOrder == <<"desc", "type", "rect">>
cntAt(p) == (p - 2) \div 3
turnAt(p) == ((p - 2) % 3) + 1

PutsOf(F) ==
  [p \in 1 .. 1 + 3 * Len(F) |->
     IF p = 1 THEN [at |-> Root, val |-> Missing]
     ELSE [at  |-> <<cntAt(p), AttrOrder[turnAt(p)]>>,
           val |-> Written(F[cntAt(p) + 1], AttrOrder[turnAt(p)])]]

\* The tree in which version F has arrived completely, and nothing else.
Image(F) ==
  [url |-> TRUE,
   leaf |-> [l \in Leaf |-> IF l[1] < Len(F) THEN Written(F[l[1] + 1], l[2]) ELSE Missing]]

EmptyTree == [url |-> FALSE, leaf |-> [l \in Leaf |-> Missing]]
-------------------------------------------------------------------------------
InitSharer ==
  /\ outstandingPuts = <<>> /\ sent = 0
  /\ connected = FALSE
  /\ server = EmptyTree
  /\ lastShared = NoVersion
  /\ shared = <<>>
  /\ disconnects = 0 /\ restarts = 0

\* The author's client. Nothing is sent unless it is connected; while it is not, a
\* connection attempt is scheduled, again and again, and one that succeeds ends
\* with restoreAuth.
canSendWrites == connected
tryScheduleReconnect == ~connected
restoreAuth == connected' = TRUE

\* Writes wait behind the older ones, connected or not.
putInternal(puts) == outstandingPuts' = outstandingPuts \o puts

\* The answer to the oldest write that this connection has carried arrives.
onDataMessage == canSendWrites /\ sent > 0

\* Mutated shareDoucment: writes made without a connection are not queued.
shareOnlyConnected(F) ==
  /\ Len(shared) < MaxShares
  /\ outstandingPuts' = IF connected THEN outstandingPuts \o PutsOf(F) ELSE outstandingPuts
  /\ lastShared' = F
  /\ shared' = Append(shared, F)
  /\ UNCHANGED <<sent, connected, server, disconnects, restarts>>

\* The share button: all writes are queued, connected or not, and the completion
\* that shows the QR code runs without waiting for any of them.
shareDoucment(F) ==
  /\ Len(shared) < MaxShares
  /\ putInternal(PutsOf(F))
  /\ lastShared' = F
  /\ shared' = Append(shared, F)
  /\ UNCHANGED <<sent, connected, server, disconnects, restarts>>

\* The next write that this connection has not carried reaches the server.
sendPut ==
  /\ canSendWrites /\ sent < Len(outstandingPuts)
  /\ server' = setValue(outstandingPuts[sent + 1], server)
  /\ sent' = sent + 1
  /\ UNCHANGED <<outstandingPuts, connected, lastShared, shared, disconnects, restarts>>

\* Mutated ackPut: the first acknowledgement clears the whole queue.
ackClearsQueue ==
  /\ onDataMessage
  /\ outstandingPuts' = <<>>
  /\ sent' = 0
  /\ UNCHANGED <<connected, server, lastShared, shared, disconnects, restarts>>

\* The acknowledgement of the oldest write arrives, and the write is forgotten.
ackPut ==
  /\ onDataMessage
  /\ outstandingPuts' = Tail(outstandingPuts)
  /\ sent' = sent - 1
  /\ UNCHANGED <<connected, server, lastShared, shared, disconnects, restarts>>

\* The connection is lost, with the acknowledgements still under way.
onDisconnect ==
  /\ connected /\ disconnects < MaxDisconnects
  /\ connected' = FALSE
  /\ sent' = 0
  /\ disconnects' = disconnects + 1
  /\ UNCHANGED <<outstandingPuts, server, lastShared, shared, restarts>>

\* The connection is up again: everything not acknowledged will be sent again.
restoreState ==
  /\ tryScheduleReconnect
  /\ restoreAuth
  /\ UNCHANGED <<outstandingPuts, sent, server, lastShared, shared, disconnects, restarts>>

\* The author's app is killed and started again: no write survives it.
Restart ==
  /\ restarts < MaxRestarts
  /\ restarts' = restarts + 1
  /\ outstandingPuts' = <<>> /\ sent' = 0 /\ connected' = FALSE
  /\ lastShared' = IF outstandingPuts = <<>> THEN lastShared ELSE NoVersion
  /\ UNCHANGED <<server, shared, disconnects>>

NextSharer ==
  \/ \E F \in Versions : shareDoucment(F)
  \/ sendPut
  \/ ackPut
  \/ onDisconnect
  \/ restoreState
  \/ Restart

SpecSharer == InitSharer /\ [][NextSharer]_sharer

\* The client reconnects, writes go out while it is connected, and the server
\* answers each of them.
FairSharer ==
  SpecSharer /\ WF_sharer(sendPut) /\ WF_sharer(ackPut) /\ WF_sharer(restoreState)
-------------------------------------------------------------------------------
TypeOKSharer ==
  /\ outstandingPuts \in Seq(Put) /\ sent \in 0 .. Len(outstandingPuts)
  /\ connected \in BOOLEAN
  /\ server \in [url : BOOLEAN, leaf : [Leaf -> Value]]
  /\ lastShared \in Versions \cup {NoVersion}
  /\ shared \in Seq(Versions)
  /\ disconnects \in Nat /\ restarts \in Nat

\* Once every write is acknowledged the server holds exactly the version shared
\* last: no leaf of an older version, of a resent write or of a removed field is
\* left, however often the connection was lost and whatever was shared meanwhile.
Converged ==
  (outstandingPuts = <<>> /\ lastShared # NoVersion) => server = Image(lastShared)

\* The tree after the first m leaf writes of F.
PartOf(F, m) ==
  [url |-> TRUE,
   leaf |-> [l \in Leaf |->
     IF \E p \in 2 .. m + 1 : PutsOf(F)[p].at = l THEN Written(F[l[1] + 1], l[2]) ELSE Missing]]

\* As long as no connection was lost, the server holds an initial part of a single
\* version: two versions never mix, even when the app is killed half way.
OneVersionAtATime ==
  disconnects = 0 =>
    \/ server = EmptyTree
    \/ \E i \in 1 .. Len(shared) : \E m \in 0 .. 3 * Len(shared[i]) : server = PartOf(shared[i], m)

\* A shared version arrives at the server, unless a newer one takes its place or
\* the app is restarted before its writes are through.
EventuallyArrives ==
  \A F \in Versions : lastShared = F ~> (server = Image(F) \/ lastShared # F)
-------------------------------------------------------------------------------
(* The inductive invariant behind Converged. *)

\* The writes of queue q after position i that touch leaf l.
Later(q, i, l) == {j \in i + 1 .. Len(q) : Writes(q[j], l)}

\* Replaying the writes of q after position i on a tree that holds value now at
\* leaf l leaves value v there: the last of them puts v, or none touches the leaf
\* and it holds v already.
LeafSettles(q, i, l, now, v) ==
  \/ Later(q, i, l) = {} /\ now = v
  \/ \E j \in Later(q, i, l) :
       /\ ValueAt(q[j], l) = v
       /\ \A k \in Later(q, i, l) : k <= j

\* The document itself exists, or a write that makes it is still to come.
RootSettles(q, i, url) == url \/ \E j \in i + 1 .. Len(q) : q[j].at = Root

\* Replaying the writes after position i leaves exactly version F on the server.
Settles(i, F) ==
  /\ RootSettles(outstandingPuts, i, server.url)
  /\ \A l \in Leaf : LeafSettles(outstandingPuts, i, l, server.leaf[l], Image(F).leaf[l])

SharerInv ==
  /\ TypeOKSharer
  /\ ~connected => sent = 0
  /\ lastShared # NoVersion => Settles(0, lastShared) /\ Settles(sent, lastShared)
-------------------------------------------------------------------------------
(* The inductive invariant behind OneVersionAtATime. *)

\* What follows position i of queue q, if anything, begins a version.
AtRoot(q, i) == i < Len(q) => q[i + 1].at = Root

\* Right after position i, queue q carries the leaf writes of F after the first m,
\* all of them, and then begins another version.
Carries(q, i, F, m) ==
  LET end == i + (3 * Len(F) - m)
  IN  /\ end <= Len(q)
      /\ \A j \in i + 1 .. end : q[j] = PutsOf(F)[m + 1 + (j - i)]
      /\ AtRoot(q, end)

\* The queue is made of whole versions, but for a first one that may have lost
\* acknowledged writes.
WholeVersions ==
  \A j \in 1 .. Len(outstandingPuts) : outstandingPuts[j].at = Root =>
    \E i \in 1 .. Len(shared) : Carries(outstandingPuts, j, shared[i], 0)

\* The server holds nothing, or an initial part of a version, and the next write goes
\* on with that version or begins another.
PartArrived ==
  \/ server = EmptyTree /\ AtRoot(outstandingPuts, sent)
  \/ \E i \in 1 .. Len(shared) : \E m \in 0 .. 3 * Len(shared[i]) :
       /\ server = PartOf(shared[i], m)
       /\ \/ AtRoot(outstandingPuts, sent)
          \/ Carries(outstandingPuts, sent, shared[i], m)

VersionInv ==
  /\ SharerInv
  /\ disconnects = 0 => WholeVersions /\ PartArrived
===============================================================================
