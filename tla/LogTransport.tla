---------------------------- MODULE LogTransport ----------------------------
(***************************************************************************)
(* Messages written with pb_encode, carried as bytes that may be cut short *)
(* or damaged on the way, and read with pb_decode into a structure that    *)
(* its user must pb_release: GDTCCTEncodeBatchedLogRequest and             *)
(* GDTCCTDecodeLogResponse (GDTCCTNanopbHelpers.m) with the nanopb         *)
(* functions they call.  A message may also be framed, by its length or by *)
(* a zero, with other bytes after it on the stream; and a structure may be *)
(* updated with a second message through pb_decode_noinit.                 *)
(***************************************************************************)
EXTENDS NanoPB

CONSTANTS
    Types,         \* the message types exchanged, and for each of them
    Sources(_),    \*   the structures that are sent,
    Updates(_),    \*   those merged into a held structure,
    Handlers(_),   \*   its tags with a callback function,
    Extensions(_), \*   the fields of the extensions in use,
    Frames(_),     \*   and how it is set apart on the stream
    Trailer,     \* the bytes that follow a framed message
    Damage,      \* the bytes a damaged byte may turn into
    MaxWire,     \* more bytes than any message has
    MaxBudget    \* bound on the allocations that succeed in one decoding

VARIABLES
    message,     \* the message type in use
    sent,        \* the structure pb_encode was asked to write
    frame,       \* "plain", "delimited" or "nullterminated"
    wire,        \* the bytes to be read
    fault,       \* "none", "cut" or "damaged": what happened to any bytes so far
    dest,        \* the structure decoded into
    expected,    \* the contents an undisturbed reader holds
    heap,        \* memory allocated by the decoder
    stream,      \* the stream after the last decoding
    status       \* how far the exchange has come

vars == <<message, sent, frame, wire, fault, dest, expected, heap, stream, status>>

-----------------------------------------------------------------------------
(* What a structure says, without the addresses.  A singular field says    *)
(* nothing when it is zero.                                                *)
Says(f, member) ==
    CASE f.atype = "POINTER"  -> member.ptr # NULL
      [] f.htype = "OPTIONAL" -> member.has
      [] f.htype = "SINGULAR" -> member.val # f.zero
      [] OTHER                -> TRUE

(* The fields of a structure, tag -> [f, member], with those of its        *)
(* extensions: found is the has_ flag of a static one.                     *)
ExtensionPart(x) ==
    IF x.f.atype = "STATIC"
    THEN [f |-> [x.f EXCEPT !.htype = "OPTIONAL"], member |-> [has |-> x.found, val |-> x.m.val]]
    ELSE [f |-> x.f, member |-> x.m]
ExtensionParts(ext) ==
    [tag \in {x.f.tag : x \in ext} |-> ExtensionPart(CHOOSE x \in ext : x.f.tag = tag)]
Parts(t, m) ==
    [tag \in Known[t] |-> [f |-> Member[t][tag], member |-> m[tag]]]
    @@ ExtensionParts(UNION {ToSet(m[tag]) : tag \in Extensible[t]})

Many(f) == f.htype = "REPEATED" \/ f.atype = "CALLBACK"

(* The values that a part has, and the contents of a structure.            *)
Values(part) ==
    IF Many(part.f) THEN part.member.val
    ELSE IF Says(part.f, part.member) THEN << part.member.val >> ELSE << >>

RECURSIVE Contents(_, _)

ContentsOf(sub, v) ==
    [i \in DOMAIN v |-> IF sub = "" THEN v[i] ELSE Contents(sub, v[i])]
ContentsOfParts(parts) ==
    [tag \in DOMAIN parts |-> ContentsOf(parts[tag].f.sub, Values(parts[tag]))]
Contents(t, m) == ContentsOfParts(Parts(t, m))

(* The reference for a message read after another one: the later value of  *)
(* a single field counts, messages merge unless they are held by a         *)
(* pointer, arrays join.                                                   *)
RECURSIVE Joined(_, _, _)

JoinedField(f, v, w) ==
    CASE Many(f) -> v \o w
      [] ~Many(f) /\ w = << >> -> v
      [] ~Many(f) /\ w # << >> /\ (v = << >> \/ f.sub = "" \/ f.atype = "POINTER") -> w
      [] OTHER -> << Joined(f.sub, v[1], w[1]) >>
Joined(t, a, b) ==
    [tag \in DOMAIN a |->
        IF tag \notin Known[t] THEN IF b[tag] = << >> THEN a[tag] ELSE b[tag]
        ELSE JoinedField(Member[t][tag], a[tag], b[tag])]

(* The addresses a structure holds.                                        *)
RECURSIVE Held(_, _)

HeldBy(f, member) ==
    (IF f.atype = "POINTER" THEN {member.ptr} \ {NULL} ELSE {})
    \cup (IF f.sub = "" THEN {} ELSE UNION {Held(f.sub, x) : x \in ToSet(Items(f, member))})
HeldByParts(parts) == UNION {HeldBy(parts[tag].f, parts[tag].member) : tag \in DOMAIN parts}
Held(t, m) == HeldByParts(Parts(t, m))

-----------------------------------------------------------------------------
\* A structure with the functions and extensions that its user puts in.
Prepared(t) ==
    LET unset(f) == [f |-> f, found |-> FALSE, m |-> f.unset]
        member(f) ==
            CASE f.ltype = "EXTENSION" -> [i \in DOMAIN Extensions(t) |-> unset(Extensions(t)[i])]
              [] f.ltype # "EXTENSION" /\ f.tag \in Handlers(t) -> [func |-> TRUE, val |-> << >>]
              [] OTHER -> f.unset
    IN  [tag \in DOMAIN Declared[t] |-> member(Member[t][tag])] @@ << >>

Init ==
    /\ message \in Types
    /\ sent = Defaults[message] /\ frame \in Frames(message) /\ wire = << >> /\ fault = "none"
    /\ dest = Prepared(message) /\ expected = Contents(message, Prepared(message))
    /\ heap = Heap(0) /\ stream = istream(<< >>) /\ status = "idle"

(* GDTCCTEncodeBatchedLogRequest: one pass for the size, one into a buffer *)
(* of that size.  Into a structure that is held, another message is read.  *)
Following == IF frame = "plain" THEN << >> ELSE Trailer
Buffer(pass) == SubSeq(pass["write"].out, 1, pass["size"].written)
Into(mode) == IF mode = "size" THEN sizestream ELSE ostream(MaxWire)

Offer(m) ==
    /\ \/ status = "idle" /\ m \in Sources(message) /\ status' = "encoded"
       \/ status = "held" /\ frame # "nullterminated" /\ m \in Updates(message)
          /\ status' = "update"
    /\ sent' = m
    /\ UNCHANGED <<message, frame, fault, dest, expected, heap, stream>>

Encode ==
    /\ frame # "delimited"
    /\ \E m \in Sources(message) \cup Updates(message) :
          /\ Offer(m)
          /\ wire' = Buffer([mode \in {"size", "write"} |->
                                EndOf(frame, pb_encode(Into(mode), message, m))]) \o Following

EncodeDelimited ==
    /\ frame = "delimited"
    /\ \E m \in Sources(message) \cup Updates(message) :
          /\ Offer(m)
          /\ wire' = Buffer([mode \in {"size", "write"} |->
                                pb_encode_delimited(Into(mode), message, m)]) \o Following

(* The transport loses the end of the bytes, or changes one of them.       *)
Cut ==
    /\ status \in {"encoded", "update"} /\ fault = "none" /\ wire # << >>
    /\ \E n \in 0 .. Len(wire) - 1 : wire' = SubSeq(wire, 1, n)
    /\ fault' = "cut"
    /\ UNCHANGED <<message, sent, frame, dest, expected, heap, stream, status>>

Spoil ==
    /\ status \in {"encoded", "update"} /\ fault = "none"
    /\ \E i \in DOMAIN wire, b \in Damage : b # wire[i] /\ wire' = [wire EXCEPT ![i] = b]
    /\ fault' = "damaged"
    /\ UNCHANGED <<message, sent, frame, dest, expected, heap, stream, status>>

(* Each call meets its own shortage of memory, if any; what is left of it  *)
(* is only told from nothing.                                              *)
Settled(h) == [h EXCEPT !.budget = IF @ > 0 THEN 1 ELSE 0]

(* What a decoding that results in r leaves; done is the status if it      *)
(* succeeds, failed if not.                                                *)
Decoded(r, done, failed) ==
    /\ dest' = r.v /\ heap' = Settled(r.h) /\ stream' = r.s
    /\ status' = IF r.ok THEN done ELSE failed
    /\ UNCHANGED <<message, sent, frame, wire, fault>>

(* GDTCCTDecodeLogResponse: pb_decode into a fresh structure.              *)
Decode ==
    /\ status = "encoded" /\ frame # "delimited"
    /\ \E budget \in 0 .. MaxBudget :
       \E r \in {pb_decode(wire, istream(wire), Heap(budget), message, dest)} :
          Decoded(r, "held", "error")
    /\ expected' = Contents(message, sent)

DecodeDelimited ==
    /\ status = "encoded" /\ frame = "delimited"
    /\ \E budget \in 0 .. MaxBudget :
       \E r \in {pb_decode_delimited(wire, istream(wire), Heap(budget), message, dest)} :
          Decoded(r, "held", "error")
    /\ expected' = Contents(message, sent)

(* pb_decode_noinit into the structure that is held; when it fails the     *)
(* caller still has to release.                                            *)
DecodeNoinit ==
    /\ status = "update" /\ frame # "delimited"
    /\ \E budget \in 0 .. MaxBudget :
       \E r \in {pb_decode_noinit(wire, istream(wire), [heap EXCEPT !.budget = budget],
                                  message, dest)} :
          Decoded(r, "merged", "failed")
    /\ expected' = Joined(message, expected, Contents(message, sent))

DecodeDelimitedNoinit ==
    /\ status = "update" /\ frame = "delimited"
    /\ \E budget \in 0 .. MaxBudget :
       \E r \in {pb_decode_delimited_noinit(wire, istream(wire), [heap EXCEPT !.budget = budget],
                                            message, dest)} :
          Decoded(r, "merged", "failed")
    /\ expected' = Joined(message, expected, Contents(message, sent))

Release ==
    /\ status \in {"held", "merged", "failed"}
    /\ \E r \in {pb_release(heap, message, dest)} : heap' = r.h /\ dest' = r.m
    /\ status' = "released"
    /\ UNCHANGED <<message, sent, frame, wire, fault, expected, stream>>

(* The next exchange starts with structures of its own.                    *)
Again ==
    /\ status \in {"released", "error"}
    /\ sent' = Defaults[message] /\ wire' = << >> /\ fault' = "none"
    /\ dest' = Prepared(message) /\ expected' = Contents(message, Prepared(message))
    /\ heap' = Heap(0) /\ stream' = istream(<< >>) /\ status' = "idle"
    /\ UNCHANGED <<message, frame>>

-----------------------------------------------------------------------------
(* Properties *)

(* An array of the structure has no room for what two messages bring.      *)
Overfull ==
    \E tag \in Known[message] :
        /\ Member[message][tag].htype = "REPEATED" /\ Member[message][tag].atype = "STATIC"
        /\ Len(expected[tag]) > Member[message][tag].array_size

(* What was encoded is what is decoded, whatever the integers and however  *)
(* deep the messages; a second message updates "only the fields that exist *)
(* in the new message" (pb_decode.h, pb_decode_noinit).  The stream is     *)
(* read to the message's end and not beyond.  Undamaged bytes are only     *)
(* refused when memory runs out or an array of the structure is full.      *)
ReadAsWritten ==
    fault = "none" =>
        CASE status \in {"held", "merged"} ->
                /\ Contents(message, dest) = expected
                /\ stream.left = Len(Following) /\ stream.pos + stream.left = Len(wire)
          [] status = "error" -> heap.budget = 0
          [] status = "failed" -> heap.budget = 0 \/ Overfull
          [] OTHER -> TRUE

(* Every live block is held by the structure and by nothing else, after    *)
(* any message, damaged or not, and wherever memory ran out; nothing is    *)
(* freed or grown that is not live (allocate_field, pb_release).           *)
MemoryIsOwned == ~heap.misused /\ heap.live = Held(message, dest)

=============================================================================
