------------------------------- MODULE NanoPB -------------------------------
(***************************************************************************)
(* nanopb, the protocol buffers library the diagnostics reports of the app *)
(* are written and read with (Pods/nanopb: pb_encode.c, pb_decode.c,       *)
(* pb_common.c, pb.h), as operators: what pb_encode writes to a stream,    *)
(* what pb_decode makes of any bytes, and which memory pb_release frees.   *)
(*                                                                         *)
(* Widths are parameters.  A byte has GroupBits payload bits and one       *)
(* continuation bit (7 + 1 in the code), uint32_t has W32 bits, uint64_t   *)
(* W64 (32 and 64 in the code).  The message types are those of the app    *)
(* and three more, with the kinds of field that no message of the app has. *)
(* Oneofs and arrays of fixed count are left out.                          *)
(***************************************************************************)
EXTENDS MessageFields, Integers, Sequences, SequencesExt, FiniteSetsExt

CONSTANTS
    GroupBits,   \* payload bits of a byte of a varint
    Size32, Size64   \* bytes of uint32_t and of uint64_t

ASSUME Widths == /\ {GroupBits, Size32, Size64} \subseteq Nat \ {0, 1}
                 /\ Size32 < Size64

W32 == Size32 * (GroupBits + 1)   \* bits of uint32_t and of uint64_t
W64 == Size64 * (GroupBits + 1)

Group == 2^GroupBits              \* a byte >= Group has its continuation bit set

Groups(w) == (w + GroupBits - 1) \div GroupBits   \* bytes a w-bit varint needs

-----------------------------------------------------------------------------
(* pb_wire_type_t *)
WT_VARINT == 0
WT_64BIT  == 1
WT_STRING == 2
WT_32BIT  == 5

(* The bits of a number of a type.                                         *)
pb_membersize(type) ==
    CASE type \in {"INT64", "SINT64", "FIXED64"} -> W64
      [] type = "BOOL" -> 1
      [] OTHER -> W32

(* The bytes of a number in memory.                                        *)
data_size(f) == IF f.type = "BOOL" THEN 1 ELSE pb_membersize(f.type) \div (GroupBits + 1)

(* pb_message_set_to_defaults of a structure: the user's callbacks stay,   *)
(* and so does the list of extensions, each of which becomes unset.        *)
SetToDefaults(type, m) ==
    LET unset(x) == [x EXCEPT !.found = FALSE, !.m = x.f.unset]
        member(f) ==
            CASE f.ltype = "EXTENSION" -> [i \in DOMAIN m[f.tag] |-> unset(m[f.tag][i])]
              [] f.ltype # "EXTENSION" /\ f.atype = "CALLBACK" -> m[f.tag]
              [] OTHER -> f.unset
    IN  [tag \in DOMAIN Declared[type] |-> member(Member[type][tag])] @@ << >>

-----------------------------------------------------------------------------
(* Output streams.  A sizing stream has no callback and only counts.       *)

ostream(size) == [written |-> 0, max_size |-> size, out |-> << >>,
                  sizing |-> FALSE, ok |-> TRUE]
sizestream == [ostream(0) EXCEPT !.sizing = TRUE]

OutFail(o) == [o EXCEPT !.ok = FALSE]

pb_write(o, bytes) ==
    IF ~o.ok THEN o
    ELSE IF bytes # << >> /\ ~o.sizing /\ o.written + Len(bytes) > o.max_size
    THEN OutFail(o)
    ELSE [o EXCEPT !.written = @ + Len(bytes),
                   !.out = IF o.sizing THEN @ ELSE @ \o bytes]

(* pb_write with a NULL buffer, on a sizing stream *)
pb_count(o, n) == [o EXCEPT !.written = @ + n]

VarintLength(v) == Min({n \in 1 .. Groups(W64) : v < Group^n})

pb_encode_varint(o, v) ==
    LET n == VarintLength(v)
    IN  pb_write(o, [i \in 1 .. n |-> ((v \div Group^(i - 1)) % Group)
                                      + IF i < n THEN Group ELSE 0])

ToUnsigned(v, w) == v % 2^w
ToSigned(v, w)   == IF v % 2^w >= 2^(w - 1) THEN (v % 2^w) - 2^w ELSE v % 2^w

ZigZag(v)   == IF v < 0 THEN 2 * (-v) - 1 ELSE 2 * v
(* Mutated UnZigZag: the complement is taken for the negative.             *)
UnZigZagNegated(u) == IF u % 2 = 1 THEN -(u \div 2) ELSE u \div 2

UnZigZag(u) == IF u % 2 = 1 THEN -(u \div 2) - 1 ELSE u \div 2

pb_encode_tag(o, f, wiretype) == pb_encode_varint(o, f.tag * 8 + wiretype)

pb_encode_tag_for_field(o, f) ==
    pb_encode_tag(o, f, CASE f.ltype = "FIXED32" -> WT_32BIT
                          [] f.ltype = "FIXED64" -> WT_64BIT
                          [] IsPackable(f)       -> WT_VARINT
                          [] OTHER               -> WT_STRING)

(* pb_encode_fixed32, pb_encode_fixed64: the low byte first *)
pb_encode_fixed(o, v, n) ==
    pb_write(o, [i \in 1 .. n |-> (v \div (2 * Group)^(i - 1)) % (2 * Group)])

pb_encode_string(o, bytes) ==
    pb_write(pb_encode_varint(o, Len(bytes)), bytes)

(* pb_enc_varint, pb_enc_uvarint, pb_enc_svarint *)
EncodeInt(o, f, v) ==
    pb_encode_varint(o, CASE f.ltype = "VARINT"  -> ToUnsigned(v, W64)
                          [] f.ltype = "UVARINT" -> v
                          [] f.ltype = "SVARINT" -> ZigZag(v))

pb_enc_bool(o, v) == pb_encode_varint(o, IF v # 0 THEN 1 ELSE 0)

(* A static bytes field cannot hold more than it has room for.             *)
pb_enc_bytes(o, f, v) ==
    IF f.atype = "STATIC" /\ Len(v) > f.room THEN OutFail(o) ELSE pb_encode_string(o, v)

(* The characters before the first NUL, or all there is room for.          *)
Chars(v) ==
    LET nuls == {i \in DOMAIN v : v[i] = 0}
    IN  IF nuls = {} THEN v ELSE SubSeq(v, 1, Min(nuls) - 1)

pb_enc_string(o, f, v) ==
    pb_encode_string(o, IF f.atype = "STATIC" /\ Len(Chars(v)) > f.room
                        THEN SubSeq(v, 1, f.room) ELSE Chars(v))

RECURSIVE pb_encode(_, _, _)

(* The size is found by encoding to a sizing stream; the bytes then go to  *)
(* a substream that holds no more than that.  pass is both: "write" has    *)
(* the room of o, and it fails when the size turns out to be another one.  *)
SubmessageAfter(head, size, sub) ==
    IF ~head.ok THEN head
    ELSE IF head.sizing THEN pb_count(head, size)
    ELSE IF head.written + size > head.max_size \/ sub.written # size
    THEN OutFail(head)
    ELSE [head EXCEPT !.written = @ + size, !.out = @ \o sub.out]
SubmessageSized(o, sized, sub) ==
    IF ~sized.ok THEN OutFail(o)
    ELSE SubmessageAfter(pb_encode_varint(o, sized.written), sized.written, sub)
Submessage(o, pass) == SubmessageSized(o, pass["size"], pass["write"])

pb_encode_submessage(o, type, m) ==
    Submessage(o, [mode \in {"size", "write"} |->
                     pb_encode(IF mode = "size" THEN sizestream ELSE ostream(o.max_size), type, m)])

(* PB_ENCODERS *)
EncodeNumber(o, f, v) ==
    CASE f.ltype = "BOOL"       -> pb_enc_bool(o, v)
      [] f.ltype = "FIXED32"    -> pb_encode_fixed(o, v, Size32)
      [] f.ltype = "FIXED64"    -> pb_encode_fixed(o, v, Size64)
      [] OTHER                  -> EncodeInt(o, f, v)
EncodeItem(o, f, v) ==
    CASE f.ltype = "SUBMESSAGE" -> pb_encode_submessage(o, f.sub, v)
      [] f.ltype = "BYTES"      -> pb_enc_bytes(o, f, v)
      [] f.ltype = "STRING"     -> pb_enc_string(o, f, v)
      [] f.ltype = "FIXED_LENGTH_BYTES" -> pb_encode_string(o, v)
      [] OTHER                  -> EncodeNumber(o, f, v)

(* An entry with its tag, and a sequence of them.                          *)
EncodeTagged(o, f, items) ==
    FoldLeft(LAMBDA acc, v : EncodeItem(pb_encode_tag_for_field(acc, f), f, v), o, items)

(* The numbers of a packed array, after their size.                        *)
EncodeNumbers(o, f, items) ==
    FoldLeft(LAMBDA acc, v : EncodeNumber(acc, f, v), o, items)
EncodePacked(o, f, items, size) ==
    IF o.sizing THEN pb_count(pb_encode_varint(o, size), size)
    ELSE EncodeNumbers(pb_encode_varint(o, size), f, items)

(* Arrays of numbers are packed; an array of messages repeats its tag.     *)
encode_array(o, f, items) ==
    IF items = << >> THEN o
    ELSE IF f.atype = "STATIC" /\ Len(items) > f.array_size THEN OutFail(o)
    ELSE IF IsPackable(f)
    THEN EncodePacked(pb_encode_tag(o, f, WT_STRING), f, items,
                      EncodeNumbers(sizestream, f, items).written)
    ELSE EncodeTagged(o, f, items)

(* A field of proto3 is sent unless it is zero; a message is zero when all *)
(* its fields are.  Bytes of fixed length are always sent.  Of a pointer   *)
(* to a number as many bytes are compared as the number has, which tells   *)
(* an address from NULL unless its low bytes are zero.                     *)
RECURSIVE pb_check_proto3_default_value(_, _)

pb_check_proto3_default_value(f, member) ==
    CASE f.htype = "REQUIRED" -> FALSE
      [] f.htype = "REPEATED" ->
            IF f.atype = "POINTER" THEN member.val = << >> ELSE member.count = 0
      [] f.htype # "REPEATED" /\ f.atype = "POINTER" -> member.ptr = NULL
      [] f.htype = "OPTIONAL" /\ f.atype # "POINTER" -> ~member.has
      [] f.ltype = "FIXED_LENGTH_BYTES" -> f.room = 0
      [] f.ltype = "SUBMESSAGE" ->
            \A tag \in DOMAIN Declared[f.sub] :
                pb_check_proto3_default_value(Member[f.sub][tag], member.val[tag])
      [] OTHER -> member.val = f.zero

IsPresent(f, member) ==
    CASE f.atype = "POINTER"   -> member.ptr # NULL
      [] f.htype = "OPTIONAL"  -> member.has
      [] f.htype = "SINGULAR"  -> ~pb_check_proto3_default_value(f, member)
      [] f.htype = "REQUIRED"  -> TRUE

encode_basic_field(o, f, member) ==
    IF f.htype = "REPEATED" THEN encode_array(o, f, member.val)
    ELSE IF IsPresent(f, member)
    THEN EncodeItem(pb_encode_tag_for_field(o, f), f, member.val)
    ELSE o

(* The function of a user who writes all values, each with its tag.        *)
CallbackEncode(o, f, values) ==
    EncodeTagged(o, f, values)

encode_callback_field(o, f, member) ==
    IF member.func THEN CallbackEncode(o, f, member.val) ELSE o

encode_field(o, f, member) ==
    IF f.atype = "CALLBACK" THEN encode_callback_field(o, f, member)
    ELSE encode_basic_field(o, f, member)

(* Every extension of the list writes itself.                              *)
encode_extension_field(o, extensions) ==
    FoldLeft(LAMBDA acc, x : IF acc.ok THEN encode_field(acc, x.f, x.m) ELSE acc,
             o, extensions)

(* The fields from the i-th on, up to the first that fails.                *)
RECURSIVE EncodeFields(_, _, _, _)

EncodeMember(o, f, m) ==
    IF f.ltype = "EXTENSION" THEN encode_extension_field(o, m[f.tag])
    ELSE encode_field(o, f, m[f.tag])
EncodeFields(o, type, m, i) ==
    IF ~o.ok \/ i > Len(Lines[type]) THEN o
    ELSE EncodeFields(EncodeMember(o, fields[type][i], m), type, m, i + 1)

pb_encode(o, type, m) == EncodeFields(o, type, m, 1)

pb_encode_delimited(o, type, m) == pb_encode_submessage(o, type, m)
(* pb_encode, and pb_encode_nullterminated                                 *)
EndOf(frame, o) == IF frame = "nullterminated" THEN pb_write(o, <<0>>) ELSE o

-----------------------------------------------------------------------------
(* Input streams: [pos, left] over a buffer w; pos is the state pointer of *)
(* buf_read, left is bytes_left.  A read gives [ok, s, v].                 *)

istream(w) == [pos |-> 0, left |-> Len(w)]

Read(s, n, v) == [ok |-> TRUE, v |-> v, s |-> [pos |-> s.pos + n, left |-> s.left - n]]
InFail(s) == [ok |-> FALSE, v |-> 0, s |-> s]

pb_read(w, s, n) ==
    IF s.left < n THEN InFail(s) ELSE Read(s, n, SubSeq(w, s.pos + 1, s.pos + n))

(* The number of bytes of the varint at s; 0 if the stream ends within it. *)
Terminated(w, s) ==
    LET last == {i \in 1 .. s.left : w[s.pos + i] < Group}
    IN  IF last = {} THEN 0 ELSE Min(last)

Payload(w, s, i) == w[s.pos + i] % Group
VarintValue(w, s, n) == MapThenSumSet(LAMBDA i : Payload(w, s, i) * Group^(i - 1), 1 .. n)

(* pb_decode_varint32: bits beyond the 32nd must be zero, or ones that     *)
(* extend the sign.                                                        *)
Varint32(w, s, n, kept) ==
    LET ones(i) == IF GroupBits * (i - 1) < W64 - 1 THEN 2 * Group - 1 ELSE 1
        extends(i) == \/ Payload(w, s, i) = 0
                      \/ kept % 2^W32 >= 2^(W32 - 1) /\ w[s.pos + i] = ones(i)
    IN  IF \/ n = 0
           \/ \E i \in Groups(W32) + 1 .. n : ~extends(i)
           \/ n = Groups(W32) /\ kept # kept % 2^W32
        THEN InFail(s)
        ELSE Read(s, n, kept % 2^W32)
pb_decode_varint32(w, s) ==
    LET n == Terminated(w, s)
    IN  Varint32(w, s, n, VarintValue(w, s, Min({n, Groups(W32)})))

pb_decode_varint(w, s) ==
    LET n == Terminated(w, s)
    IN  IF n = 0 \/ n > Groups(W64) THEN InFail(s)
        ELSE Read(s, n, VarintValue(w, s, n) % 2^W64)

(* pb_skip_field *)
SkipString(w, size) == IF size.ok THEN pb_read(w, size.s, size.v) ELSE size
pb_skip_field(w, s, wiretype) ==
    CASE wiretype = WT_VARINT -> LET n == Terminated(w, s)
                              IN  IF n = 0 THEN InFail(s) ELSE Read(s, n, 0)
      [] wiretype = WT_64BIT   -> pb_read(w, s, Size64)
      [] wiretype = WT_32BIT   -> pb_read(w, s, Size32)
      [] wiretype = WT_STRING -> SkipString(w, pb_decode_varint32(w, s))
      [] OTHER             -> InFail(s)

(* pb_dec_varint, pb_dec_uvarint, pb_dec_svarint.  A 32-bit signed field   *)
(* takes the low bits of whatever was sent; the others must fit.           *)
InRange(f, v) ==
    IF f.ltype = "UVARINT" THEN v < 2^pb_membersize(f.type)
    ELSE v \in -(2^(pb_membersize(f.type) - 1)) .. 2^(pb_membersize(f.type) - 1) - 1
IntRead(s, f, r, v) == IF ~r.ok \/ ~InRange(f, v) THEN InFail(s) ELSE [r EXCEPT !.v = v]
IntOf(s, f, r) ==
    IntRead(s, f, r, CASE f.ltype = "VARINT"  -> ToSigned(r.v, pb_membersize(f.type))
                       [] f.ltype = "UVARINT" -> r.v
                       [] f.ltype = "SVARINT" -> UnZigZag(r.v))
DecodeInt(w, s, f) == IntOf(s, f, pb_decode_varint(w, s))

BoolOf(r) == IF r.ok THEN [r EXCEPT !.v = IF @ # 0 THEN 1 ELSE 0] ELSE r
pb_dec_bool(w, s) == BoolOf(pb_decode_varint32(w, s))

(* pb_decode_fixed32, pb_decode_fixed64 *)
pb_decode_fixed(w, s, n) ==
    LET r == pb_read(w, s, n)
    IN  IF r.ok THEN [r EXCEPT !.v = MapThenSumSet(LAMBDA i : @[i] * (2 * Group)^(i - 1), 1 .. n)]
        ELSE r

(* pb_dec_bytes and pb_dec_string into a static field; a string needs room *)
(* for its NUL.                                                            *)
BlobOf(s, f, n, r) ==
    IF ~n.ok \/ (IF f.ltype = "STRING" THEN n.v + 1 ELSE n.v) > f.room \/ ~r.ok
    THEN InFail(s)
    ELSE IF f.ltype = "STRING" THEN [r EXCEPT !.v = Chars(@)] ELSE r
BlobSized(w, s, f, n) == BlobOf(s, f, n, pb_read(w, n.s, n.v))
DecodeBlob(w, s, f) == BlobSized(w, s, f, pb_decode_varint32(w, s))

(* No bytes at all stand for zeros.                                        *)
FixedLengthBytes(w, f, n) ==
    IF ~n.ok THEN n
    ELSE IF n.v = 0 THEN [n EXCEPT !.v = f.zero]
    ELSE IF n.v # f.room THEN InFail(n.s)
    ELSE pb_read(w, n.s, f.room)
pb_dec_fixed_length_bytes(w, s, f) == FixedLengthBytes(w, f, pb_decode_varint32(w, s))

(* PB_DECODERS of the fields that own no memory *)
DecodeScalar(w, s, f) ==
    CASE f.ltype = "BOOL"    -> pb_dec_bool(w, s)
      [] f.ltype = "FIXED32" -> pb_decode_fixed(w, s, Size32)
      [] f.ltype = "FIXED64" -> pb_decode_fixed(w, s, Size64)
      [] f.ltype = "FIXED_LENGTH_BYTES" -> pb_dec_fixed_length_bytes(w, s, f)
      [] IsBlob(f)           -> DecodeBlob(w, s, f)
      [] OTHER               -> DecodeInt(w, s, f)

(* The substream that a length announces; closing it skips what was left   *)
(* unread.                                                                 *)
Substream(s, size) ==
    IF ~size.ok \/ size.s.left < size.v THEN InFail(s)
    ELSE [ok |-> TRUE, v |-> size.s.left - size.v,
          s |-> [pos |-> size.s.pos, left |-> size.v]]
pb_make_string_substream(w, s) ==
    Substream(s, pb_decode_varint32(w, s))
pb_close_string_substream(sub, left) == [pos |-> sub.pos + sub.left, left |-> left]

-----------------------------------------------------------------------------
(* Memory: the live addresses, how many more allocations succeed, and      *)
(* whether a block that is not live was freed or grown.                    *)

Heap(budget) == [live |-> {}, next |-> 1, budget |-> budget, misused |-> FALSE]

Misuse(h, p) == h.misused \/ (p # NULL /\ p \notin h.live)

(* allocate_field: on failure the old block stays where it was.            *)
allocate_field(h, p) ==
    IF h.budget = 0 THEN [ok |-> FALSE, h |-> h, p |-> p]
    ELSE [ok |-> TRUE, p |-> h.next,
          h |-> [live |-> (h.live \ {p}) \cup {h.next}, next |-> h.next + 1,
                 budget |-> h.budget - 1, misused |-> Misuse(h, p)]]

pb_free(h, p) ==
    [h EXCEPT !.live = @ \ {p}, !.misused = Misuse(h, p)]

(* pb_release: frees everything a message points to and clears the         *)
(* pointers.  The result is [h, m].                                        *)
RECURSIVE pb_release(_, _, _)

ReleaseItems(h, type, items) ==
    FoldLeft(LAMBDA acc, m : pb_release(acc, type, m).h, h, items)

(* The entries of an array that are there; a _count may have run past the  *)
(* end of a static one.                                                    *)
Items(f, member) ==
    CASE f.atype = "POINTER" -> IF member.ptr = NULL THEN << >>
                                ELSE IF f.htype = "REPEATED" THEN member.val
                                ELSE << member.val >>
      [] f.htype = "REPEATED" -> SubSeq(member.val, 1, Min({member.count, f.array_size}))
      [] OTHER -> << member.val >>

ReleasedInto(member, r) == [h |-> r.h, v |-> [member EXCEPT !.val = r.m]]

pb_release_single_field(h, f, member) ==
    IF f.atype = "POINTER"
    THEN [h |-> pb_free(IF f.ltype = "SUBMESSAGE" THEN ReleaseItems(h, f.sub, Items(f, member))
                                                  ELSE h,
                        member.ptr),
          v |-> f.unset]
    ELSE IF f.ltype = "SUBMESSAGE" /\ f.htype = "REPEATED"
    THEN [h |-> ReleaseItems(h, f.sub, Items(f, member)),
          v |-> [member EXCEPT !.val = [i \in DOMAIN @ |-> pb_release(h, f.sub, @[i]).m]]]
    ELSE IF f.ltype = "SUBMESSAGE"
    THEN ReleasedInto(member, pb_release(h, f.sub, member.val))
    ELSE [h |-> h, v |-> member]

ExtensionReleased(acc, x, r) == [h |-> r.h, v |-> Append(acc.v, [x EXCEPT !.m = r.v])]
ReleaseExtensions(h, extensions) ==
    FoldLeft(LAMBDA acc, x : ExtensionReleased(acc, x, pb_release_single_field(acc.h, x.f, x.m)),
             [h |-> h, v |-> << >>], extensions)

RECURSIVE ReleaseFields(_, _, _, _)

ReleaseMember(h, f, m) ==
    [tag |-> f.tag] @@ IF f.ltype = "EXTENSION" THEN ReleaseExtensions(h, m[f.tag])
                       ELSE pb_release_single_field(h, f, m[f.tag])
FieldReleased(r, type, m, i) ==
    ReleaseFields(r.h, type, [m EXCEPT ![r.tag] = r.v], i + 1)
ReleaseFields(h, type, m, i) ==
    IF i > Len(Lines[type]) THEN [h |-> h, m |-> m]
    ELSE FieldReleased(ReleaseMember(h, fields[type][i], m), type, m, i)

pb_release(h, type, m) == ReleaseFields(h, type, m, 1)

-----------------------------------------------------------------------------
(* Decoding.  The result of a decoder is [ok, s, h, v], where v is what is *)
(* left in the structure, also on failure.                                 *)

RECURSIVE pb_decode_noinit(_, _, _, _, _)

Result(ok, s, h, v) == [ok |-> ok, s |-> s, h |-> h, v |-> v]

(* What has been decoded in part is released.                              *)
Undone(r, rel) == [r EXCEPT !.h = rel.h, !.v = rel.m]
ReleasedUnlessOk(type, r) == IF r.ok THEN r ELSE Undone(r, pb_release(r.h, type, r.v))

pb_decode(w, s, h, type, m) ==
    ReleasedUnlessOk(type, pb_decode_noinit(w, s, h, type, SetToDefaults(type, m)))

(* A decoder in a substream: r is its result.                              *)
Closed(r, sub) == Result(r.ok, pb_close_string_substream(r.s, sub.v), r.h, r.v)
InSubstream(init, w, s, h, type, m, sub) ==
    IF ~sub.ok THEN Result(FALSE, s, h, m)
    ELSE Closed(IF init THEN pb_decode(w, sub.s, h, type, m)
                ELSE pb_decode_noinit(w, sub.s, h, type, m), sub)

(* An array entry is initialised and released by pb_decode; another        *)
(* submessage is merged into.                                              *)
pb_dec_submessage(w, s, h, f, m) ==
    InSubstream(f.htype = "REPEATED", w, s, h, f.sub, m, pb_make_string_substream(w, s))

pb_decode_delimited(w, s, h, type, m) ==
    InSubstream(TRUE, w, s, h, type, m, pb_make_string_substream(w, s))
pb_decode_delimited_noinit(w, s, h, type, m) ==
    InSubstream(FALSE, w, s, h, type, m, pb_make_string_substream(w, s))

(* pb_decode_nullterminated is pb_decode: a zero tag ends any message.     *)

(* pb_dec_bytes and pb_dec_string of a pointer field: the block is there,  *)
(* holding what it happens to hold, when the bytes turn out to be missing. *)
PointerBlob(f, a, r) ==
    Result(r.ok, r.s, a.h, [ptr |-> a.p, val |-> CASE ~r.ok -> << >>
                                                   [] r.ok /\ f.ltype = "STRING" -> Chars(r.v)
                                                   [] OTHER -> r.v])
PointerBlobSized(w, s, h, f, member, size, a) ==
    IF ~size.ok THEN Result(FALSE, s, h, member)
    ELSE IF ~a.ok THEN Result(FALSE, s, a.h, member)
    ELSE PointerBlob(f, a, pb_read(w, size.s, size.v))
DecodePointerBlob(w, s, h, f, member) ==
    PointerBlobSized(w, s, h, f, member, pb_decode_varint32(w, s), allocate_field(h, member.ptr))

(* One value of any type; a number that cannot be read leaves the old one. *)
ScalarItem(h, r, old) == Result(r.ok, r.s, h, IF r.ok THEN r.v ELSE old)
DecodeItem(w, s, h, f, old) ==
    IF f.ltype = "SUBMESSAGE" THEN pb_dec_submessage(w, s, h, f, old)
    ELSE ScalarItem(h, DecodeScalar(w, s, f), old)

(* The loop over a packed array; it stops where a static array is full.    *)
(* d is the array so far, r the next entry.                                *)
StaticEntry(d, r) ==
    IF ~r.ok THEN [d EXCEPT !.ok = FALSE]
    ELSE Result(TRUE, r.s, d.h, [count |-> d.v.count + 1, val |-> Append(d.v.val, r.v)])
StaticTurn(w, f, d) ==
    IF ~d.ok \/ d.s.left = 0 \/ d.v.count >= f.array_size THEN d
    ELSE StaticEntry(d, DecodeScalar(w, d.s, f))
StaticEnd(d) == [d EXCEPT !.ok = @ /\ d.s.left = 0]
DecodeStaticPacked(w, s, h, f, member) ==
    LET read[n \in 0 .. s.left] ==   \* an entry takes a byte at least
            IF n = 0 THEN Result(TRUE, s, h, member) ELSE StaticTurn(w, f, read[n - 1])
    IN  StaticEnd(read[s.left])
StaticPackedIn(w, s, h, f, member, sub) ==
    IF ~sub.ok THEN Result(FALSE, s, h, member)
    ELSE Closed(DecodeStaticPacked(w, sub.s, h, f, member), sub)

(* An entry counts from before it is read, even one beyond the last.       *)
decode_static_field(w, s, h, f, member, wiretype) ==
    CASE f.htype # "REPEATED" ->
            [DecodeItem(w, s, h, f, member.val) EXCEPT
               !.v = IF f.htype = "OPTIONAL" THEN [has |-> TRUE, val |-> @] ELSE [val |-> @]]
      [] f.htype = "REPEATED" /\ IsPackable(f) /\ wiretype = WT_STRING ->
            StaticPackedIn(w, s, h, f, member, pb_make_string_substream(w, s))
      [] OTHER ->
            IF member.count >= f.array_size
            THEN Result(FALSE, s, h, [member EXCEPT !.count = @ + 1])
            ELSE [DecodeItem(w, s, h, f, f.zero) EXCEPT
                    !.v = [count |-> member.count + 1, val |-> Append(member.val, @)]]

(* The loop over a packed array: memory for the entries that may be left   *)
(* is asked for when there is none.  A failed entry is not counted.  d is  *)
(* the array so far, with the room there is; a the block, r the entry.     *)
PackedEntry(f, d, a, r) ==
    IF ~a.ok \/ ~r.ok THEN [d EXCEPT !.ok = FALSE, !.h = a.h, !.v.ptr = a.p]
    ELSE [ok |-> TRUE, s |-> r.s, h |-> a.h,
          v |-> [ptr |-> a.p, val |-> Append(d.v.val, r.v)],
          room |-> IF d.room > Len(d.v.val) THEN d.room
                   ELSE d.room + (d.s.left - 1) \div data_size(f) + 1]
PackedTurn(w, f, d) ==
    IF ~d.ok \/ d.s.left = 0 THEN d
    ELSE PackedEntry(f, d, IF d.room = Len(d.v.val) THEN allocate_field(d.h, d.v.ptr)
                           ELSE [ok |-> TRUE, h |-> d.h, p |-> d.v.ptr],
                     DecodeScalar(w, d.s, f))
DecodePacked(w, s, h, f, member) ==
    LET read[n \in 0 .. s.left] ==
            IF n = 0 THEN [room |-> Len(member.val)] @@ Result(TRUE, s, h, member)
            ELSE PackedTurn(w, f, read[n - 1])
    IN  read[s.left]
PackedIn(w, s, h, f, member, sub) ==
    IF ~sub.ok THEN Result(FALSE, s, h, member)
    ELSE Closed(DecodePacked(w, sub.s, h, f, member), sub)

(* A field whose block is a: its value is decoded, or there is no memory.  *)
IntoBlock(w, s, f, member, a) ==
    IF ~a.ok THEN Result(FALSE, s, a.h, member)
    ELSE [DecodeItem(w, s, a.h, f, f.zero) EXCEPT !.v = [ptr |-> a.p, val |-> @]]

(* Mutated DecodePointerSingle: what a duplicate submessage held is        *)
(* forgotten.                                                              *)
DecodePointerSingleLeaks(w, s, h, f, member) ==
    IntoBlock(w, s, f, member, allocate_field(h, member.ptr))

(* A single field: what a duplicate submessage held is released first, so  *)
(* that it is replaced, not merged.                                        *)
IntoReleased(w, s, f, old) == IntoBlock(w, s, f, old.v, allocate_field(old.h, old.v.ptr))
DecodePointerSingle(w, s, h, f, member) ==
    IntoReleased(w, s, f, IF f.ltype = "SUBMESSAGE" /\ member.ptr # NULL
                          THEN pb_release_single_field(h, f, member)
                          ELSE [h |-> h, v |-> member])

(* One more entry of an array, whose block is a.                           *)
AddToBlock(w, s, f, member, a) ==
    IF ~a.ok THEN Result(FALSE, s, a.h, member)
    ELSE [DecodeItem(w, s, a.h, f, f.zero) EXCEPT
            !.v = [ptr |-> a.p, val |-> Append(member.val, @)]]

decode_pointer_field(w, s, h, f, member, wiretype) ==
    CASE f.htype # "REPEATED" /\ IsBlob(f) -> DecodePointerBlob(w, s, h, f, member)
      [] f.htype # "REPEATED" /\ ~IsBlob(f) -> DecodePointerSingle(w, s, h, f, member)
      [] f.htype = "REPEATED" /\ IsPackable(f) /\ wiretype = WT_STRING ->
            PackedIn(w, s, h, f, member, pb_make_string_substream(w, s))
      [] OTHER -> AddToBlock(w, s, f, member, allocate_field(h, member.ptr))

(* The function of a user who keeps the values: it reads one number, or    *)
(* all the bytes that are there.                                           *)
CallbackDecode(w, s, f) ==
    IF IsBlob(f) THEN pb_read(w, s, s.left) ELSE DecodeInt(w, s, f)

(* The bytes of a single number, at most as many as a varint may have.     *)
read_raw_value(w, s, wiretype) ==
    LET n == Terminated(w, s)
    IN  CASE wiretype = WT_VARINT -> IF n = 0 \/ n > Groups(W64) THEN InFail(s)
                                     ELSE Read(s, n, n)
          [] wiretype = WT_64BIT  -> IF s.left < Size64 THEN InFail(s) ELSE Read(s, Size64, Size64)
          [] wiretype = WT_32BIT  -> IF s.left < Size32 THEN InFail(s) ELSE Read(s, Size32, Size32)
          [] OTHER                -> InFail(s)

(* A substream is given to the function until nothing is left of it, once  *)
(* even when it is empty.  d is what it has kept, r what it reads.         *)
CallbackGot(d, r) ==
    IF ~r.ok THEN [d EXCEPT !.ok = FALSE]
    ELSE Result(TRUE, r.s, d.h, [d.v EXCEPT !.val = Append(@, r.v)])
CallbackTurn(w, f, d) == CallbackGot(d, CallbackDecode(w, d.s, f))
CallbackMore(w, f, d) == IF ~d.ok \/ d.s.left = 0 THEN d ELSE CallbackTurn(w, f, d)
CallbackLoop(w, s, h, f, member) ==
    LET called[n \in 0 .. s.left] ==
            IF n = 0 THEN CallbackTurn(w, f, Result(TRUE, s, h, member))
            ELSE CallbackMore(w, f, called[n - 1])
    IN  called[s.left]
CallbackIn(w, s, h, f, member, sub) ==
    IF ~sub.ok THEN Result(FALSE, s, h, member)
    ELSE Closed(CallbackLoop(w, sub.s, h, f, member), sub)

(* A single number is read into a buffer, and the function from there.     *)
CallbackOnce(w, s, h, f, member, raw) ==
    IF ~raw.ok THEN Result(FALSE, s, h, member)
    ELSE [CallbackTurn(w, f, Result(TRUE, [pos |-> s.pos, left |-> raw.v], h, member))
            EXCEPT !.s = raw.s]

Skipped(r, h, m) == Result(r.ok, r.s, h, m)

decode_callback_field(w, s, h, f, member, wiretype) ==
    CASE ~member.func -> Skipped(pb_skip_field(w, s, wiretype), h, member)
      [] member.func /\ wiretype = WT_STRING ->
            CallbackIn(w, s, h, f, member, pb_make_string_substream(w, s))
      [] OTHER -> CallbackOnce(w, s, h, f, member, read_raw_value(w, s, wiretype))

decode_field(w, s, h, f, member, wiretype) ==
    CASE f.atype = "STATIC"   -> decode_static_field(w, s, h, f, member, wiretype)
      [] f.atype = "POINTER"  -> decode_pointer_field(w, s, h, f, member, wiretype)
      [] f.atype = "CALLBACK" -> decode_callback_field(w, s, h, f, member, wiretype)

(* The first extension of the list with the tag, if any, reads the field.  *)
ExtensionRead(extensions, i, r) ==
    [r EXCEPT !.v = [extensions EXCEPT ![i].found = TRUE, ![i].m = r.v]]
decode_extension(w, s, h, extensions, tag, wiretype) ==
    LET i == SelectInSeq(extensions, LAMBDA x : x.f.tag = tag)
    IN  IF i = 0 THEN Result(TRUE, s, h, extensions)
        ELSE ExtensionRead(extensions, i, decode_field(w, s, h, extensions[i].f,
                                                       extensions[i].m, wiretype))

(* A field that the message type does not have: its extensions are tried   *)
(* if the tag is in their range, and what nobody reads is skipped.         *)
TriedExtension(w, s, h, m, e, wiretype, r) ==
    IF r.ok /\ r.s = s THEN Skipped(pb_skip_field(w, s, wiretype), h, m)
    ELSE [r EXCEPT !.v = [m EXCEPT ![e] = r.v]]
DecodeUnknown(w, s, h, type, m, tag, wiretype) ==
    LET range == {e \in Extensible[type] : tag >= e}   \* find_extension_field: at most one
        e == CHOOSE e \in range : TRUE
    IN  IF range = {} THEN Skipped(pb_skip_field(w, s, wiretype), h, m)
        ELSE TriedExtension(w, s, h, m, e, wiretype,
                            decode_extension(w, s, h, m[e], tag, wiretype))

(* One field after the other; a zero tag ends the message.  The wire type  *)
(* only matters for unknown fields and for packed arrays.  At the end all  *)
(* required fields must have been seen.  r is the result for one field,    *)
(* its v the whole structure.                                              *)
RECURSIVE DecodeFields(_, _, _, _, _, _)

FieldDecoded(w, type, r, seen) ==
    IF r.ok THEN DecodeFields(w, r.s, r.h, type, r.v, seen) ELSE r
MemberOf(m, tag, r) == [r EXCEPT !.v = [m EXCEPT ![tag] = r.v]]
KeyRead(w, s, h, type, m, seen, key) ==
    LET tag == key.v \div 8
        wiretype == key.v % 8
    IN  IF ~key.ok THEN Result(FALSE, s, h, m)
        ELSE IF key.v = 0 THEN Result(Required[type] \subseteq seen, key.s, h, m)
        ELSE IF tag \notin Known[type]
        THEN FieldDecoded(w, type, DecodeUnknown(w, key.s, h, type, m, tag, wiretype), seen)
        ELSE FieldDecoded(w, type,
                          MemberOf(m, tag, decode_field(w, key.s, h, Member[type][tag],
                                                        m[tag], wiretype)),
                          seen \cup {tag})
DecodeFields(w, s, h, type, m, seen) ==
    IF s.left = 0 THEN Result(Required[type] \subseteq seen, s, h, m)
    ELSE KeyRead(w, s, h, type, m, seen, pb_decode_varint32(w, s))

pb_decode_noinit(w, s, h, type, m) == DecodeFields(w, s, h, type, m, {})
=============================================================================
