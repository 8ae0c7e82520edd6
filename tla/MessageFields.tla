---------------------------- MODULE MessageFields ---------------------------
(***************************************************************************)
(* Field descriptors of the messages written with nanopb: pb_field_t with  *)
(* its type split into LTYPE, HTYPE and ATYPE (Pods/nanopb/pb.h), and the  *)
(* generated arrays (cct.nanopb.c, firebasecore.nanopb.c) in their order.  *)
(***************************************************************************)
EXTENDS Integers, Sequences, TLC

(* PB_LTYPE_MAP_type *)
PB_LTYPE_MAP ==
    [BOOL |-> "BOOL", ENUM |-> "VARINT", UENUM |-> "UVARINT", INT32 |-> "VARINT",
     INT64 |-> "VARINT", SINT64 |-> "SVARINT", UINT32 |-> "UVARINT",
     FIXED32 |-> "FIXED32", FIXED64 |-> "FIXED64", BYTES |-> "BYTES",
     STRING |-> "STRING", FIXED_LENGTH_BYTES |-> "FIXED_LENGTH_BYTES",
     MESSAGE |-> "SUBMESSAGE", EXTENSION |-> "EXTENSION"]

(* A line of a generated array: tag, type, rules and allocation, and what  *)
(* else the field has.  The data_size of a number is given by its type,    *)
(* that of a static string or bytes field by room, the bytes it has room   *)
(* for.  SINGULAR stands for an OPTIONAL field of proto3, which has no     *)
(* has_ member.  ptr is sub, the submessage's type, or the default value.  *)
PB_FIELD(tag, type, rules, allocation) == << tag, type, rules, allocation >>
Message(tag, rules, allocation, sub) == << tag, "MESSAGE", rules, allocation, [sub |-> sub] >>
Default(line, value) == Append(line, [default |-> value])
Room(line, n)  == Append(line, [room |-> n])
Array(line, n) == Append(line, [array_size |-> n])

(* The descriptor that a line stands for.                                  *)
Descriptor(line) ==
    (IF Len(line) = 6 THEN line[6] ELSE << >>) @@ (IF Len(line) > 4 THEN line[5] ELSE << >>)
    @@ [tag |-> line[1], type |-> line[2], ltype |-> PB_LTYPE_MAP[line[2]], room |-> 0,
        htype |-> line[3], atype |-> line[4], array_size |-> 0, sub |-> "", default |-> 0]

Optional(tag, type)        == PB_FIELD(tag, type, "OPTIONAL", "STATIC")
OptionalPointer(tag, type) == PB_FIELD(tag, type, "OPTIONAL", "POINTER")

IsPackable(f) == f.ltype \in {"BOOL", "VARINT", "UVARINT", "SVARINT", "FIXED32", "FIXED64"}
IsBlob(f) == f.ltype \in {"BYTES", "STRING"}

NULL == 0                         \* the null pointer; addresses are 1, 2, ...

(* A message structure maps each tag to its member: a static one has its   *)
(* value, with a has_ flag or the _count of an array; a pointer one an     *)
(* address with what is stored there, Len(val) being an array's _count; a  *)
(* callback whether there is a function, with the values that it has got   *)
(* or will write; the extension field a list of extensions [f, found, m].  *)
(*                                                                         *)
(* sub is the zero of the field's submessage, if it has one.               *)
ZeroWith(f, sub) ==
    CASE f.ltype = "SUBMESSAGE"         -> sub
      [] f.ltype = "FIXED_LENGTH_BYTES" -> [i \in 1 .. f.room |-> 0]
      [] IsBlob(f)                      -> << >>
      [] OTHER                          -> 0

DefaultWith(f, sub) ==
    CASE f.ltype = "EXTENSION" -> << >>
      [] f.ltype # "EXTENSION" /\ f.atype = "CALLBACK" -> [func |-> FALSE, val |-> << >>]
      [] f.atype = "POINTER"   ->
            [ptr |-> NULL, val |-> IF f.htype # "REPEATED" /\ IsPackable(f) THEN 0 ELSE << >>]
      [] f.atype = "STATIC" /\ f.htype = "REPEATED"  -> [count |-> 0, val |-> << >>]
      [] f.atype = "STATIC" /\ f.htype = "OPTIONAL"  ->
            [has |-> FALSE, val |-> IF f.default # 0 THEN f.default ELSE ZeroWith(f, sub)]
      [] OTHER                 -> [val |-> ZeroWith(f, sub)]

(* A descriptor with its values: zero, and what the member is while unset. *)
WithValues(f, sub) == [zero |-> ZeroWith(f, sub), unset |-> DefaultWith(f, sub)] @@ f

(* An optional extension is marked REQUIRED, since it has no has_ member.  *)
PB_OPTEXT_STATIC(tag, type)  ==
    WithValues(Descriptor(PB_FIELD(tag, type, "REQUIRED", "STATIC")), << >>)
PB_OPTEXT_POINTER(tag, type) ==
    WithValues(Descriptor(OptionalPointer(tag, type)), << >>)

(* The reports that the app sends and the answers that it gets.            *)
CctFields ==
    [LogEvent |->
        << Optional(1, "INT64"), OptionalPointer(6, "BYTES"), Optional(11, "INT32"),
           Optional(15, "SINT64"), Optional(17, "INT64"),
           Message(23, "OPTIONAL", "STATIC", "NetworkConnectionInfo") >>,
     NetworkConnectionInfo |->
        << Default(Optional(1, "ENUM"), -1), Optional(2, "UENUM") >>,
     IosClientInfo |->
        << OptionalPointer(3, "BYTES"), OptionalPointer(4, "BYTES"),
           OptionalPointer(5, "BYTES"), OptionalPointer(6, "BYTES"),
           OptionalPointer(7, "BYTES"), OptionalPointer(8, "BYTES"),
           OptionalPointer(11, "BYTES") >>,
     ClientInfo |->
        << Optional(1, "UENUM"), Message(4, "OPTIONAL", "STATIC", "IosClientInfo") >>,
     BatchedLogRequest |-> << Message(1, "REPEATED", "POINTER", "LogRequest") >>,
     LogRequest |->
        << Message(1, "OPTIONAL", "STATIC", "ClientInfo"), Optional(2, "INT32"),
           Message(3, "REPEATED", "POINTER", "LogEvent"), Optional(4, "INT64"),
           Optional(8, "INT64"), Optional(9, "UENUM") >>,
     QosTierConfiguration |-> << Optional(2, "UENUM"), Optional(3, "INT32") >>,
     QosTiersOverride |->
        << Message(1, "REPEATED", "POINTER", "QosTierConfiguration"), Optional(2, "INT64") >>,
     LogResponse |->
        << Optional(1, "INT64"), Message(3, "OPTIONAL", "STATIC", "QosTiersOverride") >>]

(* The report on the configuration of the app.                             *)
ICoreConfiguration ==
    << Optional(1, "UENUM"), PB_FIELD(7, "UENUM", "REPEATED", "POINTER"),
       OptionalPointer(9, "BYTES"), OptionalPointer(10, "BYTES"),
       OptionalPointer(12, "BYTES"), Optional(16, "UENUM"),
       OptionalPointer(18, "BYTES"), OptionalPointer(19, "BYTES"),
       Optional(20, "UENUM"), Optional(21, "INT32"),
       OptionalPointer(22, "BYTES"), OptionalPointer(24, "BYTES"),
       Optional(25, "BOOL"), Optional(26, "BOOL"), Optional(27, "INT32"),
       OptionalPointer(28, "BYTES"), Optional(29, "BOOL"), Optional(30, "UENUM"),
       OptionalPointer(31, "BYTES"), Optional(33, "BOOL"), Optional(36, "BOOL") >>

(* The kinds of field that none of these has.                              *)
OtherFields ==
    [Scalars |->
        << PB_FIELD(1, "BOOL", "REQUIRED", "STATIC"),
           PB_FIELD(2, "FIXED32", "SINGULAR", "STATIC"),
           Room(PB_FIELD(3, "STRING", "SINGULAR", "STATIC"), 3),
           Room(PB_FIELD(4, "FIXED_LENGTH_BYTES", "SINGULAR", "STATIC"), 2),
           Room(Optional(5, "BYTES"), 2),
           OptionalPointer(6, "STRING"),
           Array(PB_FIELD(7, "FIXED64", "REPEATED", "STATIC"), 2) >>,
     Nested |->
        << Message(1, "OPTIONAL", "POINTER", "Item"),
           Array(Message(2, "REPEATED", "STATIC", "Item"), 2),
           Message(3, "SINGULAR", "STATIC", "QosTierConfiguration"),
           OptionalPointer(4, "INT32") >>,
     Item |-> << OptionalPointer(6, "BYTES"), Optional(15, "SINT64") >>,
     Hooked |->
        << PB_FIELD(1, "UINT32", "REPEATED", "CALLBACK"),
           PB_FIELD(2, "BYTES", "OPTIONAL", "CALLBACK"),
           PB_FIELD(8, "EXTENSION", "OPTIONAL", "CALLBACK") >>]

Lines == CctFields @@ [ICoreConfiguration |-> ICoreConfiguration] @@ OtherFields

descriptors ==
    [t \in DOMAIN Lines |-> [i \in DOMAIN Lines[t] |-> Descriptor(Lines[t][i])]] @@ << >>

(* The same by tag, which is how pb_field_iter_find looks a field up; the  *)
(* tags of a range of extensions, and those of the required fields.  (With *)
(* @@ << >> these tables are evaluated once.)                              *)
Tags(fs) == {fs[i].tag : i \in DOMAIN fs}
ByTag(fs) ==
    [tag \in Tags(fs) |-> fs[CHOOSE i \in DOMAIN fs : fs[i].tag = tag]] @@ << >>
Declared == [t \in DOMAIN Lines |-> ByTag(descriptors[t])] @@ << >>

Extensible ==
    [t \in DOMAIN Lines |-> Tags(SelectSeq(descriptors[t], LAMBDA f : f.ltype = "EXTENSION"))]
    @@ << >>
Known ==
    [t \in DOMAIN Lines |-> Tags(SelectSeq(descriptors[t], LAMBDA f : f.ltype # "EXTENSION"))]
    @@ << >>
Required ==
    [t \in DOMAIN Lines |-> Tags(SelectSeq(descriptors[t], LAMBDA f : f.htype = "REQUIRED"))]
    @@ << >>

(* The structures as pb_field_set_to_default leaves them.                  *)
Defaults[type \in DOMAIN Lines] ==
    [tag \in DOMAIN Declared[type] |->
        DefaultWith(Declared[type][tag], Defaults[Declared[type][tag].sub])] @@ << >>

fields ==
    [t \in DOMAIN Lines |->
        [i \in DOMAIN Lines[t] |-> WithValues(descriptors[t][i], Defaults[descriptors[t][i].sub])]]
    @@ << >>
Member == [t \in DOMAIN Lines |-> ByTag(fields[t])] @@ << >>
=============================================================================
