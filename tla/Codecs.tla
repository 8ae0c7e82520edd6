------------------------------- MODULE Codecs -------------------------------
(***************************************************************************)
(* Two computations on bytes that other parts take for granted: the        *)
(* checksum of log records and table blocks (crc32c.cc, crc32c.h of        *)
(* leveldb), which is computed in four interleaved strides, and the base64 *)
(* text of the web socket's handshake (fbase64.c).  A checksum is extended *)
(* chunk by chunk, as the log writer and the table builder do; a text is   *)
(* any that a peer may send.                                               *)
(***************************************************************************)
EXTENDS Integers, Sequences, FiniteSets, SequencesExt, FiniteSetsExt

CONSTANTS
    ChunkSizes,  \* lengths of the chunks a checksum is extended by
    Seeds,       \* which bytes they hold
    MaxChunks,   \* bound on the chunks of one stream
    PlainBytes,  \* the bytes that are written as text
    TextChars,   \* the characters that are read as text
    MaxBytes, MaxChars   \* bounds on the length of both

VARIABLES
    chunks,      \* the number of chunks so far
    data,        \* the bytes so far
    crc,         \* their checksum
    plain,       \* bytes to be written as text
    text         \* text to be read

codecVars == <<chunks, data, crc, plain, text>>

-----------------------------------------------------------------------------
(* A 32-bit word is the set of its one bits.                               *)

Bits == 0 .. 31
Xor(a, b) == (a \ b) \cup (b \ a)
ShiftRight(w, n) == {i - n : i \in {i \in w : i >= n}}
Rotate(w, n) == {(i + 32 - n) % 32 : i \in w}
ByteBits(b) == {i \in 0 .. 7 : (b \div 2^i) % 2 = 1}
LowByte(w) == MapThenSumSet(LAMBDA i : 2^i, w \cap 0 .. 7)
Word(bytes) == UNION {{8 * (k - 1) + i : i \in ByteBits(bytes[k])} : k \in 1 .. 4}

Castagnoli == Word(<<120, 59, 246, 130>>)     \* 0x82f63b78

(* Division by the polynomial, one bit after the other.                    *)
Divide(w, n) ==
    FoldLeft(LAMBDA a, i : IF 0 \in a THEN Xor(ShiftRight(a, 1), Castagnoli)
                           ELSE ShiftRight(a, 1), w, [i \in 1 .. n |-> i])

(* The tables: what a byte leaves, and what it leaves with 12 to 15 bytes  *)
(* of zeros behind it.                                                     *)
kByteExtensionTable == [b \in 0 .. 255 |-> Divide(ByteBits(b), 8)]

Behind(w, zeros) ==
    FoldLeft(LAMBDA a, i : Xor(kByteExtensionTable[LowByte(a)], ShiftRight(a, 8)),
             w, [i \in 1 .. zeros |-> i])
kStrideExtensionTable0 == [b \in 0 .. 255 |-> Behind(kByteExtensionTable[b], 12)]
kStrideExtensionTable1 == [b \in 0 .. 255 |-> Behind(kStrideExtensionTable0[b], 1)]
kStrideExtensionTable2 == [b \in 0 .. 255 |-> Behind(kStrideExtensionTable1[b], 1)]
kStrideExtensionTable3 == [b \in 0 .. 255 |-> Behind(kStrideExtensionTable2[b], 1)]

kCRC32Xor == Bits

STEP1(l, byte) == Xor(kByteExtensionTable[LowByte(Xor(l, ByteBits(byte)))], ShiftRight(l, 8))

STEP4(w, word) ==
    Xor(Xor(Xor(Xor(word, kStrideExtensionTable3[LowByte(w)]),
                kStrideExtensionTable2[LowByte(ShiftRight(w, 8))]),
            kStrideExtensionTable1[LowByte(ShiftRight(w, 16))]),
        kStrideExtensionTable0[LowByte(ShiftRight(w, 24))])

STEP4W(l, w) == FoldLeft(STEP1, Xor(w, l), <<0, 0, 0, 0>>)

ReadUint32LE(d, p) == Word(SubSeq(d, p + 1, p + 4))

(* How many bytes come before the first aligned one, which may be beyond   *)
(* the end of the buffer.                                                  *)
RoundUp(align) == (4 - align) % 4

(* The bytes of d from p on, 16 of them at least: four strides at a time   *)
(* while 16 bytes are left, then word by word in turn.                     *)
Strides(l, d, p) ==
    LET n     == Len(d) - p
        at(i) == ReadUint32LE(d, p + 4 * i)
        first == <<Xor(at(0), l), at(1), at(2), at(3)>>
        swaths == [i \in 1 .. (n \div 16) - 1 |-> 4 * i]
        STEP16(c, i) == [k \in 1 .. 4 |-> STEP4(c[k], at(i + k - 1))]
        words == [i \in 1 .. (n % 16) \div 4 |-> 4 * (n \div 16) + i - 1]
        turn(c, i) == <<c[2], c[3], c[4], STEP4(c[1], at(i))>>
    IN  FoldLeft(STEP4W, {}, FoldLeft(turn, FoldLeft(STEP16, first, swaths), words))

(* The strides if there are bytes enough, and the bytes that are left.     *)
TailFrom(m, d, p) == FoldLeft(STEP1, m, SubSeq(d, p + 1, Len(d)))
StridesIf(l, d, lead) == IF Len(d) - lead >= 16 THEN Strides(l, d, lead) ELSE l
Lead(d, align) == IF RoundUp(align) <= Len(d) THEN RoundUp(align) ELSE 0
ExtendFrom(l, d, lead, done) == Xor(TailFrom(StridesIf(l, d, lead), d, done), kCRC32Xor)

(* The build has no HAVE_CRC32C: the accelerated version answers 0, which  *)
(* is not the value of the test buffer, and is not used.                   *)
AcceleratedCRC32C(c, d) == {}
kTestCRCBuffer == <<84, 101, 115, 116, 67, 82, 67, 66, 117, 102, 102, 101, 114>>
kTestCRCValue == Word(<<250, 89, 188, 220>>)     \* 0xdcbc59fa
CanAccelerateCRC32C == AcceleratedCRC32C({}, kTestCRCBuffer) = kTestCRCValue

(* Mutated Extend: the bytes after the last stride are counted from the    *)
(* last group of 16.                                                       *)
ExtendTailTwice(c, d, align) ==
    LET lead == Lead(d, align)
        rest == Len(d) - lead
    IN  ExtendFrom(FoldLeft(STEP1, Xor(c, kCRC32Xor), SubSeq(d, 1, lead)), d, lead,
                   IF rest >= 16 THEN lead + 16 * (rest \div 16) ELSE lead)

Extend(c, d, align) ==
    LET lead == Lead(d, align)
        rest == Len(d) - lead
    IN  IF CanAccelerateCRC32C THEN AcceleratedCRC32C(c, d) ELSE
        ExtendFrom(FoldLeft(STEP1, Xor(c, kCRC32Xor), SubSeq(d, 1, lead)), d, lead,
                   IF rest >= 16 THEN lead + 4 * (rest \div 4) ELSE lead)

(* Sums of words, modulo 2^32: a carry reaches bit i from a bit that both  *)
(* have, across bits that one of them has.                                 *)
Add(a, b) ==
    LET carry(i) == \E j \in a \cap b : j < i /\ j + 1 .. i - 1 \subseteq a \cup b
    IN  Xor(Xor(a, b), {i \in Bits : carry(i)})
Subtract(a, b) == Add(a, Add(Bits \ b, {0}))

kMaskDelta == Word(<<216, 234, 130, 162>>)    \* 0xa282ead8
Mask(c) == Add(Rotate(c, 15), kMaskDelta)
Unmask(masked) == Rotate(Subtract(masked, kMaskDelta), 17)

-----------------------------------------------------------------------------
(* Characters: 0 .. 63 are the digits of Base64.                           *)

Pad64 == 64
Space == 65
Other == 66

Refused == [ok |-> FALSE, out |-> << >>]
Accepted(out) == [ok |-> TRUE, out |-> out]

(* Three bytes as four digits *)
Digits(in) == << in[1] \div 4, (in[1] % 4) * 16 + in[2] \div 16,
                 (in[2] % 16) * 4 + in[3] \div 64, in[3] % 64 >>

(* The text needs room for its NUL as well.                                *)
f_b64_ntop(src, targsize) ==
    LET whole == Len(src) \div 3
        left  == Len(src) % 3
        full  == FlattenSeq([i \in 1 .. whole |-> Digits(SubSeq(src, 3 * i - 2, 3 * i))])
        last  == Digits(SubSeq(src, 3 * whole + 1, Len(src)) \o <<0, 0>>)
        out   == CASE left = 0 -> full
                   [] left = 1 -> full \o <<last[1], last[2], Pad64, Pad64>>
                   [] left = 2 -> full \o <<last[1], last[2], last[3], Pad64>>
    IN  IF Len(out) >= targsize THEN Refused ELSE Accepted(out)

(* One digit.  part is target[tarindex], of which state says how much is   *)
(* there; out is what lies before it.                                      *)
PtonDigit(a, pos, targsize) ==
    LET room == IF a.state \in {1, 2} THEN Len(a.out) + 1 < targsize ELSE Len(a.out) < targsize
    IN  IF ~a.ok \/ ~room THEN [a EXCEPT !.ok = FALSE]
        ELSE CASE a.state = 0 -> [a EXCEPT !.part = pos * 4, !.state = 1]
               [] a.state = 1 -> [a EXCEPT !.out = Append(@, a.part + pos \div 16),
                                           !.part = (pos % 16) * 16, !.state = 2]
               [] a.state = 2 -> [a EXCEPT !.out = Append(@, a.part + pos \div 4),
                                           !.part = (pos % 4) * 64, !.state = 3]
               [] a.state = 3 -> [a EXCEPT !.out = Append(@, a.part + pos),
                                           !.part = 0, !.state = 0]

IsSpaces(s) == \A i \in DOMAIN s : s[i] = Space

(* What may follow the first pad character: one byte of information needs  *)
(* another one.                                                            *)
PadsRight(state, after) ==
    CASE state \in {0, 1} -> FALSE
      [] state = 3 -> IsSpaces(after)
      [] state = 2 -> \E i \in DOMAIN after :
                         /\ after[i] = Pad64 /\ IsSpaces(SubSeq(after, 1, i - 1))
                         /\ IsSpaces(SubSeq(after, i + 1, Len(after)))

(* Mutated f_b64_pton: the bits that slop past the last byte are let pass. *)
f_b64_pton_lax(src, targsize) ==
    LET pads   == {i \in DOMAIN src : src[i] = Pad64}
        end    == IF pads = {} THEN Len(src) ELSE Min(pads) - 1
        chars  == SelectSeq(SubSeq(src, 1, end), LAMBDA ch : ch # Space)
        r      == FoldLeft(LAMBDA a, ch : IF ch = Other THEN [a EXCEPT !.ok = FALSE]
                                          ELSE PtonDigit(a, ch, targsize),
                           [ok |-> TRUE, state |-> 0, part |-> 0, out |-> << >>], chars)
        ended  == IF pads = {} THEN r.state = 0
                  ELSE PadsRight(r.state, SubSeq(src, end + 2, Len(src)))
    IN  IF r.ok /\ ended THEN Accepted(r.out) ELSE Refused

f_b64_pton(src, targsize) ==
    LET pads   == {i \in DOMAIN src : src[i] = Pad64}
        end    == IF pads = {} THEN Len(src) ELSE Min(pads) - 1
        chars  == SelectSeq(SubSeq(src, 1, end), LAMBDA ch : ch # Space)
        r      == FoldLeft(LAMBDA a, ch : IF ch = Other THEN [a EXCEPT !.ok = FALSE]
                                          ELSE PtonDigit(a, ch, targsize),
                           [ok |-> TRUE, state |-> 0, part |-> 0, out |-> << >>], chars)
        ended  == IF pads = {} THEN r.state = 0
                  ELSE /\ PadsRight(r.state, SubSeq(src, end + 2, Len(src)))
                       /\ r.part = 0
    IN  IF r.ok /\ ended THEN Accepted(r.out) ELSE Refused

-----------------------------------------------------------------------------
CodecInit == chunks = 0 /\ data = << >> /\ crc = {} /\ plain = << >> /\ text = << >>

(* A chunk may start at any address.                                       *)
ExtendBy ==
    /\ chunks < MaxChunks /\ plain = << >> /\ text = << >>
    /\ \E n \in ChunkSizes, seed \in Seeds, align \in 0 .. 3 :
          LET chunk == [i \in 1 .. n |-> (seed + 167 * i) % 256]
          IN  data' = data \o chunk /\ crc' = Extend(crc, chunk, align)
    /\ chunks' = chunks + 1
    /\ UNCHANGED <<plain, text>>

GrowPlain ==
    /\ chunks = 0 /\ text = << >> /\ Len(plain) < MaxBytes
    /\ \E b \in PlainBytes : plain' = Append(plain, b)
    /\ UNCHANGED <<chunks, data, crc, text>>

GrowText ==
    /\ chunks = 0 /\ plain = << >> /\ Len(text) < MaxChars
    /\ \E ch \in TextChars : text' = Append(text, ch)
    /\ UNCHANGED <<chunks, data, crc, plain>>

CodecNext == ExtendBy \/ GrowPlain \/ GrowText

-----------------------------------------------------------------------------
(* Properties *)

(* The remainder of bytes first to last: division, half after half (the    *)
(* first half is evaluated by the test that it is a word).                 *)
RECURSIVE Remainder(_, _, _)

Remainder(w, first, last) ==
    LET middle == (first + last) \div 2
        half   == Remainder(w, first, middle)
    IN  CASE first = last -> Divide(Xor(w, ByteBits(data[first])), 8)
          [] first < last /\ half \subseteq Bits -> Remainder(half, middle + 1, last)

(* "Extend() is often used to maintain the crc32c of a stream of data"     *)
(* (crc32c.h): however the stream was cut into chunks and wherever each    *)
(* lay in memory, the strides give the remainder of the whole stream, and  *)
(* what was masked to be stored is unmasked to the same value.             *)
ChecksumOfStream == chunks > 0 =>
    /\ crc = Xor(Remainder(Bits, 1, Len(data)), Bits)
    /\ Unmask(Mask(crc)) = crc

(* What f_b64_ntop writes f_b64_pton reads back, with buffers just large   *)
(* enough; and a text that f_b64_pton takes is, but for its spaces, the    *)
(* only text of its bytes: no bits are left that could carry anything      *)
(* else ("they become a subliminal channel", fbase64.c).                   *)
TextIsCanonical == plain # << >> \/ text # << >> =>
    LET quanta == (Len(plain) + 2) \div 3
        t == f_b64_ntop(plain, 4 * quanta + 1)
        r == f_b64_pton(text, MaxChars)
    IN  /\ t.ok /\ f_b64_pton(t.out, 3 * quanta) = Accepted(plain)
        /\ ~f_b64_ntop(plain, 4 * quanta).ok
        /\ r.ok => f_b64_ntop(r.out, 2 * MaxChars).out
                      = SelectSeq(text, LAMBDA ch : ch # Space)
=============================================================================
