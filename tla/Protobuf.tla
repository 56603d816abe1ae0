------------------------------ MODULE Protobuf ------------------------------
(***************************************************************************)
(* The wire codec of the engine (internal/engine/proto.go): varints, the   *)
(* field encoders, and the lenient decoder that guesses, without a schema, *)
(* whether a length-delimited field is a text, a message or plain bytes.   *)
(*                                                                         *)
(* A buffer is a sequence of bytes.  A decoded field is a record with its  *)
(* number f, its type t ("varint", "string", "message", "bytes") and its   *)
(* value v: a number, a sequence of bytes or a sequence of fields.         *)
(*                                                                         *)
(* Go's 64 bits are nine full groups of seven and one bit of the next; an  *)
(* integer here has Full such groups and that bit.  Texts are ASCII: every *)
(* byte above 127 counts as invalid UTF-8, and the inputs hold no          *)
(* multi-byte character.  The loops are recursive functions.               *)
(***************************************************************************)
EXTENDS Integers, Sequences, SequencesExt

CONSTANT Full    \* full groups of seven bits in a uint64 and an int (9 in Go)

ASSUME WidthAssumption == Full \in Nat \ {0}

Power[n \in Nat] == IF n = 0 THEN 1 ELSE 128 * Power[n - 1]

Modulus == 2 * Power[Full]    \* of uint64

Byte == 0 .. 255

MaxDepth == 8     \* decodeProtobuf recurses while depth < 8

Field(f, t, v) == [f |-> f, t |-> t, v |-> v]

(***************************************************************************)
(* Encoding.                                                               *)
(***************************************************************************)
Varint[v \in Nat] == IF v < 128 THEN <<v>> ELSE <<(v % 128) + 128>> \o Varint[v \div 128]

EncodeVarint(v) == Varint[v]

\* Variant of EncodeTag: one byte, whatever the field number.
EncodeTagByte(fieldNum, wireType) == <<(8 * fieldNum + wireType) % 128>>

EncodeTag(fieldNum, wireType) == EncodeVarint(8 * fieldNum + wireType)

EncodeFieldVarint(fieldNum, value) == EncodeTag(fieldNum, 0) \o EncodeVarint(value)

EncodeLenDelim(fieldNum, data) ==
    EncodeTag(fieldNum, 2) \o EncodeVarint(Len(data)) \o data

EncodeKvPair(fieldNum, key, value) ==
    EncodeLenDelim(fieldNum, EncodeLenDelim(1, key) \o EncodeLenDelim(2, value))

(***************************************************************************)
(* Decoding.  pos counts from 0, as in the code.                           *)
(***************************************************************************)
Read(v, pos, ok) == [v |-> v, pos |-> pos, ok |-> ok]

\* The groups of the varint at pos from the one that is followed by at most left - 1 more.
\* A varint that runs into the end of the buffer is returned as it is, with ok = TRUE.
Groups(data, pos) ==
    LET group[left \in 0 .. Full + 1] ==
          LET at   == pos + Full + 1 - left
              b    == data[at + 1]
              rest == group[left - 1]
          IN  IF at >= Len(data) THEN Read(0, at, TRUE)
              ELSE IF left = 0 THEN Read(0, at, FALSE)
              ELSE IF b < 128 THEN Read(b, at + 1, TRUE)
              ELSE Read((b % 128) + 128 * rest.v, rest.pos, rest.ok)
    IN  group

\* Bits shifted past the width are lost.
DecodeVarintAt(data, pos) ==
    LET whole == Groups(data, pos)[Full + 1]
    IN  Read(IF whole.ok THEN whole.v % Modulus ELSE 0, whole.pos, whole.ok)

Signed(n) == LET m == n % Modulus IN IF m >= Power[Full] THEN m - Modulus ELSE m

IsDigits(s) == s # <<>> /\ \A i \in DOMAIN s : s[i] \in 48..57

LooksHexToken(s) ==
    Len(s) >= 8 /\ \A i \in DOMAIN s : s[i] \in (48..57) \cup (97..102) \cup (65..70) \cup {45}

TextOk(raw) == \A i \in DOMAIN raw : raw[i] \in (32..127) \cup {9, 10, 13}

TrimLeft(s) ==
    LET first == SelectInSeq(s, LAMBDA b : b \notin {32, 9, 10, 13})
    IN  IF first = 0 THEN <<>> ELSE SubSeq(s, first, Len(s))

MS4  == <<77, 83, 52>>
HTTP == <<104, 116, 116, 112, 58, 47, 47>>
HTTPS == <<104, 116, 116, 112, 115, 58, 47, 47>>

\* A text that is never tried as a message: JSON, a sec_uid, an address, a
\* number, a hexadecimal token.
LooksText(raw) ==
    LET s == TrimLeft(raw) IN
    /\ TextOk(raw)
    /\ \/ s # <<>> /\ Head(s) \in {123, 91}
       \/ \E p \in {MS4, HTTP, HTTPS} : IsPrefix(p, s)
       \/ IsDigits(s)
       \/ LooksHexToken(s)

Panic == Field(0, "panic", <<>>)    \* a slice expression out of range

\* Variant of Fits: the end of the buffer is not looked at.
FitsAnyhow(pos, len, size) == len >= 0

\* Whether a length is taken for one within the buffer; the sum may overflow.
Fits(pos, len, size) == len >= 0 /\ Signed(pos + len) <= size

Guess(num, raw, nested) ==
    IF LooksText(raw) THEN Field(num, "string", raw)
    ELSE IF nested # <<>> THEN Field(num, "message", nested)
    ELSE Field(num, IF TextOk(raw) THEN "string" ELSE "bytes", raw)

\* The fields from pos on.  A skipped field may end behind the buffer.
Decode[call \in Seq(Byte) \X Nat \X (0 .. MaxDepth)] ==
    LET data  == call[1]
        pos   == call[2]
        depth == call[3]
        tag == DecodeVarintAt(data, pos)
        num == tag.v \div 8
        arg == DecodeVarintAt(data, tag.pos)
        len == Signed(arg.v)
        end == Signed(arg.pos + len)
        raw == SubSeq(data, arg.pos + 1, end)
        nested == IF depth < MaxDepth THEN Decode[<<raw, 0, depth + 1>>] ELSE <<>>
    IN  IF pos >= Len(data) \/ ~tag.ok \/ num = 0 THEN <<>>
        ELSE CASE tag.v % 8 = 0 /\ arg.ok -> <<Field(num, "varint", arg.v)>> \o Decode[<<data, arg.pos, depth>>]
               [] tag.v % 8 = 2 /\ arg.ok /\ Fits(arg.pos, len, Len(data)) ->
                      IF end \notin arg.pos .. Len(data) THEN <<Panic>>
                      ELSE <<Guess(num, raw, nested)>> \o Decode[<<data, end, depth>>]
               [] tag.v % 8 = 1 -> Decode[<<data, tag.pos + 8, depth>>]
               [] tag.v % 8 = 5 -> Decode[<<data, tag.pos + 4, depth>>]
               [] OTHER         -> <<>>

DecodeTop(payload) == Decode[<<payload, 0, 0>>]

(***************************************************************************)
(* What the decoder makes of a buffer that is cut off.                     *)
(***************************************************************************)
\* What the missing bytes of a number or of a length are taken for: the number read so
\* far, an empty text, or, when the last byte left is one that others should follow, a
\* length so large that its end overflows.
MadeByCut(x, last) ==
    x.t = "varint" \/ (x.t = "string" /\ x.v = <<>>) \/ (x = Panic /\ last >= 128)

\* part has the first fields of whole, and at most one more, made by the cut.
CutShort(part, whole, last) ==
    \E k \in 0 .. Len(whole) :
      /\ \A i \in 1 .. k : part[i] = whole[i]
      /\ Len(part) = k \/ (Len(part) = k + 1 /\ MadeByCut(part[k + 1], last))

ReadsUpToCut(bytes) ==
    \A n \in 0 .. Len(bytes) :
        CutShort(DecodeTop(SubSeq(bytes, 1, n)), DecodeTop(bytes), bytes[n])
=============================================================================
