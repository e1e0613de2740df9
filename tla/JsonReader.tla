----------------------------- MODULE JsonReader -----------------------------
(***************************************************************************)
(* json.hpp's binary_reader: a value from CBOR, MessagePack, UBJSON or     *)
(* BSON.  A step of the reader gives what it read and the place of the     *)
(* next byte, or the number of the error it reports.                       *)
(***************************************************************************)
EXTENDS JsonWriter

Ok(v, at)   == [value |-> v, at |-> at]
Bad(e)      == [error |-> e]
IsBad(r)    == "error" \in DOMAIN r
Silently    == 0        \* gives up and reports nothing
Then(r, Next(_, _)) == IF IsBad(r) THEN r ELSE Next(r.value, r.at)
Give(r, make(_)) == IF IsBad(r) THEN r ELSE Ok(make(r.value), r.at)

Eof == -1
Open == -1               \* the length of a container with a mark at its end
At(s, at) == IF at <= Len(s) THEN s[at] ELSE Eof

\* get_number: n bytes, the most significant first; in BSON the least first.
Number(s, at, n) == IF at + n > Len(s) + 1 THEN Bad(110) ELSE Ok(SubSeq(s, at, at + n - 1), at + n)
NumberLow(s, at, n) == Give(Number(s, at, n), Reverse)
\* get_string: a negative length reads nothing.
Chars(s, at, n) == IF n <= 0 THEN Ok(<<>>, at)
                  ELSE IF at + n > Len(s) + 1 THEN Bad(110)
                  ELSE Ok(SubSeq(s, at, at + n - 1), at + n)
\* A length as the code's size_t, and the one that says the length is not known.
Length(w) == IF w = [i \in 1 .. 8 |-> 255] THEN Open ELSE Value(w)
\* The handler refuses to start a container of a length that has no room: here that
\* of an array, in elements of 16 bytes; an object's limit is lower.
TooLong(w) == w[1] >= 8 /\ Length(w) # Open

(***************************************************************************)
(* Floats of fewer bits: mantissa * 2^exponent as a double.                *)
(***************************************************************************)
Widen(negative, mantissa, exponent) ==
    LET top == CHOOSE k \in 0 .. 24 : 2^k <= mantissa /\ mantissa < 2^(k + 1)
        biased == 1023 + top + exponent
        bits == BitsToBytes(LAMBDA k :
                  IF k < 52 - top THEN 0
                  ELSE IF k < 52 THEN (mantissa \div 2^(k - 52 + top)) % 2
                  ELSE IF k = 63 THEN 0 ELSE (biased \div 2^(k - 52)) % 2)
    IN  [(IF mantissa = 0 THEN Word(0) ELSE bits) EXCEPT ![1] = @ + (IF negative THEN 128 ELSE 0)]
Special(negative, isNaN) ==
    <<IF negative THEN 255 ELSE 127, IF isNaN THEN 248 ELSE 240, 0, 0, 0, 0, 0, 0>>
HalfToFloat(b) ==
    LET exponent == (b[1] \div 4) % 32
        mantissa == (b[1] % 4) * 256 + b[2]
    IN  CASE exponent = 0  -> Widen(b[1] >= 128, mantissa, -24)
          [] exponent = 31 -> Special(b[1] >= 128, mantissa # 0)
          [] OTHER -> Widen(b[1] >= 128, mantissa + 1024, exponent - 25)
SingleToFloat(b) ==
    LET exponent == (b[1] % 128) * 2 + b[2] \div 128
        mantissa == (b[2] % 128) * 65536 + b[3] * 256 + b[4]
    IN  CASE exponent = 0   -> Widen(b[1] >= 128, mantissa, -149)
          [] exponent = 255 -> Special(b[1] >= 128, mantissa # 0)
          [] OTHER -> Widen(b[1] >= 128, mantissa + 8388608, exponent - 150)

ReadUnsigned(s, at, n) == Give(Number(s, at, n), LAMBDA b : Unsigned(WidenUnsigned(b)))
ReadSigned(s, at, n)   == Give(Number(s, at, n), LAMBDA b : Signed(WidenSigned(b)))
ReadSingle(s, at) == Give(Number(s, at, 4), LAMBDA b : Float(SingleToFloat(b)))
ReadDouble(s, at) == Give(Number(s, at, 8), Float)

(***************************************************************************)
(* CBOR.                                                                   *)
(***************************************************************************)
\* The number a control byte holds, or announces in 1, 2, 4 or 8 bytes.
CborCount(s, at, byte) ==
    IF byte % 32 <= 23 THEN Ok(Word(byte % 32), at)
    ELSE Give(Number(s, at, 2^((byte % 32) - 24)), WidenUnsigned)

RECURSIVE ReadCborString(_, _), ReadCborChunks(_, _, _)
ReadCborString(s, at) ==
    LET byte == At(s, at)
    IN  CASE byte = Eof -> Bad(110)
          [] byte \in 96 .. 123 ->
                Then(CborCount(s, at + 1, byte), LAMBDA w, a : Chars(s, a, Value(w)))
          [] byte = 127 -> ReadCborChunks(s, at + 1, <<>>)
          [] OTHER -> Bad(113)
ReadCborChunks(s, at, read) ==
    IF At(s, at) = 255 THEN Ok(read, at + 1)
    ELSE Then(ReadCborString(s, at), LAMBDA chunk, a : ReadCborChunks(s, a, read \o chunk))

RECURSIVE ReadCbor(_, _), CborItems(_, _, _, _), CborMembers(_, _, _, _)
CborItems(s, at, n, read) ==
    IF n = 0 THEN Ok(Array(read), at)
    ELSE IF n = Open /\ At(s, at) = 255 THEN Ok(Array(read), at + 1)
    ELSE Then(ReadCbor(s, at), LAMBDA j, a :
             CborItems(s, a, IF n = Open THEN n ELSE n - 1, Append(read, j)))
CborMembers(s, at, n, read) ==
    IF n = 0 THEN Ok(Object(read), at)
    ELSE IF n = Open /\ At(s, at) = 255 THEN Ok(Object(read), at + 1)
    ELSE Then(ReadCborString(s, at), LAMBDA k, b : Then(ReadCbor(s, b), LAMBDA j, a :
             CborMembers(s, a, IF n = Open THEN n ELSE n - 1, With(read, k, j))))
CborContainer(s, at, byte, Read(_, _, _)) ==
    IF byte % 32 = 31 THEN Read(s, at, Open)
    ELSE Then(CborCount(s, at, byte), LAMBDA w, a :
             IF TooLong(w) THEN Bad(408) ELSE Read(s, a, Length(w)))
CborNumber(s, at, byte) ==
    CASE byte <= 27 -> Give(CborCount(s, at, byte), Unsigned)
      [] byte \in 32 .. 59 -> Give(CborCount(s, at, byte), LAMBDA w : Signed(Complement(w)))
      [] byte = 249 -> Give(Number(s, at, 2), LAMBDA b : Float(HalfToFloat(b)))
      [] byte = 250 -> ReadSingle(s, at)
      [] byte = 251 -> ReadDouble(s, at)
ReadCbor(s, place) ==
    LET byte == At(s, place)
        at == place + 1
    IN  CASE byte = Eof -> Bad(110)
          [] byte \in (0 .. 27) \cup (32 .. 59) \cup {249, 250, 251} -> CborNumber(s, at, byte)
          [] byte \in (96 .. 123) \cup {127} -> Give(ReadCborString(s, place), String)
          [] byte \in (128 .. 155) \cup {159} ->
                CborContainer(s, at, byte, LAMBDA t, a, n : CborItems(t, a, n, <<>>))
          [] byte \in (160 .. 187) \cup {191} ->
                CborContainer(s, at, byte, LAMBDA t, a, n : CborMembers(t, a, n, NoMembers))
          [] byte = 244 -> Ok(Boolean(FALSE), at)
          [] byte = 245 -> Ok(Boolean(TRUE), at)
          [] byte = 246 -> Ok(Null, at)
          [] OTHER -> Bad(112)

(***************************************************************************)
(* MessagePack.                                                            *)
(***************************************************************************)
ReadMsgPackString(s, at) ==
    LET byte == At(s, at)
    IN  CASE byte = Eof -> Bad(110)
          [] byte \in 160 .. 191 -> Chars(s, at + 1, byte - 160)
          [] byte \in 217 .. 219 ->
                Then(Number(s, at + 1, 2^(byte - 217)), LAMBDA b, a :
                    Chars(s, a, Value(WidenUnsigned(b))))
          [] OTHER -> Bad(113)

RECURSIVE ReadMsgPack(_, _), MsgPackItems(_, _, _, _), MsgPackMembers(_, _, _, _)
MsgPackItems(s, at, n, read) ==
    IF n = 0 THEN Ok(Array(read), at)
    ELSE Then(ReadMsgPack(s, at), LAMBDA j, a : MsgPackItems(s, a, n - 1, Append(read, j)))
MsgPackMembers(s, at, n, read) ==
    IF n = 0 THEN Ok(Object(read), at)
    ELSE Then(ReadMsgPackString(s, at), LAMBDA k, b : Then(ReadMsgPack(s, b), LAMBDA j, a :
             MsgPackMembers(s, a, n - 1, With(read, k, j))))
MsgPackCount(s, at, bytes, Read(_, _, _)) ==
    Then(Number(s, at, bytes), LAMBDA b, a : Read(s, a, Value(WidenUnsigned(b))))
\* The forms whose first byte holds the number, or the length, itself.
OneByte == (0 .. 191) \cup (224 .. 255)
MsgPackFixed(s, place) ==
    LET byte == At(s, place)
        at == place + 1
    IN  CASE byte \in 0 .. 127 -> Ok(Unsigned(Word(byte)), at)
          [] byte \in 128 .. 143 -> MsgPackMembers(s, at, byte - 128, NoMembers)
          [] byte \in 144 .. 159 -> MsgPackItems(s, at, byte - 144, <<>>)
          [] byte \in 160 .. 191 -> Give(ReadMsgPackString(s, place), String)
          [] byte \in 224 .. 255 -> Ok(Signed(WidenSigned(<<byte>>)), at)
ReadMsgPack(s, place) ==
    LET byte == At(s, place)
        at == place + 1
    IN  CASE byte = Eof -> Bad(110)
          [] byte \in OneByte -> MsgPackFixed(s, place)
          [] byte = 192 -> Ok(Null, at)
          [] byte \in {194, 195} -> Ok(Boolean(byte = 195), at)
          [] byte = 202 -> ReadSingle(s, at)
          [] byte = 203 -> ReadDouble(s, at)
          [] byte \in 204 .. 207 -> ReadUnsigned(s, at, 2^(byte - 204))
          [] byte \in 208 .. 211 -> ReadSigned(s, at, 2^(byte - 208))
          [] byte \in 217 .. 219 -> Give(ReadMsgPackString(s, place), String)
          [] byte \in 220 .. 221 ->
                MsgPackCount(s, at, 2^(byte - 219), LAMBDA t, a, n : MsgPackItems(t, a, n, <<>>))
          [] byte \in 222 .. 223 ->
                MsgPackCount(s, at, 2^(byte - 221),
                             LAMBDA t, a, n : MsgPackMembers(t, a, n, NoMembers))
          [] OTHER -> Bad(112)

(***************************************************************************)
(* UBJSON.  'N' is skipped before a value, a mark or a size.               *)
(***************************************************************************)
Skip(s, at) == CHOOSE i \in at .. Max({at, Len(s) + 1}) :
                   /\ \A k \in at .. i - 1 : At(s, k) = Chr.N
                   /\ At(s, i) # Chr.N

UbjsonWord(s, mark, at) ==
    IF mark = Chr.U THEN Give(Number(s, at, 1), WidenUnsigned)
    ELSE Give(Number(s, at, MarkWidth[mark]), WidenSigned)
\* A length below zero reads nothing.
ReadUbjsonString(s, at) ==
    LET mark == At(s, at)
    IN  CASE mark = Eof -> Bad(110)
          [] mark \in DOMAIN MarkWidth ->
                Then(UbjsonWord(s, mark, at + 1), LAMBDA w, a :
                    Chars(s, a, IF Negative(w) THEN 0 ELSE Value(w)))
          [] OTHER -> Bad(113)

\* get_ubjson_size_value and get_ubjson_size_type.  Without a size, the place
\* is that of the byte after the mark, which the code has then already read.
UbjsonSize(s, place, type) ==
    LET mark == At(s, Skip(s, place))
    IN  IF mark \notin DOMAIN MarkWidth THEN Bad(113)
        ELSE Then(UbjsonWord(s, mark, Skip(s, place) + 1), LAMBDA w, a :
                 IF Length(w) = Open THEN Ok([size |-> Open, type |-> type], a - 1)
                 ELSE IF TooLong(w) THEN Bad(408)
                 ELSE Ok([size |-> Length(w), type |-> type], a))
UbjsonSizeType(s, place) ==
    LET at == Skip(s, place)
        type == At(s, at + 1)
        after == Skip(s, at + 2)
    IN  CASE At(s, at) = Chr.dollar ->
                IF type = Eof \/ At(s, after) = Eof THEN Bad(110)
                ELSE IF At(s, after) # Chr.hash THEN Bad(112)
                ELSE UbjsonSize(s, after + 1, type)
          [] At(s, at) = Chr.hash -> UbjsonSize(s, at + 1, 0)
          [] OTHER -> Ok([size |-> Open, type |-> 0], at)

RECURSIVE ReadUbjson(_, _, _), UbjsonItems(_, _, _, _, _), UbjsonMembers(_, _, _, _, _),
          UbjsonOpenItems(_, _, _), UbjsonOpenMembers(_, _, _)
\* A member whose mark was written once for all of them (type), or stands before it.
ReadUbjsonNext(s, at, type) ==
    IF type # 0 THEN ReadUbjson(s, type, at)
    ELSE ReadUbjson(s, At(s, Skip(s, at)), Skip(s, at) + 1)
UbjsonItems(s, at, n, type, read) ==
    IF n = 0 \/ type = Chr.N THEN Ok(Array(read), at)
    ELSE Then(ReadUbjsonNext(s, at, type), LAMBDA j, a :
             UbjsonItems(s, a, n - 1, type, Append(read, j)))
UbjsonOpenItems(s, at, read) ==
    IF At(s, at) = Chr.close THEN Ok(Array(read), at + 1)
    ELSE Then(ReadUbjson(s, At(s, at), at + 1), LAMBDA j, a :
             UbjsonOpenItems(s, Skip(s, a), Append(read, j)))
UbjsonMembers(s, at, n, type, read) ==
    IF n = 0 THEN Ok(Object(read), at)
    ELSE Then(ReadUbjsonString(s, at), LAMBDA k, b :
             Then(ReadUbjsonNext(s, b, type), LAMBDA j, a :
                 UbjsonMembers(s, a, n - 1, type, With(read, k, j))))
UbjsonOpenMembers(s, at, read) ==
    IF At(s, at) = Chr.end THEN Ok(Object(read), at + 1)
    ELSE Then(ReadUbjsonString(s, at), LAMBDA k, b :
             Then(ReadUbjsonNext(s, b, 0), LAMBDA j, a :
                 UbjsonOpenMembers(s, Skip(s, a), With(read, k, j))))
ReadUbjsonArray(s, at) ==
    Then(UbjsonSizeType(s, at), LAMBDA head, a :
        IF head.size = Open THEN UbjsonOpenItems(s, a, <<>>)
        ELSE UbjsonItems(s, a, head.size, head.type, <<>>))
ReadUbjsonObject(s, at) ==
    Then(UbjsonSizeType(s, at), LAMBDA head, a :
        IF head.size = Open THEN UbjsonOpenMembers(s, a, NoMembers)
        ELSE UbjsonMembers(s, a, head.size, head.type, NoMembers))
ReadUbjson(s, mark, at) ==
    CASE mark = Eof -> Bad(110)
      [] mark = Chr.T -> Ok(Boolean(TRUE), at)
      [] mark = Chr.F -> Ok(Boolean(FALSE), at)
      [] mark = Chr.Z -> Ok(Null, at)
      [] mark = Chr.U -> ReadUnsigned(s, at, 1)
      [] mark \in DOMAIN MarkWidth \ {Chr.U} -> ReadSigned(s, at, MarkWidth[mark])
      [] mark = Chr.d -> ReadSingle(s, at)
      [] mark = Chr.D -> ReadDouble(s, at)
      [] mark = Chr.C -> IF At(s, at) = Eof THEN Bad(110)
                         ELSE IF At(s, at) > 127 THEN Bad(113)
                         ELSE Ok(String(<<At(s, at)>>), at + 1)
      [] mark = Chr.S -> Give(ReadUbjsonString(s, at), String)
      [] mark = Chr.open -> ReadUbjsonArray(s, at)
      [] mark = Chr.begin -> ReadUbjsonObject(s, at)
      [] OTHER -> Bad(112)

(***************************************************************************)
(* BSON.  The size of a document and the names of an array's members are   *)
(* read and not looked at.                                                 *)
(***************************************************************************)
RECURSIVE BsonName(_, _, _)
BsonName(s, at, read) ==
    IF At(s, at) = Eof THEN Bad(110)
    ELSE IF At(s, at) = 0 THEN Ok(read, at + 1) ELSE BsonName(s, at + 1, Append(read, At(s, at)))
ReadBsonString(s, at) ==
    Then(NumberLow(s, at, 4), LAMBDA b, a :
        LET w == WidenSigned(b)
        IN  IF Negative(w) \/ Value(w) < 1 THEN Bad(112)
            ELSE Then(Chars(s, a, Value(w) - 1), LAMBDA text, last :
                     IF At(s, last) = Eof THEN Bad(Silently) ELSE Ok(String(text), last + 1)))

RECURSIVE BsonDocument(_, _, _), BsonElements(_, _, _, _), ReadBsonElement(_, _, _)
BsonDocument(s, place, isArray) ==
    Then(NumberLow(s, place, 4), LAMBDA size, at :
        BsonElements(s, at, isArray, IF isArray THEN <<>> ELSE NoMembers))
BsonElements(s, at, isArray, read) ==
    LET type == At(s, at)
    IN  CASE type = Eof -> Bad(110)
          [] type = 0 -> Ok(IF isArray THEN Array(read) ELSE Object(read), at + 1)
          [] OTHER ->
                Then(BsonName(s, at + 1, <<>>), LAMBDA k, b :
                    Then(ReadBsonElement(s, type, b), LAMBDA j, a :
                        BsonElements(s, a, isArray,
                            IF isArray THEN Append(read, j) ELSE With(read, k, j))))
ReadBsonElement(s, type, at) ==
    CASE type = 1  -> Give(NumberLow(s, at, 8), Float)
      [] type = 2  -> ReadBsonString(s, at)
      [] type = 3  -> BsonDocument(s, at, FALSE)
      [] type = 4  -> BsonDocument(s, at, TRUE)
      [] type = 8  -> Ok(Boolean(At(s, at) # 0), at + 1)
      [] type = 10 -> Ok(Null, at)
      [] type = 16 -> Give(NumberLow(s, at, 4), LAMBDA b : Signed(WidenSigned(b)))
      [] type = 18 -> Give(NumberLow(s, at, 8), Signed)
      [] OTHER -> Bad(114)

(***************************************************************************)
(* sax_parse: after the value, the input must end.                         *)
(***************************************************************************)
Strictly(s, r, SkipTo(_, _)) ==
    Then(r, LAMBDA j, a : IF At(s, SkipTo(s, a)) = Eof THEN Ok(j, a) ELSE Bad(110))
Here(s, at) == at
FromCbor(s)    == Strictly(s, ReadCbor(s, 1), Here)
FromMsgPack(s) == Strictly(s, ReadMsgPack(s, 1), Here)
FromUbjson(s)  == Strictly(s, ReadUbjsonNext(s, 1, 0), Skip)
FromBson(s)    == Strictly(s, BsonDocument(s, 1, FALSE), Here)
=============================================================================
