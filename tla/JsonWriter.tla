----------------------------- MODULE JsonWriter -----------------------------
(***************************************************************************)
(* json.hpp's binary_writer: a value as CBOR, MessagePack, UBJSON and      *)
(* BSON.  The result of a conversion is the sequence of bytes, or the      *)
(* number of the exception, which is thrown with whatever was written      *)
(* before it lost.                                                         *)
(***************************************************************************)
EXTENDS JsonValue

Thrown(e)   == [thrown |-> e]
Written(s)  == [bytes |-> s]
IsThrown(r) == "thrown" \in DOMAIN r

\* The characters UBJSON marks its values with.
Chr == [Z |-> 90, T |-> 84, F |-> 70, i |-> 105, U |-> 85, I |-> 73, l |-> 108,
        L |-> 76, d |-> 100, D |-> 68, C |-> 67, S |-> 83, N |-> 78,
        open |-> 91, close |-> 93, begin |-> 123, end |-> 125, dollar |-> 36,
        hash |-> 35]

Narrowest(widths, Fits(_)) ==
    CHOOSE n \in widths : Fits(n) /\ \A m \in widths : m < n => ~Fits(m)
Log2 == [n \in {1, 2, 4, 8} |-> CASE n = 1 -> 0 [] n = 2 -> 1 [] n = 4 -> 2 [] n = 8 -> 3]

Concat(parts) == FoldLeft(LAMBDA s, t : s \o t, <<>>, parts)
Each(write(_), s) == Concat([i \in DOMAIN s |-> write(s[i])])

(***************************************************************************)
(* write_cbor: a control byte with the number itself, or the number's      *)
(* width, and the number in as few bytes as it fits.                       *)
(***************************************************************************)
CborHead(major, w) ==
    LET n == Narrowest({1, 2, 4, 8}, LAMBDA k : FitsUnsigned(w, k))
    IN  IF Value(w) <= 23 THEN <<32 * major + Value(w)>>
        ELSE <<32 * major + 24 + Log2[n]>> \o Low(w, n)
CborInteger(w) == IF Negative(w) THEN CborHead(1, Complement(w)) ELSE CborHead(0, w)
CborUnsigned(w) == CborHead(0, w)
CborString(s) == CborHead(3, Word(Len(s))) \o s

RECURSIVE Cbor(_)
CborArray(s) == CborHead(4, Word(Len(s))) \o Each(Cbor, s)
CborObject(f) ==
    CborHead(5, Word(Cardinality(DOMAIN f)))
      \o Each(LAMBDA k : CborString(k) \o Cbor(f[k]), Keys(f))
Cbor(j) == CASE Type(j) = "null"     -> <<246>>
             [] Type(j) = "boolean"  -> <<IF Data(j) THEN 245 ELSE 244>>
             [] Type(j) = "integer"  -> CborInteger(Data(j))
             [] Type(j) = "unsigned" -> CborUnsigned(Data(j))
             [] Type(j) = "float"    -> <<251>> \o Data(j)
             [] Type(j) = "string"   -> CborString(Data(j))
             [] Type(j) = "array"    -> CborArray(Data(j))
             [] Type(j) = "object"   -> CborObject(Data(j))
             [] OTHER -> <<>>
ToCbor(j) == Written(Cbor(j))

(***************************************************************************)
(* write_msgpack.                                                          *)
(***************************************************************************)
MsgPackUnsigned(w) ==
    LET n == Narrowest({1, 2, 4, 8}, LAMBDA k : FitsUnsigned(w, k))
    IN  IF Value(w) < 128 THEN <<Value(w)>> ELSE <<204 + Log2[n]>> \o Low(w, n)
\* An integer below zero in as few bytes as it fits without its sign.
MsgPackIntegerUnsigned(w) ==
    LET n == Narrowest({1, 2, 4, 8}, LAMBDA k : FitsUnsigned(Complement(w), k))
    IN  IF ~Negative(w) THEN MsgPackUnsigned(w)
        ELSE IF Value(Complement(w)) < 32 THEN <<w[8]>>
        ELSE <<208 + Log2[n]>> \o Low(w, n)
MsgPackInteger(w) ==
    LET n == Narrowest({1, 2, 4, 8}, LAMBDA k : FitsSigned(w, k))
    IN  IF ~Negative(w) THEN MsgPackUnsigned(w)
        ELSE IF Value(Complement(w)) < 32 THEN Low(w, 1)
        ELSE <<208 + Log2[n]>> \o Low(w, n)
MsgPackString(s) ==
    LET w == Word(Len(s))
        n == Narrowest({1, 2, 4}, LAMBDA k : FitsUnsigned(w, k))
    IN  (IF Len(s) <= 31 THEN <<160 + Len(s)>> ELSE <<217 + Log2[n]>> \o Low(w, n)) \o s
MsgPackHead(fixed, wide, length) ==
    LET w == Word(length)
        n == Narrowest({2, 4}, LAMBDA k : FitsUnsigned(w, k))
    IN  IF length <= 15 THEN <<fixed + length>> ELSE <<wide + Log2[n] - 1>> \o Low(w, n)

RECURSIVE MsgPack(_)
MsgPackArray(s) == MsgPackHead(144, 220, Len(s)) \o Each(MsgPack, s)
MsgPackObject(f) ==
    MsgPackHead(128, 222, Cardinality(DOMAIN f))
      \o Each(LAMBDA k : MsgPackString(k) \o MsgPack(f[k]), Keys(f))
MsgPack(j) == CASE Type(j) = "null"     -> <<192>>
                [] Type(j) = "boolean"  -> <<IF Data(j) THEN 195 ELSE 194>>
                [] Type(j) = "integer"  -> MsgPackInteger(Data(j))
                [] Type(j) = "unsigned" -> MsgPackUnsigned(Data(j))
                [] Type(j) = "float"    -> <<203>> \o Data(j)
                [] Type(j) = "string"   -> MsgPackString(Data(j))
                [] Type(j) = "array"    -> MsgPackArray(Data(j))
                [] Type(j) = "object"   -> MsgPackObject(Data(j))
                [] OTHER -> <<>>
ToMsgPack(j) == Written(MsgPack(j))

(***************************************************************************)
(* write_ubjson.  options.count writes a container's size before its       *)
(* members, instead of a mark after them, and options.type writes the mark *)
(* of the members once, if it is the same for all.                         *)
(***************************************************************************)
IntegerMark(w) == CASE FitsSigned(w, 1) -> Chr.i
                    [] FitsUnsigned(w, 1) -> Chr.U
                    [] FitsSigned(w, 2) /\ ~FitsUnsigned(w, 1) -> Chr.I
                    [] FitsSigned(w, 4) /\ ~FitsSigned(w, 2) -> Chr.l
                    [] OTHER -> Chr.L
UnsignedMark(w) == IF Negative(w) THEN Chr.L ELSE IntegerMark(w)
MarkWidth == (Chr.i :> 1) @@ (Chr.U :> 1) @@ (Chr.I :> 2) @@ (Chr.l :> 4) @@ (Chr.L :> 8)

Mark(j) == CASE Type(j) = "null"     -> Chr.Z
             [] Type(j) = "boolean"  -> IF Data(j) THEN Chr.T ELSE Chr.F
             [] Type(j) = "integer"  -> IntegerMark(Data(j))
             [] Type(j) = "unsigned" -> UnsignedMark(Data(j))
             [] Type(j) = "float"    -> Chr.D
             [] Type(j) = "string"   -> Chr.S
             [] Type(j) = "array"    -> Chr.open
             [] Type(j) = "object"   -> Chr.begin
             [] OTHER -> Chr.N

UbjsonLength(n) == <<IntegerMark(Word(n))>> \o Low(Word(n), MarkWidth[IntegerMark(Word(n))])
UbjsonNumber(j) == IF Type(j) = "float" THEN Data(j) ELSE Low(Data(j), MarkWidth[Mark(j)])

\* The marks of a container before its members, and whether each member has its own.
OneMark(members, options) ==
    options.type /\ members # {} /\ \A a, b \in members : Mark(a) = Mark(b)
UbjsonHead(members, length, options) ==
    (IF OneMark(members, options) THEN <<Chr.dollar, Mark(CHOOSE j \in members : TRUE)>> ELSE <<>>)
      \o (IF options.count THEN <<Chr.hash>> \o UbjsonLength(length) ELSE <<>>)

RECURSIVE Ubjson(_, _, _)
UbjsonArray(s, options) ==
    UbjsonHead(Range(s), Len(s), options)
      \o Each(LAMBDA j : Ubjson(j, options, ~OneMark(Range(s), options)), s)
      \o (IF options.count THEN <<>> ELSE <<Chr.close>>)
UbjsonObject(f, options) ==
    UbjsonHead(Range(f), Cardinality(DOMAIN f), options)
      \o Each(LAMBDA k : UbjsonLength(Len(k)) \o k
                           \o Ubjson(f[k], options, ~OneMark(Range(f), options)), Keys(f))
      \o (IF options.count THEN <<>> ELSE <<Chr.end>>)
Ubjson(j, options, marked) ==
    (IF marked /\ Type(j) # "discarded" THEN <<Mark(j)>> ELSE <<>>) \o
        (CASE IsNumber(j)         -> UbjsonNumber(j)
           [] Type(j) = "string"  -> UbjsonLength(Len(Data(j))) \o Data(j)
           [] Type(j) = "array"   -> UbjsonArray(Data(j), options)
           [] Type(j) = "object"  -> UbjsonObject(Data(j), options)
           [] OTHER -> <<>>)

\* Every value in a value, itself included.
RECURSIVE Parts(_)
Parts(j) == {j} \cup (IF IsStructured(j) THEN UNION {Parts(x) : x \in Range(Data(j))} ELSE {})

TooBig(j) == \E x \in Parts(j) : Type(x) = "unsigned" /\ Negative(Data(x))
ToUbjson(j, options) == IF TooBig(j) THEN Thrown(407) ELSE Written(Ubjson(j, options, TRUE))

(***************************************************************************)
(* write_bson: a document is its size, its members and a zero, with the    *)
(* least significant byte of a number first.                               *)
(***************************************************************************)
Int32(n) == Reverse(Low(Word(n), 4))
PlaceText(n) == LET ten == (n \div 10) % 10
             IN  IF n < 10 THEN <<48 + n>> ELSE <<48 + ten, 48 + (n % 10)>>   \* below 100
BsonHeader(name, mark) == <<mark>> \o name \o <<0>>
BsonInteger(name, w) ==
    IF FitsSigned(w, 4) THEN BsonHeader(name, 16) \o Reverse(Low(w, 4))
    ELSE BsonHeader(name, 18) \o Reverse(w)
BsonString(name, s) ==
    BsonHeader(name, 2) \o Int32(Len(s) + 1) \o s \o <<0>>

\* The sizes, calculated before anything is written.
BsonHeaderSize(name) == 1 + Len(name) + 1
BsonIntegerSize(w) == IF FitsSigned(w, 4) THEN 4 ELSE 8
BsonUnsignedSize(w) == IF FitsSigned(w, 4) /\ ~Negative(w) THEN 4 ELSE 8
RECURSIVE BsonElementSize(_, _)
BsonArraySize(s) ==
    4 + FoldSet(LAMBDA i, n : n + BsonElementSize(PlaceText(i - 1), s[i]), 0, DOMAIN s) + 1
BsonObjectSize(f) ==
    4 + FoldSet(LAMBDA k, n : n + BsonElementSize(k, f[k]), 0, DOMAIN f) + 1
BsonElementSize(name, j) ==
    BsonHeaderSize(name) +
        (CASE Type(j) = "object"   -> BsonObjectSize(Data(j))
           [] Type(j) = "array"    -> BsonArraySize(Data(j))
           [] Type(j) = "boolean"  -> 1
           [] Type(j) = "float"    -> 8
           [] Type(j) = "integer"  -> BsonIntegerSize(Data(j))
           [] Type(j) = "unsigned" -> BsonUnsignedSize(Data(j))
           [] Type(j) = "string"   -> 4 + Len(Data(j)) + 1
           [] Type(j) = "null"     -> 0)

RECURSIVE BsonElement(_, _)
BsonObject(f) ==
    Int32(BsonObjectSize(f)) \o Each(LAMBDA k : BsonElement(k, f[k]), Keys(f)) \o <<0>>
BsonArray(name, s) ==
    BsonHeader(name, 4) \o Int32(BsonArraySize(s))
      \o Each(LAMBDA i : BsonElement(PlaceText(i - 1), s[i]), [i \in DOMAIN s |-> i]) \o <<0>>
BsonElement(name, j) ==
    CASE Type(j) = "object"  -> BsonHeader(name, 3) \o BsonObject(Data(j))
      [] Type(j) = "array"   -> BsonArray(name, Data(j))
      [] Type(j) = "boolean" -> BsonHeader(name, 8) \o <<IF Data(j) THEN 1 ELSE 0>>
      [] Type(j) = "float"   -> BsonHeader(name, 1) \o Reverse(Data(j))
      [] Type(j) \in {"integer", "unsigned"} -> BsonInteger(name, Data(j))
      [] Type(j) = "string"  -> BsonString(name, Data(j))
      [] Type(j) = "null"    -> BsonHeader(name, 10)

NulInKey(j) == \E x \in Parts(j) : Type(x) = "object" /\ \E k \in DOMAIN Data(x) : Contains(k, 0)
ToBson(j) == IF Type(j) # "object" THEN Thrown(317)
             ELSE IF NulInKey(j) THEN Thrown(409)
             ELSE IF TooBig(j) THEN Thrown(407)
             ELSE Written(BsonObject(Data(j)))
=============================================================================
