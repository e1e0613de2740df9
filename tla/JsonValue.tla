----------------------------- MODULE JsonValue -----------------------------
(***************************************************************************)
(* The values of json.hpp, the JSON library that archlab keeps and writes  *)
(* its measurements with, and their comparison.  A value is a tuple of the *)
(* name of its type and its data:                                          *)
(*   an integer is its eight bytes, the most significant first, either     *)
(*     "integer" (two's complement) or "unsigned";                         *)
(*   a float is the eight bytes of an IEEE 754 double;                     *)
(*   a string is the sequence of its bytes;                                *)
(*   an array is the sequence and an object the function of its members,   *)
(*     which the code keeps in the order of their keys (a std::map).       *)
(***************************************************************************)
EXTENDS Integers, FiniteSets, SequencesExt

Byte == 0 .. 255

Null        == <<"null">>
Discarded   == <<"discarded">>
Boolean(b)  == <<"boolean", b>>
Signed(w)   == <<"integer", w>>
Unsigned(w) == <<"unsigned", w>>
Float(w)    == <<"float", w>>
String(s)   == <<"string", s>>
Array(s)    == <<"array", s>>
Object(f)   == <<"object", f>>

Type(j) == j[1]
Data(j) == j[2]
IsNumber(j)     == Type(j) \in {"integer", "unsigned", "float"}
IsStructured(j) == Type(j) \in {"array", "object"}

NoMembers == [k \in {} |-> Null]
EmptyObject == Object(NoMembers)
With(f, k, v) == [x \in DOMAIN f \cup {k} |-> IF x = k THEN v ELSE f[x]]
Without(f, k) == [x \in DOMAIN f \ {k} |-> f[x]]

(***************************************************************************)
(* Machine words.  Huge stands for every number that is not smaller.       *)
(***************************************************************************)
Huge == 1000000
Word(n) == [i \in 1 .. 8 |-> IF i <= 4 THEN 0 ELSE (n \div 256^(8 - i)) % 256]
Value(w) ==
    LET n == w[6] * 65536 + w[7] * 256 + w[8]
    IN  IF (\A i \in 1 .. 5 : w[i] = 0) /\ n < Huge THEN n ELSE Huge

Negative(w)   == w[1] >= 128
Complement(w) == [i \in 1 .. 8 |-> 255 - w[i]]                 \* -1 - w
Minus(w) ==                                                    \* -w
    LET carry == CHOOSE i \in 0 .. 8 : /\ \A k \in i + 1 .. 8 : w[k] = 0
                                       /\ i > 0 => w[i] # 0
    IN  [i \in 1 .. 8 |-> IF i < carry THEN 255 - w[i]
                          ELSE IF i = carry THEN 256 - w[i] ELSE 0]

FitsUnsigned(w, n) == \A i \in 1 .. 8 - n : w[i] = 0
FitsSigned(w, n) ==
    /\ \A i \in 1 .. 8 - n : w[i] = (IF Negative(w) THEN 255 ELSE 0)
    /\ (w[9 - n] >= 128) = Negative(w)

Low(w, n) == SubSeq(w, 9 - n, 8)
WidenUnsigned(s) == [i \in 1 .. 8 - Len(s) |-> 0] \o s
WidenSigned(s) == [i \in 1 .. 8 - Len(s) |-> IF s[1] >= 128 THEN 255 ELSE 0] \o s

\* As unsigned words; the comparison of sequences that the code's containers use.
BytesLess(s, t) ==
    \E i \in 1 .. Len(t) :
        /\ \A k \in 1 .. i - 1 : k <= Len(s) /\ s[k] = t[k]
        /\ i > Len(s) \/ s[i] < t[i]
SignedLess(v, w) == IF Negative(v) = Negative(w) THEN BytesLess(v, w) ELSE Negative(v)

Keys(f) ==
    [i \in 1 .. Cardinality(DOMAIN f) |->
        CHOOSE k \in DOMAIN f : Cardinality({x \in DOMAIN f : BytesLess(x, k)}) = i - 1]

(***************************************************************************)
(* Doubles: the order of their bits, and the nearest double of an integer. *)
(***************************************************************************)
Positive(w) == [w EXCEPT ![1] = @ % 128]
IsNaN(w) == BytesLess(<<127, 240, 0, 0, 0, 0, 0, 0>>, Positive(w))
Finite(w) == BytesLess(Positive(w), <<127, 240, 0, 0, 0, 0, 0, 0>>)
IsZero(w) == Positive(w) = Word(0)
FloatLess(v, w) ==
    /\ ~IsNaN(v) /\ ~IsNaN(w) /\ ~(IsZero(v) /\ IsZero(w))
    /\ IF Negative(v) /\ Negative(w) THEN BytesLess(w, v)
       ELSE IF Negative(v) # Negative(w) THEN Negative(v) ELSE BytesLess(v, w)
FloatEqual(v, w) == ~IsNaN(v) /\ ~IsNaN(w) /\ (v = w \/ (IsZero(v) /\ IsZero(w)))

Bit(w, k) == IF k < 0 THEN 0 ELSE (w[8 - (k \div 8)] \div 2^(k % 8)) % 2
BitsToBytes(bit(_)) ==
    [i \in 1 .. 8 |-> FoldSet(LAMBDA k, n : n + bit(8 * (8 - i) + k) * 2^k, 0, 0 .. 7)]
Increment(w) == Minus(Complement(w))
UnsignedToFloat(w) ==
    IF w = Word(0) THEN w
    ELSE LET top == CHOOSE k \in 0 .. 63 : Bit(w, k) = 1 /\ \A i \in k + 1 .. 63 : Bit(w, i) = 0
             low == top - 52
             bits == BitsToBytes(LAMBDA k :
                       IF k < 52 THEN Bit(w, low + k)
                       ELSE IF k = 63 THEN 0 ELSE ((1023 + top) \div 2^(k - 52)) % 2)
             up == /\ Bit(w, low - 1) = 1
                   /\ Bit(w, low) = 1 \/ \E k \in 0 .. low - 2 : Bit(w, k) = 1
         IN  IF up THEN Increment(bits) ELSE bits
SignedToFloat(w) ==
    IF Negative(w) THEN [UnsignedToFloat(Minus(w)) EXCEPT ![1] = @ + 128]
    ELSE UnsignedToFloat(w)
ToFloat(j) == CASE Type(j) = "float" -> Data(j)
                [] Type(j) = "unsigned" -> UnsignedToFloat(Data(j))
                [] Type(j) = "integer" -> SignedToFloat(Data(j))

(***************************************************************************)
(* operator== and operator<.  An unsigned number is compared with a signed *)
(* one as a signed one, and either with a float as a float.                *)
(***************************************************************************)
TypeRank(t) == CASE t = "null" -> 0 [] t = "boolean" -> 1
                 [] t \in {"integer", "unsigned", "float"} -> 2
                 [] t = "object" -> 3 [] t = "array" -> 4 [] t = "string" -> 5
                 [] OTHER -> 6
TypeLess(s, t) == TypeRank(s) < 6 /\ TypeRank(t) < 6 /\ TypeRank(s) < TypeRank(t)

NumberEqual(a, b) ==
    IF "float" \in {Type(a), Type(b)} THEN FloatEqual(ToFloat(a), ToFloat(b))
    ELSE Data(a) = Data(b)

RECURSIVE Equal(_, _)
Equal(a, b) ==
    CASE IsNumber(a) /\ IsNumber(b) -> NumberEqual(a, b)
      [] Type(a) # Type(b) \/ Type(a) = "discarded" -> FALSE
      [] Type(a) = "array" -> /\ Len(Data(a)) = Len(Data(b))
                              /\ \A i \in DOMAIN Data(a) : Equal(Data(a)[i], Data(b)[i])
      [] Type(a) = "object" -> /\ DOMAIN Data(a) = DOMAIN Data(b)
                               /\ \A k \in DOMAIN Data(a) : Equal(Data(a)[k], Data(b)[k])
      [] OTHER -> a = b

\* A number that is unsigned compared as such whatever the other one is.
NumberLessUnsigned(a, b) ==
    IF "float" \in {Type(a), Type(b)} THEN FloatLess(ToFloat(a), ToFloat(b))
    ELSE IF "unsigned" \in {Type(a), Type(b)} THEN BytesLess(Data(a), Data(b))
    ELSE SignedLess(Data(a), Data(b))
NumberLess(a, b) ==
    IF "float" \in {Type(a), Type(b)} THEN FloatLess(ToFloat(a), ToFloat(b))
    ELSE IF Type(a) = "unsigned" /\ Type(b) = "unsigned" THEN BytesLess(Data(a), Data(b))
    ELSE SignedLess(Data(a), Data(b))

RECURSIVE Less(_, _)
SeqLess(s, t) ==
    \E i \in 1 .. Len(t) :
        /\ \A k \in 1 .. i - 1 : k <= Len(s) /\ ~Less(s[k], t[k]) /\ ~Less(t[k], s[k])
        /\ i > Len(s) \/ Less(s[i], t[i])
ObjectLess(f, g) ==
    LET s == Keys(f)  t == Keys(g)
        Below(i) == \/ BytesLess(s[i], t[i])
                    \/ (s[i] = t[i] /\ Less(f[s[i]], g[t[i]]))
        Above(i) == \/ BytesLess(t[i], s[i])
                    \/ (s[i] = t[i] /\ Less(g[t[i]], f[s[i]]))
    IN  \E i \in 1 .. Len(t) :
            /\ \A k \in 1 .. i - 1 : k <= Len(s) /\ ~Below(k) /\ ~Above(k)
            /\ i > Len(s) \/ Below(i)
Less(a, b) ==
    CASE IsNumber(a) /\ IsNumber(b) -> NumberLess(a, b)
      [] Type(a) # Type(b) -> TypeLess(Type(a), Type(b))
      [] Type(a) = "array" -> SeqLess(Data(a), Data(b))
      [] Type(a) = "object" -> ObjectLess(Data(a), Data(b))
      [] Type(a) = "string" -> BytesLess(Data(a), Data(b))
      [] Type(a) = "boolean" -> ~Data(a) /\ Data(b)
      [] OTHER -> FALSE
=============================================================================
