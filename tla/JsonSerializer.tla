--------------------------- MODULE JsonSerializer ---------------------------
(***************************************************************************)
(* json.hpp's serializer: the text of a value.  options.pretty writes each *)
(* member on a line of its own, indented by options.indent spaces for each *)
(* container around it, options.ascii escapes every character above 126    *)
(* and options.handler says what becomes of bytes that are not UTF-8.      *)
(***************************************************************************)
EXTENDS JsonLexer

(***************************************************************************)
(* dump_integer, dump_float.                                               *)
(***************************************************************************)
DivTen(w) ==
    LET rest[i \in 0 .. 8] == IF i = 0 THEN 0 ELSE (rest[i - 1] * 256 + w[i]) % 10
    IN  [word |-> [i \in 1 .. 8 |-> (rest[i - 1] * 256 + w[i]) \div 10], digit |-> rest[8]]
RECURSIVE UnsignedText(_)
UnsignedText(w) ==
    LET d == DivTen(w)
    IN  (IF d.word = Word(0) THEN <<>> ELSE UnsignedText(d.word)) \o <<48 + d.digit>>
IntegerText(j) ==
    IF Type(j) = "integer" /\ Negative(Data(j)) THEN <<45>> \o UnsignedText(Minus(Data(j)))
    ELSE UnsignedText(Data(j))

Zeros(n) == IF n <= 0 THEN <<>> ELSE [i \in 1 .. n |-> 48]
\* At least two digits.
ExponentText(e) ==
    LET text == UnsignedText(Word(IF e < 0 THEN -e ELSE e))
    IN  <<IF e < 0 THEN 45 ELSE 43>> \o Zeros(2 - Len(text)) \o text
\* format_buffer: the digits with their point at n, in fixed notation if the
\* number is from 10^-4 to 10^15.
FormatDecimal(digits, exponent) ==
    LET k == Len(digits)
        n == k + exponent
    IN  CASE k <= n /\ n <= 15 -> digits \o Zeros(n - k) \o <<46, 48>>
          [] 0 < n /\ n < k /\ n <= 15 ->
                SubSeq(digits, 1, n) \o <<46>> \o SubSeq(digits, n + 1, k)
          [] -4 < n /\ n <= 0 -> <<48, 46>> \o Zeros(-n) \o digits
          [] OTHER -> SubSeq(digits, 1, 1) \o (IF k = 1 THEN <<>> ELSE <<46>> \o Tail(digits))
                        \o <<101>> \o ExponentText(n - 1)
FloatText(w) ==
    IF ~Finite(w) THEN Nil
    ELSE (IF Negative(w) THEN <<45>> ELSE <<>>) \o
         (IF IsZero(w) THEN <<48, 46, 48>>
          ELSE FormatDecimal(Decimals[Positive(w)].digits, Decimals[Positive(w)].exponent))

(***************************************************************************)
(* decode: the automaton of UTF-8.  A state is 0 (a character is complete) *)
(* or 1 (it is wrong), or says which bytes may follow.                     *)
(***************************************************************************)
ByteClass(byte) ==
    CASE byte <= 127 -> 0
      [] byte \in 128 .. 143 -> 1
      [] byte \in 144 .. 159 -> 9
      [] byte \in 160 .. 191 -> 7
      [] byte \in 194 .. 223 -> 2
      [] byte = 224 -> 10
      [] byte = 237 -> 4
      [] byte \in (225 .. 239) \ {237} -> 3
      [] byte = 240 -> 11
      [] byte \in 241 .. 243 -> 6
      [] byte = 244 -> 5
      [] OTHER -> 8
FirstState == <<1, 2, 3, 5, 8, 7, 1, 1, 1, 4, 6>>          \* of classes 1 .. 11
\* An automaton that takes the halves of a surrogate pair for characters.
DecodeSurrogates(state, byte) ==
    IF state = 0 /\ byte = 237 THEN 3
    ELSE IF state = 0 /\ ByteClass(byte) > 0 THEN FirstState[ByteClass(byte)]
    ELSE IF state = 0 THEN 0
    ELSE IF byte \in 128 .. 191 THEN (CASE state = 2 -> 0 [] state \in {3, 4, 5} -> 2 [] OTHER -> 3)
    ELSE 1
Decode(state, byte) ==
    LET class == ByteClass(byte)
    IN  CASE state = 0 /\ class = 0 -> 0
          [] state = 0 /\ class > 0 -> FirstState[class]
          [] state = 2 /\ class \in {1, 7, 9} -> 0
          [] state = 3 /\ class \in {1, 7, 9} -> 2
          [] state = 4 /\ class = 7 -> 2
          [] state = 5 /\ class \in {1, 9} -> 2
          [] state = 6 /\ class \in {7, 9} -> 3
          [] state = 7 /\ class \in {1, 7, 9} -> 3
          [] state = 8 /\ class = 1 -> 3
          [] OTHER -> 1
\* The bits of a byte that belong to the character.
CodeBits(state, code, byte) ==
    IF state # 0 THEN code * 64 + (byte % 64)
    ELSE IF ByteClass(byte) >= 8 THEN 0 ELSE byte % 2^(8 - ByteClass(byte))

(***************************************************************************)
(* dump_escaped.                                                           *)
(***************************************************************************)
HexDigit(n) == IF n < 10 THEN 48 + n ELSE 87 + n
HexEscape(n) == <<Backslash, 117, HexDigit(n \div 4096), HexDigit((n \div 256) % 16),
                  HexDigit((n \div 16) % 16), HexDigit(n % 16)>>
ShortName == [c \in {8, 9, 10, 12, 13, 34, 92} |->
                 <<Backslash, CHOOSE e \in DOMAIN ShortEscape \ {47} : ShortEscape[e] = c>>]
Escaped(code, bytes, ascii) ==
    CASE code \in DOMAIN ShortName -> ShortName[code]
      [] code \notin DOMAIN ShortName /\ (code <= 31 \/ (ascii /\ code >= 127)) ->
            IF code <= 65535 THEN HexEscape(code)
            ELSE HexEscape(55232 + code \div 1024) \o HexEscape(56320 + (code % 1024))
      [] OTHER -> bytes
Replacement(options) == CASE options.handler = "ignore" -> <<>>
                          [] options.ascii -> HexEscape(65533)
                          [] OTHER -> <<239, 191, 189>>
\* text is what is written, pending the bytes of the character not yet complete.
RECURSIVE Escape(_, _, _, _, _, _)
Escape(s, i, state, code, text, options) ==
    LET pending == i - 1 - state.from
        next == Decode(state.at, s[i])
        now == CodeBits(state.at, code, s[i])
    IN  IF i > Len(s)
        THEN IF state.at = 0 THEN Written(text)
             ELSE IF options.handler = "strict" THEN Thrown(316)
             ELSE Written(text \o Replacement(options))
        ELSE CASE next = 0 ->
                    Escape(s, i + 1, [at |-> 0, from |-> i], now,
                           text \o Escaped(now, SubSeq(s, state.from + 1, i), options.ascii),
                           options)
               [] next = 1 ->
                    IF options.handler = "strict" THEN Thrown(316)
                    ELSE LET again == IF pending > 0 THEN i ELSE i + 1
                         IN  Escape(s, again, [at |-> 0, from |-> again - 1], 0,
                                    text \o Replacement(options), options)
               [] OTHER -> Escape(s, i + 1, [state EXCEPT !.at = next], now, text, options)
EscapedText(s, options) == Escape(s, 1, [at |-> 0, from |-> 0], 0, <<>>, options)

(***************************************************************************)
(* dump.                                                                   *)
(***************************************************************************)
Spaces(n) == [i \in 1 .. n |-> 32]
Quoted(s, options) == <<Quote>> \o EscapedText(s, options).bytes \o <<Quote>>
\* A container: its members, each with an indentation before and a comma between.
Enclosed(open, members, close, options, indent) ==
    LET before == IF options.pretty THEN <<10>> \o Spaces(indent + options.indent) ELSE <<>>
        n == Len(members)
        after == IF options.pretty THEN <<10>> \o Spaces(indent) ELSE <<>>
    IN  IF n = 0 THEN <<open, close>>
        ELSE <<open>> \o Concat([i \in 1 .. n |-> before \o members[i] \o
                                    (IF i < n THEN <<44>> ELSE <<>>)]) \o after \o <<close>>
Colon(options) == IF options.pretty THEN <<58, 32>> ELSE <<58>>

RECURSIVE Text(_, _, _)
ArrayText(s, options, indent) ==
    Enclosed(91, [i \in DOMAIN s |-> Text(s[i], options, indent + options.indent)], 93,
             options, indent)
ObjectText(f, options, indent) ==
    LET keys == Keys(f)
    IN  Enclosed(123, [i \in DOMAIN keys |-> Quoted(keys[i], options) \o Colon(options)
                          \o Text(f[keys[i]], options, indent + options.indent)], 125,
                 options, indent)
Text(j, options, indent) ==
    CASE Type(j) = "object"  -> ObjectText(Data(j), options, indent)
      [] Type(j) = "array"   -> ArrayText(Data(j), options, indent)
      [] Type(j) = "string"  -> Quoted(Data(j), options)
      [] Type(j) = "boolean" -> IF Data(j) THEN True ELSE False
      [] Type(j) \in {"integer", "unsigned"} -> IntegerText(j)
      [] Type(j) = "float"   -> FloatText(Data(j))
      [] Type(j) = "null"    -> Nil

\* Every string in a value, the keys included.
Strings(j) == UNION {CASE Type(x) = "string" -> {Data(x)}
                       [] Type(x) = "object" -> DOMAIN Data(x)
                       [] OTHER -> {} : x \in Parts(j)}
Dump(j, options) ==
    IF \E s \in Strings(j) : IsThrown(EscapedText(s, options)) THEN Thrown(316)
    ELSE Written(Text(j, options, 0))
=============================================================================
