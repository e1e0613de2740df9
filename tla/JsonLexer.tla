----------------------------- MODULE JsonLexer -----------------------------
(***************************************************************************)
(* json.hpp's lexer: the tokens of a text, which is the sequence of its    *)
(* bytes.  A token is its kind, its value and the place of the next byte.  *)
(*                                                                         *)
(* Decimals stands for what is outside the library (strtod) or too deep in *)
(* its arithmetic (Grisu2): the doubles in play, each with the digits and  *)
(* the power of ten that are its shortest decimal.                         *)
(***************************************************************************)
EXTENDS JsonReader

CONSTANT Decimals       \* a function of doubles to [digits |-> ..., exponent |-> ...]

Quote == 34
Backslash == 92
Digit == 48 .. 57
Blank == {32, 9, 10, 13}

Token(kind, value, at) == [kind |-> kind, value |-> value, at |-> at]
LexError(at) == Token("parse_error", Null, at)

(***************************************************************************)
(* scan_string                                                             *)
(***************************************************************************)
\* The ranges of the bytes after the first one of a character (next_byte_in_range).
AnyTail == 128 .. 191
Tails(byte) ==
    CASE byte \in 194 .. 223 -> <<AnyTail>>
      [] byte = 224 -> <<160 .. 191, AnyTail>>
      [] byte \in (225 .. 236) \cup {238, 239} -> <<AnyTail, AnyTail>>
      [] byte = 237 -> <<128 .. 159, AnyTail>>
      [] byte = 240 -> <<144 .. 191, AnyTail, AnyTail>>
      [] byte \in 241 .. 243 -> <<AnyTail, AnyTail, AnyTail>>
      [] byte = 244 -> <<128 .. 143, AnyTail, AnyTail>>

Hex(c) == CASE c \in Digit -> c - 48
            [] c \in 65 .. 70 -> c - 55
            [] c \in 97 .. 102 -> c - 87
            [] OTHER -> -1
\* get_codepoint: the four digits at a place, or -1.
CodePoint(s, at) ==
    IF \E i \in 0 .. 3 : Hex(At(s, at + i)) = -1 THEN -1
    ELSE Hex(s[at]) * 4096 + Hex(s[at + 1]) * 256 + Hex(s[at + 2]) * 16 + Hex(s[at + 3])

Utf8(c) ==
    CASE c < 128 -> <<c>>
      [] c \in 128 .. 2047 -> <<192 + c \div 64, 128 + (c % 64)>>
      [] c \in 2048 .. 65535 -> <<224 + c \div 4096, 128 + ((c \div 64) % 64), 128 + (c % 64)>>
      [] OTHER -> <<240 + c \div 262144, 128 + ((c \div 4096) % 64),
                    128 + ((c \div 64) % 64), 128 + (c % 64)>>

High == 55296 .. 56319
LowSurrogate == 56320 .. 57343
\* The character an escape stands for, and the place after it; -1 for an error.
UnicodeEscape(s, at) ==
    LET first == CodePoint(s, at)
        second == CodePoint(s, at + 6)
    IN  CASE first \in High ->
                IF /\ At(s, at + 4) = Backslash /\ At(s, at + 5) = 117
                   /\ second \in LowSurrogate
                THEN [code |-> 65536 + (first - 55296) * 1024 + (second - 56320), at |-> at + 10]
                ELSE [code |-> -1, at |-> at + 4]
          [] first \in LowSurrogate -> [code |-> -1, at |-> at + 4]
          [] OTHER -> [code |-> first, at |-> at + 4]
ShortEscape == (34 :> 34) @@ (92 :> 92) @@ (47 :> 47) @@ (98 :> 8) @@ (102 :> 12)
                 @@ (110 :> 10) @@ (114 :> 13) @@ (116 :> 9)
Control   == 0 .. 31
Unescaped == (32 .. 127) \ {Quote, Backslash}
\* The characters of a string and the place after them, from a place on.
RECURSIVE ScanString(_, _, _)
ScanEscape(s, at, buffer) ==
    LET c == At(s, at)
        escape == UnicodeEscape(s, at + 1)
    IN  CASE c \in DOMAIN ShortEscape -> ScanString(s, at + 1, Append(buffer, ShortEscape[c]))
          [] c = 117 -> IF escape.code = -1 THEN LexError(at)
                        ELSE ScanString(s, escape.at, buffer \o Utf8(escape.code))
          [] OTHER -> LexError(at)
ScanCharacter(s, at, buffer) ==
    LET tails == Tails(s[at])
        n == Len(tails)
    IN  IF \A i \in 1 .. n : At(s, at + i) \in tails[i]
        THEN ScanString(s, at + n + 1, buffer \o SubSeq(s, at, at + n))
        ELSE LexError(at)
ScanString(s, at, buffer) ==
    LET c == At(s, at)
    IN  CASE c = Quote -> Token("value_string", String(buffer), at + 1)
          [] c = Backslash -> ScanEscape(s, at + 1, buffer)
          [] c \in Control -> LexError(at)
          [] c \in Unescaped -> ScanString(s, at + 1, Append(buffer, c))
          [] c \in 194 .. 244 -> ScanCharacter(s, at, buffer)
          [] OTHER -> LexError(at)

(***************************************************************************)
(* scan_number: its states and the characters that lead from one to        *)
(* another; the number ends at the first character that leads nowhere.     *)
(***************************************************************************)
Start == "init"
\* Before the point ...
IntegerStep(state, c) ==
    CASE state = Start /\ c = 45 -> "minus"
      [] state \in {Start, "minus"} /\ c = 48 -> "zero"
      [] state \in {Start, "minus"} /\ c \in Digit \ {48} -> "any1"
      [] state = "any1" /\ c \in Digit -> "any1"
      [] state \in {"zero", "any1"} /\ c = 46 -> "decimal1"
      [] state \in {"zero", "any1"} /\ c \in {69, 101} -> "exponent"
      [] OTHER -> "end"
\* ... and from the point on.
FractionStep(state, c) ==
    CASE state \in {"decimal1", "decimal2"} /\ c \in Digit -> "decimal2"
      [] state = "decimal2" /\ c \in {69, 101} -> "exponent"
      [] state = "exponent" /\ c \in {43, 45} -> "sign"
      [] state \in {"exponent", "sign", "any2"} /\ c \in Digit -> "any2"
      [] OTHER -> "end"
NumberStep(state, c) ==
    IF state \in {Start, "minus", "zero", "any1"} THEN IntegerStep(state, c)
    ELSE FractionStep(state, c)
RECURSIVE NumberEnd(_, _, _)
NumberEnd(s, at, state) ==
    LET next == NumberStep(state, At(s, at))
    IN  IF next = "end" THEN [state |-> state, at |-> at] ELSE NumberEnd(s, at + 1, next)

\* strtoull and strtoll: the word of some digits, or Over.
Over == <<>>
TimesTen(w, digit) ==
    LET carry[i \in 1 .. 9] == IF i = 9 THEN digit ELSE (w[i] * 10 + carry[i + 1]) \div 256
    IN  IF carry[1] > 0 THEN Over ELSE [i \in 1 .. 8 |-> (w[i] * 10 + carry[i + 1]) % 256]
StrToULL(digits) ==
    FoldLeft(LAMBDA w, c : IF w = Over THEN w ELSE TimesTen(w, c - 48), Word(0), digits)
StrToLL(digits) ==
    LET w == StrToULL(digits)
    IN  IF w = Over THEN w
        ELSE IF Negative(w) /\ w # <<128, 0, 0, 0, 0, 0, 0, 0>> THEN Over ELSE Minus(w)

\* strtod of a number's text (external): digits * 10^exponent, the double of which
\* Decimals names; every other decimal is one double that has none.
Elsewhere == <<127, 239, 255, 255, 255, 255, 255, 255>>
Trim(digits) == LET i == CHOOSE k \in 0 .. Len(digits) :
                           /\ \A m \in 1 .. k : digits[m] = 48
                           /\ k < Len(digits) => digits[k + 1] # 48
                IN  SubSeq(digits, i + 1, Len(digits))
StrToD(text) ==
    LET negative == text[1] = 45
        Is(set) == LET places == {i \in DOMAIN text : text[i] \in set}
                   IN  IF places = {} THEN Len(text) + 1 ELSE Min(places)
        e == Is({69, 101})
        point == Min({Is({46}), e})
        whole == SubSeq(text, IF negative THEN 2 ELSE 1, point - 1)
        fraction == SubSeq(text, point + 1, e - 1)
        power == SubSeq(text, e + 1, Len(text))
        size == FoldLeft(LAMBDA n, c : IF c \in Digit THEN n * 10 + c - 48 ELSE n, 0, power)
        digits == Trim(whole \o fraction)
        least == Reverse(Trim(Reverse(digits)))
        exponent == (IF Contains(power, 45) THEN -size ELSE size)
                      - Len(fraction) + Len(digits) - Len(least)
        double == IF least = <<>> THEN Word(0)
                  ELSE LET is == {f \in DOMAIN Decimals :
                                    Decimals[f] = [digits |-> least, exponent |-> exponent]}
                       IN  IF is = {} THEN Elsewhere ELSE CHOOSE f \in is : TRUE
    IN  [double EXCEPT ![1] = @ + (IF negative THEN 128 ELSE 0)]

ScanNumber(s, at) ==
    LET end == NumberEnd(s, at, Start)
        text == SubSeq(s, at, end.at - 1)
        unsigned == StrToULL(text)
        signed == StrToLL(Tail(text))
    IN  IF end.state \notin {"zero", "any1", "decimal2", "any2"} THEN LexError(end.at)
        ELSE IF end.state \in {"zero", "any1"} /\ s[at] # 45 /\ unsigned # Over
             THEN Token("value_unsigned", Unsigned(unsigned), end.at)
        ELSE IF end.state \in {"zero", "any1"} /\ s[at] = 45 /\ signed # Over
             THEN Token("value_integer", Signed(signed), end.at)
        ELSE Token("value_float", Float(StrToD(text)), end.at)

(***************************************************************************)
(* scan: a byte order mark before the first token is skipped, and so is    *)
(* what is blank; a zero byte is the end of the input.                     *)
(***************************************************************************)
True  == <<116, 114, 117, 101>>
False == <<102, 97, 108, 115, 101>>
Nil   == <<110, 117, 108, 108>>
ScanLiteral(s, at, text, kind, value) ==
    IF \A i \in 1 .. Len(text) : At(s, at + i - 1) = text[i]
    THEN Token(kind, value, at + Len(text)) ELSE LexError(at)

Structural == (91 :> "begin_array") @@ (93 :> "end_array") @@ (123 :> "begin_object")
                @@ (125 :> "end_object") @@ (58 :> "name_separator") @@ (44 :> "value_separator")

SkipBom(s) == IF At(s, 1) # 239 THEN 1
              ELSE IF At(s, 2) = 187 /\ At(s, 3) = 191 THEN 4 ELSE 0
Scan(s, place) ==
    LET begin == IF place = 1 THEN SkipBom(s) ELSE place
        at == CHOOSE i \in begin .. Len(s) + 1 : /\ \A k \in begin .. i - 1 : s[k] \in Blank
                                                 /\ At(s, i) \notin Blank
        c == At(s, at)
    IN  CASE begin = 0 -> LexError(1)
          [] begin > 0 /\ c \in DOMAIN Structural -> Token(Structural[c], Null, at + 1)
          [] begin > 0 /\ c = 116 -> ScanLiteral(s, at, True, "literal_true", Boolean(TRUE))
          [] begin > 0 /\ c = 102 -> ScanLiteral(s, at, False, "literal_false", Boolean(FALSE))
          [] begin > 0 /\ c = 110 -> ScanLiteral(s, at, Nil, "literal_null", Null)
          [] begin > 0 /\ c = Quote -> ScanString(s, at + 1, <<>>)
          [] begin > 0 /\ c \in Digit \cup {45} -> ScanNumber(s, at)
          [] begin > 0 /\ c \in {0, Eof} -> Token("end_of_input", Null, at + 1)
          [] OTHER -> LexError(at)
=============================================================================
