------------------------------- MODULE MCJson -------------------------------
EXTENDS Json

A == <<97>>
B == <<98>>
One == Unsigned(Word(1))
Inf == Float(<<127, 240, 0, 0, 0, 0, 0, 0>>)
Tok(kind) == Token(kind, Null, 0)
MCTokens == {Tok(k) : k \in {"begin_object", "end_object", "begin_array", "end_array",
                             "name_separator", "value_separator", "end_of_input", "parse_error"}}
              \cup {Token("value_string", String(A), 0), Token("value_string", String(B), 0),
                    Token("value_unsigned", One, 0), Token("value_float", Inf, 0)}

MCOpenings ==
    {<<>>, <<Tok("begin_object"), Token("value_string", String(A), 0), Tok("name_separator"),
            Token("value_unsigned", One, 0), Tok("value_separator"),
            Token("value_string", String(B), 0)>>}

MCHandlers == {"dom", "accept", "no value 1", "no key a", "no inner start",
               "no inner object", "no end"}
MCKeep(filter, depth, event, v) ==
    CASE filter = "no value 1" -> ~(event = "value" /\ v = One)
      [] filter = "no key a" -> ~(event = "key" /\ v = String(A))
      [] filter = "no inner start" -> ~(depth = 1 /\ event \in {"object_start", "array_start"})
      [] filter = "no inner object" -> ~(depth = 1 /\ event = "object_end")
      [] filter = "no end" -> ~(event = "array_end")
      [] OTHER -> TRUE
Decimal(digits, exponent) == [digits |-> digits, exponent |-> exponent]
MCDecimals ==
    (<<63, 248, 0, 0, 0, 0, 0, 0>> :> Decimal(<<49, 53>>, -1))                 \* 1.5
    @@ (<<63, 240, 0, 0, 0, 0, 0, 0>> :> Decimal(<<49>>, 0))                   \* 1.0
    @@ (<<68, 128, 240, 207, 6, 77, 213, 146>> :> Decimal(<<49>>, 22))         \* 1e22
    @@ (<<63, 185, 153, 153, 153, 153, 153, 154>> :> Decimal(<<49>>, -1))      \* 0.1
    @@ (<<0, 0, 0, 0, 0, 0, 0, 1>> :> Decimal(<<53>>, -324))                   \* 5e-324
    @@ (<<62, 112, 0, 0, 0, 0, 0, 0>> :>                                       \* 2^-24
          Decimal(<<53, 57, 54, 48, 52, 54, 52, 52, 55, 55, 53, 51, 57, 48, 54, 50, 53>>, -24))
    @@ (Data(Inf) :> Decimal(<<49>>, 400))                                     \* above every double
MCValues == {Null, One, Signed(Complement(Word(0))), String(A), Array(<<One>>), Object(A :> One)}
MCNames == {A, Zero}
MCPointers == {<<>>, <<47, 97>>, <<47, 48>>, <<47, 45>>, <<97>>, <<47, 97, 47, 97>>}
\* Texts and encodings, good and bad: escapes, surrogates, a byte order mark, numbers at
\* and beyond the limits of their types, every mark of every format, and cut ends.
MCInputs == {
    <<"text", <<34, 92, 117, 48, 48, 101, 57, 92, 117, 100, 56, 51, 52, 92, 117, 100, 100, 49,
        101, 92, 110, 92, 47, 34>>>>,
    <<"text", <<34, 92, 117, 100, 56, 51, 52, 34>>>>,
    <<"text", <<34, 92, 117, 100, 100, 49, 101, 34>>>>,
    <<"text", <<239, 187, 191, 91, 49, 93>>>>, <<"text", <<239, 187, 49>>>>,
    <<"text", <<91, 45, 48, 46, 48, 44, 32, 49, 53, 101, 45, 49, 44, 32, 49, 69, 43, 50, 50,
        93>>>>,
    <<"text", <<91, 45, 57, 50, 50, 51, 51, 55, 50, 48, 51, 54, 56, 53, 52, 55, 55, 53, 56, 48,
        56, 44, 49, 56, 52, 52, 54, 55, 52, 52, 48, 55, 51, 55, 48, 57, 53, 53, 49, 54, 49, 53,
        93>>>>,
    <<"text", <<91, 49, 48, 48, 48, 48, 48, 48, 48, 48, 48, 48, 48, 48, 48, 48, 48, 48, 48, 48,
        48, 48, 48, 48, 44, 45, 49, 101, 50, 50, 93>>>>,
    <<"text", <<48, 49>>>>, <<"text", <<49, 46>>>>, <<"text", <<45>>>>, <<"text", <<49, 101>>>>,
    <<"text", <<49, 101, 52, 48, 48>>>>,
    <<"text", <<34, 195, 169, 226, 130, 172, 240, 157, 132, 158, 34>>>>,
    <<"text", <<34, 192, 175, 34>>>>, <<"text", <<34, 237, 160, 128, 34>>>>,
    <<"text", <<34, 1, 34>>>>, <<"text", <<34, 92, 120, 34>>>>, <<"text", <<116, 114, 117>>>>,
    <<"text", <<91, 116, 114, 117, 101, 44, 102, 97, 108, 115, 101, 44, 110, 117, 108, 108,
        93>>>>,
    <<"text", <<49, 0, 32, 50>>>>, <<"text", <<32, 9, 10, 13, 123, 32, 125>>>>,
    <<"text", <<123, 34, 97, 34, 58, 49, 44, 34, 97, 34, 58, 123, 34, 126, 34, 58, 91, 93, 44,
        34, 47, 34, 58, 50, 125, 125>>>>,
    <<"text", <<91, 49, 44, 93>>>>, <<"text", <<49, 32, 49>>>>,
    <<"text", <<53, 101, 45, 51, 50, 52>>>>, <<"text", <<48, 46, 49>>>>,
    <<"text", <<91, 34, 92, 117, 100, 56, 51, 52, 92, 117, 48, 48, 54, 49, 34, 93>>>>,
    <<"text", <<>>>>, <<"cbor", <<249, 60, 0>>>>, <<"cbor", <<249, 124, 0>>>>,
    <<"cbor", <<249, 126, 0>>>>, <<"cbor", <<249, 0, 1>>>>, <<"cbor", <<250, 63, 192, 0, 0>>>>,
    <<"cbor", <<159, 1, 255>>>>, <<"cbor", <<191, 97, 97, 1, 255>>>>,
    <<"cbor", <<127, 97, 97, 97, 98, 255>>>>, <<"cbor", <<27, 128, 0, 0, 0, 0, 0, 0, 0>>>>,
    <<"cbor", <<59, 255, 255, 255, 255, 255, 255, 255, 255>>>>, <<"cbor", <<57, 1, 0>>>>,
    <<"cbor", <<155, 255, 255, 255, 255, 255, 255, 255, 0>>>>, <<"cbor", <<28>>>>,
    <<"cbor", <<24, 1>>>>, <<"cbor", <<98, 192, 175>>>>, <<"cbor", <<99, 237, 160, 128>>>>,
    <<"cbor", <<161, 97, 97, 130, 244, 246>>>>, <<"cbor", <<161, 1, 1>>>>,
    <<"cbor", <<251, 63, 248, 0, 0, 0, 0, 0, 0>>>>, <<"cbor", <<127, 1, 255>>>>,
    <<"cbor", <<130, 1>>>>, <<"msgpack", <<217, 1, 97>>>>, <<"msgpack", <<218, 0, 1, 97>>>>,
    <<"msgpack", <<209, 255, 127>>>>, <<"msgpack", <<208, 128>>>>,
    <<"msgpack", <<207, 128, 0, 0, 0, 0, 0, 0, 0>>>>,
    <<"msgpack", <<211, 255, 255, 255, 255, 0, 0, 0, 0>>>>,
    <<"msgpack", <<202, 63, 192, 0, 0>>>>, <<"msgpack", <<220, 0, 1, 1>>>>,
    <<"msgpack", <<223, 0, 0, 0, 1, 161, 97, 1>>>>, <<"msgpack", <<193>>>>,
    <<"msgpack", <<196>>>>, <<"msgpack", <<130, 161, 97, 192, 161, 98, 195>>>>,
    <<"msgpack", <<224>>>>, <<"msgpack", <<206, 0, 1, 0, 0>>>>, <<"msgpack", <<196, 3>>>>,
    <<"msgpack", <<146, 1>>>>, <<"msgpack", <<161, 192>>>>,
    <<"ubjson", <<91, 36, 85, 35, 105, 2, 1, 2>>>>, <<"ubjson", <<91, 78, 105, 1, 78, 93>>>>,
    <<"ubjson", <<123, 36, 105, 35, 105, 1, 105, 1, 97, 5>>>>,
    <<"ubjson", <<91, 35, 105, 1, 90>>>>, <<"ubjson", <<67, 97>>>>, <<"ubjson", <<104>>>>,
    <<"ubjson", <<91, 35, 105, 255>>>>, <<"ubjson", <<91, 36, 78, 35, 105, 2>>>>,
    <<"ubjson", <<83, 105, 2, 97, 98>>>>, <<"ubjson", <<73, 255, 0>>>>,
    <<"ubjson", <<108, 0, 1, 0, 0>>>>, <<"ubjson", <<76, 255, 255, 255, 255, 0, 0, 0, 0>>>>,
    <<"ubjson", <<100, 63, 192, 0, 0>>>>, <<"ubjson", <<91, 35, 90>>>>,
    <<"ubjson", <<123, 105, 1, 97, 90, 125>>>>, <<"ubjson", <<78, 78, 84>>>>,
    <<"ubjson", <<91, 36, 67, 35, 105, 2, 97, 98>>>>, <<"ubjson", <<67, 255>>>>,
    <<"ubjson", <<91, 91, 93, 123, 125, 93>>>>, <<"ubjson", <<83>>>>,
    <<"ubjson", <<83, 105, 255>>>>, <<"ubjson", <<91, 36, 105>>>>,
    <<"ubjson", <<123, 35, 85, 1, 105, 1, 97, 84>>>>, <<"bson", <<5, 0, 0, 0, 0>>>>,
    <<"bson", <<14, 0, 0, 0, 2, 100, 0, 2, 0, 0, 0, 97, 0, 0>>>>,
    <<"bson", <<12, 0, 0, 0, 16, 105, 0, 1, 0, 0, 0, 0>>>>,
    <<"bson", <<16, 0, 0, 0, 1, 100, 0, 0, 0, 0, 0, 0, 0, 248, 63, 0>>>>,
    <<"bson", <<16, 0, 0, 0, 18, 105, 0, 255, 255, 255, 255, 255, 255, 255, 255, 0>>>>,
    <<"bson", <<9, 0, 0, 0, 8, 98, 0, 1, 0>>>>, <<"bson", <<8, 0, 0, 0, 10, 110, 0, 0>>>>,
    <<"bson", <<13, 0, 0, 0, 3, 111, 0, 5, 0, 0, 0, 0, 0>>>>,
    <<"bson", <<20, 0, 0, 0, 4, 97, 0, 12, 0, 0, 0, 16, 48, 0, 1, 0, 0, 0, 0, 0>>>>,
    <<"bson", <<9, 0, 0, 0, 7, 98, 0, 1>>>>, <<"bson", <<5, 0, 0, 0>>>>,
    <<"bson", <<12, 0, 0, 0, 16, 105, 0, 1, 0>>>>,
    <<"bson", <<14, 0, 0, 0, 2, 100, 0, 2, 0, 0, 0>>>>}

\* Every width of every format on both sides of its limit.
Nat8(n) == Unsigned(Word(n))
Int8(n) == Signed(Complement(Word(n - 1)))           \* -n
Wide(b1, b2) == Float(<<b1, b2, 0, 0, 0, 0, 0, 0>>)
Numbers == {Nat8(n) : n \in {0, 23, 24, 127, 128, 255, 256, 32767, 32768, 65535, 65536}}
             \cup {Int8(n) : n \in {1, 24, 25, 32, 33, 128, 129, 256, 257, 32768, 32769, 70000}}
             \cup {Unsigned(Complement(Word(0))), Signed(<<128, 0, 0, 0, 0, 0, 0, 0>>),
                   Signed(<<0, 0, 0, 0, 127, 255, 255, 255>>), Unsigned(<<0, 0, 0, 0, 128, 0, 0, 0>>),
                   Signed(<<255, 255, 255, 255, 128, 0, 0, 0>>), Unsigned(<<0, 0, 0, 1, 0, 0, 0, 0>>)}
Letters(n) == String([i \in 1 .. n |-> 97])
Leaf == Numbers \cup {Null, Boolean(TRUE), Boolean(FALSE),
                      Wide(63, 248), Wide(127, 240), Wide(128, 0)}
              \cup {Letters(n) : n \in {0, 23, 24, 31, 32}}
MCDocuments ==
    Leaf \cup {Array(<<x>>) : x \in Leaf}
      \cup {Object(With(With(NoMembers, A, x), <<>>, Array(<<x, One>>))) : x \in Leaf}
      \cup {Array([i \in 1 .. n |-> One]) : n \in {11, 15, 16, 23, 24}}
      \cup {Object([k \in {<<i>> : i \in 97 .. 96 + n} |-> One]) : n \in {15, 16, 24}}
      \cup {Letters(256), Object(With(NoMembers, <<126, 49>>, Array(<<EmptyObject, Letters(1)>>))),
            Object((<<126, 49>> :> One) @@ (<<47>> :> Null)),
            Array(<<Array(<<>>), Array(<<Object(A :> Null)>>)>>)}
=============================================================================
