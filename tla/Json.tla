-------------------------------- MODULE Json --------------------------------
(***************************************************************************)
(* A program that uses json.hpp: it reads a document, from a text or from  *)
(* one of the binary formats, and changes it by the operations of the      *)
(* library.  It reads a text token by token, with one of the parser's      *)
(* handlers.                                                               *)
(***************************************************************************)
EXTENDS JsonSerializer, JsonPointer, JsonParser

CONSTANTS Handlers,       \* "dom", "accept" and callbacks
          Tokens,         \* the tokens a text is made of
          Openings,       \* what a text may begin with
          MaxTokens,      \* and how many tokens may follow
          Inputs,         \* texts and encoded documents: <<format, bytes>>
          Documents,      \* documents that the program makes itself
          Values,         \* what the program adds to its document
          MemberNames,    \* and by which names
          Pointers,       \* texts of JSON pointers
          MaxEdits,       \* how often it changes its document
          MaxSize,        \* the most elements a document grows to
          MaxCut          \* how far from either end an encoding is cut short

VARIABLES parser,         \* the parser, which is "idle" when it is not used
          tokens,         \* what it has read
          doc,            \* the document
          error,          \* the number of the last exception, or 0
          edits           \* how often it was changed
vars == <<parser, tokens, doc, error, edits>>

Idle == [at |-> "idle"]
IsIdle == parser.at = "idle"

(***************************************************************************)
(* Reading.                                                                *)
(***************************************************************************)
\* The tokens of a text, up to its end or its first error.
RECURSIVE ScanAll(_, _)
ScanAll(s, token) == <<token>> \o (IF token.kind \in {"end_of_input", "parse_error"} THEN <<>>
                                  ELSE ScanAll(s, Scan(s, token.at)))
ParseAll(p, read) == FoldLeft(LAMBDA q, t : IF Finished(q) THEN q ELSE Parse(q, t), p, read)
FromText(s, handler) == ParseAll(Begin(handler), ScanAll(s, Scan(s, 1)))

Formats == {"text", "cbor", "msgpack", "ubjson", "bson"}
FromBytes(format, s) == CASE format = "cbor" -> FromCbor(s)
                          [] format = "msgpack" -> FromMsgPack(s)
                          [] format = "ubjson" -> FromUbjson(s)
                          [] format = "bson" -> FromBson(s)
ParseResult(p) == [error |-> p.error, value |-> Result(p)]
ReadResult(r) == IF IsBad(r) THEN [error |-> r.error, value |-> Discarded]
                 ELSE [error |-> 0, value |-> r.value]
\* Anything that is read: [error, value].
From(format, s) ==
    IF format = "text"
    THEN ParseResult(FromText(s, "dom")) ELSE ReadResult(FromBytes(format, s))

ToBytes(format, j, options) == CASE format = "cbor" -> ToCbor(j)
                                 [] format = "msgpack" -> ToMsgPack(j)
                                 [] format = "ubjson" -> ToUbjson(j, options)
                                 [] format = "bson" -> ToBson(j)

Init == /\ \/ /\ tokens \in Openings
              /\ \E h \in Handlers : parser = ParseAll(Begin(h), tokens)
           \/ tokens = <<>> /\ parser = Idle
        /\ doc = Null /\ error = 0 /\ edits = 0

Take(token) ==
    /\ ~IsIdle /\ ~Finished(parser)
    /\ \E o \in Openings : IsPrefix(o, tokens) /\ Len(tokens) < Len(o) + MaxTokens
    /\ parser' = Parse(parser, token)
    /\ tokens' = Append(tokens, token)
    /\ UNCHANGED <<doc, error, edits>>
\* The call returns, or throws and leaves the document alone.
Accepted ==
    /\ parser.at = "accepted"
    /\ doc' = (IF parser.handler = "accept" THEN doc ELSE Result(parser))
    /\ parser' = Idle /\ tokens' = <<>> /\ edits' = MaxEdits
    /\ UNCHANGED error
Refused ==
    /\ parser.at = "refused"
    /\ error' = parser.error
    /\ parser' = Idle /\ tokens' = <<>> /\ edits' = MaxEdits
    /\ UNCHANGED doc

Becomes(r) == doc' = r.value /\ error' = r.error
Load(input) ==
    /\ IsIdle /\ edits = 0 /\ doc = Null
    /\ Becomes(From(input[1], input[2]))
    /\ edits' = edits + 1
    /\ UNCHANGED <<parser, tokens>>
Make(document) ==
    /\ IsIdle /\ edits = 0 /\ doc = Null
    /\ doc' = document /\ edits' = MaxEdits
    /\ UNCHANGED <<parser, tokens, error>>

(***************************************************************************)
(* Changing the document, at the elements that it has.                     *)
(***************************************************************************)
RECURSIVE Paths(_)
Paths(j) == {<<>>} \cup (IF IsStructured(j)
                         THEN UNION {{<<k>> \o p : p \in Paths(Data(j)[k])} : k \in DOMAIN Data(j)}
                         ELSE {})
Complete(j) == \A p \in Paths(j) : Type(GetAt(j, p)) # "discarded"
CanEdit == IsIdle /\ edits < MaxEdits /\ error # Abort /\ Complete(doc)

\* The result of an operation on the element at a path.
Edit(path, r) ==
    /\ Cardinality(Paths(PutAt(doc, path, r.value))) <= MaxSize
    /\ doc' = PutAt(doc, path, r.value)
    /\ error' = r.error
    /\ edits' = edits + 1
    /\ UNCHANGED <<parser, tokens>>

Places(j) == 0 .. (IF Type(j) = "array" THEN Size(j) ELSE 1)
AddAt(path, j, v) ==
    \/ Edit(path, PushBack(j, v))
    \/ Edit(path, EmplaceBack(j, v))
    \/ \E list \in {<<v>>, <<v, v>>} : Edit(path, PushList(j, list))
    \/ \E at \in Places(j) :
          \/ Edit(path, Insert(j, at, v))
          \/ Edit(path, InsertCopies(j, at, 2, v))
          \/ (Type(v) = "array" /\ Edit(path, InsertFrom(j, at, v)))
          \/ Edit(path, SetPlace(j, at + 1, v))
AddMember(path, j, k, v) ==
    \/ Edit(path, PushMember(j, k, v))
    \/ Edit(path, Emplace(j, k, v))
    \/ Edit(path, SetKey(j, k, v))
Combine(path, j, v) ==
    \/ Edit(path, InsertMembers(j, v))
    \/ Edit(path, Update(j, v))
    \/ Edit(path, Done(MergePatch(j, v)))
    \/ \E t \in {"array", "object", "string"} : Type(v) = t /\ Edit(path, Swap(j, t, Data(v)))
TakeAway(path, j) ==
    \/ Edit(path, Clear(j))
    \/ \E at \in IF Type(j) = "object" THEN DOMAIN Data(j) ELSE 1 .. Size(j) :
          Edit(path, EraseHere(j, at))
    \/ (~IsStructured(j) /\ Edit(path, EraseHere(j, 2)))
    \/ \E first \in 1 .. Size(j) + 1 : \E last \in first .. Size(j) + 1 :
          Edit(path, EraseRange(j, first, last))
    \/ \E i \in Places(j) : Edit(path, ErasePlace(j, i))
    \/ \E k \in MemberNames : Edit(path, EraseKey(j, k))
\* An element is replaced by a part of itself.
TakeOut(path, j) ==
    \/ \E first \in 1 .. Size(j) + 1 : \E last \in first .. Size(j) + 1 :
          Edit(path, FromRange(j, first, last))
    \/ \E i \in Places(j) : Edit(path, AtPlace(j, i))
    \/ \E k \in MemberNames : \/ Edit(path, AtKey(j, k))
                               \/ \E v \in Values : Edit(path, ValueOr(j, k, v))
Point(text, v) ==
    LET p == Split(text)
    IN  \/ (~Failed(p) /\ Edit(<<>>, Assign(doc, p.tokens, v)))
        \/ (~Failed(p) /\ Edit(<<>>, ValueAt(doc, p.tokens, v)))
        \/ (Failed(p) /\ Edit(<<>>, Fails(p.error, doc)))

\* A patch of one or two operations; the second one may fail.
Changes == {OpAdd, OpReplace, OpTest}
ApplyPatch(p, q, v) ==
    LET On(op, text) == (OpName :> String(op)) @@ (OpPath :> String(text))
        Run(patch) == Edit(<<>>, Patch(doc, Array(patch)))
        One(op) == Object(On(op, p) @@ (OpValue :> v))
        Two(op) == Object(On(op, p) @@ (OpFrom :> String(q)))
    IN  \/ \E op \in Changes : Run(<<One(op)>>)
        \/ \E op \in {OpMove, OpCopy} : Run(<<Two(op)>>)
        \/ Run(<<Object(On(OpRemove, p))>>)
        \/ Run(<<One(OpAdd), Object(On(OpTest, q) @@ (OpValue :> v))>>)

Next ==
    \/ \E token \in Tokens : Take(token)
    \/ Accepted \/ Refused
    \/ \E input \in Inputs : Load(input)
    \/ \E document \in Documents : Make(document)
    \/ /\ CanEdit
       /\ \E path \in Paths(doc) :
             \/ TakeAway(path, GetAt(doc, path))
             \/ TakeOut(path, GetAt(doc, path))
             \/ \E v \in Values : \/ AddAt(path, GetAt(doc, path), v)
                                  \/ Combine(path, GetAt(doc, path), v)
                                  \/ \E k \in MemberNames :
                                        AddMember(path, GetAt(doc, path), k, v)
    \/ /\ CanEdit
       /\ \E p \in Pointers, v \in Values :
             \/ Point(p, v)
             \/ \E q \in Pointers : ApplyPatch(p, q, v)

Spec == Init /\ [][Next]_vars

(***************************************************************************)
(* What a text says: the grammar of RFC 8259, and of a callback that what  *)
(* it turns down is not there.  A member that is read again is dropped.    *)
(***************************************************************************)
Read(v, at) == [value |-> v, at |-> at]
NotJson == [at |-> 0]
Kind(ts, i) == IF i <= Len(ts) THEN ts[i].kind ELSE "nothing"
Scalars == {"literal_null", "literal_true", "literal_false", "value_string",
            "value_integer", "value_unsigned", "value_float"}

RECURSIVE Grammar(_, _, _, _), Elements(_, _, _, _, _), Members(_, _, _, _, _)
Elements(ts, i, depth, filter, s) ==
    LET r == Grammar(ts, i, depth, filter)
        all == IF Type(r.value) = "discarded" THEN s ELSE Append(s, r.value)
    IN  IF r.at = 0 THEN NotJson
        ELSE CASE Kind(ts, r.at) = "end_array" -> Read(Array(all), r.at + 1)
               [] Kind(ts, r.at) = "value_separator" -> Elements(ts, r.at + 1, depth, filter, all)
               [] OTHER -> NotJson
Members(ts, i, depth, filter, f) ==
    LET r == Grammar(ts, i + 2, depth, filter)
        k == ts[i].value
        all == IF ~Keep(filter, depth, "key", k) THEN f
               ELSE IF Type(r.value) = "discarded" THEN Without(f, Data(k))
               ELSE With(f, Data(k), r.value)
    IN  IF Kind(ts, i) # "value_string" \/ Kind(ts, i + 1) # "name_separator" \/ r.at = 0
        THEN NotJson
        ELSE CASE Kind(ts, r.at) = "end_object" -> Read(Object(all), r.at + 1)
               [] Kind(ts, r.at) = "value_separator" -> Members(ts, r.at + 1, depth, filter, all)
               [] OTHER -> NotJson
Grammar(ts, i, depth, filter) ==
    LET inside == IF Kind(ts, i) = "begin_array"
                  THEN IF Kind(ts, i + 1) = "end_array" THEN Read(Array(<<>>), i + 2)
                       ELSE Elements(ts, i + 1, depth + 1, filter, <<>>)
                  ELSE IF Kind(ts, i + 1) = "end_object" THEN Read(EmptyObject, i + 2)
                       ELSE Members(ts, i + 1, depth + 1, filter, NoMembers)
        kept == IF Kind(ts, i) = "begin_array"
                THEN /\ Keep(filter, depth, "array_start", Discarded)
                     /\ Keep(filter, depth, "array_end", inside.value)
                ELSE /\ Keep(filter, depth, "object_start", Discarded)
                     /\ Keep(filter, depth, "object_end", inside.value)
    IN  CASE Kind(ts, i) \in Scalars /\ Kind(ts, i) = "value_float" /\ ~Finite(Data(ts[i].value)) ->
                NotJson
          [] Kind(ts, i) \in {"begin_array", "begin_object"} ->
                IF inside.at = 0 THEN NotJson
                ELSE Read(IF kept THEN inside.value ELSE Discarded, inside.at)
          [] Kind(ts, i) \in Scalars
             /\ ~(Kind(ts, i) = "value_float" /\ ~Finite(Data(ts[i].value))) ->
                Read(IF Keep(filter, depth, "value", ts[i].value) THEN ts[i].value ELSE Discarded,
                     i + 1)
          [] OTHER -> NotJson

\* A value without what is discarded in it.
RECURSIVE Swept(_)
Swept(j) ==
    LET Stays(v) == Type(v) # "discarded"
    IN  CASE Type(j) = "array" ->
                LET s == SelectSeq(Data(j), Stays) IN Array([i \in DOMAIN s |-> Swept(s[i])])
          [] Type(j) = "object" ->
                Object([k \in {x \in DOMAIN Data(j) : Stays(Data(j)[x])} |-> Swept(Data(j)[k])])
          [] OTHER -> j

(***************************************************************************)
(* Properties.                                                             *)
(***************************************************************************)
\* The parser accepts just the texts of the grammar, whatever handler it has, and
\* builds what they say but for values still marked as discarded.
ParserAgrees ==
    ~IsIdle /\ Finished(parser) =>
        LET r == Grammar(tokens, 1, 0, parser.handler)
            sentence == r.at # 0 /\ Kind(tokens, r.at) = "end_of_input"
        IN  /\ (parser.at = "accepted") = sentence
            /\ sentence /\ parser.handler # "accept" =>
                  Swept(Result(parser)) = (IF Type(r.value) = "discarded" THEN Null ELSE r.value)

\* The document is whole, and no text is being read.
AtRest == IsIdle /\ Complete(doc)

\* A value as it comes back: integers that are not negative are unsigned in a text
\* and the other way round in some formats, floats that no text has are null.
RECURSIVE Plain(_, _)
Plain(j, text) ==
    CASE Type(j) = "unsigned" -> Signed(Data(j))
      [] Type(j) = "float" /\ text /\ ~Finite(Data(j)) -> Null
      [] Type(j) = "array" -> Array([i \in DOMAIN Data(j) |-> Plain(Data(j)[i], text)])
      [] Type(j) = "object" -> Object([k \in DOMAIN Data(j) |-> Plain(Data(j)[k], text)])
      [] OTHER -> j
\* bytes is the document in a format: the format's reader makes the document of it,
\* and nothing of a part of it that it begins with.
IsDocument(back, text) == back.error = 0 /\ Plain(back.value, FALSE) = Plain(doc, text)
IsNothing(back) == back.error # 0 \/ Type(back.value) = "discarded"
Cuts(s) == {n \in 0 .. Len(s) : n < MaxCut \/ n > Len(s) - MaxCut}
Restores(format, r, text) ==
    IsThrown(r) \/
        \A n \in IF text /\ ~IsStructured(doc) THEN {Len(r.bytes)} ELSE Cuts(r.bytes) :
            \E back \in {From(format, SubSeq(r.bytes, 1, n))} :
                IF n = Len(r.bytes) THEN IsDocument(back, text) ELSE IsNothing(back)

Style == [pretty : BOOLEAN, indent : {2}, ascii : BOOLEAN, handler : {"strict"}]
RECURSIVE WellFormed(_)
WellFormed(s) ==
    \/ s = <<>>
    \/ s[1] < 128 /\ WellFormed(Tail(s))
    \/ /\ s[1] \in 194 .. 244
       /\ LET n == Len(Tails(s[1]))
          IN  /\ \A i \in 1 .. n : At(s, i + 1) \in Tails(s[1])[i]
              /\ WellFormed(SubSeq(s, n + 2, Len(s)))

\* What dump writes, in any style, the parser reads back; it throws only for
\* strings that are not UTF-8.
TextRoundTrip ==
    AtRest => \A style \in Style :
        /\ IsThrown(Dump(doc, style)) = (\E s \in Strings(doc) : ~WellFormed(s))
        /\ Restores("text", Dump(doc, style), TRUE)

\* So do the binary formats, of every document that they have a form for.
Sizes == {[count |-> FALSE, type |-> FALSE], [count |-> TRUE, type |-> FALSE],
          [count |-> TRUE, type |-> TRUE]}
BinaryRoundTrip ==
    AtRest =>
        \A format \in Formats \ {"text"} :
            \A options \in IF format = "ubjson" THEN Sizes ELSE {"none"} :
                Restores(format, ToBytes(format, doc, options), FALSE)

NaNs(j) == {p \in Paths(j) : Type(GetAt(j, p)) = "float" /\ IsNaN(Data(GetAt(j, p)))}
\* The difference of two documents, applied to the first one, gives the second.
PatchOfDiff ==
    [][Complete(doc) /\ Complete(doc') /\ NaNs(doc') = {} =>
          LET r == Patch(doc, Diff(doc, doc'))
          IN  ~Failed(r) /\ Equal(r.value, doc')]_doc

\* A document comes back from its flat form, if it has no empty containers, which
\* become nulls, and no object with a member "0", which becomes an array.
Flattens(j) ==
    \A p \in Paths(j) : IsStructured(GetAt(j, p)) =>
        /\ Size(GetAt(j, p)) > 0
        /\ Type(GetAt(j, p)) = "object" => Zero \notin DOMAIN Data(GetAt(j, p))
FlattenRestores ==
    AtRest /\ Flattens(doc) => Unflatten(Flatten(doc)) = Done(doc)

\* The values compared: the elements of the document and what may be added to it,
\* but for numbers that a conversion of the comparison changes.
Exact(v) == /\ Type(v) = "integer" => FitsSigned(Data(v), 4)
            /\ Type(v) = "unsigned" => FitsUnsigned(Data(v), 4)
            /\ NaNs(v) = {}
Compared == {v \in {GetAt(doc, p) : p \in Paths(doc)} \cup Values :
                \A p \in Paths(v) : Exact(GetAt(v, p))}
\* operator< is an order, and what it does not order is equal.
OrderIsTotal ==
    AtRest =>
        \A x, y \in Compared :
            /\ Cardinality({c \in {"less", "equal", "more"} :
                   CASE c = "less" -> Less(x, y) [] c = "equal" -> Equal(x, y)
                     [] c = "more" -> Less(y, x)}) = 1
            /\ Less(x, y) => \A z \in Compared : Less(y, z) => Less(x, z)

\* An operation that throws loses nothing: all that it may leave behind is what was
\* null and has become a container.
Leaves(j) == {p \in Paths(j) : ~IsStructured(GetAt(j, p)) /\ Type(GetAt(j, p)) # "null"}
FailureLosesNothing ==
    [][edits' > edits /\ doc' # Discarded /\ error' # 0 =>
          \A p \in Leaves(doc) : p \in Paths(doc') /\ GetAt(doc', p) = GetAt(doc, p)]_vars
=============================================================================
