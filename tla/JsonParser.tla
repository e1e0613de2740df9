----------------------------- MODULE JsonParser -----------------------------
(***************************************************************************)
(* json.hpp's parser: what it does with one token after another, and its   *)
(* three handlers, which build the value (json_sax_dom_parser), build it   *)
(* but for what a callback turns down (json_sax_dom_callback_parser), or   *)
(* build nothing (json_sax_acceptor).                                      *)
(***************************************************************************)
EXTENDS JsonEdit

CONSTANT Keep(_, _, _, _)        \* callback, depth, event, value: is it kept?

\* A pointer to a value that is being built: its path, or nothing.
NullPtr == <<>>
PtrTo(path) == <<path>>

(***************************************************************************)
(* json_sax_dom_parser.  A handler is the value built so far (root), the   *)
(* containers being read (refs), where the next member goes (element) and  *)
(* where the last value went (placed).                                     *)
(***************************************************************************)
Into(h) == Last(h.refs)[1]
Container(h) == GetAt(h.root, Into(h))
Place(h, v) ==
    LET n == Size(Container(h))
    IN  CASE h.refs = <<>> -> [h EXCEPT !.root = v, !.placed = PtrTo(<<>>)]
          [] h.refs # <<>> /\ Type(Container(h)) = "array" ->
                [h EXCEPT !.root = PutAt(@, Into(h), PushBack(Container(h), v).value),
                          !.placed = PtrTo(Append(Into(h), n + 1))]
          [] OTHER -> [h EXCEPT !.root = PutAt(@, h.element[1], v), !.placed = h.element]
PlaceKey(h, k, v) ==
    [h EXCEPT !.root = PutAt(@, Into(h), SetKey(Container(h), k, v).value),
              !.element = PtrTo(Append(Into(h), k))]

Entered(h) == [h EXCEPT !.refs = Append(@, h.placed)]
DomStart(h, v) == Entered(Place(h, v))
DomKey(h, k) == PlaceKey(h, k, Member(Data(Container(h)), k))
DomEnd(h) == [h EXCEPT !.refs = Front(@)]
Dom(h, event, v) ==
    CASE event \in {"object_start", "array_start"} -> DomStart(h, v)
      [] event \in {"object_end", "array_end"} -> DomEnd(h)
      [] event = "key" -> DomKey(h, Data(v))
      [] event = "value" -> Place(h, v)

(***************************************************************************)
(* json_sax_dom_callback_parser.  keeps says of each container being read, *)
(* and keyKeeps of each key, if it is kept.  A member is "discarded" from  *)
(* its key to its value.                                                   *)
(***************************************************************************)
Depth(h) == Len(h.refs)
Skipped(h) == [h EXCEPT !.placed = NullPtr]
\* handle_value, for a value that the callback, if asked, keeps or turns down.
HandleValue(h, v, keep) ==
    LET inObject == h.refs # <<>> /\ Last(h.refs) # NullPtr /\ Type(Container(h)) = "object"
        asked == IF inObject THEN [h EXCEPT !.keyKeeps = Front(@)] ELSE h
    IN  CASE ~Last(h.keeps) \/ ~keep -> Skipped(h)
          [] Last(h.keeps) /\ keep /\ (h.refs = <<>> \/ Last(h.refs) # NullPtr)
             /\ (inObject => Last(h.keyKeeps)) -> Place(asked, v)
          [] OTHER -> Skipped(asked)

FilterStart(h, event, v, filter) ==
    Entered(HandleValue([h EXCEPT !.keeps = Append(@, Keep(filter, Depth(h), event, Discarded))],
                        v, TRUE))
\* A key as json_sax_dom_parser takes it: with a null for its value to replace.
FilterKeyNull(h, k, filter) ==
    LET keep == Keep(filter, Depth(h), "key", k)
        known == [h EXCEPT !.keyKeeps = Append(@, keep)]
    IN  IF keep /\ Last(h.refs) # NullPtr THEN PlaceKey(known, Data(k), Null) ELSE known
FilterKey(h, k, filter) ==
    LET keep == Keep(filter, Depth(h), "key", k)
        known == [h EXCEPT !.keyKeeps = Append(@, keep)]
    IN  IF keep /\ Last(h.refs) # NullPtr THEN PlaceKey(known, Data(k), Discarded) ELSE known
FilterValue(h, v, filter) == HandleValue(h, v, Keep(filter, Depth(h), "value", v))

\* What is turned down at its end is discarded where it is.
TurnedDown(h, event, filter) ==
    Last(h.refs) # NullPtr /\ ~Keep(filter, Depth(h) - 1, event, Container(h))
Leave(h, discard) ==
    [h EXCEPT !.refs = Front(@), !.keeps = Front(@),
              !.root = IF discard THEN PutAt(@, Into(h), Discarded) ELSE @]
IsIn(h, type) == h.refs # <<>> /\ Last(h.refs) # NullPtr /\ Type(Container(h)) = type
\* The first discarded member of the object around it is removed ...
DropDiscarded(h) ==
    LET members == Data(Container(h))
        gone == SelectSeq(Keys(members), LAMBDA k : Type(members[k]) = "discarded")
    IN  IF IsIn(h, "object") /\ gone # <<>>
        THEN [h EXCEPT !.root = PutAt(@, Into(h), Object(Without(members, gone[1])))]
        ELSE h
FilterEndObject(h, filter) == DropDiscarded(Leave(h, TurnedDown(h, "object_end", filter)))
\* ... and an array that is turned down, from the array around it.
DropLast(h) ==
    IF IsIn(h, "array")
    THEN [h EXCEPT !.root = PutAt(@, Into(h), Array(Front(Data(Container(h)))))] ELSE h
FilterEndArray(h, filter) ==
    IF TurnedDown(h, "array_end", filter) THEN DropLast(Leave(h, TRUE)) ELSE Leave(h, FALSE)
Filtered(h, event, v, filter) ==
    CASE event \in {"object_start", "array_start"} -> FilterStart(h, event, v, filter)
      [] event = "object_end" -> FilterEndObject(h, filter)
      [] event = "array_end" -> FilterEndArray(h, filter)
      [] event = "key" -> FilterKey(h, v, filter)
      [] event = "value" -> FilterValue(h, v, filter)

(***************************************************************************)
(* sax_parse_internal.  states are the containers around the next token;   *)
(* at is what the parser is about to read.                                 *)
(***************************************************************************)
NewHandler == [root |-> Null, refs |-> <<>>, element |-> NullPtr, placed |-> NullPtr,
               keeps |-> <<TRUE>>, keyKeeps |-> <<>>]
Begin(handler) == [at |-> "value", states |-> <<>>, handler |-> handler, built |-> NewHandler,
                   error |-> 0]
Tell(p, event, v) ==
    CASE p.handler = "accept" -> p
      [] p.handler = "dom" -> [p EXCEPT !.built = Dom(@, event, v)]
      [] OTHER -> [p EXCEPT !.built = Filtered(@, event, v, p.handler)]
ParseError(p, e) == [p EXCEPT !.at = "refused", !.error = e]
Await(p, what) == [p EXCEPT !.at = what]

\* A value has been read: what follows depends on what is around it.
Evaluate(p) == Await(p, IF p.states = <<>> THEN "end" ELSE "separator")
Enter(p, state) == [p EXCEPT !.states = Append(@, state)]
Close(p, event) == Evaluate(Tell([p EXCEPT !.states = Front(@)], event, Null))

Opened   == [begin_object |-> "object", begin_array |-> "array"]
StartOf  == [object |-> "object_start", array |-> "array_start"]
EndOf    == [object |-> "object_end", array |-> "array_end"]
EndToken == [object |-> "end_object", array |-> "end_array"]
Empty(what) == IF what = "object" THEN EmptyObject ELSE Array(<<>>)
ParseValue(p, token) ==
    CASE token.kind \in DOMAIN Opened ->
            Await(Tell(p, StartOf[Opened[token.kind]], Empty(Opened[token.kind])),
                  Opened[token.kind])
      [] token.kind = "value_float" /\ ~Finite(Data(token.value)) -> ParseError(p, 406)
      [] token.kind \in {"literal_null", "literal_true", "literal_false", "value_string",
                         "value_integer", "value_unsigned"}
         \/ (token.kind = "value_float" /\ Finite(Data(token.value))) ->
            Evaluate(Tell(p, "value", token.value))
      [] OTHER -> ParseError(p, 101)
ParseKey(p, token) ==
    IF token.kind # "value_string" THEN ParseError(p, 101)
    ELSE Await(Tell(p, "key", token.value), "colon")
\* What is between the begin of a container and its first member, or its end.
ParseFirst(p, token, what) ==
    IF token.kind = EndToken[what] THEN Evaluate(Tell(p, EndOf[what], Null))
    ELSE IF what = "object" THEN ParseKey(Enter(p, what), token)
    ELSE ParseValue(Enter(p, what), token)
ParseColon(p, token) ==
    IF token.kind = "name_separator" THEN Await(p, "value") ELSE ParseError(p, 101)
ParseSeparator(p, token) ==
    CASE token.kind = "value_separator" ->
            Await(p, IF Last(p.states) = "array" THEN "value" ELSE "key")
      [] token.kind = EndToken[Last(p.states)] -> Close(p, EndOf[Last(p.states)])
      [] OTHER -> ParseError(p, 101)
ParseEnd(p, token) ==
    IF token.kind = "end_of_input" THEN Await(p, "accepted") ELSE ParseError(p, 101)

Finished(p) == p.at \in {"accepted", "refused"}
Parse(p, token) ==
    CASE p.at = "value"     -> ParseValue(p, token)
      [] p.at \in {"object", "array"} -> ParseFirst(p, token, p.at)
      [] p.at = "key"       -> ParseKey(p, token)
      [] p.at = "colon"     -> ParseColon(p, token)
      [] p.at = "separator" -> ParseSeparator(p, token)
      [] p.at = "end"       -> ParseEnd(p, token)

\* parse: a value that is discarded as a whole is null.
Result(p) == IF p.at = "refused" THEN Discarded
             ELSE IF Type(p.built.root) = "discarded" THEN Null ELSE p.built.root
=============================================================================
