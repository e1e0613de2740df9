---------------------------- MODULE JsonPointer ----------------------------
(***************************************************************************)
(* json.hpp's JSON pointers (RFC 6901), flatten, patch (RFC 6902), diff    *)
(* and merge_patch (RFC 7386).  A pointer is the sequence of its reference *)
(* tokens, each the sequence of its bytes, or the number of the exception  *)
(* that its text is refused with.                                          *)
(***************************************************************************)
EXTENDS JsonEdit

Slash == 47
Tilde == 126
Dash  == <<45>>
Zero  == <<48>>
Numeral == 48 .. 57
Space == {32} \cup 9 .. 13

(***************************************************************************)
(* escape, unescape, split.                                                *)
(***************************************************************************)
\* As if the slashes were escaped first and their tildes then once more.
EscapeSlashFirst(key) ==
    LET Of(c) == CASE c = Tilde -> <<Tilde, 48>> [] c = Slash -> <<Tilde, 48, 49>>
                   [] OTHER -> <<c>>
    IN  FoldLeft(LAMBDA s, c : s \o Of(c), <<>>, key)
\* replace_substring for every tilde, and then for every slash.
EscapeToken(key) == LET Of(c) == CASE c = Tilde -> <<Tilde, 48>> [] c = Slash -> <<Tilde, 49>>
                              [] OTHER -> <<c>>
               IN  FoldLeft(LAMBDA s, c : s \o Of(c), <<>>, key)
RECURSIVE Replaced(_, _, _)
Replaced(s, pair, by) ==
    CASE Len(s) < 2 -> s
      [] Len(s) >= 2 /\ SubSeq(s, 1, 2) = pair -> <<by>> \o Replaced(SubSeq(s, 3, Len(s)), pair, by)
      [] OTHER -> <<s[1]>> \o Replaced(Tail(s), pair, by)
UnescapeToken(token) == Replaced(Replaced(token, <<Tilde, 49>>, Slash), <<Tilde, 48>>, Tilde)
Misescaped(token) ==
    \E i \in DOMAIN token : /\ token[i] = Tilde
                            /\ i = Len(token) \/ token[i + 1] \notin {48, 49}

Pointer(tokens) == [tokens |-> tokens, error |-> 0]
NoPointer(e) == [tokens |-> <<>>, error |-> e]
Unescaping(tokens) ==
    IF \E i \in DOMAIN tokens : Misescaped(tokens[i]) THEN NoPointer(108)
    ELSE Pointer([i \in DOMAIN tokens |-> UnescapeToken(tokens[i])])
TokensAt(text, slashes) ==
    [i \in DOMAIN slashes |->
        SubSeq(text, slashes[i] + 1, Append(Tail(slashes), Len(text) + 1)[i] - 1)]
Split(text) ==
    CASE text = <<>> -> Pointer(<<>>)
      [] text # <<>> /\ text[1] # Slash -> NoPointer(107)
      [] OTHER -> Unescaping(
                     TokensAt(text, SetToSortSeq({i \in DOMAIN text : text[i] = Slash}, <)))

(***************************************************************************)
(* array_index: the number a token begins with (std::stoi, which skips     *)
(* blanks), which has to be the whole of it.  A number below zero is a     *)
(* place beyond every array.                                               *)
(***************************************************************************)
Invalid == 109           \* std::invalid_argument, which get_* turn into 109
Beyond == Huge
FirstNot(s, set) == CHOOSE i \in 1 .. Len(s) + 1 : /\ \A k \in 1 .. i - 1 : s[k] \in set
                                                   /\ i <= Len(s) => s[i] \notin set
IndexOf(digits, negative) ==
    LET n == FoldLeft(LAMBDA m, c : IF m < Huge \div 10 THEN 10 * m + c - 48 ELSE Huge, 0, digits)
    IN  CASE digits = <<>> \/ digits[1] \notin Numeral -> [error |-> Invalid, value |-> 0]
          [] digits # <<>> /\ digits[1] \in Numeral /\ Range(digits) \subseteq Numeral ->
                [error |-> 0, value |-> IF negative /\ n > 0 THEN Beyond ELSE n]
          [] OTHER -> [error |-> 404, value |-> 0]
IndexAfterSign(text) ==
    IF text # <<>> /\ text[1] \in {43, 45} THEN IndexOf(Tail(text), text[1] = 45)
    ELSE IndexOf(text, FALSE)
ArrayIndex(token) == IndexAfterSign(SubSeq(token, FirstNot(token, Space), Len(token)))
LeadingZero(token) == Len(token) > 1 /\ token[1] = 48

(***************************************************************************)
(* get_unchecked, get_and_create, get_checked: the path that a pointer     *)
(* leads to.  The first two make what is missing on the way.  The result   *)
(* is the path, the value there, and the whole value left behind.          *)
(***************************************************************************)
Found(path, j) == [error |-> 0, path |-> path, value |-> j]
Lost(e, path, j) == [error |-> e, path |-> path, value |-> j]

\* A step to a member, or to a place which the array is filled up to.
ToMember(r, k) ==
    Found(Append(r.path, k), PutAt(r.value, r.path, ReachKey(GetAt(r.value, r.path), k).value))
ToPlace(r, i) ==
    Found(Append(r.path, i + 1),
          PutAt(r.value, r.path, ReachPlace(GetAt(r.value, r.path), i).value))

ToIndex(r, place) == IF Failed(place) THEN Lost(place.error, r.path, r.value)
                      ELSE ToPlace(r, place.value)

AllDigits(token) == \A i \in DOMAIN token : token[i] \in Numeral
\* The container that a null becomes on the way to a token.
MadeFor(j, token) ==
    IF Type(j) = "null" /\ (AllDigits(token) \/ token = Dash) THEN Array(<<>>) ELSE AsObject(j)
StepInto(r, here, token) ==
    CASE Type(here) = "object" -> ToMember(r, token)
      [] Type(here) = "array" -> IF LeadingZero(token) THEN Lost(106, r.path, r.value)
                                 ELSE IF token = Dash THEN ToPlace(r, Size(here))
                                 ELSE ToIndex(r, ArrayIndex(token))
      [] OTHER -> Lost(404, r.path, r.value)
StepUnchecked(r, token) ==
    LET here == MadeFor(GetAt(r.value, r.path), token)
    IN  StepInto([r EXCEPT !.value = PutAt(@, r.path, here)], here, token)
StepCreating(r, token) ==
    LET type == Type(GetAt(r.value, r.path))
    IN  CASE type = "null" -> IF token = Zero THEN ToPlace(r, 0) ELSE ToMember(r, token)
          [] type = "object" -> ToMember(r, token)
          [] type = "array" -> ToIndex(r, ArrayIndex(token))
          [] OTHER -> Lost(313, r.path, r.value)
StepTo(r, here, place) ==
    CASE Failed(place) -> Lost(place.error, r.path, r.value)
      [] ~Failed(place) /\ place.value >= Size(here) -> Lost(401, r.path, r.value)
      [] OTHER -> Found(Append(r.path, place.value + 1), r.value)
StepChecked(r, token) ==
    LET here == GetAt(r.value, r.path)
    IN  CASE Type(here) = "object" ->
                IF token \in DOMAIN Data(here) THEN Found(Append(r.path, token), r.value)
                ELSE Lost(403, r.path, r.value)
          [] Type(here) = "array" ->
                IF token = Dash THEN Lost(402, r.path, r.value)
                ELSE IF LeadingZero(token) THEN Lost(106, r.path, r.value)
                ELSE StepTo(r, here, ArrayIndex(token))
          [] OTHER -> Lost(404, r.path, r.value)

Walk(j, tokens, Step(_, _)) ==
    FoldLeft(LAMBDA r, token : IF Failed(r) THEN r ELSE Step(r, token), Found(<<>>, j), tokens)
GetUnchecked(j, tokens) == Walk(j, tokens, StepUnchecked)
GetAndCreate(j, tokens) == Walk(j, tokens, StepCreating)
GetChecked(j, tokens) == Walk(j, tokens, StepChecked)

\* What follows is done with a result, unless that is a failure.
OrFail(r, j, Next(_)) == IF Failed(r) THEN Fails(r.error, j) ELSE Next(r)

\* j[pointer] = v, and the value there or, if it is missing, another one.
AssignAt(r, v) == IF Failed(r) THEN Fails(r.error, r.value) ELSE Done(PutAt(r.value, r.path, v))
Assign(j, tokens, v) == AssignAt(GetUnchecked(j, tokens), v)
OutOfRange == 401 .. 404
ValueAtPath(j, r, default) ==
    CASE r.error \in OutOfRange -> Done(default)
      [] r.error = 0 -> Done(GetAt(j, r.path))
      [] OTHER -> Fails(r.error, j)
ValueAt(j, tokens, default) ==
    IF Type(j) # "object" THEN Fails(306, j) ELSE ValueAtPath(j, GetChecked(j, tokens), default)

(***************************************************************************)
(* flatten and unflatten.                                                  *)
(***************************************************************************)
RECURSIVE DecimalText(_)
DecimalText(n) == (IF n < 10 THEN <<>> ELSE DecimalText(n \div 10)) \o <<48 + (n % 10)>>
Below(path, token) == path \o <<Slash>> \o token
IndexToken(i) == DecimalText(i - 1)

RECURSIVE FlattenInto(_, _, _)
FlattenInto(path, j, f) ==
    CASE IsStructured(j) /\ Size(j) = 0 -> With(f, path, Null)
      [] Type(j) = "array" /\ Size(j) > 0 ->
            FoldLeft(LAMBDA g, i : FlattenInto(Below(path, IndexToken(i)), Data(j)[i], g), f,
                     [i \in DOMAIN Data(j) |-> i])
      [] Type(j) = "object" /\ Size(j) > 0 ->
            FoldLeft(LAMBDA g, k : FlattenInto(Below(path, EscapeToken(k)), Data(j)[k], g), f,
                     Keys(Data(j)))
      [] OTHER -> With(f, path, j)
Flatten(j) == Object(FlattenInto(<<>>, j, NoMembers))

Put(result, pointer, v) ==
    CASE Failed(result) -> result
      [] ~Failed(result) /\ IsStructured(v) -> Fails(315, Null)
      [] ~Failed(result) /\ ~IsStructured(v) /\ Failed(pointer) -> Fails(pointer.error, Null)
      [] OTHER -> OrFail(GetAndCreate(result.value, pointer.tokens), Null,
                         LAMBDA r : Done(PutAt(r.value, r.path, v)))
Unflatten(j) ==
    IF Type(j) # "object" THEN Fails(314, Null)
    ELSE FoldLeft(LAMBDA result, k : Put(result, Split(k), Data(j)[k]), Done(Null), Keys(Data(j)))

(***************************************************************************)
(* patch: a copy of the value is changed, by one operation after another.  *)
(***************************************************************************)
OpName  == <<111, 112>>
OpPath  == <<112, 97, 116, 104>>
OpFrom  == <<102, 114, 111, 109>>
OpValue == <<118, 97, 108, 117, 101>>
OpAdd     == <<97, 100, 100>>
OpRemove  == <<114, 101, 109, 111, 118, 101>>
OpReplace == <<114, 101, 112, 108, 97, 99, 101>>
OpMove    == <<109, 111, 118, 101>>
OpCopy    == <<99, 111, 112, 121>>
OpTest    == <<116, 101, 115, 116>>

Abort == 1               \* assert(false): the program ends
AddAtIndex(parent, i, v) ==
    IF i > Size(parent) THEN Fails(401, parent) ELSE Insert(parent, i, v)
AddTo(parent, token, v) ==
    CASE Type(parent) \in {"null", "object"} -> SetKey(parent, token, v)
      [] Type(parent) = "array" /\ token = Dash -> PushBack(parent, v)
      [] Type(parent) = "array" /\ token # Dash ->
            OrFail(ArrayIndex(token), parent, LAMBDA i : AddAtIndex(parent, i.value, v))
      [] OTHER -> Fails(Abort, parent)
\* The document j with the result of an operation on the element at a path of another.
Replacing(j, r, changed) ==
    OrFail(changed, j, LAMBDA c : Done(PutAt(r.value, r.path, c.value)))
OperationAdd(j, tokens, v) ==
    IF tokens = <<>> THEN Done(v)
    ELSE OrFail(IF Len(tokens) = 1 THEN Done(j) ELSE GetChecked(j, <<tokens[1]>>), j, LAMBDA top :
             OrFail(GetUnchecked(j, Front(tokens)), j, LAMBDA r :
                 Replacing(j, r, AddTo(GetAt(r.value, r.path), Last(tokens), v))))

\* Of a parent that is no container nothing is removed.
RemoveFrom(parent, token) ==
    CASE Type(parent) = "object" ->
            IF token \in DOMAIN Data(parent) THEN EraseKey(parent, token)
            ELSE Fails(403, parent)
      [] Type(parent) = "array" ->
            OrFail(ArrayIndex(token), parent, LAMBDA i : ErasePlace(parent, i.value))
      [] OTHER -> Done(parent)
OperationRemove(j, tokens) ==
    IF tokens = <<>> THEN Fails(405, j)
    ELSE OrFail(GetChecked(j, Front(tokens)), j, LAMBDA r :
             Replacing(j, r, RemoveFrom(GetAt(j, r.path), Last(tokens))))

OperationReplace(j, tokens, op) ==
    IF OpValue \notin DOMAIN op THEN Fails(105, j)
    ELSE OrFail(GetChecked(j, tokens), j, LAMBDA r : Done(PutAt(j, r.path, op[OpValue])))
\* move is a copy after which what was copied is removed, before it is added.
OperationCopy(j, tokens, from, move) ==
    OrFail(from, j, LAMBDA f :
        OrFail(GetChecked(j, f.tokens), j, LAMBDA r :
            OrFail(IF move THEN OperationRemove(j, f.tokens) ELSE Done(j), j, LAMBDA left :
                OperationAdd(left.value, tokens, GetAt(j, r.path)))))
Test(j, r, op) ==
    CASE r.error # 0 /\ r.error \notin OutOfRange -> Fails(r.error, j)
      [] r.error = 0 /\ OpValue \notin DOMAIN op -> Fails(105, j)
      [] r.error = 0 /\ OpValue \in DOMAIN op /\ Equal(GetAt(j, r.path), op[OpValue]) -> Done(j)
      [] OTHER -> Fails(501, j)

Texts(op) == {k \in DOMAIN op : Type(op[k]) = "string"}
Change(j, op, name, tokens) ==
    CASE name = OpAdd -> IF OpValue \notin DOMAIN op THEN Fails(105, j)
                         ELSE OperationAdd(j, tokens, op[OpValue])
      [] name = OpRemove -> OperationRemove(j, tokens)
      [] name = OpReplace -> OperationReplace(j, tokens, op)
      [] name \in {OpMove, OpCopy} ->
            IF OpFrom \notin Texts(op) THEN Fails(105, j)
            ELSE OperationCopy(j, tokens, Split(Data(op[OpFrom])), name = OpMove)
      [] name = OpTest -> Test(j, GetChecked(j, tokens), op)
      [] OTHER -> Fails(105, j)
Operation(j, val) ==
    LET op == Data(val)
    IN  IF Type(val) # "object" THEN Fails(104, j)
        ELSE IF ~({OpName, OpPath} \subseteq Texts(op)) THEN Fails(105, j)
        ELSE OrFail(Split(Data(op[OpPath])), j, LAMBDA path :
                 Change(j, op, Data(op[OpName]), path.tokens))
Operations(j, patch) ==
    FoldLeft(LAMBDA s, val : IF Failed(s) THEN s ELSE Operation(s.value, val), Done(j), Data(patch))
\* The same without the copy.
PatchInPlace(j, patch) ==
    IF Type(patch) # "array" THEN Fails(104, j) ELSE Operations(j, patch)
Patch(j, patch) ==
    IF Type(patch) # "array" THEN Fails(104, j)
    ELSE OrFail(Operations(j, patch), j, LAMBDA r : r)

(***************************************************************************)
(* diff: the patch from one value to another.                              *)
(***************************************************************************)
PatchReplace(path, v) ==
    Object((OpName :> String(OpReplace)) @@ (OpPath :> String(path)) @@ (OpValue :> v))
PatchAdd(path, v) ==
    Object((OpName :> String(OpAdd)) @@ (OpPath :> String(path)) @@ (OpValue :> v))
PatchRemove(path) == Object((OpName :> String(OpRemove)) @@ (OpPath :> String(path)))

RECURSIVE DiffFrom(_, _, _)
\* The same for elements that are removed from the first one on.
DiffArraysForward(s, t, path) ==
    LET common == 1 .. (IF Len(s) < Len(t) THEN Len(s) ELSE Len(t))
        n == Cardinality(common)
    IN  FlattenSeq([i \in common |-> DiffFrom(s[i], t[i], Below(path, IndexToken(i)))])
        \o [i \in 1 .. Len(s) - n |-> PatchRemove(Below(path, IndexToken(n + i)))]
        \o [i \in 1 .. Len(t) - n |-> PatchAdd(Below(path, IndexToken(n + i)), t[n + i])]
DiffArrays(s, t, path) ==
    LET common == 1 .. (IF Len(s) < Len(t) THEN Len(s) ELSE Len(t))
        n == Cardinality(common)
    IN  FlattenSeq([i \in common |-> DiffFrom(s[i], t[i], Below(path, IndexToken(i)))])
        \o Reverse([i \in 1 .. Len(s) - n |-> PatchRemove(Below(path, IndexToken(n + i)))])
        \o [i \in 1 .. Len(t) - n |-> PatchAdd(Below(path, IndexToken(n + i)), t[n + i])]
DiffObjects(f, g, path) ==
    LET ours == Keys(f)
        theirs == Keys([k \in DOMAIN g \ DOMAIN f |-> g[k]])
        From(k) == IF k \in DOMAIN g THEN DiffFrom(f[k], g[k], Below(path, EscapeToken(k)))
                   ELSE <<PatchRemove(Below(path, EscapeToken(k)))>>
    IN  FlattenSeq([i \in DOMAIN ours |-> From(ours[i])])
        \o [i \in DOMAIN theirs |-> PatchAdd(Below(path, EscapeToken(theirs[i])), g[theirs[i]])]
DiffFrom(j, k, path) ==
    CASE Equal(j, k) -> <<>>
      [] ~Equal(j, k) /\ Type(j) = "array" /\ Type(k) = "array" ->
            DiffArrays(Data(j), Data(k), path)
      [] ~Equal(j, k) /\ Type(j) = "object" /\ Type(k) = "object" ->
            DiffObjects(Data(j), Data(k), path)
      [] OTHER -> <<PatchReplace(path, k)>>
Diff(j, k) == Array(DiffFrom(j, k, <<>>))

(***************************************************************************)
(* merge_patch: what a patch says null of is erased.                       *)
(***************************************************************************)
RECURSIVE MergePatch(_, _)
MergePatch(j, patch) ==
    LET members == IF Type(j) = "object" THEN Data(j) ELSE NoMembers
        Merge(f, k) == IF Type(Data(patch)[k]) = "null" THEN Without(f, k)
                       ELSE With(f, k, MergePatch(Member(f, k), Data(patch)[k]))
    IN  IF Type(patch) # "object" THEN patch
        ELSE Object(FoldLeft(Merge, members, Keys(Data(patch))))
=============================================================================
