------------------------------ MODULE JsonEdit ------------------------------
(***************************************************************************)
(* json.hpp's access to the elements of a value and the operations that    *)
(* change it.  The code's references and iterators are paths: the keys of  *)
(* objects and places of arrays (the first is 1) from a value down to one  *)
(* of its elements.                                                        *)
(*                                                                         *)
(* An operation gives a result and the value that it leaves behind, which  *)
(* an exception leaves behind too.                                         *)
(***************************************************************************)
EXTENDS JsonValue

Done(j) == [error |-> 0, value |-> j]
Fails(e, j) == [error |-> e, value |-> j]
Failed(r) == r.error # 0

RECURSIVE GetAt(_, _), PutAt(_, _, _)
GetAt(j, path) == IF path = <<>> THEN j ELSE GetAt(Data(j)[Head(path)], Tail(path))
PutAt(j, path, v) ==
    IF path = <<>> THEN v
    ELSE LET below == PutAt(Data(j)[Head(path)], Tail(path), v)
         IN  IF Type(j) = "object" THEN Object(With(Data(j), Head(path), below))
             ELSE Array([Data(j) EXCEPT ![Head(path)] = below])

Size(j) == CASE IsStructured(j) -> Cardinality(DOMAIN Data(j))
             [] Type(j) = "null" -> 0
             [] OTHER -> 1
\* An element of an object, which is a member of that name, or a null in its place.
Member(f, k) == IF k \in DOMAIN f THEN f[k] ELSE Null
\* What a null is turned into by an operation on arrays, or on objects.
AsArray(j)  == IF Type(j) = "null" THEN Array(<<>>) ELSE j
AsObject(j) == IF Type(j) = "null" THEN EmptyObject ELSE j

(***************************************************************************)
(* Access: at, operator[], value.  Places count from 0, as in the code.    *)
(***************************************************************************)
AtPlace(j, i) ==
    CASE Type(j) # "array" -> Fails(304, j)
      [] Type(j) = "array" /\ i < Size(j) -> Done(Data(j)[i + 1])
      [] OTHER -> Fails(401, j)
AtKey(j, k) ==
    CASE Type(j) # "object" -> Fails(304, j)
      [] Type(j) = "object" /\ k \in DOMAIN Data(j) -> Done(Data(j)[k])
      [] OTHER -> Fails(403, j)

\* operator[] makes the element it refers to, with nulls up to its place.
ReachPlace(j, i) ==
    LET s == Data(AsArray(j))
    IN  IF Type(AsArray(j)) # "array" THEN Fails(305, j)
        ELSE IF i < Len(s) THEN Done(j)
        ELSE Done(Array(s \o [k \in 1 .. i + 1 - Len(s) |-> Null]))
ReachKey(j, k) ==
    LET f == Data(AsObject(j))
    IN  IF Type(AsObject(j)) # "object" THEN Fails(305, j)
        ELSE Done(Object(With(f, k, Member(f, k))))
SetPlace(j, i, v) == LET r == ReachPlace(j, i)
                     IN  IF Failed(r) THEN r ELSE Done(PutAt(r.value, <<i + 1>>, v))
SetKey(j, k, v) == LET r == ReachKey(j, k)
                   IN  IF Failed(r) THEN r ELSE Done(PutAt(r.value, <<k>>, v))

ValueOr(j, k, default) ==
    CASE Type(j) # "object" -> Fails(306, j)
      [] Type(j) = "object" /\ k \in DOMAIN Data(j) -> Done(Data(j)[k])
      [] OTHER -> Done(default)

\* The value made of two iterators of another one: its elements from one place up
\* to before another, or a primitive value as a whole.
FromRange(j, first, last) ==
    LET keys == Keys(Data(j))
    IN  CASE Type(j) = "object" ->
                Done(Object([k \in {keys[i] : i \in first .. last - 1} |-> Data(j)[k]]))
          [] Type(j) = "array" -> Done(Array(SubSeq(Data(j), first, last - 1)))
          [] Type(j) = "null" -> Fails(206, j)
          [] OTHER -> IF first = 1 /\ last = 2 THEN Done(j) ELSE Fails(204, j)

(***************************************************************************)
(* Adding: push_back, emplace_back, emplace, insert, update.  An object    *)
(* keeps the member it has: only update replaces it.                       *)
(***************************************************************************)
PushBack(j, v) == IF Type(AsArray(j)) # "array" THEN Fails(308, j)
                  ELSE Done(Array(Append(Data(AsArray(j)), v)))
Kept(f, k, v) == IF k \in DOMAIN f THEN f ELSE With(f, k, v)
PushMember(j, k, v) == IF Type(AsObject(j)) # "object" THEN Fails(308, j)
                       ELSE Done(Object(Kept(Data(AsObject(j)), k, v)))

\* The value of a list between braces: an object if it is one of pairs that begin
\* with a string.
IsPair(v) == Type(v) = "array" /\ Size(v) = 2 /\ Type(Data(v)[1]) = "string"
FromList(list) ==
    IF \A i \in DOMAIN list : IsPair(list[i])
    THEN Object(FoldLeft(LAMBDA f, v : Kept(f, Data(Data(v)[1]), Data(v)[2]), NoMembers, list))
    ELSE Array(list)
PushList(j, list) ==
    IF Type(j) = "object" /\ Len(list) = 2 /\ Type(list[1]) = "string"
    THEN PushMember(j, Data(list[1]), list[2])
    ELSE PushBack(j, FromList(list))

EmplaceBack(j, v) == IF Type(AsArray(j)) # "array" THEN Fails(311, j)
                     ELSE Done(Array(Append(Data(AsArray(j)), v)))
Emplace(j, k, v) == IF Type(AsObject(j)) # "object" THEN Fails(311, j)
                    ELSE Done(Object(Kept(Data(AsObject(j)), k, v)))

\* Before the place at, which the iterator of the call names.
InsertAll(j, at, s) ==
    IF Type(j) # "array" THEN Fails(309, j)
    ELSE Done(Array(SubSeq(Data(j), 1, at) \o s \o SubSeq(Data(j), at + 1, Size(j))))
Insert(j, at, v) == InsertAll(j, at, <<v>>)
InsertCopies(j, at, n, v) == InsertAll(j, at, [i \in 1 .. n |-> v])
\* The elements of another value, whose iterators are those of an array.
InsertFrom(j, at, other) ==
    IF Type(j) # "array" THEN Fails(309, j) ELSE InsertAll(j, at, Data(other))
InsertMembers(j, other) ==
    CASE Type(j) # "object" -> Fails(309, j)
      [] Type(j) = "object" /\ Type(other) # "object" -> Fails(202, j)
      [] OTHER -> Done(Object(Data(j) @@ Data(other)))

\* A null is an empty object from here on, even if the other value is none.
Update(j, other) ==
    IF Type(AsObject(j)) # "object" \/ Type(other) # "object" THEN Fails(312, AsObject(j))
    ELSE Done(Object(Data(other) @@ Data(AsObject(j))))

(***************************************************************************)
(* Removing: erase, clear.                                                 *)
(***************************************************************************)
\* An iterator's place: of a primitive value the first one or the one past it.
EraseHere(j, at) ==
    CASE Type(j) = "object" -> Done(Object(Without(Data(j), at)))
      [] Type(j) = "array" -> Done(Array(RemoveAt(Data(j), at)))
      [] Type(j) \notin {"object", "array", "null"} /\ at = 1 -> Done(Null)
      [] Type(j) \notin {"object", "array", "null"} /\ at # 1 -> Fails(205, j)
      [] OTHER -> Fails(307, j)
\* The elements from one place up to before another; keys in their order.
EraseRange(j, first, last) ==
    LET keys == Keys(Data(j))
        gone == {keys[i] : i \in first .. last - 1}
    IN  CASE Type(j) = "object" -> Done(Object([k \in DOMAIN Data(j) \ gone |-> Data(j)[k]]))
          [] Type(j) = "array" ->
                Done(Array(SubSeq(Data(j), 1, first - 1) \o SubSeq(Data(j), last, Size(j))))
          [] Type(j) = "null" -> Fails(307, j)
          [] OTHER -> IF first = 1 /\ last = 2 THEN Done(Null) ELSE Fails(204, j)
EraseKey(j, k) == IF Type(j) # "object" THEN Fails(307, j)
                  ELSE Done(Object(Without(Data(j), k)))
ErasePlace(j, i) ==
    CASE Type(j) # "array" -> Fails(307, j)
      [] Type(j) = "array" /\ i < Size(j) -> Done(Array(RemoveAt(Data(j), i + 1)))
      [] OTHER -> Fails(401, j)

Clear(j) ==
    CASE Type(j) \in {"integer", "unsigned", "float"} -> Done(<<Type(j), Word(0)>>)
      [] Type(j) = "boolean" -> Done(Boolean(FALSE))
      [] Type(j) \in {"string", "array"} -> Done(<<Type(j), <<>>>>)
      [] Type(j) = "object" -> Done(EmptyObject)
      [] OTHER -> Done(j)

\* Exchanging a container, or a string, with one that is no value itself.
Swap(j, type, data) == IF Type(j) # type THEN Fails(310, j) ELSE Done(<<type, data>>)
=============================================================================
