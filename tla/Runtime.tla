------------------------------ MODULE Runtime ------------------------------
(***************************************************************************)
(* The meaning of a compiled assertion: the three-valued operators that    *)
(* compiler/runtime.rego copies into every generated module.               *)
(*                                                                         *)
(* A JSON value is a pair of its kind and its content: a number, string or *)
(* boolean by its rank among its kind, an array by the sequence of its     *)
(* elements, an object by a function from its keys.  The two markers an    *)
(* input may hold are kinds of their own; an "unknown" marker's content is *)
(* its reason.  The observations beside a status are left out, but for the *)
(* operand that a result was unknown for.                                  *)
(***************************************************************************)
EXTENDS Integers, Sequences, SequencesExt

Null == <<"null", 0>>
Number(n) == <<"number", n>>
Text(n) == <<"string", n>>
Boolean(b) == <<"boolean", IF b THEN 1 ELSE 0>>
Array(s) == <<"array", s>>
Object(f) == <<"object", f>>
Redacted == <<"redacted", 0>>
Marker(reason) == <<"unknown", reason>>

IsArray(v) == v[1] = "array"
IsObject(v) == v[1] = "object"
Sentinel(v) == v[1] \in {"redacted", "unknown"}
SentinelReason(v) == IF v[1] = "redacted" THEN "redacted" ELSE v[2]

-----------------------------------------------------------------------------
(* Operands.                                                               *)

Nothing == <<>>
Known(path, value) == [known |-> TRUE, path |-> path, value |-> value]
Unresolved(path, reason) == [known |-> FALSE, path |-> path, reason |-> reason]
Literal(value) == Known(Nothing, value)

\* An operand is unknown once a marker is met, and stays so.
Met(o) ==
    IF o.known /\ Sentinel(o.value) THEN Unresolved(o.path, SentinelReason(o.value)) ELSE o

Named(o, name) ==
    Met(IF ~o.known THEN o
        ELSE IF IsObject(o.value) /\ name \in DOMAIN o.value[2]
        THEN Known(o.path, o.value[2][name])
        ELSE Unresolved(o.path, "path_missing"))

\* A path's names under a root, one after another.
Resolve(root, path, segments) ==
    LET at[i \in 0..Len(segments)] ==
            IF i = 0 THEN Met(Known(path, root)) ELSE Named(at[i - 1], segments[i])
    IN  at[Len(segments)]

Lookup(facts, path) == Resolve(facts, path, path)
LookupItem(item, path) == Resolve(item, path, Tail(path))

-----------------------------------------------------------------------------
(* Comparisons, total over known values.                                   *)

ListOperators == {"in", "not_in"}

Comparable(left, right) == left[1] = right[1] /\ left[1] \in {"number", "string"}
Member(left, right) == IsArray(right) /\ \E i \in DOMAIN right[2] : right[2][i] = left

Compare(op, left, right) ==
    CASE op = "equal"     -> left = right
      [] op = "not_equal" -> left # right
      [] op = "greater_than" -> Comparable(left, right) /\ left[2] > right[2]
      [] op = "greater_than_or_equal" -> Comparable(left, right) /\ left[2] >= right[2]
      [] op = "less_than" -> Comparable(left, right) /\ left[2] < right[2]
      [] op = "less_than_or_equal" -> Comparable(left, right) /\ left[2] <= right[2]
      [] op = "in"        -> Member(left, right)
      [] op = "not_in"    -> ~Member(left, right)
      [] op = "contains"  -> Member(right, left)

-----------------------------------------------------------------------------
(* Results: a status, and the operand it is unknown for.                   *)

Status == {"true", "false", "unknown"}
Decided(holds) == [status |-> IF holds THEN "true" ELSE "false", unknown |-> Nothing]
UnknownFor(path, reason) == [status |-> "unknown", unknown |-> <<path, reason>>]
True == Decided(TRUE)

\* Mutant: the value is blamed for a reference that is not known.
PredicateBlamesTheValue(op, left, right) ==
    IF ~left.known THEN UnknownFor(left.path, left.reason)
    ELSE IF ~right.known THEN UnknownFor(left.path, right.reason)
    ELSE IF op \in ListOperators /\ right.path # Nothing /\ ~IsArray(right.value)
    THEN UnknownFor(right.path, "not_a_list")
    ELSE Decided(Compare(op, left.value, right.value))

Predicate(op, left, right) ==
    IF ~left.known THEN UnknownFor(left.path, left.reason)
    ELSE IF ~right.known THEN UnknownFor(right.path, right.reason)
    ELSE IF op \in ListOperators /\ right.path # Nothing /\ ~IsArray(right.value)
    THEN UnknownFor(right.path, "not_a_list")
    ELSE Decided(Compare(op, left.value, right.value))

Some(results, status) == \E i \in DOMAIN results : results[i].status = status
FirstUnknown(results) ==
    results[CHOOSE i \in DOMAIN results :
              /\ results[i].status = "unknown"
              /\ \A j \in DOMAIN results : results[j].status = "unknown" => i <= j]

AllOf(results) ==
    IF Some(results, "false") THEN Decided(FALSE)
    ELSE IF Some(results, "unknown") THEN FirstUnknown(results)
    ELSE True

AnyOf(results) ==
    IF Some(results, "true") THEN True
    ELSE IF Some(results, "unknown") THEN FirstUnknown(results)
    ELSE Decided(FALSE)

NotOf(result) ==
    CASE result.status = "true" -> Decided(FALSE)
      [] result.status = "false" -> Decided(TRUE)
      [] OTHER -> result

\* The elements of a collection that is known and is a list.
Elements(collection) ==
    IF collection.known /\ IsArray(collection.value) THEN collection.value[2] ELSE <<>>

\* Mutant: an element that is not known is one that does not match.
ExistsOfKnown(collection, results) ==
    IF ~collection.known THEN UnknownFor(collection.path, collection.reason)
    ELSE Decided(Some(results, "true"))

ExistsOf(collection, results) ==
    IF ~collection.known THEN UnknownFor(collection.path, collection.reason)
    ELSE IF ~IsArray(collection.value) THEN UnknownFor(collection.path, "not_a_list")
    ELSE IF Some(results, "true") THEN True
    ELSE IF Some(results, "unknown") THEN FirstUnknown(results)
    ELSE Decided(FALSE)

-----------------------------------------------------------------------------
(* The answer for the subject the input describes.                         *)

Answer == {"pass", "fail", "unknown", "not_applicable"}

\* Mutant: an assertion is out of scope unless its guard holds.
AnswerUnlessGuarded(guard, check) ==
    IF guard.status # "true" THEN "not_applicable"
    ELSE CASE check.status = "true" -> "pass"
           [] check.status = "false" -> "fail"
           [] OTHER -> "unknown"

AnswerOf(guard, check) ==
    CASE guard.status = "false" -> "not_applicable"
      [] guard.status = "unknown" -> "unknown"
      [] guard.status = "true" ->
            CASE check.status = "true" -> "pass"
              [] check.status = "false" -> "fail"
              [] OTHER -> "unknown"
=============================================================================
