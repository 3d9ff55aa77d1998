----------------------------- MODULE Evaluation -----------------------------
(***************************************************************************)
(* What a compiled assertion answers (ast/parse.py, ast/scope.py,          *)
(* compiler/emit.py), and what becomes of the answer as the facts it was   *)
(* given get known.                                                        *)
(*                                                                         *)
(* An expression is the tuple of its kind and its parts, as ast/nodes.py   *)
(* lists them.  Some facts of an input may be hidden: a run Iltero         *)
(* Platform did not open does not know whether its environment is          *)
(* production, an adapter may lack a type's kind, facts may not be served, *)
(* a value may be redacted.  A subject gives the input for every set of    *)
(* facts that are; hiding one fewer gives the input a better informed run  *)
(* would have evaluated.                                                   *)
(***************************************************************************)
EXTENDS Runtime

CONSTANTS
    \* Records of an assertion's selectors, its `when` (an expression or none) and its check.
    Assertions,
    \* Their expressions and how deep each nests, at most MaxDepth.
    Expressions, Depth, MaxDepth,
    \* Pairs of an expression and an item it may be evaluated for; Null outside a `where`.
    Places,
    \* The JSON values an input may hold, and those of them that hold no marker.
    Json, Plain,
    \* Pairs of a value and one a better informed input may hold in its place.
    Reveals,
    \* Functions from the hidden facts to the input.
    Subjects,
    \* The names of the facts that may be hidden.
    Holes

VARIABLES
    subject,
    \* The facts that are still hidden.
    hidden,
    \* The input of the run, and its answer to each assertion.
    input,
    answer

vars == <<subject, hidden, input, answer>>

-----------------------------------------------------------------------------
(* The expressions of the language.                                        *)

Lit(value) == <<"literal", value>>
Ref(path) == <<"path", path>>
Pred(path, op, operand) == <<"predicate", path, op, operand>>
AllExpr(args) == <<"all", args>>
AnyExpr(args) == <<"any", args>>
NotExpr(arg) == <<"not", arg>>
\* With no `where`, "where" is the empty sequence.
Exists(collection, where) == <<"exists", collection, where>>

Path == Seq(STRING) \ {<<>>}

PartsOf(expr) ==
    CASE expr[1] \in {"all", "any"} -> { expr[2][i] : i \in DOMAIN expr[2] }
      [] expr[1] = "not" -> {expr[2]}
      [] expr[1] = "exists" -> { expr[3][i] : i \in DOMAIN expr[3] }
      [] expr[1] = "predicate" -> {}

\* What the parser accepts, but for the parts.
Parsed(expr) ==
    \/ /\ expr[1] = "predicate"
       /\ expr[2] \in Path
       /\ \/ expr[4][1] = "literal"
          \/ expr[4][1] = "path" /\ expr[4][2] \in Path
    \/ expr[1] \in {"all", "any"} /\ expr[2] \in Seq(PartsOf(expr)) \ {<<>>}
    \/ expr[1] = "not"
    \/ expr[1] = "exists" /\ expr[2] \in Path /\ expr[3] \in {<<>>} \union {<<p>> : p \in PartsOf(expr)}

-----------------------------------------------------------------------------
(* The scope guard of a target's selectors.                                *)

Picks(selector) ==
    Exists(<<"change", "resources">>,
           <<AllExpr(<<Pred(<<"item", "provider">>, "equal", Lit(selector.provider)),
                   Pred(<<"item", "kind">>, "in", Lit(Array(selector.kinds)))>>)>>)

ScopeGuard(selectors) ==
    CASE Len(selectors) = 0 -> <<>>
      [] Len(selectors) = 1 -> <<Picks(selectors[1])>>
      [] OTHER -> <<AnyExpr([i \in DOMAIN selectors |-> Picks(selectors[i])])>>

\* Mutant: an author's `when` takes the place of the scope guard.
GuardedByWhen(scope, when) == IF when # <<>> THEN when ELSE scope

\* The target's scope guard, then the author's `when`, whichever are present.
Guarded(scope, when) ==
    IF scope = <<>> THEN when
    ELSE IF when = <<>> THEN scope
    ELSE <<AllExpr(<<scope[1], when[1]>>)>>

GuardOf(assertion) == Guarded(ScopeGuard(assertion.selectors), assertion.when)

-----------------------------------------------------------------------------
(* What a compiled expression evaluates to.                                *)

LookupPath(path, facts, item) ==
    IF path[1] = "item" THEN LookupItem(item, path) ELSE Lookup(facts, path)

Operand(operand, facts, item) ==
    IF operand[1] = "literal" THEN Literal(operand[2]) ELSE LookupPath(operand[2], facts, item)

\* The elements an `exists` asks its `where` of.
ElementsOf(expr, facts, item) == Elements(LookupPath(expr[2], facts, item))

\* The results of some arguments for an item, and of a `where` for some elements.
Each(results, args, item) == [i \in DOMAIN args |-> results[<<args[i], item>>]]
EachElement(results, where, elements) ==
    [i \in DOMAIN elements |-> IF where = <<>> THEN True ELSE results[<<where[1], elements[i]>>]]

\* The result of an expression for an item, from the results of its parts.
Result(results, facts, expr, item) ==
    CASE expr[1] = "predicate" ->
            Predicate(expr[3], LookupPath(expr[2], facts, item), Operand(expr[4], facts, item))
      [] expr[1] = "all" -> AllOf(Each(results, expr[2], item))
      [] expr[1] = "any" -> AnyOf(Each(results, expr[2], item))
      [] expr[1] = "not" -> NotOf(results[<<expr[2], item>>])
      [] expr[1] = "exists" ->
            ExistsOf(LookupPath(expr[2], facts, item),
                     EachElement(results, expr[3], ElementsOf(expr, facts, item)))

Eval(facts) ==
    LET results[place \in Places] == Result(results, facts, place[1], place[2])
    IN  results

\* The module's two results: its guard and its check.
Guard(assertion, facts) ==
    IF GuardOf(assertion) = <<>> THEN True ELSE Eval(facts)[<<GuardOf(assertion)[1], Null>>]
Check(assertion, facts) == Eval(facts)[<<assertion.check, Null>>]

\* What the module answers, and the operand it says an answer is unknown for.
Evaluate(assertion, facts) ==
    LET guard == Guard(assertion, facts)
        check == Check(assertion, facts)
    IN  [status |-> AnswerOf(guard, check),
         unknown |-> CASE guard.status = "unknown" -> guard.unknown
                       [] guard.status = "true" -> check.unknown
                       [] OTHER -> Nothing]

-----------------------------------------------------------------------------
(* What the constants are assumed to be.                                   *)

Inputs == { s[unknown] : s \in Subjects, unknown \in SUBSET Holes }

\* Every part of a value of a set of JSON values is in it.
Closed(S) ==
    \A v \in S : /\ IsArray(v) => v[2] \in Seq(S)
                 /\ IsObject(v) => \A k \in DOMAIN v[2] : v[2][k] \in S

\* The items the parts of an expression are asked about.
Asked(expr, facts, item) ==
    IF expr[1] = "exists"
    THEN LET elements == ElementsOf(expr, facts, item) IN { elements[i] : i \in DOMAIN elements }
    ELSE {item}

\* The parser bounds how deep an assertion nests; its parts nest less.
ASSUME ExpressionsAssumption ==
    /\ MaxDepth \in Nat /\ Depth \in [Expressions -> 0..MaxDepth]
    /\ \A expr \in Expressions :
          Parsed(expr) /\ \A part \in PartsOf(expr) : part \in Expressions /\ Depth[part] < Depth[expr]
    /\ Places \subseteq Expressions \X Json
    /\ \A place \in Places, facts \in Inputs :
          \A part \in PartsOf(place[1]), item \in Asked(place[1], facts, place[2]) :
              <<part, item>> \in Places
    /\ \A a \in Assertions :
          /\ a.selectors \in Seq([provider : Json, kinds : Seq(Json)])
          /\ GuardOf(a) = <<>> \/ <<GuardOf(a)[1], Null>> \in Places
          /\ <<a.check, Null>> \in Places

\* What replaces a value has its shape, but for a marker, which may become anything.
ASSUME InputsAssumption ==
    /\ Closed(Json)
    /\ Closed(Plain) /\ Null \in Plain /\ \A v \in Plain : ~Sentinel(v)
    /\ Reveals \subseteq Json \X Json
    /\ \A r \in Reveals :
          LET v == r[1]
              w == r[2] IN
          /\ v \in Plain => w = v
          /\ ~Sentinel(v) => v[1] = w[1]
          /\ IsArray(v) => /\ Len(v[2]) = Len(w[2])
                           /\ \A i \in DOMAIN v[2] : <<v[2][i], w[2][i]>> \in Reveals
          /\ IsObject(v) => /\ DOMAIN v[2] = DOMAIN w[2]
                            /\ \A k \in DOMAIN v[2] : <<v[2][k], w[2][k]>> \in Reveals
    /\ \A s \in Subjects :
          /\ s \in [SUBSET Holes -> Json] /\ s[{}] \in Plain
          /\ \A unknown \in SUBSET Holes : \A hole \in unknown :
                <<s[unknown], s[unknown \ {hole}]>> \in Reveals

-----------------------------------------------------------------------------
(* The runs.                                                               *)

\* One run: it evaluates every assertion over what it knows.
RunOver(unknown) ==
    /\ hidden' = unknown
    /\ input' = subject[unknown]
    /\ answer' = [a \in Assertions |-> Evaluate(a, input')]
    /\ UNCHANGED subject

Init ==
    /\ subject \in Subjects
    /\ hidden = Holes
    /\ input = subject[Holes]
    /\ answer = [a \in Assertions |-> Evaluate(a, input)]

\* A better informed run of the same assertions.
Reveal(hole) == hole \in hidden /\ RunOver(hidden \ {hole})

Next == \E hole \in Holes : Reveal(hole)
Spec == Init /\ [][Next]_vars

-----------------------------------------------------------------------------
(* Properties.                                                             *)

\* No predicate reads a value that holds a marker inside it.  Where one does,
\* an answer may be decided without it: the run marker_in_list shows how.
OperandsAreWhole(places) ==
    \A place \in places, facts \in Inputs :
        LET expr == place[1]
            read == LookupPath(expr[2], facts, place[2])
            operand == Operand(expr[4], facts, place[2])
        IN  expr[1] = "predicate" =>
              /\ read.known => read.value \in Plain
              /\ expr[4][1] = "path" /\ operand.known => operand.value \in Plain

\* An answer that is not unknown is the answer whatever the hidden facts are:
\* learning one never turns a pass, a fail or a not_applicable into anything else.
AnswersStand ==
    [][\A a \in Assertions : answer[a].status \in {"unknown", answer'[a].status}]_vars

\* The operand blamed for an unknown answer is one the input does not hold, with
\* the reason of the marker in its place, or one that is not a list; inside a
\* `where`, an operand of some element, and a marker's only while one is left.
UnknownIsExplained ==
    \A a \in Assertions :
        answer[a].status = "unknown" =>
            LET path == answer[a].unknown[1]
                reason == answer[a].unknown[2]
                operand == Lookup(input, path)
            IN  IF path[1] = "item"
                THEN hidden = {} => reason \in {"path_missing", "not_a_list"}
                ELSE IF operand.known THEN reason = "not_a_list" /\ ~IsArray(operand.value)
                ELSE reason = operand.reason

\* What a selector says of a resource: its provider is known to be another one's
\* or its kind none of the selector's; or both are known to be the selector's.
RuledOut(selector, resource) ==
    LET provider == LookupItem(resource, <<"item", "provider">>)
        kind == LookupItem(resource, <<"item", "kind">>)
    IN  \/ provider.known /\ provider.value # selector.provider
        \/ kind.known /\ ~Member(kind.value, Array(selector.kinds))
Picked(selector, resource) ==
    LET provider == LookupItem(resource, <<"item", "provider">>)
        kind == LookupItem(resource, <<"item", "kind">>)
    IN  /\ provider.known /\ provider.value = selector.provider
        /\ kind.known /\ Member(kind.value, Array(selector.kinds))

\* An assertion that names resources is answered only for a change that touches
\* one it picks, and is out of scope by its selectors alone only when the change
\* lists its resources and each is ruled out by every selector.
ScopeIsRespected ==
    \A a \in Assertions :
        LET resources == Lookup(input, <<"change", "resources">>)
            each == Elements(resources)
        IN  a.selectors # <<>> =>
              /\ answer[a].status \in {"pass", "fail"} =>
                    \E i \in DOMAIN each, s \in DOMAIN a.selectors : Picked(a.selectors[s], each[i])
              /\ answer[a].status = "not_applicable" /\ a.when = <<>> =>
                    /\ resources.known /\ IsArray(resources.value)
                    /\ \A i \in DOMAIN each, s \in DOMAIN a.selectors : RuledOut(a.selectors[s], each[i])
=============================================================================
