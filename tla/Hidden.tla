------------------------------- MODULE Hidden -------------------------------
(* Inputs some facts of which may be hidden, for the models of Evaluation.  *)
(* A tree is a JSON value with holes in it, each a fact with its marker.    *)
EXTENDS Evaluation, FiniteSets

Hole(name, marker, value) == <<"hole", [name |-> name, marker |-> marker, value |-> value]>>

RECURSIVE Fill(_, _)
Fill(tree, unknown) ==
    CASE tree[1] = "hole" ->
            IF tree[2].name \in unknown THEN tree[2].marker ELSE tree[2].value
      [] tree[1] = "array" -> Array([i \in DOMAIN tree[2] |-> Fill(tree[2][i], unknown)])
      [] tree[1] = "object" -> Object([k \in DOMAIN tree[2] |-> Fill(tree[2][k], unknown)])
      [] OTHER -> tree

RECURSIVE Subtrees(_)
Subtrees(tree) ==
    {tree} \union
    CASE tree[1] = "hole" -> Subtrees(tree[2].value)
      [] tree[1] \in {"array", "object"} -> UNION { Subtrees(tree[2][k]) : k \in DOMAIN tree[2] }
      [] OTHER -> {}

RECURSIVE HoldsMarker(_)
HoldsMarker(value) ==
    \/ Sentinel(value)
    \/ /\ IsArray(value) \/ IsObject(value)
       /\ \E k \in DOMAIN value[2] : HoldsMarker(value[2][k])

SubtreesOf(trees) == UNION { Subtrees(t) : t \in trees }
SubjectsOf(trees, holes) == { [unknown \in SUBSET holes |-> Fill(t, unknown)] : t \in trees }
JsonOf(trees, holes) ==
    {Null} \union { Fill(part, unknown) : part \in SubtreesOf(trees), unknown \in SUBSET holes }
PlainOf(values) == { v \in values : ~HoldsMarker(v) }

\* A better informed input holds the same, but for what a marker stands for.
RECURSIVE Informs(_, _)
Informs(value, other) ==
    \/ value = other
    \/ Sentinel(value)
    \/ /\ \/ IsArray(value) /\ IsArray(other)
          \/ IsObject(value) /\ IsObject(other)
       /\ DOMAIN value[2] = DOMAIN other[2]
       /\ \A k \in DOMAIN value[2] : Informs(value[2][k], other[2][k])
RevealsOf(values) == { r \in values \X values : Informs(r[1], r[2]) }

-----------------------------------------------------------------------------
(* The expressions of some assertions, and where they are evaluated.       *)

RECURSIVE Nesting(_)
Nesting(expr) == 1 + Max({0} \union { Nesting(part) : part \in PartsOf(expr) })

\* The expression's places and its parts', for some items and any of the inputs.
RECURSIVE Reached(_, _, _)
Reached(expr, items, inputs) ==
    LET asked == UNION { Asked(expr, facts, item) : facts \in inputs, item \in items }
    IN  { <<expr, item>> : item \in items }
        \union UNION { Reached(part, asked, inputs) : part \in PartsOf(expr) }

TopLevel(assertions) ==
    { a.check : a \in assertions } \union
    { GuardOf(a)[1] : a \in { b \in assertions : GuardOf(b) # <<>> } }
PlacesOf(assertions, inputs) ==
    UNION { Reached(expr, {Null}, i) : expr \in TopLevel(assertions), i \in {inputs} }
DepthOf(places) == [expr \in { p[1] : p \in places } |-> Nesting(expr)] @@ <<>>
=============================================================================
