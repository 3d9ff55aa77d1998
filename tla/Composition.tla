---------------------------- MODULE Composition ----------------------------
(***************************************************************************)
(* Every result an expression can have, built up the way the emitter does: *)
(* a predicate from its operands, a combinator from results made before.   *)
(* Each is kept beside the result the same expression has over a better    *)
(* informed input, one that holds a value wherever the first holds one and *)
(* perhaps where the first holds a marker or nothing.                      *)
(***************************************************************************)
EXTENDS Runtime

CONSTANTS
    \* The operators, the values, paths and reasons an operand may have.
    Operators, Values, Paths, Reasons,
    \* The most expressions in one `all` or `any`, and elements of one list.
    MaxArgs, MaxElements

ASSUME SizesAssumption == MaxArgs \in Nat \ {0} /\ MaxElements \in Nat

VARIABLE
    \* The results made so far: pairs of one and of its better informed twin.
    made

-----------------------------------------------------------------------------
(* Operands and results of the two inputs.                                 *)

Unknowns == [known : {FALSE}, path : Paths, reason : Reasons]
References == Unknowns \union [known : {TRUE}, path : Paths, value : Values]
Operands == References \union [known : {TRUE}, path : {Nothing}, value : Values]

\* What is known stays what it is; what is not may turn out to be anything.
\* A list read whole is known even when an element of it is a marker: that one
\* case is not refined here, and the run marker_in_list shows what comes of it.
Refines(operand, informed) == operand.known => informed = operand

\* A collection: known collections of both inputs have the same number of
\* elements, which may themselves hold markers.
Collection(operand, informed) ==
    operand.known =>
        /\ informed.known
        /\ IsArray(informed.value) <=> IsArray(operand.value)

-----------------------------------------------------------------------------

ComposeInit == made = {<<True, True>>}

MakePredicate(op, left, right) ==
    /\ Refines(left[1], left[2])
    /\ Refines(right[1], right[2])
    /\ made' = made \union {<<Predicate(op, left[1], right[1]), Predicate(op, left[2], right[2])>>}

\* The results of the arguments over each of the two inputs.
Side(args, k) == [i \in DOMAIN args |-> args[i][k]]

MakeAll(args) == made' = made \union {<<AllOf(Side(args, 1)), AllOf(Side(args, 2))>>}
MakeAny(args) == made' = made \union {<<AnyOf(Side(args, 1)), AnyOf(Side(args, 2))>>}
MakeNot(arg) == made' = made \union {<<NotOf(arg[1]), NotOf(arg[2])>>}

\* An input that does not hold the collection has no elements of it.
MakeExists(collection, where) ==
    /\ Collection(collection[1], collection[2])
    /\ LET elements(k) ==
             IF collection[k].known /\ IsArray(collection[k].value) THEN Side(where, k) ELSE <<>>
       IN  made' = made \union {<<ExistsOf(collection[1], elements(1)),
                                  ExistsOf(collection[2], elements(2))>>}

ComposeNext ==
    \/ \E op \in Operators, left, right \in Operands \X Operands : MakePredicate(op, left, right)
    \/ \E n \in 1..MaxArgs : \E args \in [1..n -> made] : MakeAll(args) \/ MakeAny(args)
    \/ \E arg \in made : MakeNot(arg)
    \/ \E n \in 0..MaxElements : \E where \in [1..n -> made] :
         \E collection \in References \X References : MakeExists(collection, where)

ComposeSpec == ComposeInit /\ [][ComposeNext]_made

-----------------------------------------------------------------------------
(* A property.                                                             *)

\* A result that is not unknown is the better informed one too, whatever
\* expression it is the result of.
DecidedStands == \A m \in made : m[1].status \in {"unknown", m[2].status}
=============================================================================
