---------------------------- MODULE AnswerProofs ----------------------------
(***************************************************************************)
(* What an answer can be relied on for.                                    *)
(*                                                                         *)
(* Composition: three-valued logic is sound for any expression.  A result  *)
(* that is not unknown, and an answer that is not, stand however much of   *)
(* what the input did not know becomes known, for any operators, values,   *)
(* paths and reasons, and any number of arguments and elements.            *)
(*                                                                         *)
(* Evaluation: so it is for every assertion that nests no deeper than the  *)
(* parser lets it, over every input: its module answers what its           *)
(* expressions evaluate to, blames an operand the input does not hold for  *)
(* an answer it does not have, answers only for resources a selector picks *)
(* and keeps an answer it has, where no predicate reads a value that holds *)
(* a marker inside it.                                                     *)
(*                                                                         *)
(* ImageReading: an answer about a workload is of the template that was    *)
(* read, no rule refuses an honest reading of one that did not move, and   *)
(* the assertion that is shipped gives the status the record recomputes,   *)
(* for any templates, numbers of pods and changes of the spec.             *)
(***************************************************************************)
EXTENDS Evaluation, Composition, ImageReading, FiniteSetTheorems, WellFoundedInduction, TLAPS

\* A result is one of three statuses.
Typed(r) == r.status \in Status

\* A pair of results of which the first, when decided, is the second's status too.
Stands(p, r) == Typed(p) /\ Typed(r) /\ p.status \in {"unknown", r.status}

CompositionInv == \A m \in made : Stands(m[1], m[2])

\* The pairs of results over the two inputs of as many arguments.
Twins(ps, rs) ==
    /\ DOMAIN ps = DOMAIN rs
    /\ DOMAIN ps \subseteq Nat
    /\ \A i \in DOMAIN ps : Stands(ps[i], rs[i])

-----------------------------------------------------------------------------

\* The statuses Decided and True have.
LEMMA DecidedStatus ==
    ASSUME NEW b \in BOOLEAN
    PROVE  Decided(b).status = (IF b THEN "true" ELSE "false")
BY DEF Decided

LEMMA TrueStatus == True.status = "true"
BY DEF True, Decided

LEMMA UnknownForStatus ==
    ASSUME NEW path, NEW reason
    PROVE  UnknownFor(path, reason).status = "unknown"
BY DEF UnknownFor

\* A set of naturals that is not empty has a least one.
LEMMA LeastOf ==
    ASSUME NEW S, S \subseteq Nat, S # {}
    PROVE  \E k \in S : \A j \in S : k <= j
<1>1. PICK k \in S : \A j \in S : ~(<<j, k>> \in OpToRel(<, Nat))
  BY NatLessThanWellFounded, WFMin
<1>2. \A j \in S : k <= j
  <2> TAKE j \in S
  <2>1. j \in Nat /\ k \in Nat /\ ~(<<j, k>> \in OpToRel(<, Nat))
    BY <1>1
  <2> QED BY <2>1 DEF OpToRel
<1> QED BY <1>2

\* The first unknown result among some that hold one is one of them.
LEMMA FirstUnknownIsOne ==
    ASSUME NEW rs, DOMAIN rs \subseteq Nat, Some(rs, "unknown")
    PROVE  \E k \in DOMAIN rs : FirstUnknown(rs) = rs[k] /\ rs[k].status = "unknown"
<1> DEFINE U == { i \in DOMAIN rs : rs[i].status = "unknown" }
<1>1. PICK i \in U : \A j \in U : i <= j
  <2>1. U # {} /\ U \subseteq Nat
    BY DEF Some
  <2> QED BY <2>1, LeastOf
<1> DEFINE First(k) == /\ rs[k].status = "unknown"
                       /\ \A j \in DOMAIN rs : rs[j].status = "unknown" => k <= j
           first == CHOOSE k \in DOMAIN rs : First(k)
<1>2. \E k \in DOMAIN rs : First(k)
  BY <1>1
<1>3. first \in DOMAIN rs /\ First(first)
  BY <1>2
<1>4. FirstUnknown(rs) = rs[first]
  BY DEF FirstUnknown
<1> QED BY <1>3, <1>4

LEMMA FirstUnknownIsUnknown ==
    ASSUME NEW rs, DOMAIN rs \subseteq Nat, Some(rs, "unknown")
    PROVE  FirstUnknown(rs).status = "unknown"
BY FirstUnknownIsOne

-----------------------------------------------------------------------------
(* Each operator of the language keeps what was decided.                   *)

LEMMA PredicateStands ==
    ASSUME NEW op, NEW l1, NEW l2, NEW r1, NEW r2,
           l1.known \in BOOLEAN, r1.known \in BOOLEAN,
           Refines(l1, l2), Refines(r1, r2),
           Typed(Predicate(op, l1, r1)), Typed(Predicate(op, l2, r2))
    PROVE  Stands(Predicate(op, l1, r1), Predicate(op, l2, r2))
<1>1. CASE l1.known /\ r1.known
  <2>1. l2 = l1 /\ r2 = r1
    BY <1>1 DEF Refines
  <2> QED BY <2>1 DEF Stands
<1>2. CASE ~l1.known
  <2>1. Predicate(op, l1, r1).status = "unknown"
    BY <1>2 DEF Predicate, UnknownFor
  <2> QED BY <2>1 DEF Stands
<1>3. CASE l1.known /\ ~r1.known
  <2>1. Predicate(op, l1, r1).status = "unknown"
    BY <1>3 DEF Predicate, UnknownFor
  <2> QED BY <2>1 DEF Stands
<1> QED BY <1>1, <1>2, <1>3

\* The status of all of some results: a false one outweighs an unknown one.
LEMMA AllOfStatus ==
    ASSUME NEW qs, DOMAIN qs \subseteq Nat, \A i \in DOMAIN qs : Typed(qs[i])
    PROVE  AllOf(qs).status = IF Some(qs, "false") THEN "false"
                              ELSE IF Some(qs, "unknown") THEN "unknown" ELSE "true"
BY FirstUnknownIsUnknown, DecidedStatus, TrueStatus DEF AllOf

LEMMA AllOfStands ==
    ASSUME NEW ps, NEW rs, Twins(ps, rs)
    PROVE  Stands(AllOf(ps), AllOf(rs))
<1> USE DEF Twins, Stands, Typed, Status
<1>3. AllOf(ps).status = IF Some(ps, "false") THEN "false"
                         ELSE IF Some(ps, "unknown") THEN "unknown" ELSE "true"
  BY AllOfStatus
<1>4. AllOf(rs).status = IF Some(rs, "false") THEN "false"
                         ELSE IF Some(rs, "unknown") THEN "unknown" ELSE "true"
  BY AllOfStatus
<1>5. Some(ps, "false") => Some(rs, "false")
  BY DEF Some
<1>6. Some(rs, "false") => Some(ps, "false") \/ Some(ps, "unknown")
  BY DEF Some
<1>7. Some(rs, "unknown") => Some(ps, "unknown")
  BY DEF Some
<1> HIDE DEF Twins
<1> QED BY <1>3, <1>4, <1>5, <1>6, <1>7

\* The status of any of some results: a true one outweighs an unknown one.
LEMMA AnyOfStatus ==
    ASSUME NEW qs, DOMAIN qs \subseteq Nat, \A i \in DOMAIN qs : Typed(qs[i])
    PROVE  AnyOf(qs).status = IF Some(qs, "true") THEN "true"
                              ELSE IF Some(qs, "unknown") THEN "unknown" ELSE "false"
BY FirstUnknownIsUnknown, DecidedStatus, TrueStatus DEF AnyOf

LEMMA AnyOfStands ==
    ASSUME NEW ps, NEW rs, Twins(ps, rs)
    PROVE  Stands(AnyOf(ps), AnyOf(rs))
<1> USE DEF Twins, Stands, Typed, Status
<1>3. AnyOf(ps).status = IF Some(ps, "true") THEN "true"
                         ELSE IF Some(ps, "unknown") THEN "unknown" ELSE "false"
  BY AnyOfStatus
<1>4. AnyOf(rs).status = IF Some(rs, "true") THEN "true"
                         ELSE IF Some(rs, "unknown") THEN "unknown" ELSE "false"
  BY AnyOfStatus
<1>5. Some(ps, "true") => Some(rs, "true")
  BY DEF Some
<1>6. Some(rs, "true") => Some(ps, "true") \/ Some(ps, "unknown")
  BY DEF Some
<1>7. Some(rs, "unknown") => Some(ps, "unknown")
  BY DEF Some
<1> HIDE DEF Twins
<1> QED BY <1>3, <1>4, <1>5, <1>6, <1>7

LEMMA NotOfStands ==
    ASSUME NEW p, NEW r, Stands(p, r)
    PROVE  Stands(NotOf(p), NotOf(r))
<1>1. ASSUME NEW q, Typed(q)
      PROVE  NotOf(q).status = CASE q.status = "true" -> "false"
                                 [] q.status = "false" -> "true"
                                 [] OTHER -> "unknown"
  BY <1>1, DecidedStatus DEF NotOf, Typed, Status
<1> QED BY <1>1 DEF Stands, Typed, Status

\* The status of `exists` over a list, from those of its elements.
LEMMA ExistsOfStatus ==
    ASSUME NEW c, NEW qs, c.known, IsArray(c.value),
           DOMAIN qs \subseteq Nat, \A i \in DOMAIN qs : Typed(qs[i])
    PROVE  ExistsOf(c, qs).status = IF Some(qs, "true") THEN "true"
                                    ELSE IF Some(qs, "unknown") THEN "unknown" ELSE "false"
BY FirstUnknownIsUnknown, DecidedStatus, TrueStatus DEF ExistsOf

\* The elements' results over each input; an input without the list has none.
LEMMA ExistsOfStands ==
    ASSUME NEW c1, NEW c2, NEW ps, NEW rs,
           c1.known \in BOOLEAN, c2.known \in BOOLEAN, Collection(c1, c2),
           DOMAIN rs \subseteq Nat, \A i \in DOMAIN rs : Typed(rs[i]),
           c1.known /\ IsArray(c1.value) => Twins(ps, rs)
    PROVE  Stands(ExistsOf(c1, ps), ExistsOf(c2, rs))
<1>2. ASSUME NEW c, NEW qs, c.known \in BOOLEAN, ~(c.known /\ IsArray(c.value))
      PROVE  ExistsOf(c, qs).status = "unknown"
  BY <1>2, UnknownForStatus DEF ExistsOf
<1>3. Typed(ExistsOf(c2, rs))
  BY <1>2, ExistsOfStatus DEF Typed, Status
<1>4. CASE c1.known /\ IsArray(c1.value)
  <2>1. c2.known /\ IsArray(c2.value)
    BY <1>4 DEF Collection
  <2>2. Twins(ps, rs)
    BY <1>4
  <2>3. \A i \in DOMAIN ps : Typed(ps[i])
    BY <2>2 DEF Twins, Stands
  <2>4. ExistsOf(c1, ps).status = IF Some(ps, "true") THEN "true"
                                  ELSE IF Some(ps, "unknown") THEN "unknown" ELSE "false"
    BY ExistsOfStatus, <1>4, <2>2, <2>3 DEF Twins
  <2>5. ExistsOf(c2, rs).status = IF Some(rs, "true") THEN "true"
                                  ELSE IF Some(rs, "unknown") THEN "unknown" ELSE "false"
    BY ExistsOfStatus, <2>1
  <2>6. Some(ps, "true") => Some(rs, "true")
    BY <2>2 DEF Some, Twins, Stands
  <2>7. Some(rs, "true") => Some(ps, "true") \/ Some(ps, "unknown")
    BY <2>2 DEF Some, Twins, Stands
  <2>8. Some(rs, "unknown") => Some(ps, "unknown")
    BY <2>2 DEF Some, Twins, Stands
  <2> QED BY <2>4, <2>5, <2>6, <2>7, <2>8 DEF Stands, Typed, Status
<1>5. CASE ~(c1.known /\ IsArray(c1.value))
  BY <1>2, <1>3, <1>5 DEF Stands, Typed, Status
<1> QED BY <1>4, <1>5

-----------------------------------------------------------------------------
(* The specification.                                                      *)

\* A predicate's result is typed: its comparison decides or its operand is unknown.
LEMMA PredicateTyped ==
    ASSUME NEW op, NEW left, NEW right
    PROVE  Typed(Predicate(op, left, right))
BY DEF Predicate, UnknownFor, Decided, Typed, Status

LEMMA InitHolds == ComposeInit => CompositionInv
BY TrueStatus DEF ComposeInit, CompositionInv, Stands, Typed, Status

\* The sides of arguments made before are twins.
LEMMA SidesAreTwins ==
    ASSUME CompositionInv, NEW n \in Nat, NEW args \in [1..n -> made]
    PROVE  Twins(Side(args, 1), Side(args, 2))
BY DEF CompositionInv, Twins, Side

LEMMA StepHolds == CompositionInv /\ [ComposeNext]_made => CompositionInv'
<1> SUFFICES ASSUME CompositionInv, [ComposeNext]_made PROVE CompositionInv'
  OBVIOUS
<1>1. ASSUME NEW op \in Operators, NEW left \in Operands \X Operands, NEW right \in Operands \X Operands,
             MakePredicate(op, left, right)
      PROVE  CompositionInv'
  <2>1. left[1].known \in BOOLEAN /\ right[1].known \in BOOLEAN
    BY DEF Operands, References, Unknowns
  <2>2. Stands(Predicate(op, left[1], right[1]), Predicate(op, left[2], right[2]))
    BY <1>1, <2>1, PredicateStands, PredicateTyped DEF MakePredicate
  <2> QED BY <1>1, <2>2 DEF MakePredicate, CompositionInv
<1>2. ASSUME NEW n \in 1..MaxArgs, NEW args \in [1..n -> made], MakeAll(args)
      PROVE  CompositionInv'
  <2>1. Stands(AllOf(Side(args, 1)), AllOf(Side(args, 2)))
    BY SidesAreTwins, AllOfStands, SizesAssumption
  <2> QED BY <1>2, <2>1 DEF MakeAll, CompositionInv
<1>3. ASSUME NEW n \in 1..MaxArgs, NEW args \in [1..n -> made], MakeAny(args)
      PROVE  CompositionInv'
  <2>1. Stands(AnyOf(Side(args, 1)), AnyOf(Side(args, 2)))
    BY SidesAreTwins, AnyOfStands, SizesAssumption
  <2> QED BY <1>3, <2>1 DEF MakeAny, CompositionInv
<1>4. ASSUME NEW arg \in made, MakeNot(arg)
      PROVE  CompositionInv'
  <2>1. Stands(NotOf(arg[1]), NotOf(arg[2]))
    BY NotOfStands DEF CompositionInv
  <2> QED BY <1>4, <2>1 DEF MakeNot, CompositionInv
<1>5. ASSUME NEW n \in 0..MaxElements, NEW where \in [1..n -> made],
             NEW collection \in References \X References, MakeExists(collection, where)
      PROVE  CompositionInv'
  <2> DEFINE elements(k) ==
        IF collection[k].known /\ IsArray(collection[k].value) THEN Side(where, k) ELSE <<>>
  <2>1. collection[1].known \in BOOLEAN /\ collection[2].known \in BOOLEAN
    BY DEF References, Unknowns
  <2>2. Collection(collection[1], collection[2])
    BY <1>5 DEF MakeExists
  <2>3. Twins(Side(where, 1), Side(where, 2))
    BY SidesAreTwins, SizesAssumption
  <2>4. DOMAIN elements(2) \subseteq Nat /\ \A i \in DOMAIN elements(2) : Typed(elements(2)[i])
    <3>1. CASE collection[2].known /\ IsArray(collection[2].value)
      BY <2>3, <3>1 DEF Twins, Stands
    <3>2. CASE ~(collection[2].known /\ IsArray(collection[2].value))
      <4>1. elements(2) = <<>>
        BY <3>2
      <4>2. DOMAIN <<>> = {}
        OBVIOUS
      <4> QED BY <4>1, <4>2
    <3> QED BY <3>1, <3>2
  <2>5. collection[1].known /\ IsArray(collection[1].value) => Twins(elements(1), elements(2))
    BY <2>2, <2>3 DEF Collection
  <2>6. Stands(ExistsOf(collection[1], elements(1)), ExistsOf(collection[2], elements(2)))
    <3> HIDE DEF elements
    <3> QED BY <2>1, <2>2, <2>4, <2>5, ExistsOfStands
  <2>7. made' = made \union {<<ExistsOf(collection[1], elements(1)), ExistsOf(collection[2], elements(2))>>}
    BY <1>5 DEF MakeExists
  <2> QED BY <2>6, <2>7 DEF CompositionInv
<1>6. CASE UNCHANGED made
  BY <1>6 DEF CompositionInv
<1> QED BY <1>1, <1>2, <1>3, <1>4, <1>5, <1>6 DEF ComposeNext

LEMMA CompositionInvariant == ComposeSpec => []CompositionInv
BY InitHolds, StepHolds, PTL DEF ComposeSpec

\* A result that is not unknown is the same over every better informed input,
\* for every expression of the language (compiler/runtime.rego).
THEOREM ResultsStand == ComposeSpec => []DecidedStands
<1>1. CompositionInv => DecidedStands
  BY DEF CompositionInv, DecidedStands, Stands
<1> QED BY <1>1, CompositionInvariant, PTL

-----------------------------------------------------------------------------
(* What a path leads to.                                                   *)

\* A path of any length is resolved name by name.
NameByName(at, root, path, names) ==
    at = [i \in 0..Len(names) |-> IF i = 0 THEN Met(Known(path, root)) ELSE Named(at[i - 1], names[i])]

LEMMA ResolveSteps ==
    ASSUME NEW root, NEW path, NEW names, Len(names) \in Nat
    PROVE  \E at : NameByName(at, root, path, names) /\ Resolve(root, path, names) = at[Len(names)]
<1> DEFINE start == Met(Known(path, root))
           n == Len(names)
           Steps(g, k) == g = [i \in 0..k |-> IF i = 0 THEN start ELSE Named(g[i - 1], names[i])]
           S == { k \in Nat : ~\E g : Steps(g, k) }
<1>1. S = {}
  <2> SUFFICES ASSUME S # {} PROVE FALSE
    OBVIOUS
  <2>1. PICK k \in S : \A j \in S : k <= j
    <3> HIDE DEF Steps
    <3> QED BY LeastOf
  <2>2. k # 0
    <3> SUFFICES ASSUME k = 0 PROVE FALSE
      OBVIOUS
    <3> DEFINE g == [i \in 0..0 |-> start]
    <3>1. g = [i \in 0..0 |-> IF i = 0 THEN start ELSE Named(g[i - 1], names[i])]
      <4> HIDE DEF start
      <4> QED OBVIOUS
    <3>2. Steps(g, 0)
      BY <3>1
    <3> HIDE DEF Steps, g
    <3> QED BY <3>2
  <2>3. PICK g : Steps(g, k - 1)
    <3>1. k - 1 \in Nat /\ ~(k - 1 \in S)
      <4> HIDE DEF Steps
      <4> QED BY <2>1, <2>2
    <3> HIDE DEF Steps
    <3> QED BY <3>1
  <2> DEFINE h == [i \in 0..k |-> IF i = 0 THEN start ELSE Named(g[i - 1], names[i])]
  <2>4. ASSUME NEW i \in 0..k, i # 0
        PROVE  h[i - 1] = g[i - 1]
    <3>1. i - 1 \in 0..(k - 1) /\ i - 1 \in 0..k /\ k \in Nat
      BY <2>4
    <3> HIDE DEF start
    <3> QED BY <2>3, <3>1
  <2>5. h = [i \in 0..k |-> IF i = 0 THEN start ELSE Named(h[i - 1], names[i])]
    <3> HIDE DEF start
    <3>1. \A i \in 0..k : i # 0 => h[i - 1] = g[i - 1]
      BY <2>4
    <3> DEFINE hh == [i \in 0..k |-> IF i = 0 THEN start ELSE Named(h[i - 1], names[i])]
    <3>2. \A i \in 0..k : h[i] = hh[i]
      BY <3>1
    <3> QED BY <3>2
  <2>6. Steps(h, k)
    BY <2>5
  <2> HIDE DEF Steps, h
  <2> QED BY <2>6
<1>2. \E g : Steps(g, n)
  <2> HIDE DEF Steps
  <2> QED BY <1>1
<1> DEFINE at == CHOOSE g : Steps(g, n)
<1>3. Steps(at, n)
  <2> HIDE DEF Steps
  <2> QED BY <1>2
<1>4. Resolve(root, path, names) = at[n]
  BY Zenon DEF Resolve
<1>5. NameByName(at, root, path, names)
  BY <1>3, Zenon DEF NameByName
<1> HIDE DEF at
<1> QED BY <1>4, <1>5

\* An operand looked up in values of S: one of them, or none and why.
Missing(S, path, o) ==
    \/ o = Unresolved(path, "path_missing")
    \/ \E v \in S : Sentinel(v) /\ o = Unresolved(path, SentinelReason(v))
Found(S, path, o) ==
    \/ Missing(S, path, o)
    \/ \E v \in S : ~Sentinel(v) /\ o = Known(path, v)

\* A value that is met is found, or is a marker and missing.
LEMMA MetIsFound ==
    ASSUME NEW S, NEW path, NEW v \in S
    PROVE  Found(S, path, Met(Known(path, v)))
BY DEF Found, Missing, Met, Known

\* So is what an object of the values holds at a name.
LEMMA NamedIsFound ==
    ASSUME NEW S, Closed(S), NEW path, NEW o, Found(S, path, o), NEW name
    PROVE  Found(S, path, Named(o, name))
<1>1. CASE Missing(S, path, o)
  <2>1. o.known = FALSE
    BY <1>1 DEF Missing, Unresolved
  <2>2. Named(o, name) = o
    BY <2>1 DEF Named, Met
  <2> QED BY <1>1, <2>2 DEF Found
<1>2. ASSUME NEW v \in S, ~Sentinel(v), o = Known(path, v)
      PROVE  Found(S, path, Named(o, name))
  <2>1. CASE IsObject(v) /\ name \in DOMAIN v[2]
    <3>1. v[2][name] \in S
      BY <2>1 DEF Closed
    <3>2. Named(o, name) = Met(Known(path, v[2][name]))
      BY <1>2, <2>1 DEF Named, Known
    <3> QED BY <3>1, <3>2, MetIsFound
  <2>2. CASE ~(IsObject(v) /\ name \in DOMAIN v[2])
    <3>1. Named(o, name) = Unresolved(path, "path_missing")
      BY <1>2, <2>2 DEF Named, Met, Known, Unresolved
    <3> QED BY <3>1 DEF Found, Missing
  <2> QED BY <2>1, <2>2
<1> QED BY <1>1, <1>2 DEF Found

\* And what a path leads to.
LEMMA ResolveFinds ==
    ASSUME NEW S, Closed(S), NEW root \in S, NEW path, NEW names, Len(names) \in Nat
    PROVE  Found(S, path, Resolve(root, path, names))
<1>1. PICK at : NameByName(at, root, path, names) /\ Resolve(root, path, names) = at[Len(names)]
  BY ResolveSteps
<1>2. \A i \in 0..Len(names) :
          at[i] = IF i = 0 THEN Met(Known(path, root)) ELSE Named(at[i - 1], names[i])
  BY <1>1, Zenon DEF NameByName
<1> DEFINE Bad == { i \in 0..Len(names) : ~Found(S, path, at[i]) }
<1>3. Bad = {}
  <2> SUFFICES ASSUME Bad # {} PROVE FALSE
    OBVIOUS
  <2>1. PICK k \in Bad : \A j \in Bad : k <= j
    <3>1. Bad \subseteq Nat
      OBVIOUS
    <3> HIDE DEF Bad
    <3> QED BY <3>1, LeastOf
  <2>2. CASE k = 0
    <3>1. at[k] = Met(Known(path, root))
      BY <1>2, <2>2
    <3> QED BY <2>1, <3>1, MetIsFound
  <2>3. CASE k # 0
    <3>1. k - 1 \in 0..Len(names) /\ k - 1 \notin Bad
      BY <2>1, <2>3
    <3>2. Found(S, path, at[k - 1])
      BY <3>1
    <3>3. at[k] = Named(at[k - 1], names[k])
      BY <1>2, <2>1, <2>3
    <3> QED BY <2>1, <3>2, <3>3, NamedIsFound
  <2> QED BY <2>2, <2>3
<1>4. Len(names) \in 0..Len(names)
  OBVIOUS
<1>5. Found(S, path, at[Len(names)])
  BY <1>3, <1>4
<1> HIDE DEF Bad
<1> QED BY <1>1, <1>5, Zenon

LEMMA LookupFinds ==
    ASSUME NEW S, Closed(S), NEW facts \in S, NEW item \in S, NEW path \in Path
    PROVE  Found(S, path, LookupPath(path, facts, item))
<1>1. Len(path) \in Nat /\ Len(Tail(path)) \in Nat
  BY DEF Path
<1>2. Found(S, path, Lookup(facts, path))
  BY <1>1, ResolveFinds DEF Lookup
<1>3. Found(S, path, LookupItem(item, path))
  BY <1>1, ResolveFinds DEF LookupItem
<1> QED BY <1>2, <1>3 DEF LookupPath

\* What is found is an operand, and what is known of it is in S.
LEMMA FoundOperand ==
    ASSUME NEW S, NEW path, NEW o, Found(S, path, o)
    PROVE  /\ o.known \in BOOLEAN /\ o.path = path
           /\ o.known => o.value \in S /\ ~Sentinel(o.value) /\ o = Known(path, o.value)
           /\ ~o.known => Missing(S, path, o)
<1>1. CASE Missing(S, path, o)
  <2>1. PICK reason : o = Unresolved(path, reason)
    BY <1>1 DEF Missing
  <2>2. o.known = FALSE /\ o.path = path
    BY <2>1 DEF Unresolved
  <2> QED BY <1>1, <2>2
<1>2. ASSUME NEW v \in S, ~Sentinel(v), o = Known(path, v)
      PROVE  o.known = TRUE /\ o.path = path /\ o.value = v
  BY <1>2 DEF Known
<1> QED BY <1>1, <1>2 DEF Found

\* The elements of a list that is found are in S.
LEMMA ElementsFound ==
    ASSUME NEW S, Closed(S), NEW path, NEW o, Found(S, path, o)
    PROVE  Elements(o) \in Seq(S)
<1>1. CASE o.known /\ IsArray(o.value)
  BY <1>1, FoundOperand DEF Elements, Closed
<1>2. CASE ~(o.known /\ IsArray(o.value))
  BY <1>2 DEF Elements
<1> QED BY <1>1, <1>2

-----------------------------------------------------------------------------
(* The results of expressions.                                             *)

\* An expression's parts at a place, for the items they are asked about, are
\* at places of their own, and nest less.
Below(place) == { q \in Places : Depth[q[1]] < Depth[place[1]] }

LEMMA PlaceParts ==
    ASSUME NEW place \in Places
    PROVE  /\ place[1] \in Expressions /\ place[2] \in Json
           /\ Depth[place[1]] \in 0..MaxDepth /\ Parsed(place[1])
           /\ \A facts \in Inputs :
                \A part \in PartsOf(place[1]), item \in Asked(place[1], facts, place[2]) :
                    <<part, item>> \in Below(place)
<1>1. place[1] \in Expressions /\ place[2] \in Json
  BY ExpressionsAssumption
<1>2. Depth[place[1]] \in 0..MaxDepth /\ Parsed(place[1])
  BY <1>1, ExpressionsAssumption
<1>3. ASSUME NEW facts \in Inputs, NEW part \in PartsOf(place[1]),
             NEW item \in Asked(place[1], facts, place[2])
      PROVE  <<part, item>> \in Below(place)
  <2>1. <<part, item>> \in Places
    BY ExpressionsAssumption
  <2>2. Depth[part] < Depth[place[1]]
    BY <1>1, ExpressionsAssumption
  <2> QED BY <2>1, <2>2 DEF Below
<1> QED BY <1>1, <1>2, <1>3

\* What holds of a place whenever it holds of those below it holds of all.
LEMMA ByDepth ==
    ASSUME NEW Good, \A place \in Places : Below(place) \subseteq Good => place \in Good
    PROVE  Places \subseteq Good
<1> DEFINE Bad == { Depth[place[1]] : place \in Places \ Good }
<1>1. Bad \subseteq Nat
  BY PlaceParts, ExpressionsAssumption
<1> SUFFICES ASSUME NEW p \in Places \ Good PROVE FALSE
  OBVIOUS
<1>2. Bad # {}
  OBVIOUS
<1>3. PICK k \in Bad : \A j \in Bad : k <= j
  <2> HIDE DEF Bad
  <2> QED BY <1>1, <1>2, LeastOf
<1>4. PICK place \in Places \ Good : k = Depth[place[1]]
  OBVIOUS
<1>5. Below(place) \subseteq Good
  <2> SUFFICES ASSUME NEW q \in Below(place), q \notin Good PROVE FALSE
    OBVIOUS
  <2>1. q \in Places /\ Depth[q[1]] < Depth[place[1]] /\ Depth[q[1]] \in Bad
    BY DEF Below
  <2>2. k <= Depth[q[1]] /\ Depth[q[1]] \in Nat /\ k \in Nat
    BY <1>1, <1>3, <2>1
  <2> QED BY <1>4, <2>1, <2>2
<1> QED BY <1>4, <1>5

\* The kinds an expression has, and the parts each is made of.
LEMMA Kinds ==
    ASSUME NEW expr, Parsed(expr)
    PROVE  /\ expr[1] \in {"predicate", "all", "any", "not", "exists"}
           /\ expr[1] \in {"all", "any"} =>
                 /\ DOMAIN expr[2] \subseteq Nat
                 /\ \A i \in DOMAIN expr[2] : expr[2][i] \in PartsOf(expr)
           /\ expr[1] = "not" => expr[2] \in PartsOf(expr)
           /\ expr[1] = "exists" => /\ expr[2] \in Path
                                    /\ expr[3] # <<>> => expr[3][1] \in PartsOf(expr)
           /\ expr[1] = "predicate" =>
                 /\ expr[2] \in Path
                 /\ \/ expr[4][1] = "literal"
                    \/ expr[4][1] = "path" /\ expr[4][2] \in Path
<1>1. CASE expr[1] = "predicate"
  BY <1>1 DEF Parsed
<1>2. CASE expr[1] \in {"all", "any"}
  <2>1. expr[2] \in Seq(PartsOf(expr))
    BY <1>2 DEF Parsed
  <2> QED BY <1>2, <2>1
<1>3. CASE expr[1] = "not"
  BY <1>3 DEF PartsOf
<1>4. CASE expr[1] = "exists"
  <2>1. expr[2] \in Path /\ expr[3] \in {<<>>} \union {<<p>> : p \in PartsOf(expr)}
    BY <1>4 DEF Parsed
  <2>2. ASSUME expr[3] # <<>> PROVE expr[3][1] \in PartsOf(expr)
    <3>1. PICK p \in PartsOf(expr) : expr[3] = <<p>>
      BY <2>1, <2>2
    <3> QED BY <3>1
  <2> QED BY <1>4, <2>1, <2>2
<1> QED BY <1>1, <1>2, <1>3, <1>4 DEF Parsed

\* A result depends on those of the places below alone.
LEMMA ResultLocal ==
    ASSUME NEW place \in Places, NEW facts \in Inputs, NEW g, NEW h,
           \A q \in Below(place) : g[q] = h[q]
    PROVE  Result(g, facts, place[1], place[2]) = Result(h, facts, place[1], place[2])
<1> DEFINE expr == place[1]
           item == place[2]
           elements == ElementsOf(expr, facts, item)
<1>1. ASSUME NEW part \in PartsOf(expr), NEW asked \in Asked(expr, facts, item)
      PROVE  g[<<part, asked>>] = h[<<part, asked>>]
  <2>1. <<part, asked>> \in Below(place)
    BY PlaceParts
  <2> QED BY <2>1
<1>2. Parsed(expr)
  BY PlaceParts
<1>3. CASE expr[1] = "predicate"
  BY <1>3 DEF Result
<1>4. CASE expr[1] \in {"all", "any"}
  <2>1. item \in Asked(expr, facts, item)
    BY <1>4 DEF Asked
  <2>2. \A i \in DOMAIN expr[2] : g[<<expr[2][i], item>>] = h[<<expr[2][i], item>>]
    BY <1>1, <1>2, <1>4, <2>1, Kinds
  <2>3. Each(g, expr[2], item) = Each(h, expr[2], item)
    BY <2>2 DEF Each
  <2> QED BY <1>4, <2>3 DEF Result
<1>5. CASE expr[1] = "not"
  <2>1. item \in Asked(expr, facts, item)
    BY <1>5 DEF Asked
  <2>2. g[<<expr[2], item>>] = h[<<expr[2], item>>]
    BY <1>1, <1>2, <1>5, <2>1, Kinds
  <2> QED BY <1>5, <2>2 DEF Result
<1>6. CASE expr[1] = "exists"
  <2>1. \A i \in DOMAIN elements : elements[i] \in Asked(expr, facts, item)
    BY <1>6 DEF Asked
  <2>2. ASSUME NEW i \in DOMAIN elements, expr[3] # <<>>
        PROVE  g[<<expr[3][1], elements[i]>>] = h[<<expr[3][1], elements[i]>>]
    BY <1>1, <1>2, <1>6, <2>1, <2>2, Kinds
  <2>3. EachElement(g, expr[3], elements) = EachElement(h, expr[3], elements)
    <3> HIDE DEF elements
    <3> QED BY <2>2 DEF EachElement
  <2> QED BY <1>6, <2>3 DEF Result
<1> QED BY <1>2, <1>3, <1>4, <1>5, <1>6, Kinds

\* The places that nest no deeper than k, and the results of theirs.
UpTo(k) == { place \in Places : Depth[place[1]] <= k }
Evaluates(g, facts, S) ==
    g = [place \in S |-> Result(g, facts, place[1], place[2])]

\* One level deeper, results follow from those of the level below.
LEMMA EvaluatesUpTo ==
    ASSUME NEW facts \in Inputs, NEW k \in Nat, NEW g,
           k > 0 => Evaluates(g, facts, UpTo(k - 1))
    PROVE  \E h : Evaluates(h, facts, UpTo(k))
<1> DEFINE h == [place \in UpTo(k) |-> Result(g, facts, place[1], place[2])]
<1>1. ASSUME NEW place \in UpTo(k)
      PROVE  Result(h, facts, place[1], place[2]) = Result(g, facts, place[1], place[2])
  <2>1. place \in Places /\ Depth[place[1]] \in Nat /\ Depth[place[1]] <= k
    BY PlaceParts, ExpressionsAssumption DEF UpTo
  <2>2. ASSUME NEW q \in Below(place)
        PROVE  h[q] = g[q]
    <3>1. q \in Places /\ Depth[q[1]] \in Nat /\ Depth[q[1]] < Depth[place[1]]
      BY PlaceParts, ExpressionsAssumption DEF Below
    <3>2. k > 0 /\ q \in UpTo(k - 1) /\ q \in UpTo(k)
      BY <2>1, <3>1 DEF UpTo
    <3>3. Evaluates(g, facts, UpTo(k - 1))
      BY <3>2
    <3>4. g[q] = Result(g, facts, q[1], q[2])
      BY <3>2, <3>3, Zenon DEF Evaluates
    <3> QED BY <3>2, <3>4
  <2> HIDE DEF h
  <2> QED BY <2>1, <2>2, ResultLocal
<1>2. h = [place \in UpTo(k) |-> Result(h, facts, place[1], place[2])]
  <2> DEFINE hh == [place \in UpTo(k) |-> Result(h, facts, place[1], place[2])]
  <2>1. \A place \in UpTo(k) : h[place] = hh[place]
    <3> DEFINE R(place) == Result(g, facts, place[1], place[2])
               RR(place) == Result(h, facts, place[1], place[2])
    <3>1. \A place \in UpTo(k) : R(place) = RR(place)
      BY <1>1
    <3>2. h = [place \in UpTo(k) |-> R(place)] /\ hh = [place \in UpTo(k) |-> RR(place)]
      OBVIOUS
    <3> HIDE DEF R, RR, h, hh
    <3> QED BY <3>1, <3>2
  <2>2. DOMAIN h = UpTo(k) /\ DOMAIN hh = UpTo(k)
    OBVIOUS
  <2>3. h = [place \in UpTo(k) |-> h[place]] /\ hh = [place \in UpTo(k) |-> hh[place]]
    OBVIOUS
  <2>4. h = hh
    <3> HIDE DEF h, hh
    <3> QED BY <2>1, <2>3
  <2> QED BY <2>4
<1>3. Evaluates(h, facts, UpTo(k))
  <2> HIDE DEF h
  <2> QED BY <1>2, Zenon DEF Evaluates
<1> HIDE DEF h
<1> QED BY <1>3

\* Every place has the result its parts' results give it.
LEMMA EvalUnfolds ==
    ASSUME NEW facts \in Inputs, NEW place \in Places
    PROVE  Eval(facts)[place] = Result(Eval(facts), facts, place[1], place[2])
<1> DEFINE S == { k \in Nat : ~\E g : Evaluates(g, facts, UpTo(k)) }
<1>1. S = {}
  <2> SUFFICES ASSUME S # {} PROVE FALSE
    OBVIOUS
  <2>1. PICK k \in S : \A j \in S : k <= j
    BY LeastOf
  <2>2. \E g : k > 0 => Evaluates(g, facts, UpTo(k - 1))
    <3>1. CASE k = 0
      BY <3>1
    <3>2. CASE k # 0
      <4>1. k - 1 \in Nat /\ k - 1 \notin S
        BY <2>1, <3>2
      <4> QED BY <4>1
    <3> QED BY <3>1, <3>2
  <2> QED BY <2>2, EvaluatesUpTo
<1>2. UpTo(MaxDepth) = Places
  <2>1. \A p \in Places : Depth[p[1]] <= MaxDepth
    BY PlaceParts, ExpressionsAssumption
  <2> QED BY <2>1 DEF UpTo
<1>3. \E g : Evaluates(g, facts, Places)
  <2>1. MaxDepth \in Nat /\ MaxDepth \notin S
    BY <1>1, ExpressionsAssumption
  <2> QED BY <1>2, <2>1
<1> DEFINE E == CHOOSE g : Evaluates(g, facts, Places)
<1>4. Evaluates(E, facts, Places)
  <2> HIDE DEF S
  <2> QED BY <1>3, Zenon
<1>5. Eval(facts) = E
  BY Zenon DEF Eval, Evaluates
<1> HIDE DEF E
<1>6. E[place] = Result(E, facts, place[1], place[2])
  BY <1>4, Zenon DEF Evaluates
<1> QED BY <1>5, <1>6

\* The results that are decided, or unknown for one of some operands and reasons.
Results(blames) ==
    {Decided(TRUE), Decided(FALSE)} \union { UnknownFor(b[1], b[2]) : b \in blames }

LEMMA ResultsTyped ==
    ASSUME NEW blames, NEW r \in Results(blames)
    PROVE  Typed(r) /\ (r.status = "unknown" => \E b \in blames : r = UnknownFor(b[1], b[2]))
<1>1. CASE r \in {Decided(TRUE), Decided(FALSE)}
  BY <1>1 DEF Decided, Typed, Status
<1>2. ASSUME NEW b \in blames, r = UnknownFor(b[1], b[2])
      PROVE  Typed(r)
  BY <1>2, UnknownForStatus DEF Typed, Status
<1>3. r.status = "unknown" => r \notin {Decided(TRUE), Decided(FALSE)}
  BY DEF Decided
<1> QED BY <1>1, <1>2, <1>3 DEF Results

\* What an operator blames is what one of its arguments does.
LEMMA OperatorBlames ==
    ASSUME NEW blames, NEW rs, DOMAIN rs \subseteq Nat, \A i \in DOMAIN rs : rs[i] \in Results(blames)
    PROVE  /\ AllOf(rs) \in Results(blames)
           /\ AnyOf(rs) \in Results(blames)
           /\ \A c : c.known /\ IsArray(c.value) => ExistsOf(c, rs) \in Results(blames)
<1>1. Decided(TRUE) \in Results(blames) /\ Decided(FALSE) \in Results(blames) /\ True \in Results(blames)
  BY DEF Results, True
<1>2. Some(rs, "unknown") => FirstUnknown(rs) \in Results(blames)
  BY FirstUnknownIsOne
<1>3. AllOf(rs) \in Results(blames)
  BY <1>1, <1>2 DEF AllOf
<1>4. AnyOf(rs) \in Results(blames)
  BY <1>1, <1>2 DEF AnyOf
<1>5. ASSUME NEW c, c.known, IsArray(c.value)
      PROVE  ExistsOf(c, rs) \in Results(blames)
  BY <1>1, <1>2, <1>5 DEF ExistsOf
<1> QED BY <1>3, <1>4, <1>5

\* What an operand is blamed for.
LEMMA PredicateBlames ==
    ASSUME NEW blames, NEW op, NEW left, NEW right, left.known \in BOOLEAN, right.known \in BOOLEAN,
           ~left.known => <<left.path, left.reason>> \in blames,
           ~right.known => <<right.path, right.reason>> \in blames,
           right.known /\ right.path # Nothing /\ ~IsArray(right.value) =>
               <<right.path, "not_a_list">> \in blames
    PROVE  Predicate(op, left, right) \in Results(blames)
<1>1. \A path, reason : <<path, reason>> \in blames => UnknownFor(path, reason) \in Results(blames)
  <2> TAKE path, reason
  <2> HAVE <<path, reason>> \in blames
  <2> DEFINE b == <<path, reason>>
  <2>1. b[1] = path /\ b[2] = reason /\ b \in blames
    OBVIOUS
  <2> QED BY <2>1 DEF Results
<1>2. \A holds : Decided(holds) \in Results(blames)
  BY DEF Results, Decided
<1> QED BY <1>1, <1>2 DEF Predicate

LEMMA NotOfBlames ==
    ASSUME NEW blames, NEW r \in Results(blames)
    PROVE  NotOf(r) \in Results(blames)
BY DEF NotOf, Results

\* A result blames what its operands and its parts do.
LEMMA ResultBlames ==
    ASSUME NEW blames, NEW place \in Places, NEW facts \in Inputs, facts \in Json, NEW g,
           \A path \in Path :
               LET o == LookupPath(path, facts, place[2])
               IN  /\ ~o.known => <<path, o.reason>> \in blames
                   /\ o.known /\ ~IsArray(o.value) => <<path, "not_a_list">> \in blames,
           \A part \in PartsOf(place[1]), asked \in Asked(place[1], facts, place[2]) :
               g[<<part, asked>>] \in Results(blames)
    PROVE  Result(g, facts, place[1], place[2]) \in Results(blames)
<1> DEFINE expr == place[1]
           item == place[2]
           look(path) == LookupPath(path, facts, item)
           elements == ElementsOf(expr, facts, item)
<1>1. Parsed(expr) /\ item \in Json
  BY PlaceParts
<1>2. ASSUME NEW path \in Path
      PROVE  /\ look(path).known \in BOOLEAN /\ look(path).path = path
             /\ ~look(path).known => <<path, look(path).reason>> \in blames
             /\ look(path).known /\ ~IsArray(look(path).value) => <<path, "not_a_list">> \in blames
             /\ Elements(look(path)) \in Seq(Json)
  <2>1. Found(Json, path, look(path))
    BY <1>1, LookupFinds, InputsAssumption
  <2>2. look(path).known \in BOOLEAN /\ look(path).path = path
    BY <2>1, FoundOperand
  <2>3. Elements(look(path)) \in Seq(Json)
    BY <2>1, ElementsFound, InputsAssumption
  <2> QED BY <2>2, <2>3
<1>3. CASE expr[1] = "predicate"
  <2> DEFINE left == look(expr[2])
             right == Operand(expr[4], facts, item)
  <2>1. expr[2] \in Path /\ (expr[4][1] = "literal" \/ (expr[4][1] = "path" /\ expr[4][2] \in Path))
    BY <1>1, <1>3, Kinds
  <2>2. left.known \in BOOLEAN /\ (~left.known => <<left.path, left.reason>> \in blames)
    <3> HIDE DEF look
    <3> QED BY <1>2, <2>1
  <2>3. /\ right.known \in BOOLEAN
        /\ ~right.known => <<right.path, right.reason>> \in blames
        /\ right.known /\ right.path # Nothing /\ ~IsArray(right.value) =>
               <<right.path, "not_a_list">> \in blames
    <3>1. CASE expr[4][1] = "literal"
      <4>1. right.known = TRUE /\ right.path = Nothing
        BY <3>1 DEF Operand, Literal, Known
      <4> QED BY <4>1
    <3>2. CASE expr[4][1] = "path" /\ expr[4][2] \in Path
      <4>1. right = look(expr[4][2])
        BY <3>2 DEF Operand
      <4> HIDE DEF look, right
      <4> QED BY <1>2, <3>2, <4>1
    <3> QED BY <2>1, <3>1, <3>2
  <2>4. Predicate(expr[3], left, right) \in Results(blames)
    <3> HIDE DEF left, right
    <3> QED BY <2>2, <2>3, PredicateBlames
  <2> QED BY <1>3, <2>4 DEF Result
<1>4. CASE expr[1] \in {"all", "any"}
  <2> DEFINE rs == Each(g, expr[2], item)
  <2>1. item \in Asked(expr, facts, item)
    BY <1>4 DEF Asked
  <2>2. DOMAIN expr[2] \subseteq Nat /\ \A i \in DOMAIN expr[2] : expr[2][i] \in PartsOf(expr)
    BY <1>1, <1>4, Kinds
  <2>3. \A i \in DOMAIN expr[2] : g[<<expr[2][i], item>>] \in Results(blames)
    BY <2>1, <2>2
  <2>4. DOMAIN rs \subseteq Nat /\ \A i \in DOMAIN rs : rs[i] \in Results(blames)
    BY <2>2, <2>3 DEF Each
  <2>5. AllOf(rs) \in Results(blames) /\ AnyOf(rs) \in Results(blames)
    <3> HIDE DEF rs
    <3> QED BY <2>4, OperatorBlames
  <2> QED BY <1>4, <2>5 DEF Result
<1>5. CASE expr[1] = "not"
  <2>1. item \in Asked(expr, facts, item)
    BY <1>5 DEF Asked
  <2>2. g[<<expr[2], item>>] \in Results(blames)
    BY <1>1, <1>5, <2>1, Kinds
  <2> QED BY <1>5, <2>2, NotOfBlames DEF Result
<1>6. CASE expr[1] = "exists"
  <2> DEFINE c == look(expr[2])
             rs == EachElement(g, expr[3], elements)
  <2>1. expr[2] \in Path /\ (expr[3] # <<>> => expr[3][1] \in PartsOf(expr))
    BY <1>1, <1>6, Kinds
  <2>2. /\ c.known \in BOOLEAN /\ c.path = expr[2]
        /\ ~c.known => <<c.path, c.reason>> \in blames
        /\ c.known /\ ~IsArray(c.value) => <<c.path, "not_a_list">> \in blames
        /\ elements \in Seq(Json)
    <3>1. elements = Elements(c)
      BY DEF ElementsOf
    <3> HIDE DEF c, look, elements
    <3>2. c = look(expr[2])
      BY DEF c
    <3> QED BY <1>2, <2>1, <3>1, <3>2
  <2>3. ASSUME NEW i \in DOMAIN elements
        PROVE  rs[i] \in Results(blames)
    <3>1. elements[i] \in Asked(expr, facts, item)
      BY <1>6 DEF Asked
    <3>2. expr[3] # <<>> => g[<<expr[3][1], elements[i]>>] \in Results(blames)
      BY <2>1, <3>1
    <3>3. True \in Results(blames)
      BY DEF Results, True
    <3> HIDE DEF elements
    <3> QED BY <3>2, <3>3 DEF EachElement
  <2>4. DOMAIN rs \subseteq Nat /\ \A i \in DOMAIN rs : rs[i] \in Results(blames)
    <3>1. DOMAIN rs = DOMAIN elements
      <4> HIDE DEF elements
      <4> QED BY DEF EachElement
    <3>2. DOMAIN elements \subseteq Nat
      BY <2>2
    <3> HIDE DEF rs, elements
    <3> QED BY <2>3, <3>1, <3>2
  <2>5. ExistsOf(c, rs) \in Results(blames)
    <3> HIDE DEF c, rs
    <3>1. CASE c.known /\ IsArray(c.value)
      BY <2>4, <3>1, OperatorBlames
    <3>2. CASE ~c.known
      <4> DEFINE b == <<c.path, c.reason>>
      <4>1. b \in blames /\ b[1] = c.path /\ b[2] = c.reason
        BY <2>2, <3>2
      <4>2. UnknownFor(c.path, c.reason) \in Results(blames)
        BY <4>1 DEF Results
      <4> QED BY <3>2, <4>2 DEF ExistsOf
    <3>3. CASE c.known /\ ~IsArray(c.value)
      <4> DEFINE b == <<c.path, "not_a_list">>
      <4>1. b \in blames /\ b[1] = c.path /\ b[2] = "not_a_list"
        BY <2>2, <3>3
      <4>2. UnknownFor(c.path, "not_a_list") \in Results(blames)
        BY <4>1 DEF Results
      <4> QED BY <3>3, <4>2 DEF ExistsOf
    <3> QED BY <2>2, <3>1, <3>2, <3>3
  <2> QED BY <1>6, <2>5 DEF Result
<1> QED BY <1>1, <1>3, <1>4, <1>5, <1>6, Kinds

-----------------------------------------------------------------------------
(* What an unknown answer blames.                                          *)

BlameReasons == {"path_missing", "not_a_list", "redacted"} \union { v[2] : v \in Json }
AnyBlame == Path \X BlameReasons

\* The operands and reasons that explain an unknown result over an input.
Explains(facts, path, reason) ==
    LET operand == Lookup(facts, path)
    IN  IF path[1] = "item"
        THEN facts \in Plain => reason \in {"path_missing", "not_a_list"}
        ELSE IF operand.known THEN reason = "not_a_list" /\ ~IsArray(operand.value)
        ELSE reason = operand.reason
Explanations(facts) == { b \in AnyBlame : Explains(facts, b[1], b[2]) }

\* A reason an operand is missing for.
LEMMA MissingReason ==
    ASSUME NEW path, NEW o, Missing(Json, path, o)
    PROVE  o.reason \in BlameReasons
<1>1. CASE o = Unresolved(path, "path_missing")
  BY <1>1 DEF Unresolved, BlameReasons
<1>2. ASSUME NEW v \in Json, o = Unresolved(path, SentinelReason(v))
      PROVE  o.reason \in BlameReasons
  BY <1>2 DEF Unresolved, SentinelReason, BlameReasons
<1> QED BY <1>1, <1>2 DEF Missing

\* An input that holds no marker misses a path for one reason.
LEMMA PlainReason ==
    ASSUME NEW path, NEW o, Missing(Plain, path, o)
    PROVE  o.reason = "path_missing"
BY InputsAssumption DEF Missing, Unresolved

LEMMA InputsAreJson == Inputs \subseteq Json
<1> SUFFICES ASSUME NEW s \in Subjects, NEW unknown \in SUBSET Holes PROVE s[unknown] \in Json
  BY DEF Inputs
<1> QED BY InputsAssumption

\* The blame a lookup at a place can take, over any input.
LEMMA LookupBlames ==
    ASSUME NEW facts \in Inputs, NEW item \in Json, NEW path \in Path
    PROVE  LET o == LookupPath(path, facts, item)
           IN  /\ ~o.known => <<path, o.reason>> \in AnyBlame
               /\ o.known /\ ~IsArray(o.value) => <<path, "not_a_list">> \in AnyBlame
<1> DEFINE o == LookupPath(path, facts, item)
<1>1. Found(Json, path, o)
  BY LookupFinds, InputsAreJson, InputsAssumption
<1>2. ~o.known => o.reason \in BlameReasons
  BY <1>1, FoundOperand, MissingReason
<1> QED BY <1>2 DEF AnyBlame, BlameReasons

\* Every result is typed.
LEMMA EvalTyped ==
    ASSUME NEW facts \in Inputs, NEW place \in Places
    PROVE  Eval(facts)[place] \in Results(AnyBlame)
<1> DEFINE Good == { p \in Places : Eval(facts)[p] \in Results(AnyBlame) }
<1>1. ASSUME NEW p \in Places, Below(p) \subseteq Good
      PROVE  p \in Good
  <2>1. p[2] \in Json /\ facts \in Json
    BY PlaceParts, InputsAreJson
  <2>2. ASSUME NEW part \in PartsOf(p[1]), NEW asked \in Asked(p[1], facts, p[2])
        PROVE  Eval(facts)[<<part, asked>>] \in Results(AnyBlame)
    <3>1. <<part, asked>> \in Below(p)
      BY PlaceParts
    <3> QED BY <1>1, <3>1
  <2>3. Result(Eval(facts), facts, p[1], p[2]) \in Results(AnyBlame)
    BY <2>1, <2>2, LookupBlames, ResultBlames
  <2> QED BY <2>3, EvalUnfolds
<1>2. Places \subseteq Good
  <2> HIDE DEF Good
  <2> QED BY <1>1, ByDepth
<1> QED BY <1>2

\* The blame a lookup takes explains the result, when an item of an input that
\* holds no marker holds none either.
LEMMA LookupExplains ==
    ASSUME NEW facts \in Inputs, NEW item \in Json, facts \in Plain => item \in Plain, NEW path \in Path
    PROVE  LET o == LookupPath(path, facts, item)
           IN  /\ ~o.known => <<path, o.reason>> \in Explanations(facts)
               /\ o.known /\ ~IsArray(o.value) => <<path, "not_a_list">> \in Explanations(facts)
<1> DEFINE o == LookupPath(path, facts, item)
<1>1. /\ ~o.known => <<path, o.reason>> \in AnyBlame
      /\ o.known /\ ~IsArray(o.value) => <<path, "not_a_list">> \in AnyBlame
  BY LookupBlames
<1>2. CASE path[1] = "item"
  <2>1. facts \in Plain /\ ~o.known => o.reason = "path_missing"
    <3> SUFFICES ASSUME facts \in Plain, ~o.known PROVE o.reason = "path_missing"
      OBVIOUS
    <3>1. Found(Plain, path, o)
      BY LookupFinds, InputsAssumption
    <3>2. Missing(Plain, path, o)
      BY <3>1, FoundOperand
    <3> QED BY <3>2, PlainReason
  <2>2. ~o.known => Explains(facts, path, o.reason)
    BY <1>2, <2>1 DEF Explains
  <2>3. Explains(facts, path, "not_a_list")
    BY <1>2 DEF Explains
  <2>4. \A reason : <<path, reason>> \in AnyBlame /\ Explains(facts, path, reason) =>
            <<path, reason>> \in Explanations(facts)
    BY DEF Explanations
  <2>5. /\ ~o.known => <<path, o.reason>> \in Explanations(facts)
        /\ o.known /\ ~IsArray(o.value) => <<path, "not_a_list">> \in Explanations(facts)
    <3> HIDE DEF o
    <3> QED BY <1>1, <2>2, <2>3, <2>4
  <2> QED BY <2>5
<1>3. CASE path[1] # "item"
  <2>1. o = Lookup(facts, path)
    BY <1>3 DEF LookupPath
  <2>2. ~o.known => Explains(facts, path, o.reason)
    <3> HIDE DEF o
    <3> QED BY <1>3, <2>1 DEF Explains
  <2>3. o.known /\ ~IsArray(o.value) => Explains(facts, path, "not_a_list")
    <3> HIDE DEF o
    <3> QED BY <1>3, <2>1 DEF Explains
  <2>4. \A reason : <<path, reason>> \in AnyBlame /\ Explains(facts, path, reason) =>
            <<path, reason>> \in Explanations(facts)
    BY DEF Explanations
  <2>5. /\ ~o.known => <<path, o.reason>> \in Explanations(facts)
        /\ o.known /\ ~IsArray(o.value) => <<path, "not_a_list">> \in Explanations(facts)
    <3> HIDE DEF o
    <3> QED BY <1>1, <2>2, <2>3, <2>4
  <2> QED BY <2>5
<1> QED BY <1>2, <1>3

\* Every result is decided or explained, unless it is for an item that holds a
\* marker the input does not.
LEMMA EvalExplained ==
    ASSUME NEW facts \in Inputs, NEW place \in Places, facts \in Plain => place[2] \in Plain
    PROVE  Eval(facts)[place] \in Results(Explanations(facts))
<1> DEFINE Fits(p) == facts \in Plain => p[2] \in Plain
           Good == { p \in Places : Fits(p) => Eval(facts)[p] \in Results(Explanations(facts)) }
<1>1. ASSUME NEW p \in Places, Below(p) \subseteq Good
      PROVE  p \in Good
  <2> SUFFICES ASSUME Fits(p) PROVE Eval(facts)[p] \in Results(Explanations(facts))
    OBVIOUS
  <2>1. p[2] \in Json /\ facts \in Json /\ Parsed(p[1])
    BY PlaceParts, InputsAreJson
  <2>2. ASSUME NEW part \in PartsOf(p[1]), NEW asked \in Asked(p[1], facts, p[2])
        PROVE  Eval(facts)[<<part, asked>>] \in Results(Explanations(facts))
    <3>1. <<part, asked>> \in Below(p)
      BY PlaceParts
    <3>2. facts \in Plain => asked \in Plain
      <4> SUFFICES ASSUME facts \in Plain PROVE asked \in Plain
        OBVIOUS
      <4>1. CASE p[1][1] = "exists"
        <5> DEFINE o == LookupPath(p[1][2], facts, p[2])
        <5>1. Found(Plain, p[1][2], o)
          BY <2>1, <4>1, Kinds, LookupFinds, InputsAssumption
        <5>2. Elements(o) \in Seq(Plain)
          BY <5>1, ElementsFound, InputsAssumption
        <5>3. \E i \in DOMAIN Elements(o) : asked = Elements(o)[i]
          BY <4>1 DEF Asked, ElementsOf
        <5> HIDE DEF o
        <5> QED BY <5>2, <5>3
      <4>2. CASE p[1][1] # "exists"
        BY <4>2 DEF Asked
      <4> QED BY <4>1, <4>2
    <3> DEFINE q == <<part, asked>>
    <3>3. q \in Good /\ q[2] = asked
      BY <1>1, <3>1
    <3> HIDE DEF q
    <3>4. Eval(facts)[q] \in Results(Explanations(facts))
      BY <3>2, <3>3
    <3> QED BY <3>4 DEF q
  <2>3. Result(Eval(facts), facts, p[1], p[2]) \in Results(Explanations(facts))
    BY <2>1, <2>2, LookupExplains, ResultBlames
  <2> QED BY <2>3, EvalUnfolds
<1>2. Places \subseteq Good
  <2> HIDE DEF Good
  <2> QED BY <1>1, ByDepth
<1> QED BY <1>2

-----------------------------------------------------------------------------
(* Every run evaluates what it knows.                                      *)

EvaluationInv ==
    /\ subject \in Subjects /\ hidden \subseteq Holes
    /\ input = subject[hidden]
    /\ answer = [a \in Assertions |-> Evaluate(a, input)]

LEMMA EvaluationInit == Init => EvaluationInv
BY DEF Init, EvaluationInv

LEMMA EvaluationStep == EvaluationInv /\ [Next]_vars => EvaluationInv'
<1> SUFFICES ASSUME EvaluationInv, [Next]_vars PROVE EvaluationInv'
  OBVIOUS
<1>1. ASSUME NEW hole \in Holes, Reveal(hole) PROVE EvaluationInv'
  BY <1>1 DEF Reveal, RunOver, EvaluationInv
<1>2. CASE UNCHANGED vars
  BY <1>2 DEF vars, EvaluationInv
<1> QED BY <1>1, <1>2 DEF Next

LEMMA EvaluationInvariant == Spec => []EvaluationInv
BY EvaluationInit, EvaluationStep, PTL DEF Spec

\* What a run evaluates is the subject's input.
LEMMA RunInput ==
    ASSUME EvaluationInv
    PROVE  /\ input \in Inputs /\ input \in Json /\ (hidden = {} => input \in Plain)
           /\ \A a \in Assertions : answer[a] = Evaluate(a, input)
<1>1. input \in Inputs
  BY DEF EvaluationInv, Inputs
<1>2. hidden = {} => input \in Plain
  BY InputsAssumption DEF EvaluationInv
<1>3. \A a \in Assertions : answer[a] = Evaluate(a, input)
  BY DEF EvaluationInv
<1> QED BY <1>1, <1>2, <1>3, InputsAreJson

\* The guard and the check an answer is made of.
LEMMA GuardAndCheck ==
    ASSUME NEW a \in Assertions, NEW facts \in Inputs
    PROVE  /\ Typed(Guard(a, facts)) /\ Typed(Check(a, facts))
           /\ Guard(a, facts) \in Results(Explanations(facts))
           /\ Check(a, facts) \in Results(Explanations(facts))
<1> DEFINE guard == <<GuardOf(a)[1], Null>>
           check == <<a.check, Null>>
<1>1. check \in Places /\ (GuardOf(a) = <<>> \/ guard \in Places)
  BY ExpressionsAssumption
<1>2. check[2] \in Plain /\ guard[2] \in Plain
  BY InputsAssumption
<1>3. Check(a, facts) \in Results(Explanations(facts))
  <2> HIDE DEF check
  <2>1. Eval(facts)[check] \in Results(Explanations(facts))
    BY <1>1, <1>2, EvalExplained
  <2> QED BY <2>1 DEF Check, check
<1>4. Guard(a, facts) \in Results(Explanations(facts))
  <2>1. CASE GuardOf(a) = <<>>
    BY <2>1 DEF Guard, Results, True
  <2>2. CASE GuardOf(a) # <<>>
    <3> HIDE DEF guard
    <3>1. Eval(facts)[guard] \in Results(Explanations(facts))
      BY <1>1, <1>2, <2>2, EvalExplained
    <3> QED BY <2>2, <3>1 DEF Guard, guard
  <2> QED BY <2>1, <2>2
<1> QED BY <1>3, <1>4, ResultsTyped

\* The answer and the operand it blames, from the guard and the check.
LEMMA EvaluateParts ==
    ASSUME NEW a, NEW facts
    PROVE  LET guard == Guard(a, facts)
               check == Check(a, facts)
           IN  /\ Evaluate(a, facts).status = AnswerOf(guard, check)
               /\ guard.status = "unknown" => Evaluate(a, facts).unknown = guard.unknown
               /\ guard.status = "true" => Evaluate(a, facts).unknown = check.unknown
<1> DEFINE guard == Guard(a, facts)
           check == Check(a, facts)
           blamed == CASE guard.status = "unknown" -> guard.unknown
                       [] guard.status = "true" -> check.unknown
                       [] OTHER -> Nothing
<1>1. Evaluate(a, facts) = [status |-> AnswerOf(guard, check), unknown |-> blamed]
  BY DEF Evaluate
<1>2. guard.status = "unknown" => blamed = guard.unknown
  <2> HIDE DEF guard, check
  <2> QED OBVIOUS
<1>3. guard.status = "true" => blamed = check.unknown
  <2> HIDE DEF guard, check
  <2> QED OBVIOUS
<1> HIDE DEF blamed
<1>4. Evaluate(a, facts).status = AnswerOf(guard, check) /\ Evaluate(a, facts).unknown = blamed
  BY <1>1
<1> QED BY <1>2, <1>3, <1>4

\* An unknown answer names an operand that is missing from the input, or no
\* list, with the reason of the marker in its place, for every assertion and
\* every input (compiler/runtime.rego _unknown, _lookup, ir_predicate, ir_exists).
THEOREM UnknownAnswersExplained == Spec => []UnknownIsExplained
<1>1. EvaluationInv => UnknownIsExplained
  <2> SUFFICES ASSUME EvaluationInv, NEW a \in Assertions, answer[a].status = "unknown"
               PROVE  LET path == answer[a].unknown[1]
                          reason == answer[a].unknown[2]
                          operand == Lookup(input, path)
                      IN  IF path[1] = "item"
                          THEN hidden = {} => reason \in {"path_missing", "not_a_list"}
                          ELSE IF operand.known THEN reason = "not_a_list" /\ ~IsArray(operand.value)
                          ELSE reason = operand.reason
    BY DEF UnknownIsExplained
  <2> DEFINE guard == Guard(a, input)
             check == Check(a, input)
  <2>1. /\ Typed(guard) /\ Typed(check)
        /\ guard \in Results(Explanations(input)) /\ check \in Results(Explanations(input))
    BY RunInput, GuardAndCheck
  <2>2. /\ answer[a].status = AnswerOf(guard, check)
        /\ guard.status = "unknown" => answer[a].unknown = guard.unknown
        /\ guard.status = "true" => answer[a].unknown = check.unknown
    <3>1. answer[a] = Evaluate(a, input)
      BY RunInput
    <3> QED BY <3>1, EvaluateParts
  <2>3. \E r \in Results(Explanations(input)) : r.status = "unknown" /\ answer[a].unknown = r.unknown
    <3> HIDE DEF guard, check
    <3>1. CASE guard.status = "unknown"
      BY <2>1, <2>2, <3>1
    <3>2. CASE guard.status = "true" /\ check.status = "unknown"
      BY <2>1, <2>2, <3>2
    <3>3. CASE guard.status = "false" \/ (guard.status = "true" /\ check.status # "unknown")
      <4>1. AnswerOf(guard, check) # "unknown"
        BY <2>1, <3>3 DEF AnswerOf, Typed, Status
      <4> QED BY <2>2, <4>1
    <3> QED BY <2>1, <3>1, <3>2, <3>3 DEF Typed, Status
  <2>4. PICK b \in Explanations(input) : answer[a].unknown = UnknownFor(b[1], b[2]).unknown
    BY <2>3, ResultsTyped
  <2>5. answer[a].unknown[1] = b[1] /\ answer[a].unknown[2] = b[2]
    BY <2>4 DEF UnknownFor
  <2>6. Explains(input, b[1], b[2])
    BY DEF Explanations
  <2>7. hidden = {} => input \in Plain
    BY RunInput
  <2> QED BY <2>5, <2>6, <2>7 DEF Explains
<1> QED BY <1>1, EvaluationInvariant, PTL

-----------------------------------------------------------------------------
(* What a better informed input reads.                                     *)

\* A value and what a better informed input holds in its place.
Informed(v, w) == v = w \/ <<v, w>> \in Reveals

\* So for operands, and a known one's value keeps its shape.
InformedOperand(o, p) ==
    o.known => /\ p.known /\ p.path = o.path
               /\ ~Sentinel(o.value) /\ Informed(o.value, p.value)

\* A value that is no marker keeps its shape.
LEMMA InformedShape ==
    ASSUME NEW v \in Json, NEW w, Informed(v, w), ~Sentinel(v)
    PROVE  /\ v[1] = w[1] /\ ~Sentinel(w) /\ (v \in Plain => w = v)
           /\ IsArray(v) => /\ IsArray(w) /\ v[2] \in Seq(Json) /\ w[2] \in Seq(Json)
                            /\ DOMAIN v[2] = DOMAIN w[2]
                            /\ \A i \in DOMAIN v[2] : Informed(v[2][i], w[2][i])
           /\ IsObject(v) => /\ IsObject(w) /\ DOMAIN v[2] = DOMAIN w[2]
                             /\ \A k \in DOMAIN v[2] : v[2][k] \in Json /\ Informed(v[2][k], w[2][k])
<1>1. w \in Json /\ v[1] = w[1] /\ (v \in Plain => w = v)
  BY InputsAssumption DEF Informed
<1>2. ~Sentinel(w)
  BY <1>1 DEF Sentinel
<1>3. ASSUME IsArray(v)
      PROVE  /\ IsArray(w) /\ v[2] \in Seq(Json) /\ w[2] \in Seq(Json)
             /\ DOMAIN v[2] = DOMAIN w[2]
             /\ \A i \in DOMAIN v[2] : Informed(v[2][i], w[2][i])
  <2>1. IsArray(w)
    BY <1>1, <1>3 DEF IsArray
  <2>2. v[2] \in Seq(Json) /\ w[2] \in Seq(Json)
    BY <1>1, <1>3, <2>1, InputsAssumption DEF Closed
  <2>3. CASE v = w
    BY <2>1, <2>2, <2>3 DEF Informed
  <2>4. CASE <<v, w>> \in Reveals
    <3>1. Len(v[2]) = Len(w[2]) /\ \A i \in DOMAIN v[2] : <<v[2][i], w[2][i]>> \in Reveals
      BY <1>3, <2>4, InputsAssumption
    <3> QED BY <2>1, <2>2, <3>1 DEF Informed
  <2> QED BY <2>3, <2>4 DEF Informed
<1>4. ASSUME IsObject(v)
      PROVE  /\ IsObject(w) /\ DOMAIN v[2] = DOMAIN w[2]
             /\ \A k \in DOMAIN v[2] : v[2][k] \in Json /\ Informed(v[2][k], w[2][k])
  <2>1. IsObject(w)
    BY <1>1, <1>4 DEF IsObject
  <2>2. \A k \in DOMAIN v[2] : v[2][k] \in Json
    BY <1>4, InputsAssumption DEF Closed
  <2>3. CASE v = w
    BY <2>1, <2>2, <2>3 DEF Informed
  <2>4. CASE <<v, w>> \in Reveals
    <3>1. DOMAIN v[2] = DOMAIN w[2] /\ \A k \in DOMAIN v[2] : <<v[2][k], w[2][k]>> \in Reveals
      BY <1>4, <2>4, InputsAssumption
    <3> QED BY <2>1, <2>2, <3>1 DEF Informed
  <2> QED BY <2>3, <2>4 DEF Informed
<1> QED BY <1>1, <1>2, <1>3, <1>4

\* So an operand met over the input and its better informed twin is informed,
LEMMA MetInformed ==
    ASSUME NEW path, NEW v \in Json, NEW w, Informed(v, w)
    PROVE  InformedOperand(Met(Known(path, v)), Met(Known(path, w)))
<1>1. CASE Sentinel(v)
  BY <1>1 DEF InformedOperand, Met, Known, Unresolved
<1>2. CASE ~Sentinel(v)
  <2>1. ~Sentinel(w)
    BY <1>2, InformedShape
  <2> QED BY <1>2, <2>1 DEF InformedOperand, Met, Known
<1> QED BY <1>1, <1>2

\* one name further too,
LEMMA NamedInformed ==
    ASSUME NEW path, NEW o, Found(Json, path, o), NEW p, Found(Json, path, p),
           InformedOperand(o, p), NEW name
    PROVE  InformedOperand(Named(o, name), Named(p, name))
<1>1. CASE ~o.known
  <2>1. Named(o, name) = o
    BY <1>1, FoundOperand DEF Named, Met
  <2> QED BY <1>1, <2>1 DEF InformedOperand
<1>2. CASE o.known
  <2>1. /\ o.value \in Json /\ o = Known(path, o.value) /\ ~Sentinel(o.value)
        /\ p.known /\ p.value \in Json /\ p = Known(path, p.value)
    BY <1>2, FoundOperand DEF InformedOperand
  <2>2. Informed(o.value, p.value)
    BY <1>2 DEF InformedOperand
  <2>3. CASE IsObject(o.value) /\ name \in DOMAIN o.value[2]
    <3> DEFINE v == o.value[2][name]
               w == p.value[2][name]
    <3>1. /\ IsObject(p.value) /\ name \in DOMAIN p.value[2]
          /\ v \in Json /\ Informed(v, w)
      BY <2>1, <2>2, <2>3, InformedShape
    <3>2. Named(o, name) = Met(Known(path, v))
      BY <1>2, <2>1, <2>3, FoundOperand DEF Named
    <3>3. Named(p, name) = Met(Known(path, w))
      BY <1>2, <2>1, <3>1, FoundOperand DEF Named
    <3> HIDE DEF v, w
    <3> QED BY <3>1, <3>2, <3>3, MetInformed
  <2>4. CASE ~(IsObject(o.value) /\ name \in DOMAIN o.value[2])
    <3>1. Named(o, name).known = FALSE
      BY <1>2, <2>4 DEF Named, Met, Unresolved
    <3> QED BY <3>1 DEF InformedOperand
  <2> QED BY <2>3, <2>4
<1> QED BY <1>1, <1>2, FoundOperand

\* and at the end of a path.
LEMMA ResolveInformed ==
    ASSUME NEW path, NEW names, Len(names) \in Nat,
           NEW r1 \in Json, NEW r2 \in Json, Informed(r1, r2)
    PROVE  InformedOperand(Resolve(r1, path, names), Resolve(r2, path, names))
<1>1. PICK at : NameByName(at, r1, path, names) /\ Resolve(r1, path, names) = at[Len(names)]
  BY ResolveSteps
<1>2. PICK bt : NameByName(bt, r2, path, names) /\ Resolve(r2, path, names) = bt[Len(names)]
  BY ResolveSteps
<1>3. \A i \in 0..Len(names) :
          /\ at[i] = IF i = 0 THEN Met(Known(path, r1)) ELSE Named(at[i - 1], names[i])
          /\ bt[i] = IF i = 0 THEN Met(Known(path, r2)) ELSE Named(bt[i - 1], names[i])
  BY <1>1, <1>2, Zenon DEF NameByName
<1> DEFINE Holds(i) == /\ Found(Json, path, at[i]) /\ Found(Json, path, bt[i])
                       /\ InformedOperand(at[i], bt[i])
           Bad == { i \in 0..Len(names) : ~Holds(i) }
<1>4. Bad = {}
  <2> SUFFICES ASSUME Bad # {} PROVE FALSE
    OBVIOUS
  <2>1. PICK k \in Bad : \A j \in Bad : k <= j
    <3>1. Bad \subseteq Nat
      OBVIOUS
    <3> HIDE DEF Bad
    <3> QED BY <3>1, LeastOf
  <2>2. CASE k = 0
    <3>1. at[k] = Met(Known(path, r1)) /\ bt[k] = Met(Known(path, r2))
      BY <1>3, <2>2
    <3>2. Found(Json, path, at[k]) /\ Found(Json, path, bt[k])
      BY <3>1, MetIsFound
    <3>3. InformedOperand(at[k], bt[k])
      BY <3>1, MetInformed
    <3> QED BY <2>1, <3>2, <3>3
  <2>3. CASE k # 0
    <3>1. k - 1 \in 0..Len(names) /\ k - 1 \notin Bad
      BY <2>1, <2>3
    <3>2. Holds(k - 1)
      BY <3>1
    <3>3. at[k] = Named(at[k - 1], names[k]) /\ bt[k] = Named(bt[k - 1], names[k])
      BY <1>3, <2>1, <2>3
    <3>4. Found(Json, path, at[k]) /\ Found(Json, path, bt[k])
      BY <3>2, <3>3, NamedIsFound, InputsAssumption
    <3>5. InformedOperand(at[k], bt[k])
      BY <3>2, <3>3, NamedInformed
    <3> QED BY <2>1, <3>4, <3>5
  <2> QED BY <2>2, <2>3
<1>5. Len(names) \in 0..Len(names)
  OBVIOUS
<1>6. InformedOperand(at[Len(names)], bt[Len(names)])
  BY <1>4, <1>5
<1> HIDE DEF Bad
<1> QED BY <1>1, <1>2, <1>6, Zenon

LEMMA LookupInformed ==
    ASSUME NEW path \in Path, NEW f1 \in Json, NEW f2 \in Json, Informed(f1, f2),
           NEW i1 \in Json, NEW i2 \in Json, Informed(i1, i2)
    PROVE  InformedOperand(LookupPath(path, f1, i1), LookupPath(path, f2, i2))
<1>1. Len(path) \in Nat /\ Len(Tail(path)) \in Nat
  BY DEF Path
<1>2. InformedOperand(Lookup(f1, path), Lookup(f2, path))
  BY <1>1, ResolveInformed DEF Lookup
<1>3. InformedOperand(LookupItem(i1, path), LookupItem(i2, path))
  BY <1>1, ResolveInformed DEF LookupItem
<1> QED BY <1>2, <1>3 DEF LookupPath

-----------------------------------------------------------------------------
(* What a better informed run answers.                                     *)

\* An operand whose value holds no marker is the better informed one too.
LEMMA WholeOperand ==
    ASSUME NEW path, NEW o, NEW p, Found(Json, path, o), Found(Json, path, p),
           InformedOperand(o, p), o.known => o.value \in Plain
    PROVE  Refines(o, p)
<1> SUFFICES ASSUME o.known PROVE p = o
  BY DEF Refines
<1>1. o.value \in Json /\ ~Sentinel(o.value) /\ o = Known(path, o.value)
  BY FoundOperand
<1>2. p.known /\ Informed(o.value, p.value)
  BY DEF InformedOperand
<1>3. p = Known(path, p.value)
  BY <1>2, FoundOperand
<1>4. p.value = o.value
  BY <1>1, <1>2, InformedShape
<1> QED BY <1>1, <1>3, <1>4

\* One step up: a place's result stands when its parts' do.
LEMMA ResultStands ==
    ASSUME OperandsAreWhole(Places),
           NEW f1 \in Inputs, NEW f2 \in Inputs, Informed(f1, f2),
           NEW expr, NEW i1, NEW i2, <<expr, i1>> \in Places, <<expr, i2>> \in Places, Informed(i1, i2),
           NEW g1, NEW g2,
           \A part \in PartsOf(expr), a1 \in Asked(expr, f1, i1), a2 \in Asked(expr, f2, i2) :
               Informed(a1, a2) => Stands(g1[<<part, a1>>], g2[<<part, a2>>]),
           \A part \in PartsOf(expr), a2 \in Asked(expr, f2, i2) : Typed(g2[<<part, a2>>])
    PROVE  Stands(Result(g1, f1, expr, i1), Result(g2, f2, expr, i2))
<1>1. Parsed(expr) /\ i1 \in Json /\ i2 \in Json /\ f1 \in Json /\ f2 \in Json
  <2> DEFINE p1 == <<expr, i1>>
             p2 == <<expr, i2>>
  <2>1. p1[1] = expr /\ p1[2] = i1 /\ p2[2] = i2
    OBVIOUS
  <2> HIDE DEF p1, p2
  <2>2. p1 \in Places /\ p2 \in Places
    BY DEF p1, p2
  <2> QED BY <2>1, <2>2, PlaceParts, InputsAreJson
<1>2. ASSUME NEW path \in Path
      PROVE  /\ Found(Json, path, LookupPath(path, f1, i1))
             /\ Found(Json, path, LookupPath(path, f2, i2))
             /\ InformedOperand(LookupPath(path, f1, i1), LookupPath(path, f2, i2))
  BY <1>1, LookupFinds, LookupInformed, InputsAssumption
<1>3. CASE expr[1] = "predicate"
  <2> DEFINE l1 == LookupPath(expr[2], f1, i1)
             l2 == LookupPath(expr[2], f2, i2)
             r1 == Operand(expr[4], f1, i1)
             r2 == Operand(expr[4], f2, i2)
  <2>1. expr[2] \in Path /\ (expr[4][1] = "literal" \/ (expr[4][1] = "path" /\ expr[4][2] \in Path))
    BY <1>1, <1>3, Kinds
  <2>2. /\ l1.known => l1.value \in Plain
        /\ expr[4][1] = "path" /\ r1.known => r1.value \in Plain
    <3> DEFINE p1 == <<expr, i1>>
    <3>1. p1 \in Places /\ p1[1] = expr /\ p1[2] = i1
      OBVIOUS
    <3> HIDE DEF p1
    <3> QED BY <1>3, <3>1 DEF OperandsAreWhole
  <2>3. Refines(l1, l2) /\ l1.known \in BOOLEAN
    <3>1. Found(Json, expr[2], l1) /\ Found(Json, expr[2], l2) /\ InformedOperand(l1, l2)
      BY <1>2, <2>1
    <3> HIDE DEF l1, l2
    <3> QED BY <2>2, <3>1, WholeOperand, FoundOperand
  <2>4. Refines(r1, r2) /\ r1.known \in BOOLEAN
    <3>1. CASE expr[4][1] = "literal"
      BY <3>1 DEF Operand, Literal, Known, Refines
    <3>2. CASE expr[4][1] = "path" /\ expr[4][2] \in Path
      <4>1. r1 = LookupPath(expr[4][2], f1, i1) /\ r2 = LookupPath(expr[4][2], f2, i2)
        BY <3>2 DEF Operand
      <4>2. Found(Json, expr[4][2], r1) /\ Found(Json, expr[4][2], r2) /\ InformedOperand(r1, r2)
        <5> HIDE DEF r1, r2
        <5> QED BY <1>2, <3>2, <4>1
      <4> HIDE DEF r1, r2
      <4> QED BY <2>2, <3>2, <4>2, WholeOperand, FoundOperand
    <3> QED BY <2>1, <3>1, <3>2
  <2>5. Stands(Predicate(expr[3], l1, r1), Predicate(expr[3], l2, r2))
    <3> HIDE DEF l1, l2, r1, r2
    <3> QED BY <2>3, <2>4, PredicateStands, PredicateTyped
  <2> QED BY <1>3, <2>5 DEF Result
<1>4. CASE expr[1] \in {"all", "any"}
  <2> DEFINE ps == Each(g1, expr[2], i1)
             rs == Each(g2, expr[2], i2)
  <2>1. i1 \in Asked(expr, f1, i1) /\ i2 \in Asked(expr, f2, i2)
    BY <1>4 DEF Asked
  <2>2. DOMAIN expr[2] \subseteq Nat /\ \A i \in DOMAIN expr[2] : expr[2][i] \in PartsOf(expr)
    BY <1>1, <1>4, Kinds
  <2>3. \A i \in DOMAIN expr[2] : Stands(g1[<<expr[2][i], i1>>], g2[<<expr[2][i], i2>>])
    BY <2>1, <2>2
  <2>4. Twins(ps, rs)
    BY <2>2, <2>3 DEF Twins, Each
  <2>5. Stands(AllOf(ps), AllOf(rs)) /\ Stands(AnyOf(ps), AnyOf(rs))
    <3> HIDE DEF ps, rs
    <3> QED BY <2>4, AllOfStands, AnyOfStands
  <2> QED BY <1>4, <2>5 DEF Result
<1>5. CASE expr[1] = "not"
  <2>1. i1 \in Asked(expr, f1, i1) /\ i2 \in Asked(expr, f2, i2)
    BY <1>5 DEF Asked
  <2>2. Stands(g1[<<expr[2], i1>>], g2[<<expr[2], i2>>])
    BY <1>1, <1>5, <2>1, Kinds
  <2> QED BY <1>5, <2>2, NotOfStands DEF Result
<1>6. CASE expr[1] = "exists"
  <2> DEFINE c1 == LookupPath(expr[2], f1, i1)
             c2 == LookupPath(expr[2], f2, i2)
             e1 == ElementsOf(expr, f1, i1)
             e2 == ElementsOf(expr, f2, i2)
             ps == EachElement(g1, expr[3], e1)
             rs == EachElement(g2, expr[3], e2)
  <2>1. expr[2] \in Path /\ (expr[3] # <<>> => expr[3][1] \in PartsOf(expr))
    BY <1>1, <1>6, Kinds
  <2>2. /\ Found(Json, expr[2], c1) /\ Found(Json, expr[2], c2) /\ InformedOperand(c1, c2)
        /\ e1 = Elements(c1) /\ e2 = Elements(c2)
    BY <1>2, <2>1 DEF ElementsOf
  <2>3. /\ \A i \in DOMAIN e1 : e1[i] \in Asked(expr, f1, i1)
        /\ \A i \in DOMAIN e2 : e2[i] \in Asked(expr, f2, i2)
    BY <1>6 DEF Asked
  <2> HIDE DEF c1, c2, e1, e2
  <2>4. c1.known \in BOOLEAN /\ c2.known \in BOOLEAN
    BY <2>2, FoundOperand
  <2>5. ASSUME c1.known
        PROVE  /\ c2.known /\ (IsArray(c2.value) <=> IsArray(c1.value))
               /\ IsArray(c1.value) => /\ DOMAIN e1 = DOMAIN e2
                                       /\ \A i \in DOMAIN e1 : Informed(e1[i], e2[i])
    <3>1. /\ c1.value \in Json /\ ~Sentinel(c1.value)
          /\ c2.known /\ Informed(c1.value, c2.value)
      BY <2>2, <2>5, FoundOperand DEF InformedOperand
    <3>2. IsArray(c2.value) <=> IsArray(c1.value)
      BY <3>1, InformedShape DEF IsArray
    <3>3. ASSUME IsArray(c1.value)
          PROVE  DOMAIN e1 = DOMAIN e2 /\ \A i \in DOMAIN e1 : Informed(e1[i], e2[i])
      <4>1. e1 = c1.value[2] /\ e2 = c2.value[2]
        BY <2>2, <2>5, <3>1, <3>2, <3>3 DEF Elements
      <4> QED BY <3>1, <3>3, <4>1, InformedShape
    <3> QED BY <3>1, <3>2, <3>3
  <2>6. DOMAIN e1 \subseteq Nat /\ DOMAIN e2 \subseteq Nat
    <3>1. e1 \in Seq(Json) /\ e2 \in Seq(Json)
      BY <2>2, ElementsFound, InputsAssumption
    <3> QED BY <3>1
  <2>7. DOMAIN ps = DOMAIN e1 /\ DOMAIN rs = DOMAIN e2
    BY DEF EachElement
  <2>8. \A i \in DOMAIN rs : Typed(rs[i])
    <3>1. Typed(True)
      BY TrueStatus DEF Typed, Status
    <3>2. expr[3] # <<>> => \A i \in DOMAIN e2 : Typed(g2[<<expr[3][1], e2[i]>>])
      BY <2>1, <2>3
    <3> QED BY <3>1, <3>2, <2>7 DEF EachElement
  <2>9. c1.known /\ IsArray(c1.value) => Twins(ps, rs)
    <3> SUFFICES ASSUME c1.known, IsArray(c1.value) PROVE Twins(ps, rs)
      OBVIOUS
    <3>1. Stands(True, True)
      BY TrueStatus DEF Stands, Typed, Status
    <3>2. ASSUME NEW i \in DOMAIN e1, expr[3] # <<>>
          PROVE  Stands(g1[<<expr[3][1], e1[i]>>], g2[<<expr[3][1], e2[i]>>])
      <4>1. e1[i] \in Asked(expr, f1, i1) /\ e2[i] \in Asked(expr, f2, i2) /\ Informed(e1[i], e2[i])
        BY <2>3, <2>5
      <4> QED BY <2>1, <3>2, <4>1
    <3>3. \A i \in DOMAIN ps : Stands(ps[i], rs[i])
      BY <2>5, <2>7, <3>1, <3>2 DEF EachElement
    <3> HIDE DEF ps, rs
    <3> QED BY <2>5, <2>6, <2>7, <3>3 DEF Twins
  <2>10. Collection(c1, c2)
    BY <2>5 DEF Collection
  <2>11. Stands(ExistsOf(c1, ps), ExistsOf(c2, rs))
    <3>1. DOMAIN rs \subseteq Nat
      BY <2>6, <2>7
    <3> HIDE DEF ps, rs
    <3> QED BY <2>4, <2>8, <2>9, <2>10, <3>1, ExistsOfStands
  <2> QED BY <1>6, <2>11 DEF Result, c1, c2, e1, e2
<1> QED BY <1>1, <1>3, <1>4, <1>5, <1>6, Kinds

\* A result that is decided stands, for every expression and every item.
LEMMA EvalStands ==
    ASSUME OperandsAreWhole(Places),
           NEW f1 \in Inputs, NEW f2 \in Inputs, Informed(f1, f2),
           NEW place \in Places, NEW other \in Places,
           other[1] = place[1], Informed(place[2], other[2])
    PROVE  Stands(Eval(f1)[place], Eval(f2)[other])
<1> DEFINE Good == { p \in Places : \A q \in Places :
                       q[1] = p[1] /\ Informed(p[2], q[2]) => Stands(Eval(f1)[p], Eval(f2)[q]) }
<1>1. ASSUME NEW p \in Places, Below(p) \subseteq Good
      PROVE  p \in Good
  <2> SUFFICES ASSUME NEW q \in Places, q[1] = p[1], Informed(p[2], q[2])
               PROVE  Stands(Eval(f1)[p], Eval(f2)[q])
    OBVIOUS
  <2>1. <<p[1], p[2]>> \in Places /\ <<p[1], q[2]>> \in Places
    <3>1. p = <<p[1], p[2]>> /\ q = <<q[1], q[2]>>
      BY ExpressionsAssumption
    <3> QED BY <3>1
  <2>2. ASSUME NEW part \in PartsOf(p[1]), NEW a1 \in Asked(p[1], f1, p[2]),
               NEW a2 \in Asked(p[1], f2, q[2]), Informed(a1, a2)
        PROVE  Stands(Eval(f1)[<<part, a1>>], Eval(f2)[<<part, a2>>])
    <3> DEFINE pp == <<part, a1>>
               qq == <<part, a2>>
    <3>1. pp \in Below(p) /\ qq \in Below(q)
      BY <2>2, PlaceParts
    <3>2. qq \in Places /\ qq[1] = pp[1] /\ Informed(pp[2], qq[2])
      BY <2>2, <3>1 DEF Below
    <3>3. pp \in Good
      BY <1>1, <3>1
    <3> HIDE DEF pp, qq
    <3>4. Stands(Eval(f1)[pp], Eval(f2)[qq])
      BY <3>2, <3>3
    <3> QED BY <3>4 DEF pp, qq
  <2>3. ASSUME NEW part \in PartsOf(p[1]), NEW a2 \in Asked(p[1], f2, q[2])
        PROVE  Typed(Eval(f2)[<<part, a2>>])
    <3>1. <<part, a2>> \in Places
      BY PlaceParts DEF Below
    <3> QED BY <3>1, EvalTyped, ResultsTyped
  <2>4. Stands(Result(Eval(f1), f1, p[1], p[2]), Result(Eval(f2), f2, p[1], q[2]))
    <3> HIDE DEF Good
    <3> QED BY <2>1, <2>2, <2>3, ResultStands
  <2> QED BY <2>4, EvalUnfolds
<1>2. Places \subseteq Good
  <2> HIDE DEF Good
  <2> QED BY <1>1, ByDepth
<1> QED BY <1>2

\* So does an answer.
LEMMA AnswerStands ==
    ASSUME OperandsAreWhole(Places),
           NEW f1 \in Inputs, NEW f2 \in Inputs, Informed(f1, f2), NEW a \in Assertions
    PROVE  Evaluate(a, f1).status \in {"unknown", Evaluate(a, f2).status}
<1> DEFINE guard == <<GuardOf(a)[1], Null>>
           check == <<a.check, Null>>
<1>1. check \in Places /\ (GuardOf(a) = <<>> \/ guard \in Places)
  BY ExpressionsAssumption
<1>2. Stands(Check(a, f1), Check(a, f2))
  <2> HIDE DEF check
  <2>1. Stands(Eval(f1)[check], Eval(f2)[check])
    BY <1>1, EvalStands DEF Informed
  <2> QED BY <2>1 DEF Check, check
<1>3. Stands(Guard(a, f1), Guard(a, f2))
  <2>1. CASE GuardOf(a) = <<>>
    BY <2>1, TrueStatus DEF Guard, Stands, Typed, Status
  <2>2. CASE GuardOf(a) # <<>>
    <3> HIDE DEF guard
    <3>1. Stands(Eval(f1)[guard], Eval(f2)[guard])
      BY <1>1, <2>2, EvalStands DEF Informed
    <3> QED BY <2>2, <3>1 DEF Guard, guard
  <2> QED BY <2>1, <2>2
<1>4. AnswerOf(Guard(a, f1), Check(a, f1)) \in {"unknown", AnswerOf(Guard(a, f2), Check(a, f2))}
  BY <1>2, <1>3 DEF AnswerOf, Stands, Typed, Status
<1> QED BY <1>4, EvaluateParts

LEMMA SubjectInput ==
    ASSUME NEW s \in Subjects, NEW unknown \in SUBSET Holes
    PROVE  s[unknown] \in Inputs
BY DEF Inputs

\* A pass, a fail or a not_applicable stays one in every better informed run,
\* for every assertion no predicate of which reads a value that holds a marker
\* inside it (compiler/emit.py, compiler/runtime.rego).
THEOREM AnswersNeverChange ==
    ASSUME OperandsAreWhole(Places)
    PROVE  Spec => AnswersStand
<1>1. EvaluationInv /\ [Next]_vars =>
        [\A a \in Assertions : answer[a].status \in {"unknown", answer'[a].status}]_vars
  <2> SUFFICES ASSUME EvaluationInv, NEW hole \in Holes, Reveal(hole), NEW a \in Assertions
               PROVE  answer[a].status \in {"unknown", answer'[a].status}
    BY DEF Next
  <2>1. answer[a] = Evaluate(a, input) /\ input \in Inputs
    BY RunInput
  <2>3. answer'[a] = Evaluate(a, input')
    BY DEF Reveal, RunOver
  <2>4. subject \in Subjects /\ hidden \in SUBSET Holes /\ hole \in hidden
    BY DEF EvaluationInv, Reveal
  <2>5. input = subject[hidden] /\ input' = subject[hidden \ {hole}]
    BY DEF EvaluationInv, Reveal, RunOver
  <2>6. Informed(input, input')
    BY <2>4, <2>5, InputsAssumption DEF Informed
  <2>7. input' \in Inputs
    <3>1. hidden \ {hole} \in SUBSET Holes
      BY <2>4
    <3>2. subject[hidden \ {hole}] \in Inputs
      BY <2>4, <3>1, SubjectInput
    <3> QED BY <2>5, <3>2
  <2> QED BY <2>1, <2>3, <2>6, <2>7, AnswerStands
<1> QED BY <1>1, EvaluationInvariant, PTL DEF Spec, AnswersStand

-----------------------------------------------------------------------------
(* What a target's selectors say of an answer.                             *)

\* The two predicates of a selector, and what each decides of a resource.
IsItsProvider(selector) == Pred(<<"item", "provider">>, "equal", Lit(selector.provider))
IsItsKind(selector) == Pred(<<"item", "kind">>, "in", Lit(Array(selector.kinds)))
ItsResource(selector) == AllExpr(<<IsItsProvider(selector), IsItsKind(selector)>>)
Resources == <<"change", "resources">>

LEMMA ProviderDecides ==
    ASSUME NEW selector, NEW facts \in Inputs, NEW item,
           <<IsItsProvider(selector), item>> \in Places
    PROVE  LET result == Eval(facts)[<<IsItsProvider(selector), item>>]
               provider == LookupItem(item, <<"item", "provider">>)
           IN  /\ result.status = "true" => provider.known /\ provider.value = selector.provider
               /\ result.status = "false" => provider.known /\ provider.value # selector.provider
<1> DEFINE place == <<IsItsProvider(selector), item>>
           result == Eval(facts)[place]
           provider == LookupItem(item, <<"item", "provider">>)
<1>1. /\ IsItsProvider(selector)[1] = "predicate" /\ IsItsProvider(selector)[2] = <<"item", "provider">>
      /\ IsItsProvider(selector)[3] = "equal" /\ IsItsProvider(selector)[4] = Lit(selector.provider)
  BY DEF IsItsProvider, Pred
<1>2. place \in Places /\ place[1] = IsItsProvider(selector) /\ place[2] = item
  OBVIOUS
<1>3. result = Result(Eval(facts), facts, IsItsProvider(selector), item)
  <2> HIDE DEF place
  <2> QED BY <1>2, EvalUnfolds
<1>4. LookupPath(<<"item", "provider">>, facts, item) = provider
  BY DEF LookupPath
<1>5. Operand(Lit(selector.provider), facts, item) = Literal(selector.provider)
  BY DEF Operand, Lit
<1>6. result = Predicate("equal", provider, Literal(selector.provider))
  <2> HIDE DEF provider, result
  <2> QED BY <1>1, <1>3, <1>4, <1>5 DEF Result
<1> HIDE DEF provider, result
<1>7. result = IF ~provider.known THEN UnknownFor(provider.path, provider.reason)
               ELSE Decided(provider.value = selector.provider)
  BY <1>6 DEF Predicate, Literal, Known, Compare, ListOperators
<1>8. result.status = IF ~provider.known THEN "unknown"
                      ELSE IF provider.value = selector.provider THEN "true" ELSE "false"
  BY <1>7 DEF UnknownFor, Decided
<1>9. /\ result.status = "true" => provider.known /\ provider.value = selector.provider
      /\ result.status = "false" => provider.known /\ provider.value # selector.provider
  BY <1>8
<1> QED BY <1>9 DEF provider, result

LEMMA KindDecides ==
    ASSUME NEW selector, NEW facts \in Inputs, NEW item,
           <<IsItsKind(selector), item>> \in Places
    PROVE  LET result == Eval(facts)[<<IsItsKind(selector), item>>]
               found == LookupItem(item, <<"item", "kind">>)
           IN  /\ result.status = "true" => found.known /\ Member(found.value, Array(selector.kinds))
               /\ result.status = "false" => found.known /\ ~Member(found.value, Array(selector.kinds))
<1> DEFINE place == <<IsItsKind(selector), item>>
           result == Eval(facts)[place]
           found == LookupItem(item, <<"item", "kind">>)
           kinds == Array(selector.kinds)
<1>1. /\ IsItsKind(selector)[1] = "predicate" /\ IsItsKind(selector)[2] = <<"item", "kind">>
      /\ IsItsKind(selector)[3] = "in" /\ IsItsKind(selector)[4] = Lit(kinds)
  BY DEF IsItsKind, Pred
<1>2. place \in Places /\ place[1] = IsItsKind(selector) /\ place[2] = item
  OBVIOUS
<1>3. result = Result(Eval(facts), facts, IsItsKind(selector), item)
  <2> HIDE DEF place
  <2> QED BY <1>2, EvalUnfolds
<1>4. LookupPath(<<"item", "kind">>, facts, item) = found
  BY DEF LookupPath
<1>5. Operand(Lit(kinds), facts, item) = Literal(kinds)
  BY DEF Operand, Lit
<1>6. result = Predicate("in", found, Literal(kinds))
  <2> HIDE DEF found, result, kinds
  <2> QED BY <1>1, <1>3, <1>4, <1>5 DEF Result
<1> HIDE DEF found, result, kinds
<1>7. result = IF ~found.known THEN UnknownFor(found.path, found.reason)
               ELSE Decided(Member(found.value, kinds))
  BY <1>6 DEF Predicate, Literal, Known, Compare, ListOperators
<1>8. result.status = IF ~found.known THEN "unknown"
                      ELSE IF Member(found.value, kinds) THEN "true" ELSE "false"
  BY <1>7 DEF UnknownFor, Decided
<1>9. /\ result.status = "true" => found.known /\ Member(found.value, kinds)
      /\ result.status = "false" => found.known /\ ~Member(found.value, kinds)
  BY <1>8
<1> QED BY <1>9 DEF found, result, kinds

\* A conjunction of two at a place.
LEMMA BothDecide ==
    ASSUME NEW facts \in Inputs, NEW e1, NEW e2, NEW item, <<AllExpr(<<e1, e2>>), item>> \in Places
    PROVE  LET result == Eval(facts)[<<AllExpr(<<e1, e2>>), item>>]
               r1 == Eval(facts)[<<e1, item>>]
               r2 == Eval(facts)[<<e2, item>>]
           IN  /\ <<e1, item>> \in Places /\ <<e2, item>> \in Places
               /\ result.status = "true" => r1.status = "true" /\ r2.status = "true"
               /\ result.status = "false" => r1.status = "false" \/ r2.status = "false"
<1> DEFINE expr == AllExpr(<<e1, e2>>)
           place == <<expr, item>>
           r1 == Eval(facts)[<<e1, item>>]
           r2 == Eval(facts)[<<e2, item>>]
           rs == Each(Eval(facts), <<e1, e2>>, item)
           result == Eval(facts)[place]
<1>1. expr[1] = "all" /\ expr[2] = <<e1, e2>>
  BY DEF AllExpr
<1>2. place \in Places /\ place[1] = expr /\ place[2] = item
  OBVIOUS
<1>3. e1 \in PartsOf(expr) /\ e2 \in PartsOf(expr) /\ item \in Asked(expr, facts, item)
  BY <1>1 DEF PartsOf, Asked
<1>4. <<e1, item>> \in Places /\ <<e2, item>> \in Places
  <2> HIDE DEF expr, place
  <2> QED BY <1>2, <1>3, PlaceParts DEF Below
<1>5. result = Result(Eval(facts), facts, expr, item)
  <2> HIDE DEF place, expr
  <2> QED BY <1>2, EvalUnfolds
<1>6. result = AllOf(rs)
  <2> HIDE DEF expr, result, rs
  <2> QED BY <1>1, <1>5 DEF Result, rs
<1>7. DOMAIN rs = 1..2 /\ rs[1] = r1 /\ rs[2] = r2
  <2> HIDE DEF expr
  <2> QED BY DEF Each
<1>8. Typed(r1) /\ Typed(r2)
  BY <1>4, EvalTyped, ResultsTyped
<1> HIDE DEF rs, r1, r2, result, expr, place
<1>9. DOMAIN rs \subseteq Nat /\ \A i \in DOMAIN rs : Typed(rs[i])
  BY <1>7, <1>8
<1>10. result.status = IF Some(rs, "false") THEN "false"
                       ELSE IF Some(rs, "unknown") THEN "unknown" ELSE "true"
  BY <1>6, <1>9, AllOfStatus
<1>11. /\ result.status = "true" => r1.status = "true" /\ r2.status = "true"
       /\ result.status = "false" => r1.status = "false" \/ r2.status = "false"
  BY <1>7, <1>8, <1>10 DEF Some, Typed, Status
<1> QED BY <1>4, <1>11 DEF r1, r2, result, expr, place

\* Both of a selector's predicates.
LEMMA ResourceDecides ==
    ASSUME NEW facts \in Inputs, NEW selector, NEW item, <<ItsResource(selector), item>> \in Places
    PROVE  LET result == Eval(facts)[<<ItsResource(selector), item>>]
           IN  /\ result.status = "true" => Picked(selector, item)
               /\ result.status = "false" => RuledOut(selector, item)
<1> DEFINE e1 == IsItsProvider(selector)
           e2 == IsItsKind(selector)
           result == Eval(facts)[<<ItsResource(selector), item>>]
           r1 == Eval(facts)[<<e1, item>>]
           r2 == Eval(facts)[<<e2, item>>]
<1>1. /\ <<e1, item>> \in Places /\ <<e2, item>> \in Places
      /\ result.status = "true" => r1.status = "true" /\ r2.status = "true"
      /\ result.status = "false" => r1.status = "false" \/ r2.status = "false"
  BY BothDecide DEF ItsResource
<1>2. r1.status = "true" /\ r2.status = "true" => Picked(selector, item)
  BY <1>1, ProviderDecides, KindDecides DEF Picked
<1>3. r1.status = "false" \/ r2.status = "false" => RuledOut(selector, item)
  BY <1>1, ProviderDecides, KindDecides DEF RuledOut
<1> HIDE DEF e1, e2, r1, r2, result
<1>4. /\ result.status = "true" => Picked(selector, item)
      /\ result.status = "false" => RuledOut(selector, item)
  BY <1>1, <1>2, <1>3
<1> QED BY <1>4 DEF result

\* One selector, over the resources the input lists.
LEMMA SelectorDecides ==
    ASSUME NEW facts \in Inputs, NEW selector, <<Picks(selector), Null>> \in Places
    PROVE  LET result == Eval(facts)[<<Picks(selector), Null>>]
               resources == Lookup(facts, Resources)
               each == Elements(resources)
           IN  /\ result.status = "true" => \E i \in DOMAIN each : Picked(selector, each[i])
               /\ result.status = "false" =>
                     /\ resources.known /\ IsArray(resources.value)
                     /\ \A i \in DOMAIN each : RuledOut(selector, each[i])
<1> DEFINE expr == Picks(selector)
           place == <<expr, Null>>
           result == Eval(facts)[place]
           where == ItsResource(selector)
           resources == Lookup(facts, Resources)
           each == Elements(resources)
           rs == EachElement(Eval(facts), <<where>>, each)
<1>1. expr[1] = "exists" /\ expr[2] = Resources /\ expr[3] = <<where>>
  BY DEF Picks, Exists, ItsResource, IsItsProvider, IsItsKind, Resources
<1>2. place \in Places /\ place[1] = expr /\ place[2] = Null
  OBVIOUS
<1> HIDE DEF expr, place, where
<1>3. LookupPath(Resources, facts, Null) = resources
  BY DEF LookupPath, Resources
<1>4. ElementsOf(expr, facts, Null) = each
  <2> HIDE DEF resources
  <2> QED BY <1>1, <1>3 DEF ElementsOf
<1>5. Found(Json, Resources, resources)
  <2>1. Resources \in Path
    <3>1. Parsed(expr)
      BY <1>2, PlaceParts
    <3> QED BY <1>1, <3>1, Kinds
  <2>2. Null \in Json /\ facts \in Json
    BY <1>2, PlaceParts, InputsAreJson
  <2> QED BY <1>3, <2>1, <2>2, LookupFinds, InputsAssumption
<1> HIDE DEF resources
<1>6. resources.known \in BOOLEAN /\ each \in Seq(Json)
  BY <1>5, FoundOperand, ElementsFound, InputsAssumption
<1>7. result = ExistsOf(resources, rs)
  <2>1. result = Result(Eval(facts), facts, expr, Null)
    BY <1>2, EvalUnfolds
  <2> HIDE DEF result, rs, each
  <2> QED BY <1>1, <1>3, <1>4, <2>1 DEF Result, rs
<1>8. \A i \in DOMAIN each : <<where, each[i]>> \in Places
  <2>1. where \in PartsOf(expr)
    BY <1>1 DEF PartsOf
  <2>2. \A i \in DOMAIN each : each[i] \in Asked(expr, facts, Null)
    <3> HIDE DEF each
    <3> QED BY <1>1, <1>4 DEF Asked
  <2> QED BY <1>2, <2>1, <2>2, PlaceParts DEF Below
<1> HIDE DEF each
<1>9. DOMAIN rs = DOMAIN each /\ \A i \in DOMAIN each : rs[i] = Eval(facts)[<<where, each[i]>>]
  BY DEF EachElement
<1> HIDE DEF rs, result
<1>10. \A i \in DOMAIN each : /\ Typed(rs[i])
                              /\ rs[i].status = "true" => Picked(selector, each[i])
                              /\ rs[i].status = "false" => RuledOut(selector, each[i])
  BY <1>8, <1>9, EvalTyped, ResultsTyped, ResourceDecides DEF where
<1>11. CASE resources.known /\ IsArray(resources.value)
  <2>1. DOMAIN rs \subseteq Nat
    BY <1>6, <1>9
  <2>2. result.status = IF Some(rs, "true") THEN "true"
                        ELSE IF Some(rs, "unknown") THEN "unknown" ELSE "false"
    BY <1>7, <1>9, <1>10, <1>11, <2>1, ExistsOfStatus
  <2>3. result.status = "true" => \E i \in DOMAIN each : Picked(selector, each[i])
    BY <1>9, <1>10, <2>2 DEF Some
  <2>4. result.status = "false" => \A i \in DOMAIN each : RuledOut(selector, each[i])
    BY <1>9, <1>10, <2>2 DEF Some, Typed, Status
  <2> QED BY <1>11, <2>3, <2>4 DEF result, resources, each, place, expr
<1>12. CASE ~(resources.known /\ IsArray(resources.value))
  <2>1. result.status = "unknown"
    BY <1>6, <1>7, <1>12, UnknownForStatus DEF ExistsOf
  <2> QED BY <2>1 DEF result, resources, each, place, expr
<1> QED BY <1>11, <1>12

\* All of a target's selectors.
LEMMA ScopeDecides ==
    ASSUME NEW facts \in Inputs, NEW selectors, Len(selectors) \in Nat, DOMAIN selectors = 1..Len(selectors),
           selectors # <<>>, Len(selectors) # 0, <<ScopeGuard(selectors)[1], Null>> \in Places
    PROVE  LET result == Eval(facts)[<<ScopeGuard(selectors)[1], Null>>]
               resources == Lookup(facts, Resources)
               each == Elements(resources)
           IN  /\ result.status = "true" =>
                     \E i \in DOMAIN each, s \in DOMAIN selectors : Picked(selectors[s], each[i])
               /\ result.status = "false" =>
                     /\ resources.known /\ IsArray(resources.value)
                     /\ \A i \in DOMAIN each, s \in DOMAIN selectors : RuledOut(selectors[s], each[i])
<1> DEFINE scope == ScopeGuard(selectors)[1]
           place == <<scope, Null>>
           result == Eval(facts)[place]
           resources == Lookup(facts, Resources)
           each == Elements(resources)
<1>0. place \in Places /\ place[1] = scope /\ place[2] = Null
  OBVIOUS
<1>1. ASSUME NEW s \in DOMAIN selectors, <<Picks(selectors[s]), Null>> \in Places
      PROVE  LET r == Eval(facts)[<<Picks(selectors[s]), Null>>]
             IN  /\ Typed(r)
                 /\ r.status = "true" => \E i \in DOMAIN each : Picked(selectors[s], each[i])
                 /\ r.status = "false" => /\ resources.known /\ IsArray(resources.value)
                                          /\ \A i \in DOMAIN each : RuledOut(selectors[s], each[i])
  BY <1>1, SelectorDecides, EvalTyped, ResultsTyped
<1>2. CASE Len(selectors) = 1
  <2>1. scope = Picks(selectors[1]) /\ DOMAIN selectors = {1}
    BY <1>2 DEF ScopeGuard
  <2> HIDE DEF each, resources, scope
  <2>2. /\ result.status = "true" => \E i \in DOMAIN each : Picked(selectors[1], each[i])
        /\ result.status = "false" => /\ resources.known /\ IsArray(resources.value)
                                      /\ \A i \in DOMAIN each : RuledOut(selectors[1], each[i])
    BY <1>0, <1>1, <2>1
  <2> HIDE DEF result
  <2>3. /\ result.status = "true" =>
              \E i \in DOMAIN each, s \in DOMAIN selectors : Picked(selectors[s], each[i])
        /\ result.status = "false" =>
              /\ resources.known /\ IsArray(resources.value)
              /\ \A i \in DOMAIN each, s \in DOMAIN selectors : RuledOut(selectors[s], each[i])
    BY <2>1, <2>2
  <2> QED BY <2>3 DEF result, resources, each, scope
<1>3. CASE Len(selectors) > 1
  <2> DEFINE args == [i \in DOMAIN selectors |-> Picks(selectors[i])]
             rs == Each(Eval(facts), args, Null)
  <2>1. scope = AnyExpr(args)
    BY <1>3 DEF ScopeGuard
  <2>2. scope[1] = "any" /\ scope[2] = args
    <3> HIDE DEF args, scope
    <3> QED BY <2>1 DEF AnyExpr
  <2>3. DOMAIN args = DOMAIN selectors /\ \A s \in DOMAIN selectors : args[s] = Picks(selectors[s])
    OBVIOUS
  <2> HIDE DEF args, scope, each, resources
  <2>4. \A s \in DOMAIN selectors : <<Picks(selectors[s]), Null>> \in Places
    <3>1. \A s \in DOMAIN selectors : Picks(selectors[s]) \in PartsOf(scope)
      BY <2>2, <2>3 DEF PartsOf
    <3>2. Null \in Asked(scope, facts, Null)
      BY <2>2 DEF Asked
    <3> HIDE DEF place
    <3> QED BY <1>0, <3>1, <3>2, PlaceParts DEF Below
  <2>5. result = AnyOf(rs)
    <3>1. result = Result(Eval(facts), facts, scope, Null)
      <4> HIDE DEF place
      <4> QED BY <1>0, EvalUnfolds
    <3> HIDE DEF result
    <3> QED BY <2>2, <3>1 DEF Result
  <2>6. /\ DOMAIN rs = DOMAIN selectors
        /\ \A s \in DOMAIN selectors : rs[s] = Eval(facts)[<<Picks(selectors[s]), Null>>]
    BY <2>3 DEF Each
  <2> HIDE DEF rs, result
  <2>7. \A s \in DOMAIN selectors :
           /\ Typed(rs[s])
           /\ rs[s].status = "true" => \E i \in DOMAIN each : Picked(selectors[s], each[i])
           /\ rs[s].status = "false" => /\ resources.known /\ IsArray(resources.value)
                                        /\ \A i \in DOMAIN each : RuledOut(selectors[s], each[i])
    BY <1>1, <2>4, <2>6
  <2>8. result.status = IF Some(rs, "true") THEN "true"
                        ELSE IF Some(rs, "unknown") THEN "unknown" ELSE "false"
    <3>1. DOMAIN rs \subseteq Nat /\ \A s \in DOMAIN rs : Typed(rs[s])
      BY <2>6, <2>7
    <3> QED BY <2>5, <3>1, AnyOfStatus
  <2>9. result.status = "true" =>
              \E i \in DOMAIN each, s \in DOMAIN selectors : Picked(selectors[s], each[i])
    BY <2>6, <2>7, <2>8 DEF Some
  <2>10. result.status = "false" =>
              /\ resources.known /\ IsArray(resources.value)
              /\ \A i \in DOMAIN each, s \in DOMAIN selectors : RuledOut(selectors[s], each[i])
    <3> SUFFICES ASSUME result.status = "false"
                 PROVE  /\ resources.known /\ IsArray(resources.value)
                        /\ \A i \in DOMAIN each, s \in DOMAIN selectors : RuledOut(selectors[s], each[i])
      OBVIOUS
    <3>1. \A s \in DOMAIN selectors : rs[s].status = "false"
      BY <2>6, <2>7, <2>8 DEF Some, Typed, Status
    <3>2. 1 \in DOMAIN selectors
      BY <1>3
    <3> QED BY <2>7, <3>1, <3>2
  <2> QED BY <2>9, <2>10 DEF result, resources, each, scope
<1> QED BY <1>2, <1>3

\* No assertion passes or fails but for a resource one of its selectors picks,
\* nor is out of scope by its selectors alone unless they rule every resource
\* out, for every target and every input (ast/scope.py scope_guard).
THEOREM ScopeAlwaysRespected == Spec => []ScopeIsRespected
<1>1. EvaluationInv => ScopeIsRespected
  <2> SUFFICES ASSUME EvaluationInv, NEW a \in Assertions, a.selectors # <<>>
               PROVE  LET resources == Lookup(input, Resources)
                          each == Elements(resources)
                      IN  /\ answer[a].status \in {"pass", "fail"} =>
                                \E i \in DOMAIN each, s \in DOMAIN a.selectors :
                                    Picked(a.selectors[s], each[i])
                          /\ answer[a].status = "not_applicable" /\ a.when = <<>> =>
                                /\ resources.known /\ IsArray(resources.value)
                                /\ \A i \in DOMAIN each, s \in DOMAIN a.selectors :
                                      RuledOut(a.selectors[s], each[i])
    BY DEF ScopeIsRespected, Resources
  <2> DEFINE selectors == a.selectors
             scope == ScopeGuard(selectors)
             place == <<scope[1], Null>>
             guard == Guard(a, input)
             check == Check(a, input)
             result == Eval(input)[place]
             resources == Lookup(input, Resources)
             each == Elements(resources)
  <2>1. /\ input \in Inputs /\ answer[a] = Evaluate(a, input)
        /\ Typed(guard) /\ Typed(check) /\ answer[a].status = AnswerOf(guard, check)
    BY RunInput, GuardAndCheck, EvaluateParts
  <2>2. /\ answer[a].status \in {"pass", "fail"} => guard.status = "true"
        /\ answer[a].status = "not_applicable" => guard.status = "false"
    <3> HIDE DEF guard, check
    <3> QED BY <2>1 DEF AnswerOf, Typed, Status
  <2>3. /\ Len(selectors) \in Nat /\ DOMAIN selectors = 1..Len(selectors) /\ Len(selectors) # 0
        /\ scope # <<>>
    <3>1. selectors \in Seq([provider : Json, kinds : Seq(Json)])
      BY ExpressionsAssumption
    <3>2. Len(selectors) \in Nat /\ DOMAIN selectors = 1..Len(selectors) /\ Len(selectors) # 0
      BY <3>1
    <3>3. Len(scope) = 1
      BY <3>2 DEF ScopeGuard
    <3>4. Len(<<>>) = 0
      OBVIOUS
    <3> QED BY <3>2, <3>3, <3>4
  <2>4. /\ place \in Places
        /\ guard.status = "true" => result.status = "true"
        /\ guard.status = "false" /\ a.when = <<>> => result.status = "false"
    <3>1. CASE a.when = <<>>
      <4>1. GuardOf(a) = scope
        <5> HIDE DEF scope
        <5> QED BY <2>3, <3>1 DEF GuardOf, Guarded, scope, selectors
      <4>2. place \in Places
        BY <2>3, <4>1, ExpressionsAssumption
      <4>3. guard = result
        BY <2>3, <4>1 DEF Guard
      <4> QED BY <4>2, <4>3
    <3>2. CASE a.when # <<>>
      <4> DEFINE both == AllExpr(<<scope[1], a.when[1]>>)
      <4>1. GuardOf(a) = <<both>>
        <5> HIDE DEF scope
        <5> QED BY <2>3, <3>2 DEF GuardOf, Guarded, scope, selectors
      <4>2. GuardOf(a) # <<>> /\ GuardOf(a)[1] = both
        BY <4>1
      <4>3. <<both, Null>> \in Places
        BY <4>2, ExpressionsAssumption
      <4>4. guard = Eval(input)[<<both, Null>>]
        BY <4>2 DEF Guard
      <4>5. /\ place \in Places
            /\ Eval(input)[<<both, Null>>].status = "true" => result.status = "true"
        <5> DEFINE first == scope[1]
                   second == a.when[1]
        <5> HIDE DEF first, second
        <5>1. <<AllExpr(<<first, second>>), Null>> \in Places
          BY <4>3 DEF first, second
        <5>2. /\ <<first, Null>> \in Places
              /\ Eval(input)[<<AllExpr(<<first, second>>), Null>>].status = "true" =>
                    Eval(input)[<<first, Null>>].status = "true"
          <6> HIDE DEF selectors, scope, place, both, guard, check, result, resources, each
          <6> QED BY <2>1, <5>1, BothDecide
        <5> QED BY <5>2 DEF first, second
      <4> QED BY <3>2, <4>4, <4>5
    <3> QED BY <3>1, <3>2
  <2>5. /\ result.status = "true" =>
              \E i \in DOMAIN each, s \in DOMAIN selectors : Picked(selectors[s], each[i])
        /\ result.status = "false" =>
              /\ resources.known /\ IsArray(resources.value)
              /\ \A i \in DOMAIN each, s \in DOMAIN selectors : RuledOut(selectors[s], each[i])
    BY <2>1, <2>3, <2>4, ScopeDecides
  <2>6. /\ answer[a].status \in {"pass", "fail"} =>
              \E i \in DOMAIN each, s \in DOMAIN selectors : Picked(selectors[s], each[i])
        /\ answer[a].status = "not_applicable" /\ a.when = <<>> =>
              /\ resources.known /\ IsArray(resources.value)
              /\ \A i \in DOMAIN each, s \in DOMAIN selectors : RuledOut(selectors[s], each[i])
    <3> HIDE DEF result, guard, check, each, resources, selectors
    <3> QED BY <2>2, <2>4, <2>5
  <2> QED BY <2>6
<1> QED BY <1>1, EvaluationInvariant, PTL

-----------------------------------------------------------------------------
(* ImageReading: the shipped assertion over a reading.                     *)

\* What a path of one name, of two and of three finds.
LEMMA ResolveOne ==
    ASSUME NEW root, NEW path, NEW a
    PROVE  Resolve(root, path, <<a>>) = Named(Met(Known(path, root)), a)
<1> DEFINE names == <<a>>
<1>1. Len(names) = 1 /\ names[1] = a
  OBVIOUS
<1> HIDE DEF names
<1>2. PICK at : NameByName(at, root, path, names) /\ Resolve(root, path, names) = at[Len(names)]
  <2>1. Len(names) \in Nat
    BY <1>1
  <2> QED BY <2>1, ResolveSteps
<1>3. \A i \in 0..Len(names) :
          at[i] = IF i = 0 THEN Met(Known(path, root)) ELSE Named(at[i - 1], names[i])
  BY <1>2, Zenon DEF NameByName
<1>4. at[0] = Met(Known(path, root)) /\ at[1] = Named(at[0], a)
  BY <1>1, <1>3
<1> QED BY <1>1, <1>2, <1>4 DEF names

LEMMA ResolveTwo ==
    ASSUME NEW root, NEW path, NEW a, NEW b
    PROVE  Resolve(root, path, <<a, b>>) = Named(Named(Met(Known(path, root)), a), b)
<1> DEFINE names == <<a, b>>
<1>1. Len(names) = 2 /\ names[1] = a /\ names[2] = b
  OBVIOUS
<1> HIDE DEF names
<1>2. PICK at : NameByName(at, root, path, names) /\ Resolve(root, path, names) = at[Len(names)]
  <2>1. Len(names) \in Nat
    BY <1>1
  <2> QED BY <2>1, ResolveSteps
<1>3. \A i \in 0..Len(names) :
          at[i] = IF i = 0 THEN Met(Known(path, root)) ELSE Named(at[i - 1], names[i])
  BY <1>2, Zenon DEF NameByName
<1>4. at[0] = Met(Known(path, root)) /\ at[1] = Named(at[0], a) /\ at[2] = Named(at[1], b)
  BY <1>1, <1>3
<1> QED BY <1>1, <1>2, <1>4 DEF names

LEMMA ResolveThree ==
    ASSUME NEW root, NEW path, NEW a, NEW b, NEW c
    PROVE  Resolve(root, path, <<a, b, c>>)
              = Named(Named(Named(Met(Known(path, root)), a), b), c)
<1> DEFINE names == <<a, b, c>>
<1>1. Len(names) = 3 /\ names[1] = a /\ names[2] = b /\ names[3] = c
  OBVIOUS
<1> HIDE DEF names
<1>2. PICK at : NameByName(at, root, path, names) /\ Resolve(root, path, names) = at[Len(names)]
  <2>1. Len(names) \in Nat
    BY <1>1
  <2> QED BY <2>1, ResolveSteps
<1>3. \A i \in 0..Len(names) :
          at[i] = IF i = 0 THEN Met(Known(path, root)) ELSE Named(at[i - 1], names[i])
  BY <1>2, Zenon DEF NameByName
<1>4. at[0] = Met(Known(path, root)) /\ at[1] = Named(at[0], a) /\ at[2] = Named(at[1], b) /\ at[3] = Named(at[2], c)
  BY <1>1, <1>3
<1> QED BY <1>1, <1>2, <1>4 DEF names

\* A name of an object, whose value is a marker or not.
LEMMA NameFound ==
    ASSUME NEW path, NEW f, NEW name \in DOMAIN f
    PROVE  Named(Known(path, Object(f)), name) = Met(Known(path, f[name]))
BY DEF Named, Known, Object, IsObject

LEMMA PlainMet ==
    ASSUME NEW path, NEW value, value[1] \notin {"redacted", "unknown"}
    PROVE  Met(Known(path, value)) = Known(path, value)
BY DEF Met, Known, Sentinel

LEMMA ObjectMet ==
    ASSUME NEW path, NEW f
    PROVE  Met(Known(path, Object(f))) = Known(path, Object(f))
BY PlainMet DEF Object

\* What the assertion asks of the reading itself.
LEMMA DriftCheckFound ==
    ASSUME NEW r, NEW build
    PROVE  LET given(path) == Lookup(ReadingInput(r, build), path)
               rollout(name) == <<"drift_check", "rollout", name>>
               part(name) == <<"drift_check", name>>
           IN  /\ given(rollout("complete")) = Known(rollout("complete"), Boolean(r.complete))
               /\ given(rollout("expected_live_pods"))
                     = Known(rollout("expected_live_pods"), Number(r.expected))
               /\ given(part("live_pods_read")) = Known(part("live_pods_read"), Number(r.live))
               /\ given(part("template_containers"))
                     = Known(part("template_containers"),
                             Listed({TemplateObject(t) : t \in r.template}))
               /\ given(part("containers_read"))
                     = Known(part("containers_read"),
                             Listed({ContainerObject(c) : c \in r.containers}))
<1> DEFINE facts == ReadingInput(r, build)
           templates == Listed({TemplateObject(t) : t \in r.template})
           containers == Listed({ContainerObject(c) : c \in r.containers})
           rollout == [complete |-> Boolean(r.complete), expected_live_pods |-> Number(r.expected)]
           check == [rollout |-> Object(rollout), live_pods_read |-> Number(r.live),
                     template_containers |-> templates, containers_read |-> containers]
<1>1. templates[1] = "array" /\ containers[1] = "array"
  BY DEF Listed, Array
<1>2. DriftCheckObject(r) = Object(check)
  BY DEF DriftCheckObject
<1> HIDE DEF templates, containers
<1>3. ASSUME NEW path
      PROVE  Named(Met(Known(path, facts)), "drift_check") = Known(path, Object(check))
  <2> DEFINE parts == [drift_check |-> DriftCheckObject(r), change |-> ChangeObject(build)]
  <2>1. facts = Object(parts)
    BY DEF ReadingInput
  <2>2. "drift_check" \in DOMAIN parts /\ parts["drift_check"] = Object(check)
    BY <1>2
  <2> HIDE DEF parts, facts, check
  <2> QED BY <2>1, <2>2, ObjectMet, NameFound
<1>4. ASSUME NEW path, NEW name \in DOMAIN check
      PROVE  Named(Known(path, Object(check)), name) = Met(Known(path, check[name]))
  <2> HIDE DEF check
  <2> QED BY <1>4, NameFound
<1>5. ASSUME NEW path, NEW name \in DOMAIN rollout
      PROVE  Named(Named(Known(path, Object(check)), "rollout"), name) = Met(Known(path, rollout[name]))
  <2>1. "rollout" \in DOMAIN check /\ check["rollout"] = Object(rollout)
    OBVIOUS
  <2> HIDE DEF check, rollout
  <2> QED BY <1>4, <1>5, <2>1, ObjectMet, NameFound
<1>6. /\ DOMAIN check = {"rollout", "live_pods_read", "template_containers", "containers_read"}
      /\ check["live_pods_read"] = Number(r.live)
      /\ check["template_containers"] = templates /\ check["containers_read"] = containers
      /\ DOMAIN rollout = {"complete", "expected_live_pods"}
      /\ rollout["complete"] = Boolean(r.complete)
      /\ rollout["expected_live_pods"] = Number(r.expected)
  OBVIOUS
<1> HIDE DEF check, rollout, facts
<1>7. ASSUME NEW path
      PROVE  /\ Met(Known(path, templates)) = Known(path, templates)
             /\ Met(Known(path, containers)) = Known(path, containers)
             /\ \A n : Met(Known(path, Number(n))) = Known(path, Number(n))
             /\ \A b : Met(Known(path, Boolean(b))) = Known(path, Boolean(b))
  BY <1>1, PlainMet DEF Number, Boolean
<1>8. ASSUME NEW path, NEW name \in {"live_pods_read", "template_containers", "containers_read"}
      PROVE  Resolve(facts, path, <<"drift_check", name>>) = Known(path, check[name])
  BY <1>3, <1>4, <1>6, <1>7, <1>8, ResolveTwo
<1>9. ASSUME NEW path, NEW name \in DOMAIN rollout
      PROVE  Resolve(facts, path, <<"drift_check", "rollout", name>>) = Known(path, rollout[name])
  <2>1. Resolve(facts, path, <<"drift_check", "rollout", name>>)
           = Named(Named(Known(path, Object(check)), "rollout"), name)
    BY <1>3, ResolveThree
  <2>2. Met(Known(path, rollout[name])) = Known(path, rollout[name])
    BY <1>6, <1>7, <1>9
  <2> QED BY <1>5, <1>9, <2>1, <2>2
<1> QED BY <1>6, <1>8, <1>9 DEF Lookup, facts, templates, containers

\* What it asks of the change, whose build may be none.
LEMMA ChangeFound ==
    ASSUME NEW r, NEW build
    PROVE  LET given(path) == Lookup(ReadingInput(r, build), path)
               image == <<"change", "image", "digest">>
               platforms == <<"change", "build", "platform_digests">>
           IN  /\ given(image) = Met(Known(image, Digest(Image)))
               /\ build = Unread => ~given(platforms).known
               /\ build # Unread => given(platforms)
                     = Known(platforms, Listed({Digest(d) : d \in build}))
<1> DEFINE facts == ReadingInput(r, build)
           digests == Listed({Digest(d) : d \in build})
           ofImage == [digest |-> Digest(Image)]
           ofBuild == [platform_digests |-> digests]
           named == IF build = Unread THEN Null ELSE Object(ofBuild)
           change == [image |-> Object(ofImage), build |-> named]
<1>1. digests[1] = "array"
  BY DEF Listed, Array
<1>2. ChangeObject(build) = Object(change)
  BY DEF ChangeObject
<1> HIDE DEF digests
<1>3. ASSUME NEW path
      PROVE  Named(Met(Known(path, facts)), "change") = Known(path, Object(change))
  <2> DEFINE parts == [drift_check |-> DriftCheckObject(r), change |-> ChangeObject(build)]
  <2>1. facts = Object(parts)
    BY DEF ReadingInput
  <2>2. "change" \in DOMAIN parts /\ parts["change"] = Object(change)
    BY <1>2
  <2> HIDE DEF parts, facts, change
  <2> QED BY <2>1, <2>2, ObjectMet, NameFound
<1>4. /\ {"image", "build"} \subseteq DOMAIN change
      /\ change["image"] = Object(ofImage) /\ change["build"] = named
      /\ "digest" \in DOMAIN ofImage /\ ofImage["digest"] = Digest(Image)
      /\ "platform_digests" \in DOMAIN ofBuild /\ ofBuild["platform_digests"] = digests
  OBVIOUS
<1>5. named = IF build = Unread THEN Null ELSE Object(ofBuild)
  OBVIOUS
<1> HIDE DEF change, ofImage, ofBuild, facts, named
<1>6. ASSUME NEW path
      PROVE  /\ Named(Known(path, Object(change)), "image") = Known(path, Object(ofImage))
             /\ Named(Known(path, Object(change)), "build") = Met(Known(path, named))
  BY <1>4, NameFound, ObjectMet
<1>7. ASSUME NEW path
      PROVE  Resolve(facts, path, <<"change", "image", "digest">>) = Met(Known(path, Digest(Image)))
  BY <1>3, <1>4, <1>6, NameFound, ResolveThree
<1>8. ASSUME NEW path, build # Unread
      PROVE  Resolve(facts, path, <<"change", "build", "platform_digests">>) = Known(path, digests)
  <2>1. Met(Known(path, digests)) = Known(path, digests)
    BY <1>1, PlainMet
  <2> QED BY <1>3, <1>4, <1>5, <1>6, <1>8, <2>1, NameFound, ObjectMet, ResolveThree
<1>9. ASSUME NEW path, build = Unread
      PROVE  ~Resolve(facts, path, <<"change", "build", "platform_digests">>).known
  <2>1. Named(Known(path, Object(change)), "build") = Known(path, Null)
    BY <1>5, <1>6, <1>9, PlainMet DEF Null
  <2>2. ~Named(Known(path, Null), "platform_digests").known
    BY DEF Named, Met, Known, Unresolved, Null, IsObject
  <2> QED BY <1>3, <2>1, <2>2, ResolveThree
<1> QED BY <1>7, <1>8, <1>9 DEF Lookup, facts, digests

\* A container of the template or of a pod, as the assertion sees it.
LEMMA ItemFound ==
    ASSUME NEW f, NEW name \in DOMAIN f
    PROVE  Item(Object(f), name) = Met(Known(<<"item", name>>, f[name]))
<1>1. Tail(<<"item", name>>) = <<name>>
  OBVIOUS
<1> QED BY <1>1, ResolveOne, ObjectMet, NameFound DEF Item, LookupItem

LEMMA BooleanEqual ==
    ASSUME NEW path, NEW b \in BOOLEAN
    PROVE  Predicate("equal", Known(path, Boolean(b)), Literal(Boolean(TRUE))) = Decided(b)
BY DEF Predicate, Known, Literal, Boolean, Compare, ListOperators

LEMMA TemplateContainerCompared ==
    ASSUME NEW t, t.compared \in BOOLEAN
    PROVE  IsCompared(TemplateObject(t)) = Decided(t.compared)
<1> DEFINE f == [name |-> <<"string", t.name>>, compared |-> Boolean(t.compared)]
<1>1. "compared" \in DOMAIN f /\ f["compared"] = Boolean(t.compared)
  OBVIOUS
<1>2. TemplateObject(t) = Object(f)
  BY DEF TemplateObject
<1> HIDE DEF f
<1>3. Item(TemplateObject(t), "compared") = Known(<<"item", "compared">>, Boolean(t.compared))
  BY <1>1, <1>2, ItemFound, PlainMet DEF Boolean
<1> QED BY <1>3, BooleanEqual DEF IsCompared

LEMMA ContainerItems ==
    ASSUME NEW c, c.compared \in BOOLEAN
    PROVE  /\ IsCompared(ContainerObject(c)) = Decided(c.compared)
           /\ IsLive(ContainerObject(c)) = Decided(c.state = "live")
           /\ Item(ContainerObject(c), "digest") = Met(Known(<<"item", "digest">>, Digest(c.digest)))
<1> DEFINE f == [pod |-> Number(c.pod), name |-> <<"string", c.name>>,
                 pod_state |-> <<"string", c.state>>, compared |-> Boolean(c.compared),
                 digest |-> Digest(c.digest)]
           o == ContainerObject(c)
<1>1. /\ {"compared", "pod_state", "digest"} \subseteq DOMAIN f
      /\ f["compared"] = Boolean(c.compared) /\ f["pod_state"] = <<"string", c.state>>
      /\ f["digest"] = Digest(c.digest)
  OBVIOUS
<1>2. o = Object(f)
  BY DEF ContainerObject
<1> HIDE DEF f, o
<1>3. Item(o, "compared") = Known(<<"item", "compared">>, Boolean(c.compared))
  BY <1>1, <1>2, ItemFound, PlainMet DEF Boolean
<1>4. Item(o, "pod_state") = Known(<<"item", "pod_state">>, <<"string", c.state>>)
  BY <1>1, <1>2, ItemFound, PlainMet
<1>5. IsLive(o) = Decided(c.state = "live")
  <2>1. (<<"string", c.state>> = <<"string", "live">>) <=> c.state = "live"
    OBVIOUS
  <2> QED BY <1>4, <2>1 DEF IsLive, Predicate, Known, Literal, Compare, ListOperators
<1>6. Item(o, "digest") = Met(Known(<<"item", "digest">>, Digest(c.digest)))
  BY <1>1, <1>2, ItemFound
<1> QED BY <1>3, <1>5, <1>6, BooleanEqual DEF IsCompared, o

\* A digest is known unless the tool did not report it.
LEMMA DigestMet ==
    ASSUME NEW path, NEW d
    PROVE  /\ d = Unreported => ~Met(Known(path, Digest(d))).known
           /\ d # Unreported => Met(Known(path, Digest(d))) = Known(path, <<"string", d>>)
<1>1. d = Unreported => ~Met(Known(path, Digest(d))).known
  BY DEF Met, Known, Digest, Marker, Sentinel, Unresolved
<1>2. d # Unreported => Met(Known(path, Digest(d))) = Known(path, <<"string", d>>)
  BY PlainMet DEF Digest
<1> QED BY <1>1, <1>2

\* A finite set in some order is all of the set.
LEMMA SequenceOf ==
    ASSUME NEW V, IsFiniteSet(V)
    PROVE  /\ DOMAIN SetToSeq(V) = 1..Cardinality(V) /\ Cardinality(V) \in Nat
           /\ {SetToSeq(V)[i] : i \in DOMAIN SetToSeq(V)} = V
<1> DEFINE n == Cardinality(V)
           s == SetToSeq(V)
           image == {s[i] : i \in DOMAIN s}
<1>1. n \in Nat
  BY FS_CardinalityType
<1>2. \E f \in [1..n -> V] : IsInjective(f)
  <2>1. PICK m \in Nat : ExistsBijection(1..m, V)
    BY FS_NatBijection
  <2>2. m = n
    BY <2>1, FS_CountingElements
  <2> QED BY <2>1, <2>2 DEF ExistsBijection, Bijection, Injection, IsInjective
<1>3. s \in [1..n -> V] /\ IsInjective(s)
  BY <1>2 DEF SetToSeq
<1> HIDE DEF s, n
<1>4. ExistsBijection(1..n, image)
  <2>1. s \in Bijection(1..n, image)
    BY <1>3 DEF Bijection, Injection, Surjection, IsInjective
  <2> QED BY <2>1 DEF ExistsBijection
<1>5. Cardinality(image) = n
  BY <1>1, <1>4, FS_CountingElements
<1>6. image = V
  BY <1>3, <1>5, FS_Subset DEF n
<1> QED BY <1>1, <1>3, <1>6 DEF s, n

\* `exists` over a set that an input lists.
LEMMA ExistsOfListed ==
    ASSUME NEW path, NEW V, IsFiniteSet(V), NEW qs,
           DOMAIN qs = DOMAIN Elements(Known(path, Listed(V))),
           \A i \in DOMAIN qs : Typed(qs[i])
    PROVE  ExistsOf(Known(path, Listed(V)), qs).status =
              IF Some(qs, "true") THEN "true" ELSE IF Some(qs, "unknown") THEN "unknown" ELSE "false"
<1> DEFINE c == Known(path, Listed(V))
<1>1. c.known /\ IsArray(c.value)
  BY DEF Known, Listed, Array, IsArray
<1>2. Elements(c) = SetToSeq(V)
  BY <1>1 DEF Elements, Known, Listed, Array
<1> HIDE DEF c
<1>3. DOMAIN qs \subseteq Nat
  BY <1>2, SequenceOf DEF c
<1> QED BY <1>1, <1>3, ExistsOfStatus DEF c

LEMMA ElementsListed ==
    ASSUME NEW path, NEW V, IsFiniteSet(V)
    PROVE  LET elements == Elements(Known(path, Listed(V)))
           IN  {elements[i] : i \in DOMAIN elements} = V
BY SequenceOf DEF Elements, Known, Listed, Array, IsArray

\* The status of all of two results, four and five.
LEMMA AllOfTwo ==
    ASSUME NEW a, NEW b, Typed(a), Typed(b)
    PROVE  AllOf(<<a, b>>).status =
              IF "false" \in {a.status, b.status} THEN "false"
              ELSE IF "unknown" \in {a.status, b.status} THEN "unknown" ELSE "true"
<1> DEFINE qs == <<a, b>>
<1>1. DOMAIN qs = {1, 2} /\ qs[1] = a /\ qs[2] = b
  OBVIOUS
<1> HIDE DEF qs
<1>2. \A st : Some(qs, st) <=> st \in {a.status, b.status}
  BY <1>1 DEF Some
<1>3. DOMAIN qs \subseteq Nat /\ \A i \in DOMAIN qs : Typed(qs[i])
  BY <1>1
<1> QED BY <1>2, <1>3, AllOfStatus DEF qs

LEMMA AllOfFour ==
    ASSUME NEW a, NEW b, NEW c, NEW d, Typed(a), Typed(b), Typed(c), Typed(d)
    PROVE  LET all == {a.status, b.status, c.status, d.status}
           IN  AllOf(<<a, b, c, d>>).status =
                  IF "false" \in all THEN "false" ELSE IF "unknown" \in all THEN "unknown" ELSE "true"
<1> DEFINE qs == <<a, b, c, d>>
<1>1. DOMAIN qs = {1, 2, 3, 4} /\ qs[1] = a /\ qs[2] = b /\ qs[3] = c /\ qs[4] = d
  OBVIOUS
<1> HIDE DEF qs
<1>2. \A st : Some(qs, st) <=> st \in {a.status, b.status, c.status, d.status}
  BY <1>1 DEF Some
<1>3. DOMAIN qs \subseteq Nat /\ \A i \in DOMAIN qs : Typed(qs[i])
  BY <1>1
<1> QED BY <1>2, <1>3, AllOfStatus DEF qs

LEMMA AllOfFive ==
    ASSUME NEW a, NEW b, NEW c, NEW d, NEW e, Typed(a), Typed(b), Typed(c), Typed(d), Typed(e)
    PROVE  LET all == {a.status, b.status, c.status, d.status, e.status}
           IN  AllOf(<<a, b, c, d, e>>).status =
                  IF "false" \in all THEN "false" ELSE IF "unknown" \in all THEN "unknown" ELSE "true"
<1> DEFINE qs == <<a, b, c, d, e>>
<1>1. DOMAIN qs = {1, 2, 3, 4, 5}
      /\ qs[1] = a /\ qs[2] = b /\ qs[3] = c /\ qs[4] = d /\ qs[5] = e
  OBVIOUS
<1> HIDE DEF qs
<1>2. \A st : Some(qs, st) <=> st \in {a.status, b.status, c.status, d.status, e.status}
  BY <1>1 DEF Some
<1>3. DOMAIN qs \subseteq Nat /\ \A i \in DOMAIN qs : Typed(qs[i])
  BY <1>1
<1> QED BY <1>2, <1>3, AllOfStatus DEF qs

\* What a function gives for a finite set is finite.
LEMMA FiniteImage ==
    ASSUME NEW S, IsFiniteSet(S), NEW f, DOMAIN f = S
    PROVE  IsFiniteSet({f[x] : x \in S})
<1> DEFINE T == {f[x] : x \in S}
           g == [x \in S |-> f[x]]
<1>1. g \in Surjection(S, T)
  BY DEF Surjection
<1> QED BY <1>1, FS_Surjection

\* Whether a container runs another image: one of no accepted build, of one
\* that has other digests, or of one that is not known.
AcceptedBuild(build) == build = Unread \/ (IsFiniteSet(build) /\ Unreported \notin build)

LEMMA RunsAnotherStatus ==
    ASSUME NEW c, c.compared \in BOOLEAN, NEW build, AcceptedBuild(build),
           Image # Unreported, NEW r
    PROVE  LET given(path) == Lookup(ReadingInput(r, build), path)
               another == RunsAnother(ContainerObject(c), given(<<"change", "image", "digest">>),
                                      given(<<"change", "build", "platform_digests">>))
           IN  /\ Typed(another)
               /\ another.status =
                     IF \/ c.state # "live" \/ ~c.compared \/ c.digest = Image
                        \/ build # Unread /\ c.digest \in build
                     THEN "false"
                     ELSE IF c.digest = Unreported \/ build = Unread THEN "unknown" ELSE "true"
<1> DEFINE o == ContainerObject(c)
           image == Lookup(ReadingInput(r, build), <<"change", "image", "digest">>)
           platforms == Lookup(ReadingInput(r, build), <<"change", "build", "platform_digests">>)
           digest == Item(o, "digest")
           differs == Predicate("not_equal", digest, image)
           unlisted == Predicate("not_in", digest, platforms)
<1>1. IsLive(o) = Decided(c.state = "live") /\ IsCompared(o) = Decided(c.compared)
  BY ContainerItems
<1>2. /\ c.digest = Unreported => ~digest.known
      /\ c.digest # Unreported => digest = Known(<<"item", "digest">>, <<"string", c.digest>>)
  BY ContainerItems, DigestMet
<1>3. image = Known(<<"change", "image", "digest">>, <<"string", Image>>)
  BY ChangeFound, DigestMet
<1>4. /\ build = Unread => ~platforms.known
      /\ build # Unread => platforms = Known(<<"change", "build", "platform_digests">>,
                                             Listed({Digest(d) : d \in build}))
  BY ChangeFound
<1> HIDE DEF o, image, platforms, digest
<1>5. differs.status = IF c.digest = Unreported THEN "unknown"
                       ELSE IF c.digest = Image THEN "false" ELSE "true"
  <2>1. CASE c.digest = Unreported
    BY <1>2, <2>1 DEF Predicate, UnknownFor
  <2>2. CASE c.digest # Unreported
    <3>1. differs = Decided(<<"string", c.digest>> # <<"string", Image>>)
      BY <1>2, <1>3, <2>2 DEF Predicate, Known, Compare, ListOperators
    <3>2. (<<"string", c.digest>> = <<"string", Image>>) <=> c.digest = Image
      OBVIOUS
    <3> QED BY <2>2, <3>1, <3>2 DEF Decided
  <2> QED BY <2>1, <2>2
<1>6. unlisted.status = IF c.digest = Unreported \/ build = Unread THEN "unknown"
                        ELSE IF c.digest \in build THEN "false" ELSE "true"
  <2>1. CASE c.digest = Unreported
    BY <1>2, <2>1 DEF Predicate, UnknownFor
  <2>2. CASE c.digest # Unreported /\ build = Unread
    BY <1>2, <1>4, <2>2 DEF Predicate, UnknownFor, Known
  <2>3. CASE c.digest # Unreported /\ build # Unread
    <3> DEFINE digests == {Digest(d) : d \in build}
    <3>1. IsFiniteSet(digests)
      <4> DEFINE f == [d \in build |-> Digest(d)]
      <4>1. IsFiniteSet(build) /\ DOMAIN f = build /\ digests = {f[d] : d \in build}
        BY <2>3 DEF AcceptedBuild
      <4> HIDE DEF f, digests
      <4> QED BY <4>1, FiniteImage
    <3>2. {SetToSeq(digests)[i] : i \in DOMAIN SetToSeq(digests)} = digests
      BY <3>1, SequenceOf
    <3>3. <<"string", c.digest>> \in digests <=> c.digest \in build
      BY <2>3 DEF Digest, AcceptedBuild
    <3> HIDE DEF digests
    <3>4. Member(<<"string", c.digest>>, Listed(digests)) <=> c.digest \in build
      BY <3>2, <3>3 DEF Member, Listed, Array, IsArray
    <3>5. IsArray(Listed(digests))
      BY DEF Listed, Array, IsArray
    <3>6. platforms = Known(<<"change", "build", "platform_digests">>, Listed(digests))
      BY <1>4, <2>3 DEF digests
    <3>7. unlisted = Decided(~Member(<<"string", c.digest>>, Listed(digests)))
      BY <1>2, <2>3, <3>5, <3>6 DEF Predicate, Known, Compare, ListOperators
    <3> QED BY <2>3, <3>4, <3>7 DEF Decided
  <2> QED BY <2>1, <2>2, <2>3
<1>7. Typed(differs) /\ Typed(unlisted) /\ Typed(IsLive(o)) /\ Typed(IsCompared(o))
  BY PredicateTyped DEF IsLive, IsCompared
<1>8. /\ IsLive(o).status = IF c.state = "live" THEN "true" ELSE "false"
      /\ IsCompared(o).status = IF c.compared THEN "true" ELSE "false"
  BY <1>1 DEF Decided
<1>9. RunsAnother(o, image, platforms) = AllOf(<<IsLive(o), IsCompared(o), differs, unlisted>>)
  BY DEF RunsAnother, digest
<1> DEFINE another == RunsAnother(o, image, platforms)
<1> HIDE DEF differs, unlisted
<1>10. another.status =
          LET all == {IsLive(o).status, IsCompared(o).status, differs.status, unlisted.status}
          IN  IF "false" \in all THEN "false" ELSE IF "unknown" \in all THEN "unknown" ELSE "true"
  BY <1>7, <1>9, AllOfFour
<1> HIDE DEF another
<1>11. another.status =
          IF \/ c.state # "live" \/ ~c.compared \/ c.digest = Image
             \/ build # Unread /\ c.digest \in build
          THEN "false"
          ELSE IF c.digest = Unreported \/ build = Unread THEN "unknown" ELSE "true"
  BY <1>5, <1>6, <1>8, <1>10 DEF AcceptedBuild
<1> QED BY <1>11 DEF Typed, Status, another, o, image, platforms

\* `exists` over a set that an input lists, from each element's result.
LEMMA ExistsOver ==
    ASSUME NEW path, NEW V, IsFiniteSet(V), NEW F, \A v \in V : Typed(F[v])
    PROVE  LET collection == Known(path, Listed(V))
               elements == Elements(collection)
               found == ExistsOf(collection, [i \in DOMAIN elements |-> F[elements[i]]])
           IN  /\ Typed(found)
               /\ found.status = IF \E v \in V : F[v].status = "true" THEN "true"
                                 ELSE IF \E v \in V : F[v].status = "unknown" THEN "unknown"
                                 ELSE "false"
<1> DEFINE collection == Known(path, Listed(V))
           elements == Elements(collection)
           qs == [i \in DOMAIN elements |-> F[elements[i]]]
<1>1. {elements[i] : i \in DOMAIN elements} = V
  BY ElementsListed
<1> HIDE DEF elements
<1>2. DOMAIN qs = DOMAIN elements /\ \A i \in DOMAIN qs : qs[i] = F[elements[i]]
  OBVIOUS
<1> HIDE DEF qs
<1>3. \A i \in DOMAIN qs : Typed(qs[i])
  BY <1>1, <1>2
<1>4. \A st : Some(qs, st) <=> \E v \in V : F[v].status = st
  BY <1>1, <1>2 DEF Some
<1>5. ExistsOf(collection, qs).status =
         IF Some(qs, "true") THEN "true" ELSE IF Some(qs, "unknown") THEN "unknown" ELSE "false"
  BY <1>2, <1>3, ExistsOfListed DEF elements
<1> HIDE DEF collection
<1> QED BY <1>4, <1>5 DEF Typed, Status, qs, elements, collection

\* The five parts of the assertion, over a reading.
LEMMA RolloutParts ==
    ASSUME NEW r, NEW build, r.complete \in BOOLEAN
    PROVE  LET given(path) == Lookup(ReadingInput(r, build), path)
               finished == Predicate("equal", given(<<"drift_check", "rollout", "complete">>),
                                     Literal(Boolean(TRUE)))
               counted == Predicate("equal", given(<<"drift_check", "live_pods_read">>),
                                    given(<<"drift_check", "rollout", "expected_live_pods">>))
           IN  /\ finished.status = IF r.complete THEN "true" ELSE "false"
               /\ counted.status = IF r.live = r.expected THEN "true" ELSE "false"
<1> DEFINE given(path) == Lookup(ReadingInput(r, build), path)
           complete == <<"drift_check", "rollout", "complete">>
           live == <<"drift_check", "live_pods_read">>
           expected == <<"drift_check", "rollout", "expected_live_pods">>
<1>1. /\ given(complete) = Known(complete, Boolean(r.complete))
      /\ given(live) = Known(live, Number(r.live))
      /\ given(expected) = Known(expected, Number(r.expected))
  BY DriftCheckFound
<1> HIDE DEF given, complete, live, expected
<1>2. Predicate("equal", given(complete), Literal(Boolean(TRUE))) = Decided(r.complete)
  BY <1>1, BooleanEqual
<1>3. (Number(r.live) = Number(r.expected)) <=> r.live = r.expected
  BY DEF Number
<1>4. Predicate("equal", given(live), given(expected)) = Decided(r.live = r.expected)
  BY <1>1, <1>3 DEF Predicate, Known, Compare, ListOperators
<1> QED BY <1>2, <1>4, DecidedStatus DEF given, complete, live, expected

\* A reading whose lists are finite, and whose flags are flags.
FiniteReading(r) ==
    /\ r.complete \in BOOLEAN
    /\ IsFiniteSet(r.template) /\ \A t \in r.template : t.compared \in BOOLEAN
    /\ IsFiniteSet(r.containers) /\ \A c \in r.containers : c.compared \in BOOLEAN

\* Some container of the template is compared.
LEMMA TemplatePart ==
    ASSUME NEW r, NEW build, FiniteReading(r)
    PROVE  LET templates == Lookup(ReadingInput(r, build), <<"drift_check", "template_containers">>)
               elements == Elements(templates)
               found == ExistsOf(templates, [i \in DOMAIN elements |-> IsCompared(elements[i])])
           IN  Typed(found) /\ found.status = IF Compared(r) # {} THEN "true" ELSE "false"
<1> DEFINE path == <<"drift_check", "template_containers">>
           f == [t \in r.template |-> TemplateObject(t)]
           V == {TemplateObject(t) : t \in r.template}
           templates == Lookup(ReadingInput(r, build), path)
           elements == Elements(templates)
           F == [v \in V |-> IsCompared(v)]
           found == ExistsOf(templates, [i \in DOMAIN elements |-> IsCompared(elements[i])])
<1>1. templates = Known(path, Listed(V))
  BY DriftCheckFound
<1>2. IsFiniteSet(V)
  <2>1. V = {f[t] : t \in r.template} /\ DOMAIN f = r.template
    OBVIOUS
  <2> HIDE DEF V, f
  <2> QED BY <2>1, FiniteImage DEF FiniteReading
<1>3. \A t \in r.template : TemplateObject(t) \in V /\ IsCompared(TemplateObject(t)) = Decided(t.compared)
  BY TemplateContainerCompared DEF FiniteReading
<1>4. \A v \in V : \E t \in r.template : v = TemplateObject(t)
  OBVIOUS
<1> HIDE DEF V, templates
<1>5. \A v \in V : F[v] = IsCompared(v)
  OBVIOUS
<1>6. {elements[i] : i \in DOMAIN elements} = V
  BY <1>1, <1>2, ElementsListed
<1> HIDE DEF elements, F
<1>7. [i \in DOMAIN elements |-> IsCompared(elements[i])] = [i \in DOMAIN elements |-> F[elements[i]]]
  BY <1>5, <1>6
<1>8. \A v \in V : Typed(F[v])
  BY <1>5, PredicateTyped DEF IsCompared
<1>9. /\ Typed(found)
      /\ found.status = IF \E v \in V : F[v].status = "true" THEN "true"
                        ELSE IF \E v \in V : F[v].status = "unknown" THEN "unknown"
                        ELSE "false"
  BY <1>1, <1>2, <1>7, <1>8, ExistsOver DEF elements
<1>10. \A v \in V : F[v].status # "unknown"
  BY <1>3, <1>4, <1>5 DEF Decided
<1>11. (\E v \in V : F[v].status = "true") <=> \E t \in r.template : t.compared
  <2>1. \A t \in r.template : (F[TemplateObject(t)].status = "true") <=> t.compared
    BY <1>3, <1>5 DEF Decided, FiniteReading
  <2> QED BY <1>3, <1>4, <2>1
<1>12. Compared(r) # {} <=> \E t \in r.template : t.compared
  BY DEF Compared
<1> HIDE DEF found
<1>13. Typed(found) /\ found.status = IF Compared(r) # {} THEN "true" ELSE "false"
  BY <1>9, <1>10, <1>11, <1>12
<1> QED BY <1>13 DEF found, elements, templates

\* The containers that are live and compared, and those among them of another image.
LEMMA ContainerParts ==
    ASSUME NEW r, NEW build, FiniteReading(r), AcceptedBuild(build), Image # Unreported
    PROVE  LET given(path) == Lookup(ReadingInput(r, build), path)
               containers == given(<<"drift_check", "containers_read">>)
               image == given(<<"change", "image", "digest">>)
               platforms == given(<<"change", "build", "platform_digests">>)
               elements == Elements(containers)
               found == ExistsOf(containers, [i \in DOMAIN elements |-> IsLiveAndCompared(elements[i])])
               other == ExistsOf(containers,
                            [i \in DOMAIN elements |-> RunsAnother(elements[i], image, platforms)])
               live == {c \in r.containers : c.state = "live" /\ c.compared}
               another == {c \in live : c.digest # Image /\ (build # Unread => c.digest \notin build)}
           IN  /\ Typed(found) /\ found.status = IF live # {} THEN "true" ELSE "false"
               /\ Typed(other)
               /\ other.status =
                    IF \E c \in another : build # Unread /\ c.digest # Unreported THEN "true"
                    ELSE IF another # {} THEN "unknown" ELSE "false"
<1> DEFINE path == <<"drift_check", "containers_read">>
           f == [c \in r.containers |-> ContainerObject(c)]
           V == {ContainerObject(c) : c \in r.containers}
           containers == Lookup(ReadingInput(r, build), path)
           image == Lookup(ReadingInput(r, build), <<"change", "image", "digest">>)
           platforms == Lookup(ReadingInput(r, build), <<"change", "build", "platform_digests">>)
           elements == Elements(containers)
           F == [v \in V |-> IsLiveAndCompared(v)]
           G == [v \in V |-> RunsAnother(v, image, platforms)]
           found == ExistsOf(containers, [i \in DOMAIN elements |-> IsLiveAndCompared(elements[i])])
           other == ExistsOf(containers,
                        [i \in DOMAIN elements |-> RunsAnother(elements[i], image, platforms)])
           live == {c \in r.containers : c.state = "live" /\ c.compared}
           another == {c \in live : c.digest # Image /\ (build # Unread => c.digest \notin build)}
<1>1. containers = Known(path, Listed(V))
  BY DriftCheckFound
<1>2. IsFiniteSet(V)
  <2>1. V = {f[c] : c \in r.containers} /\ DOMAIN f = r.containers
    OBVIOUS
  <2> HIDE DEF V, f
  <2> QED BY <2>1, FiniteImage DEF FiniteReading
<1>3. \A v \in V : \E c \in r.containers : v = ContainerObject(c)
  OBVIOUS
<1>4. \A c \in r.containers : ContainerObject(c) \in V
  OBVIOUS
<1> HIDE DEF V, containers
<1>5. \A v \in V : F[v] = IsLiveAndCompared(v) /\ G[v] = RunsAnother(v, image, platforms)
  OBVIOUS
<1>6. {elements[i] : i \in DOMAIN elements} = V
  BY <1>1, <1>2, ElementsListed
<1>7. ASSUME NEW c \in r.containers
      PROVE  /\ Typed(F[ContainerObject(c)])
             /\ F[ContainerObject(c)].status = IF c.state = "live" /\ c.compared THEN "true" ELSE "false"
  <2>1. IsLive(ContainerObject(c)).status = IF c.state = "live" THEN "true" ELSE "false"
    BY ContainerItems DEF FiniteReading, Decided
  <2>2. IsCompared(ContainerObject(c)).status = IF c.compared THEN "true" ELSE "false"
    BY ContainerItems DEF FiniteReading, Decided
  <2>3. Typed(IsLive(ContainerObject(c))) /\ Typed(IsCompared(ContainerObject(c)))
    BY PredicateTyped DEF IsLive, IsCompared
  <2>4. F[ContainerObject(c)] = AllOf(<<IsLive(ContainerObject(c)), IsCompared(ContainerObject(c))>>)
    BY <1>4, <1>5 DEF IsLiveAndCompared
  <2> HIDE DEF F
  <2> QED BY <2>1, <2>2, <2>3, <2>4, AllOfTwo DEF Typed, Status
<1>8. ASSUME NEW c \in r.containers
      PROVE  /\ Typed(G[ContainerObject(c)])
             /\ G[ContainerObject(c)].status =
                     IF \/ c.state # "live" \/ ~c.compared \/ c.digest = Image
                        \/ build # Unread /\ c.digest \in build
                     THEN "false"
                     ELSE IF c.digest = Unreported \/ build = Unread THEN "unknown" ELSE "true"
  BY <1>4, <1>5, RunsAnotherStatus DEF FiniteReading
<1> HIDE DEF elements, F, G, image, platforms
<1>9. /\ [i \in DOMAIN elements |-> IsLiveAndCompared(elements[i])]
            = [i \in DOMAIN elements |-> F[elements[i]]]
      /\ [i \in DOMAIN elements |-> RunsAnother(elements[i], image, platforms)]
            = [i \in DOMAIN elements |-> G[elements[i]]]
  BY <1>5, <1>6
<1>10. \A v \in V : Typed(F[v]) /\ Typed(G[v])
  BY <1>3, <1>7, <1>8
<1>11. /\ Typed(found)
       /\ found.status = IF \E v \in V : F[v].status = "true" THEN "true"
                         ELSE IF \E v \in V : F[v].status = "unknown" THEN "unknown"
                         ELSE "false"
  BY <1>1, <1>2, <1>9, <1>10, ExistsOver DEF elements
<1>12. /\ Typed(other)
       /\ other.status = IF \E v \in V : G[v].status = "true" THEN "true"
                         ELSE IF \E v \in V : G[v].status = "unknown" THEN "unknown"
                         ELSE "false"
  BY <1>1, <1>2, <1>9, <1>10, ExistsOver DEF elements
<1> HIDE DEF found, other
<1>13. found.status = IF live # {} THEN "true" ELSE "false"
  <2>1. \A v \in V : F[v].status # "unknown"
    BY <1>3, <1>7
  <2>2. (\E v \in V : F[v].status = "true") <=> \E c \in r.containers : c.state = "live" /\ c.compared
    BY <1>3, <1>4, <1>7
  <2> QED BY <1>11, <2>1, <2>2
<1>14. (\E v \in V : G[v].status = "true")
          <=> \E c \in another : build # Unread /\ c.digest # Unreported
  BY <1>3, <1>4, <1>8
<1>15. (\E v \in V : G[v].status = "unknown")
          <=> \E c \in another : build = Unread \/ c.digest = Unreported
  BY <1>3, <1>4, <1>8
<1>16. other.status = IF \E c \in another : build # Unread /\ c.digest # Unreported THEN "true"
                      ELSE IF another # {} THEN "unknown" ELSE "false"
  <2> HIDE DEF another
  <2> QED BY <1>12, <1>14, <1>15
<1> QED BY <1>11, <1>12, <1>13, <1>16 DEF found, other, elements, containers, image, platforms

\* The assertion, evaluated, gives the status the record's rule recomputes.
LEMMA Agreement ==
    ASSUME NEW r, NEW build, FiniteReading(r), AcceptedBuild(build), Image # Unreported
    PROVE  ShippedAssertion(ReadingInput(r, build)) = RunningImageStatus(r, build)
<1> DEFINE given(path) == Lookup(ReadingInput(r, build), path)
           templates == given(<<"drift_check", "template_containers">>)
           containers == given(<<"drift_check", "containers_read">>)
           image == given(<<"change", "image", "digest">>)
           platforms == given(<<"change", "build", "platform_digests">>)
           asked(collection) == DOMAIN Elements(collection)
           finished == Predicate("equal", given(<<"drift_check", "rollout", "complete">>),
                                 Literal(Boolean(TRUE)))
           counted == Predicate("equal", given(<<"drift_check", "live_pods_read">>),
                                given(<<"drift_check", "rollout", "expected_live_pods">>))
           named == ExistsOf(templates,
                       [i \in asked(templates) |-> IsCompared(Elements(templates)[i])])
           found == ExistsOf(containers,
                       [i \in asked(containers) |-> IsLiveAndCompared(Elements(containers)[i])])
           other == ExistsOf(containers,
                       [i \in asked(containers) |->
                           RunsAnother(Elements(containers)[i], image, platforms)])
           live == {c \in r.containers : c.state = "live" /\ c.compared}
           another == {c \in live : c.digest # Image /\ (build # Unread => c.digest \notin build)}
           check == AllOf(<<finished, counted, named, found, NotOf(other)>>)
<1>1. ShippedAssertion(ReadingInput(r, build)) = AnswerOf(True, check)
  BY DEF ShippedAssertion
<1>2. /\ finished.status = IF r.complete THEN "true" ELSE "false"
      /\ counted.status = IF r.live = r.expected THEN "true" ELSE "false"
  <2>1. r.complete \in BOOLEAN
    BY DEF FiniteReading
  <2> QED BY <2>1, RolloutParts DEF Literal, Boolean
<1>3. Typed(named) /\ named.status = IF Compared(r) # {} THEN "true" ELSE "false"
  BY TemplatePart
<1>4. /\ Typed(found) /\ found.status = IF live # {} THEN "true" ELSE "false"
      /\ Typed(other)
      /\ other.status =
            IF \E c \in another : build # Unread /\ c.digest # Unreported THEN "true"
            ELSE IF another # {} THEN "unknown" ELSE "false"
  BY ContainerParts
<1> HIDE DEF finished, counted, named, found, other
<1>5. NotOf(other).status =
         IF \E c \in another : build # Unread /\ c.digest # Unreported THEN "false"
         ELSE IF another # {} THEN "unknown" ELSE "true"
  <2>1. NotOf(other).status = CASE other.status = "true" -> "false"
                                [] other.status = "false" -> "true"
                                [] OTHER -> "unknown"
    BY <1>4, DecidedStatus DEF NotOf, Typed, Status
  <2> HIDE DEF another
  <2> QED BY <1>4, <2>1
<1>6. Typed(finished) /\ Typed(counted) /\ Typed(NotOf(other))
  <2> HIDE DEF another
  <2> QED BY <1>2, <1>5 DEF Typed, Status
<1>7. check.status =
         LET all == {finished.status, counted.status, named.status, found.status, NotOf(other).status}
         IN  IF "false" \in all THEN "false" ELSE IF "unknown" \in all THEN "unknown" ELSE "true"
  BY <1>3, <1>4, <1>6, AllOfFive
<1> HIDE DEF check
<1> DEFINE failed == \/ ~r.complete \/ r.live # r.expected \/ Compared(r) = {} \/ live = {}
                     \/ \E c \in another : build # Unread /\ c.digest # Unreported
<1>8. check.status = IF failed THEN "false" ELSE IF another # {} THEN "unknown" ELSE "true"
  <2> HIDE DEF another, live
  <2> QED BY <1>2, <1>3, <1>4, <1>5, <1>7
<1>9. AnswerOf(True, check) = IF failed THEN "fail" ELSE IF another # {} THEN "unknown" ELSE "pass"
  <2> HIDE DEF another, live, failed
  <2> QED BY <1>8, TrueStatus DEF AnswerOf
<1>10. RunningImageStatus(r, build) = IF failed THEN "fail" ELSE IF another # {} THEN "unknown" ELSE "pass"
  <2> DEFINE digests == {c.digest : c \in live} \ {Unreported, Image}
             reported == \/ \E c \in live : c.digest = Unreported
                         \/ build = Unread /\ digests # {}
  <2>1. (build # Unread /\ digests \ build # {})
           <=> \E c \in another : build # Unread /\ c.digest # Unreported
    OBVIOUS
  <2>2. ~(\E c \in another : build # Unread /\ c.digest # Unreported) =>
           (reported <=> another # {})
    BY DEF AcceptedBuild
  <2>3. RunningImageStatus(r, build) =
           IF \/ ~r.complete \/ r.live # r.expected \/ Compared(r) = {} \/ live = {}
              \/ build # Unread /\ digests \ build # {}
           THEN "fail" ELSE IF reported THEN "unknown" ELSE "pass"
    BY DEF RunningImageStatus
  <2> HIDE DEF digests, another, live, reported
  <2> QED BY <2>1, <2>2, <2>3
<1> QED BY <1>1, <1>9, <1>10

-----------------------------------------------------------------------------
(* ImageReading: the inductive invariant.                                  *)

Phase == {"starting", "running", "terminating", "finished", "gone"}

\* What a status counts, what a spec asks for and what its pods are.
WorkloadTypes ==
    /\ kind \in Kind
    /\ spec.revision \in Revision /\ spec.desired \in Nat /\ spec.generation \in Nat \ {0}
    /\ status.observed \in Nat /\ status.desired \in Nat
    /\ status.replicas \in Nat /\ status.updated \in Nat
    /\ pods \in Seq([revision : Revision, phase : Phase])

\* The status is of a spec there was, and of this one if it says so.
StatusFollows ==
    /\ status.updated <= status.replicas
    /\ status.observed <= spec.generation
    /\ status.observed > 0 => status.revision \in Revision
    /\ status.observed = spec.generation =>
          status.revision = spec.revision /\ status.desired = spec.desired

ActiveAre(revision) == \A p \in Active : pods[p].revision = revision

\* A rollout whose counts are of its own generation and show no other pod.
Settled(rollout) ==
    rollout.observed = rollout.generation /\ rollout.replicas = rollout.updated

\* While the status says so, every pod is of the spec's template.
SettledNow ==
    status.observed = spec.generation /\ status.replicas = status.updated =>
        ActiveAre(spec.revision)

\* What was read first is of a spec there was, and its counts hold as long as
\* the spec does not change: no pod of another template comes back.
BeforeHolds ==
    before # Unread =>
        /\ before.revision \in Revision
        /\ before.rollout.generation \in Nat /\ before.rollout.generation <= spec.generation
        /\ before.rollout.observed \in Nat /\ before.rollout.observed <= status.observed
        /\ Settled(before.rollout) /\ before.rollout.generation = spec.generation =>
              ActiveAre(spec.revision)

\* So do the live pods that were listed after it.
ListedHolds ==
    listed # Unread =>
        /\ before # Unread
        /\ IsFiniteSet(DOMAIN listed)
        /\ \A p \in DOMAIN listed :
              /\ listed[p].revision \in Revision
              /\ /\ Settled(before.rollout) /\ before.rollout.generation = spec.generation
                 /\ StateOf(listed[p].phase) = "live"
                 => listed[p].revision = spec.revision

ReadingHolds == ShippedAssertionAgrees /\ RefusedOnlyWhenItMoved /\ PassIsOfTheTemplateRead

ReadingInv ==
    WorkloadTypes /\ StatusFollows /\ SettledNow /\ BeforeHolds /\ ListedHolds /\ ReadingHolds

-----------------------------------------------------------------------------
(* What an honest reading lists.                                           *)

\* The containers of a pod have names of their own, and there is one.
LEMMA ContainerNames ==
    ASSUME NEW pod, pod.revision \in Revision, NEW debugged \in BOOLEAN
    PROVE  /\ ContainersOf(pod, debugged) # {}
           /\ DOMAIN PodTemplates[pod.revision] \subseteq ContainersOf(pod, debugged)
           /\ \A n \in DOMAIN PodTemplates[pod.revision] :
                 n # "debug" /\ Declared(pod, n) = PodTemplates[pod.revision][n]
BY ImageAssumption DEF ContainersOf, Declared

\* What is written down of one container.
LEMMA ContainerFields ==
    ASSUME NEW template, NEW p, NEW name, NEW circumstance
    PROVE  LET c == ReadContainer(template, p, name, circumstance)
               declared == Declared(listed[p], name)
           IN  /\ c.pod = p /\ c.name = name
               /\ c.role = declared.role /\ c.deployed = declared.deployed
               /\ c.compared = (declared.deployed \/ (name \in DOMAIN template /\ template[name].deployed))
               /\ c.state = StateOf(listed[p].phase) /\ c.revision = listed[p].revision
BY DEF ReadContainer

\* What is written down of one container of the template.
LEMMA TemplateFields ==
    ASSUME NEW template, NEW name
    PROVE  LET t == ReadTemplate(template, name)
           IN  /\ t.name = name /\ t.role = template[name].role
               /\ t.deployed = template[name].deployed /\ t.compared = template[name].deployed
BY DEF ReadTemplate

\* The containers of a reading, one by one.
LEMMA ContainersRead ==
    ASSUME NEW workload, NEW circumstance, NEW c
    PROVE  c \in ReadingOf(workload, circumstance).containers <=>
              \E p \in DOMAIN listed :
                 \E n \in ContainersOf(listed[p], p = 1 /\ circumstance = "debugged") :
                    c = ReadContainer(PodTemplates[workload.revision], p, n, circumstance)
BY DEF ReadingOf

\* Those of the template.
LEMMA TemplateRead ==
    ASSUME NEW workload, NEW circumstance, NEW t
    PROVE  t \in ReadingOf(workload, circumstance).template <=>
              \E n \in DOMAIN PodTemplates[workload.revision] :
                 t = ReadTemplate(PodTemplates[workload.revision], n)
BY DEF ReadingOf

\* The names that are compared.
LEMMA ComparedRead ==
    ASSUME NEW workload, NEW circumstance, NEW name,
           name \in Compared(ReadingOf(workload, circumstance))
    PROVE  LET template == PodTemplates[workload.revision]
           IN  name \in DOMAIN template /\ template[name].deployed
<1> DEFINE r == ReadingOf(workload, circumstance)
<1>1. PICK t \in r.template : t.compared /\ name = t.name
  BY DEF Compared
<1>2. PICK n \in DOMAIN PodTemplates[workload.revision] :
         t = ReadTemplate(PodTemplates[workload.revision], n)
  BY TemplateRead
<1> HIDE DEF r
<1> QED BY <1>1, <1>2, TemplateFields

\* A container of a reading is of the pod and the name it gives.
LEMMA ContainerRead ==
    ASSUME NEW workload, NEW circumstance,
           NEW c \in ReadingOf(workload, circumstance).containers
    PROVE  LET template == PodTemplates[workload.revision]
               declared == Declared(listed[c.pod], c.name)
           IN  /\ c.pod \in DOMAIN listed
               /\ c = ReadContainer(template, c.pod, c.name, circumstance)
               /\ c.deployed = declared.deployed
               /\ c.compared = (declared.deployed \/ (c.name \in DOMAIN template /\ template[c.name].deployed))
               /\ c.state = StateOf(listed[c.pod].phase) /\ c.revision = listed[c.pod].revision
<1> DEFINE template == PodTemplates[workload.revision]
<1>1. PICK p \in DOMAIN listed :
         \E n \in ContainersOf(listed[p], p = 1 /\ circumstance = "debugged") :
            c = ReadContainer(template, p, n, circumstance)
  BY ContainersRead
<1>2. PICK n : c = ReadContainer(template, p, n, circumstance)
  BY <1>1
<1> HIDE DEF template
<1>3. c.pod = p /\ c.name = n
  BY <1>2, ContainerFields
<1>4. c = ReadContainer(template, c.pod, c.name, circumstance)
  BY <1>2, <1>3
<1> DEFINE d == ReadContainer(template, c.pod, c.name, circumstance)
           declared == Declared(listed[c.pod], c.name)
<1>5. /\ d.deployed = declared.deployed
      /\ d.compared = (declared.deployed \/ (c.name \in DOMAIN template /\ template[c.name].deployed))
      /\ d.state = StateOf(listed[c.pod].phase) /\ d.revision = listed[c.pod].revision
  BY ContainerFields
<1> HIDE DEF d
<1>6. c = d
  BY <1>4 DEF d
<1> QED BY <1>1, <1>3, <1>4, <1>5, <1>6 DEF template

\* A reading lists finitely many containers, each compared or not.
LEMMA FiniteRead ==
    ASSUME NEW workload, workload.revision \in Revision, NEW circumstance, listed # Unread, ListedHolds
    PROVE  FiniteReading(ReadingOf(workload, circumstance))
<1> DEFINE r == ReadingOf(workload, circumstance)
           template == PodTemplates[workload.revision]
           ofPod(p) == {ReadContainer(template, p, n, circumstance) :
                           n \in ContainersOf(listed[p], p = 1 /\ circumstance = "debugged")}
<1>1. /\ r.template = {ReadTemplate(template, n) : n \in DOMAIN template}
      /\ r.containers = UNION {ofPod(p) : p \in DOMAIN listed}
      /\ r.complete \in BOOLEAN
  BY DEF ReadingOf, Complete, CompleteByCounts
<1>2. IsFiniteSet(DOMAIN template) /\ \A n \in DOMAIN template : template[n].deployed \in BOOLEAN
  BY ImageAssumption
<1> HIDE DEF template
<1>3. IsFiniteSet(r.template)
  <2> DEFINE f == [n \in DOMAIN template |-> ReadTemplate(template, n)]
  <2>1. DOMAIN f = DOMAIN template /\ r.template = {f[n] : n \in DOMAIN template}
    BY <1>1
  <2> HIDE DEF f, r
  <2> QED BY <1>2, <2>1, FiniteImage
<1>4. \A t \in r.template : t.compared \in BOOLEAN
  <2> HIDE DEF r
  <2> QED BY <1>1, <1>2, TemplateFields
<1>5. ASSUME NEW p \in DOMAIN listed
      PROVE  IsFiniteSet(ofPod(p))
  <2> DEFINE names == ContainersOf(listed[p], p = 1 /\ circumstance = "debugged")
             f == [n \in names |-> ReadContainer(template, p, n, circumstance)]
  <2>1. IsFiniteSet(names)
    <3>1. IsFiniteSet(DOMAIN PodTemplates[listed[p].revision])
      BY ImageAssumption DEF ListedHolds
    <3>2. IsFiniteSet({"debug"})
      BY FS_Singleton
    <3>3. IsFiniteSet(DOMAIN PodTemplates[listed[p].revision] \cup {"debug"})
      BY <3>1, <3>2, FS_Union
    <3>4. names \subseteq DOMAIN PodTemplates[listed[p].revision] \cup {"debug"}
      BY DEF ContainersOf
    <3> QED BY <3>3, <3>4, FS_Subset
  <2>2. DOMAIN f = names /\ ofPod(p) = {f[n] : n \in names}
    OBVIOUS
  <2> HIDE DEF names, f
  <2> QED BY <2>1, <2>2, FiniteImage
<1>6. IsFiniteSet(r.containers)
  <2> DEFINE f == [p \in DOMAIN listed |-> ofPod(p)]
             groups == {f[p] : p \in DOMAIN listed}
  <2>1. DOMAIN f = DOMAIN listed /\ \A p \in DOMAIN listed : f[p] = ofPod(p)
    OBVIOUS
  <2>2. r.containers = UNION groups
    BY <1>1
  <2> HIDE DEF f, ofPod, r
  <2>3. IsFiniteSet(groups)
    BY <2>1, FiniteImage DEF ListedHolds
  <2>4. \A T \in groups : IsFiniteSet(T)
    BY <1>5, <2>1
  <2> QED BY <2>2, <2>3, <2>4, FS_UNION
<1>7. \A c \in r.containers : c.compared \in BOOLEAN
  BY ContainerRead
<1> HIDE DEF r
<1> QED BY <1>1, <1>3, <1>4, <1>6, <1>7 DEF FiniteReading, r

\* A pod lists a container once, in one state and one revision, and compares
\* those the template compares.
LEMMA PodsReadAreOne ==
    ASSUME NEW workload, NEW circumstance
    PROVE  PodsAreOne(ReadingOf(workload, circumstance)) /\ CheckCompared(ReadingOf(workload, circumstance))
<1> DEFINE r == ReadingOf(workload, circumstance)
           template == PodTemplates[workload.revision]
<1>1. ASSUME NEW c \in r.containers
      PROVE  (c.name \in Compared(r) \/ c.deployed) => c.compared
  <2>1. c.name \in Compared(r) => c.name \in DOMAIN template /\ template[c.name].deployed
    BY ComparedRead
  <2>2. c.compared = (c.deployed \/ (c.name \in DOMAIN template /\ template[c.name].deployed))
    BY ContainerRead
  <2> HIDE DEF r, template
  <2> QED BY <2>1, <2>2
<1>2. ASSUME NEW c \in r.containers, NEW d \in r.containers, c.pod = d.pod
      PROVE  c.state = d.state /\ c.revision = d.revision /\ (c.name = d.name => c = d)
  <2>1. /\ c = ReadContainer(template, c.pod, c.name, circumstance)
        /\ c.state = StateOf(listed[c.pod].phase) /\ c.revision = listed[c.pod].revision
    BY ContainerRead
  <2>2. /\ d = ReadContainer(template, d.pod, d.name, circumstance)
        /\ d.state = StateOf(listed[d.pod].phase) /\ d.revision = listed[d.pod].revision
    BY ContainerRead
  <2> HIDE DEF r, template
  <2> QED BY <1>2, <2>1, <2>2
<1>3. ASSUME NEW t \in r.template
      PROVE  t.deployed => t.compared
  <2>1. PICK n \in DOMAIN template : t = ReadTemplate(template, n)
    BY TemplateRead
  <2> HIDE DEF r, template
  <2> QED BY <2>1, TemplateFields
<1> HIDE DEF r
<1> QED BY <1>1, <1>2, <1>3 DEF PodsAreOne, CheckCompared, r

\* The live pods of a reading are those that were listed live.
LEMMA LivePodsRead ==
    ASSUME NEW workload, NEW circumstance,
           \A p \in DOMAIN listed : listed[p].revision \in Revision
    PROVE  LivePods(ReadingOf(workload, circumstance)) =
              {p \in DOMAIN listed : StateOf(listed[p].phase) = "live"}
<1> DEFINE r == ReadingOf(workload, circumstance)
           template == PodTemplates[workload.revision]
<1>1. ASSUME NEW pod \in LivePods(r)
      PROVE  pod \in DOMAIN listed /\ StateOf(listed[pod].phase) = "live"
  <2>1. PICK c \in r.containers : c.state = "live" /\ c.pod = pod
    BY <1>1 DEF LivePods
  <2>2. c.pod \in DOMAIN listed /\ c.state = StateOf(listed[c.pod].phase)
    BY ContainerRead
  <2> QED BY <2>1, <2>2
<1>2. ASSUME NEW p \in DOMAIN listed, StateOf(listed[p].phase) = "live"
      PROVE  p \in LivePods(r)
  <2>1. PICK n \in ContainersOf(listed[p], p = 1 /\ circumstance = "debugged") : TRUE
    BY ContainerNames
  <2> DEFINE c == ReadContainer(template, p, n, circumstance)
  <2>2. c \in r.containers
    BY ContainersRead
  <2> HIDE DEF r
  <2>3. c.pod = p /\ c.state = "live"
    BY <1>2, ContainerFields
  <2> HIDE DEF c
  <2> QED BY <2>2, <2>3 DEF LivePods
<1> QED BY <1>1, <1>2

\* Pods that are all of the template read, as a finished rollout's are.
LEMMA FinishedRead ==
    ASSUME NEW workload, NEW circumstance, workload.revision \in Revision,
           workload.rollout.kind = "stateful_set" => workload.rollout.updateRevision = workload.revision,
           \A p \in DOMAIN listed :
              /\ listed[p].revision \in Revision
              /\ StateOf(listed[p].phase) = "live" => listed[p].revision = workload.revision
    PROVE  FinishedRollout(ReadingOf(workload, circumstance))
<1> DEFINE r == ReadingOf(workload, circumstance)
           template == PodTemplates[workload.revision]
           revisions == {c.revision : c \in {d \in r.containers : d.state = "live"}}
<1>1. ASSUME NEW pod \in LivePods(r), NEW t \in r.template
      PROVE  \E c \in OfPod(r, pod) : c.name = t.name /\ c.role = t.role
  <2>1. pod \in DOMAIN listed /\ listed[pod].revision = workload.revision
    BY LivePodsRead
  <2>2. PICK n \in DOMAIN template : t = ReadTemplate(template, n)
    BY TemplateRead
  <2> DEFINE c == ReadContainer(template, pod, n, circumstance)
  <2>3. n \in ContainersOf(listed[pod], pod = 1 /\ circumstance = "debugged")
    BY <2>1, ContainerNames
  <2>4. Declared(listed[pod], n) = template[n]
    BY <2>1, ContainerNames
  <2>5. c \in r.containers
    BY <2>1, <2>3, ContainersRead
  <2> HIDE DEF r, template
  <2>6. c.pod = pod /\ c.name = n /\ c.role = template[n].role
    BY <2>4, ContainerFields
  <2>7. t.name = n /\ t.role = template[n].role
    BY <2>2, TemplateFields
  <2> HIDE DEF c
  <2> QED BY <2>5, <2>6, <2>7 DEF OfPod
<1>2. revisions \subseteq {workload.revision}
  <2> SUFFICES ASSUME NEW c \in r.containers, c.state = "live"
               PROVE  c.revision = workload.revision
    OBVIOUS
  <2>1. /\ c.pod \in DOMAIN listed /\ c.state = StateOf(listed[c.pod].phase)
        /\ c.revision = listed[c.pod].revision
    BY ContainerRead
  <2> QED BY <2>1
<1>3. Cardinality(revisions) <= 1
  <2> HIDE DEF revisions
  <2>1. IsFiniteSet({workload.revision}) /\ Cardinality({workload.revision}) = 1
    BY FS_Singleton
  <2>2. Cardinality(revisions) <= Cardinality({workload.revision})
    BY <1>2, <2>1, FS_Subset
  <2> QED BY <2>1, <2>2
<1>4. r.rollout = workload.rollout
  BY DEF ReadingOf
<1> HIDE DEF r
<1>5. r.rollout.kind = "stateful_set" => revisions \subseteq {r.rollout.updateRevision}
  BY <1>2, <1>4
<1>6. FinishedRollout(r)
  BY <1>1, <1>3, <1>5 DEF FinishedRollout
<1> QED BY <1>6 DEF r

\* Counts that show this generation's rollout finished and no other pod are
\* settled; any but a stateful set's show no other pod.
LEMMA FinishedIsSettled ==
    ASSUME WorkloadTypes, StatusFollows, NEW held, Complete(Workload.rollout, held)
    PROVE  /\ Workload.rollout.observed = Workload.rollout.generation
           /\ kind # "stateful_set" => Settled(Workload.rollout)
<1> DEFINE rollout == Workload.rollout
<1>1. /\ rollout.kind = kind /\ rollout.generation = spec.generation /\ rollout.observed = status.observed
      /\ rollout.replicas = status.replicas /\ rollout.updated = status.updated
      /\ rollout.desired = IF kind = "daemon_set" THEN status.desired ELSE spec.desired
      /\ rollout.misscheduled = IF status.replicas > status.desired
                                THEN status.replicas - status.desired ELSE 0
  BY DEF Workload
<1> HIDE DEF rollout
<1>2. Complete(rollout, held)
  BY DEF rollout
<1>3. rollout.observed = rollout.generation
  BY <1>1, <1>2 DEF Complete, WorkloadTypes, StatusFollows
<1>4. CASE kind = "deployment"
  BY <1>1, <1>2, <1>3, <1>4 DEF Complete, CompleteByCounts, Settled, rollout
<1>5. CASE kind = "daemon_set"
  <2>1. rollout.misscheduled = 0 /\ rollout.updated = rollout.desired
    BY <1>1, <1>2, <1>5 DEF Complete, CompleteByCounts
  <2>2. rollout.desired = status.desired
    BY <1>1, <1>5
  <2>3. status.replicas = status.updated
    BY <1>1, <2>1, <2>2 DEF WorkloadTypes, StatusFollows
  <2> QED BY <1>1, <1>3, <2>3 DEF Settled, rollout
<1>6. kind \in {"deployment", "stateful_set", "daemon_set"}
  BY ImageAssumption DEF WorkloadTypes
<1> QED BY <1>3, <1>4, <1>5, <1>6 DEF rollout

\* A pass is of a rollout that finished.
LEMMA PassIsComplete ==
    ASSUME NEW r, NEW build, RunningImageStatus(r, build) = "pass"
    PROVE  r.complete
BY DEF RunningImageStatus

\* A reading whose two reads of the workload agree.
LEMMA HonestReading ==
    ASSUME ReadingInv, listed # Unread, before = Workload, NEW circumstance
    PROVE  LET r == ReadingOf(Workload, circumstance)
           IN  /\ CountsNoOtherPod(r) => Accepts(r)
               /\ Accepts(r) /\ r.complete =>
                     \A c \in r.containers : c.state = "live" => c.revision = r.revision
<1> USE DEF ReadingInv
<1> DEFINE r == ReadingOf(Workload, circumstance)
           rollout == Workload.rollout
           held == circumstance = "held"
<1>1. /\ rollout.kind = kind /\ rollout.generation = spec.generation
      /\ rollout.observed = status.observed /\ rollout.updateRevision = status.revision
      /\ Workload.revision = spec.revision
  BY DEF Workload
<1>2. /\ r.workload = kind /\ r.rollout = rollout /\ r.held = held
      /\ r.complete = Complete(rollout, held) /\ r.expected = ExpectedLivePods(rollout)
      /\ r.live = Cardinality({p \in DOMAIN listed : StateOf(listed[p].phase) = "live"})
      /\ r.owners = (kind = "deployment") /\ r.revision = Workload.revision
  BY DEF ReadingOf
<1>3. \A p \in DOMAIN listed :
         /\ listed[p].revision \in Revision
         /\ Settled(rollout) /\ StateOf(listed[p].phase) = "live" =>
               listed[p].revision = spec.revision
  BY <1>1 DEF ListedHolds
<1>4. r.complete => /\ rollout.observed = rollout.generation
                    /\ kind # "stateful_set" => Settled(rollout)
                    /\ status.revision = spec.revision
  BY <1>1, <1>2, FinishedIsSettled DEF StatusFollows
<1>5. ASSUME CountsNoOtherPod(r)
      PROVE  FinishedRollout(r)
  <2>1. CASE ~r.complete
    BY <2>1 DEF FinishedRollout
  <2>2. CASE r.complete
    <3>1. Settled(rollout)
      BY <1>2, <1>4, <1>5, <2>2 DEF Settled, CountsNoOtherPod
    <3>2. Workload.rollout.updateRevision = Workload.revision /\ Workload.revision \in Revision
      BY <1>1, <1>4, <2>2 DEF WorkloadTypes
    <3>3. \A p \in DOMAIN listed :
             /\ listed[p].revision \in Revision
             /\ StateOf(listed[p].phase) = "live" => listed[p].revision = Workload.revision
      BY <1>1, <1>3, <3>1
    <3> QED BY <3>2, <3>3, FinishedRead
  <2> QED BY <2>1, <2>2
<1>6. CountsNoOtherPod(r) => Accepts(r)
  <2>1. PodsAreOne(r) /\ CheckCompared(r)
    BY PodsReadAreOne
  <2>2. r.live = Cardinality(LivePods(r))
    BY <1>2, <1>3, LivePodsRead
  <2> HIDE DEF r, rollout, held
  <2> QED BY <1>1, <1>2, <1>5, <2>1, <2>2 DEF Accepts
<1>7. ASSUME Accepts(r), r.complete, NEW c \in r.containers, c.state = "live"
      PROVE  c.revision = r.revision
  <2>1. /\ c.pod \in DOMAIN listed /\ c.state = StateOf(listed[c.pod].phase)
        /\ c.revision = listed[c.pod].revision
    BY ContainerRead
  <2>2. CASE kind = "stateful_set"
    <3>1. FinishedRollout(r)
      BY <1>7 DEF Accepts
    <3> HIDE DEF r
    <3>2. c.revision \in {r.rollout.updateRevision}
      BY <1>1, <1>2, <1>7, <2>2, <3>1 DEF FinishedRollout
    <3> QED BY <1>1, <1>2, <1>4, <1>7, <3>2
  <2>3. CASE kind # "stateful_set"
    <3>1. Settled(rollout)
      BY <1>4, <1>7, <2>3
    <3> HIDE DEF r, rollout
    <3> QED BY <1>1, <1>2, <1>3, <1>7, <2>1, <3>1
  <2> QED BY <2>2, <2>3
<1> QED BY <1>6, <1>7

-----------------------------------------------------------------------------
(* The invariant holds at first, and after every step.                     *)

LEMMA ReadingStarts == ReadingInit => ReadingInv
<1> SUFFICES ASSUME ReadingInit PROVE ReadingInv
  OBVIOUS
<1>1. WorkloadTypes
  <2>1. /\ spec.revision \in Revision /\ spec.desired \in Nat /\ spec.generation = 1
        /\ status.observed = 0 /\ status.desired = 0 /\ status.replicas = 0 /\ status.updated = 0
    BY ImageAssumption DEF ReadingInit
  <2>2. pods \in Seq([revision : Revision, phase : Phase])
    BY DEF ReadingInit
  <2> QED BY <2>1, <2>2 DEF ReadingInit, WorkloadTypes
<1>2. StatusFollows
  BY DEF ReadingInit, StatusFollows
<1>3. SettledNow
  BY DEF ReadingInit, SettledNow
<1> QED BY <1>1, <1>2, <1>3 DEF ReadingInit, ReadingInv, BeforeHolds, ListedHolds, ReadingHolds,
           ShippedAssertionAgrees, RefusedOnlyWhenItMoved, PassIsOfTheTemplateRead

\* A new spec: no count is of its generation.
LEMMA ChangeSpecKeeps ==
    ASSUME ReadingInv, reading = Unread, NEW revision \in Revision, NEW desired \in Replicas,
           ChangeSpec(revision, desired)
    PROVE  ReadingInv'
<1> USE DEF ReadingInv, ChangeSpec
<1>1. /\ spec'.revision = revision /\ spec'.desired = desired
      /\ spec'.generation = spec.generation + 1
  OBVIOUS
<1>2. WorkloadTypes'
  BY <1>1, ImageAssumption DEF WorkloadTypes
<1>3. StatusFollows'
  BY <1>1 DEF StatusFollows, WorkloadTypes
<1>4. SettledNow'
  BY <1>1 DEF SettledNow, StatusFollows, WorkloadTypes
<1>5. BeforeHolds'
  BY <1>1 DEF BeforeHolds, WorkloadTypes
<1>6. ListedHolds'
  BY <1>1 DEF ListedHolds, BeforeHolds, WorkloadTypes
<1>7. ReadingHolds'
  BY DEF ReadingHolds, ShippedAssertionAgrees, RefusedOnlyWhenItMoved,
     PassIsOfTheTemplateRead
<1> QED BY <1>2, <1>3, <1>4, <1>5, <1>6, <1>7

\* The pods in sight are finitely many.
LEMMA ActiveFinite ==
    ASSUME WorkloadTypes
    PROVE  IsFiniteSet(Active)
<1>1. DOMAIN pods = 1..Len(pods) /\ Len(pods) \in Nat
  BY DEF WorkloadTypes
<1>2. IsFiniteSet(1..Len(pods))
  BY <1>1, FS_Interval
<1> QED BY <1>1, <1>2, FS_Subset DEF Active

\* A new status: as many pods of the template as there are pods are all of them.
LEMMA WriteStatusKeeps ==
    ASSUME ReadingInv, reading = Unread, WriteStatus
    PROVE  ReadingInv'
<1> USE DEF ReadingInv
<1> DEFINE ofRevision == {p \in Active : pods[p].revision = spec.revision}
<1>1. /\ status'.observed = spec.generation /\ status'.revision = spec.revision
      /\ status'.desired = spec.desired /\ status'.replicas = Cardinality(Active)
      /\ status'.updated = Cardinality(ofRevision)
      /\ UNCHANGED <<kind, spec, pods, before, listed, reading>>
  BY DEF WriteStatus
<1>2. /\ Cardinality(Active) \in Nat /\ Cardinality(ofRevision) \in Nat
      /\ Cardinality(ofRevision) <= Cardinality(Active)
      /\ Cardinality(ofRevision) = Cardinality(Active) => ofRevision = Active
  BY ActiveFinite, FS_Subset, FS_CardinalityType
<1>3. WorkloadTypes'
  BY <1>1, <1>2 DEF WorkloadTypes
<1>4. StatusFollows'
  BY <1>1, <1>2 DEF StatusFollows, WorkloadTypes
<1>5. SettledNow'
  BY <1>1, <1>2 DEF SettledNow, ActiveAre, Active
<1>6. BeforeHolds'
  BY <1>1 DEF BeforeHolds, StatusFollows, WorkloadTypes, ActiveAre, Active
<1>7. ListedHolds'
  BY <1>1 DEF ListedHolds
<1>8. ReadingHolds'
  BY <1>1 DEF ReadingHolds, ShippedAssertionAgrees, RefusedOnlyWhenItMoved,
     PassIsOfTheTemplateRead
<1> QED BY <1>3, <1>4, <1>5, <1>6, <1>7, <1>8

\* Pods that come are of the status's template, and none that went comes back.
LEMMA PodsKeep ==
    ASSUME ReadingInv, reading = Unread, listed = Unread,
           UNCHANGED <<kind, spec, status, before, listed, reading>>,
           pods' \in Seq([revision : Revision, phase : Phase]),
           \A p \in Active' : pods'[p].revision = status.revision \/
                             (p \in Active /\ pods'[p].revision = pods[p].revision)
    PROVE  ReadingInv'
<1> USE DEF ReadingInv
<1>1. WorkloadTypes'
  BY DEF WorkloadTypes
<1>2. StatusFollows'
  BY DEF StatusFollows
<1>3. ASSUME status.observed = spec.generation, ActiveAre(spec.revision)
      PROVE  ActiveAre(spec.revision)'
  BY <1>3 DEF ActiveAre, StatusFollows
<1>4. SettledNow'
  BY <1>3 DEF SettledNow
<1>5. BeforeHolds'
  BY <1>3 DEF BeforeHolds, Settled, StatusFollows, WorkloadTypes
<1>6. ListedHolds' /\ ReadingHolds'
  BY DEF ListedHolds, ReadingHolds, ShippedAssertionAgrees, RefusedOnlyWhenItMoved,
     PassIsOfTheTemplateRead
<1> QED BY <1>1, <1>2, <1>4, <1>5, <1>6

LEMMA CreatePodKeeps ==
    ASSUME ReadingInv, reading = Unread, CreatePod
    PROVE  ReadingInv'
<1> DEFINE pod == Pod(status.revision, "starting")
<1>1. pods \in Seq([revision : Revision, phase : Phase])
  BY DEF ReadingInv, WorkloadTypes
<1>2. pod \in [revision : Revision, phase : Phase] /\ pod.revision = status.revision
  BY DEF ReadingInv, StatusFollows, CreatePod, Pod, Phase
<1> HIDE DEF pod
<1>3. pods' = Append(pods, pod)
  BY DEF CreatePod, pod
<1>4. /\ pods' \in Seq([revision : Revision, phase : Phase])
      /\ \A p \in DOMAIN pods' : (p \in DOMAIN pods /\ pods'[p] = pods[p]) \/ pods'[p] = pod
  BY <1>1, <1>2, <1>3
<1>5. \A p \in Active' : pods'[p].revision = status.revision \/
                       (p \in Active /\ pods'[p].revision = pods[p].revision)
  BY <1>2, <1>4 DEF Active
<1> QED BY <1>4, <1>5, PodsKeep DEF CreatePod, Followed

LEMMA MovePodKeeps ==
    ASSUME ReadingInv, reading = Unread, NEW p \in DOMAIN pods, NEW phase, MovePod(p, phase)
    PROVE  ReadingInv'
<1> DEFINE pod == Pod(pods[p].revision, phase)
<1>1. pods \in Seq([revision : Revision, phase : Phase])
  BY DEF ReadingInv, WorkloadTypes
<1>2. /\ phase \in Phase
      /\ phase \in {"starting", "running"} => pods[p].phase \in {"starting", "running"}
  BY DEF MovePod, Moves, Phase
<1>3. /\ pod \in [revision : Revision, phase : Phase]
      /\ pod.revision = pods[p].revision /\ pod.phase = phase
  <2>1. ASSUME NEW T, pods \in Seq(T)
        PROVE  pods[p] \in T
    BY <2>1
  <2>2. pods[p] \in [revision : Revision, phase : Phase]
    BY <1>1, <2>1
  <2> QED BY <1>2, <2>2 DEF Pod
<1> HIDE DEF pod
<1>4. pods' = [pods EXCEPT ![p] = pod]
  BY DEF MovePod, pod
<1>5. /\ pods' \in Seq([revision : Revision, phase : Phase])
      /\ \A q \in DOMAIN pods' : q \in DOMAIN pods /\ pods'[q] = IF q = p THEN pod ELSE pods[q]
  BY <1>1, <1>3, <1>4
<1>6. \A q \in Active' : q \in Active /\ pods'[q].revision = pods[q].revision
  BY <1>2, <1>3, <1>5 DEF Active
<1> QED BY <1>5, <1>6, PodsKeep DEF MovePod, Followed

LEMMA ReadWorkloadKeeps ==
    ASSUME ReadingInv, ReadWorkload
    PROVE  ReadingInv'
<1> USE DEF ReadingInv
<1>1. /\ before' = Workload /\ listed = listed' /\ before = Unread
      /\ UNCHANGED <<kind, spec, status, pods, reading>>
  BY DEF ReadWorkload, world
<1>2. /\ before'.rollout.generation = spec.generation /\ before'.rollout.observed = status.observed
      /\ before'.rollout.replicas = status.replicas /\ before'.rollout.updated = status.updated
  BY <1>1 DEF Workload
<1>3. WorkloadTypes' /\ StatusFollows'
  BY <1>1 DEF WorkloadTypes, StatusFollows
<1>4. SettledNow'
  BY <1>1 DEF SettledNow, ActiveAre, Active
<1>5. BeforeHolds'
  <2>1. before'.revision \in Revision
    BY <1>1 DEF Workload, WorkloadTypes
  <2> QED BY <1>1, <1>2, <2>1 DEF BeforeHolds, Settled, SettledNow, WorkloadTypes, ActiveAre, Active
<1>6. ListedHolds'
  BY <1>1 DEF ListedHolds
<1>7. ReadingHolds'
  BY <1>1 DEF ReadingHolds, ShippedAssertionAgrees, RefusedOnlyWhenItMoved,
     PassIsOfTheTemplateRead
<1> QED BY <1>3, <1>4, <1>5, <1>6, <1>7

LEMMA ListPodsKeeps ==
    ASSUME ReadingInv, ListPods
    PROVE  ReadingInv'
<1> USE DEF ReadingInv
<1>1. /\ before # Unread /\ listed' = [p \in Listable |-> pods[p]]
      /\ UNCHANGED <<kind, spec, status, pods, before, reading>>
  BY DEF ListPods, world
<1>2. DOMAIN pods = 1..Len(pods) /\ Len(pods) \in Nat
  BY DEF WorkloadTypes
<1>3. IsFiniteSet(DOMAIN listed')
  <2>1. IsFiniteSet(1..Len(pods))
    BY <1>2, FS_Interval
  <2> QED BY <1>1, <1>2, <2>1, FS_Subset DEF Listable
<1>4. ASSUME NEW p \in DOMAIN listed'
      PROVE  /\ listed'[p] = pods[p] /\ p \in DOMAIN pods
             /\ listed'[p] \in [revision : Revision, phase : Phase]
  <2>1. ASSUME NEW T, pods \in Seq(T), p \in DOMAIN pods
        PROVE  pods[p] \in T
    BY <2>1
  <2>2. listed'[p] = pods[p] /\ p \in DOMAIN pods
    BY <1>1 DEF Listable
  <2> QED BY <2>1, <2>2 DEF WorkloadTypes
<1>5. \A p \in DOMAIN listed' : StateOf(listed'[p].phase) = "live" => p \in Active
  BY <1>4 DEF StateOf, Phase, Active
<1>6. ListedHolds'
  <2>1. Settled(before.rollout) /\ before.rollout.generation = spec.generation =>
           ActiveAre(spec.revision)
    BY <1>1 DEF BeforeHolds
  <2> QED BY <1>1, <1>3, <1>4, <1>5, <2>1 DEF ListedHolds, ActiveAre
<1>7. WorkloadTypes' /\ StatusFollows'
  BY <1>1 DEF WorkloadTypes, StatusFollows
<1>8. SettledNow' /\ BeforeHolds'
  BY <1>1 DEF SettledNow, BeforeHolds, ActiveAre, Active
<1>9. ReadingHolds'
  BY <1>1 DEF ReadingHolds, ShippedAssertionAgrees, RefusedOnlyWhenItMoved,
     PassIsOfTheTemplateRead
<1> QED BY <1>6, <1>7, <1>8, <1>9

LEMMA ReadAgainKeeps ==
    ASSUME ReadingInv, NEW workload \in {before, Workload}, NEW circumstance,
           ReadAgain(workload, circumstance)
    PROVE  ReadingInv'
<1> USE DEF ReadingInv
<1> DEFINE r == ReadingOf(workload, circumstance)
<1>1. /\ listed # Unread /\ reading' = r
      /\ UNCHANGED <<kind, spec, status, pods, before, listed>>
  BY DEF ReadAgain, world
<1>2. WorkloadTypes' /\ StatusFollows'
  BY <1>1 DEF WorkloadTypes, StatusFollows
<1>3. SettledNow' /\ BeforeHolds' /\ ListedHolds'
  BY <1>1 DEF SettledNow, BeforeHolds, ListedHolds, ActiveAre, Active
<1>4. ReadingHolds'
  <2>1. r.agreed => workload = Workload /\ before = Workload
    BY DEF ReadingOf
  <2>2. r.agreed =>
           /\ CountsNoOtherPod(r) => Accepts(r)
           /\ Accepts(r) /\ r.complete =>
                 \A c \in r.containers : c.state = "live" => c.revision = r.revision
    BY <1>1, <2>1, HonestReading
  <2> HIDE DEF r
  <2>3. RefusedOnlyWhenItMoved'
    BY <1>1, <2>2 DEF RefusedOnlyWhenItMoved
  <2>4. PassIsOfTheTemplateRead'
    BY <1>1, <2>2, PassIsComplete DEF PassIsOfTheTemplateRead
  <2>5. ShippedAssertionAgrees'
    <3>1. workload.revision \in Revision
      BY <1>1 DEF ListedHolds, BeforeHolds, Workload, WorkloadTypes
    <3>2. FiniteReading(r)
      BY <1>1, <3>1, FiniteRead DEF r
    <3>3. \A build \in AcceptedBuilds : AcceptedBuild(build)
      BY ImageAssumption DEF AcceptedBuild
    <3> QED BY <1>1, <3>2, <3>3, Agreement, ImageAssumption DEF ShippedAssertionAgrees
  <2> QED BY <2>3, <2>4, <2>5 DEF ReadingHolds
<1> QED BY <1>2, <1>3, <1>4

LEMMA ReadingSteps == ReadingInv /\ [ReadingNext]_readingVars => ReadingInv'
<1> SUFFICES ASSUME ReadingInv, [ReadingNext]_readingVars PROVE ReadingInv'
  OBVIOUS
<1>1. ASSUME NEW revision \in Revision, NEW desired \in Replicas,
             reading = Unread, ChangeSpec(revision, desired)
      PROVE  ReadingInv'
  BY <1>1, ChangeSpecKeeps
<1>2. CASE reading = Unread /\ WriteStatus
  BY <1>2, WriteStatusKeeps
<1>3. CASE reading = Unread /\ CreatePod
  BY <1>3, CreatePodKeeps
<1>4. ASSUME NEW p \in DOMAIN pods, NEW move \in Moves, reading = Unread, MovePod(p, move[2])
      PROVE  ReadingInv'
  BY <1>4, MovePodKeeps
<1>5. CASE ReadWorkload
  BY <1>5, ReadWorkloadKeeps
<1>6. CASE ListPods
  BY <1>6, ListPodsKeeps
<1>7. ASSUME NEW workload \in {before, Workload}, NEW circumstance \in Circumstance,
             ReadAgain(workload, circumstance)
      PROVE  ReadingInv'
  BY <1>7, ReadAgainKeeps
<1>8. CASE UNCHANGED readingVars
  BY <1>8 DEF readingVars, world, ReadingInv, WorkloadTypes, StatusFollows, SettledNow, BeforeHolds,
     ListedHolds, ReadingHolds, ShippedAssertionAgrees, RefusedOnlyWhenItMoved,
     PassIsOfTheTemplateRead, ActiveAre, Active
<1> QED BY <1>1, <1>2, <1>3, <1>4, <1>5, <1>6, <1>7, <1>8 DEF ReadingNext

LEMMA ReadingInvariant == ReadingSpec => []ReadingInv
BY ReadingStarts, ReadingSteps, PTL DEF ReadingSpec

\* No honest reading of a workload that did not move is refused, but of a
\* stateful set whose counts show it finished and another pod beside.
THEOREM RefusedIfItMoved == ReadingSpec => []RefusedOnlyWhenItMoved
<1>1. ReadingInv => RefusedOnlyWhenItMoved
  BY DEF ReadingInv, ReadingHolds
<1> QED BY <1>1, ReadingInvariant, PTL

\* A pass over a reading whose two reads of the workload agree leaves no live
\* pod of another template.
THEOREM PassOfTheTemplate == ReadingSpec => []PassIsOfTheTemplateRead
<1>1. ReadingInv => PassIsOfTheTemplateRead
  BY DEF ReadingInv, ReadingHolds
<1> QED BY <1>1, ReadingInvariant, PTL

\* The shipped assertion, evaluated over an honest reading, with an accepted
\* build or none, gives the status the record's rule recomputes in Python.
THEOREM ShippedAgrees == ReadingSpec => []ShippedAssertionAgrees
<1>1. ReadingInv => ShippedAssertionAgrees
  BY DEF ReadingInv, ReadingHolds
<1> QED BY <1>1, ReadingInvariant, PTL
=============================================================================
