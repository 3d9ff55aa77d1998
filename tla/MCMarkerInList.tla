--------------------------- MODULE MCMarkerInList ---------------------------
(* Assertions over a planned resource, one of whose related resources names *)
(* in `via` an attribute the redaction policy hid.                          *)
EXTENDS Hidden

Bucket == Text(1)   Acl == Text(2)   None == Text(3)

Via == <<"item", "via">>
Related(where) ==
    [selectors |-> <<>>, when |-> <<>>, check |-> Exists(<<"resource", "related">>, <<where>>)]

AllAssertions ==
    { Related(Pred(Via, "contains", Lit(Bucket))),
      Related(NotExpr(Pred(Via, "contains", Lit(Bucket)))),
      Related(Exists(Via, <<Pred(<<"item">>, "equal", Lit(Bucket))>>)) }
AllHoles == {"via"}
Trees ==
    { Object([resource |-> Object([related |-> Array(
          <<Object([via |-> Array(<<Hole("via", Redacted, v), Acl>>)])>>)])]) : v \in {Bucket, None} }

AllSubjects == SubjectsOf(Trees, AllHoles)
AllJson == JsonOf(Trees, AllHoles)
AllPlaces == PlacesOf(AllAssertions, { s[unknown] : s \in AllSubjects, unknown \in SUBSET AllHoles })

MCAssertions == AllAssertions
MCHoles == AllHoles
MCSubjects == AllSubjects
MCJson == AllJson
MCPlain == PlainOf(AllJson)
MCReveals == RevealsOf(AllJson)
MCPlaces == AllPlaces
MCDepth == DepthOf(AllPlaces)
MCExpressions == DOMAIN DepthOf(AllPlaces)

\* "A predicate that reaches either [marker] is `unknown`": the answer of an
\* assertion whose only predicate reads a list that holds a redacted value.
PredicateThatReachesAMarkerIsUnknown ==
    \A a \in Assertions : "via" \in hidden => answer[a].status = "unknown"
=============================================================================
