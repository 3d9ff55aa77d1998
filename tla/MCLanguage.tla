----------------------------- MODULE MCLanguage -----------------------------
(* Assertions over a change's pre-deploy input: the two approval assertions *)
(* the package ships, and every pair of a few expressions of each kind;     *)
(* and, apart from them, results composed of any operands.                  *)
EXTENDS Hidden, Composition

Approved == Text(1)   Change == Text(2)   Run == Text(3)   Security == Text(4)
Independent == Text(5) Permitted == Text(6) Id == Text(7)  Digest == Text(8)
Aws == Text(9)  KmsKey == Text(10)  Bucket == Text(11)  Gcp == Text(12)

Item(name) == <<"item", name>>
Production == Pred(<<"organization_scope", "environment", "production">>, "equal", Lit(Boolean(TRUE)))
Sensitive == [provider |-> Aws, kinds |-> <<KmsKey>>]
Storage == [provider |-> Aws, kinds |-> <<Bucket>>]
Elsewhere == [provider |-> Gcp, kinds |-> <<KmsKey, Bucket>>]

\* ILT.CHANGE.SENSITIVE_CHANGE_APPROVED and ILT.CHANGE.PRODUCTION_APPROVED.
ChangeApproved ==
    Exists(<<"approvals">>,
           <<AllExpr(<<Pred(Item("status"), "equal", Lit(Approved)),
                   Pred(<<"item", "subject", "kind">>, "equal", Lit(Change)),
                   Pred(<<"item", "subject", "digest">>, "equal", Ref(<<"change", "digest">>)),
                   Pred(Item("roles"), "contains", Lit(Security)),
                   Pred(Item("independence"), "equal", Lit(Independent))>>)>>)
RunApproved ==
    Exists(<<"approvals">>,
           <<AllExpr(<<Pred(Item("status"), "equal", Lit(Approved)),
                   Pred(<<"item", "subject", "kind">>, "equal", Lit(Run)),
                   Pred(<<"item", "subject", "id">>, "equal", Ref(<<"run", "id">>))>>)>>)
EitherApproved == AnyExpr(<<ChangeApproved, RunApproved>>)

Leaves ==
    << Production, ChangeApproved, RunApproved,
       Exists(<<"approvals">>, <<>>),
       Exists(<<"change", "resources">>, <<Pred(Item("kind"), "not_in", Lit(Array(<<KmsKey>>)))>>),
       Exists(<<"approvals">>, <<Exists(<<"item", "roles">>, <<Pred(<<"item">>, "equal", Lit(Security))>>)>>),
       Exists(<<"approvals">>, <<Exists(<<"change", "resources">>, <<Pred(Item("kind"), "equal", Lit(KmsKey))>>)>>),
       Pred(<<"run", "id">>, "in", Ref(<<"approvals">>)) >>
Pairs == { <<x, y>> : x, y \in {Leaves[i] : i \in DOMAIN Leaves} }
Checks == { AllExpr(p) : p \in Pairs } \union { AnyExpr(<<p[1], NotExpr(p[2])>>) : p \in Pairs }

Whens == { <<>>, <<Production>>, <<NotExpr(Production)>> }
Selectors == { <<>>, <<Sensitive>>, <<Sensitive, Storage>>, <<Elsewhere>> }

AllAssertions ==
    [selectors : Selectors, when : Whens, check : {EitherApproved, Leaves[5]}]
    \union [selectors : {<<>>}, when : {<<>>}, check : Checks]

Resource(hole, kind) ==
    Object([provider |-> Aws, kind |-> Hole(hole, Marker("kind_unmapped"), kind)])
OfChange(roles, independence) ==
    Object([status |-> Approved, roles |-> Array(roles), independence |-> independence,
            subject |-> Object([kind |-> Change, digest |-> Digest])])
OfRun(id) ==
    Object([status |-> Approved, roles |-> Array(<<>>), independence |-> Independent,
            subject |-> Object([kind |-> Run, id |-> id])])
Approvals == { <<>>, <<OfChange(<<Security>>, Independent)>>, <<OfChange(<<Security>>, Permitted)>>,
               <<OfRun(Id)>>, <<OfChange(<<>>, Independent), OfRun(Text(0))>> }
Environments ==
    {Null} \union
    { Object([production |-> Hole("production", Marker("server_facts_unavailable"), Boolean(b))]) : b \in BOOLEAN }

AllHoles == {"production", "approvals", "kind 1", "kind 2"}
Trees ==
    { Object([organization_scope |-> Object([environment |-> e]),
              change |-> Object([digest |-> Digest,
                                 resources |-> Array(<<Resource("kind 1", k), Resource("kind 2", l)>>)]),
              run |-> Object([id |-> Id]),
              approvals |-> Hole("approvals", Marker("server_facts_unavailable"), Array(a))]) :
        e \in Environments, k, l \in {KmsKey, Bucket}, a \in Approvals }

AllSubjects == SubjectsOf(Trees, AllHoles)
AllInputs == { s[unknown] : s \in AllSubjects, unknown \in SUBSET AllHoles }
AllJson == JsonOf(Trees, AllHoles) \union
    UNION { {s.provider, Array(s.kinds)} \union { s.kinds[i] : i \in DOMAIN s.kinds } : s \in {Sensitive, Storage, Elsewhere} }
AllPlain == PlainOf(AllJson)
AllReveals == RevealsOf(AllJson)
AllPlaces == PlacesOf(AllAssertions, AllInputs)
AllDepths == DepthOf(AllPlaces)

\* TLC keeps the value of a definition, but not of what a constant stands for.
MCAssertions == AllAssertions
MCHoles == AllHoles
MCSubjects == AllSubjects
MCJson == AllJson
MCPlain == AllPlain
MCReveals == AllReveals
MCPlaces == AllPlaces
MCDepth == AllDepths
MCExpressions == DOMAIN AllDepths

ASSUME OperandsAreWhole(Places)

-----------------------------------------------------------------------------
MCOperators == {"equal", "greater_than", "contains"}
MCOperandValues == {Number(1), Array(<<Number(1)>>)}
MCPaths == {<<"a">>}
MCReasons == {"path_missing"}

\* Nothing is composed beside a run, and one run is enough to compose beside.
OneSubject == CHOOSE s \in Subjects : TRUE

MCInit == Init /\ (\/ made = {}
                   \/ subject = OneSubject /\ ComposeInit)
MCNext ==
    \/ made = {} /\ Next /\ UNCHANGED made
    \/ made # {} /\ ComposeNext /\ UNCHANGED vars
MCSpec == MCInit /\ [][MCNext]_<<vars, made>>
=============================================================================
