---------------------------- MODULE EventProofs ----------------------------
(***************************************************************************)
(* The evaluations of a run, and the check for drift after it.             *)
(*                                                                         *)
(* Of the evaluations: what an accepted record claims was computed, what   *)
(* it may name of the server, and that every record of what really         *)
(* happened is accepted.  The last is the long one: what an honest writer  *)
(* may report is split by who gave the verdict, and each kind of event is  *)
(* held against the rules of its document.  Of the drift check: what is    *)
(* accepted was read after the apply, a careful pipeline is never refused, *)
(* and what differed all along is listed, for any precision of time.       *)
(***************************************************************************)
EXTENDS AssuranceEvent, DriftCheck, FiniteSetTheorems, TLAPS

\* The run is one of those a record may be of, and an event names one of the
\* evaluators.
RunTypeOK ==
    /\ run \in [opened : {"server", "local"}, activity : Activities,
                environment : {"production", "none"}]
    /\ (run.opened = "server" /\ run.activity # "image_build")
           => run.environment # "none"
    /\ \A e \in events : e.evaluator \in {"opa", "scanner", "none"}

RunInv == RunTypeOK /\ HonestRecordAccepted

(***************************************************************************)
(* What an honest writer may report, by who gave the verdict.              *)
(***************************************************************************)
ByProgram(answer, built_in) ==
    \/ answer \in {<<"unknown", "path_missing">>,
                   <<"unknown", "server_facts_unavailable">>,
                   <<"pass", "none">>, <<"fail", "none">>,
                   <<"error", "evaluator_crash">>}
    \/ answer = <<"not_applicable", "when_guard_excluded">> /\ ~built_in

ByScanner(answer, built_in) ==
    /\ ~built_in
    /\ answer \in {<<"pass", "none">>, <<"fail", "none">>,
                   <<"not_evaluated", "scanner_version_not_allowed">>}

ByNothing(answer, built_in) ==
    \/ answer = <<"not_evaluated", "evaluator_unavailable">>
    \/ answer = <<"not_applicable", "no_subject_in_scope">> /\ ~built_in

GivenBy(evaluator, answer, built_in) ==
    \/ evaluator = "opa" /\ ByProgram(answer, built_in)
    \/ evaluator = "scanner" /\ ByScanner(answer, built_in)
    \/ evaluator = "none" /\ ByNothing(answer, built_in)

IsHonest(e, input, facts) ==
    \E built_in \in BOOLEAN, source \in Sources : \E evaluator, answer :
        /\ e = Event(input, facts, built_in, source, answer, evaluator)
        /\ GivenBy(evaluator, answer, built_in)
        /\ built_in => source \in BuiltInSources

LEMMA HonestEventsAre ==
    ASSUME NEW p, NEW input, NEW facts, NEW e \in HonestEvents(p, input, facts)
    PROVE  IsHonest(e, input, facts)
  <1>1. ASSUME NEW root, NEW b \in BOOLEAN, NEW source \in Sources,
               b => source \in BuiltInSources,
               e \in ProgramRan(input, root, facts, b, source)
        PROVE  IsHonest(e, input, facts)
    <2>1. PICK answer \in Answers(input, root)
                   \cup {<<"error", "evaluator_crash">>}
                   \cup (IF b THEN {}
                         ELSE {<<"not_applicable", "when_guard_excluded">>}) :
              e = Event(input, facts, b, source, answer, "opa")
      BY <1>1 DEF ProgramRan
    <2>2. ByProgram(answer, b)
      BY <2>1 DEF ByProgram, Answers
    <2>3. QED
      BY <1>1, <2>1, <2>2 DEF IsHonest, GivenBy
  <1>2. ASSUME NEW b \in BOOLEAN, NEW source \in Sources,
               b => source \in BuiltInSources,
               e \in NothingRan(input, facts, b, source)
        PROVE  IsHonest(e, input, facts)
    <2>1. CASE e = Event(input, facts, b, source,
                         <<"not_evaluated", "evaluator_unavailable">>, "none")
      BY <1>2, <2>1 DEF IsHonest, GivenBy, ByNothing
    <2>2. ASSUME ~b, NEW evaluator, NEW answer,
                 e = Event(input, facts, FALSE, source, answer, evaluator),
                 GivenBy(evaluator, answer, FALSE)
          PROVE  IsHonest(e, input, facts)
      BY <2>2 DEF IsHonest
    <2>3. CASE ~b
      <3>1. GivenBy("none", <<"not_applicable", "no_subject_in_scope">>, FALSE)
        BY DEF GivenBy, ByNothing
      <3>2. /\ GivenBy("scanner", <<"pass", "none">>, FALSE)
            /\ GivenBy("scanner", <<"fail", "none">>, FALSE)
            /\ GivenBy("scanner",
                       <<"not_evaluated", "scanner_version_not_allowed">>,
                       FALSE)
        BY DEF GivenBy, ByScanner
      <3>3. QED
        BY <1>2, <2>1, <2>2, <2>3, <3>1, <3>2 DEF NothingRan
    <2>4. QED
      BY <1>2, <2>1, <2>3 DEF NothingRan
  <1> DEFINE roots == RootsFor({run.activity}, p.stage, p.kind)
             Of(root, b, source) == ProgramRan(input, root, facts, b, source)
                                    \cup NothingRan(input, facts, b, source)
  <1>3. CASE e \in UNION {Of(root, b, source) : root \in roots, b \in BOOLEAN,
                               source \in Sources \cap BuiltInSources}
    <2>1. \E root \in roots, b \in BOOLEAN,
             source \in Sources \cap BuiltInSources : e \in Of(root, b, source)
      <3> HIDE DEF Of, roots
      <3>1. QED
        BY <1>3
    <2>2. QED
      BY <1>1, <1>2, <2>1
  <1> DEFINE OfOwn(root, source) ==
                 ProgramRan(input, root, facts, FALSE, source)
                 \cup NothingRan(input, facts, FALSE, source)
  <1>4. CASE e \in UNION {OfOwn(root, source) : root \in roots,
                               source \in Sources}
    <2>1. PICK root \in roots, source \in Sources : e \in OfOwn(root, source)
      <3> HIDE DEF OfOwn, roots
      <3>1. QED
        BY <1>4
    <2>2. CASE e \in ProgramRan(input, root, facts, FALSE, source)
      <3>1. FALSE \in BOOLEAN /\ (FALSE => source \in BuiltInSources)
        OBVIOUS
      <3>2. QED
        BY <1>1, <2>2, <3>1, Zenon
    <2>3. CASE e \in NothingRan(input, facts, FALSE, source)
      BY <1>2, <2>3, Zenon
    <2>4. QED
      BY <2>1, <2>2, <2>3
  <1>5. HonestEvents(p, input, facts) =
            (UNION {Of(root, b, source) : root \in roots, b \in BOOLEAN,
                        source \in Sources \cap BuiltInSources})
            \cup (UNION {OfOwn(root, source) : root \in roots,
                              source \in Sources})
    BY DEF HonestEvents
  <1> HIDE DEF Of, OfOwn, roots
  <1>6. QED
    BY <1>3, <1>4, <1>5

(***************************************************************************)
(* Each such event keeps the rules of its document, and those a record has *)
(* for its events.                                                         *)
(***************************************************************************)
\* The fields of an event, by who gave it.
LEMMA EventFields ==
    ASSUME NEW input, NEW facts, NEW built_in \in BOOLEAN, NEW source,
           NEW answer, NEW evaluator, NEW e,
           e = Event(input, facts, built_in, source, answer, evaluator)
    PROVE  /\ e.activity = input.activity /\ e.stage = input.stage
           /\ e.kind = input.kind /\ e.facts = facts /\ e.source = source
           /\ e.status = answer[1] /\ e.reason = answer[2]
           /\ e.evaluator = evaluator
           /\ e.subject <=> answer[2] # "no_subject_in_scope"
           /\ e.input <=> answer[2] \notin NoEvaluatorReasons
           /\ e.built_in <=> built_in
           /\ e.binding <=> evaluator = "scanner"
           /\ built_in => e.document = "shipped"
           /\ evaluator # "opa" => e.bundle = "none" /\ e.compiled = "none"
           /\ evaluator = "opa" =>
                  /\ e.bundle = IF source = "server_bundle" THEN "server"
                                ELSE "local_bundle"
                  /\ e.compiled = IF built_in THEN "shipped" ELSE "own"
  <1>1. Bundles(source) = {IF source = "server_bundle" THEN "server"
                           ELSE "local_bundle"}
    BY DEF Bundles
  <1>2. (CHOOSE b \in Bundles(source) : TRUE) =
            IF source = "server_bundle" THEN "server" ELSE "local_bundle"
    BY <1>1
  <1>3. QED
    BY <1>2 DEF Event

LEMMA AnswerHasItsReason ==
    ASSUME NEW built_in \in BOOLEAN, NEW evaluator, NEW answer,
           GivenBy(evaluator, answer, built_in)
    PROVE  /\ answer[2] \in StatusReasons[answer[1]]
           /\ built_in => answer[1] # "not_applicable"
           /\ (answer[1] \in PolicyStatuses
                 /\ answer[2] # "no_subject_in_scope")
                  => answer[2] \notin NoEvaluatorReasons
           /\ evaluator = "none" => answer[2] \in NoEvaluatorReasons
           /\ evaluator \in {"opa", "scanner", "none"}
           /\ built_in => evaluator \in {"opa", "none"}
  BY DEF GivenBy, ByProgram, ByScanner, ByNothing, StatusReasons,
         PolicyStatuses, NoEvaluatorReasons

LEMMA HonestEventAccepted ==
    ASSUME NEW stage, NEW p \in ProfilesAt(run.activity, stage),
           NEW facts \in FactsSources(stage), NEW optional, NEW marked, NEW e,
           IsHonest(e, InputFor(p, optional, marked), facts)
    PROVE  /\ EventAccepted(e)
           /\ e.stage = stage /\ e.activity = run.activity /\ e.facts = facts
           /\ e.evaluator \in {"opa", "scanner", "none"}
           /\ e.built_in => e.status # "not_applicable"
           /\ run.opened = "local" => /\ e.bundle # "server"
                                      /\ e.source # "server_bundle"
  <1> DEFINE input == InputFor(p, optional, marked)
  <1>1. /\ input.activity = run.activity /\ input.stage = stage
        /\ input.kind = p.kind
    BY DEF InputFor, ProfilesAt
  <1> HIDE DEF input
  <1>kind. PICK built_in \in BOOLEAN, source \in Sources :
            \E evaluator, answer :
               /\ e = Event(input, facts, built_in, source, answer, evaluator)
               /\ GivenBy(evaluator, answer, built_in)
               /\ built_in => source \in BuiltInSources
    BY DEF IsHonest, input
  <1>2. PICK evaluator, answer :
            /\ e = Event(input, facts, built_in, source, answer, evaluator)
            /\ GivenBy(evaluator, answer, built_in)
            /\ built_in => source \in BuiltInSources
    BY <1>kind
  <1>3. /\ e.activity = run.activity /\ e.stage = stage
        /\ e.kind = p.kind /\ e.facts = facts /\ e.source = source
        /\ e.status = answer[1] /\ e.reason = answer[2]
        /\ e.evaluator = evaluator
        /\ e.subject <=> answer[2] # "no_subject_in_scope"
        /\ e.input <=> answer[2] \notin NoEvaluatorReasons
        /\ e.built_in <=> built_in
        /\ e.binding <=> evaluator = "scanner"
        /\ built_in => e.document = "shipped"
        /\ evaluator # "opa" => e.bundle = "none" /\ e.compiled = "none"
        /\ evaluator = "opa" =>
               /\ e.bundle = IF source = "server_bundle" THEN "server"
                             ELSE "local_bundle"
               /\ e.compiled = IF built_in THEN "shipped" ELSE "own"
    BY <1>1, <1>2, EventFields
  <1>4. /\ answer[2] \in StatusReasons[answer[1]]
        /\ built_in => answer[1] # "not_applicable"
        /\ (answer[1] \in PolicyStatuses /\ answer[2] # "no_subject_in_scope")
               => answer[2] \notin NoEvaluatorReasons
        /\ evaluator = "none" => answer[2] \in NoEvaluatorReasons
        /\ evaluator \in {"opa", "scanner", "none"}
        /\ built_in => evaluator \in {"opa", "none"}
    BY <1>2, AnswerHasItsReason
  <1>5. BuiltInOK(e)
    BY <1>2, <1>3, <1>4 DEF BuiltInOK
  <1>6. EvaluatorOK(e)
    BY <1>3, <1>4 DEF EvaluatorOK
  <1>7. (e.facts # "none_read") <=> ReadsServerFacts(e.activity, e.stage)
    BY <1>3 DEF FactsSources
  <1>8. EventAccepted(e)
    BY <1>3, <1>4, <1>5, <1>6, <1>7 DEF EventAccepted, NoEvaluatorReasons
  <1>9. run.opened = "local" => source # "server_bundle"
    BY <1>2 DEF Sources
  <1>10. QED
    BY <1>3, <1>4, <1>8, <1>9

\* Where a stage's facts come from fits who opened the run.
LEMMA FactsFit ==
    ASSUME RunTypeOK, NEW stage, NEW p \in ProfilesAt(run.activity, stage),
           NEW facts \in FactsSources(stage)
    PROVE  /\ run.opened = "local" => facts # "server"
           /\ run.activity = "image_build" => facts = OwedFacts
  <1>1. CASE run.activity # "image_build"
    BY <1>1 DEF FactsSources
  <1>2. CASE run.activity = "image_build"
    <2>1. p.activity = "image_build" /\ p \in Profiles
      BY <1>2 DEF ProfilesAt
    <2>2. "verified_source" \in Roots(p)
      BY <2>1 DEF Profiles, Profile, Roots
    <2>3. ReadsServerFacts(run.activity, stage)
      BY <2>2 DEF ReadsServerFacts, ServerFacts
    <2>4. QED
      BY <1>2, <2>3 DEF FactsSources, OwedFacts, RunTypeOK
  <1>3. QED
    BY <1>1, <1>2

(***************************************************************************)
(* The invariant: every step keeps it, an honest one and any other.        *)
(***************************************************************************)
\* A stage reported honestly leaves an accepted record accepted.
LEMMA ReportKeepsAccepted ==
    ASSUME RunTypeOK, RecordAccepted, NEW stage, stage \notin DOMAIN stages,
           NEW p \in ProfilesAt(run.activity, stage),
           NEW facts \in FactsSources(stage), NEW optional, NEW marked, NEW e,
           IsHonest(e, InputFor(p, optional, marked), facts),
           NEW claim \in HonestStage(stage, facts, {e}),
           Reported(stage, claim, {e})
    PROVE  RunTypeOK' /\ RecordAccepted'
  <1>1. /\ EventAccepted(e)
        /\ e.stage = stage /\ e.activity = run.activity /\ e.facts = facts
        /\ e.evaluator \in {"opa", "scanner", "none"}
        /\ e.built_in => e.status # "not_applicable"
        /\ run.opened = "local" => /\ e.bundle # "server"
                                   /\ e.source # "server_bundle"
    BY HonestEventAccepted
  <1>2. /\ run.opened = "local" => facts # "server"
        /\ run.activity = "image_build" => facts = OwedFacts
    BY FactsFit
  <1>3. /\ DOMAIN stages' = DOMAIN stages \cup {stage}
        /\ stages'[stage] = claim
        /\ \A s \in DOMAIN stages : stages'[s] = stages[s]
        /\ events' = events \cup {e} /\ run' = run
    BY DEF Reported
  <1>4. /\ claim.approvals \subseteq {"own"}
        /\ claim.approvals # {} =>
               ReadsApprovals(run.activity, stage) /\ facts = "server"
        /\ claim.bundle = "none" \/ claim.bundle = e.bundle
        /\ claim.time = "server" => run.opened = "server"
    BY DEF HonestStage
  <1>5. RunTypeOK'
    BY <1>1, <1>3 DEF RunTypeOK
  <1>6. \A x \in events' : /\ EventAccepted(x)
                           /\ x.stage \in DOMAIN stages'
                           /\ x.activity = run'.activity
                           /\ x.built_in => x.status # "not_applicable"
    BY <1>1, <1>3 DEF RecordAccepted
  <1>7. \A s \in DOMAIN stages' : ApprovalsOK(s)'
    <2> TAKE s \in DOMAIN stages'
    <2>1. EventsAt(s) \subseteq EventsAt(s)'
      BY <1>3 DEF EventsAt
    <2>2. CASE s \in DOMAIN stages
      BY <1>3, <2>1, <2>2 DEF RecordAccepted, ApprovalsOK
    <2>3. CASE s = stage
      <3>1. e \in EventsAt(stage)'
        BY <1>1, <1>3 DEF EventsAt
      <3>2. QED
        BY <1>1, <1>3, <1>4, <2>3, <3>1 DEF ApprovalsOK
    <2>4. QED
      BY <1>3, <2>2, <2>3
  <1>8. ProvenanceOK'
    BY <1>1, <1>2, <1>3, <1>4 DEF RecordAccepted, ProvenanceOK, RunTypeOK
  <1>9. BuildFactsOK'
    BY <1>1, <1>2, <1>3 DEF RecordAccepted, BuildFactsOK, OwedFacts
  <1>10. QED
    BY <1>5, <1>6, <1>7, <1>8, <1>9 DEF RecordAccepted

LEMMA ReportKeepsInv ==
    ASSUME RunInv, NEW stage \in RunStages, ReportStage(stage)
    PROVE  RunInv'
  <1>1. PICK p \in ProfilesAt(run.activity, stage),
             facts \in FactsSources(stage) :
            \E optional \in SUBSET p.optional, marked \in Marks(p, facts) :
                LET input == InputFor(p, optional, marked)
                IN  \E e \in HonestEvents(p, input, facts) :
                        \E claim \in HonestStage(stage, facts, {e}) :
                            Reported(stage, claim, {e})
    BY DEF ReportStage
  <1>2. PICK optional \in SUBSET p.optional, marked \in Marks(p, facts) :
            \E e \in HonestEvents(p, InputFor(p, optional, marked), facts) :
                \E claim \in HonestStage(stage, facts, {e}) :
                    Reported(stage, claim, {e})
    BY <1>1
  <1>3. PICK e \in HonestEvents(p, InputFor(p, optional, marked), facts) :
            \E claim \in HonestStage(stage, facts, {e}) :
                Reported(stage, claim, {e})
    BY <1>2
  <1>4. PICK claim \in HonestStage(stage, facts, {e}) :
            Reported(stage, claim, {e})
    BY <1>3
  <1>5. IsHonest(e, InputFor(p, optional, marked), facts)
    BY HonestEventsAre
  <1>6. stage \notin DOMAIN stages /\ honest' = honest
    BY DEF ReportStage
  <1>7. CASE honest
    <2>1. RecordAccepted
      BY <1>7 DEF RunInv, HonestRecordAccepted
    <2>2. QED
      BY <1>4, <1>5, <1>6, <2>1, ReportKeepsAccepted
         DEF RunInv, HonestRecordAccepted
  <1>8. CASE ~honest
    <2>1. e.evaluator \in {"opa", "scanner", "none"}
      BY <1>5, HonestEventAccepted
    <2>2. RunTypeOK'
      BY <1>4, <2>1 DEF Reported, RunInv, RunTypeOK
    <2>3. QED
      BY <1>6, <1>8, <2>2 DEF RunInv, HonestRecordAccepted
  <1>9. QED
    BY <1>7, <1>8

LEMMA ClaimKeepsInv ==
    ASSUME RunInv, NEW stage \in RunStages,
           ClaimStage(stage, EventClaims(run.activity, stage))
    PROVE  RunInv'
  <1>1. PICK e \in EventClaims(run.activity, stage), claim \in StageClaims :
            Reported(stage, claim, {e})
    BY DEF ClaimStage
  <1>2. e.evaluator \in {"opa", "scanner", "none"}
    BY DEF EventClaims
  <1>3. RunTypeOK' /\ ~honest'
    BY <1>1, <1>2 DEF Reported, RunInv, RunTypeOK, ClaimStage
  <1>4. QED
    BY <1>3 DEF RunInv, HonestRecordAccepted

LEMMA RunInvariance == RunSpec => []RunInv
  <1>1. RunInit => RunInv
    <2> SUFFICES ASSUME RunInit PROVE RunInv
      OBVIOUS
    <2>1. RunTypeOK
      BY DEF RunInit, RunTypeOK
    <2>2. RecordAccepted
      BY DEF RunInit, RecordAccepted, ProvenanceOK, BuildFactsOK
    <2>3. QED
      BY <2>1, <2>2 DEF RunInv, HonestRecordAccepted
  <1>2. RunInv /\ [RunNext]_runVars => RunInv'
    <2> SUFFICES ASSUME RunInv, [RunNext]_runVars PROVE RunInv'
      OBVIOUS
    <2>1. CASE RunNext
      BY <2>1, ReportKeepsInv, ClaimKeepsInv DEF RunNext
    <2>2. CASE UNCHANGED runVars
      <3>1. UNCHANGED <<run, stages, events, honest>>
        BY <2>2 DEF runVars
      <3>2. RunTypeOK'
        BY <3>1 DEF RunInv, RunTypeOK
      <3>3. RecordAccepted' <=> RecordAccepted
        BY <3>1 DEF RecordAccepted, ApprovalsOK, EventsAt, ProvenanceOK,
                    BuildFactsOK, OwedFacts
      <3>4. QED
        BY <3>1, <3>2, <3>3 DEF RunInv, HonestRecordAccepted
    <2>3. QED
      BY <2>1, <2>2
  <1>3. QED
    BY <1>1, <1>2, PTL DEF RunSpec

\* No rule refuses what really happened.
THEOREM HonestAccepted == RunSpec => []HonestRecordAccepted
  BY RunInvariance, PTL DEF RunInv

\* What is accepted of a local run names nothing of the server: approvals are
\* read from the server's facts, and a local run has none.
THEOREM LocalNamesNothing == RunSpec => []LocalRunNamesNothingOfTheServer
  <1>1. LocalRunNamesNothingOfTheServer
    BY DEF LocalRunNamesNothingOfTheServer, RecordAccepted, ProvenanceOK,
           ApprovalsOK, EventsAt
  <1>2. QED
    BY <1>1, PTL

\* Every verdict of an accepted record was computed, by one evaluator.
THEOREM VerdictsComputed == RunSpec => []VerdictsAreComputed
  <1>1. ASSUME RunTypeOK, RecordAccepted, NEW e \in events,
               e.status \in PolicyStatuses, e.reason # "no_subject_in_scope"
        PROVE  /\ e.input /\ e.subject
               /\ \/ /\ e.evaluator = "opa" /\ ~e.binding
                     /\ e.bundle # "none"
                     /\ e.built_in => e.compiled = "shipped"
                  \/ /\ e.evaluator = "scanner" /\ e.binding
                     /\ e.bundle = "none" /\ ~e.built_in
    <2>1. EventAccepted(e) /\ e.evaluator \in {"opa", "scanner", "none"}
      BY <1>1 DEF RecordAccepted, RunTypeOK
    <2>2. e.input /\ e.subject
      BY <1>1, <2>1 DEF EventAccepted
    <2>3. e.reason # "evaluator_unavailable"
      BY <1>1, <2>1 DEF EventAccepted, StatusReasons, PolicyStatuses
    <2>4. e.evaluator # "none"
      BY <1>1, <2>1, <2>3 DEF EventAccepted, EvaluatorOK, NoEvaluatorReasons
    <2>5. QED
      BY <2>1, <2>2, <2>4 DEF EventAccepted, EvaluatorOK, BuiltInOK
  <1>2. RunInv => VerdictsAreComputed
    BY <1>1 DEF RunInv, VerdictsAreComputed
  <1>3. QED
    BY <1>2, RunInvariance, PTL

(***************************************************************************)
(* The drift check.  Written times are multiples of the unit they are      *)
(* written in: what follows compares them across units.                    *)
(***************************************************************************)
LEMMA Divided ==
    ASSUME NEW t \in Nat, NEW b \in Nat \ {0}
    PROVE  /\ t % b \in 0 .. (b - 1) /\ t \div b \in Nat
           /\ t = b * (t \div b) + (t % b)
  OBVIOUS

LEMMA TruncatedIs ==
    ASSUME NEW t \in Nat, NEW b \in Nat \ {0}
    PROVE  /\ Truncated(t, b) = b * (t \div b) /\ Truncated(t, b) \in Nat
           /\ Truncated(t, b) <= t /\ t < Truncated(t, b) + b
  BY Divided DEF Truncated

\* Multiples of b are b apart.
LEMMA MultiplesApart ==
    ASSUME NEW m \in Int, NEW n \in Int, NEW b \in Nat \ {0}, m < n
    PROVE  b * m + b <= b * n
  <1>1. n - m - 1 \in Nat
    OBVIOUS
  <1>2. b * (n - m - 1) >= 0
    BY <1>1
  <1>3. b * (n - m - 1) = b * n - b * m - b
    OBVIOUS
  <1>4. QED
    BY <1>2, <1>3

\* A truncated time is the greatest multiple not after it.
LEMMA TruncatedGreatest ==
    ASSUME NEW t \in Nat, NEW m \in Int, NEW b \in Nat \ {0}, b * m <= t
    PROVE  b * m <= Truncated(t, b)
  <1>1. /\ t < b * (t \div b) + b /\ t \div b \in Nat
        /\ Truncated(t, b) = b * (t \div b)
    BY TruncatedIs, Divided
  <1>2. ASSUME (t \div b) < m PROVE FALSE
    <2>1. b * (t \div b) + b <= b * m
      BY <1>1, <1>2, MultiplesApart
    <2>2. QED
      BY <1>1, <2>1
  <1>3. m <= t \div b
    BY <1>1, <1>2
  <1>4. CASE m = t \div b
    BY <1>1, <1>4
  <1>5. CASE m < t \div b
    BY <1>1, <1>5, MultiplesApart
  <1>6. QED
    BY <1>1, <1>3, <1>4, <1>5

\* Truncating keeps the order of two times, and a distance of whole units.
LEMMA TruncatedMonotone ==
    ASSUME NEW s \in Nat, NEW t \in Nat, NEW k \in Nat, NEW b \in Nat \ {0},
           s + b * k <= t
    PROVE  Truncated(s, b) + b * k <= Truncated(t, b)
  <1>1. Truncated(s, b) = b * (s \div b) /\ Truncated(s, b) <= s
        /\ s \div b \in Nat /\ Truncated(s, b) \in Nat
    BY TruncatedIs, Divided
  <1>2. b * ((s \div b) + k) = b * (s \div b) + b * k
    BY <1>1
  <1>3. b * k \in Nat
    OBVIOUS
  <1>4. b * ((s \div b) + k) <= t
    BY <1>1, <1>2, <1>3
  <1>5. (s \div b) + k \in Int
    BY <1>1
  <1>6. b * ((s \div b) + k) <= Truncated(t, b)
    BY <1>4, <1>5, TruncatedGreatest
  <1>7. QED
    BY <1>1, <1>2, <1>6

\* A second after the second of a time's millisecond lies after the time.
LEMMA NextSecondIsAfter ==
    ASSUME NEW t \in Nat
    PROVE  /\ Milliseconds(t) \in Nat /\ Milliseconds(t) <= t
           /\ t < Milliseconds(t) + UnitsPerMilli
           /\ t < Truncated(Milliseconds(t), UnitsPerSecond) + UnitsPerSecond
  <1> DEFINE S == UnitsPerSecond
             M == UnitsPerMilli
             ms == Milliseconds(t)
             k == S \div M
             q == ms \div S
             m == t \div M
  <1>1. S \in Nat \ {0} /\ M \in Nat \ {0} /\ S % M = 0
    BY UnitsAssumption
  <1>2. S = M * k /\ k \in Nat
    BY <1>1, Divided
  <1>3. ms = M * m /\ m \in Nat /\ ms \in Nat /\ ms <= t /\ t < ms + M
    BY <1>1, TruncatedIs, Divided DEF Milliseconds
  <1>4. /\ Truncated(ms, S) = S * q /\ q \in Nat /\ Truncated(ms, S) \in Nat
        /\ ms < Truncated(ms, S) + S
    BY <1>1, <1>3, TruncatedIs, Divided
  <1> HIDE DEF S, M, ms, k, q, m
  <1>5. S * q + S = M * (k * q + k)
    <2>1. M * (k * q + k) = (M * k) * q + M * k
      BY <1>1, <1>2, <1>4
    <2>2. QED
      BY <1>2, <2>1
  <1>6. k * q + k \in Nat
    BY <1>2, <1>4
  <1>7. m < k * q + k
    <2> SUFFICES ASSUME k * q + k <= m PROVE FALSE
      BY <1>3, <1>6
    <2>1. CASE k * q + k = m
      BY <1>3, <1>4, <1>5, <2>1
    <2>2. CASE k * q + k < m
      <3>1. M * (k * q + k) + M <= M * m
        BY <1>1, <1>3, <1>6, <2>2, MultiplesApart
      <3>2. QED
        BY <1>1, <1>3, <1>4, <1>5, <3>1
    <2>3. QED
      BY <1>3, <1>6, <2>1, <2>2
  <1>8. M * m + M <= M * (k * q + k)
    BY <1>1, <1>3, <1>6, <1>7, MultiplesApart
  <1>9. t < Truncated(ms, S) + S
    BY <1>1, <1>3, <1>4, <1>5, <1>6, <1>8
  <1>10. QED
    BY <1>3, <1>9 DEF S, M, ms

(***************************************************************************)
(* The invariant of the readings.                                          *)
(***************************************************************************)
Reading ==
    [start : Nat, left : SUBSET Resources, seen : SUBSET Resources,
     done : BOOLEAN]

\* The clock, the apply, the post-deploy stage and the readings, in order.
DriftTypeOK ==
    /\ now \in Nat
    /\ apply.ended \in Nat \cup {None}
    /\ observed \in Nat \cup {None}
    /\ differs \subseteq Resources /\ steady \subseteq Resources
    /\ whole \in BOOLEAN
    /\ readings \in Seq(Reading) /\ Len(readings) <= 2

InOrder ==
    /\ apply.ended # None => apply.ended <= now
    /\ observed # None => /\ apply.ended # None
                          /\ apply.ended <= observed /\ observed <= now

\* A reading started in the past; one that is done read everything and took a
\* millisecond.
ReadingsOK ==
    \A i \in DOMAIN readings :
        /\ readings[i].start <= now
        /\ readings[i].done => /\ readings[i].left = {}
                               /\ now >= readings[i].start + UnitsPerMilli

\* What differed ever since the apply ended still differs, and a reading that
\* started after the apply ended has seen it or has yet to read it.
SteadySeen ==
    /\ apply.ended = None => steady = {}
    /\ apply.ended # None => steady \subseteq differs
    /\ \A i \in DOMAIN readings :
           (apply.ended # None /\ readings[i].start > apply.ended)
           => steady \subseteq readings[i].seen \cup readings[i].left

\* What a record's check was accepted for stays true of its readings.
CheckedReadings ==
    check # None =>
        /\ BothDone /\ observed # None
        /\ readings[2].start > apply.ended /\ readings[2].start > observed

DriftInv ==
    /\ DriftTypeOK
    /\ InOrder
    /\ ReadingsOK
    /\ SteadySeen
    /\ CheckedReadings

LEMMA ReadingFields ==
    ASSUME DriftTypeOK, NEW i \in DOMAIN readings
    PROVE  /\ readings[i] \in Reading /\ readings[i].start \in Nat
           /\ readings[i].left \subseteq Resources
           /\ readings[i].seen \subseteq Resources
           /\ i \in 1 .. Len(readings) /\ Len(readings) \in Nat
  <1>1. readings \in Seq(Reading)
    BY DEF DriftTypeOK
  <1>2. /\ readings[i] \in Reading
        /\ i \in 1 .. Len(readings) /\ Len(readings) \in Nat
    BY <1>1
  <1>3. QED
    BY <1>2 DEF Reading

\* The two readings of a check.
LEMMA BothReadings ==
    ASSUME DriftTypeOK, BothDone
    PROVE  /\ 1 \in DOMAIN readings /\ 2 \in DOMAIN readings
           /\ DOMAIN readings = {1, 2}
           /\ readings[1].start \in Nat /\ readings[2].start \in Nat
           /\ readings[1].seen \subseteq Resources
           /\ readings[2].seen \subseteq Resources
  BY ReadingFields DEF DriftTypeOK, BothDone

\* Whatever the precision readings are dated in, the rules let through no
\* check whose latest reading started before the post-deploy stage.
LEMMA LatestIsAfter ==
    ASSUME DriftTypeOK, InOrder, BothDone, observed # None,
           NEW at, CheckDriftCheck(TheCheck, at)
    PROVE  readings[2].start > apply.ended /\ readings[2].start > observed
  <1> DEFINE s1 == readings[1].start
             s2 == readings[2].start
             ms == Milliseconds(observed)
             S  == UnitsPerSecond
  <1>1. /\ s1 \in Nat /\ s2 \in Nat /\ observed \in Nat /\ apply.ended \in Nat
        /\ apply.ended <= observed
    BY BothReadings DEF DriftTypeOK, InOrder
  <1>2. /\ S \in Nat \ {0} /\ UnitsPerMilli \in Nat \ {0}
        /\ MinimumInterval \in Nat \ {0} /\ S % UnitsPerMilli = 0
    BY UnitsAssumption
  <1>3. S <= MinimumInterval * S /\ MinimumInterval * S \in Nat
    <2>1. (MinimumInterval - 1) * S >= 0
      BY <1>2
    <2>2. (MinimumInterval - 1) * S = MinimumInterval * S - S
      BY <1>2
    <2>3. QED
      BY <1>2, <2>1, <2>2
  <1>4. /\ ms \in Nat /\ observed < ms + UnitsPerMilli
        /\ observed < Truncated(ms, S) + S
    BY <1>1, NextSecondIsAfter
  <1>5. /\ Apart(Stamp(s1, whole), Stamp(s2, whole))
        /\ ReadNoEarlierThan(Stamp(s1, whole), ms)
    BY DEF CheckDriftCheck, Consistent, TheCheck, CheckOf
  <1>6. CASE whole
    <2>1. /\ Truncated(s2, S) - Truncated(s1, S) >= MinimumInterval * S
          /\ Truncated(s1, S) >= Truncated(ms, S)
      BY <1>5, <1>6 DEF Apart, Stamp, ReadNoEarlierThan
    <2>2. /\ Truncated(s1, S) \in Nat /\ Truncated(s2, S) \in Nat
          /\ Truncated(s2, S) <= s2 /\ Truncated(ms, S) \in Nat
      BY <1>1, <1>2, <1>4, TruncatedIs
    <2> HIDE DEF s1, s2, ms, S
    <2>3. s2 > observed
      BY <1>1, <1>2, <1>3, <1>4, <2>1, <2>2
    <2>4. QED
      BY <1>1, <2>3 DEF s2
  <1>7. CASE ~whole
    <2>1. s2 - s1 >= MinimumInterval * S /\ s1 >= ms
      BY <1>5, <1>7 DEF Apart, Stamp, ReadNoEarlierThan
    <2>2. UnitsPerMilli <= S
      <3>1. S = UnitsPerMilli * (S \div UnitsPerMilli)
            /\ S \div UnitsPerMilli \in Nat
        BY <1>2, Divided
      <3>2. S \div UnitsPerMilli # 0
        BY <1>2, <3>1
      <3>3. UnitsPerMilli * 0 + UnitsPerMilli <=
                UnitsPerMilli * (S \div UnitsPerMilli)
        BY <1>2, <3>1, <3>2, MultiplesApart
      <3>4. QED
        BY <1>2, <3>1, <3>3
    <2> HIDE DEF s1, s2, ms, S
    <2>3. s2 > observed
      BY <1>1, <1>2, <1>3, <1>4, <2>1, <2>2
    <2>4. QED
      BY <1>1, <2>3 DEF s2
  <1>8. QED
    BY <1>6, <1>7 DEF DriftTypeOK

\* A reading dated as finely as an event is compared with it as it stands,
\* one in whole seconds with its second.
LEMMA ReadWhen ==
    ASSUME NEW t, NEW event
    PROVE  /\ ReadNoEarlierThan(Stamp(t, TRUE), event) <=>
                  Truncated(t, UnitsPerSecond) >=
                      Truncated(event, UnitsPerSecond)
           /\ ReadNoEarlierThan(Stamp(t, FALSE), event) <=> t >= event
  BY DEF ReadNoEarlierThan, Stamp

\* A careful pipeline's check keeps every rule.
LEMMA CarefulPasses ==
    ASSUME DriftTypeOK, InOrder, ReadingsOK, BothDone, observed # None,
           readings[1].start >= observed,
           readings[2].start >=
               readings[1].start + MinimumInterval * UnitsPerSecond
    PROVE  CheckDriftCheck(TheCheck, now)
  <1> DEFINE s1 == readings[1].start
             s2 == readings[2].start
             ms == Milliseconds(observed)
             S  == UnitsPerSecond
             c  == TheCheck
  <1>1. /\ s1 \in Nat /\ s2 \in Nat /\ observed \in Nat /\ apply.ended \in Nat
        /\ apply.ended <= observed /\ now \in Nat
    BY BothReadings DEF DriftTypeOK, InOrder
  <1>2. /\ S \in Nat \ {0} /\ UnitsPerMilli \in Nat \ {0}
        /\ MinimumInterval \in Nat \ {0}
    BY UnitsAssumption
  <1>3. MinimumInterval * S = S * MinimumInterval /\ S * MinimumInterval \in Nat
    BY <1>2
  <1>4. /\ c.first = Stamp(s1, whole) /\ c.second = Stamp(s2, whole)
        /\ c.read = Resources /\ c.differences = readings[2].seen
        /\ c.count = Cardinality(c.differences)
        /\ c.firstOnly = readings[1].seen \ readings[2].seen
    BY DEF TheCheck, CheckOf
  <1>5. \A x \in Nat : x <= s1 =>
            /\ Truncated(x, S) <= Truncated(s1, S)
            /\ Truncated(x, S) \in Nat
    <2> SUFFICES ASSUME NEW x \in Nat, x <= s1
                 PROVE  /\ Truncated(x, S) <= Truncated(s1, S)
                        /\ Truncated(x, S) \in Nat
      OBVIOUS
    <2> HIDE DEF s1, S
    <2>1. /\ Truncated(x, S) \in Nat /\ Truncated(s1, S) \in Nat
          /\ S * 0 = 0
      <3>1. Truncated(x, S) \in Nat
        BY <1>2, TruncatedIs
      <3>2. Truncated(s1, S) \in Nat
        BY <1>1, <1>2, TruncatedIs
      <3>3. S * 0 = 0
        BY <1>2
      <3>4. QED
        BY <3>1, <3>2, <3>3
    <2>2. x + S * 0 <= s1
      BY <1>1, <2>1
    <2>3. Truncated(x, S) + S * 0 <= Truncated(s1, S)
      BY <1>1, <1>2, <2>2, TruncatedMonotone
    <2>4. QED
      BY <2>1, <2>3
  <1>6. Truncated(s1, S) \in Nat /\ Truncated(s2, S) \in Nat
        /\ Truncated(s2, S) <= s2
    BY <1>1, <1>2, TruncatedIs
  <1>7. Apart(c.first, c.second)
    <2>1. Truncated(s1, S) + S * MinimumInterval <= Truncated(s2, S)
      BY <1>1, <1>2, <1>3, TruncatedMonotone
    <2>2. CASE whole
      BY <1>3, <1>4, <1>6, <2>1, <2>2 DEF Apart, Stamp
    <2>3. CASE ~whole
      BY <1>1, <1>3, <1>4, <2>3 DEF Apart, Stamp
    <2>4. QED
      BY <2>2, <2>3 DEF DriftTypeOK
  <1>8. \A event \in Nat : event <= s1 => ReadNoEarlierThan(c.first, event)
    <2> SUFFICES ASSUME NEW event \in Nat, event <= s1
                 PROVE  ReadNoEarlierThan(c.first, event)
      OBVIOUS
    <2>1. CASE whole
      <3>1. c.first = Stamp(s1, TRUE)
        BY <1>4, <2>1
      <3>2. Truncated(s1, S) >= Truncated(event, S)
        BY <1>5, <1>6
      <3>3. ReadNoEarlierThan(Stamp(s1, TRUE), event)
        BY <3>2, ReadWhen
      <3>4. QED
        BY <3>1, <3>3
    <2>2. CASE ~whole
      <3>1. c.first = Stamp(s1, FALSE)
        BY <1>4, <2>2 DEF DriftTypeOK
      <3>2. s1 >= event
        BY <1>1
      <3>3. ReadNoEarlierThan(Stamp(s1, FALSE), event)
        BY <3>2, ReadWhen, Zenon
      <3>4. QED
        BY <3>1, <3>3, Zenon
    <2>3. QED
      BY <2>1, <2>2 DEF DriftTypeOK
  <1>9. CheckAgainstDeployment(c)
    BY <1>1, <1>8 DEF CheckAgainstDeployment
  <1>10. ReadNoEarlierThan(c.first, ms)
    <2>1. ms \in Nat /\ ms <= observed
      BY <1>1, NextSecondIsAfter
    <2>2. QED
      BY <1>1, <1>8, <2>1
  <1>kind. Milliseconds(now) >= c.second.value
    <2>1. now >= s2 + UnitsPerMilli
      BY BothReadings DEF BothDone, ReadingsOK
    <2>2. /\ Milliseconds(now) \in Nat
          /\ now < Milliseconds(now) + UnitsPerMilli
      BY <1>1, NextSecondIsAfter
    <2>3. c.second.value \in Nat /\ c.second.value <= s2
      BY <1>1, <1>4, <1>6 DEF Stamp, DriftTypeOK
    <2>4. QED
      BY <1>1, <1>2, <2>1, <2>2, <2>3
  <1>12. /\ c.differences \subseteq Resources /\ c.firstOnly \subseteq Resources
         /\ c.firstOnly \cap c.differences = {}
    BY <1>4, BothReadings
  <1>13. Cardinality(c.differences) + Cardinality(c.firstOnly)
             <= Cardinality(c.read)
    <2> DEFINE D == c.differences
               F == c.firstOnly
    <2>1. IsFiniteSet(Resources)
      BY UnitsAssumption
    <2>2. IsFiniteSet(D) /\ IsFiniteSet(F)
      BY <1>12, <2>1, FS_Subset
    <2>3. Cardinality(D \cup F) = Cardinality(D) + Cardinality(F)
      <3>1. Cardinality(D \cup F) = Cardinality(D) + Cardinality(F)
                                      - Cardinality(D \cap F)
        BY <2>2, FS_Union
      <3>2. D \cap F = {}
        BY <1>12
      <3>3. Cardinality(D \cap F) = 0
        BY <3>2, FS_EmptySet
      <3>4. Cardinality(D) \in Nat /\ Cardinality(F) \in Nat
        BY <2>2, FS_CardinalityType
      <3>5. QED
        BY <3>1, <3>3, <3>4
    <2>4. D \cup F \subseteq Resources
      BY <1>12
    <2>5. Cardinality(D \cup F) <= Cardinality(Resources)
      BY <2>1, <2>4, FS_Subset
    <2>6. QED
      BY <1>4, <2>3, <2>5
  <1>14. Consistent(c)
    BY <1>4, <1>7, <1>12, <1>13 DEF Consistent
  <1>15. QED
    BY <1>9, <1>10, <1>kind, <1>12, <1>14 DEF CheckDriftCheck

(***************************************************************************)
(* Every step keeps the invariant.                                         *)
(***************************************************************************)
LEMMA DriftInitOK == Init => DriftInv
  BY DEF Init, DriftInv, DriftTypeOK, InOrder, ReadingsOK, SteadySeen,
         CheckedReadings

LEMMA TickKeeps == ASSUME DriftInv, Tick PROVE DriftInv'
  <1>1. /\ now' = now + 1
        /\ UNCHANGED <<apply, observed, differs, steady, whole, readings, check>>
    BY DEF Tick
  <1>2. DriftTypeOK' /\ InOrder'
    BY <1>1 DEF DriftInv, DriftTypeOK, InOrder
  <1>3. ReadingsOK'
    <2> SUFFICES ASSUME NEW i \in DOMAIN readings
                 PROVE  /\ readings[i].start <= now + 1
                        /\ readings[i].done =>
                               /\ readings[i].left = {}
                               /\ now + 1 >= readings[i].start + UnitsPerMilli
      BY <1>1 DEF ReadingsOK
    <2>1. readings[i].start \in Nat /\ now \in Nat /\ UnitsPerMilli \in Nat
      BY ReadingFields, UnitsAssumption DEF DriftInv, DriftTypeOK
    <2>2. QED
      BY <2>1 DEF DriftInv, ReadingsOK
  <1>4. SteadySeen' /\ CheckedReadings'
    BY <1>1 DEF DriftInv, SteadySeen, CheckedReadings, BothDone
  <1>5. QED
    BY <1>2, <1>3, <1>4 DEF DriftInv

\* No reading has started after the apply that ends now, and nothing was
\* steady before it.
LEMMA EndApplyKeeps == ASSUME DriftInv, EndApply PROVE DriftInv'
  <1>1. /\ apply.ended = None /\ apply'.ended = now /\ differs' = {}
        /\ UNCHANGED <<now, observed, steady, whole, readings, check>>
    BY DEF EndApply
  <1>2. observed = None /\ steady = {} /\ now \in Nat /\ now <= now
    BY <1>1 DEF DriftInv, InOrder, SteadySeen, DriftTypeOK
  <1>3. DriftTypeOK'
    BY <1>1, <1>2 DEF DriftInv, DriftTypeOK
  <1>4. InOrder'
    BY <1>1, <1>2 DEF InOrder
  <1>5. ReadingsOK'
    BY <1>1 DEF DriftInv, ReadingsOK
  <1>6. SteadySeen'
    BY <1>1, <1>2 DEF SteadySeen
  <1>7. CheckedReadings'
    BY <1>1, <1>2 DEF DriftInv, CheckedReadings
  <1>8. QED
    BY <1>3, <1>4, <1>5, <1>6, <1>7 DEF DriftInv

LEMMA ObserveKeeps == ASSUME DriftInv, ObservePostDeploy PROVE DriftInv'
  <1>1. /\ apply.ended # None /\ observed = None /\ observed' = now
        /\ UNCHANGED <<now, apply, differs, steady, whole, readings, check>>
    BY DEF ObservePostDeploy
  <1>2. now \in Nat /\ now <= now
    BY DEF DriftInv, DriftTypeOK
  <1>3. DriftTypeOK' /\ InOrder' /\ ReadingsOK' /\ SteadySeen'
    BY <1>1, <1>2 DEF DriftInv, DriftTypeOK, InOrder, ReadingsOK, SteadySeen
  <1>4. CheckedReadings'
    BY <1>1 DEF DriftInv, CheckedReadings
  <1>5. QED
    BY <1>3, <1>4 DEF DriftInv

\* A resource becomes steady only at the moment the apply ends, when no
\* reading has started later.
LEMMA ChangeKeeps ==
    ASSUME DriftInv, NEW r \in Resources, Change(r) PROVE DriftInv'
  <1>1. /\ apply.ended # None
        /\ differs' = IF r \in differs THEN differs \ {r} ELSE differs \cup {r}
        /\ steady' = IF r \in differs THEN steady \ {r}
                     ELSE IF now = apply.ended THEN steady \cup {r} ELSE steady
        /\ UNCHANGED <<now, apply, observed, whole, readings, check>>
    BY DEF Change
  <1>2. DriftTypeOK'
    BY <1>1 DEF DriftInv, DriftTypeOK
  <1>3. InOrder' /\ ReadingsOK' /\ CheckedReadings'
    BY <1>1 DEF DriftInv, InOrder, ReadingsOK, CheckedReadings, BothDone
  <1>4. steady' \subseteq differs'
    BY <1>1 DEF DriftInv, SteadySeen
  <1>5. ASSUME NEW i \in DOMAIN readings, readings[i].start > apply.ended
        PROVE  steady' \subseteq readings[i].seen \cup readings[i].left
    <2>1. readings[i].start <= now
      BY DEF DriftInv, ReadingsOK
    <2>2. now # apply.ended
      BY <1>1, <1>5, <2>1, ReadingFields DEF DriftInv, DriftTypeOK
    <2>3. steady \subseteq readings[i].seen \cup readings[i].left
      BY <1>1, <1>5 DEF DriftInv, SteadySeen
    <2>4. QED
      BY <1>1, <2>2, <2>3
  <1>6. SteadySeen'
    BY <1>1, <1>4, <1>5 DEF SteadySeen
  <1>7. QED
    BY <1>2, <1>3, <1>6 DEF DriftInv

LEMMA StartKeeps == ASSUME DriftInv, StartReading PROVE DriftInv'
  <1> DEFINE new == [start |-> now, left |-> Resources, seen |-> {},
                     done |-> FALSE]
  <1>1. /\ Len(readings) < 2 /\ readings' = Append(readings, new)
        /\ UNCHANGED <<now, apply, observed, differs, steady, whole, check>>
    BY DEF StartReading
  <1>2. now \in Nat /\ readings \in Seq(Reading) /\ new \in Reading
    BY DEF DriftInv, DriftTypeOK, Reading
  <1>3. new.start = now /\ new.left = Resources /\ ~new.done
    OBVIOUS
  <1> HIDE DEF new
  <1>4. /\ readings' \in Seq(Reading) /\ Len(readings') = Len(readings) + 1
        /\ DOMAIN readings' = DOMAIN readings \cup {Len(readings) + 1}
        /\ readings'[Len(readings) + 1] = new
        /\ \A i \in DOMAIN readings : readings'[i] = readings[i]
    BY <1>1, <1>2
  <1>5. DriftTypeOK'
    BY <1>1, <1>2, <1>4 DEF DriftInv, DriftTypeOK
  <1>6. InOrder'
    BY <1>1 DEF DriftInv, InOrder
  <1>7. ReadingsOK'
    BY <1>1, <1>2, <1>3, <1>4 DEF DriftInv, ReadingsOK
  <1>8. SteadySeen'
    BY <1>1, <1>3, <1>4 DEF DriftInv, SteadySeen, DriftTypeOK
  <1>9. CheckedReadings'
    <2>1. Len(readings) # 2
      BY <1>1
    <2>2. QED
      BY <1>1, <2>1 DEF DriftInv, CheckedReadings, BothDone
  <1>10. QED
    BY <1>5, <1>6, <1>7, <1>8, <1>9 DEF DriftInv

\* A sequence of readings with one of them replaced.
LEMMA Replaced ==
    ASSUME NEW rs \in Seq(Reading), NEW n \in DOMAIN rs, NEW x \in Reading,
           NEW q, q = [rs EXCEPT ![n] = x]
    PROVE  /\ q \in Seq(Reading) /\ Len(q) = Len(rs) /\ DOMAIN q = DOMAIN rs
           /\ q[n] = x /\ \A m \in DOMAIN rs : m # n => q[m] = rs[m]
  <1>1. q \in Seq(Reading)
    OBVIOUS
  <1>2. Len(q) = Len(rs) /\ DOMAIN q = DOMAIN rs
    OBVIOUS
  <1>3. q[n] = x /\ \A m \in DOMAIN rs : m # n => q[m] = rs[m]
    OBVIOUS
  <1>4. QED
    BY <1>1, <1>2, <1>3

LEMMA ReadKeeps ==
    ASSUME DriftInv, NEW r \in Resources, ReadResource(r) PROVE DriftInv'
  <1> DEFINE n   == Len(readings)
             new == AfterReading(readings[n], r)
  <1>1. /\ readings # << >> /\ r \in readings[n].left
        /\ readings' = [readings EXCEPT ![n] = new]
        /\ UNCHANGED <<now, apply, observed, differs, steady, whole, check>>
    BY DEF ReadResource
  <1>2. readings \in Seq(Reading) /\ n \in DOMAIN readings
    BY <1>1 DEF DriftInv, DriftTypeOK
  <1>3. readings[n] \in Reading /\ differs \subseteq Resources
    BY <1>2 DEF DriftInv, DriftTypeOK
  <1>4. /\ new \in Reading /\ new.start = readings[n].start
        /\ new.left = readings[n].left \ {r}
        /\ new.seen = readings[n].seen \cup ({r} \cap differs)
        /\ new.done = readings[n].done
    BY <1>3 DEF AfterReading, Reading
  <1> HIDE DEF new, n
  <1>5. /\ readings' \in Seq(Reading) /\ Len(readings') = Len(readings)
        /\ DOMAIN readings' = DOMAIN readings /\ readings'[n] = new
        /\ \A m \in DOMAIN readings : m # n => readings'[m] = readings[m]
    BY <1>1, <1>2, <1>4, Replaced
  <1>6. ~readings[n].done
    BY <1>1, <1>2 DEF DriftInv, ReadingsOK
  <1>7. DriftTypeOK' /\ InOrder'
    BY <1>1, <1>5 DEF DriftInv, DriftTypeOK, InOrder
  <1>8. ReadingsOK'
    BY <1>1, <1>2, <1>4, <1>5, <1>6 DEF DriftInv, ReadingsOK
  <1>9. SteadySeen'
    BY <1>1, <1>2, <1>4, <1>5 DEF DriftInv, SteadySeen
  <1>10. CheckedReadings'
    <2>1. ~BothDone
      BY <1>1, <1>2, <1>6, BothReadings DEF BothDone, DriftInv
    <2>2. QED
      BY <1>1, <2>1 DEF DriftInv, CheckedReadings
  <1>kind. QED
    BY <1>7, <1>8, <1>9, <1>10 DEF DriftInv

LEMMA EndReadingKeeps == ASSUME DriftInv, EndReading PROVE DriftInv'
  <1> DEFINE n   == Len(readings)
             new == Ended(readings[n])
  <1>1. /\ readings # << >> /\ readings[n].left = {} /\ ~readings[n].done
        /\ now >= readings[n].start + UnitsPerMilli
        /\ readings' = [readings EXCEPT ![n] = new]
        /\ UNCHANGED <<now, apply, observed, differs, steady, whole, check>>
    BY DEF EndReading
  <1>2. readings \in Seq(Reading) /\ n \in DOMAIN readings
    BY <1>1 DEF DriftInv, DriftTypeOK
  <1>3. readings[n] \in Reading
    BY <1>2
  <1>4. /\ new \in Reading /\ new.start = readings[n].start
        /\ new.left = readings[n].left /\ new.seen = readings[n].seen
    BY <1>3 DEF Ended, Reading
  <1> HIDE DEF new, n
  <1>5. /\ readings' \in Seq(Reading) /\ Len(readings') = Len(readings)
        /\ DOMAIN readings' = DOMAIN readings /\ readings'[n] = new
        /\ \A m \in DOMAIN readings : m # n => readings'[m] = readings[m]
    BY <1>1, <1>2, <1>4, Replaced
  <1>6. DriftTypeOK' /\ InOrder'
    BY <1>1, <1>5 DEF DriftInv, DriftTypeOK, InOrder
  <1>7. ReadingsOK'
    BY <1>1, <1>2, <1>4, <1>5 DEF DriftInv, ReadingsOK
  <1>8. SteadySeen'
    BY <1>1, <1>2, <1>4, <1>5 DEF DriftInv, SteadySeen
  <1>9. CheckedReadings'
    <2>1. ~BothDone
      BY <1>1, <1>2, BothReadings DEF BothDone, DriftInv
    <2>2. QED
      BY <1>1, <2>1 DEF DriftInv, CheckedReadings
  <1>10. QED
    BY <1>6, <1>7, <1>8, <1>9 DEF DriftInv

\* The record is read: its latest reading started late enough.
LEMMA ReportChecks ==
    ASSUME DriftInv, Report
    PROVE  /\ BothDone /\ observed # None /\ apply.ended # None
           /\ readings[2].start > apply.ended /\ readings[2].start > observed
           /\ check' = TheCheck
           /\ UNCHANGED <<now, apply, observed, differs, steady, whole, readings>>
  <1>1. BothDone /\ observed # None /\ CheckDriftCheck(TheCheck, now)
    BY DEF Report
  <1>2. readings[2].start > apply.ended /\ readings[2].start > observed
    BY <1>1, LatestIsAfter DEF DriftInv
  <1>3. QED
    BY <1>1, <1>2 DEF DriftInv, InOrder, Report

LEMMA ReportKeeps == ASSUME DriftInv, Report PROVE DriftInv'
  <1>1. UNCHANGED <<now, apply, observed, differs, steady, whole, readings>>
    BY DEF Report
  <1>2. DriftTypeOK' /\ InOrder' /\ ReadingsOK' /\ SteadySeen'
    BY <1>1 DEF DriftInv, DriftTypeOK, InOrder, ReadingsOK, SteadySeen
  <1>3. CheckedReadings'
    BY <1>1, ReportChecks DEF CheckedReadings, BothDone
  <1>4. QED
    BY <1>2, <1>3 DEF DriftInv

LEMMA DriftStepOK == DriftInv /\ [Next]_vars => DriftInv'
  <1> SUFFICES ASSUME DriftInv, [Next]_vars PROVE DriftInv'
    OBVIOUS
  <1>1. CASE Next
    BY <1>1, TickKeeps, EndApplyKeeps, ObserveKeeps, ChangeKeeps, StartKeeps,
       ReadKeeps, EndReadingKeeps, ReportKeeps DEF Next
  <1>2. CASE UNCHANGED vars
    BY <1>2 DEF vars, DriftInv, DriftTypeOK, InOrder, ReadingsOK, SteadySeen,
                CheckedReadings, BothDone
  <1>3. QED
    BY <1>1, <1>2

LEMMA DriftInvariance == Spec => []DriftInv
  BY DriftInitOK, DriftStepOK, PTL DEF Spec

\* The latest reading, which alone says what drifted, started after the apply
\* ended and after the post-deploy stage was observed.
THEOREM LatestAfter == Spec => []LatestReadingIsAfter
  <1>1. DriftInv => LatestReadingIsAfter
    BY DEF DriftInv, CheckedReadings, LatestReadingIsAfter
  <1>2. QED
    BY <1>1, DriftInvariance, PTL

\* A pipeline that waits is never turned away for the precision its tool dates
\* readings in.
THEOREM CarefulAccepted == Spec => []CarefulIsAccepted
  <1>1. DriftInv => CarefulIsAccepted
    BY CarefulPasses DEF DriftInv, CarefulIsAccepted
  <1>2. QED
    BY <1>1, DriftInvariance, PTL

\* A resource that has differed ever since the apply ended is in every check
\* a record carries.
THEOREM SteadyListed == Spec => SteadyDriftListed
  <1>1. ASSUME DriftInv, Report PROVE steady \subseteq check'.differences
    <2>1. /\ 2 \in DOMAIN readings /\ readings[2].done
          /\ readings[2].start > apply.ended /\ apply.ended # None
          /\ check' = TheCheck
      BY <1>1, ReportChecks, BothReadings DEF BothDone, DriftInv
    <2>2. steady \subseteq readings[2].seen \cup readings[2].left
      BY <1>1, <2>1 DEF DriftInv, SteadySeen
    <2>3. readings[2].left = {}
      BY <1>1, <2>1 DEF DriftInv, ReadingsOK
    <2>4. check'.differences = readings[2].seen
      BY <2>1 DEF TheCheck, CheckOf
    <2>5. QED
      BY <2>2, <2>3, <2>4
  <1>2. DriftInv /\ [Next]_vars
            => [check' # check => steady \subseteq check'.differences]_vars
    <2> SUFFICES ASSUME DriftInv, Next, check' # check
                 PROVE  steady \subseteq check'.differences
      OBVIOUS
    <2>1. Report
      BY DEF Next, Tick, EndApply, ObservePostDeploy, Change, StartReading,
             ReadResource, EndReading
    <2>2. QED
      BY <1>1, <2>1
  <1>3. QED
    BY <1>2, DriftInvariance, PTL DEF Spec, SteadyDriftListed
=============================================================================
