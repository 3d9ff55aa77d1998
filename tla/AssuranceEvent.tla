--------------------------- MODULE AssuranceEvent ---------------------------
(***************************************************************************)
(* The evaluations of a run and what they claim: the input each was made   *)
(* over (models/context.py, profiles/stage.py), the event that carries its *)
(* verdict (models/event.py), and what a record of a run says of who       *)
(* opened the run and of what the server gave (models/stages.py,           *)
(* models/provenance.py).                                                  *)
(*                                                                         *)
(* A stage is reported with its events at once. An honest writer reports   *)
(* what happened; any other may report whatever the documents have room    *)
(* for. The rest of a record (its counts, verdicts and change) is that of  *)
(* ChangeRecord. "none" is a part or a field that is null.                 *)
(***************************************************************************)
EXTENDS Integers, FiniteSets

VARIABLES
    run,     \* who opened it, for which activity and environment
    stages,  \* for each reported stage, what its record claims
    events,  \* the events of the record
    honest   \* whether every stage so far was reported by an honest writer

runVars == <<run, stages, events, honest>>

RunStages == {"plan", "pre_deploy", "post_deploy", "post_verify"}
Activities == {"iac_change", "image_build", "image_deploy"}

(***************************************************************************)
(* Evaluation profiles: the parts an input carries.                        *)
(***************************************************************************)
Always      == {"evaluation", "organization_scope", "reference_time"}
ChangeFacts == {"evaluations", "approvals", "exceptions"}
ServerFacts == ChangeFacts \cup {"verified_source", "attestation_outcome"}

Profile(activity, stage, kind, required, optional) ==
    [activity |-> activity, stage |-> stage, kind |-> kind,
     required |-> Always \cup {"subject"} \cup required,
     optional |-> optional]

Profiles ==
    LET changed == {"source", "change", "plan"}
        read    == {"deployment", "drift_check"}
        run_of  == ChangeFacts \cup {"run"}
    IN  {Profile("iac_change", "plan", "resource", changed \cup {"resource"},
                 {}),
         Profile("iac_change", "pre_deploy", "change", changed \cup run_of,
                 {}),
         Profile("iac_change", "post_deploy", "deployment",
                 changed \cup {"deployment"}, {}),
         Profile("iac_change", "post_verify", "deployment", read,
                 {"source", "assurance"}),
         Profile("image_build", "plan", "artifact",
                 {"source", "artifact", "tests", "scans", "verified_source",
                  "attestation_outcome"}, {}),
         Profile("image_deploy", "pre_deploy", "change",
                 {"source", "change"} \cup run_of, {}),
         Profile("image_deploy", "post_deploy", "deployment",
                 {"source", "change", "deployment"}, {}),
         Profile("image_deploy", "post_verify", "deployment",
                 read \cup {"change"}, {"source"})}
        \cup {Profile("iac_change", "runtime", kind,
                      IF kind = "resource" THEN {"resource"} ELSE {},
                      {"source", "deployment", "assurance", "exceptions"}) :
                      kind \in {"resource", "deployment", "assurance"}}

Roots(profile) == profile.required \cup profile.optional

ProfilesAt(activity, stage) ==
    {p \in Profiles : p.activity = activity /\ p.stage = stage}

ReadsServerFacts(activity, stage) ==
    \E p \in ProfilesAt(activity, stage) : Roots(p) \cap ServerFacts # {}

ReadsApprovals(activity, stage) ==
    \E p \in ProfilesAt(activity, stage) : "approvals" \in Roots(p)

\* The parts an assertion about an activity's change type, or about any
\* change, may read.
RootsFor(activities, stage, kind) ==
    {root \in UNION {Roots(p) : p \in Profiles} :
        \A p \in Profiles :
            (p.activity \in activities /\ p.stage = stage /\ p.kind = kind)
            => root \in Roots(p)}

(***************************************************************************)
(* An input, and an event with the verdict over it.                        *)
(***************************************************************************)
\* `marked`: the parts that hold the marker of a fact the server did not
\* supply.
InputAccepted(input) ==
    \E p \in ProfilesAt(input.activity, input.stage) :
        /\ p.kind = input.kind
        /\ p.required \subseteq input.parts /\ input.parts \subseteq Roots(p)
        /\ input.marked \subseteq ServerFacts
        /\ input.activity = "image_build" => input.environment = "none"

PolicyStatuses == {"pass", "fail", "unknown", "not_applicable"}

\* One reason of each kind a status may have.
StatusReasons ==
    [pass |-> {"none"}, fail |-> {"none"},
     unknown |-> {"path_missing", "server_facts_unavailable"},
     not_applicable |-> {"when_guard_excluded", "no_subject_in_scope"},
     not_evaluated |-> {"evaluator_unavailable",
                        "scanner_version_not_allowed"},
     error |-> {"evaluator_crash"}]

NoEvaluatorReasons == {"evaluator_unavailable", "no_subject_in_scope"}
BuiltInSources     == {"contract_starter", "server_bundle"}

MayBeScanned(e) ==  \* mutant: a binding may name a built-in
    e.built_in => /\ e.document = "shipped" /\ e.source \in BuiltInSources
                  /\ e.compiled \in {"none", "shipped"}
                  /\ e.compiled = "none" => e.evaluator # "opa"

\* A built-in is evaluated as shipped.
BuiltInOK(e) ==
    e.built_in =>
        /\ e.document = "shipped"
        /\ e.source \in BuiltInSources /\ ~e.binding
        /\ e.compiled \in {"none", "shipped"}
        /\ e.compiled = "none" => e.evaluator = "none"

BundleOfItsSource(e) ==  \* mutant: although nothing may have been loaded
    /\ e.bundle = "server" <=> e.source = "server_bundle"
    /\ e.binding <=> e.evaluator = "scanner"

\* The provenance fits the evaluator that gave the verdict.
EvaluatorOK(e) ==
    /\ e.evaluator = "none" => e.reason \in NoEvaluatorReasons
    /\ (e.bundle # "none") <=> (e.evaluator = "opa")
    /\ e.source = "server_bundle" => e.bundle \in {"none", "server"}
    /\ e.binding <=> (e.evaluator = "scanner")
    /\ e.evaluator = "scanner" => e.compiled = "none"

EventAccepted(e) ==
    LET no_subject == e.reason = "no_subject_in_scope"
    IN  /\ e.reason \in StatusReasons[e.status]
        /\ e.subject <=> ~no_subject
        /\ no_subject => ~e.input
        /\ (e.status \in PolicyStatuses /\ ~no_subject) => e.input
        /\ BuiltInOK(e)
        /\ \E p \in ProfilesAt(e.activity, e.stage) : p.kind = e.kind
        /\ (e.facts # "none_read") <=> ReadsServerFacts(e.activity, e.stage)
        /\ EvaluatorOK(e)

(***************************************************************************)
(* A record's stages, as far as they say what the server gave.             *)
(***************************************************************************)
EventsAt(stage) == {e \in events : e.stage = stage}

WithoutFacts(stage) ==  \* mutant: approvals whatever the results read
    stages[stage].approvals \subseteq {"own"}

\* Each approval is of this record's change or run, at a stage whose inputs
\* hold approvals, and was read from the server's facts by one of its
\* evaluations.
ApprovalsOK(stage) ==
    /\ stages[stage].approvals \subseteq {"own"}
    /\ stages[stage].approvals # {} =>
           /\ ReadsApprovals(run.activity, stage)
           /\ \E e \in EventsAt(stage) : e.facts = "server"

\* A record of a run the tool opened claims nothing of the server.
ProvenanceOK ==
    /\ (run.opened = "server" /\ run.activity # "image_build")
           => run.environment # "none"
    /\ run.opened = "local" =>
           /\ \A e \in events :
                  /\ e.bundle # "server"
                  /\ e.source # "server_bundle"
                  /\ e.facts # "server"
           /\ \A s \in DOMAIN stages :
                  stages[s].bundle # "server" /\ stages[s].time # "server"

OwedFacts == IF run.opened = "server" THEN "server" ELSE "none"

\* What a build is compared with comes only from the server.
BuildFactsOK ==
    run.activity = "image_build" => \A e \in events : e.facts = OwedFacts

RecordAccepted ==
    /\ \A e \in events :
           /\ EventAccepted(e)
           /\ e.stage \in DOMAIN stages /\ e.activity = run.activity
           /\ e.built_in => e.status # "not_applicable"
    /\ \A s \in DOMAIN stages : ApprovalsOK(s)
    /\ ProvenanceOK
    /\ BuildFactsOK

(***************************************************************************)
(* What happens: the tool asks for facts, builds inputs, evaluates, reports*)
(***************************************************************************)
RunInit ==
    /\ run \in [opened : {"server", "local"}, activity : Activities,
                environment : {"production", "none"}]
    /\ (run.opened = "server" /\ run.activity # "image_build")
           => run.environment # "none"
    /\ run.activity = "image_build" => run.environment = "none"
    /\ stages = << >> /\ events = {} /\ honest = TRUE

\* Where the facts of a stage's inputs come from: the server may be out of
\* reach, and gives none to a run it did not open. A build that a server run
\* evaluates is given the server's facts, perhaps as markers only.
FactsSources(stage) ==
    IF ~ReadsServerFacts(run.activity, stage) THEN {"none_read"}
    ELSE IF run.opened = "local" THEN {"none"}
    ELSE IF run.activity = "image_build" THEN {"server"}
    ELSE {"server", "none"}

\* The server may leave any fact it holds out of what it gives.
Marks(p, facts) ==
    LET held == Roots(p) \cap ServerFacts
    IN  IF facts = "server" THEN SUBSET held ELSE {held}

InputFor(p, optional, marked) ==
    [activity |-> run.activity, stage |-> p.stage, kind |-> p.kind,
     parts |-> p.required \cup optional, environment |-> run.environment,
     marked |-> marked]

\* What the program answers over an input when its assertion reads `root`: a
\* part left out has no path, and a marker is never decided over.
Answers(input, root) ==
    IF root \notin input.parts THEN {<<"unknown", "path_missing">>}
    ELSE IF root \in input.marked
         THEN {<<"unknown", "server_facts_unavailable">>}
    ELSE {<<"pass", "none">>, <<"fail", "none">>}

\* The bundles a tool evaluates over: the one the server served it, in a run
\* the server opened, or one it built.
Bundles(source) ==
    IF source = "server_bundle" THEN {"server"} ELSE {"local_bundle"}

Sources ==
    {"contract_starter", "local", "custom_rego"} \cup
    (IF run.opened = "server" THEN {"server_bundle"} ELSE {})

Event(input, facts, built_in, source, answer, evaluator) ==
    [activity |-> input.activity, stage |-> input.stage, kind |-> input.kind,
     built_in |-> built_in,
     document |-> IF built_in THEN "shipped" ELSE "own",
     status |-> answer[1], reason |-> answer[2],
     subject |-> answer[2] # "no_subject_in_scope",
     input |-> answer[2] \notin NoEvaluatorReasons,
     evaluator |-> evaluator, binding |-> evaluator = "scanner",
     bundle |-> IF evaluator = "opa" THEN CHOOSE b \in Bundles(source) : TRUE
                ELSE "none",
     source |-> source,
     compiled |-> IF evaluator # "opa" THEN "none"
                  ELSE IF built_in THEN "shipped" ELSE "own",
     facts |-> facts]

\* The program ran, or crashed, over an input the context model accepts. A
\* built-in always applies.
ProgramRan(input, root, facts, built_in, source) ==
    {Event(input, facts, built_in, source, answer, "opa") :
        answer \in Answers(input, root) \cup {<<"error", "evaluator_crash">>}
            \cup (IF built_in THEN {}
                  ELSE {<<"not_applicable", "when_guard_excluded">>})}

\* A scanner's result stands for an assertion that is no built-in; or no
\* evaluator ran, for want of one or of a subject.
NothingRan(input, facts, built_in, source) ==
    {Event(input, facts, built_in, source,
           <<"not_evaluated", "evaluator_unavailable">>, "none")} \cup
    (IF built_in THEN {} ELSE
        {Event(input, facts, FALSE, source,
               <<"not_applicable", "no_subject_in_scope">>, "none"),
         Event(input, facts, FALSE, source, <<"pass", "none">>, "scanner"),
         Event(input, facts, FALSE, source, <<"fail", "none">>, "scanner"),
         Event(input, facts, FALSE, source,
               <<"not_evaluated", "scanner_version_not_allowed">>,
               "scanner")})

HonestEvents(p, input, facts) ==
    (UNION {ProgramRan(input, root, facts, b, source) \cup
                NothingRan(input, facts, b, source) :
                root \in RootsFor({run.activity}, p.stage, p.kind),
                b \in BOOLEAN, source \in Sources \cap BuiltInSources})
    \cup
    (UNION {ProgramRan(input, root, facts, FALSE, source) \cup
                NothingRan(input, facts, FALSE, source) :
                root \in RootsFor({run.activity}, p.stage, p.kind),
                source \in Sources})

\* An approval is of the record's own change or run, or of another.
StageClaims ==
    [approvals : SUBSET {"own", "another"},
     bundle : {"server", "local_bundle", "none"},
     time : {"server", "runner_clock"}]

\* The bundle a stage names is the one its program loaded, and its time is
\* the server's only in a run the server opened.
HonestStage(stage, facts, evaluated) ==
    {claim \in StageClaims :
        /\ claim.approvals \subseteq
               (IF ReadsApprovals(run.activity, stage) /\ facts = "server"
                THEN {"own"} ELSE {})
        /\ IF {e.bundle : e \in evaluated} = {"none"}
           THEN claim.bundle = "none"
           ELSE claim.bundle \in {e.bundle : e \in evaluated} \ {"none"}
        /\ claim.time = "server" => run.opened = "server"}

Reported(stage, claim, evaluated) ==
    /\ stages' = [s \in DOMAIN stages \cup {stage} |->
                     IF s = stage THEN claim ELSE stages[s]]
    /\ events' = events \cup evaluated
    /\ UNCHANGED run

ReportStage(stage) ==
    /\ stage \notin DOMAIN stages
    /\ \E p \in ProfilesAt(run.activity, stage),
          facts \in FactsSources(stage) :
           \E optional \in SUBSET p.optional, marked \in Marks(p, facts) :
               LET input == InputFor(p, optional, marked)
               IN  /\ InputAccepted(input)
                   /\ \E e \in HonestEvents(p, input, facts) :
                          \E claim \in HonestStage(stage, facts, {e}) :
                              Reported(stage, claim, {e})
    /\ UNCHANGED honest

\* Whatever an event document has room for, less what is refused at once.
EventClaims(activity, stage) ==
    {e \in [activity : {activity}, stage : {stage},
            kind : {p.kind : p \in ProfilesAt(activity, stage)},
            built_in : BOOLEAN, document : {"shipped", "own"},
            status : DOMAIN StatusReasons,
            reason : UNION {StatusReasons[s] : s \in DOMAIN StatusReasons},
            subject : BOOLEAN, input : BOOLEAN,
            evaluator : {"opa", "scanner", "none"}, binding : BOOLEAN,
            bundle : {"server", "local_bundle", "none"},
            source : {"server_bundle", "local", "contract_starter"},
            compiled : {"shipped", "own", "none"},
            facts : {"server", "none", "none_read"}] : EventAccepted(e)}

\* A stage reported in any other way, with one event and any claims.
ClaimStage(stage, claims) ==
    /\ stage \notin DOMAIN stages
    /\ \E e \in claims, claim \in StageClaims : Reported(stage, claim, {e})
    /\ honest' = FALSE

RunNext ==
    \E stage \in RunStages :
        \/ ReportStage(stage)
        \/ ClaimStage(stage, EventClaims(run.activity, stage))

RunSpec == RunInit /\ [][RunNext]_runVars

(***************************************************************************)
(* Properties.                                                             *)
(***************************************************************************)

\* A record that is accepted and says the tool opened its own run names
\* nothing of the server: no bundle, assertion, facts or time, and no
\* approval, which only the server's facts can hold
\* (models/provenance.py check_provenance, models/stages.py
\* _check_approvals).
LocalRunNamesNothingOfTheServer ==
    (RecordAccepted /\ run.opened = "local") =>
        /\ \A e \in events : /\ e.bundle # "server" /\ e.facts # "server"
                             /\ e.source # "server_bundle"
        /\ \A s \in DOMAIN stages :
               /\ stages[s].bundle # "server" /\ stages[s].time # "server"
               /\ stages[s].approvals = {}

\* Every verdict of an accepted record was computed over a named input by
\* exactly one of the two evaluators: the program over a bundle, or a
\* scanner under a binding. A built-in's was by the module shipped for it,
\* never by a scanner (models/event.py _consistent, _check_built_in).
VerdictsAreComputed ==
    RecordAccepted =>
        \A e \in events :
            (e.status \in PolicyStatuses /\ e.reason # "no_subject_in_scope")
            => /\ e.input /\ e.subject
               /\ \/ /\ e.evaluator = "opa" /\ ~e.binding
                     /\ e.bundle # "none"
                     /\ e.built_in => e.compiled = "shipped"
                  \/ /\ e.evaluator = "scanner" /\ e.binding
                     /\ e.bundle = "none" /\ ~e.built_in

\* No rule refuses what really happened: a record of evaluations over inputs
\* the profiles allow, with or without the server, is accepted (profiles/
\* stage.py, models/event.py, models/stages.py and models/provenance.py, which
\* decide separately which inputs read facts of the server).
HonestRecordAccepted == honest => RecordAccepted
=============================================================================
