---------------------------- MODULE ChangeRecord ----------------------------
(***************************************************************************)
(* One Change Assurance Record while its stages report (models/car.py,     *)
(* models/stages.py, change_types/).  A record is of one activity: a       *)
(* change to infrastructure, the build of an image, or its deployment.  It *)
(* expects some of the activity's stages and says why it leaves out the    *)
(* others.  Each reported stage brings its evaluations; what the pipeline  *)
(* did comes with the stage that reads it; and the top level is the stages *)
(* combined.                                                               *)
(*                                                                         *)
(* A stage reports when the record with it would be read: the rules of     *)
(* check_structure and integrity_problems are guards here.                 *)
(***************************************************************************)
EXTENDS Coverage

\* The assertions the package ships for the record's own rules.
AppliedPlan == "applied_plan_matches_evaluated_plan"
NoDrift == "no_drift_after_apply"
BuildCommit == "build_commit_matches_verified_commit"
ReportedImage == "reported_image_matches_checked_image"
RunningImage == "running_image_matches_deployed_image"
SignedProvenance == "signed_provenance_matches_run"  \* shipped, not built in

CONSTANTS
    Assertions,  \* the assertions a project or the server owes
    Tallies      \* what a stage may say of its own work, see Tally

Tally == [subjects : Nat, unreached : Nat, evaluated : Nat, replaced : Nat,
          truncated : BOOLEAN]
\* The writer's own counts, which no event confirms: the subjects and the
\* assertions it evaluated, the inputs replaced by placeholders, and, when it
\* was cut short, the owed assertions it has no event for.

VARIABLES
    change,  \* the activity, its setting, and what the pipeline reported
    scope,   \* the expected stages, and the reason each other is left out
    stages,  \* by reported stage, its evaluations and its outcome
    record   \* the verdict, its stage and the reason at the record's top

vars == <<change, scope, stages, record>>

Activity == {"iac_change", "image_build", "image_deploy"}

StagesOf(activity) ==
    CASE activity = "iac_change"   -> Stage
      [] activity = "image_build"  -> {"plan"}
      [] activity = "image_deploy" -> Stage \ {"plan"}

\* What the pipeline did and read, once the stage that reads it reported.
Deployment == [asChecked : BOOLEAN, stateRead : BOOLEAN]
Reading == {"pass", "fail", "unknown"}  \* what the drift check gives

Change ==
    [activity : Activity,
     server : BOOLEAN,   \* the server opened the run
     drift : BOOLEAN,    \* a drift reader exists for the tool
     commit : BOOLEAN,   \* a build names the commit it was built from
     sent : BOOLEAN,     \* a build's attestation was sent to the server
     deployment : Deployment \cup {None},
     check : Reading \cup {None}]

ASSUME RecordAssumption ==
    /\ Tallies \subseteq Tally
    /\ None \notin Deployment /\ None \notin Reading
    /\ IsFiniteSet(Assertions)
    /\ Assertions \cap {AppliedPlan, NoDrift, BuildCommit, ReportedImage,
                        RunningImage, SignedProvenance} = {}

(***************************************************************************)
(* The scope of a record.                                                  *)
(***************************************************************************)
ProjectMayLeaveOut(c) ==
    CASE c.activity = "iac_change"   -> {"pre_deploy", "post_verify"}
      [] c.activity = "image_build"  -> {}
      [] c.activity = "image_deploy" -> {"post_verify"}

PolicyMayLeaveOut(c) ==
    IF c.server /\ c.activity # "image_build" THEN {"post_verify"} ELSE {}

NotSupported(c) ==
    IF c.activity = "image_deploy" \/ (c.activity = "iac_change" /\ ~c.drift)
    THEN {"post_verify"} ELSE {}

OutOfScopeReason == {"project_config", "environment_policy", "not_supported"}

MayLeaveOut(c, reason) ==
    CASE reason = "project_config"     -> ProjectMayLeaveOut(c)
      [] reason = "environment_policy" -> PolicyMayLeaveOut(c)
      [] reason = "not_supported"      -> NotSupported(c)

Scopes(c) ==
    {[expected |-> StagesOf(c.activity) \ DOMAIN left, left |-> left] :
        left \in UNION {
            {f \in [S -> OutOfScopeReason] :
                \A s \in S : s \in MayLeaveOut(c, f[s])} :
            S \in SUBSET (StagesOf(c.activity) \cap {"pre_deploy", "post_verify"})}}

(***************************************************************************)
(* The built-in assertions, which no policy excludes: each is evaluated    *)
(* once, when its stage reports, and always applies.                       *)
(***************************************************************************)
AlwaysEvaluated(activity, s) ==
    CASE activity = "iac_change" /\ s = "post_deploy"    -> {AppliedPlan}
      [] activity = "iac_change" /\ s = "post_verify"    -> {NoDrift}
      [] activity = "image_build" /\ s = "plan"          -> {BuildCommit}
      [] activity = "image_deploy" /\ s = "post_deploy"  -> {ReportedImage}
      [] activity = "image_deploy" /\ s = "post_verify"  -> {RunningImage}
      [] OTHER -> {}

MayEvaluate(activity) ==
    Assertions \cup (IF activity = "image_build" THEN {SignedProvenance} ELSE {})

UndecidedOrNone ==  \* mutant: a built-in assertion need not apply
    {"not_evaluated", "error", "not_applicable"}

\* Statuses of an evaluation that decided nothing.
Undecided == {"not_evaluated", "error"}

\* What the record's own change says each check of what was done must find.
CarriedOutOwes(c) == {IF c.deployment.asChecked THEN "pass" ELSE "fail"}

\* Only the server verifies the commit a build names.
CommitOwes(c) ==
    IF c.server /\ c.commit THEN {"pass", "fail", "unknown"} ELSE {"unknown"}

\* Only the server checks an attestation, and only one it was sent.
ProvenanceOwes(c) ==
    IF ~c.server THEN {"unknown"} ELSE Status \ (IF c.sent THEN {} ELSE {"pass"})

OwedStatus(c, assertion) ==
    CASE assertion \in {AppliedPlan, ReportedImage} -> CarriedOutOwes(c)
      [] assertion \in {NoDrift, RunningImage}      -> {c.check}
      [] assertion = BuildCommit                    -> CommitOwes(c)
      [] assertion = SignedProvenance               -> ProvenanceOwes(c)
      [] OTHER                                      -> Status

\* The evaluations a stage may bring: its built-in one always, others at will.
Evaluations(c, s) ==
    UNION {{f \in [A \cup AlwaysEvaluated(c.activity, s) -> Status] :
               \A a \in DOMAIN f : f[a] \in OwedStatus(c, a) \cup Undecided} :
           A \in SUBSET MayEvaluate(c.activity)}

(***************************************************************************)
(* A stage's coverage counts its evaluations, one per event.               *)
(***************************************************************************)
CountOf(results, status) == Cardinality({a \in DOMAIN results : results[a] = status})

CoverageOfStage(results, tally, gaps) ==
    [subjects  |-> tally.subjects,
     owed      |-> Cardinality(DOMAIN results)
                      + (IF tally.truncated THEN tally.unreached ELSE 0),
     evaluated |-> tally.evaluated,
     counts    |-> [status \in Status |-> CountOf(results, status)],
     gaps      |-> gaps,
     truncated |-> tally.truncated,
     replaced  |-> tally.replaced]

StageRecord(results, coverage) ==
    [results |-> results, coverage |-> coverage,
     code |-> StageOutcome(coverage).code,
     reason |-> StageOutcome(coverage).reason]

Complete == DOMAIN stages = scope.expected

-----------------------------------------------------------------------------
Init ==
    /\ change \in {c \in Change :
          /\ c.deployment = None /\ c.check = None
          /\ c.activity # "image_build" => ~c.commit /\ ~c.sent
          /\ c.activity # "iac_change" => ~c.drift
          /\ c.sent => c.server}
    /\ scope \in Scopes(change)
    /\ stages = << >>
    /\ record = None

\* An expected stage that has not reported, the first one before any other.
Reportable(s) ==
    /\ s \in scope.expected \ DOMAIN stages
    /\ First(scope.expected) \in DOMAIN stages \cup {s}

\* Stage `s` reports its evaluations, with what `c` now says of the change.
Add(s, c, gaps) ==
    /\ Reportable(s)
    /\ \E results \in Evaluations(c, s), tally \in Tallies :
          /\ \A t \in DOMAIN stages :
                DOMAIN results \cap DOMAIN stages[t].results = {}
          /\ LET reported == With(stages, s,
                     StageRecord(results, CoverageOfStage(results, tally, gaps)))
             IN  /\ Combinable(reported)
                 /\ stages' = reported
                 /\ record' = Combined(reported)
    /\ change' = c
    /\ UNCHANGED scope

\* The gap of a plan that is not complete, which only a change to
\* infrastructure keeps to its plan stage.
PlanGaps(s) ==
    SUBSET {g \in {"plan_incomplete"} : change.activity = "iac_change" => s = "plan"}

\* The stage that reads the plan of a change, or the image a build pushed.
ReportPlan == \E gaps \in PlanGaps("plan") : Add("plan", change, gaps)

ReportPreDeploy ==
    \E gaps \in PlanGaps("pre_deploy") : Add("pre_deploy", change, gaps)

\* The pipeline deployed, and perhaps could not read the state after it.
ReportPostDeploy ==
    \E d \in Deployment, gaps \in PlanGaps("post_deploy") :
        /\ change.activity = "image_deploy" => d.stateRead
        /\ Add("post_deploy", [change EXCEPT !.deployment = d],
               gaps \cup {g \in {"state_not_read"} : ~d.stateRead})

\* The deployed resources were read back.
ReportPostVerify ==
    \E check \in Reading, gaps \in PlanGaps("post_verify") :
        /\ change.deployment # None
        /\ change.deployment.stateRead
        /\ change.activity = "iac_change" => check # "unknown"
        /\ Add("post_verify", [change EXCEPT !.check = check], gaps)

Next == ReportPlan \/ ReportPreDeploy \/ ReportPostDeploy \/ ReportPostVerify

Spec == Init /\ [][Next]_vars

Ladder == INSTANCE VerdictLadder
              WITH verdict <- IF record = None THEN None
                              ELSE [code |-> record.code, reason |-> record.reason]

-----------------------------------------------------------------------------
Outcome == [code : StageCode, stage : Stage, reason : Reason \cup {None}]

RecordTypeOK ==
    /\ change \in Change
    /\ scope.expected \subseteq Stage
    /\ DOMAIN stages \subseteq scope.expected
    /\ \A s \in DOMAIN stages :
          /\ stages[s].coverage \in CoverageOf
          /\ stages[s].code \in StageCode
          /\ stages[s].reason \in Reason \cup {None}
    /\ record \in Outcome \cup {None}
    /\ (record = None) <=> (DOMAIN stages = {})

(***************************************************************************)
(* A pass at the record's top says what was carried out, whatever the      *)
(* project's own assertions found: what was deployed is what was checked,  *)
(* the state after the apply was read, the reading back found nothing      *)
(* else, and a build is of the commit its server verified.  A complete     *)
(* record that passes did deploy, and read back unless it says why not     *)
(* (built-in assertions, change_types/, down to combine).                  *)
(***************************************************************************)
PassMeansCarriedOut ==
    record # None /\ record.code = 0 =>
        /\ change.deployment # None =>
               change.deployment.asChecked /\ change.deployment.stateRead
        /\ change.check \in {"pass", None}
        /\ change.activity = "image_build" => change.server /\ change.commit
        /\ Complete /\ change.activity # "image_build" =>
               /\ change.deployment # None
               /\ change.check = None => "post_verify" \in DOMAIN scope.left

(***************************************************************************)
(* A pass is every reported stage's own, and none of them is empty: each   *)
(* evaluated something over some subject, has an evaluation for every      *)
(* assertion it owed, and none found against the change or nothing at all. *)
(* No stage's checks stand in for another's (coverage.py _stage_codes, "a  *)
(* run that evaluated nothing is a gap, never a pass", through combine).   *)
(***************************************************************************)
PassLeavesNothingOut ==
    record # None /\ record.code = 0 =>
        \A s \in DOMAIN stages :
            LET at == stages[s] IN
            /\ at.coverage.subjects > 0
            /\ DOMAIN at.results # {}
            /\ Cardinality(DOMAIN at.results) = at.coverage.owed
            /\ at.coverage.owed <= at.coverage.evaluated
            /\ \A a \in DOMAIN at.results : at.results[a] \in {"pass", "not_applicable"}

(***************************************************************************)
(* A state that was not read after the apply is never made good: the       *)
(* record is a coverage gap and incomplete from then on, and it can have   *)
(* every expected stage only if it never expected the reading back         *)
(* (coverage.py StateNotReadGap, drift_check.py                            *)
(* NO_DRIFT_CHECK_WITHOUT_THE_STATE).                                      *)
(***************************************************************************)
UnreadStateStaysOpen ==
    change.deployment # None /\ ~change.deployment.stateRead =>
        /\ record.code = 6
        /\ record.reason # None
        /\ Complete => "post_verify" \in DOMAIN scope.left

(***************************************************************************)
(* The record's verdict is never better than its own combined counts would *)
(* give, though they are not what it is read from: summing the stages can  *)
(* hide what one of them missed, and the verdict must not (coverage.py,    *)
(* "The record's top level is never counted again").                       *)
(***************************************************************************)
NeverBetterThanRecount ==
    record # None =>
        Rank(record.code) <= Rank(Leading(StageCodes(CombinedCoverage(stages))))

(***************************************************************************)
(* Every cause of incompleteness stays listed in the combined coverage,    *)
(* and the record names an evaluator error exactly when one was counted    *)
(* (AssuranceStatus, "every cause stays listed in the coverage").          *)
(***************************************************************************)
CausesStayListed ==
    record # None =>
        LET recount == StageReason(CombinedCoverage(stages)) IN
        /\ (record.reason = None) <=> (recount = None)
        /\ (record.reason = EvaluatorError) <=> (recount = EvaluatorError)

(***************************************************************************)
(* No report improves the record: its verdict's place never rises, an      *)
(* incomplete record never turns whole, and an evaluator error is never    *)
(* displaced by another reason (coverage.py, "a gap one stage found can    *)
(* never be cured by another stage's checks").                             *)
(***************************************************************************)
NeverCured ==
    [][record # None =>
          /\ Rank(record'.code) <= Rank(record.code)
          /\ record.reason # None => record'.reason # None
          /\ record.reason = EvaluatorError => record'.reason = EvaluatorError]_vars

(***************************************************************************)
(* Each report folds its stage into the verdict so far, in whatever order  *)
(* the stages report: combining them all again gives no other verdict.     *)
(***************************************************************************)
ImplementsLadder == Ladder!Spec

(***************************************************************************)
(* Only a plan stage lists the gap of a plan that is not complete, as      *)
(* docs/01-document-formats.md says of every record ("A plan-flag gap in   *)
(* any other stage is refused"); a record of an image's deployment, which  *)
(* has no plan, may list one at any stage.                                 *)
(***************************************************************************)
PlanGapOnlyInPlan ==
    \A s \in DOMAIN stages :
        "plan_incomplete" \in stages[s].coverage.gaps => s = "plan"

(***************************************************************************)
(* The inductive invariant behind these: the top level is the stages       *)
(* combined, each stage's code is its own counts' and its counts are its   *)
(* evaluations' (Recomputed); the change says what the stages that read it *)
(* brought (Reads); and each built-in check found what the change says it  *)
(* must, or decided nothing (BuiltInsKept).                                *)
(***************************************************************************)
Recomputed ==
    /\ DOMAIN stages # {} => record = Combined(stages)
    /\ \A s \in DOMAIN stages :
          LET at == stages[s] IN
          /\ at.code = Leading(StageCodes(at.coverage))
          /\ at.reason = StageReason(at.coverage)
          /\ IsFiniteSet(DOMAIN at.results)
          /\ \A a \in DOMAIN at.results : at.results[a] \in Status
          /\ at.coverage.counts = [st \in Status |-> CountOf(at.results, st)]
          /\ ~at.coverage.truncated =>
                at.coverage.owed = Cardinality(DOMAIN at.results)

Reads ==
    /\ scope.expected = StagesOf(change.activity) \ DOMAIN scope.left
    /\ DOMAIN scope.left \subseteq {"pre_deploy", "post_verify"}
    /\ change.deployment # None <=> "post_deploy" \in DOMAIN stages
    /\ change.check # None <=> "post_verify" \in DOMAIN stages
    /\ change.check # None =>
          change.deployment # None /\ change.deployment.stateRead
    /\ change.deployment # None /\ ~change.deployment.stateRead =>
          "state_not_read" \in stages["post_deploy"].coverage.gaps

BuiltInsKept ==
    \A s \in DOMAIN stages : \A b \in AlwaysEvaluated(change.activity, s) :
        /\ b \in DOMAIN stages[s].results
        /\ stages[s].results[b] \in OwedStatus(change, b) \cup Undecided

RecordInv == RecordTypeOK /\ Recomputed /\ Reads /\ BuiltInsKept
=============================================================================
