------------------------- MODULE VerificationReport -------------------------
(***************************************************************************)
(* What a verifier reports of a record whose files hold the digests it     *)
(* names (models/verification.py): for each of nine properties, one of the *)
(* results that property may have, a state and the reason for it. A result *)
(* is true of a record when its reason, as PROPERTY_RESULTS explains it,   *)
(* is what the record shows.                                               *)
(*                                                                         *)
(* The record is that of ChangeRecord while its stages report. Beside it:  *)
(* whether the run is over, and what its pre-deploy stage read.            *)
(***************************************************************************)
EXTENDS ChangeRecord

VARIABLES
    over,  \* no stage reports any more
    read   \* what the pre-deploy stage was given, None before it reported

reportVars == <<change, scope, stages, record, over, read>>

PreDeployRead == [facts : {"server", "none"}, approvals : BOOLEAN]

-----------------------------------------------------------------------------
(***************************************************************************)
(* The results of PROPERTY_RESULTS, by reason. Several reasons have the    *)
(* same meaning for more than one property.                                *)
(***************************************************************************)
PreDeployReasons ==
    {"not_in_activity", "server_facts_unavailable", "pre_deploy_pending",
     "pre_deploy_out_of_scope"}

PropertyReasons ==
    [integrity |-> {"file_digests"},
     source_identity |-> {"ci_job_held_by_server", "run_opened_locally"},
     approval_identity |-> PreDeployReasons \cup
                           {"approvals_listed", "no_approval_served"},
     bundle_provenance |-> {"server_bundle_named", "local_assertions"},
     stage_completeness |->
         {"expected_stages", "stages_pending", "stage_not_reported"},
     plan_apply_match |->
         {"not_in_activity", "no_post_deploy_stage", "plan_files_supplied",
          "binding_undecided"},
     runtime_verification |->
         {"reported_by_pipeline", "stage_pending", "stage_not_reported",
          "not_in_activity"} \cup OutOfScopeReason,
     deployment_coverage |-> {"no reason"},
     exceptions |-> PreDeployReasons \cup {"exceptions_not_listed"}]

Reported(s) == s \in DOMAIN stages
Missing(s)  == s \in scope.expected \ DOMAIN stages

\* The pre-deploy results mean the same of an approval and of an exception.
PreDeployHolds(reason) ==
    CASE reason = "not_in_activity" -> change.activity = "image_build"
      [] reason = "server_facts_unavailable" ->
             Reported("pre_deploy") /\ read.facts = "none"
      [] reason = "pre_deploy_pending" -> Missing("pre_deploy") /\ ~over
      [] reason = "pre_deploy_out_of_scope" -> "pre_deploy" \in DOMAIN scope.left

RuntimeHolds(reason) ==
    CASE reason = "reported_by_pipeline" -> Reported("post_verify")
      [] reason = "stage_pending"        -> Missing("post_verify") /\ ~over
      [] reason = "stage_not_reported"   -> Missing("post_verify") /\ over
      [] reason = "not_in_activity"      -> change.activity = "image_build"
      [] OTHER -> "post_verify" \in DOMAIN scope.left
                  /\ scope.left["post_verify"] = reason

\* What a reason says of the record. A stage names the bundle of the run it
\* belongs to, and the plan files may be given to the verifier or not.
Holds(property, reason) ==
    CASE reason \in {"file_digests", "no reason"} -> TRUE
      [] reason = "ci_job_held_by_server" -> change.server
      [] reason = "run_opened_locally"    -> ~change.server
      [] reason = "server_bundle_named"   -> change.server
      [] reason = "local_assertions"      -> ~change.server
      [] reason = "expected_stages" -> Complete
      [] reason = "stages_pending"  -> ~Complete /\ ~over
      [] property = "stage_completeness" /\ reason = "stage_not_reported" ->
             ~Complete /\ over
      [] property = "runtime_verification" -> RuntimeHolds(reason)
      [] property = "plan_apply_match" ->
             CASE reason = "not_in_activity" -> change.activity # "iac_change"
               [] reason = "no_post_deploy_stage" -> ~Reported("post_deploy")
               [] OTHER -> Reported("post_deploy")
      [] reason = "approvals_listed" -> Reported("pre_deploy") /\ read.approvals
      [] reason = "no_approval_served" ->
             change.server /\ Reported("pre_deploy") /\ ~read.approvals
      [] reason = "exceptions_not_listed" -> change.server
      [] OTHER -> PreDeployHolds(reason)

Results(property) == {r \in PropertyReasons[property] : Holds(property, r)}

-----------------------------------------------------------------------------
ReportInit == Init /\ over = FALSE /\ read = None

\* The server gives facts only to a run it opened, and approvals are facts.
StageReports ==
    /\ ~over /\ Next
    /\ read' \in IF Reported("pre_deploy")' /\ ~Reported("pre_deploy")
                 THEN {r \in PreDeployRead :
                          /\ r.facts = "server" => change.server
                          /\ r.approvals => r.facts = "server"}
                 ELSE {read}
    /\ UNCHANGED over

\* A run may end before every stage its record expects has reported.
RunEnds ==
    /\ record # None /\ ~over
    /\ over' = TRUE
    /\ UNCHANGED <<change, scope, stages, record, read>>

ReportNext == StageReports \/ RunEnds

ReportSpec == ReportInit /\ [][ReportNext]_reportVars

\* "Otherwise each property has one of the results a verifier gives it"
\* (docs/01-document-formats.md, models/verification.py _results): whatever a
\* record shows, some result a report may give each property is true of it.
EveryPropertyHasAResult ==
    record # None =>
        \A property \in DOMAIN PropertyReasons : Results(property) # {}
=============================================================================
