--------------------------- MODULE ChangeApproval ---------------------------
(***************************************************************************)
(* What an approval approves: a run, or a change by its digest, which binds*)
(* it to one change type, unit, environment and checked content            *)
(* (canonical/change.py, models/server_facts.py, change_types/bindings.py).*)
(*                                                                         *)
(* A run plans, people approve, the run plans again, its pre-deploy input  *)
(* is evaluated and its record written, in any order. The server keeps the *)
(* approvals of every change and run; the tool may carry over a digest or  *)
(* an evaluation of an earlier plan. A digest stands for what it is of.    *)
(***************************************************************************)
EXTENDS Integers, FiniteSets

CONSTANTS
    ChangeTypes,
    Units,
    Environments,
    Contents,     \* plans, or images
    RunIds,
    MaxApprovals  \* bound on the approvals the server holds

VARIABLES
    thisRun,   \* the run: its id, change type, unit and environment
    planned,   \* the content it planned last
    approvals, \* those the server holds
    inputs,    \* the pre-deploy inputs evaluated
    records    \* the records written, at most one

approvalVars == <<thisRun, planned, approvals, inputs, records>>

(***************************************************************************)
(* Changes and approvals.                                                  *)
(***************************************************************************)
Changes ==
    [change_type : ChangeTypes, unit : Units, environment : Environments,
     content : Contents]

WithoutEnvironment(change) ==  \* mutant
    [change EXCEPT !.environment = "any"]

ChangeDigest(change) == change

\* `of`: what the approver saw.
Subjects ==
    [kind : {"change"}, of : Changes] \cup [kind : {"run"}, of : RunIds]

\* A CI system's deployment review names no role: none is verified.
Approval ==
    {a \in [subject : Subjects, security : BOOLEAN,
            method : {"ci_deployment_review", "iltero_review"},
            independent : BOOLEAN] :
        a.method = "ci_deployment_review" => ~a.security}

ChangeTo(content) ==
    [change_type |-> thisRun.change_type, unit |-> thisRun.unit,
     environment |-> thisRun.environment, content |-> content]

DigestOf(content) == ChangeDigest(ChangeTo(content))

(***************************************************************************)
(* The pre-deploy input, and ILT.CHANGE.PRODUCTION_APPROVED over it.       *)
(***************************************************************************)
\* `served`: whether the server gave its facts; otherwise its parts, and
\* whether the environment is production, are markers.
Input(content, digest, served) ==
    [content |-> content, digest |-> digest, served |-> served,
     approvals |-> IF served THEN approvals ELSE {}]

InputAccepted(input) == input.digest = DigestOf(input.content)

ApprovesChange(a, digest) ==
    /\ a.subject.kind = "change" /\ ChangeDigest(a.subject.of) = digest
    /\ a.security /\ a.independent

ApprovesRun(a, id) == a.subject.kind = "run" /\ a.subject.of = id

ProductionApproved(input) ==
    IF ~input.served THEN "unknown"
    ELSE IF thisRun.environment # "production" THEN "not_applicable"
    ELSE IF \E a \in input.approvals :
                \/ ApprovesChange(a, input.digest)
                \/ ApprovesRun(a, thisRun.id)
    THEN "pass" ELSE "fail"

(***************************************************************************)
(* The record.                                                             *)
(***************************************************************************)
BoundToChangeDigest(record) ==
    \A a \in record.approvals :
        a.subject.kind = "change" => ChangeDigest(a.subject.of) = record.digest

ApprovalsListed(record) ==
    /\ \A a \in record.approvals :
           a.subject.kind = "run" => a.subject.of = thisRun.id
    /\ record.approvals # {} => record.event.input.served

\* Its evaluation read the content the record is about.
ChangeAccepted(record) ==
    /\ record.digest = DigestOf(record.content)
    /\ BoundToChangeDigest(record)
    /\ ApprovalsListed(record)
    /\ record.event.input.content = record.content

(***************************************************************************)
(* A run.                                                                  *)
(***************************************************************************)
ApprovalInit ==
    /\ thisRun \in [id : RunIds, change_type : ChangeTypes, unit : Units,
                    environment : Environments]
    /\ planned = {} /\ approvals = {} /\ inputs = {} /\ records = {}

\* Planning again replaces the plan, and nothing that was made of it.
Plan ==
    /\ records = {}
    /\ \E content \in Contents : planned' = {content}
    /\ UNCHANGED <<thisRun, approvals, inputs, records>>

Approve(some) ==
    /\ Cardinality(approvals) < MaxApprovals
    /\ \E a \in some \ approvals : approvals' = approvals \cup {a}
    /\ UNCHANGED <<thisRun, planned, inputs, records>>

Evaluate ==
    /\ inputs = {}
    /\ \E content \in planned, before \in Contents, served \in BOOLEAN :
           LET input == Input(content, DigestOf(before), served)
           IN  InputAccepted(input) /\ inputs' = {input}
    /\ UNCHANGED <<thisRun, planned, approvals, records>>

\* The record is of the last plan; it lists any approvals its input held.
RecordChange ==
    /\ records = {}
    /\ \E content \in planned, before \in Contents, input \in inputs :
           \E listed \in SUBSET input.approvals :
               records' = {[content |-> content, digest |-> DigestOf(before),
                            approvals |-> listed,
                            event |-> [input |-> input,
                                       status |-> ProductionApproved(input)]]}
    /\ UNCHANGED <<thisRun, planned, approvals, inputs>>

ApprovalNext == Plan \/ Approve(Approval) \/ Evaluate \/ RecordChange

ApprovalSpec == ApprovalInit /\ [][ApprovalNext]_approvalVars

(***************************************************************************)
(* A property.                                                             *)
(***************************************************************************)

\* Someone with the security role who did not start the run approved the
\* unit's change to this environment with exactly this content, in a review
\* that verifies roles; or someone approved this run.
Sanctioned(record) ==
    \E a \in approvals :
        \/ /\ a.subject.kind = "change"
           /\ a.subject.of = ChangeTo(record.content)
           /\ a.security /\ a.independent /\ a.method = "iltero_review"
        \/ a.subject = [kind |-> "run", of |-> thisRun.id]

\* A production change whose accepted record says it was approved was: no
\* approval of an earlier plan, of another unit's, environment's or change
\* type's, of another run, or by someone without the role counts, whatever
\* was planned, approved or read in between
\* (assertions/ILT.CHANGE.PRODUCTION_APPROVED.yaml, canonical/change.py,
\* models/stages.py _check_checked_content_of_events).
PassMeansApproved ==
    \A record \in records :
        (ChangeAccepted(record) /\ record.event.status = "pass")
        => /\ Sanctioned(record)
           /\ thisRun.environment = "production"
=============================================================================
