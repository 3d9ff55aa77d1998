--------------------------- MODULE MCReleaseParts ---------------------------
(***************************************************************************)
(* Small instances of DriftCheck, ImageBuild, ChangeApproval, Distribution *)
(* and ImageReading, side by side: one of them runs while the others have  *)
(* not begun. A job builds five kinds of image, at most two of them, and   *)
(* leaves at most MaxSteps pushes, attestations, scans and answers.  A     *)
(* workload starts with a pod of the template "again".                     *)
(***************************************************************************)
EXTENDS DriftCheck, ImageBuild, ChangeApproval, Distribution, MCImageReading

CONSTANT MaxSteps

BuildOf(commit, part, tag, git) ==
    [image |-> [commit |-> commit, part |-> part], tag |-> tag, git |-> git]

MCBuilds ==
    {BuildOf("main", "index", "v1", TRUE), BuildOf("main", "index", "v2", FALSE),
     BuildOf("main", "single", "v1", FALSE),
     BuildOf("other", "index", "v1", TRUE), BuildOf("other", "single", "v2", TRUE)}

Left(what) == Cardinality({f \in files : f.kind = what})

Steps == Cardinality(pushed) + Left("attestation") + Left("scan")
             + Cardinality(outcomes)

MCJobNext ==
    /\ JobNext(IF Cardinality(pushed) < 2 THEN MCBuilds ELSE {})
    /\ Steps >= MaxSteps => build' # build

\* Every approval by someone with the role, and those of the run's own change
\* and id by anyone.
MCApproval ==
    {a \in Approval :
        \/ a.security /\ a.independent
        \/ a.subject.of = (IF a.subject.kind = "change"
                           THEN ChangeTo("first") ELSE thisRun.id)}

\* Two releases, the second without one of the first's files, and an edited
\* RECORD.
MCShipped ==
    [first |-> [p \in {"models", "stages"} |-> "first"],
     second |-> [p \in {"models"} |-> "second"]]

MCOtherRecords == {[p \in {"models"} |-> "edited"]}

VARIABLE part  \* the one that runs; the others stay as they begin

MCInit ==
    /\ part \in {"drift check", "build", "approval", "installed", "reading"}
    /\ Init /\ (part # "drift check" => differs = {} /\ ~whole)
    /\ BuildInit /\ (part # "build" => files = {} /\ ~job.server)
    /\ ApprovalInit
    /\ thisRun.id = "this run" /\ thisRun.unit = "api"
    /\ part # "approval" => thisRun.change_type = "iac_change"
                            /\ thisRun.environment = "production"
    /\ DistInit
    /\ part # "installed" => InstalledFrom("first") /\ disk["cache"] = Absent
    /\ ReadingInit
    /\ spec.revision = "again"
    /\ IF part = "reading" THEN spec.desired = 1
       ELSE kind = "deployment" /\ spec.desired = 0

MCNext ==
    \/ /\ part = "drift check" /\ Next
       /\ UNCHANGED <<buildVars, approvalVars, distVars, readingVars>>
    \/ /\ part = "build" /\ MCJobNext
       /\ UNCHANGED <<vars, approvalVars, distVars, readingVars>>
    \/ /\ part = "approval"
       /\ Plan \/ Approve(MCApproval) \/ Evaluate \/ RecordChange
       /\ UNCHANGED <<vars, buildVars, distVars, readingVars>>
    \/ /\ part = "installed" /\ DistNext
       /\ UNCHANGED <<vars, buildVars, approvalVars, readingVars>>
    \/ /\ part = "reading" /\ ReadingNext
       /\ UNCHANGED <<vars, buildVars, approvalVars, distVars>>

MCSpec ==
    /\ MCInit
    /\ [][MCNext /\ UNCHANGED part]_<<vars, buildVars, approvalVars, distVars, readingVars, part>>
=============================================================================
