------------------------------ MODULE Coverage ------------------------------
(***************************************************************************)
(* What a verdict is read against (models/coverage.py): a stage's own      *)
(* counts give its exit code and the reason its evidence is incomplete,    *)
(* and one rule combines the stages of a record into the record's own.     *)
(*                                                                         *)
(* A coverage keeps the counts the rule reads: the subjects evaluated, the *)
(* assertions owed and evaluated, the evaluations by status, the gaps that *)
(* weigh on a verdict or its reason, whether it was cut short, and how     *)
(* many inputs were replaced with placeholders.                            *)
(***************************************************************************)
EXTENDS Integers, Sequences, FiniteSets

CONSTANTS
    MaxReplaced,  \* MAX_SUBSTITUTED_INPUTS, over all stages of a record
    None          \* no reason, no verdict yet

Stage == {"plan", "pre_deploy", "post_deploy", "post_verify"}
Place == [plan |-> 1, pre_deploy |-> 2, post_deploy |-> 3, post_verify |-> 4]

Status == {"pass", "fail", "unknown", "not_applicable", "not_evaluated", "error"}

\* The gaps a verdict or its reason depends on.
Gap == {"plan_incomplete", "state_not_read"}

CoverageOf ==
    [subjects : Nat, owed : Nat, evaluated : Nat, counts : [Status -> Nat],
     gaps : SUBSET Gap, truncated : BOOLEAN, replaced : Nat]

(***************************************************************************)
(* Exit codes, from the one that wins to the one that loses.               *)
(***************************************************************************)
VerdictPrecedence == <<2, 5, 9, 10, 7, 8, 6, 4, 3, 1, 0>>

Rank(code) == CHOOSE i \in DOMAIN VerdictPrecedence : VerdictPrecedence[i] = code

\* The codes a stage's counts can call for.
StageCode == {6, 4, 3, 1, 0}

Leading(codes) == CHOOSE c \in codes : \A d \in codes : Rank(c) <= Rank(d)

(***************************************************************************)
(* One stage.                                                              *)
(***************************************************************************)
MissedButState(coverage) ==  \* mutant: a state not read is no gap
    \/ coverage.owed = 0
    \/ coverage.subjects = 0
    \/ coverage.evaluated < coverage.owed
    \/ coverage.counts["not_evaluated"] > 0
    \/ coverage.truncated

\* Something the stage owed was not attempted.
Missed(coverage) ==
    \/ coverage.owed = 0
    \/ coverage.subjects = 0
    \/ coverage.evaluated < coverage.owed
    \/ coverage.counts["not_evaluated"] > 0
    \/ coverage.truncated
    \/ "state_not_read" \in coverage.gaps

StageCodes(coverage) ==
    {c \in StageCode :
        \/ c = 0
        \/ c = 6 /\ Missed(coverage)
        \/ c = 4 /\ coverage.counts["error"] > 0
        \/ c = 3 /\ coverage.counts["unknown"] > 0
        \/ c = 1 /\ coverage.counts["fail"] > 0}

EvaluatorError == "required_policy_evaluation_failed"

Reason == {EvaluatorError, "state_not_read", "plan_not_complete",
           "upstream_state_unavailable"}

ASSUME CoverageAssumption ==
    /\ MaxReplaced \in Nat
    /\ None \notin Reason \cup Stage
    /\ None \notin [code : StageCode, reason : Reason \cup {None}]
    /\ None \notin [code : StageCode, stage : Stage, reason : Reason \cup {None}]

\* The leading cause: each outranks the ones after it.
StageReason(coverage) ==
    IF coverage.counts["error"] > 0 THEN EvaluatorError
    ELSE IF "state_not_read" \in coverage.gaps THEN "state_not_read"
    ELSE IF "plan_incomplete" \in coverage.gaps THEN "plan_not_complete"
    ELSE IF coverage.replaced > 0 THEN "upstream_state_unavailable"
    ELSE None

StageOutcome(coverage) ==
    [code |-> Leading(StageCodes(coverage)), reason |-> StageReason(coverage)]

(***************************************************************************)
(* The stages of a record.  `stages` gives each reported stage a record    *)
(* with its `coverage`, its `code` and its `reason`.                       *)
(***************************************************************************)
First(S) == CHOOSE s \in S : \A t \in S : Place[s] <= Place[t]

WinnerFirst(stages) == First(DOMAIN stages)  \* mutant: the first stage's verdict
WinnerLast(stages) ==  \* mutant: the last stage's verdict
    CHOOSE s \in DOMAIN stages : \A t \in DOMAIN stages : Place[t] <= Place[s]

\* The stage whose verdict wins, the first of those that tie.
Winner(stages) ==
    CHOOSE s \in DOMAIN stages : \A t \in DOMAIN stages :
        \/ Rank(stages[s].code) < Rank(stages[t].code)
        \/ Rank(stages[s].code) = Rank(stages[t].code) /\ Place[s] <= Place[t]

IncompleteButUpstream(stages) ==  \* mutant: placeholders do not count
    {s \in DOMAIN stages :
        stages[s].reason \notin {None, "upstream_state_unavailable"}}
Incomplete(stages) == {s \in DOMAIN stages : stages[s].reason # None}
InError(stages) == {s \in DOMAIN stages : stages[s].reason = EvaluatorError}

FirstReason(stages) ==  \* mutant: an evaluator error has no precedence
    IF Incomplete(stages) # {} THEN stages[First(Incomplete(stages))].reason
    ELSE None

CombinedReason(stages) ==
    IF InError(stages) # {} THEN EvaluatorError
    ELSE IF Incomplete(stages) # {} THEN stages[First(Incomplete(stages))].reason
    ELSE None

\* The stages with one more of them.
With(stages, s, new) ==
    [t \in DOMAIN stages \cup {s} |-> IF t = s THEN new ELSE stages[t]]

\* The sum of what the stages counted; one that did not report adds nothing.
Total(counts) ==
    LET At(s) == IF s \in DOMAIN counts THEN counts[s] ELSE 0
    IN  At("plan") + At("pre_deploy") + At("post_deploy") + At("post_verify")

Replaced(stages) == Total([s \in DOMAIN stages |-> stages[s].coverage.replaced])

\* The stages' counts put together; the subjects are the first stage's.
CombinedCoverage(stages) ==
    LET Of(s) == stages[s].coverage IN
    [subjects  |-> Of(First(DOMAIN stages)).subjects,
     owed      |-> Total([s \in DOMAIN stages |-> Of(s).owed]),
     evaluated |-> Total([s \in DOMAIN stages |-> Of(s).evaluated]),
     counts    |-> [st \in Status |-> Total([s \in DOMAIN stages |-> Of(s).counts[st]])],
     gaps      |-> UNION {Of(s).gaps : s \in DOMAIN stages},
     truncated |-> \E s \in DOMAIN stages : Of(s).truncated,
     replaced  |-> Replaced(stages)]

CombinedOfSums(stages) ==  \* mutant: the verdict is counted again from the sums
    [code   |-> Leading(StageCodes(CombinedCoverage(stages))),
     stage  |-> Winner(stages),
     reason |-> CombinedReason(stages)]

Combined(stages) ==
    [code   |-> stages[Winner(stages)].code,
     stage  |-> Winner(stages),
     reason |-> CombinedReason(stages)]

\* Stages that one record can hold.  Their scopes, which the activity fixes,
\* and the disjointness of their assertions are the record's own rules.
Combinable(stages) ==
    /\ DOMAIN stages # {}
    /\ Replaced(stages) <= MaxReplaced
=============================================================================
