--------------------------- MODULE VerdictLadder ---------------------------
(***************************************************************************)
(* What a record's verdict promises while its stages report (coverage.py,  *)
(* lines 1-7): it is one step of a ladder that is only ever climbed down.  *)
(* Each stage is folded into the verdict so far; no later stage cures what *)
(* an earlier one found, and none is needed again to know the verdict.     *)
(***************************************************************************)
EXTENDS Coverage

VARIABLE verdict  \* None, or the exit code and the reason of incompleteness

Init == verdict = None

\* A later reason replaces an earlier one only with an evaluator error, or
\* when it belongs to an earlier stage.
FoldedReason(found, new) ==
    IF EvaluatorError \in {found, new} THEN {EvaluatorError}
    ELSE IF found = None THEN {new}
    ELSE IF new = None THEN {found}
    ELSE {found, new}

Fold(code, reason) ==
    \/ /\ verdict = None
       /\ verdict' = [code |-> code, reason |-> reason]
    \/ /\ verdict # None
       /\ \E told \in FoldedReason(verdict.reason, reason) :
             verdict' = [code   |-> Leading({verdict.code, code}),
                         reason |-> told]

Next == \E code \in StageCode, reason \in Reason \cup {None} : Fold(code, reason)

Spec == Init /\ [][Next]_verdict
=============================================================================
