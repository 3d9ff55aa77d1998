--------------------------- MODULE MCChangeRecord ---------------------------
(***************************************************************************)
(* A small instance of ChangeRecord: one assertion besides the built-in    *)
(* ones, and a few ways a stage may count its work.                        *)
(***************************************************************************)
EXTENDS ChangeRecord

Counted(subjects, evaluated, replaced) ==
    [subjects |-> subjects, unreached |-> 0, evaluated |-> evaluated,
     replaced |-> replaced, truncated |-> FALSE]

OneAssertion == {"a1"}

\* All evaluated with one placeholder, and a stage cut short before it
\* evaluated anything: the worse of the two decides.
MCTallies ==
    {Counted(1, 2, 1),
     [Counted(0, 0, 0) EXCEPT !.truncated = TRUE, !.unreached = 1]}
=============================================================================
