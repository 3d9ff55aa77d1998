------------------------ MODULE MCVerificationReport ------------------------
(***************************************************************************)
(* A small instance of VerificationReport: no assertion besides the        *)
(* built-in ones, and stages that count nothing as left undone.            *)
(***************************************************************************)
EXTENDS VerificationReport

MCTallies ==
    {[subjects |-> 1, unreached |-> 0, evaluated |-> 1, replaced |-> 0,
      truncated |-> FALSE]}
=============================================================================
