------------------------------- MODULE MCIac -------------------------------
(***************************************************************************)
(* The three parts of a deployment at once: an apply that runs and is      *)
(* written down, identities read beside it, and, apart from both, a reader *)
(* given any document, who has no apply to compare it with.                *)
(***************************************************************************)
EXTENDS IacIdentities

-----------------------------------------------------------------------------
(* Plans: every kind of change, beside other objects.                      *)

P(action, required) ==
    [action |-> action, required |-> required, createFirst |-> FALSE,
     moved |-> FALSE, imported |-> FALSE]
Imported(p) == [p EXCEPT !.imported = TRUE]
CreateFirst(p) == [p EXCEPT !.createFirst = TRUE]

Simple == {P("create", {"create"}), P("update", {"update"}), P("delete", {"delete"})}
EveryPlanned ==
    Simple \cup
    {Imported(P("update", {"update"})), Imported(P("no_op", {})),
     P("forget", {}), P("replace", {"create"}),
     P("replace", {"create", "delete"}),
     CreateFirst(P("replace", {"create", "delete"}))}

\* One address with every kind of change, beside an object of another.
MCPlans ==
    {[changes |-> c, deposed |-> d] :
       c \in [{"x"} -> EveryPlanned] \cup [{"x", "y"} -> Simple]
             \cup {[a \in {"x", "y"} |-> IF a = "x" THEN p ELSE q] :
                     p \in EveryPlanned, q \in Simple},
       d \in SUBSET {<<"x", "k1">>}}
    \cup
    {[changes |-> c, deposed |-> {<<"x", "k1">>, <<"x", "k2">>}] :
       c \in [{"x"} -> EveryPlanned] \cup [{"y"} -> Simple]}

-----------------------------------------------------------------------------
(* Plans and losses beside which any identities are read.                  *)

Leaving ==
    {P("delete", {"delete"}), P("forget", {}),
     P("replace", {"create"}), P("replace", {"create", "delete"}),
     CreateFirst(P("replace", {"create", "delete"}))}
Staying == {P("create", {"create"}), P("update", {"update"})}

IdentityPlans ==
    {[changes |-> c, deposed |-> d] :
       c \in [{"x"} -> Leaving \cup Staying], d \in SUBSET {<<"x", "k1">>}}
    \cup
    {[changes |-> c, deposed |-> {}] :
       c \in {[x |-> p, y |-> P("delete", {"delete"})] : p \in Leaving}}

-----------------------------------------------------------------------------
(* Documents, for the reader.                                              *)

\* Documents of one change and perhaps a deposed object, in every wording;
\* the reader is then asked about those it would read.
Wordings(required) ==
    {[action |-> action, required |-> required, from |-> from,
      completed |-> completed, outcome |-> outcome,
      moved |-> FALSE, imported |-> imported] :
        action \in Action, from \in OutcomeSource,
        completed \in (SUBSET required) \cup {{m} : m \in Unknown},
        outcome \in Settled \cup Unknown, imported \in BOOLEAN}

AnyWording ==
    UNION {Wordings(required) : required \in UNION {AllowedOperations[a] : a \in Action}}

Counts(n) ==
    {[kind |-> "counts", added |-> a, changed |-> c, imported |-> i, removed |-> r] :
       a \in 0..1, c \in 0..1, i \in 0..1, r \in 0..n}
NoCounts(kind) == [kind |-> kind, added |-> 0, changed |-> 0, imported |-> 0, removed |-> 0]

MCDocuments ==
    {a \in [read : BOOLEAN,
            from : {"apply_log", "apply_log_and_state", "apply_log_alone"},
            changes : {[x \in {"x"} |-> c] : c \in {w \in AnyWording : AChangeTheToolCanMake(w)}},
            timed : BOOLEAN,
            summary : Counts(2) \cup {NoCounts("null"), NoCounts(LogIncomplete)},
            damaged : BOOLEAN, interrupted : {FALSE},
            deposed : [{} -> DeposedOutcome] \cup [{<<"x", "k1">>} -> DeposedOutcome]] :
       a.from = "apply_log_alone" <=> ~a.read}

-----------------------------------------------------------------------------
NoPlan == [changes |-> << >>, deposed |-> {}]

ReaderInit ==
    /\ Init
    /\ plan = NoPlan
    /\ fate = << >>
    /\ log = Log({}, {}, 0, "no", 0)
    /\ identity = None

ReaderNext == plan = NoPlan /\ Next /\ UNCHANGED <<plan, fate, log, identity>>

MCInit == IdentInit \/ ReaderInit

MCNext ==
    \/ ReaderNext
    \/ plan # NoPlan /\ RunNext /\ UNCHANGED identity
    \/ plan \in IdentityPlans /\ log.lost <= 1 /\ IdentNext

MCSpec == MCInit /\ [][MCNext]_ivars
=============================================================================
