----------------------------- MODULE DriftCheck -----------------------------
(***************************************************************************)
(* The two readings of a unit's resources after an apply                   *)
(* (models/iac/drift_check.py), and the rules that tie them to the apply   *)
(* and to the post-deploy stage (_check_drift_check in                     *)
(* change_types/iac/change.py).                                            *)
(*                                                                         *)
(* Times are written at three precisions: the apply log's and an exact     *)
(* tool's to the finest unit, the evaluator's to the millisecond           *)
(* (canonical/time.py), and a reading's perhaps in whole seconds, from     *)
(* when it started.  A reading takes time: it starts, reads the resources  *)
(* one by one while they may change, and is done.  The pipeline may be     *)
(* careless and start it too early; the reader of the record decides.      *)
(***************************************************************************)
EXTENDS Integers, FiniteSets, Sequences

CONSTANTS
    None,
    Resources,
    UnitsPerSecond, UnitsPerMilli,  \* the finest unit times are kept in
    MinimumInterval,                \* minimum_interval_seconds
    MaxTime                         \* bound on the clock

ASSUME UnitsAssumption ==
    /\ UnitsPerSecond \in Nat \ {0} /\ UnitsPerMilli \in Nat \ {0}
    /\ UnitsPerSecond % UnitsPerMilli = 0
    /\ MinimumInterval \in Nat \ {0}
    /\ MaxTime \in Nat
    /\ None \notin Nat
    /\ IsFiniteSet(Resources)

VARIABLES
    now,        \* the clock every part of the pipeline reads
    apply,      \* when the apply ended, whether its log gave it a time
    observed,   \* when the post-deploy stage was observed
    differs,    \* the resources that now differ from what the apply wrote
    steady,     \* those that have differed ever since the apply ended
    whole,      \* the tool dates a reading in whole seconds
    readings,   \* the readings taken: when each started, and what it saw
    check       \* the drift check the record carries, with its readings

vars == <<now, apply, observed, differs, steady, whole, readings, check>>

-----------------------------------------------------------------------------
(* Written times.                                                          *)

Truncated(t, step) == t - (t % step)

\* A timestamp is its value, and whether its text has a fraction of a second.
Stamp(t, inWholeSeconds) ==
    [value |-> IF inWholeSeconds THEN Truncated(t, UnitsPerSecond) ELSE t,
     fraction |-> ~inWholeSeconds]

Milliseconds(t) == Truncated(t, UnitsPerMilli)

\* Mutant: every reading is compared exactly.
ExactlyNoEarlierThan(reading, event) == reading.value >= event

ReadNoEarlierThan(reading, event) ==
    reading.value >=
        IF reading.fraction THEN event ELSE Truncated(event, UnitsPerSecond)

\* Mutant: two readings may be one right after the other.
NotBackwards(first, second) == second.value >= first.value

Apart(first, second) ==
    second.value - first.value >= MinimumInterval * UnitsPerSecond

-----------------------------------------------------------------------------
(* The check a pipeline writes from two readings, and the reader's rules.  *)

BothDone == Len(readings) = 2 /\ \A i \in {1, 2} : readings[i].done

\* The latest reading says what drifted; what only the first saw is apart.
CheckOf(first, second) ==
    [first |-> Stamp(first.start, whole), second |-> Stamp(second.start, whole),
     read |-> Resources,
     differences |-> second.seen, count |-> Cardinality(second.seen),
     firstOnly |-> first.seen \ second.seen]

Consistent(c) ==
    /\ Apart(c.first, c.second)
    /\ c.count = Cardinality(c.differences)
    /\ c.firstOnly \cap c.differences = {}
    /\ Cardinality(c.differences) + Cardinality(c.firstOnly) <= Cardinality(c.read)

CheckAgainstDeployment(c) ==
    apply.timed => ReadNoEarlierThan(c.first, apply.ended)

\* stageObserved is when the post-verify stage that carries the check was.
CheckDriftCheck(c, stageObserved) ==
    /\ Consistent(c)
    /\ CheckAgainstDeployment(c)
    /\ ReadNoEarlierThan(c.first, Milliseconds(observed))
    /\ c.differences \cup c.firstOnly \subseteq Resources
    /\ Milliseconds(stageObserved) >= c.second.value

-----------------------------------------------------------------------------
Init ==
    /\ now = 0
    /\ apply = [ended |-> None, timed |-> FALSE]
    /\ observed = None
    /\ differs \in SUBSET Resources
    /\ steady = {}
    /\ whole \in BOOLEAN
    /\ readings = <<>>
    /\ check = None

Tick ==
    /\ now < MaxTime
    /\ now' = now + 1
    /\ UNCHANGED <<apply, observed, differs, steady, whole, readings, check>>

\* An apply whose every operation is unknown may have no time.
EndApply ==
    /\ apply.ended = None
    /\ apply' \in [ended : {now}, timed : BOOLEAN]
    /\ differs' = {}
    /\ UNCHANGED <<now, observed, steady, whole, readings, check>>

ObservePostDeploy ==
    /\ apply.ended # None
    /\ observed = None
    /\ observed' = now
    /\ UNCHANGED <<now, apply, differs, steady, whole, readings, check>>

\* Someone changes a resource, or puts it back.
Change(r) ==
    /\ apply.ended # None
    /\ differs' = IF r \in differs THEN differs \ {r} ELSE differs \cup {r}
    /\ steady' = IF r \in differs THEN steady \ {r}
                 ELSE IF now = apply.ended THEN steady \cup {r} ELSE steady
    /\ UNCHANGED <<now, apply, observed, whole, readings, check>>

StartReading ==
    /\ Len(readings) < 2
    /\ \A i \in DOMAIN readings : readings[i].done
    /\ readings' = Append(readings, [start |-> now, left |-> Resources,
                                     seen |-> {}, done |-> FALSE])
    /\ UNCHANGED <<now, apply, observed, differs, steady, whole, check>>

AfterReading(reading, r) ==
    [start |-> reading.start, left |-> reading.left \ {r},
     seen |-> reading.seen \cup ({r} \cap differs), done |-> reading.done]

ReadResource(r) ==
    /\ readings # <<>>
    /\ LET n == Len(readings) IN
       /\ r \in readings[n].left
       /\ readings' = [readings EXCEPT ![n] = AfterReading(@, r)]
    /\ UNCHANGED <<now, apply, observed, differs, steady, whole, check>>

Ended(reading) ==
    [start |-> reading.start, left |-> reading.left, seen |-> reading.seen,
     done |-> TRUE]

\* A reading takes a millisecond at least.
EndReading ==
    /\ readings # <<>>
    /\ LET n == Len(readings) IN
       /\ readings[n].left = {} /\ ~readings[n].done
       /\ now >= readings[n].start + UnitsPerMilli
       /\ readings' = [readings EXCEPT ![n] = Ended(@)]
    /\ UNCHANGED <<now, apply, observed, differs, steady, whole, check>>

TheCheck == CheckOf(readings[1], readings[2])

\* The post-verify stage reports, and the record with it is read.
Report ==
    /\ check = None
    /\ observed # None
    /\ BothDone
    /\ CheckDriftCheck(TheCheck, now)
    /\ check' = TheCheck
    /\ UNCHANGED <<now, apply, observed, differs, steady, whole, readings>>

Next ==
    \/ Tick \/ EndApply \/ ObservePostDeploy
    \/ StartReading \/ EndReading \/ Report
    \/ \E r \in Resources : Change(r) \/ ReadResource(r)

Spec == Init /\ [][Next]_vars

-----------------------------------------------------------------------------
(* Properties.                                                             *)

\* A pipeline that waits, from the post-deploy stage to the first reading's
\* start and then the least interval, is never turned away for the precision
\* its tool dates readings in (read_no_earlier_than).
CarefulIsAccepted ==
    BothDone /\ observed # None /\ check = None
    /\ readings[1].start >= observed
    /\ readings[2].start >= readings[1].start + MinimumInterval * UnitsPerSecond
        => CheckDriftCheck(TheCheck, now)

\* The first reading may have started before the apply ended, in the same
\* second.  The latest, which alone says what drifted, never: it started
\* after the apply ended and after the post-deploy stage was observed.
LatestReadingIsAfter ==
    check # None =>
        readings[2].start > apply.ended /\ readings[2].start > observed

\* A resource that has differed ever since the apply ended is in every check
\* a record carries, so a check without differences is not a reading of what
\* was there before.
SteadyDriftListed == [][check' # check => steady \subseteq check'.differences]_vars
=============================================================================
