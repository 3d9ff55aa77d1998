------------------------------ MODULE ApplyRun ------------------------------
(***************************************************************************)
(* An apply as it happens, and the truthful document about it.             *)
(*                                                                         *)
(* The tool runs the operations of an applied plan, one object at a time   *)
(* in the order a replacement needs, and any of them may fail; it may be   *)
(* killed between any two steps.  Its log may lose messages.  Then the     *)
(* pipeline reads the log, and the state when it can, and writes what they *)
(* show: each change from the log where the log tells, else from the state *)
(* where the state settles it, else as unknown.                            *)
(*                                                                         *)
(* The tool and the pipeline are not in the repository: they are modelled  *)
(* from what the comments of models/iac say of them.  What is the          *)
(* repository's is the rules of IacApply, and here they meet a document    *)
(* that is true.                                                           *)
(***************************************************************************)
EXTENDS IacApply

CONSTANTS
    Plans,   \* the applied plans, from addresses to planned changes
    MaxLost  \* bound on the messages the log loses

VARIABLES
    plan,  \* the planned changes, and the deposed objects to delete
    fate,  \* what has become of each step of the apply
    log    \* the messages the log kept, and how many it lost

vars == <<document, plan, fate, log>>

\* A planned change is one the tool plans, and is not yet told.
IsPlanned(c) ==
    /\ c.action \in Action
    /\ c.required \in AllowedOperations[c.action]
    /\ c.action = "no_op" => c.moved \/ c.imported
    /\ c.moved => c.action \notin {"create", "delete"}
    /\ c.imported => c.action \in {"no_op", "update"}

\* No key is the name of an operation, so that a step is of one object.
ASSUME PlansArePlans ==
    /\ MaxLost \in Nat
    /\ Keys \cap (Operation \cup {"none"}) = {}
    /\ \A p \in Plans :
           /\ IsFiniteSet(DOMAIN p.changes) /\ DOMAIN p.changes \subseteq Addresses
           /\ \A a \in DOMAIN p.changes : IsPlanned(p.changes[a])
           /\ IsFiniteSet(p.deposed) /\ p.deposed \subseteq Addresses \X Keys

-----------------------------------------------------------------------------
(* Steps: an operation on an address, the delete of a deposed object, or   *)
(* what needs no operation.                                                *)

OperationsOf(c) == IF c.required = {} THEN {"none"} ELSE c.required

StepsOf(p) ==
    (UNION {{<<a, op>> : op \in OperationsOf(p.changes[a])} :
                a \in DOMAIN p.changes})
    \cup p.deposed

Steps == StepsOf(plan)

\* The other operation of a replacement, which comes first.
First(s) ==
    {t \in Steps :
       /\ t # s
       /\ t[1] = s[1]
       /\ t[2] = IF plan.changes[s[1]].createFirst THEN "create" ELSE "delete"}

Before(s) == IF s \in plan.deposed THEN {} ELSE First(s)

\* The objects an address had and has: what the state holds, and the cloud.
\* A replacement that only creates forgets its old object.
Had(a) == plan.changes[a].action # "create"
StateHoldsOld(a) ==
    /\ Had(a)
    /\ plan.changes[a].action = "forget" => fate[<<a, "none">>] # "done"
    /\ "delete" \in plan.changes[a].required => fate[<<a, "delete">>] # "done"
    /\ plan.changes[a].required = {"create"} => fate[<<a, "create">>] # "done"
CloudHoldsOld(a) ==
    /\ Had(a)
    /\ "delete" \in plan.changes[a].required => fate[<<a, "delete">>] # "done"
StateHoldsNew(a) ==
    /\ "create" \in plan.changes[a].required
    /\ fate[<<a, "create">>] = "done"

Running == log.end = "no"

-----------------------------------------------------------------------------
(* The apply.                                                              *)

Log(starts, ends, lost, end, removed) ==
    [starts |-> starts, ends |-> ends, lost |-> lost, end |-> end,
     removed |-> removed]

RunInit ==
    /\ Init
    /\ plan \in Plans
    /\ fate = [s \in Steps |-> "waiting"]
    /\ log = Log({}, {}, 0, "no", 0)

\* A message reaches the log, or is one of those the log loses.
Message(starts, ends) ==
    \/ log' = Log(log.starts \cup starts, log.ends \cup ends, log.lost, "no", 0)
    \/ /\ log.lost < MaxLost
       /\ log' = Log(log.starts, log.ends, log.lost + 1, "no", 0)

Start(s) ==
    /\ Running
    /\ fate[s] = "waiting"
    /\ \A t \in Before(s) : fate[t] = "done"
    /\ fate' = [fate EXCEPT ![s] = IF s[2] = "none" THEN "done" ELSE "started"]
    /\ IF s[2] = "none" THEN UNCHANGED log ELSE Message({s}, {})
    /\ UNCHANGED <<document, plan>>

End(s, how) ==
    /\ Running
    /\ fate[s] = "started"
    /\ fate' = [fate EXCEPT ![s] = how]
    /\ Message({}, {s})
    /\ UNCHANGED <<document, plan>>

\* The deletes the tool counts, by address: a deposed object's may be lost
\* behind another change there.
Counted ==
    LET deletes == {s \in Steps : s \in plan.deposed \/ s[2] = "delete"}
        sure == {s \in deletes :
                   \/ s \notin plan.deposed
                   \/ /\ s[1] \notin DOMAIN plan.changes
                      /\ \A t \in plan.deposed : t[1] = s[1] => t = s}
    IN  Cardinality(sure) .. Cardinality(deletes)

\* The tool ends having made every change, and reports its counts.
Complete ==
    /\ Running
    /\ \A s \in Steps : fate[s] = "done"
    /\ \/ \E n \in Counted :
              log' = Log(log.starts, log.ends, log.lost, "counts", n)
       \/ /\ log.lost < MaxLost
          /\ log' = Log(log.starts, log.ends, log.lost + 1, "null", 0)
    /\ UNCHANGED <<document, plan, fate>>

\* The tool stops early: it failed somewhere, or it was killed.
Stop ==
    /\ Running
    /\ \E s \in Steps : fate[s] # "done"
    /\ log' = Log(log.starts, log.ends, log.lost, "null", 0)
    /\ UNCHANGED <<document, plan, fate>>

-----------------------------------------------------------------------------
(* What the pipeline writes.                                               *)

Interrupted == log.starts \ log.ends # {}
Lost == log.lost > 0 \/ Interrupted
StepsAt(a) == {<<a, op>> : op \in plan.changes[a].required}
Named(a) == StepsAt(a) \cap (log.starts \cup log.ends) # {}

\* The log shows that an operation completed: it says so, or says that the
\* one after it started.
LoggedDone(a) ==
    {s \in StepsAt(a) :
       \/ log.end = "counts"
       \/ s \in log.ends /\ fate[s] = "done"
       \/ \E t \in StepsAt(a) : s \in Before(t) /\ t \in log.starts \cup log.ends}

LoggedFailed(a) == \E s \in StepsAt(a) \cap log.ends : fate[s] = "failed"

SharedDelete(a, read) ==
    /\ ~read
    /\ log.end # "counts"
    /\ "delete" \in plan.changes[a].required
    /\ \E d \in plan.deposed : d[1] = a

LogSettles(a, read) ==
    /\ ~SharedDelete(a, read)
    /\ \/ LoggedDone(a) = StepsAt(a)
       \/ LoggedFailed(a)
       \/ ~Lost

Operations(steps) == {s[2] : s \in steps}

StateShows(a) ==
    {op \in plan.changes[a].required :
       \/ op = "create" /\ StateHoldsNew(a)
       \/ op = "delete" /\ ~StateHoldsOld(a)}

\* How a change ended, from the operations known to have completed.
OutcomeOf(a, completed, otherwise) ==
    IF completed = plan.changes[a].required THEN "applied"
    ELSE IF completed # {} \/ Named(a) THEN "errored"
    ELSE otherwise

Told(a, from, completed, outcome) ==
    [action |-> plan.changes[a].action, required |-> plan.changes[a].required,
     moved |-> plan.changes[a].moved, imported |-> plan.changes[a].imported,
     from |-> from, completed |-> completed, outcome |-> outcome]

ChangeTold(a, read) ==
    LET c == plan.changes[a]
        logged == Operations(LoggedDone(a))
    IN
    IF c.required = {}
    THEN IF read
         THEN Told(a, "apply_log", {},
                   IF fate[<<a, "none">>] = "done"
                   THEN "no_operation" ELSE "not_attempted")
         ELSE Told(a, "none", {}, StateNotRead)
    ELSE IF LogSettles(a, read)
    THEN Told(a, IF read THEN "apply_log" ELSE "apply_log_alone",
              logged, OutcomeOf(a, logged, "not_attempted"))
    ELSE IF c.action = "update"
    THEN Told(a, "none", {LogIncomplete}, LogIncomplete)
    ELSE IF read
    THEN Told(a, "state", StateShows(a),
              OutcomeOf(a, StateShows(a), LogIncomplete))
    ELSE Told(a, "none", {StateNotRead}, StateNotRead)

DeposedTold(d, read) ==
    IF ~read THEN StateNotRead
    ELSE IF fate[d] = "done" THEN "applied"
    ELSE IF d \in log.starts \cup log.ends THEN "errored"
    ELSE IF Lost THEN LogIncomplete ELSE "not_attempted"

SummaryTold ==
    LET steps(op) == {a \in DOMAIN plan.changes : op \in plan.changes[a].required}
        imports == {a \in DOMAIN plan.changes : plan.changes[a].imported}
    IN
    IF log.end = "counts"
    THEN [kind |-> "counts", added |-> Cardinality(steps("create")),
          changed |-> Cardinality(steps("update")),
          imported |-> Cardinality(imports), removed |-> log.removed]
    ELSE [kind |-> IF Lost THEN LogIncomplete ELSE "null",
          added |-> 0, changed |-> 0, imported |-> 0, removed |-> 0]

Truthful(read) ==
    LET changes == [a \in DOMAIN plan.changes |-> ChangeTold(a, read)]
        deposed == [d \in plan.deposed |-> DeposedTold(d, read)]
        leftToState ==
            \/ SummaryTold.kind = LogIncomplete
            \/ \E a \in DOMAIN changes : changes[a].from # "apply_log"
            \/ \E d \in DOMAIN deposed : deposed[d] \in Unknown
    IN  [read |-> read,
         from |-> IF ~read THEN "apply_log_alone"
                  ELSE IF leftToState THEN "apply_log_and_state" ELSE "apply_log",
         changes |-> changes,
         timed |-> log.starts \cup log.ends # {},
         summary |-> SummaryTold,
         damaged |-> log.lost > 0, interrupted |-> Interrupted,
         deposed |-> deposed]

Write(read) ==
    /\ ~Running
    /\ document = None
    /\ document' = Truthful(read)
    /\ UNCHANGED <<plan, fate, log>>

RunNext ==
    \/ \E s \in Steps : \/ Start(s)
                        \/ \E how \in {"done", "failed"} : End(s, how)
    \/ Complete
    \/ Stop
    \/ \E read \in BOOLEAN : Write(read)

RunSpec == RunInit /\ [][RunNext]_vars

-----------------------------------------------------------------------------
(* Properties.                                                             *)

\* A document about this apply, which ended before it was written.
Written == document # None /\ ~Running

\* The writer has the time of some operation, unless it lost every message
\* about any: the one case in which the reader's rule that an apply has a
\* time when an operation ran asks for what nobody has.
TimeKept == log.starts \cup log.ends # {} \/ ~Ran(document)

\* The rules never turn a true document away: whatever failed, wherever the
\* tool was killed, whichever messages the log lost, and whether or not the
\* state was read, what the pipeline honestly knows is a document the reader
\* reads (Apply._one_story and every check it calls).
TruthAccepted == Written /\ TimeKept => Accepts(document)

\* What left_the_state and removal say of a change is what became of the
\* object: it is no longer in the state, and it is gone from the cloud or
\* still there.
LeftIsTrue ==
    Written /\ document.read =>
        \A a \in DOMAIN document.changes :
            LET c == document.changes[a] IN
            /\ LeftTheState(c) <=> Had(a) /\ ~StateHoldsOld(a)
            /\ LeftTheState(c) =>
                  (Removal(c) = "deleted" <=> ~CloudHoldsOld(a))
=============================================================================
