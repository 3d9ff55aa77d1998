------------------------------ MODULE IacApply ------------------------------
(***************************************************************************)
(* The apply of an infrastructure change, as a document tells it           *)
(* (models/iac/deployment.py, models/iac/markers.py,                       *)
(* models/iac/tools/terraform.py), and the rules a reader holds it to.     *)
(*                                                                         *)
(* A change of the applied plan is known from the apply log, from the      *)
(* state after the apply, or not at all.  The log may lose messages, the   *)
(* state may not be read, and Terraform's log does not tell a current      *)
(* object's delete from a deposed object's at the same address.            *)
(*                                                                         *)
(* Addresses, keys, digests and times are kept by identity or presence;    *)
(* sorting and the one-tool rule are left out, since one tool exists.      *)
(***************************************************************************)
EXTENDS Integers, FiniteSets

CONSTANTS
    None,
    Addresses,  \* of the resources a plan may change
    Keys,       \* of deposed objects at one address
    Documents   \* the documents a reader may be given

VARIABLE document  \* the apply that was read, if any

-----------------------------------------------------------------------------
(* What is unknown, and why: a marker stands where the fact would.         *)

LogIncomplete == "deployment_log_incomplete"
StateNotRead == "state_not_read"
Unknown == {LogIncomplete, StateNotRead}

Operation == {"create", "update", "delete"}
Settled == {"applied", "errored", "not_attempted", "no_operation"}

AllowedOperations ==
    [create  |-> {{"create"}},
     update  |-> {{"update"}},
     delete  |-> {{"delete"}},
     replace |-> {{"create", "delete"}, {"create"}},
     no_op   |-> {{}},
     forget  |-> {{}}]

Action == DOMAIN AllowedOperations
OutcomeSource == {"apply_log", "apply_log_alone", "state", "none"}
FromTheLog == {"apply_log", "apply_log_alone"}
StateSettles == {"create", "delete", "replace"}

\* An unknown "completed" is the marker alone in a set, so that every value
\* of the field is a set.
Completed == (SUBSET Operation) \cup {{m} : m \in Unknown}

AppliedChange ==
    [action : Action, required : SUBSET Operation, from : OutcomeSource,
     completed : Completed, outcome : Settled \cup Unknown,
     moved : BOOLEAN, imported : BOOLEAN]

DeposedOutcome == {"applied", "errored", "not_attempted"} \cup Unknown

\* "null" when Terraform stopped before it reported its counts.
Summary ==
    [kind : {"counts", "null", LogIncomplete},
     added : Nat, changed : Nat, imported : Nat, removed : Nat]

\* damaged and interrupted are counts of log lines; only zero or not matters.
IsApply(a) ==
    /\ a.read \in BOOLEAN  \* the state after the apply was read
    /\ a.from \in {"apply_log", "apply_log_and_state", "apply_log_alone"}
    /\ DOMAIN a.changes \subseteq Addresses
    /\ \A x \in DOMAIN a.changes : a.changes[x] \in AppliedChange
    /\ a.timed \in BOOLEAN
    /\ a.summary \in Summary
    /\ a.damaged \in BOOLEAN /\ a.interrupted \in BOOLEAN
    /\ DOMAIN a.deposed \subseteq Addresses \X Keys
    /\ \A d \in DOMAIN a.deposed : a.deposed[d] \in DeposedOutcome

ASSUME DocumentsAreApplies == None \notin Documents /\ \A a \in Documents : IsApply(a)

-----------------------------------------------------------------------------
(* One change.                                                             *)

IsUnknown(completed) == completed \cap Unknown # {}

\* Neither the log nor the state says how the change ended.
EndUnknown(c) ==
    \/ IsUnknown(c.completed)
    \/ c.required = {} /\ c.outcome \in Unknown

ForWantOfTheState(c) ==
    c.completed = {StateNotRead} \/ c.outcome = StateNotRead

\* Mutant: the log alone may show that what needed no operation was done.
CheckSourceAnyLog(c) ==
    /\ EndUnknown(c) <=> c.from = "none"
    /\ c.from \in FromTheLog => c.outcome \notin Unknown

CheckOutcomeSource(c) ==
    /\ EndUnknown(c) <=> c.from = "none"
    /\ c.from \in FromTheLog => c.outcome \notin Unknown
    /\ c.required = {} => ~IsUnknown(c.completed)
    /\ c.from = "apply_log_alone" => c.required # {}
    /\ c.completed = {LogIncomplete} =>
          c.action = "update" /\ c.outcome = LogIncomplete
    /\ c.required = {} => c.outcome # LogIncomplete
    /\ ForWantOfTheState(c) =>
          /\ c.outcome = StateNotRead
          /\ c.required # {} => /\ c.action \in StateSettles
                                /\ c.completed = {StateNotRead}
    /\ c.from = "state" =>
          /\ c.action \in StateSettles
          /\ c.outcome \notin {"not_attempted", "no_operation"}

CheckCompleted(c) ==
    /\ c.outcome \in Settled =>
          c.outcome \in (IF c.required = {}
                         THEN {"no_operation", "not_attempted"}
                         ELSE {"applied", "errored", "not_attempted"})
    /\ ~IsUnknown(c.completed) =>
          /\ c.completed \subseteq c.required
          /\ c.outcome = "applied" => c.completed = c.required
          /\ c.outcome \in {"not_attempted", "no_operation"} =>
                c.completed = {}

AChangeTheToolCanMake(c) ==
    /\ c.required \in AllowedOperations[c.action]
    /\ CheckOutcomeSource(c)
    /\ CheckCompleted(c)
    /\ c.action = "no_op" => c.moved \/ c.imported
    /\ c.moved => c.action \notin {"create", "delete"}
    /\ c.imported => c.action \in {"no_op", "update"}

\* What left_the_state raises on, and what it answers otherwise.
LeavingRaises(c) ==
    \/ c.outcome = StateNotRead
    \/ c.action \in {"delete", "replace"} /\ IsUnknown(c.completed)

LeftTheState(c) ==
    \/ c.action = "forget" /\ c.outcome = "no_operation"
    \/ /\ c.action \in {"delete", "replace"}
       /\ \/ "delete" \in c.completed
          \/ c.required = {"create"} /\ c.completed = {"create"}

Removal(c) == IF "delete" \in c.required THEN "deleted" ELSE "forgotten"

-----------------------------------------------------------------------------
(* The apply.                                                              *)

Changes(a) == {a.changes[x] : x \in DOMAIN a.changes}
DeposedIn(a, outcomes) == {d \in DOMAIN a.deposed : a.deposed[d] \in outcomes}

Ran(a) ==
    \/ DeposedIn(a, {"applied", "errored"}) # {}
    \/ \E c \in Changes(a) : c.outcome \in {"applied", "errored"}

MaybeRan(a) ==
    \/ DeposedIn(a, Unknown) # {}
    \/ \E c \in Changes(a) : c.required # {} /\ c.outcome \in Unknown

\* A fact only the tool reports is unknown.
ToolOutcomeUnknown(a) ==
    a.summary.kind = LogIncomplete \/ DeposedIn(a, Unknown) # {}

\* Mutant: the marker of a state not read passes beside a state that was.
CheckStateReadLoosely(a) ==
    /\ a.read <=> a.from # "apply_log_alone"
    /\ \A c \in Changes(a) : c.from \in {"apply_log_alone", "none"} \/ a.read

CheckStateRead(a) ==
    IF ~a.read
    THEN /\ a.from = "apply_log_alone"
         /\ \A c \in Changes(a) : c.from \in {"apply_log_alone", "none"}
    ELSE /\ a.from # "apply_log_alone"
         /\ \A c \in Changes(a) : /\ c.from # "apply_log_alone"
                                  /\ c.outcome # StateNotRead
         /\ DeposedIn(a, {StateNotRead}) = {}
         /\ (ToolOutcomeUnknown(a) \/ \E c \in Changes(a) : c.from # "apply_log")
               <=> a.from = "apply_log_and_state"

LostMessages(a) == a.damaged \/ a.interrupted

\* Without the state, the log alone cannot tell a current object's delete
\* from a deposed object's at its address.
Shared(a) == IF a.read THEN {} ELSE {d[1] : d \in DOMAIN a.deposed}

\* Mutant: a delete the log shares with deposed objects is no exception.
LeftToTheStateAll(a) ==
    \/ a.from = "apply_log_and_state"
    \/ a.summary.kind = LogIncomplete
    \/ \E c \in Changes(a) : c.from = "none" /\ c.required # {}

\* Mutant: the unknown counts are not taken for a lost message.
LeftToTheStateByChange(a) ==
    \E c \in Changes(a) : c.from = "none" /\ c.required # {}

LeftToTheState(a) ==
    \/ a.from = "apply_log_and_state"
    \/ a.summary.kind = LogIncomplete
    \/ \E x \in DOMAIN a.changes :
          LET c == a.changes[x] IN
          /\ c.from = "none"
          /\ c.required # {}
          /\ ~(x \in Shared(a) /\ "delete" \in c.required)

\* Mutant: the counts are held to the changes, not to the deposed objects.
CheckSummaryOfChanges(a) ==
    \A c \in Changes(a) :
       c.required # {} \/ c.outcome # StateNotRead =>
          c.outcome \in {"applied", "no_operation"}

\* Terraform reports its counts only when it made every change, and counts
\* by address: a deposed object's delete may be lost behind another change.
CheckSummary(a) ==
    LET applied(op) ==
          Cardinality({x \in DOMAIN a.changes :
                         /\ a.changes[x].outcome = "applied"
                         /\ op \in a.changes[x].required})
        removed == applied("delete")
    IN
    /\ \A c \in Changes(a) :
          c.required # {} \/ c.outcome # StateNotRead =>
             c.outcome \in {"applied", "no_operation"}
    /\ DeposedIn(a, {"errored", "not_attempted", LogIncomplete}) = {}
    /\ a.summary.added = applied("create")
    /\ a.summary.changed = applied("update")
    /\ a.summary.imported =
          Cardinality({x \in DOMAIN a.changes : a.changes[x].imported})
    /\ a.summary.removed \in
          removed .. removed + Cardinality(DeposedIn(a, {"applied", StateNotRead}))

CheckTerraform(a) ==
    /\ LeftToTheState(a) => LostMessages(a)
    /\ LostMessages(a) =>
          ~\E c \in Changes(a) : /\ c.from = "apply_log_alone"
                                 /\ c.outcome = "not_attempted"
                                 /\ c.required # {}
    /\ ~a.read => DeposedIn(a, DeposedOutcome \ {StateNotRead}) = {}
    /\ a.summary.kind = "counts" => CheckSummary(a)

Accepts(a) ==
    /\ \A c \in Changes(a) : AChangeTheToolCanMake(c)
    /\ CheckStateRead(a)
    /\ Ran(a) => a.timed
    /\ a.timed => Ran(a) \/ MaybeRan(a)
    /\ CheckTerraform(a)

-----------------------------------------------------------------------------
(* A reader that is given a document, truthful or not, and reads it when   *)
(* the rules accept it.                                                    *)

Init == document = None

Read(a) ==
    /\ document = None
    /\ Accepts(a)
    /\ document' = a

Next == \E a \in Documents : Read(a)

Spec == Init /\ [][Next]_document

-----------------------------------------------------------------------------
(* Properties.                                                             *)

\* When the state was read, left_the_state answers for every change: the
\* record's check of its identities (change_types/iac/change.py) never meets
\* a change it cannot decide.
LeavingIsKnown ==
    document # None /\ document.read =>
        \A c \in Changes(document) : ~LeavingRaises(c)

\* When the state was read and the log lost nothing, nothing is unknown: not
\* a change, not a deposed object, not the counts.
NothingLostNothingUnknown ==
    document # None /\ document.read /\ ~LostMessages(document) =>
        /\ \A c \in Changes(document) : /\ c.outcome \in Settled
                                        /\ ~IsUnknown(c.completed)
        /\ DeposedIn(document, Unknown) = {}
        /\ document.summary.kind # LogIncomplete

\* An apply whose counts were reported and whose state was read did all it
\* was to do: every operation of every change completed, every change that
\* needed none is done, and every deposed object is gone.
CountedMeansMade ==
    document # None /\ document.summary.kind = "counts" /\ document.read =>
        /\ \A c \in Changes(document) :
              /\ c.completed = c.required
              /\ c.outcome \in {"applied", "no_operation"}
        /\ DeposedIn(document, {"applied"}) = DOMAIN document.deposed

\* Without the state, nothing is claimed that only the state shows: no change
\* without an operation is settled, and no deposed object's delete is.
UnreadClaimsNothingOfTheState ==
    document # None /\ ~document.read =>
        /\ \A c \in Changes(document) :
              c.outcome \in Settled => c.required # {}
        /\ DeposedIn(document, {StateNotRead}) = DOMAIN document.deposed
=============================================================================
