----------------------------- MODULE IacProofs ------------------------------
(***************************************************************************)
(* The deployment of an infrastructure change. First, what the rules leave *)
(* a reader who knows nothing of an apply but its document, true or not:   *)
(* for any documents. Then, what they make of a true document of an apply  *)
(* that may have failed or been killed anywhere, with any messages lost,   *)
(* and of the identities read beside it: for any plans, of any number of   *)
(* changes and deposed objects.                                            *)
(***************************************************************************)
EXTENDS IacIdentities, FiniteSetTheorems, TLAPS

(***************************************************************************)
(* A reader of any documents.                                              *)
(***************************************************************************)
\* The apply that was read is one the rules accept.
ReaderInv ==
    document = None \/ (IsApply(document) /\ Accepts(document))

\* A reader reads nothing but what the rules accept.
LEMMA ReaderReads == Spec => []ReaderInv
  <1>1. Init => ReaderInv
    BY DEF Init, ReaderInv
  <1>2. ReaderInv /\ [Next]_document => ReaderInv'
    BY DocumentsAreApplies DEF Next, Read, ReaderInv
  <1> QED
    BY <1>1, <1>2, PTL DEF Spec

\* A change's operations are unknown only with its outcome: for want of a
\* message, when it is an update, or for want of the state.
LEMMA UnknownOperations ==
    ASSUME NEW c \in AppliedChange, CheckOutcomeSource(c),
           IsUnknown(c.completed)
    PROVE  \/ c.outcome = StateNotRead
           \/ c.action = "update" /\ c.outcome = LogIncomplete
  <1>1. c.completed = {LogIncomplete} \/ c.completed = {StateNotRead}
    BY DEF AppliedChange, Completed, Operation, IsUnknown, Unknown,
           LogIncomplete, StateNotRead
  <1>2. CASE c.completed = {LogIncomplete}
    BY <1>2 DEF CheckOutcomeSource
  <1>3. CASE c.completed = {StateNotRead}
    BY <1>3 DEF CheckOutcomeSource, ForWantOfTheState
  <1> QED
    BY <1>1, <1>2, <1>3

\* An outcome is settled or unknown, never both.
LEMMA SettledIsNotUnknown == Settled \cap Unknown = {}
  BY DEF Settled, Unknown, LogIncomplete, StateNotRead

\* Every change of an accepted apply is one the tool can make; with the state
\* read, none is unknown for want of it.
LEMMA AcceptedChanges ==
    ASSUME NEW a, IsApply(a), Accepts(a), NEW c \in Changes(a)
    PROVE  /\ c \in AppliedChange
           /\ CheckOutcomeSource(c) /\ CheckCompleted(c)
           /\ a.read => c.outcome # StateNotRead
           /\ ~a.read => c.from \in {"apply_log_alone", "none"}
  BY DEF IsApply, Accepts, Changes, AChangeTheToolCanMake, CheckStateRead

\* A deposed object of no outcome but those of a set has one of the others.
LEMMA DeposedOtherwise ==
    ASSUME NEW a, IsApply(a), NEW outcomes, DeposedIn(a, outcomes) = {},
           NEW others, DeposedOutcome \subseteq outcomes \cup others
    PROVE  DeposedIn(a, others) = DOMAIN a.deposed
  <1>1. \A d \in DOMAIN a.deposed :
            a.deposed[d] \in DeposedOutcome /\ a.deposed[d] \notin outcomes
    BY DEF IsApply, DeposedIn
  <1> QED
    BY <1>1 DEF DeposedIn

\* With the state read, left_the_state answers for every change.
LEMMA KnownLeaving == ReaderInv => LeavingIsKnown
  <1> SUFFICES ASSUME IsApply(document), Accepts(document), document.read,
                      NEW c \in Changes(document)
               PROVE  ~LeavingRaises(c)
    BY DEF ReaderInv, LeavingIsKnown
  <1>1. c \in AppliedChange /\ CheckOutcomeSource(c)
    BY AcceptedChanges
  <1>2. c.outcome # StateNotRead
    BY AcceptedChanges
  <1>3. IsUnknown(c.completed) => c.action = "update"
    BY <1>1, <1>2, UnknownOperations
  <1> QED
    BY <1>2, <1>3 DEF LeavingRaises

\* What is unknown beside a state that was read is left to it, and then the
\* log must have lost something.
LEMMA NothingUnknown == ReaderInv => NothingLostNothingUnknown
  <1> SUFFICES ASSUME IsApply(document), Accepts(document), document.read,
                      ~LostMessages(document)
               PROVE  /\ \A c \in Changes(document) :
                             c.outcome \in Settled /\ ~IsUnknown(c.completed)
                      /\ DeposedIn(document, Unknown) = {}
                      /\ document.summary.kind # LogIncomplete
    BY DEF ReaderInv, NothingLostNothingUnknown
  <1>1. /\ document.from # "apply_log_and_state"
        /\ document.summary.kind # LogIncomplete
    BY DEF Accepts, CheckTerraform, LeftToTheState
  <1>2. /\ ~ToolOutcomeUnknown(document)
        /\ \A c \in Changes(document) : c.from = "apply_log"
    BY <1>1 DEF Accepts, CheckStateRead
  <1>3. ASSUME NEW c \in Changes(document)
        PROVE  c.outcome \in Settled /\ ~IsUnknown(c.completed)
    <2>1. c \in AppliedChange /\ CheckOutcomeSource(c) /\ c.from = "apply_log"
      BY <1>2, AcceptedChanges
    <2>2. ~EndUnknown(c) /\ c.outcome \notin Unknown
      BY <2>1 DEF CheckOutcomeSource, FromTheLog
    <2> QED
      BY <2>1, <2>2 DEF EndUnknown, AppliedChange
  <1> QED
    BY <1>1, <1>2, <1>3 DEF ToolOutcomeUnknown

\* Terraform counts only when it made everything; beside a state that was
\* read, what was made is no longer unknown.
LEMMA MadeWhenCounted == ReaderInv => CountedMeansMade
  <1> SUFFICES ASSUME IsApply(document), Accepts(document), document.read,
                      document.summary.kind = "counts"
               PROVE  /\ \A c \in Changes(document) :
                             /\ c.completed = c.required
                             /\ c.outcome \in {"applied", "no_operation"}
                      /\ DeposedIn(document, {"applied"})
                             = DOMAIN document.deposed
    BY DEF ReaderInv, CountedMeansMade
  <1>1. /\ \A c \in Changes(document) :
               c.outcome # StateNotRead =>
                   c.outcome \in {"applied", "no_operation"}
        /\ DeposedIn(document, {"errored", "not_attempted", LogIncomplete}) = {}
    BY DEF Accepts, CheckTerraform, CheckSummary
  <1>2. ASSUME NEW c \in Changes(document)
        PROVE  /\ c.completed = c.required
               /\ c.outcome \in {"applied", "no_operation"}
    <2>1. /\ c \in AppliedChange
          /\ CheckOutcomeSource(c) /\ CheckCompleted(c)
      BY AcceptedChanges
    <2>2. c.outcome \in {"applied", "no_operation"}
      BY <1>1, AcceptedChanges
    <2>3. ~IsUnknown(c.completed)
      BY <2>1, <2>2, UnknownOperations DEF StateNotRead, LogIncomplete
    <2>4. CASE c.outcome = "applied"
      BY <2>1, <2>3, <2>4 DEF CheckCompleted
    <2>5. CASE c.outcome = "no_operation"
      <3>1. c.required = {} /\ c.completed = {}
        BY <2>1, <2>3, <2>5 DEF CheckCompleted, Settled
      <3> QED
        BY <2>5, <3>1
    <2> QED
      BY <2>2, <2>4, <2>5
  <1>3. DeposedIn(document, {StateNotRead}) = {}
    BY DEF Accepts, CheckStateRead
  <1>4. DeposedIn(document,
                  {"errored", "not_attempted", LogIncomplete, StateNotRead}) = {}
    BY <1>1, <1>3 DEF DeposedIn
  <1>5. DeposedIn(document, {"applied"}) = DOMAIN document.deposed
    BY <1>4, DeposedOtherwise DEF DeposedOutcome, Unknown
  <1> QED
    BY <1>2, <1>5

\* The log alone settles only what has an operation, and no deposed object.
LEMMA UnreadIsSilent == ReaderInv => UnreadClaimsNothingOfTheState
  <1> SUFFICES ASSUME IsApply(document), Accepts(document), ~document.read
               PROVE  /\ \A c \in Changes(document) :
                             c.outcome \in Settled => c.required # {}
                      /\ DeposedIn(document, {StateNotRead})
                             = DOMAIN document.deposed
    BY DEF ReaderInv, UnreadClaimsNothingOfTheState
  <1>1. ASSUME NEW c \in Changes(document), c.outcome \in Settled
        PROVE  c.required # {}
    <2>1. CheckOutcomeSource(c) /\ c.from \in {"apply_log_alone", "none"}
      BY AcceptedChanges
    <2>2. c.outcome \notin Unknown
      BY <1>1, SettledIsNotUnknown
    <2>3. CASE c.from = "apply_log_alone"
      BY <2>1, <2>3 DEF CheckOutcomeSource
    <2>4. CASE c.from = "none"
      BY <2>1, <2>2, <2>4 DEF CheckOutcomeSource, EndUnknown
    <2> QED
      BY <2>1, <2>3, <2>4
  <1>2. DeposedIn(document, DeposedOutcome \ {StateNotRead}) = {}
    BY DEF Accepts, CheckTerraform
  <1>3. DeposedIn(document, {StateNotRead}) = DOMAIN document.deposed
    BY <1>2, DeposedOtherwise
  <1> QED
    BY <1>1, <1>3

\* With the state read, left_the_state answers for every change of an
\* accepted document: the check of identities never meets one it cannot
\* decide (models/iac/deployment.py left_the_state).
THEOREM LeavingAlwaysKnown == Spec => []LeavingIsKnown
  BY ReaderReads, KnownLeaving, PTL

\* With the state read and nothing lost, nothing of an accepted document is
\* unknown (models/iac/tools/terraform.py).
THEOREM NothingLeftUnknown == Spec => []NothingLostNothingUnknown
  BY ReaderReads, NothingUnknown, PTL

\* An accepted document with counts and the state says that everything was
\* made (models/iac/tools/terraform.py).
THEOREM CountsMeanMade == Spec => []CountedMeansMade
  BY ReaderReads, MadeWhenCounted, PTL

\* An accepted document without the state claims nothing that only the state
\* shows (models/iac/deployment.py).
THEOREM UnreadStaysSilent == Spec => []UnreadClaimsNothingOfTheState
  BY ReaderReads, UnreadIsSilent, PTL

(***************************************************************************)
(* An apply, its log and its true document. The invariant ties the log to  *)
(* the run: it tells only what happened; when it lost nothing, all that    *)
(* ended; and it counts only when everything was made. And an operation that *)
(* began had what comes before it done, or the log of a replacement could  *)
(* not show how it ended.                                                  *)
(***************************************************************************)
Fates == {"waiting", "started", "done", "failed"}

\* The operations that ended. A step without an operation sends no message.
Ended == {s \in Steps : s[2] # "none" /\ fate[s] \in {"done", "failed"}}

\* The log tells only what happened, and all that ended when it lost nothing.
LogIsOfTheRun ==
    /\ log.lost \in Nat
    /\ log.starts \subseteq {s \in Steps : s[2] # "none" /\ fate[s] # "waiting"}
    /\ log.ends \subseteq Ended
    /\ log.lost = 0 => Ended \subseteq log.ends
    /\ log.end = "counts" =>
           (\A s \in Steps : fate[s] = "done") /\ log.removed \in Counted

RunInv ==
    /\ plan \in Plans
    /\ fate \in [Steps -> Fates]
    /\ \A s \in Steps : s[2] = "none" => fate[s] \in {"waiting", "done"}
    /\ \A s \in Steps :
           fate[s] # "waiting" => \A t \in Before(s) : fate[t] = "done"
    /\ LogIsOfTheRun
    /\ document = None \/ (~Running /\ \E read \in BOOLEAN : document = Truthful(read))

\* A read identity is one the reader may read beside the document there is.
IdentityInv ==
    identity # None =>
        /\ Written
        /\ HoldsTogether(identity) /\ CheckIdentity(identity, document)

LEMMA LogReads ==
    ASSUME NEW starts, NEW ends, NEW lost, NEW end, NEW removed, NEW l,
           l = Log(starts, ends, lost, end, removed)
    PROVE  /\ l.starts = starts /\ l.ends = ends /\ l.lost = lost
           /\ l.end = end /\ l.removed = removed
  BY DEF Log

\* What is told of an unchanged run is unchanged: of a change or a deposed
\* object, of the counts, and of the apply.
LEMMA SameTold ==
    ASSUME UNCHANGED <<plan, fate, log>>
    PROVE  /\ \A a, read : ChangeTold(a, read)' = ChangeTold(a, read)
           /\ \A d, read : DeposedTold(d, read)' = DeposedTold(d, read)
           /\ Lost' = Lost
  <1>1. \A a : UNCHANGED StepsAt(a)
    BY DEF StepsAt
  <1>2. UNCHANGED Steps
    BY DEF Steps, StepsOf
  <1>3. \A s : UNCHANGED Before(s)
    BY <1>2 DEF Before, First
  <1>4. \A a : UNCHANGED LoggedDone(a)
    BY <1>1, <1>3 DEF LoggedDone
  <1>5. \A a : UNCHANGED LoggedFailed(a) /\ UNCHANGED Named(a)
    BY <1>1 DEF LoggedFailed, Named
  <1>6. Lost' = Lost
    BY DEF Lost, Interrupted
  <1>7. \A a, read : UNCHANGED LogSettles(a, read)
    BY <1>1, <1>4, <1>5, <1>6 DEF LogSettles, SharedDelete
  <1>8. \A a : UNCHANGED StateShows(a)
    BY DEF StateShows, StateHoldsNew, StateHoldsOld, Had
  <1>9. \A a, x, y : UNCHANGED OutcomeOf(a, x, y)
    BY <1>5 DEF OutcomeOf
  <1>10. \A a, w, x, y : UNCHANGED Told(a, w, x, y)
    BY DEF Told
  <1>11. \A a, read : UNCHANGED ChangeTold(a, read)
    BY <1>4, <1>7, <1>8, <1>9, <1>10 DEF ChangeTold
  <1>12. \A d, read : UNCHANGED DeposedTold(d, read)
    BY <1>6 DEF DeposedTold
  <1> QED
    BY <1>6, <1>11, <1>12

LEMMA SameSummary ==
    ASSUME UNCHANGED <<plan, fate, log>>
    PROVE  SummaryTold' = SummaryTold
  BY SameTold DEF SummaryTold

\* What is told of an unchanged run is unchanged.
LEMMA SameRun ==
    ASSUME UNCHANGED <<plan, fate, log>>
    PROVE  /\ UNCHANGED <<Steps, Ended, Counted>>
           /\ Running' = Running
           /\ \A s : Before(s)' = Before(s)
           /\ \A read : Truthful(read)' = Truthful(read)
  <1>1. UNCHANGED Steps
    BY DEF Steps, StepsOf
  <1>2. UNCHANGED Ended
    BY <1>1 DEF Ended
  <1>3. UNCHANGED Counted
    BY <1>1 DEF Counted
  <1>4. Running' = Running
    BY DEF Running
  <1>5. \A s : Before(s)' = Before(s)
    BY <1>1 DEF Before, First
  <1>6. \A read : Truthful(read)' = Truthful(read)
    BY SameTold, SameSummary, ZenonT(60) DEF Truthful, Interrupted
  <1>7. UNCHANGED <<Steps, Ended, Counted>>
    BY <1>1, <1>2, <1>3
  <1> QED
    BY <1>4, <1>5, <1>6, <1>7

LEMMA NothingRun == RunInit => RunInv
  BY LogReads DEF RunInit, Init, RunInv, LogIsOfTheRun, Ended, Fates, Running

\* The parts of the invariant other than the document are kept by a step that
\* keeps the plan: what stays the same with it.
LEMMA PlanKeepsSteps ==
    ASSUME plan' = plan
    PROVE  Steps' = Steps /\ Counted' = Counted /\ \A s : Before(s)' = Before(s)
  <1>1. Steps' = Steps
    BY DEF Steps, StepsOf
  <1>2. \A s : Before(s)' = Before(s)
    BY <1>1 DEF Before, First
  <1>3. Counted' = Counted
    BY <1>1 DEF Counted
  <1> QED
    BY <1>1, <1>2, <1>3

\* A step starts, or what needs no operation is done.
LEMMA StartKeeps ==
    ASSUME RunInv, NEW s \in Steps, Start(s)
    PROVE  RunInv'
  <1>1. /\ log.end = "no" /\ fate[s] = "waiting"
        /\ \A t \in Before(s) : fate[t] = "done"
        /\ fate' = [fate EXCEPT ![s] = IF s[2] = "none" THEN "done" ELSE "started"]
        /\ document' = document /\ plan' = plan /\ document = None
    BY DEF Start, Running, RunInv
  <1>2. Steps' = Steps /\ Counted' = Counted /\ \A t : Before(t)' = Before(t)
    BY <1>1, PlanKeepsSteps
  <1>3. /\ fate' \in [Steps -> Fates]
        /\ fate'[s] = IF s[2] = "none" THEN "done" ELSE "started"
        /\ \A t \in Steps : t # s => fate'[t] = fate[t]
    BY <1>1 DEF RunInv, Fates
  <1>4. Ended' = Ended
    BY <1>1, <1>2, <1>3 DEF Ended
  <1>5. \A t \in Steps : fate[t] = "done" => fate'[t] = "done"
    BY <1>1, <1>3
  <1>6. \A t \in Steps :
            fate'[t] # "waiting" => \A u \in Before(t) : fate'[u] = "done"
    <2>1. \A t \in Steps : Before(t) \subseteq Steps
      BY DEF Before, First
    <2> QED
      BY <1>1, <1>3, <1>5, <2>1 DEF RunInv
  <1>old. /\ log.lost \in Nat /\ log.ends \subseteq Ended
          /\ log.lost = 0 => Ended \subseteq log.ends
          /\ \A t \in log.starts :
                 t \in Steps /\ t[2] # "none" /\ fate[t] # "waiting"
    BY DEF RunInv, LogIsOfTheRun
  <1>begun. \A t \in Steps : fate[t] # "waiting" => fate'[t] # "waiting"
    BY <1>1, <1>3
  <1>7. LogIsOfTheRun'
    <2>1. CASE s[2] = "none"
      <3>1. log' = log
        BY <2>1 DEF Start
      <3>2. \A t \in log'.starts :
                t \in Steps /\ t[2] # "none" /\ fate'[t] # "waiting"
        BY <1>old, <1>begun, <3>1
      <3> QED
        BY <1>1, <1>2, <1>4, <1>old, <3>1, <3>2 DEF LogIsOfTheRun
    <2>2. CASE s[2] # "none" /\ log' = Log(log.starts \cup {s}, log.ends \cup {},
                                         log.lost, "no", 0)
      <3>1. /\ log'.starts = log.starts \cup {s} /\ log'.ends = log.ends
            /\ log'.lost = log.lost /\ log'.end = "no"
        BY <2>2, LogReads
      <3>2. \A t \in log'.starts :
                t \in Steps /\ t[2] # "none" /\ fate'[t] # "waiting"
        BY <1>3, <1>old, <1>begun, <2>2, <3>1
      <3> QED
        BY <1>2, <1>4, <1>old, <3>1, <3>2 DEF LogIsOfTheRun
    <2>3. CASE s[2] # "none" /\ log' = Log(log.starts, log.ends, log.lost + 1,
                                         "no", 0)
      <3>1. /\ log'.starts = log.starts /\ log'.ends = log.ends
            /\ log'.lost = log.lost + 1 /\ log'.end = "no"
        BY <2>3, LogReads
      <3>2. \A t \in log'.starts :
                t \in Steps /\ t[2] # "none" /\ fate'[t] # "waiting"
        BY <1>old, <1>begun, <3>1
      <3> QED
        BY <1>2, <1>4, <1>old, <3>1, <3>2 DEF LogIsOfTheRun
    <2> QED
      BY <2>1, <2>2, <2>3 DEF Start, Message
  <1> QED
    BY <1>1, <1>2, <1>3, <1>6, <1>7 DEF RunInv

\* A step ends, well or not.
LEMMA EndKeeps ==
    ASSUME RunInv, NEW s \in Steps, NEW how \in {"done", "failed"}, End(s, how)
    PROVE  RunInv'
  <1>1. /\ log.end = "no" /\ fate[s] = "started" /\ s[2] # "none"
        /\ fate' = [fate EXCEPT ![s] = how]
        /\ document' = document /\ plan' = plan /\ document = None
    BY DEF End, Running, RunInv
  <1>2. Steps' = Steps /\ Counted' = Counted /\ \A t : Before(t)' = Before(t)
    BY <1>1, PlanKeepsSteps
  <1>3. /\ fate' \in [Steps -> Fates] /\ fate'[s] = how
        /\ \A t \in Steps : t # s => fate'[t] = fate[t]
    BY <1>1 DEF RunInv, Fates
  <1>4. /\ Ended \subseteq Ended' /\ Ended' \subseteq Ended \cup {s}
        /\ s[2] # "none" => s \in Ended'
    BY <1>1, <1>2, <1>3 DEF Ended
  <1>5. \A t \in Steps : fate[t] = "done" => fate'[t] = "done"
    BY <1>1, <1>3
  <1>6. \A t \in Steps :
            fate'[t] # "waiting" => \A u \in Before(t) : fate'[u] = "done"
    <2>1. \A t \in Steps : Before(t) \subseteq Steps
      BY DEF Before, First
    <2>2. \A t \in Steps : fate'[t] # "waiting" => fate[t] # "waiting"
      BY <1>1, <1>3
    <2> QED
      BY <1>5, <2>1, <2>2 DEF RunInv
  <1>old. /\ log.lost \in Nat /\ log.ends \subseteq Ended
          /\ log.lost = 0 => Ended \subseteq log.ends
          /\ \A t \in log.starts :
                 t \in Steps /\ t[2] # "none" /\ fate[t] # "waiting"
    BY DEF RunInv, LogIsOfTheRun
  <1>begun. \A t \in Steps : fate[t] # "waiting" => fate'[t] # "waiting"
    BY <1>1, <1>3
  <1>7. LogIsOfTheRun'
    <2>1. CASE log' = Log(log.starts \cup {}, log.ends \cup {s}, log.lost, "no", 0)
      <3>1. /\ log'.starts = log.starts /\ log'.ends = log.ends \cup {s}
            /\ log'.lost = log.lost /\ log'.end = "no"
        BY <2>1, LogReads
      <3>2. \A t \in log'.starts :
                t \in Steps /\ t[2] # "none" /\ fate'[t] # "waiting"
        BY <1>old, <1>begun, <3>1
      <3> QED
        BY <1>1, <1>2, <1>4, <1>old, <3>1, <3>2 DEF LogIsOfTheRun
    <2>2. CASE log' = Log(log.starts, log.ends, log.lost + 1, "no", 0)
      <3>1. /\ log'.starts = log.starts /\ log'.ends = log.ends
            /\ log'.lost = log.lost + 1 /\ log'.end = "no"
        BY <2>2, LogReads
      <3>2. \A t \in log'.starts :
                t \in Steps /\ t[2] # "none" /\ fate'[t] # "waiting"
        BY <1>old, <1>begun, <3>1
      <3> QED
        BY <1>1, <1>2, <1>4, <1>old, <3>1, <3>2 DEF LogIsOfTheRun
    <2> QED
      BY <2>1, <2>2 DEF End, Message
  <1> QED
    BY <1>1, <1>2, <1>3, <1>6, <1>7 DEF RunInv

\* The tool makes every change, and perhaps says so.
LEMMA CompleteKeeps ==
    ASSUME RunInv, Complete
    PROVE  RunInv'
  <1>1. /\ log.end = "no" /\ \A s \in Steps : fate[s] = "done"
        /\ document' = document /\ plan' = plan /\ fate' = fate
        /\ document = None
    BY DEF Complete, Running, RunInv
  <1>2. Steps' = Steps /\ Counted' = Counted /\ \A t : Before(t)' = Before(t)
    BY <1>1, PlanKeepsSteps
  <1>3. Ended' = Ended
    BY <1>1, <1>2 DEF Ended
  <1>4. LogIsOfTheRun'
    <2>1. ASSUME NEW n \in Counted,
                 log' = Log(log.starts, log.ends, log.lost, "counts", n)
          PROVE  LogIsOfTheRun'
      <3>1. /\ log'.starts = log.starts /\ log'.ends = log.ends
            /\ log'.lost = log.lost /\ log'.removed = n
        BY <2>1, LogReads
      <3> QED
        BY <1>1, <1>2, <1>3, <3>1 DEF RunInv, LogIsOfTheRun
    <2>2. CASE log' = Log(log.starts, log.ends, log.lost + 1, "null", 0)
      <3>1. /\ log'.starts = log.starts /\ log'.ends = log.ends
            /\ log'.lost = log.lost + 1 /\ log'.end = "null"
        BY <2>2, LogReads
      <3> QED
        BY <1>1, <1>2, <1>3, <3>1 DEF RunInv, LogIsOfTheRun
    <2> QED
      BY <2>1, <2>2 DEF Complete
  <1> QED
    BY <1>1, <1>2, <1>4 DEF RunInv

\* The tool stops before it made every change.
LEMMA StopKeeps ==
    ASSUME RunInv, Stop
    PROVE  RunInv'
  <1>1. /\ log' = Log(log.starts, log.ends, log.lost, "null", 0)
        /\ document' = document /\ plan' = plan /\ fate' = fate
        /\ document = None
    BY DEF Stop, Running, RunInv
  <1>2. Steps' = Steps /\ Counted' = Counted /\ \A t : Before(t)' = Before(t)
    BY <1>1, PlanKeepsSteps
  <1>3. Ended' = Ended
    BY <1>1, <1>2 DEF Ended
  <1>4. /\ log'.starts = log.starts /\ log'.ends = log.ends
        /\ log'.lost = log.lost /\ log'.end = "null"
    BY <1>1, LogReads
  <1>5. LogIsOfTheRun'
    BY <1>1, <1>2, <1>3, <1>4 DEF RunInv, LogIsOfTheRun
  <1> QED
    BY <1>1, <1>2, <1>5 DEF RunInv

\* The invariant but for the document is of the plan, the run and the log.
LEMMA SameButDocument ==
    ASSUME RunInv, UNCHANGED <<plan, fate, log>>,
           document' = document
               \/ (~Running /\ \E read \in BOOLEAN : document' = Truthful(read))
    PROVE  RunInv'
  <1>1. /\ UNCHANGED <<Steps, Ended, Counted>>
        /\ Running' = Running
        /\ \A s : Before(s)' = Before(s)
        /\ \A read : Truthful(read)' = Truthful(read)
    BY SameRun
  <1>2. LogIsOfTheRun'
    BY <1>1 DEF RunInv, LogIsOfTheRun
  <1>3. document' = None
            \/ (~Running' /\ \E read \in BOOLEAN : document' = Truthful(read)')
    BY <1>1 DEF RunInv
  <1> QED
    BY <1>1, <1>2, <1>3 DEF RunInv

LEMMA RunKeeps ==
    ASSUME RunInv, [RunNext]_vars
    PROVE  RunInv'
  <1>1. CASE \E s \in Steps : Start(s) \/ \E how \in {"done", "failed"} : End(s, how)
    BY <1>1, StartKeeps, EndKeeps
  <1>2. CASE Complete
    BY <1>2, CompleteKeeps
  <1>3. CASE Stop
    BY <1>3, StopKeeps
  <1>4. CASE \E read \in BOOLEAN : Write(read)
    BY <1>4, SameButDocument DEF Write
  <1>5. CASE UNCHANGED vars
    BY <1>5, SameButDocument DEF vars
  <1> QED
    BY <1>1, <1>2, <1>3, <1>4, <1>5 DEF RunNext

LEMMA RunHolds == RunSpec => []RunInv
  <1>1. RunInv /\ [RunNext]_vars => RunInv'
    BY RunKeeps
  <1> QED
    BY <1>1, NothingRun, PTL DEF RunSpec

\* Identities are read once, and nothing happens to the run after them.
LEMMA IdentityHolds == IdentSpec => [](RunInv /\ IdentityInv)
  <1>1. IdentInit => RunInv /\ IdentityInv
    BY NothingRun DEF IdentInit, IdentityInv
  <1>2. ASSUME RunInv, IdentityInv, [IdentNext]_ivars
        PROVE  RunInv' /\ IdentityInv'
    <2>1. ASSUME UNCHANGED vars
          PROVE  /\ RunInv' /\ (Written' <=> Written)
                 /\ \A i : CheckIdentity(i, document)' <=> CheckIdentity(i, document)
                 /\ \A i : HoldsTogether(i)' <=> HoldsTogether(i)
      <3>1. RunInv'
        BY <1>2, <2>1, RunKeeps
      <3>2. Written' <=> Written
        BY <2>1 DEF vars, Written, Running
      <3>3. \A i : CheckIdentity(i, document)' <=> CheckIdentity(i, document)
        BY <2>1 DEF vars
      <3> QED
        BY <3>1, <3>2, <3>3
    <2>2. CASE RunNext /\ UNCHANGED identity
      <3>1. RunInv'
        BY <1>2, <2>2, RunKeeps
      <3>2. CASE identity = None
        BY <2>2, <3>1, <3>2 DEF IdentityInv
      <3>3. CASE identity # None
        <4>1. ~Running /\ document # None
          BY <1>2, <3>3 DEF IdentityInv, Written
        <4>2. FALSE
          BY <2>2, <4>1 DEF RunNext, Start, End, Complete, Stop, Write
        <4> QED
          BY <4>2
      <3> QED
        BY <3>2, <3>3
    <2>3. CASE \E i \in Alleged : ReadIdentity(i)
      <3>1. PICK i \in Alleged : ReadIdentity(i)
        BY <2>3
      <3>2. /\ Written /\ HoldsTogether(i) /\ CheckIdentity(i, document)
            /\ identity' = i /\ UNCHANGED vars
        BY <3>1 DEF ReadIdentity
      <3> QED
        BY <2>1, <3>2 DEF IdentityInv
    <2>4. CASE UNCHANGED ivars
      <3>1. UNCHANGED vars /\ identity' = identity
        BY <2>4 DEF ivars
      <3> QED
        BY <1>2, <2>1, <3>1 DEF IdentityInv
    <2> QED
      BY <1>2, <2>2, <2>3, <2>4 DEF IdentNext
  <1> QED
    BY <1>1, <1>2, PTL DEF IdentSpec

\* The operations an action may require.
LEMMA PlannedOperations ==
    ASSUME NEW c, IsPlanned(c)
    PROVE  \/ c.action = "create" /\ c.required = {"create"}
           \/ c.action = "update" /\ c.required = {"update"}
           \/ c.action = "delete" /\ c.required = {"delete"}
           \/ /\ c.action = "replace"
              /\ c.required = {"create", "delete"} \/ c.required = {"create"}
           \/ c.action \in {"no_op", "forget"} /\ c.required = {}
  BY DEF IsPlanned, Action, AllowedOperations

LEMMA ToldReads ==
    ASSUME NEW a, NEW from, NEW completed, NEW outcome, NEW c,
           c = Told(a, from, completed, outcome)
    PROVE  /\ c.action = plan.changes[a].action
           /\ c.required = plan.changes[a].required
           /\ c.moved = plan.changes[a].moved
           /\ c.imported = plan.changes[a].imported
           /\ c.from = from /\ c.completed = completed /\ c.outcome = outcome
  BY DEF Told

LEMMA OutcomeCases ==
    ASSUME NEW a, NEW completed, NEW otherwise
    PROVE  \/ /\ completed = plan.changes[a].required
              /\ OutcomeOf(a, completed, otherwise) = "applied"
           \/ /\ completed # plan.changes[a].required
              /\ completed # {} \/ Named(a)
              /\ OutcomeOf(a, completed, otherwise) = "errored"
           \/ /\ completed # plan.changes[a].required
              /\ completed = {} /\ ~Named(a)
              /\ OutcomeOf(a, completed, otherwise) = otherwise
  BY DEF OutcomeOf

LEMMA LoggedAreRequired ==
    ASSUME NEW a
    PROVE  /\ Operations(LoggedDone(a)) \subseteq plan.changes[a].required
           /\ LoggedDone(a) = StepsAt(a) =>
                  Operations(LoggedDone(a)) = plan.changes[a].required
           /\ StateShows(a) \subseteq plan.changes[a].required
  <1>1. LoggedDone(a) \subseteq StepsAt(a)
    BY DEF LoggedDone
  <1>2. Operations(StepsAt(a)) = plan.changes[a].required
    <2>1. \A s \in StepsAt(a) : s[2] \in plan.changes[a].required
      BY DEF StepsAt
    <2>2. \A op \in plan.changes[a].required :
              <<a, op>> \in StepsAt(a) /\ <<a, op>>[2] = op
      BY DEF StepsAt
    <2>3. \A op \in plan.changes[a].required : \E s \in StepsAt(a) : s[2] = op
      BY <2>2
    <2> QED
      BY <2>1, <2>3 DEF Operations
  <1> QED
    BY <1>1, <1>2 DEF Operations, StateShows

\* How a change is told: when it needs no operation, by what the log shows,
\* as an update whose messages are lost, by the state, or without it.
ToldIdle(c, a, read) ==
    /\ c.required = {} /\ c.completed = {}
    /\ read => /\ c.from = "apply_log"
               /\ c.outcome = IF fate[<<a, "none">>] = "done"
                              THEN "no_operation" ELSE "not_attempted"
    /\ ~read => c.from = "none" /\ c.outcome = StateNotRead

ToldByTheLog(c, a, read) ==
    /\ c.required # {} /\ LogSettles(a, read)
    /\ c.from = IF read THEN "apply_log" ELSE "apply_log_alone"
    /\ c.completed = Operations(LoggedDone(a))
    /\ c.outcome = OutcomeOf(a, c.completed, "not_attempted")

ToldLost(c, a, read) ==
    /\ c.required # {} /\ ~LogSettles(a, read)
    /\ c.action = "update" /\ c.from = "none"
    /\ c.completed = {LogIncomplete} /\ c.outcome = LogIncomplete

ToldByTheState(c, a, read) ==
    /\ c.required # {} /\ ~LogSettles(a, read) /\ read
    /\ c.action # "update" /\ c.from = "state"
    /\ c.completed = StateShows(a)
    /\ c.outcome = OutcomeOf(a, c.completed, LogIncomplete)

ToldWithoutIt(c, a, read) ==
    /\ c.required # {} /\ ~LogSettles(a, read) /\ ~read
    /\ c.action # "update" /\ c.from = "none"
    /\ c.completed = {StateNotRead} /\ c.outcome = StateNotRead

LEMMA ToldOfThePlan ==
    ASSUME NEW a, NEW read
    PROVE  /\ ChangeTold(a, read).action = plan.changes[a].action
           /\ ChangeTold(a, read).required = plan.changes[a].required
           /\ ChangeTold(a, read).moved = plan.changes[a].moved
           /\ ChangeTold(a, read).imported = plan.changes[a].imported
  <1>1. \E from, completed, outcome :
            ChangeTold(a, read) = Told(a, from, completed, outcome)
    BY DEF ChangeTold
  <1> QED
    BY <1>1, ToldReads

LEMMA ToldCases ==
    ASSUME NEW a, NEW read \in BOOLEAN, NEW c, c = ChangeTold(a, read)
    PROVE  \/ ToldIdle(c, a, read) \/ ToldByTheLog(c, a, read)
           \/ ToldLost(c, a, read) \/ ToldByTheState(c, a, read)
           \/ ToldWithoutIt(c, a, read)
  <1>1. CASE plan.changes[a].required = {} /\ read
    <2>1. c = Told(a, "apply_log", {},
                    IF fate[<<a, "none">>] = "done"
                    THEN "no_operation" ELSE "not_attempted")
      BY <1>1 DEF ChangeTold
    <2>2. /\ c.completed = {} /\ c.from = "apply_log"
          /\ c.outcome = IF fate[<<a, "none">>] = "done"
                         THEN "no_operation" ELSE "not_attempted"
      BY <2>1 DEF Told
    <2> QED
      BY <1>1, <2>2, ToldOfThePlan DEF ToldIdle
  <1>2. CASE plan.changes[a].required = {} /\ ~read
    <2>1. c = Told(a, "none", {}, StateNotRead)
      BY <1>2 DEF ChangeTold
    <2>2. ToldIdle(c, a, read)
      BY <1>2, <2>1, ToldReads DEF ToldIdle
    <2> QED
      BY <2>2
  <1>3. CASE plan.changes[a].required # {} /\ LogSettles(a, read)
    <2>1. c = Told(a, IF read THEN "apply_log" ELSE "apply_log_alone",
                    Operations(LoggedDone(a)),
                    OutcomeOf(a, Operations(LoggedDone(a)), "not_attempted"))
      BY <1>3 DEF ChangeTold
    <2>2. ToldByTheLog(c, a, read)
      BY <1>3, <2>1, ToldReads DEF ToldByTheLog
    <2> QED
      BY <2>2
  <1>4. CASE /\ plan.changes[a].required # {} /\ ~LogSettles(a, read)
             /\ plan.changes[a].action = "update"
    <2>1. c = Told(a, "none", {LogIncomplete}, LogIncomplete)
      BY <1>4 DEF ChangeTold
    <2>2. ToldLost(c, a, read)
      BY <1>4, <2>1, ToldReads DEF ToldLost
    <2> QED
      BY <2>2
  <1>5. CASE /\ plan.changes[a].required # {} /\ ~LogSettles(a, read)
             /\ plan.changes[a].action # "update" /\ read
    <2>1. c = Told(a, "state", StateShows(a),
                    OutcomeOf(a, StateShows(a), LogIncomplete))
      BY <1>5 DEF ChangeTold
    <2>2. /\ c.from = "state" /\ c.completed = StateShows(a)
          /\ c.outcome = OutcomeOf(a, StateShows(a), LogIncomplete)
      BY <2>1 DEF Told
    <2> QED
      BY <1>5, <2>2, ToldOfThePlan DEF ToldByTheState
  <1>6. CASE /\ plan.changes[a].required # {} /\ ~LogSettles(a, read)
             /\ plan.changes[a].action # "update" /\ ~read
    <2>1. c = Told(a, "none", {StateNotRead}, StateNotRead)
      BY <1>6 DEF ChangeTold
    <2>2. ToldWithoutIt(c, a, read)
      BY <1>6, <2>1, ToldReads DEF ToldWithoutIt
    <2> QED
      BY <2>2
  <1> QED
    BY <1>1, <1>2, <1>3, <1>4, <1>5, <1>6

LEMMA PlanOfRun ==
    ASSUME RunInv, NEW a \in DOMAIN plan.changes
    PROVE  IsPlanned(plan.changes[a])
  BY PlansArePlans DEF RunInv

\* The operations that were shown to have completed are known.
LEMMA KnownCompleted ==
    ASSUME NEW required, required \subseteq Operation,
           NEW completed, completed \subseteq required
    PROVE  /\ ~IsUnknown(completed)
           /\ completed # {LogIncomplete} /\ completed # {StateNotRead}
  BY DEF Operation, IsUnknown, Unknown, LogIncomplete, StateNotRead

\* A change is told as one the tool can make.
LEMMA ToldCanBeMade ==
    ASSUME RunInv, NEW a \in DOMAIN plan.changes, NEW read \in BOOLEAN,
           NEW c, c = ChangeTold(a, read)
    PROVE  AChangeTheToolCanMake(c)
  <1>1. IsPlanned(plan.changes[a])
    BY PlanOfRun
  <1>2. /\ c.action = plan.changes[a].action
        /\ c.required = plan.changes[a].required
        /\ c.moved = plan.changes[a].moved /\ c.imported = plan.changes[a].imported
    BY ToldOfThePlan
  <1>3. \/ c.action = "create" /\ c.required = {"create"}
        \/ c.action = "update" /\ c.required = {"update"}
        \/ c.action = "delete" /\ c.required = {"delete"}
        \/ /\ c.action = "replace"
           /\ c.required = {"create", "delete"} \/ c.required = {"create"}
        \/ c.action \in {"no_op", "forget"} /\ c.required = {}
    BY <1>1, <1>2, PlannedOperations
  <1>4. c.required \subseteq Operation
    BY <1>3 DEF Operation
  <1>5. CheckOutcomeSource(c) /\ CheckCompleted(c)
    <2>1. CASE ToldIdle(c, a, read)
      BY <2>1 DEF ToldIdle, CheckOutcomeSource, CheckCompleted, EndUnknown,
         IsUnknown, ForWantOfTheState, Settled, Unknown, LogIncomplete,
         StateNotRead, FromTheLog
    <2>2. CASE ToldByTheLog(c, a, read)
      <3>1. c.completed \subseteq c.required
        BY <1>2, <2>2, LoggedAreRequired DEF ToldByTheLog
      <3>2. /\ ~IsUnknown(c.completed)
            /\ c.completed # {LogIncomplete} /\ c.completed # {StateNotRead}
        BY <1>4, <3>1, KnownCompleted
      <3>3. \/ c.completed = c.required /\ c.outcome = "applied"
            \/ c.outcome = "errored"
            \/ c.completed = {} /\ c.outcome = "not_attempted"
        BY <1>2, <2>2, OutcomeCases DEF ToldByTheLog
      <3>4. c.outcome \notin Unknown /\ c.outcome # StateNotRead
                /\ c.outcome # LogIncomplete
        BY <3>3 DEF Unknown, LogIncomplete, StateNotRead
      <3>5. c.required # {} /\ c.from \in {"apply_log", "apply_log_alone"}
        BY <2>2 DEF ToldByTheLog
      <3>6. CheckOutcomeSource(c)
        BY <3>2, <3>4, <3>5 DEF CheckOutcomeSource, EndUnknown, ForWantOfTheState
      <3>7. CheckCompleted(c)
        BY <3>1, <3>3, <3>5 DEF CheckCompleted
      <3> QED
        BY <3>6, <3>7
    <2>3. CASE ToldLost(c, a, read)
      BY <2>3 DEF ToldLost, CheckOutcomeSource, CheckCompleted, EndUnknown,
         IsUnknown, ForWantOfTheState, Settled, Unknown, LogIncomplete,
         StateNotRead, FromTheLog
    <2>4. CASE ToldByTheState(c, a, read)
      <3>1. c.completed \subseteq c.required
        BY <1>2, <2>4, LoggedAreRequired DEF ToldByTheState
      <3>2. /\ ~IsUnknown(c.completed)
            /\ c.completed # {LogIncomplete} /\ c.completed # {StateNotRead}
        BY <1>4, <3>1, KnownCompleted
      <3>3. \/ c.completed = c.required /\ c.outcome = "applied"
            \/ c.outcome = "errored"
            \/ c.completed = {} /\ c.outcome = LogIncomplete
        <4>1. c.outcome = OutcomeOf(a, c.completed, LogIncomplete)
          BY <2>4 DEF ToldByTheState
        <4> QED
          BY <1>2, <4>1, OutcomeCases
      <3>4. c.outcome # StateNotRead
                /\ c.outcome \notin {"not_attempted", "no_operation"}
        BY <3>3 DEF LogIncomplete, StateNotRead
      <3>5. c.required # {} /\ c.from = "state" /\ c.action \in StateSettles
        BY <1>3, <2>4 DEF ToldByTheState, StateSettles
      <3>6. CheckOutcomeSource(c)
        BY <3>2, <3>4, <3>5 DEF CheckOutcomeSource, EndUnknown,
           ForWantOfTheState, FromTheLog
      <3>7. CheckCompleted(c)
        BY <3>1, <3>3, <3>4, <3>5 DEF CheckCompleted, Settled, LogIncomplete
      <3> QED
        BY <3>6, <3>7
    <2>5. CASE ToldWithoutIt(c, a, read)
      <3>1. c.action \in StateSettles
        BY <1>3, <2>5 DEF ToldWithoutIt, StateSettles
      <3> QED
        BY <2>5, <3>1 DEF ToldWithoutIt, CheckOutcomeSource, CheckCompleted,
           EndUnknown, IsUnknown, ForWantOfTheState, Settled, Unknown,
           LogIncomplete, StateNotRead, FromTheLog
    <2> QED
      BY <2>1, <2>2, <2>3, <2>4, <2>5, ToldCases
  <1> QED
    BY <1>1, <1>2, <1>5 DEF AChangeTheToolCanMake, IsPlanned

\* What a truthful document holds.
LEMMA TruthfulReads ==
    ASSUME NEW read \in BOOLEAN, NEW d, d = Truthful(read)
    PROVE  /\ d.read <=> read
           /\ DOMAIN d.changes = DOMAIN plan.changes
           /\ \A a \in DOMAIN plan.changes : d.changes[a] = ChangeTold(a, read)
           /\ DOMAIN d.deposed = plan.deposed
           /\ \A o \in plan.deposed : d.deposed[o] = DeposedTold(o, read)
           /\ d.timed <=> log.starts \cup log.ends # {}
           /\ d.summary = SummaryTold
           /\ LostMessages(d) <=> Lost
  BY DEF Truthful, LostMessages, Lost

LEMMA TruthfulFrom ==
    ASSUME NEW read \in BOOLEAN, NEW d, d = Truthful(read)
    PROVE  /\ ~read => d.from = "apply_log_alone"
           /\ read => d.from # "apply_log_alone"
           /\ read => (d.from = "apply_log_and_state" <=>
                   \/ SummaryTold.kind = LogIncomplete
                   \/ \E a \in DOMAIN plan.changes :
                          ChangeTold(a, read).from # "apply_log"
                   \/ \E o \in plan.deposed : DeposedTold(o, read) \in Unknown)
  BY DEF Truthful

LEMMA SummaryReads ==
    /\ SummaryTold.kind = "counts" <=> log.end = "counts"
    /\ SummaryTold.kind = LogIncomplete <=> log.end # "counts" /\ Lost
  BY DEF SummaryTold, LogIncomplete

LEMMA DeposedCases ==
    ASSUME NEW o, NEW read \in BOOLEAN
    PROVE  /\ ~read => DeposedTold(o, read) = StateNotRead
           /\ (read /\ fate[o] = "done") => DeposedTold(o, read) = "applied"
           /\ (read /\ fate[o] # "done" /\ o \in log.starts \cup log.ends)
                  => DeposedTold(o, read) = "errored"
           /\ (read /\ fate[o] # "done" /\ o \notin log.starts \cup log.ends /\ Lost)
                  => DeposedTold(o, read) = LogIncomplete
           /\ (read /\ fate[o] # "done" /\ o \notin log.starts \cup log.ends /\ ~Lost)
                  => DeposedTold(o, read) = "not_attempted"
  BY DEF DeposedTold

\* Where a change is told from, and what it says of the state.
LEMMA ToldFrom ==
    ASSUME NEW a, NEW read \in BOOLEAN, NEW c, c = ChangeTold(a, read)
    PROVE  /\ ~read => c.from \in {"apply_log_alone", "none"}
           /\ read => c.from # "apply_log_alone" /\ c.outcome # StateNotRead
  <1>1. CASE ToldIdle(c, a, read)
    BY <1>1 DEF ToldIdle, StateNotRead
  <1>2. CASE ToldByTheLog(c, a, read)
    <2>1. c.outcome = OutcomeOf(a, c.completed, "not_attempted")
      BY <1>2 DEF ToldByTheLog
    <2>2. c.outcome \in {"applied", "errored", "not_attempted"}
      BY <2>1, OutcomeCases
    <2>3. c.outcome # StateNotRead
      BY <2>2 DEF StateNotRead
    <2> QED
      BY <1>2, <2>3 DEF ToldByTheLog
  <1>3. CASE ToldLost(c, a, read)
    BY <1>3 DEF ToldLost, LogIncomplete, StateNotRead
  <1>4. CASE ToldByTheState(c, a, read)
    <2>1. c.outcome = OutcomeOf(a, c.completed, LogIncomplete)
      BY <1>4 DEF ToldByTheState
    <2>2. c.outcome \in {"applied", "errored", LogIncomplete}
      BY <2>1, OutcomeCases
    <2>3. c.outcome # StateNotRead
      BY <2>2 DEF StateNotRead, LogIncomplete
    <2> QED
      BY <1>4, <2>3 DEF ToldByTheState
  <1>5. CASE ToldWithoutIt(c, a, read)
    BY <1>5 DEF ToldWithoutIt
  <1> QED
    BY <1>1, <1>2, <1>3, <1>4, <1>5, ToldCases

\* A truthful document holds to the rules on whether the state was read.
LEMMA TruthfulStateRead ==
    ASSUME NEW read \in BOOLEAN, NEW d, d = Truthful(read)
    PROVE  CheckStateRead(d)
  <1>1. /\ d.read <=> read
        /\ DOMAIN d.changes = DOMAIN plan.changes
        /\ \A a \in DOMAIN plan.changes : d.changes[a] = ChangeTold(a, read)
        /\ DOMAIN d.deposed = plan.deposed
        /\ \A o \in plan.deposed : d.deposed[o] = DeposedTold(o, read)
        /\ d.summary = SummaryTold
    BY TruthfulReads
  <1>2. \A c \in Changes(d) :
            /\ ~read => c.from \in {"apply_log_alone", "none"}
            /\ read => c.from # "apply_log_alone" /\ c.outcome # StateNotRead
    BY <1>1, ToldFrom DEF Changes
  <1>3. CASE ~read
    BY <1>1, <1>2, <1>3, TruthfulFrom DEF CheckStateRead
  <1>4. CASE read
    <2>1. \A o \in plan.deposed : DeposedTold(o, read) # StateNotRead
      BY <1>4, DeposedCases DEF StateNotRead, LogIncomplete
    <2>2. DeposedIn(d, {StateNotRead}) = {}
      BY <1>1, <2>1 DEF DeposedIn
    <2>3. DeposedIn(d, Unknown) # {} <=>
              \E o \in plan.deposed : DeposedTold(o, read) \in Unknown
      BY <1>1 DEF DeposedIn
    <2>4. (\E c \in Changes(d) : c.from # "apply_log") <=>
              \E a \in DOMAIN plan.changes : ChangeTold(a, read).from # "apply_log"
      BY <1>1 DEF Changes
    <2>5. (ToolOutcomeUnknown(d) \/ \E c \in Changes(d) : c.from # "apply_log")
              <=> d.from = "apply_log_and_state"
      BY <1>1, <1>4, <2>3, <2>4, TruthfulFrom DEF ToolOutcomeUnknown
    <2> QED
      BY <1>1, <1>2, <1>4, <2>2, <2>5, TruthfulFrom DEF CheckStateRead
  <1> QED
    BY <1>3, <1>4

\* A step is an operation a change requires, or none if it requires none, or
\* the delete of a deposed object.
LEMMA StepCases ==
    ASSUME NEW s
    PROVE  s \in Steps <=>
               \/ \E a \in DOMAIN plan.changes :
                      \E op \in OperationsOf(plan.changes[a]) : s = <<a, op>>
               \/ s \in plan.deposed
  BY DEF Steps, StepsOf

\* A document with a time tells of an operation that ran, or may have.
LEMMA TruthfulTimed ==
    ASSUME RunInv, NEW read \in BOOLEAN, NEW d, d = Truthful(read), d.timed
    PROVE  Ran(d) \/ MaybeRan(d)
  <1>1. /\ d.read <=> read
        /\ DOMAIN d.changes = DOMAIN plan.changes
        /\ \A a \in DOMAIN plan.changes : d.changes[a] = ChangeTold(a, read)
        /\ DOMAIN d.deposed = plan.deposed
        /\ \A o \in plan.deposed : d.deposed[o] = DeposedTold(o, read)
    BY TruthfulReads
  <1>2. PICK s \in Steps : s \in log.starts \cup log.ends /\ s[2] # "none"
    BY TruthfulReads DEF RunInv, LogIsOfTheRun, Ended
  <1>3. CASE s \in plan.deposed
    <2>1. DeposedTold(s, read) \in {"applied", "errored", StateNotRead}
      BY <1>2, DeposedCases
    <2>2. s \in DeposedIn(d, {"applied", "errored"}) \/ s \in DeposedIn(d, Unknown)
      BY <1>1, <1>3, <2>1 DEF DeposedIn, Unknown
    <2> QED
      BY <2>2 DEF Ran, MaybeRan
  <1>4. CASE s \notin plan.deposed
    <2>1. PICK a \in DOMAIN plan.changes :
              \E op \in OperationsOf(plan.changes[a]) : s = <<a, op>>
      BY <1>4, StepCases
    <2> PICK op \in OperationsOf(plan.changes[a]) : s = <<a, op>>
      BY <2>1
    <2>2. op \in plan.changes[a].required
      BY <1>2 DEF OperationsOf
    <2>3. Named(a)
      BY <1>2, <2>2 DEF Named, StepsAt
    <2> DEFINE c == ChangeTold(a, read)
    <2>4. c \in Changes(d) /\ c.required # {}
      BY <1>1, <2>2, ToldOfThePlan DEF Changes
    <2>5. c.outcome \in {"applied", "errored", LogIncomplete, StateNotRead}
      <3>1. CASE ToldByTheLog(c, a, read)
        <4>1. c.outcome = OutcomeOf(a, c.completed, "not_attempted")
          BY <3>1 DEF ToldByTheLog
        <4> QED
          BY <2>3, <4>1, OutcomeCases
      <3>2. CASE ToldByTheState(c, a, read)
        <4>1. c.outcome = OutcomeOf(a, c.completed, LogIncomplete)
          BY <3>2 DEF ToldByTheState
        <4> QED
          BY <2>3, <4>1, OutcomeCases
      <3>3. CASE ToldLost(c, a, read) \/ ToldWithoutIt(c, a, read)
        BY <3>3 DEF ToldLost, ToldWithoutIt
      <3>4. ~ToldIdle(c, a, read)
        BY <2>4 DEF ToldIdle
      <3> HIDE DEF c
      <3> QED
        BY <3>1, <3>2, <3>3, <3>4, ToldCases DEF c
    <2> HIDE DEF c
    <2> QED
      BY <2>4, <2>5 DEF Ran, MaybeRan, Unknown
  <1> QED
    BY <1>3, <1>4

\* A step of a change is none of a deposed object.
LEMMA StepsOfChanges ==
    ASSUME RunInv, NEW a \in DOMAIN plan.changes, NEW op \in plan.changes[a].required
    PROVE  /\ <<a, op>> \in Steps /\ <<a, op>> \notin plan.deposed
           /\ op \in Operation /\ op # "none"
  <1>1. op \in OperationsOf(plan.changes[a])
    BY DEF OperationsOf
  <1>2. <<a, op>> \in Steps
    BY <1>1, StepCases
  <1>3. plan.changes[a].required \subseteq Operation
    BY PlanOfRun, PlannedOperations DEF Operation
  <1>4. op \in Operation
    BY <1>3
  <1>5. plan.deposed \subseteq Addresses \X Keys
    BY PlansArePlans DEF RunInv
  <1>6. <<a, op>> \notin plan.deposed
    BY <1>4, <1>5, PlansArePlans
  <1> QED
    BY <1>2, <1>4, <1>6 DEF Operation

\* When the tool counted, every change is told as made, or for want of the
\* state not at all.
LEMMA CountedChanges ==
    ASSUME RunInv, log.end = "counts", NEW a \in DOMAIN plan.changes,
           NEW read \in BOOLEAN, NEW c, c = ChangeTold(a, read)
    PROVE  /\ c.required # {} => c.outcome = "applied"
           /\ c.required = {} => c.outcome = IF read THEN "no_operation" ELSE StateNotRead
  <1>1. \A s \in Steps : fate[s] = "done"
    BY DEF RunInv, LogIsOfTheRun
  <1>2. c.required = plan.changes[a].required
    BY ToldOfThePlan
  <1>3. CASE c.required = {}
    <2>1. "none" \in OperationsOf(plan.changes[a])
      BY <1>2, <1>3 DEF OperationsOf
    <2>2. <<a, "none">> \in Steps
      BY <2>1, StepCases
    <2>3. ToldIdle(c, a, read)
      BY <1>3, ToldCases DEF ToldByTheLog, ToldLost, ToldByTheState, ToldWithoutIt
    <2> QED
      BY <1>1, <1>3, <2>2, <2>3 DEF ToldIdle
  <1>4. CASE c.required # {}
    <2>1. LoggedDone(a) = StepsAt(a)
      BY DEF LoggedDone
    <2>2. LogSettles(a, read)
      BY <2>1 DEF LogSettles, SharedDelete
    <2>3. ToldByTheLog(c, a, read)
      BY <1>4, <2>2, ToldCases DEF ToldIdle, ToldLost, ToldByTheState, ToldWithoutIt
    <2>4. c.completed = plan.changes[a].required
      BY <2>1, <2>3, LoggedAreRequired DEF ToldByTheLog
    <2>5. c.outcome = OutcomeOf(a, c.completed, "not_attempted")
      BY <2>3 DEF ToldByTheLog
    <2>6. c.outcome = "applied"
      BY <2>4, <2>5 DEF OutcomeOf
    <2> QED
      BY <1>4, <2>6
  <1> QED
    BY <1>3, <1>4

\* The deletes a plan has are those of its changes and its deposed objects:
\* at least as many as its changes', at most as many as there are of both.
LEMMA CountedRange ==
    ASSUME RunInv, NEW n \in Counted
    PROVE  LET deleted == {a \in DOMAIN plan.changes :
                              "delete" \in plan.changes[a].required}
           IN  n \in Cardinality(deleted)
                     .. Cardinality(deleted) + Cardinality(plan.deposed)
  <1> DEFINE deleted == {a \in DOMAIN plan.changes :
                            "delete" \in plan.changes[a].required}
             steps == {<<a, "delete">> : a \in deleted}
             deletes == {s \in Steps : s \in plan.deposed \/ s[2] = "delete"}
             sure == {s \in deletes :
                        \/ s \notin plan.deposed
                        \/ /\ s[1] \notin DOMAIN plan.changes
                           /\ \A t \in plan.deposed : t[1] = s[1] => t = s}
             D == [a \in deleted |-> <<a, "delete">>]
  <1>1. /\ IsFiniteSet(DOMAIN plan.changes) /\ IsFiniteSet(plan.deposed)
        /\ plan.deposed \subseteq Addresses \X Keys
    BY PlansArePlans DEF RunInv
  <1>2. IsFiniteSet(deleted)
    BY <1>1, FS_Subset
  <1>3. IsFiniteSet(steps) /\ Cardinality(steps) = Cardinality(deleted)
    <2>1. D \in Bijection(deleted, steps)
      <3>1. D \in [deleted -> steps]
        OBVIOUS
      <3>2. \A a, b \in deleted : D[a] = D[b] => a = b
        OBVIOUS
      <3>3. \A s \in steps : \E a \in deleted : D[a] = s
        OBVIOUS
      <3> QED
        BY <3>1, <3>2, <3>3 DEF Bijection, Injection, Surjection, IsInjective
    <2>2. ExistsBijection(deleted, steps)
      BY <2>1 DEF ExistsBijection
    <2> HIDE DEF steps, deleted, D
    <2> QED
      BY <1>2, <2>2, FS_Bijection, FS_CardinalityType
  <1>4. deletes \subseteq steps \cup plan.deposed
    BY StepCases DEF OperationsOf
  <1>5. steps \subseteq sure /\ sure \subseteq deletes
    BY StepsOfChanges
  <1>6. IsFiniteSet(steps \cup plan.deposed)
    BY <1>1, <1>3, FS_Union
  <1>7. n \in Cardinality(sure) .. Cardinality(deletes)
    BY DEF Counted
  <1> HIDE DEF deleted, steps, deletes, sure, D
  <1>8. /\ IsFiniteSet(deletes)
        /\ Cardinality(deletes) <= Cardinality(steps \cup plan.deposed)
    BY <1>4, <1>6, FS_Subset
  <1>9. Cardinality(steps) <= Cardinality(sure) /\ IsFiniteSet(sure)
    BY <1>5, <1>8, FS_Subset
  <1>10. Cardinality(steps \cup plan.deposed)
             <= Cardinality(steps) + Cardinality(plan.deposed)
    <2>1. Cardinality(steps \cup plan.deposed)
              = Cardinality(steps) + Cardinality(plan.deposed)
                    - Cardinality(steps \cap plan.deposed)
      BY <1>1, <1>3, FS_Union
    <2>2. /\ Cardinality(steps \cap plan.deposed) \in Nat
          /\ Cardinality(steps) \in Nat /\ Cardinality(plan.deposed) \in Nat
      BY <1>1, <1>3, FS_Subset, FS_CardinalityType
    <2> QED
      BY <2>1, <2>2
  <1>11. /\ Cardinality(steps) \in Nat /\ Cardinality(plan.deposed) \in Nat
         /\ Cardinality(sure) \in Nat /\ Cardinality(deletes) \in Nat
         /\ Cardinality(steps \cup plan.deposed) \in Nat
    BY <1>1, <1>3, <1>6, <1>8, <1>9, FS_CardinalityType
  <1> QED
    BY <1>3, <1>7, <1>8, <1>9, <1>10, <1>11 DEF deleted

\* What is told of neither the log nor the state is left to a lost message,
\* or to a delete the log shares with a deposed object.
LEMMA UntoldIsLost ==
    ASSUME NEW a, NEW read \in BOOLEAN, NEW c, c = ChangeTold(a, read),
           c.required # {}, c.from \notin FromTheLog
    PROVE  \/ Lost
           \/ /\ ~read /\ "delete" \in c.required
              /\ \E d \in plan.deposed : d[1] = a
  <1>1. c.required = plan.changes[a].required
    BY ToldOfThePlan
  <1>2. ~LogSettles(a, read)
    BY ToldCases DEF ToldIdle, ToldByTheLog, ToldLost, ToldByTheState,
       ToldWithoutIt, FromTheLog
  <1> QED
    BY <1>1, <1>2 DEF LogSettles, SharedDelete

\* Of a truthful document, what is left to the state was lost.
LEMMA TruthfulLeft ==
    ASSUME NEW read \in BOOLEAN, NEW d, d = Truthful(read), LeftToTheState(d)
    PROVE  LostMessages(d)
  <1>1. /\ d.read <=> read
        /\ DOMAIN d.changes = DOMAIN plan.changes
        /\ \A a \in DOMAIN plan.changes : d.changes[a] = ChangeTold(a, read)
        /\ DOMAIN d.deposed = plan.deposed
        /\ d.summary = SummaryTold
        /\ LostMessages(d) <=> Lost
    BY TruthfulReads
  <1>2. CASE d.from = "apply_log_and_state"
    <2>1. read
      BY <1>2, TruthfulFrom
    <2>2. CASE SummaryTold.kind = LogIncomplete
      BY <1>1, <2>2, SummaryReads
    <2>3. CASE \E a \in DOMAIN plan.changes : ChangeTold(a, read).from # "apply_log"
      <3>1. PICK a \in DOMAIN plan.changes : ChangeTold(a, read).from # "apply_log"
        BY <2>3
      <3> DEFINE c == ChangeTold(a, read)
      <3>2. c.from \notin FromTheLog
        BY <2>1, <3>1, ToldFrom DEF FromTheLog
      <3>3. c.required # {}
        BY <2>1, <3>1, ToldCases DEF ToldIdle, ToldByTheLog, ToldLost,
           ToldByTheState, ToldWithoutIt
      <3> HIDE DEF c
      <3> QED
        BY <1>1, <2>1, <3>2, <3>3, UntoldIsLost DEF c
    <2>4. CASE \E o \in plan.deposed : DeposedTold(o, read) \in Unknown
      <3>1. PICK o \in plan.deposed : DeposedTold(o, read) \in Unknown
        BY <2>4
      <3>2. Lost
        BY <2>1, <3>1, DeposedCases DEF Unknown, LogIncomplete, StateNotRead
      <3> QED
        BY <1>1, <3>2
    <2> QED
      BY <1>2, <2>1, <2>2, <2>3, <2>4, TruthfulFrom
  <1>3. CASE d.summary.kind = LogIncomplete
    BY <1>1, <1>3, SummaryReads
  <1>4. CASE \E a \in DOMAIN d.changes :
                 /\ d.changes[a].from = "none"
                 /\ d.changes[a].required # {}
                 /\ ~(a \in Shared(d) /\ "delete" \in d.changes[a].required)
    <2>1. PICK a \in DOMAIN plan.changes :
              /\ ChangeTold(a, read).from = "none"
              /\ ChangeTold(a, read).required # {}
              /\ ~(a \in Shared(d) /\ "delete" \in ChangeTold(a, read).required)
      BY <1>1, <1>4
    <2>2. (~read /\ \E o \in plan.deposed : o[1] = a) => a \in Shared(d)
      BY <1>1 DEF Shared
    <2>3. Lost
      BY <2>1, <2>2, UntoldIsLost DEF FromTheLog
    <2> QED
      BY <1>1, <2>3
  <1> QED
    BY <1>2, <1>3, <1>4 DEF LeftToTheState

\* With a message lost, the log alone does not show that nothing was tried.
LEMMA TruthfulUntried ==
    ASSUME NEW a, NEW read \in BOOLEAN, NEW c, c = ChangeTold(a, read), Lost,
           c.from = "apply_log_alone", c.required # {}
    PROVE  c.outcome # "not_attempted"
  <1>1. ToldByTheLog(c, a, read)
    BY ToldCases DEF ToldIdle, ToldLost, ToldByTheState, ToldWithoutIt
  <1>2. /\ c.completed = Operations(LoggedDone(a))
        /\ c.outcome = OutcomeOf(a, c.completed, "not_attempted")
        /\ LoggedDone(a) = StepsAt(a) \/ LoggedFailed(a)
    BY <1>1 DEF ToldByTheLog, LogSettles
  <1>3. CASE LoggedDone(a) = StepsAt(a)
    <2>1. c.completed = plan.changes[a].required
      BY <1>2, <1>3, LoggedAreRequired
    <2> QED
      BY <1>2, <2>1, OutcomeCases
  <1>4. CASE LoggedFailed(a)
    <2>1. Named(a)
      BY <1>4 DEF LoggedFailed, Named
    <2> QED
      BY <1>2, <2>1, OutcomeCases
  <1> QED
    BY <1>2, <1>3, <1>4

\* The tool's counts are those of a truthful document.
LEMMA TruthfulCounts ==
    ASSUME RunInv, NEW read \in BOOLEAN, NEW d, d = Truthful(read),
           d.summary.kind = "counts"
    PROVE  CheckSummary(d)
  <1> DEFINE With(op) == {a \in DOMAIN plan.changes :
                            op \in plan.changes[a].required}
             Applied(op) == {a \in DOMAIN d.changes :
                               /\ d.changes[a].outcome = "applied"
                               /\ op \in d.changes[a].required}
             Imports == {a \in DOMAIN plan.changes : plan.changes[a].imported}
  <1>1. /\ d.read <=> read
        /\ DOMAIN d.changes = DOMAIN plan.changes
        /\ \A a \in DOMAIN plan.changes : d.changes[a] = ChangeTold(a, read)
        /\ DOMAIN d.deposed = plan.deposed
        /\ \A o \in plan.deposed : d.deposed[o] = DeposedTold(o, read)
        /\ d.summary = SummaryTold
    BY TruthfulReads
  <1>2. log.end = "counts"
    BY <1>1, SummaryReads
  <1>3. \A s \in Steps : fate[s] = "done"
    BY <1>2 DEF RunInv, LogIsOfTheRun
  <1>4. log.removed \in Counted
    BY <1>2 DEF RunInv, LogIsOfTheRun
  <1>5. \A a \in DOMAIN plan.changes :
            LET c == ChangeTold(a, read) IN
            /\ c.required = plan.changes[a].required
            /\ c.imported = plan.changes[a].imported
            /\ c.required # {} => c.outcome = "applied"
            /\ c.required = {} =>
                   c.outcome = IF read THEN "no_operation" ELSE StateNotRead
    BY <1>2, CountedChanges, ToldOfThePlan
  <1>6. \A c \in Changes(d) : (c.required # {} \/ c.outcome # StateNotRead) =>
                                  c.outcome \in {"applied", "no_operation"}
    BY <1>1, <1>5 DEF Changes
  <1>7. \A o \in plan.deposed :
            DeposedTold(o, read) = IF read THEN "applied" ELSE StateNotRead
    BY <1>3, DeposedCases, StepCases
  <1>8. DeposedIn(d, {"errored", "not_attempted", LogIncomplete}) = {}
    BY <1>1, <1>7 DEF DeposedIn, LogIncomplete, StateNotRead
  <1>9. DeposedIn(d, {"applied", StateNotRead}) = plan.deposed
    BY <1>1, <1>7 DEF DeposedIn
  <1>10. \A op : Applied(op) = With(op)
    BY <1>1, <1>5
  <1>11. {a \in DOMAIN d.changes : d.changes[a].imported} = Imports
    BY <1>1, <1>5
  <1>12. /\ SummaryTold.added = Cardinality(With("create"))
         /\ SummaryTold.changed = Cardinality(With("update"))
         /\ SummaryTold.imported = Cardinality(Imports)
         /\ SummaryTold.removed = log.removed
    BY <1>2 DEF SummaryTold
  <1>13. log.removed \in Cardinality(With("delete"))
                          .. Cardinality(With("delete")) + Cardinality(plan.deposed)
    BY <1>4, CountedRange
  <1> HIDE DEF With, Imports
  <1>14. /\ d.summary.added = Cardinality(Applied("create"))
         /\ d.summary.changed = Cardinality(Applied("update"))
         /\ d.summary.imported
                = Cardinality({a \in DOMAIN d.changes : d.changes[a].imported})
         /\ d.summary.removed \in Cardinality(Applied("delete"))
                .. Cardinality(Applied("delete"))
                     + Cardinality(DeposedIn(d, {"applied", StateNotRead}))
    BY <1>1, <1>9, <1>10, <1>11, <1>12, <1>13
  <1> QED
    BY <1>6, <1>8, <1>14 DEF CheckSummary

LEMMA TruthfulTerraform ==
    ASSUME RunInv, NEW read \in BOOLEAN, NEW d, d = Truthful(read)
    PROVE  CheckTerraform(d)
  <1>1. /\ d.read <=> read
        /\ DOMAIN d.changes = DOMAIN plan.changes
        /\ \A a \in DOMAIN plan.changes : d.changes[a] = ChangeTold(a, read)
        /\ DOMAIN d.deposed = plan.deposed
        /\ \A o \in plan.deposed : d.deposed[o] = DeposedTold(o, read)
        /\ LostMessages(d) <=> Lost
    BY TruthfulReads
  <1>2. LostMessages(d) =>
            ~\E c \in Changes(d) : /\ c.from = "apply_log_alone"
                                    /\ c.outcome = "not_attempted"
                                    /\ c.required # {}
    BY <1>1, TruthfulUntried DEF Changes
  <1>3. ~d.read => DeposedIn(d, DeposedOutcome \ {StateNotRead}) = {}
    BY <1>1, DeposedCases DEF DeposedIn
  <1> QED
    BY <1>2, <1>3, TruthfulLeft, TruthfulCounts DEF CheckTerraform

\* The rules never turn a true document away (models/iac/deployment.py).
LEMMA TruthIsAccepted == RunInv => TruthAccepted
  <1> SUFFICES ASSUME RunInv, Written, TimeKept
               PROVE  Accepts(document)
    BY DEF TruthAccepted
  <1>1. PICK read \in BOOLEAN : document = Truthful(read)
    BY DEF RunInv, Written
  <1>2. \A c \in Changes(document) : AChangeTheToolCanMake(c)
    BY <1>1, ToldCanBeMade, TruthfulReads DEF Changes
  <1>3. CheckStateRead(document)
    BY <1>1, TruthfulStateRead
  <1>4. Ran(document) => document.timed
    BY <1>1, TruthfulReads DEF TimeKept
  <1>5. document.timed => Ran(document) \/ MaybeRan(document)
    BY <1>1, TruthfulTimed
  <1>6. CheckTerraform(document)
    BY <1>1, TruthfulTerraform
  <1> QED
    BY <1>2, <1>3, <1>4, <1>5, <1>6 DEF Accepts

Done(a) == {op \in plan.changes[a].required : fate[<<a, op>>] = "done"}

\* One of the two operations of a replacement comes before the other.
LEMMA BeforeOther ==
    ASSUME RunInv, NEW a \in DOMAIN plan.changes,
           NEW s \in StepsAt(a), NEW t \in StepsAt(a), s # t
    PROVE  s \in Before(t) \/ t \in Before(s)
  <1>1. PICK o \in plan.changes[a].required : s = <<a, o>>
    BY DEF StepsAt
  <1>2. PICK u \in plan.changes[a].required : t = <<a, u>>
    BY DEF StepsAt
  <1>3. /\ s \in Steps /\ s \notin plan.deposed
        /\ t \in Steps /\ t \notin plan.deposed
    BY <1>1, <1>2, StepsOfChanges
  <1>4. {o, u} = {"create", "delete"}
    BY <1>1, <1>2, PlanOfRun, PlannedOperations
  <1>5. o = (IF plan.changes[a].createFirst THEN "create" ELSE "delete")
            \/ u = (IF plan.changes[a].createFirst THEN "create" ELSE "delete")
    BY <1>4
  <1> QED
    BY <1>1, <1>2, <1>3, <1>5 DEF Before, First

\* What the log shows as completed was done.
LEMMA LoggedWereDone ==
    ASSUME RunInv, NEW a \in DOMAIN plan.changes
    PROVE  \A s \in LoggedDone(a) : s \in Steps /\ fate[s] = "done"
  <1> SUFFICES ASSUME NEW s \in LoggedDone(a)
               PROVE  s \in Steps /\ fate[s] = "done"
    OBVIOUS
  <1>1. s \in StepsAt(a)
    BY DEF LoggedDone
  <1>2. s \in Steps
    BY <1>1, StepsOfChanges DEF StepsAt
  <1>3. CASE log.end = "counts"
    BY <1>2, <1>3 DEF RunInv, LogIsOfTheRun
  <1>4. CASE s \in log.ends /\ fate[s] = "done"
    BY <1>2, <1>4
  <1>5. CASE \E t \in StepsAt(a) : s \in Before(t) /\ t \in log.starts \cup log.ends
    <2>1. PICK t \in StepsAt(a) : s \in Before(t) /\ t \in log.starts \cup log.ends
      BY <1>5
    <2>2. t \in Steps /\ fate[t] # "waiting"
      BY <2>1 DEF RunInv, LogIsOfTheRun, Ended
    <2> QED
      BY <1>2, <2>1, <2>2 DEF RunInv
  <1> QED
    BY <1>3, <1>4, <1>5 DEF LoggedDone

\* Where the log settles a change, it shows all that was done of it: nothing
\* follows an operation that failed, and what came before it is shown by it.
LEMMA DoneWereLogged ==
    ASSUME RunInv, NEW a \in DOMAIN plan.changes, LogSettles(a, TRUE),
           NEW s \in StepsAt(a), fate[s] = "done"
    PROVE  s \in LoggedDone(a)
  <1>1. s \in Steps /\ s[2] # "none"
    BY StepsOfChanges DEF StepsAt
  <1>2. CASE LoggedDone(a) = StepsAt(a)
    BY <1>2
  <1>3. CASE LoggedFailed(a)
    <2>1. PICK t \in StepsAt(a) \cap log.ends : fate[t] = "failed"
      BY <1>3 DEF LoggedFailed
    <2>2. t # s /\ t \in Steps
      BY <2>1 DEF RunInv, LogIsOfTheRun, Ended
    <2>3. t \notin Before(s)
      BY <1>1, <2>1 DEF RunInv
    <2>4. s \in Before(t)
      BY <2>1, <2>2, <2>3, BeforeOther
    <2> QED
      BY <2>1, <2>4 DEF LoggedDone
  <1>4. CASE ~Lost
    <2>1. s \in Ended
      BY <1>1 DEF Ended
    <2>2. log.lost = 0
      BY <1>4 DEF Lost, RunInv, LogIsOfTheRun
    <2> QED
      BY <2>1, <2>2 DEF RunInv, LogIsOfTheRun, LoggedDone
  <1> QED
    BY <1>2, <1>3, <1>4 DEF LogSettles

\* With the state read, a change is told to have completed what was done of
\* it, unless it is an update whose messages were lost.
LEMMA CompletedIsDone ==
    ASSUME RunInv, NEW a \in DOMAIN plan.changes,
           NEW c, c = ChangeTold(a, TRUE), c.required # {}
    PROVE  c.completed = Done(a) \/ c.action = "update"
  <1>1. CASE ToldByTheLog(c, a, TRUE)
    <2>1. \A op \in plan.changes[a].required :
              <<a, op>> \in LoggedDone(a) <=> fate[<<a, op>>] = "done"
      BY <1>1, LoggedWereDone, DoneWereLogged DEF ToldByTheLog, StepsAt
    <2>2. \A op : op \in Operations(LoggedDone(a)) <=>
                      op \in plan.changes[a].required /\ <<a, op>> \in LoggedDone(a)
      BY DEF Operations, LoggedDone, StepsAt
    <2>3. Operations(LoggedDone(a)) = Done(a)
      BY <2>1, <2>2 DEF Done
    <2> QED
      BY <1>1, <2>3 DEF ToldByTheLog
  <1>2. CASE ToldByTheState(c, a, TRUE)
    <2>1. "delete" \in plan.changes[a].required => Had(a)
      BY PlanOfRun, PlannedOperations DEF Had
    <2>2. \A op \in plan.changes[a].required : op \in {"create", "delete"}
      <3>1. c.action = plan.changes[a].action /\ c.action # "update"
        BY <1>2, ToldOfThePlan DEF ToldByTheState
      <3>2. IsPlanned(plan.changes[a])
        BY PlanOfRun
      <3>3. \/ plan.changes[a].required \subseteq {"create", "delete"}
            \/ plan.changes[a].action = "update"
        BY <3>2, PlannedOperations
      <3> QED
        BY <3>1, <3>3
    <2>3. StateShows(a) = Done(a)
      <3>1. ASSUME NEW op \in plan.changes[a].required
            PROVE  op \in StateShows(a) <=> fate[<<a, op>>] = "done"
        <4>1. CASE op = "create"
          BY <4>1 DEF StateShows, StateHoldsNew
        <4>2. CASE op = "delete"
          <5>1. Had(a) /\ plan.changes[a].action # "forget"
                   /\ plan.changes[a].required # {"create"}
            BY <2>1, <4>2, PlanOfRun, PlannedOperations
          <5>2. StateHoldsOld(a) <=> fate[<<a, "delete">>] # "done"
            BY <4>2, <5>1 DEF StateHoldsOld
          <5> QED
            BY <4>2, <5>2 DEF StateShows
        <4> QED
          BY <2>2, <4>1, <4>2
      <3> QED
        BY <3>1 DEF StateShows, Done
    <2> QED
      BY <1>2, <2>3 DEF ToldByTheState
  <1>3. CASE ToldLost(c, a, TRUE)
    BY <1>3 DEF ToldLost
  <1>4. ~ToldIdle(c, a, TRUE) /\ ~ToldWithoutIt(c, a, TRUE)
    BY DEF ToldIdle, ToldWithoutIt
  <1> QED
    BY <1>1, <1>2, <1>3, <1>4, ToldCases

\* What a truthful document says of a change that left the state is what
\* became of its object.
LEMMA LeavingIsTrue ==
    ASSUME RunInv, NEW a \in DOMAIN plan.changes,
           NEW c, c = ChangeTold(a, TRUE)
    PROVE  /\ LeftTheState(c) <=> Had(a) /\ ~StateHoldsOld(a)
           /\ LeftTheState(c) => (Removal(c) = "deleted" <=> ~CloudHoldsOld(a))
  <1> DEFINE p == plan.changes[a]
  <1>1. c.action = p.action /\ c.required = p.required
    BY ToldOfThePlan
  <1>2. \/ p.action = "create" /\ p.required = {"create"}
        \/ p.action = "update" /\ p.required = {"update"}
        \/ p.action = "delete" /\ p.required = {"delete"}
        \/ p.action = "replace" /\ p.required = {"create", "delete"}
        \/ p.action = "replace" /\ p.required = {"create"}
        \/ p.action = "no_op" /\ p.required = {}
        \/ p.action = "forget" /\ p.required = {}
    BY PlanOfRun, PlannedOperations
  <1>3. CASE p.action \in {"create", "update", "no_op"}
    <2>1. ~LeftTheState(c)
      BY <1>1, <1>3 DEF LeftTheState
    <2>2. p.action # "create" => StateHoldsOld(a)
      BY <1>2, <1>3 DEF StateHoldsOld, Had
    <2> QED
      BY <2>1, <2>2 DEF Had
  <1>4. CASE p.action = "forget"
    <2>1. p.required = {} /\ Had(a)
      BY <1>2, <1>4 DEF Had
    <2>2. ToldIdle(c, a, TRUE)
      BY <1>1, <2>1, ToldCases DEF ToldByTheLog, ToldLost, ToldByTheState,
         ToldWithoutIt
    <2>3. c.outcome = "no_operation" <=> fate[<<a, "none">>] = "done"
      BY <2>2 DEF ToldIdle
    <2>4. LeftTheState(c) <=> c.outcome = "no_operation"
      BY <1>1, <1>4 DEF LeftTheState
    <2>5. StateHoldsOld(a) <=> fate[<<a, "none">>] # "done"
      BY <1>4, <2>1 DEF StateHoldsOld
    <2>6. Removal(c) = "forgotten" /\ CloudHoldsOld(a)
      BY <1>1, <2>1 DEF Removal, CloudHoldsOld
    <2> QED
      BY <2>1, <2>3, <2>4, <2>5, <2>6
  <1>5. CASE p.action \in {"delete", "replace"}
    <2>1. c.completed = Done(a)
      BY <1>1, <1>2, <1>5, CompletedIsDone
    <2>2. Had(a)
      BY <1>5 DEF Had
    <2>3. CASE "delete" \in p.required
      <3>1. p.required # {"create"}
        BY <1>2, <2>3
      <3>2. LeftTheState(c) <=> fate[<<a, "delete">>] = "done"
        BY <1>1, <1>5, <2>1, <2>3, <3>1 DEF LeftTheState, Done
      <3>3. /\ StateHoldsOld(a) <=> fate[<<a, "delete">>] # "done"
            /\ CloudHoldsOld(a) <=> fate[<<a, "delete">>] # "done"
        BY <1>5, <2>2, <2>3, <3>1 DEF StateHoldsOld, CloudHoldsOld
      <3>4. Removal(c) = "deleted"
        BY <1>1, <2>3 DEF Removal
      <3> QED
        BY <2>2, <3>2, <3>3, <3>4
    <2>4. CASE "delete" \notin p.required
      <3>1. p.action = "replace" /\ p.required = {"create"}
        BY <1>2, <1>5, <2>4
      <3>2. Done(a) = IF fate[<<a, "create">>] = "done" THEN {"create"} ELSE {}
        BY <3>1 DEF Done
      <3>3. LeftTheState(c) <=> fate[<<a, "create">>] = "done"
        BY <1>1, <2>1, <3>1, <3>2 DEF LeftTheState
      <3>4. /\ StateHoldsOld(a) <=> fate[<<a, "create">>] # "done"
            /\ CloudHoldsOld(a)
        BY <2>2, <3>1 DEF StateHoldsOld, CloudHoldsOld
      <3>5. Removal(c) = "forgotten"
        BY <1>1, <2>4 DEF Removal
      <3> QED
        BY <2>2, <3>3, <3>4, <3>5
    <2> QED
      BY <2>3, <2>4
  <1> QED
    BY <1>2, <1>3, <1>4, <1>5

LEMMA LeftIsSo == RunInv => LeftIsTrue
  <1> SUFFICES ASSUME RunInv, Written, document.read,
                      NEW a \in DOMAIN document.changes
               PROVE  LET c == document.changes[a] IN
                      /\ LeftTheState(c) <=> Had(a) /\ ~StateHoldsOld(a)
                      /\ LeftTheState(c) =>
                            (Removal(c) = "deleted" <=> ~CloudHoldsOld(a))
    BY DEF LeftIsTrue
  <1>1. PICK read \in BOOLEAN : document = Truthful(read)
    BY DEF RunInv, Written
  <1>2. document = Truthful(TRUE)
    BY <1>1, TruthfulReads
  <1>3. a \in DOMAIN plan.changes /\ document.changes[a] = ChangeTold(a, TRUE)
    BY <1>2, TruthfulReads
  <1> QED
    BY <1>3, LeavingIsTrue

\* The objects that left the state, and how; and the deposed objects that are
\* gone: what a true deployment says of both.
Gone == {a \in DOMAIN plan.changes : Had(a) /\ ~StateHoldsOld(a)}
HowGone(a) == IF CloudHoldsOld(a) THEN "forgotten" ELSE "deleted"

LEMMA DocumentSaysGone ==
    ASSUME RunInv, Written, document.read
    PROVE  /\ LeftIn(document) = {<<a, HowGone(a)>> : a \in Gone}
           /\ DeposedIn(document, {"applied"}) = {d \in plan.deposed : fate[d] = "done"}
  <1>1. PICK read \in BOOLEAN : document = Truthful(read)
    BY DEF RunInv, Written
  <1>2. document = Truthful(TRUE)
    BY <1>1, TruthfulReads
  <1>3. /\ DOMAIN document.changes = DOMAIN plan.changes
        /\ DOMAIN document.deposed = plan.deposed
        /\ \A o \in plan.deposed : document.deposed[o] = DeposedTold(o, TRUE)
    BY <1>2, TruthfulReads
  <1>4. \A a \in DOMAIN plan.changes :
            LET c == document.changes[a] IN
            /\ LeftTheState(c) <=> a \in Gone
            /\ LeftTheState(c) => Removal(c) = HowGone(a)
    <2>1. \A c : Removal(c) \in {"deleted", "forgotten"}
      BY DEF Removal
    <2> QED
      BY <1>3, <2>1, LeftIsSo DEF LeftIsTrue, Gone, HowGone
  <1>5. {x \in DOMAIN document.changes : LeftTheState(document.changes[x])} = Gone
    BY <1>3, <1>4 DEF Gone
  <1>6. LeftIn(document) = {<<a, HowGone(a)>> : a \in Gone}
    <2>1. \A a \in Gone : Removal(document.changes[a]) = HowGone(a)
      BY <1>4 DEF Gone
    <2> QED
      BY <1>5, <2>1 DEF LeftIn
  <1>7. \A o \in plan.deposed : document.deposed[o] = "applied" <=> fate[o] = "done"
    BY <1>3, DeposedCases DEF LogIncomplete
  <1> QED
    BY <1>3, <1>6, <1>7 DEF DeposedIn

LEMMA RemovedIsSo == RunInv /\ IdentityInv => RemovedIsTrue
  <1> SUFFICES ASSUME RunInv, IdentityInv, identity # None
               PROVE  /\ ListedAsLeft(identity) = {<<a, HowGone(a)>> : a \in Gone}
                      /\ RemovedResolved(identity) \cap RemovedUnresolved(identity) = {}
                      /\ identity.deposedDeleted =
                            Cardinality({d \in plan.deposed : fate[d] = "done"})
    BY LeftIsSo DEF RemovedIsTrue, HowGone, Gone
  <1>1. Written /\ HoldsTogether(identity) /\ CheckIdentity(identity, document)
    BY DEF IdentityInv
  <1>2. document.read
    BY <1>1 DEF CheckIdentity
  <1> QED
    BY <1>1, <1>2, DocumentSaysGone DEF CheckIdentity, HoldsTogether, OneListEach

\* Two addresses have two cloud resources.
LEMMA CloudsAreApart ==
    /\ CloudOf \in [Addresses -> Clouds]
    /\ \A x, y \in Addresses : CloudOf[x] = CloudOf[y] => x = y
  BY CloudsSuffice DEF CloudOf

\* The objects a resolver supports, of some.
KnownOf(S) == {a \in S : CloudOf[a] \in Supported}
Held == {a \in DOMAIN plan.changes : InState(a)}

LEMMA TrueIdentityReads ==
    ASSUME NEW i, i = TrueIdentity
    PROVE  /\ i.readFrom = "state_file" /\ i.plan = "applied" /\ i.ofState
           /\ i.resolved = [a \in KnownOf(Held) |-> CloudOf[a]]
           /\ i.unresolved = Held \ KnownOf(Held)
           /\ i.removed = [a \in KnownOf(Gone) |->
                              [cloud |-> CloudOf[a], removal |-> HowGone(a)]]
           /\ i.removedUnresolved = [a \in Gone \ KnownOf(Gone) |-> HowGone(a)]
           /\ i.deposedDeleted = Cardinality({d \in plan.deposed : fate[d] = "done"})
  BY DEF TrueIdentity, KnownOf, Held, Gone, HowGone

LEMMA TrueIdentityHolds ==
    ASSUME RunInv, Written, document.read, NEW i, i = TrueIdentity
    PROVE  HoldsTogether(i) /\ CheckIdentity(i, document)
  <1>1. /\ i.readFrom = "state_file" /\ i.plan = "applied" /\ i.ofState
        /\ i.resolved = [a \in KnownOf(Held) |-> CloudOf[a]]
        /\ i.unresolved = Held \ KnownOf(Held)
        /\ i.removed = [a \in KnownOf(Gone) |->
                           [cloud |-> CloudOf[a], removal |-> HowGone(a)]]
        /\ i.removedUnresolved = [a \in Gone \ KnownOf(Gone) |-> HowGone(a)]
        /\ i.deposedDeleted = Cardinality({d \in plan.deposed : fate[d] = "done"})
    BY TrueIdentityReads
  <1>2. DOMAIN plan.changes \subseteq Addresses /\ IsFiniteSet(plan.deposed)
    BY PlansArePlans DEF RunInv
  <1>3. Gone \subseteq Addresses /\ Held \subseteq Addresses
    BY <1>2 DEF Gone, Held
  <1>4. \A a : HowGone(a) \in Removals
    BY DEF HowGone, Removals
  <1>5. i.removed \in [KnownOf(Gone) -> RemovedParts]
    <2>1. \A a \in KnownOf(Gone) : CloudOf[a] \in Clouds
      BY <1>3, CloudsAreApart DEF KnownOf
    <2>2. \A a \in KnownOf(Gone) :
              [cloud |-> CloudOf[a], removal |-> HowGone(a)] \in RemovedParts
      BY <1>4, <2>1 DEF RemovedParts
    <2> QED
      BY <1>1, <2>2
  <1>6. i.removed # None
    <2>1. i.removed \in RemovedLists
      BY <1>3, <1>5 DEF RemovedLists, KnownOf
    <2> QED
      BY <2>1, AbsentIsNoPart
  <1>7. i.removedUnresolved # None
    <2>1. i.removedUnresolved \in [Gone \ KnownOf(Gone) -> Removals]
      BY <1>1, <1>4
    <2>2. i.removedUnresolved \in UnresolvedLists
      BY <1>3, <2>1 DEF UnresolvedLists
    <2> QED
      BY <2>2, AbsentIsNoPart
  <1>8. i.deposedDeleted # None
    <2>1. IsFiniteSet({d \in plan.deposed : fate[d] = "done"})
      BY <1>2, FS_Subset
    <2>2. i.deposedDeleted \in Nat
      BY <1>1, <2>1, FS_CardinalityType
    <2> QED
      BY <2>2, AbsentIsNoPart
  <1>9. /\ RemovedResolved(i) = KnownOf(Gone)
        /\ RemovedUnresolved(i) = Gone \ KnownOf(Gone)
    BY <1>1, <1>6, <1>7 DEF RemovedResolved, RemovedUnresolved
  <1>10. \A a \in KnownOf(Gone) :
             i.removed[a].cloud = CloudOf[a] /\ i.removed[a].removal = HowGone(a)
    BY <1>1
  <1>11. OneEntryPerCloudIdentity(i.resolved)
    BY <1>1, <1>3, CloudsAreApart DEF OneEntryPerCloudIdentity, KnownOf
  <1>12. OneEntryPerCloudIdentity([a \in RemovedResolved(i) |-> i.removed[a].cloud])
    BY <1>3, <1>9, <1>10, CloudsAreApart DEF OneEntryPerCloudIdentity, KnownOf
  <1>13. HoldsTogether(i)
    <2>1. OneListEach(DOMAIN i.resolved, i.unresolved)
      BY <1>1 DEF OneListEach
    <2>2. OneListEach(RemovedResolved(i), RemovedUnresolved(i))
      BY <1>9 DEF OneListEach
    <2>3. \A a \in DOMAIN i.resolved : i.resolved[a] \in Supported
      BY <1>1 DEF KnownOf
    <2>4. \A a \in RemovedResolved(i) : i.removed[a].cloud \in Supported
      BY <1>9, <1>10 DEF KnownOf
    <2>5. i.plan # None /\ i.readFrom # "refresh_plan"
      BY <1>1, AbsentIsNoPart
    <2> QED
      BY <1>6, <1>7, <1>8, <1>11, <1>12, <2>1, <2>2, <2>3, <2>4, <2>5
         DEF HoldsTogether
  <1>14. ListedAsLeft(i) = {<<a, HowGone(a)>> : a \in Gone}
    <2>1. \A a \in Gone \ KnownOf(Gone) : i.removedUnresolved[a] = HowGone(a)
      BY <1>1
    <2>2. ListedAsLeft(i) = {<<a, HowGone(a)>> : a \in KnownOf(Gone)}
                               \cup {<<a, HowGone(a)>> : a \in Gone \ KnownOf(Gone)}
      BY <1>9, <1>10, <2>1 DEF ListedAsLeft
    <2>3. KnownOf(Gone) \subseteq Gone
      BY DEF KnownOf
    <2> QED
      BY <2>2, <2>3
  <1>15. CheckIdentity(i, document)
    BY <1>1, <1>14, DocumentSaysGone DEF CheckIdentity
  <1> QED
    BY <1>13, <1>15

LEMMA TrueFits == RunInv => TrueIdentityFits
  BY TrueIdentityHolds DEF TrueIdentityFits

\* The rules never turn away a true document of an apply, whatever failed and
\* whatever its log lost (models/iac/deployment.py, models/iac/tools/terraform.py).
THEOREM TruthRead == RunSpec => []TruthAccepted
  BY RunHolds, TruthIsAccepted, PTL

\* Beside a true deployment, the identities that are read say exactly what
\* left the state and how (change_types/iac/change.py _check_identity).
THEOREM RemovedAreTrue == IdentSpec => []RemovedIsTrue
  BY IdentityHolds, RemovedIsSo, PTL

\* The true identities are read beside every true deployment
\* (models/iac/resource_identities.py).
THEOREM TrueIdentityRead == IdentSpec => []TrueIdentityFits
  BY IdentityHolds, TrueFits, PTL
=============================================================================
