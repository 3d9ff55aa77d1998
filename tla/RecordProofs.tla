---------------------------- MODULE RecordProofs ----------------------------
(***************************************************************************)
(* Theorems about ChangeRecord, for every set of assertions and tallies.   *)
(***************************************************************************)
EXTENDS ChangeRecord, FiniteSetTheorems, TLAPS

(***************************************************************************)
(* The precedence of the exit codes, and what leads and comes first.       *)
(***************************************************************************)
\* Where each code of a stage stands in the precedence.
LEMMA RankOf ==
    Rank(6) = 7 /\ Rank(4) = 8 /\ Rank(3) = 9 /\ Rank(1) = 10 /\ Rank(0) = 11
BY DEF Rank, VerdictPrecedence

\* Two codes of a stage never stand at one place.
LEMMA RankTells ==
    \A c, d \in StageCode : Rank(c) \in Nat /\ (Rank(c) = Rank(d) => c = d)
BY RankOf DEF StageCode

\* Of some codes of a stage, one leads.
LEMMA LeadingLeads ==
    ASSUME NEW T \in SUBSET StageCode, T # {}
    PROVE  Leading(T) \in T /\ \A d \in T : Rank(Leading(T)) <= Rank(d)
<1>1. \E c \in T : \A d \in T : Rank(c) <= Rank(d)
  <2>1. CASE 6 \in T
    BY <2>1, RankOf DEF StageCode
  <2>2. CASE 6 \notin T /\ 4 \in T
    BY <2>2, RankOf DEF StageCode
  <2>3. CASE 6 \notin T /\ 4 \notin T /\ 3 \in T
    BY <2>3, RankOf DEF StageCode
  <2>4. CASE 6 \notin T /\ 4 \notin T /\ 3 \notin T /\ 1 \in T
    BY <2>4, RankOf DEF StageCode
  <2>5. CASE T = {0}
    BY <2>5, RankOf
  <2>6. QED
    BY <2>1, <2>2, <2>3, <2>4, <2>5 DEF StageCode
<1>2. QED
  BY <1>1 DEF Leading

\* Of some stages, one comes first.
LEMMA FirstComesFirst ==
    ASSUME NEW S \in SUBSET Stage, S # {}
    PROVE  First(S) \in S /\ \A t \in S : Place[First(S)] <= Place[t]
<1>1. /\ Place["plan"] = 1 /\ Place["pre_deploy"] = 2
      /\ Place["post_deploy"] = 3 /\ Place["post_verify"] = 4
  BY DEF Place
<1>2. \E s \in S : \A t \in S : Place[s] <= Place[t]
  <2>1. CASE "plan" \in S
    BY <2>1, <1>1 DEF Stage
  <2>2. CASE "plan" \notin S /\ "pre_deploy" \in S
    BY <2>2, <1>1 DEF Stage
  <2>3. CASE "plan" \notin S /\ "pre_deploy" \notin S /\ "post_deploy" \in S
    BY <2>3, <1>1 DEF Stage
  <2>4. CASE S = {"post_verify"}
    BY <2>4, <1>1
  <2>5. QED
    BY <2>1, <2>2, <2>3, <2>4 DEF Stage
<1>3. QED
  BY <1>2 DEF First

\* Two stages never have one place.
LEMMA PlaceTells ==
    \A s, t \in Stage : Place[s] \in Nat /\ (Place[s] = Place[t] => s = t)
BY DEF Place, Stage

(***************************************************************************)
(* The stages combined.                                                    *)
(***************************************************************************)
\* Stages with an outcome, as a record has them.
Reported(f) ==
    /\ DOMAIN f \in SUBSET Stage /\ DOMAIN f # {}
    /\ \A s \in DOMAIN f :
          f[s].code \in StageCode /\ f[s].reason \in Reason \cup {None}

\* The winning stage's code is at least as bad as every stage's.
LEMMA WinnerWins ==
    ASSUME NEW f, Reported(f)
    PROVE  /\ Winner(f) \in DOMAIN f
           /\ \A t \in DOMAIN f : Rank(f[Winner(f)].code) <= Rank(f[t].code)
<1> DEFINE Codes == {f[s].code : s \in DOMAIN f}
           Worst == {s \in DOMAIN f : f[s].code = Leading(Codes)}
<1>1. Codes \in SUBSET StageCode /\ Codes # {}
  BY DEF Reported
<1>2. Leading(Codes) \in Codes /\ \A d \in Codes : Rank(Leading(Codes)) <= Rank(d)
  BY <1>1, LeadingLeads
<1>3. Worst \in SUBSET Stage /\ Worst # {}
  BY <1>2 DEF Reported
<1>4. First(Worst) \in Worst /\ \A t \in Worst : Place[First(Worst)] <= Place[t]
  BY <1>3, FirstComesFirst
<1>5. ASSUME NEW t \in DOMAIN f
      PROVE  \/ Rank(f[First(Worst)].code) < Rank(f[t].code)
             \/ /\ Rank(f[First(Worst)].code) = Rank(f[t].code)
                /\ Place[First(Worst)] <= Place[t]
  <2>1. f[First(Worst)].code = Leading(Codes) /\ f[t].code \in Codes
    BY <1>4
  <2>2. Rank(Leading(Codes)) <= Rank(f[t].code)
    BY <2>1, <1>2
  <2>3. f[t].code \in StageCode /\ Leading(Codes) \in StageCode
    BY <1>1, <1>2, <2>1
  <2>4. CASE Rank(Leading(Codes)) = Rank(f[t].code)
    <3>1. t \in Worst
      BY <2>3, <2>4, RankTells
    <3>2. QED
      BY <3>1, <2>1, <2>4, <1>4
  <2>5. CASE Rank(Leading(Codes)) # Rank(f[t].code)
    BY <2>1, <2>2, <2>3, <2>5, RankTells
  <2>6. QED
    BY <2>4, <2>5
<1>6. /\ Winner(f) \in DOMAIN f
      /\ \A t \in DOMAIN f :
            \/ Rank(f[Winner(f)].code) < Rank(f[t].code)
            \/ Rank(f[Winner(f)].code) = Rank(f[t].code) /\ Place[Winner(f)] <= Place[t]
  <2>1. First(Worst) \in DOMAIN f
    BY <1>4
  <2>2. QED
    BY <1>5, <2>1 DEF Winner
<1>7. QED
  BY <1>6, RankTells DEF Reported

\* The combined reason is some stage's, an evaluator error's before others.
LEMMA ReasonIsAStages ==
    ASSUME NEW f, Reported(f)
    PROVE  /\ CombinedReason(f) = EvaluatorError <=> InError(f) # {}
           /\ CombinedReason(f) = None <=> Incomplete(f) = {}
           /\ CombinedReason(f) # None =>
                 \E s \in DOMAIN f : f[s].reason = CombinedReason(f)
           /\ InError(f) = {} /\ Incomplete(f) # {} =>
                 /\ First(Incomplete(f)) \in Incomplete(f)
                 /\ CombinedReason(f) = f[First(Incomplete(f))].reason
<1>1. EvaluatorError # None
  BY CoverageAssumption DEF Reason
<1>2. InError(f) \subseteq Incomplete(f)
  BY <1>1 DEF InError, Incomplete
<1>3. Incomplete(f) # {} => First(Incomplete(f)) \in Incomplete(f)
  <2>1. Incomplete(f) \in SUBSET Stage
    BY DEF Reported, Incomplete
  <2>2. QED
    BY <2>1, FirstComesFirst
<1>4. CASE InError(f) # {}
  <2>1. CombinedReason(f) = EvaluatorError
    BY <1>4 DEF CombinedReason
  <2>2. \E s \in DOMAIN f : f[s].reason = EvaluatorError
    BY <1>4 DEF InError
  <2>3. QED
    BY <1>1, <1>2, <1>4, <2>1, <2>2
<1>5. CASE InError(f) = {} /\ Incomplete(f) # {}
  <2>1. CombinedReason(f) = f[First(Incomplete(f))].reason
    BY <1>5 DEF CombinedReason
  <2>2. First(Incomplete(f)) \in DOMAIN f /\ f[First(Incomplete(f))].reason # None
    BY <1>3, <1>5 DEF Incomplete
  <2>3. f[First(Incomplete(f))].reason # EvaluatorError
    BY <1>5, <2>2 DEF InError
  <2>4. QED
    BY <1>1, <1>3, <1>5, <2>1, <2>2, <2>3
<1>6. CASE InError(f) = {} /\ Incomplete(f) = {}
  <2>1. CombinedReason(f) = None
    BY <1>6 DEF CombinedReason
  <2>2. QED
    BY <1>1, <1>6, <2>1
<1>7. QED
  BY <1>4, <1>5, <1>6

(***************************************************************************)
(* Folding one more stage in.                                              *)
(***************************************************************************)
\* A new stage with an outcome leaves the stages with outcomes.
LEMMA WithReported ==
    ASSUME NEW f, DOMAIN f = {} \/ Reported(f), NEW s \in Stage, NEW new,
           new.code \in StageCode, new.reason \in Reason \cup {None}
    PROVE  Reported(With(f, s, new))
BY DEF Reported, With

\* The combined code of one more stage is the worse of it and the rest's.
LEMMA CodeFolds ==
    ASSUME NEW f, Reported(f), NEW s \in Stage, s \notin DOMAIN f, NEW new,
           new.code \in StageCode, new.reason \in Reason \cup {None}
    PROVE  Combined(With(f, s, new)).code = Leading({Combined(f).code, new.code})
<1> DEFINE g == With(f, s, new)
           old == f[Winner(f)].code
           all == g[Winner(g)].code
           least == Leading({old, new.code})
<1>1. Reported(g)
  BY WithReported
<1>2. /\ Winner(f) \in DOMAIN f
      /\ \A t \in DOMAIN f : Rank(old) <= Rank(f[t].code)
  BY WinnerWins
<1>3. /\ Winner(g) \in DOMAIN g
      /\ \A t \in DOMAIN g : Rank(all) <= Rank(g[t].code)
  BY <1>1, WinnerWins
<1>4. old \in StageCode /\ all \in StageCode
  BY <1>1, <1>2, <1>3 DEF Reported
<1>5. /\ least \in {old, new.code}
      /\ Rank(least) <= Rank(old) /\ Rank(least) <= Rank(new.code)
  <2>1. {old, new.code} \in SUBSET StageCode /\ {old, new.code} # {}
    BY <1>4
  <2>2. QED
    BY <2>1, LeadingLeads
<1>6. Rank(all) <= Rank(old) /\ Rank(all) <= Rank(new.code)
  <2>1. s \in DOMAIN g /\ g[s] = new
    BY DEF With
  <2>2. Winner(f) \in DOMAIN g /\ g[Winner(f)] = f[Winner(f)]
    BY <1>2 DEF With
  <2>3. QED
    BY <1>3, <2>1, <2>2
<1>7. Rank(least) <= Rank(all)
  <2>1. CASE Winner(g) = s
    <3>1. all = new.code
      BY <2>1 DEF With
    <3>2. QED
      BY <3>1, <1>5
  <2>2. CASE Winner(g) # s
    <3>1. Winner(g) \in DOMAIN f /\ all = f[Winner(g)].code
      BY <2>2, <1>3 DEF With
    <3>2. Rank(old) <= Rank(all)
      BY <3>1, <1>2
    <3>3. least \in StageCode
      BY <1>4, <1>5
    <3>4. QED
      BY <3>2, <3>3, <1>4, <1>5, RankTells
  <2>3. QED
    BY <2>1, <2>2
<1>8. all = least
  BY <1>4, <1>5, <1>6, <1>7, RankTells
<1>9. QED
  BY <1>8 DEF Combined

\* The combined reason of one more stage is a fold of it and the rest's.
LEMMA ReasonFolds ==
    ASSUME NEW f, Reported(f), NEW s \in Stage, s \notin DOMAIN f, NEW new,
           new.code \in StageCode, new.reason \in Reason \cup {None}
    PROVE  CombinedReason(With(f, s, new))
               \in Ladder!FoldedReason(CombinedReason(f), new.reason)
<1> DEFINE g == With(f, s, new)
<1>1. Reported(g)
  BY WithReported
<1>2. /\ DOMAIN g = DOMAIN f \cup {s} /\ g[s] = new
      /\ \A t \in DOMAIN f : g[t] = f[t]
  BY DEF With
<1>3. InError(g) = InError(f) \cup (IF new.reason = EvaluatorError THEN {s} ELSE {})
  BY <1>2 DEF InError
<1>4. Incomplete(g) = Incomplete(f) \cup (IF new.reason # None THEN {s} ELSE {})
  BY <1>2 DEF Incomplete
<1>5. EvaluatorError # None /\ Ladder!EvaluatorError = EvaluatorError
  BY CoverageAssumption DEF Reason, EvaluatorError, Ladder!EvaluatorError
<1>6. CASE EvaluatorError \in {CombinedReason(f), new.reason}
  <2>1. InError(g) # {}
    BY <1>3, <1>6, ReasonIsAStages
  <2>2. CombinedReason(g) = EvaluatorError
    BY <1>1, <2>1, ReasonIsAStages
  <2>3. QED
    BY <1>5, <1>6, <2>2 DEF Ladder!FoldedReason
<1>7. CASE EvaluatorError \notin {CombinedReason(f), new.reason}
  <2>1. InError(f) = {} /\ InError(g) = {}
    BY <1>3, <1>7, ReasonIsAStages
  <2>2. CASE CombinedReason(f) = None
    <3>1. Incomplete(f) = {}
      BY <2>2, ReasonIsAStages
    <3>2. CASE new.reason = None
      <4>1. CombinedReason(g) = None
        BY <1>1, <1>4, <3>1, <3>2, ReasonIsAStages
      <4>2. QED
        BY <4>1, <3>2, <2>2, <1>5, <1>7 DEF Ladder!FoldedReason
    <3>3. CASE new.reason # None
      <4>1. Incomplete(g) = {s}
        BY <1>4, <3>1, <3>3
      <4>2. First(Incomplete(g)) = s
        BY <1>1, <2>1, <4>1, ReasonIsAStages
      <4>3. CombinedReason(g) = new.reason
        BY <1>1, <1>2, <2>1, <4>1, <4>2, ReasonIsAStages
      <4>4. QED
        BY <4>3, <2>2, <1>5, <1>7 DEF Ladder!FoldedReason
    <3>4. QED
      BY <3>2, <3>3
  <2>3. CASE CombinedReason(f) # None
    <3>1. Incomplete(f) # {} /\ First(Incomplete(f)) \in Incomplete(f)
          /\ CombinedReason(f) = f[First(Incomplete(f))].reason
      BY <2>1, <2>3, ReasonIsAStages
    <3>2. First(Incomplete(g)) \in Incomplete(g)
          /\ CombinedReason(g) = g[First(Incomplete(g))].reason
      BY <1>1, <1>4, <2>1, <3>1, ReasonIsAStages
    <3>3. CASE new.reason = None
      <4>1. Incomplete(g) = Incomplete(f)
        BY <1>4, <3>3
      <4>2. First(Incomplete(g)) \in DOMAIN f
        BY <4>1, <3>2 DEF Incomplete
      <4>3. CombinedReason(g) = CombinedReason(f)
        BY <4>1, <4>2, <3>1, <3>2, <1>2
      <4>4. QED
        BY <4>3, <3>3, <2>3, <1>5, <1>7 DEF Ladder!FoldedReason
    <3>4. CASE new.reason # None
      <4>1. CASE First(Incomplete(g)) = s
        <5>1. CombinedReason(g) = new.reason
          BY <4>1, <3>2, <1>2
        <5>2. QED
          BY <5>1, <3>4, <2>3, <1>5, <1>7 DEF Ladder!FoldedReason
      <4>2. CASE First(Incomplete(g)) # s
        <5>1. First(Incomplete(g)) \in Incomplete(f)
          BY <4>2, <3>2, <1>4
        <5>2. \A t \in Incomplete(g) :
                 Place[First(Incomplete(g))] <= Place[t]
          <6>1. Incomplete(g) \in SUBSET Stage /\ Incomplete(g) # {}
            BY <1>1, <3>2 DEF Reported, Incomplete
          <6>2. QED
            BY <6>1, FirstComesFirst
        <5>3. \A t \in Incomplete(f) :
                 Place[First(Incomplete(f))] <= Place[t]
          <6>1. Incomplete(f) \in SUBSET Stage
            BY DEF Reported, Incomplete
          <6>2. QED
            BY <6>1, <3>1, FirstComesFirst
        <5>4. First(Incomplete(g)) = First(Incomplete(f))
          <6>1. Place[First(Incomplete(g))] <= Place[First(Incomplete(f))]
            BY <5>2, <3>1, <1>4
          <6>2. Place[First(Incomplete(f))] <= Place[First(Incomplete(g))]
            BY <5>1, <5>3
          <6>3. First(Incomplete(f)) \in Stage /\ First(Incomplete(g)) \in Stage
            BY <3>1, <5>1 DEF Reported, Incomplete
          <6>4. QED
            BY <6>1, <6>2, <6>3, PlaceTells
        <5>5. CombinedReason(g) = CombinedReason(f)
          BY <5>4, <5>1, <3>1, <3>2, <1>2 DEF Incomplete
        <5>6. QED
          BY <5>5, <3>4, <2>3, <1>5, <1>7 DEF Ladder!FoldedReason
      <4>3. QED
        BY <4>1, <4>2
    <3>5. QED
      BY <3>3, <3>4
  <2>4. QED
    BY <2>2, <2>3
<1>8. QED
  BY <1>6, <1>7

(***************************************************************************)
(* One stage's outcome.                                                    *)
(***************************************************************************)
\* A coverage gives a code and a reason.
LEMMA OutcomeOfCoverage ==
    ASSUME NEW coverage \in CoverageOf
    PROVE  /\ Leading(StageCodes(coverage)) \in StageCodes(coverage)
           /\ \A d \in StageCodes(coverage) :
                 Rank(Leading(StageCodes(coverage))) <= Rank(d)
           /\ Leading(StageCodes(coverage)) \in StageCode
           /\ StageReason(coverage) \in Reason \cup {None}
<1>1. StageCodes(coverage) \in SUBSET StageCode /\ 0 \in StageCodes(coverage)
  BY DEF StageCodes, StageCode
<1>2. /\ Leading(StageCodes(coverage)) \in StageCodes(coverage)
      /\ \A d \in StageCodes(coverage) :
            Rank(Leading(StageCodes(coverage))) <= Rank(d)
  BY <1>1, LeadingLeads
<1>3. StageReason(coverage) \in Reason \cup {None}
  BY DEF StageReason, Reason, EvaluatorError
<1>4. QED
  BY <1>1, <1>2, <1>3

\* A stage that passes counted nothing missed, in error, undecided or failed.
LEMMA PassHasNoOther ==
    ASSUME NEW coverage \in CoverageOf, Leading(StageCodes(coverage)) = 0
    PROVE  /\ ~Missed(coverage)
           /\ \A st \in {"not_evaluated", "error", "unknown", "fail"} :
                 coverage.counts[st] = 0
<1>1. StageCodes(coverage) \subseteq {0}
  <2>1. \A d \in StageCodes(coverage) : 11 <= Rank(d)
    BY OutcomeOfCoverage, RankOf
  <2>2. QED
    BY <2>1, RankOf DEF StageCodes, StageCode
<1>2. /\ ~Missed(coverage)
      /\ ~(coverage.counts["error"] > 0)
      /\ ~(coverage.counts["unknown"] > 0)
      /\ ~(coverage.counts["fail"] > 0)
  BY <1>1 DEF StageCodes, StageCode
<1>3. ~(coverage.counts["not_evaluated"] > 0)
  BY <1>2 DEF Missed
<1>4. \A st \in {"not_evaluated", "error", "unknown", "fail"} :
         coverage.counts[st] \in Nat
  BY DEF CoverageOf, Status
<1>5. QED
  BY <1>2, <1>3, <1>4

\* The evaluations of a stage are finitely many.
LEMMA EvaluationsFinite ==
    ASSUME NEW c, NEW s, NEW results \in Evaluations(c, s)
    PROVE  /\ IsFiniteSet(DOMAIN results)
           /\ \A a \in DOMAIN results : results[a] \in Status
           /\ \A b \in AlwaysEvaluated(c.activity, s) :
                 /\ b \in DOMAIN results
                 /\ results[b] \in OwedStatus(c, b) \cup Undecided
<1>1. PICK A \in SUBSET MayEvaluate(c.activity) :
         /\ results \in [A \cup AlwaysEvaluated(c.activity, s) -> Status]
         /\ \A a \in DOMAIN results :
               results[a] \in OwedStatus(c, a) \cup Undecided
  BY DEF Evaluations
<1>2. DOMAIN results = A \cup AlwaysEvaluated(c.activity, s)
  BY <1>1
<1>3. IsFiniteSet(A)
  <2>1. IsFiniteSet(Assertions \cup {SignedProvenance})
    BY RecordAssumption, FS_AddElement
  <2>2. A \in SUBSET (Assertions \cup {SignedProvenance})
    BY DEF MayEvaluate
  <2>3. QED
    BY <2>1, <2>2, FS_Subset
<1>4. \/ AlwaysEvaluated(c.activity, s) = {}
      \/ \E b : AlwaysEvaluated(c.activity, s) = {b}
  BY DEF AlwaysEvaluated
<1>5. IsFiniteSet(A \cup AlwaysEvaluated(c.activity, s))
  <2>1. CASE AlwaysEvaluated(c.activity, s) = {}
    BY <1>3, <2>1
  <2>2. ASSUME NEW b, AlwaysEvaluated(c.activity, s) = {b}
        PROVE  IsFiniteSet(A \cup AlwaysEvaluated(c.activity, s))
    BY <1>3, <2>2, FS_AddElement
  <2>3. QED
    BY <1>4, <2>1, <2>2
<1>6. QED
  BY <1>1, <1>2, <1>5

\* A stage counts as many of each status as a natural number says.
LEMMA CountIsNat ==
    ASSUME NEW results, IsFiniteSet(DOMAIN results), NEW st
    PROVE  /\ CountOf(results, st) \in Nat
           /\ CountOf(results, st) = 0 => \A a \in DOMAIN results : results[a] # st
<1> DEFINE found == {a \in DOMAIN results : results[a] = st}
<1>1. IsFiniteSet(found)
  <2>1. found \in SUBSET DOMAIN results
    OBVIOUS
  <2>2. QED
    BY <2>1, FS_Subset
<1>2. Cardinality(found) \in Nat /\ (Cardinality(found) = 0 <=> found = {})
  BY <1>1, FS_CardinalityType, FS_EmptySet
<1>3. QED
  BY <1>2 DEF CountOf

\* What a stage counts is a coverage.
LEMMA CoverageIsTyped ==
    ASSUME NEW results, IsFiniteSet(DOMAIN results), NEW tally \in Tallies,
           NEW gaps \in SUBSET Gap
    PROVE  /\ CoverageOfStage(results, tally, gaps) \in CoverageOf
           /\ CoverageOfStage(results, tally, gaps).counts
                 = [st \in Status |-> CountOf(results, st)]
           /\ CoverageOfStage(results, tally, gaps).gaps = gaps
           /\ ~CoverageOfStage(results, tally, gaps).truncated =>
                 CoverageOfStage(results, tally, gaps).owed = Cardinality(DOMAIN results)
<1>1. tally \in Tally
  BY RecordAssumption
<1>2. \A st \in Status : CountOf(results, st) \in Nat
  BY CountIsNat
<1>3. Cardinality(DOMAIN results)
          + (IF tally.truncated THEN tally.unreached ELSE 0) \in Nat
  BY <1>1, FS_CardinalityType DEF Tally
<1>4. ~tally.truncated =>
         Cardinality(DOMAIN results)
          + (IF tally.truncated THEN tally.unreached ELSE 0) = Cardinality(DOMAIN results)
  BY FS_CardinalityType
<1>5. ~CoverageOfStage(results, tally, gaps).truncated =>
         CoverageOfStage(results, tally, gaps).owed = Cardinality(DOMAIN results)
  BY <1>4 DEF CoverageOfStage
<1>6. /\ CoverageOfStage(results, tally, gaps) \in CoverageOf
      /\ CoverageOfStage(results, tally, gaps).counts
            = [st \in Status |-> CountOf(results, st)]
      /\ CoverageOfStage(results, tally, gaps).gaps = gaps
  BY <1>1, <1>2, <1>3 DEF CoverageOfStage, CoverageOf, Tally
<1>7. QED
  BY <1>5, <1>6

(***************************************************************************)
(* A report.                                                               *)
(***************************************************************************)
\* What a stage brings when it reports with the change as `c` says.
Brought(new, s, c, gaps) ==
    /\ new.coverage \in CoverageOf
    /\ new.coverage.gaps = gaps
    /\ new.coverage.counts = [st \in Status |-> CountOf(new.results, st)]
    /\ IsFiniteSet(DOMAIN new.results)
    /\ \A a \in DOMAIN new.results : new.results[a] \in Status
    /\ ~new.coverage.truncated => new.coverage.owed = Cardinality(DOMAIN new.results)
    /\ new.code = Leading(StageCodes(new.coverage)) /\ new.code \in StageCode
    /\ new.reason = StageReason(new.coverage)
    /\ new.reason \in Reason \cup {None}
    /\ \A b \in AlwaysEvaluated(c.activity, s) :
          /\ b \in DOMAIN new.results
          /\ new.results[b] \in OwedStatus(c, b) \cup Undecided

\* A report adds one expected stage and combines them all.
LEMMA AddStep ==
    ASSUME NEW s, NEW c, NEW gaps \in SUBSET Gap, Add(s, c, gaps)
    PROVE  /\ s \in scope.expected /\ s \notin DOMAIN stages
           /\ change' = c /\ scope' = scope
           /\ \E new : /\ Brought(new, s, c, gaps)
                       /\ stages' = With(stages, s, new)
                       /\ record' = Combined(With(stages, s, new))
<1>1. PICK results \in Evaluations(c, s), tally \in Tallies :
         LET new == StageRecord(results, CoverageOfStage(results, tally, gaps)) IN
         stages' = With(stages, s, new) /\ record' = Combined(With(stages, s, new))
  BY DEF Add
<1> DEFINE coverage == CoverageOfStage(results, tally, gaps)
           new == StageRecord(results, coverage)
<1>2. /\ IsFiniteSet(DOMAIN results)
      /\ \A a \in DOMAIN results : results[a] \in Status
      /\ \A b \in AlwaysEvaluated(c.activity, s) :
            b \in DOMAIN results /\ results[b] \in OwedStatus(c, b) \cup Undecided
  BY EvaluationsFinite
<1>3. /\ coverage \in CoverageOf /\ coverage.gaps = gaps
      /\ coverage.counts = [st \in Status |-> CountOf(results, st)]
      /\ ~coverage.truncated => coverage.owed = Cardinality(DOMAIN results)
  BY <1>2, CoverageIsTyped
<1>4. /\ new.results = results /\ new.coverage = coverage
      /\ new.code = Leading(StageCodes(coverage))
      /\ new.reason = StageReason(coverage)
  BY DEF StageRecord, StageOutcome
<1>5. new.code \in StageCode /\ new.reason \in Reason \cup {None}
  BY <1>3, <1>4, OutcomeOfCoverage
<1> HIDE DEF coverage, new
<1>6. Brought(new, s, c, gaps)
  BY <1>2, <1>3, <1>4, <1>5 DEF Brought
<1>7. stages' = With(stages, s, new) /\ record' = Combined(With(stages, s, new))
  BY <1>1 DEF new, coverage
<1>8. QED
  BY <1>6, <1>7 DEF Add, Reportable

\* A report keeps the types and leaves every value recomputable.
LEMMA AddKeepsTypes ==
    ASSUME RecordTypeOK, Recomputed, NEW s, NEW c \in Change,
           NEW gaps \in SUBSET Gap, Add(s, c, gaps)
    PROVE  RecordTypeOK' /\ Recomputed'
<1>1. /\ s \in scope.expected /\ s \notin DOMAIN stages
      /\ change' = c /\ scope' = scope
  BY AddStep
<1>2. PICK new : /\ Brought(new, s, c, gaps)
                 /\ stages' = With(stages, s, new)
                 /\ record' = Combined(With(stages, s, new))
  BY AddStep
<1>3. s \in Stage /\ DOMAIN stages \in SUBSET Stage
  BY <1>1 DEF RecordTypeOK
<1>4. /\ DOMAIN stages' = DOMAIN stages \cup {s} /\ stages'[s] = new
      /\ \A t \in DOMAIN stages : stages'[t] = stages[t]
  BY <1>1, <1>2 DEF With
<1>5. Reported(stages')
  <2>1. DOMAIN stages = {} \/ Reported(stages)
    BY <1>3 DEF RecordTypeOK, Reported
  <2>2. QED
    BY <1>2, <1>3, <2>1, WithReported DEF Brought
<1>6. record' \in Outcome
  <2>1. Winner(stages') \in DOMAIN stages'
    BY <1>5, WinnerWins
  <2>2. stages'[Winner(stages')].code \in StageCode /\ Winner(stages') \in Stage
    BY <1>5, <2>1 DEF Reported
  <2>3. CombinedReason(stages') \in Reason \cup {None}
    BY <1>5, ReasonIsAStages DEF Reported
  <2>4. record' = Combined(stages')
    BY <1>2
  <2>5. QED
    BY <2>2, <2>3, <2>4 DEF Combined, Outcome
<1>7. record' # None
  BY <1>6, CoverageAssumption DEF Outcome
<1>8. RecordTypeOK'
  <2>1. change' \in Change /\ scope'.expected \subseteq Stage
    BY <1>1 DEF RecordTypeOK
  <2>2. DOMAIN stages' \subseteq scope'.expected
    BY <1>1, <1>4 DEF RecordTypeOK
  <2>3. \A t \in DOMAIN stages' :
           /\ stages'[t].coverage \in CoverageOf
           /\ stages'[t].code \in StageCode
           /\ stages'[t].reason \in Reason \cup {None}
    BY <1>2, <1>4 DEF RecordTypeOK, Brought
  <2>4. QED
    BY <1>4, <1>6, <1>7, <2>1, <2>2, <2>3 DEF RecordTypeOK
<1>9. Recomputed'
  <2>1. record' = Combined(stages')
    BY <1>2
  <2>2. \A t \in DOMAIN stages' :
           /\ stages'[t].code = Leading(StageCodes(stages'[t].coverage))
           /\ stages'[t].reason = StageReason(stages'[t].coverage)
           /\ IsFiniteSet(DOMAIN stages'[t].results)
           /\ \A a \in DOMAIN stages'[t].results : stages'[t].results[a] \in Status
           /\ stages'[t].coverage.counts
                 = [st \in Status |-> CountOf(stages'[t].results, st)]
           /\ ~stages'[t].coverage.truncated =>
                 stages'[t].coverage.owed = Cardinality(DOMAIN stages'[t].results)
    BY <1>2, <1>4 DEF Recomputed, Brought
  <2>3. QED
    BY <2>1, <2>2 DEF Recomputed
<1>10. QED
  BY <1>8, <1>9

\* A report keeps the built-in checks, while the change only gains what the
\* reporting stage read.
LEMMA AddKeepsBuiltIns ==
    ASSUME RecordTypeOK, BuiltInsKept, NEW s, NEW c, c.activity = change.activity,
           NEW gaps \in SUBSET Gap, Add(s, c, gaps),
           \A t \in DOMAIN stages : \A b \in AlwaysEvaluated(change.activity, t) :
               OwedStatus(c, b) = OwedStatus(change, b)
    PROVE  BuiltInsKept'
<1>1. s \notin DOMAIN stages /\ change' = c
  BY AddStep
<1>2. PICK new : Brought(new, s, c, gaps) /\ stages' = With(stages, s, new)
  BY AddStep
<1>3. /\ DOMAIN stages' = DOMAIN stages \cup {s} /\ stages'[s] = new
      /\ \A t \in DOMAIN stages : stages'[t] = stages[t]
  BY <1>1, <1>2 DEF With
<1>4. ASSUME NEW t \in DOMAIN stages', NEW b \in AlwaysEvaluated(change'.activity, t)
      PROVE  /\ b \in DOMAIN stages'[t].results
             /\ stages'[t].results[b] \in OwedStatus(change', b) \cup Undecided
  <2>1. CASE t = s
    BY <1>1, <1>2, <1>3, <1>4, <2>1 DEF Brought
  <2>2. CASE t \in DOMAIN stages
    <3>1. b \in AlwaysEvaluated(change.activity, t)
      BY <1>1
    <3>2. QED
      BY <1>1, <1>3, <2>2, <3>1 DEF BuiltInsKept
  <2>3. QED
    BY <1>3, <2>1, <2>2
<1>5. QED
  BY <1>4 DEF BuiltInsKept

(***************************************************************************)
(* Each action keeps the invariant.                                        *)
(***************************************************************************)
\* Which built-in checks a stage always evaluates.
LEMMA BuiltInsOf ==
    ASSUME NEW activity, NEW s, NEW b \in AlwaysEvaluated(activity, s)
    PROVE  /\ s = "plan" => b = BuildCommit
           /\ s # "pre_deploy"
           /\ s = "post_deploy" => b \in {AppliedPlan, ReportedImage}
           /\ s = "post_verify" => b \in {NoDrift, RunningImage}
BY DEF AlwaysEvaluated

\* The gap of an incomplete plan is one of the gaps.
LEMMA PlanGapsAreGaps == \A s : PlanGaps(s) \subseteq SUBSET Gap
BY DEF PlanGaps, Gap

LEMMA PlanKeepsInv == RecordInv /\ ReportPlan => RecordInv'
<1> SUFFICES ASSUME RecordInv, NEW gaps \in PlanGaps("plan"),
                    Add("plan", change, gaps)
             PROVE  RecordInv'
  BY DEF ReportPlan
<1>1. gaps \in SUBSET Gap /\ change \in Change
  BY PlanGapsAreGaps DEF RecordInv, RecordTypeOK
<1>2. RecordTypeOK' /\ Recomputed'
  BY <1>1, AddKeepsTypes DEF RecordInv
<1>3. BuiltInsKept'
  BY <1>1, AddKeepsBuiltIns DEF RecordInv
<1>4. /\ change' = change /\ scope' = scope
      /\ \E new : stages' = With(stages, "plan", new)
  BY <1>1, AddStep
<1>5. Reads'
  <2>1. /\ DOMAIN stages' = DOMAIN stages \cup {"plan"}
        /\ \A t \in DOMAIN stages : t # "plan" => stages'[t] = stages[t]
    BY <1>4 DEF With
  <2>2. QED
    BY <1>4, <2>1 DEF RecordInv, Reads
<1>6. QED
  BY <1>2, <1>3, <1>5 DEF RecordInv

LEMMA PreDeployKeepsInv == RecordInv /\ ReportPreDeploy => RecordInv'
<1> SUFFICES ASSUME RecordInv, NEW gaps \in PlanGaps("pre_deploy"),
                    Add("pre_deploy", change, gaps)
             PROVE  RecordInv'
  BY DEF ReportPreDeploy
<1>1. gaps \in SUBSET Gap /\ change \in Change
  BY PlanGapsAreGaps DEF RecordInv, RecordTypeOK
<1>2. RecordTypeOK' /\ Recomputed'
  BY <1>1, AddKeepsTypes DEF RecordInv
<1>3. BuiltInsKept'
  BY <1>1, AddKeepsBuiltIns DEF RecordInv
<1>4. /\ change' = change /\ scope' = scope
      /\ \E new : stages' = With(stages, "pre_deploy", new)
  BY <1>1, AddStep
<1>5. Reads'
  <2>1. /\ DOMAIN stages' = DOMAIN stages \cup {"pre_deploy"}
        /\ \A t \in DOMAIN stages : t # "pre_deploy" => stages'[t] = stages[t]
    BY <1>4 DEF With
  <2>2. QED
    BY <1>4, <2>1 DEF RecordInv, Reads
<1>6. QED
  BY <1>2, <1>3, <1>5 DEF RecordInv

LEMMA PostDeployKeepsInv == RecordInv /\ ReportPostDeploy => RecordInv'
<1> SUFFICES ASSUME RecordInv, NEW d \in Deployment,
                    NEW planGaps \in PlanGaps("post_deploy"),
                    Add("post_deploy", [change EXCEPT !.deployment = d],
                        planGaps \cup {g \in {"state_not_read"} : ~d.stateRead})
             PROVE  RecordInv'
  BY DEF ReportPostDeploy
<1> DEFINE c == [change EXCEPT !.deployment = d]
           gaps == planGaps \cup {g \in {"state_not_read"} : ~d.stateRead}
<1>1. /\ change \in Change /\ c \in Change /\ gaps \in SUBSET Gap
      /\ c.deployment = d
      /\ \A f \in {"activity", "server", "drift", "commit", "sent", "check"} :
            c[f] = change[f]
  BY PlanGapsAreGaps DEF Gap, RecordInv, RecordTypeOK, Change
<1>2. /\ c.activity = change.activity /\ c.server = change.server
      /\ c.commit = change.commit /\ c.check = change.check
  BY <1>1
<1> HIDE DEF c, gaps
<1>3. Add("post_deploy", c, gaps)
  BY DEF c, gaps
<1>4. RecordTypeOK' /\ Recomputed'
  BY <1>1, <1>3, AddKeepsTypes DEF RecordInv
<1>5. /\ change' = c /\ scope' = scope /\ "post_deploy" \notin DOMAIN stages
      /\ \E new : /\ Brought(new, "post_deploy", c, gaps)
                  /\ stages' = With(stages, "post_deploy", new)
  BY <1>1, <1>3, AddStep
<1>6. BuiltInsKept'
  <2>1. ASSUME NEW t \in DOMAIN stages, NEW b \in AlwaysEvaluated(change.activity, t)
        PROVE  OwedStatus(c, b) = OwedStatus(change, b)
    <3>1. t \in {"plan", "pre_deploy", "post_verify"}
      BY <1>5 DEF RecordInv, RecordTypeOK, Stage
    <3>2. b \in {BuildCommit, NoDrift, RunningImage}
      BY <3>1, BuiltInsOf
    <3>3. QED
      BY <1>2, <3>2
         DEF OwedStatus, CarriedOutOwes, CommitOwes, BuildCommit, NoDrift,
             RunningImage, AppliedPlan, ReportedImage, SignedProvenance
  <2>2. QED
    BY <1>1, <1>2, <1>3, <2>1, AddKeepsBuiltIns DEF RecordInv
<1>7. Reads'
  <2>1. /\ DOMAIN stages' = DOMAIN stages \cup {"post_deploy"}
        /\ stages'["post_deploy"].coverage.gaps = gaps
    BY <1>5 DEF With, Brought
  <2>2. d # None
    BY RecordAssumption
  <2>3. change.deployment = None /\ change.check = None
    BY <1>5 DEF RecordInv, Reads
  <2>4. ~d.stateRead => "state_not_read" \in gaps
    BY DEF gaps
  <2>5. "post_verify" \notin DOMAIN stages'
    BY <2>1, <2>3 DEF RecordInv, Reads
  <2>6. QED
    BY <1>1, <1>2, <1>5, <2>1, <2>2, <2>3, <2>4, <2>5 DEF RecordInv, Reads
<1>8. QED
  BY <1>4, <1>6, <1>7 DEF RecordInv

LEMMA PostVerifyKeepsInv == RecordInv /\ ReportPostVerify => RecordInv'
<1> SUFFICES ASSUME RecordInv, NEW check \in Reading,
                    NEW gaps \in PlanGaps("post_verify"),
                    change.deployment # None, change.deployment.stateRead,
                    Add("post_verify", [change EXCEPT !.check = check], gaps)
             PROVE  RecordInv'
  BY DEF ReportPostVerify
<1> DEFINE c == [change EXCEPT !.check = check]
<1>1. /\ change \in Change /\ c \in Change /\ gaps \in SUBSET Gap
      /\ c.activity = change.activity /\ c.server = change.server
      /\ c.commit = change.commit /\ c.deployment = change.deployment
      /\ c.check = check
  BY PlanGapsAreGaps DEF RecordInv, RecordTypeOK, Change
<1> HIDE DEF c
<1>2. Add("post_verify", c, gaps)
  BY DEF c
<1>3. RecordTypeOK' /\ Recomputed'
  BY <1>1, <1>2, AddKeepsTypes DEF RecordInv
<1>4. /\ change' = c /\ scope' = scope /\ "post_verify" \notin DOMAIN stages
      /\ \E new : stages' = With(stages, "post_verify", new)
  BY <1>1, <1>2, AddStep
<1>5. BuiltInsKept'
  <2>1. ASSUME NEW t \in DOMAIN stages, NEW b \in AlwaysEvaluated(change.activity, t)
        PROVE  OwedStatus(c, b) = OwedStatus(change, b)
    <3>1. t \in {"plan", "pre_deploy", "post_deploy"}
      BY <1>4 DEF RecordInv, RecordTypeOK, Stage
    <3>2. b \in {BuildCommit, AppliedPlan, ReportedImage}
      BY <3>1, BuiltInsOf
    <3>3. QED
      BY <1>1, <3>2
         DEF OwedStatus, CarriedOutOwes, CommitOwes, BuildCommit, NoDrift,
             RunningImage, AppliedPlan, ReportedImage, SignedProvenance
  <2>2. QED
    BY <1>1, <1>2, <2>1, AddKeepsBuiltIns DEF RecordInv
<1>6. Reads'
  <2>1. /\ DOMAIN stages' = DOMAIN stages \cup {"post_verify"}
        /\ \A t \in DOMAIN stages : t # "post_verify" => stages'[t] = stages[t]
    BY <1>4 DEF With
  <2>2. check # None
    BY RecordAssumption
  <2>3. "post_deploy" \in DOMAIN stages
    BY DEF RecordInv, Reads
  <2>4. QED
    BY <1>1, <1>4, <2>1, <2>2, <2>3 DEF RecordInv, Reads
<1>7. QED
  BY <1>3, <1>5, <1>6 DEF RecordInv

LEMMA InitHolds == Init => RecordInv
<1> SUFFICES ASSUME Init PROVE RecordInv
  OBVIOUS
<1>1. DOMAIN stages = {} /\ record = None
  BY DEF Init
<1>2. /\ scope.expected = StagesOf(change.activity) \ DOMAIN scope.left
      /\ DOMAIN scope.left \subseteq {"pre_deploy", "post_verify"}
  BY DEF Init, Scopes
<1>3. change \in Change /\ change.deployment = None /\ change.check = None
  BY DEF Init
<1>4. scope.expected \subseteq Stage
  BY <1>2, <1>3 DEF StagesOf, Change, Activity, Stage
<1>5. QED
  BY <1>1, <1>2, <1>3, <1>4
     DEF RecordInv, RecordTypeOK, Recomputed, Reads, BuiltInsKept

LEMMA StutterKeepsInv == RecordInv /\ UNCHANGED vars => RecordInv'
BY DEF vars, RecordInv, RecordTypeOK, Recomputed, Reads, BuiltInsKept, Complete

(***************************************************************************)
(* The record's values are the ones a reader recomputes, whatever stages   *)
(* report and in whatever order (models/stages.py, integrity_problems),    *)
(* and its built-in checks found what the change says they must.           *)
(***************************************************************************)
THEOREM RecordInvariant == Spec => []RecordInv
<1>1. Init => RecordInv
  BY InitHolds
<1>2. RecordInv /\ [Next]_vars => RecordInv'
  BY PlanKeepsInv, PreDeployKeepsInv, PostDeployKeepsInv, PostVerifyKeepsInv,
     StutterKeepsInv DEF Next
<1>3. QED
  BY <1>1, <1>2, PTL DEF Spec

(***************************************************************************)
(* The state of a record always has its type.                              *)
(***************************************************************************)
THEOREM RecordTypeCorrect == Spec => []RecordTypeOK
<1>1. RecordInv => RecordTypeOK
  BY DEF RecordInv
<1>2. QED
  BY <1>1, RecordInvariant, PTL

\* A record that has stages is their combination, by stages with outcomes.
LEMMA RecordIsCombined ==
    ASSUME RecordInv, record # None
    PROVE  /\ Reported(stages) /\ record = Combined(stages)
           /\ Winner(stages) \in DOMAIN stages
           /\ record.code = stages[Winner(stages)].code
           /\ \A t \in DOMAIN stages : Rank(record.code) <= Rank(stages[t].code)
<1>1. Reported(stages) /\ record = Combined(stages)
  BY DEF RecordInv, RecordTypeOK, Recomputed, Reported
<1>2. QED
  BY <1>1, WinnerWins DEF Combined

(***************************************************************************)
(* The stages counted again.                                               *)
(***************************************************************************)
\* A sum of naturals is one, has nothing in it only if no part has, and is
\* below another only if a part of it is.
LEMMA SumOfParts ==
    ASSUME NEW S \in SUBSET Stage, NEW m \in [S -> Nat], NEW n \in [S -> Nat]
    PROVE  /\ Total(n) \in Nat
           /\ Total(n) > 0 <=> \E s \in S : n[s] > 0
           /\ Total(m) < Total(n) => \E s \in S : m[s] < n[s]
<1> DEFINE At(f, s) == IF s \in S THEN f[s] ELSE 0
<1>1. \A s \in Stage : At(m, s) \in Nat /\ At(n, s) \in Nat
  OBVIOUS
<1>2. /\ Total(m) = At(m, "plan") + At(m, "pre_deploy")
                     + At(m, "post_deploy") + At(m, "post_verify")
      /\ Total(n) = At(n, "plan") + At(n, "pre_deploy")
                     + At(n, "post_deploy") + At(n, "post_verify")
  BY DEF Total
<1>3. Total(n) > 0 => \E s \in Stage : At(n, s) > 0
  BY <1>1, <1>2 DEF Stage
<1>4. ASSUME NEW s \in S, n[s] > 0 PROVE Total(n) > 0
  <2>1. s \in Stage /\ At(n, s) > 0
    BY <1>4
  <2> HIDE DEF At
  <2>2. QED
    BY <2>1, <1>1, <1>2 DEF Stage
<1>5. Total(m) < Total(n) => \E s \in Stage : At(m, s) < At(n, s)
  BY <1>1, <1>2 DEF Stage
<1>6. Total(n) \in Nat
  BY <1>1, <1>2 DEF Stage
<1>7. QED
  BY <1>3, <1>4, <1>5, <1>6

\* Stages whose outcomes are those of their coverage.
Counted(f) ==
    /\ DOMAIN f \in SUBSET Stage /\ DOMAIN f # {}
    /\ \A s \in DOMAIN f :
          /\ f[s].coverage \in CoverageOf
          /\ f[s].code = Leading(StageCodes(f[s].coverage))
          /\ f[s].reason = StageReason(f[s].coverage)

\* What the combined coverage counts, some stage counted; and the reverse, but
\* for what sums may hide.
LEMMA CombinedCounts ==
    ASSUME NEW f, Counted(f)
    PROVE  /\ \A st \in Status :
                 CombinedCoverage(f).counts[st] > 0
                 <=> \E s \in DOMAIN f : f[s].coverage.counts[st] > 0
           /\ CombinedCoverage(f).replaced > 0
                 <=> \E s \in DOMAIN f : f[s].coverage.replaced > 0
           /\ \A g : g \in CombinedCoverage(f).gaps
                 <=> \E s \in DOMAIN f : g \in f[s].coverage.gaps
           /\ Missed(CombinedCoverage(f)) => \E s \in DOMAIN f : Missed(f[s].coverage)
<1> DEFINE S == DOMAIN f
           owed == [s \in S |-> f[s].coverage.owed]
           evaluated == [s \in S |-> f[s].coverage.evaluated]
           replaced == [s \in S |-> f[s].coverage.replaced]
           Count(st) == [s \in S |-> f[s].coverage.counts[st]]
           all == CombinedCoverage(f)
<1>1. S \in SUBSET Stage /\ S # {}
  BY DEF Counted
<1>2. /\ owed \in [S -> Nat] /\ evaluated \in [S -> Nat] /\ replaced \in [S -> Nat]
      /\ \A st \in Status : Count(st) \in [S -> Nat]
  BY DEF Counted, CoverageOf
<1>3. /\ all.subjects = f[First(S)].coverage.subjects
      /\ all.owed = Total(owed) /\ all.evaluated = Total(evaluated)
      /\ all.gaps = UNION {f[s].coverage.gaps : s \in S}
      /\ all.truncated = (\E s \in S : f[s].coverage.truncated)
      /\ all.replaced = Total(replaced)
  BY DEF CombinedCoverage, Replaced
<1>4. \A st \in Status : all.counts[st] = Total(Count(st))
  BY DEF CombinedCoverage
<1>5. \A st \in Status : all.counts[st] > 0 <=> \E s \in S : f[s].coverage.counts[st] > 0
  <2> SUFFICES ASSUME NEW st \in Status
               PROVE  all.counts[st] > 0 <=> \E s \in S : Count(st)[s] > 0
    OBVIOUS
  <2>1. Total(Count(st)) > 0 <=> \E s \in S : Count(st)[s] > 0
    BY <1>1, <1>2, SumOfParts
  <2>2. QED
    BY <2>1, <1>4
<1>6. all.replaced > 0 <=> \E s \in S : f[s].coverage.replaced > 0
  <2>1. Total(replaced) > 0 <=> \E s \in S : replaced[s] > 0
    BY <1>1, <1>2, SumOfParts
  <2>2. QED
    BY <2>1, <1>3
<1>7. \A g : g \in all.gaps <=> \E s \in S : g \in f[s].coverage.gaps
  BY <1>3
<1>8. ASSUME Missed(all) PROVE \E s \in S : Missed(f[s].coverage)
  <2>1. CASE all.owed = 0
    <3>1. PICK s \in S : TRUE
      BY <1>1
    <3>2. ~(owed[s] > 0)
      <4>1. Total(owed) > 0 <=> \E t \in S : owed[t] > 0
        BY <1>1, <1>2, SumOfParts
      <4>2. QED
        BY <4>1, <2>1, <1>3
    <3>3. owed[s] \in Nat /\ owed[s] = f[s].coverage.owed
      BY <1>2
    <3>4. QED
      BY <3>2, <3>3 DEF Missed
  <2>2. CASE all.subjects = 0
    <3>1. First(S) \in S
      BY <1>1, FirstComesFirst
    <3>2. QED
      BY <3>1, <2>2, <1>3 DEF Missed
  <2>3. CASE all.evaluated < all.owed
    <3>1. \E s \in S : evaluated[s] < owed[s]
      BY <2>3, <1>1, <1>2, <1>3, SumOfParts
    <3>2. QED
      BY <3>1 DEF Missed
  <2>4. CASE all.counts["not_evaluated"] > 0
    BY <2>4, <1>5 DEF Missed, Status
  <2>5. CASE all.truncated
    BY <2>5, <1>3 DEF Missed
  <2>6. CASE "state_not_read" \in all.gaps
    BY <2>6, <1>7 DEF Missed
  <2>7. QED
    BY <1>8, <2>1, <2>2, <2>3, <2>4, <2>5, <2>6 DEF Missed
<1>9. QED
  BY <1>5, <1>6, <1>7, <1>8

\* Every code the combined counts call for, some stage's own call for.
LEMMA RecountedCodes ==
    ASSUME NEW f, Counted(f), NEW c \in StageCodes(CombinedCoverage(f))
    PROVE  \E s \in DOMAIN f : c \in StageCodes(f[s].coverage)
<1> DEFINE all == CombinedCoverage(f)
<1>1. {"error", "unknown", "fail"} \subseteq Status /\ DOMAIN f # {}
  BY DEF Status, Counted
<1>2. CASE c = 0
  BY <1>1, <1>2 DEF StageCodes, StageCode
<1>3. CASE c = 6 /\ Missed(all)
  BY <1>3, CombinedCounts DEF StageCodes, StageCode
<1>4. CASE c = 4 /\ all.counts["error"] > 0
  BY <1>1, <1>4, CombinedCounts DEF StageCodes, StageCode
<1>5. CASE c = 3 /\ all.counts["unknown"] > 0
  BY <1>1, <1>5, CombinedCounts DEF StageCodes, StageCode
<1>6. CASE c = 1 /\ all.counts["fail"] > 0
  BY <1>1, <1>6, CombinedCounts DEF StageCodes, StageCode
<1>7. QED
  BY <1>2, <1>3, <1>4, <1>5, <1>6 DEF StageCodes

\* The combined counts give a reason exactly when some stage has one, and an
\* evaluator error's exactly when some stage has that.
LEMMA RecountedReason ==
    ASSUME NEW f, Counted(f)
    PROVE  LET recount == StageReason(CombinedCoverage(f)) IN
           /\ recount = None <=> Incomplete(f) = {}
           /\ recount = EvaluatorError <=> InError(f) # {}
<1> DEFINE all == CombinedCoverage(f)
<1>1. /\ None \notin Reason
      /\ EvaluatorError = "required_policy_evaluation_failed"
      /\ Reason = {EvaluatorError, "state_not_read", "plan_not_complete",
                   "upstream_state_unavailable"}
  BY CoverageAssumption DEF Reason, EvaluatorError
<1>2. \A c : /\ StageReason(c) = EvaluatorError <=> c.counts["error"] > 0
             /\ StageReason(c) # None <=>
                  \/ c.counts["error"] > 0
                  \/ "state_not_read" \in c.gaps
                  \/ "plan_incomplete" \in c.gaps
                  \/ c.replaced > 0
  BY <1>1 DEF StageReason
<1>3. /\ all.counts["error"] > 0 <=> \E s \in DOMAIN f : f[s].coverage.counts["error"] > 0
      /\ "state_not_read" \in all.gaps
            <=> \E s \in DOMAIN f : "state_not_read" \in f[s].coverage.gaps
      /\ "plan_incomplete" \in all.gaps
            <=> \E s \in DOMAIN f : "plan_incomplete" \in f[s].coverage.gaps
      /\ all.replaced > 0 <=> \E s \in DOMAIN f : f[s].coverage.replaced > 0
  BY CombinedCounts DEF Status
<1>4. StageReason(all) = EvaluatorError <=> InError(f) # {}
  <2>1. InError(f) # {} <=> \E s \in DOMAIN f : StageReason(f[s].coverage) = EvaluatorError
    BY DEF InError, Counted
  <2>2. QED
    BY <2>1, <1>2, <1>3
<1>5. StageReason(all) # None <=> Incomplete(f) # {}
  <2>1. Incomplete(f) # {} <=> \E s \in DOMAIN f : StageReason(f[s].coverage) # None
    BY DEF Incomplete, Counted
  <2>2. QED
    BY <2>1, <1>2, <1>3
<1>6. QED
  BY <1>4, <1>5

\* A record's stages are counted.
LEMMA RecordIsCounted ==
    ASSUME RecordInv, record # None PROVE Counted(stages)
BY DEF RecordInv, RecordTypeOK, Recomputed, Counted

(***************************************************************************)
(* A record's verdict is never better than its combined counts would give, *)
(* whatever the sums over its stages hide (combine).                       *)
(***************************************************************************)
THEOREM NotBetterThanRecount == Spec => []NeverBetterThanRecount
<1>1. RecordInv => NeverBetterThanRecount
  <2> SUFFICES ASSUME RecordInv, record # None
               PROVE  Rank(record.code)
                          <= Rank(Leading(StageCodes(CombinedCoverage(stages))))
    BY DEF NeverBetterThanRecount
  <2> DEFINE codes == StageCodes(CombinedCoverage(stages))
  <2>1. Counted(stages) /\ Reported(stages)
    BY RecordIsCounted, RecordIsCombined
  <2>2. Leading(codes) \in codes
    <3>1. codes \in SUBSET StageCode /\ 0 \in codes
      BY DEF StageCodes, StageCode
    <3>2. QED
      BY <3>1, LeadingLeads
  <2>3. PICK s \in DOMAIN stages : Leading(codes) \in StageCodes(stages[s].coverage)
    BY <2>1, <2>2, RecountedCodes
  <2>4. Rank(stages[s].code) <= Rank(Leading(codes))
    BY <2>1, <2>3, OutcomeOfCoverage DEF Counted
  <2>5. Rank(record.code) <= Rank(stages[s].code)
    BY RecordIsCombined
  <2>6. /\ Rank(record.code) \in Nat /\ Rank(stages[s].code) \in Nat
        /\ Rank(Leading(codes)) \in Nat
    <3>1. record.code \in StageCode /\ stages[s].code \in StageCode
      BY <2>1, RecordIsCombined DEF Reported
    <3>2. Leading(codes) \in StageCode
      BY <2>2 DEF StageCodes
    <3>3. QED
      BY <3>1, <3>2, RankTells
  <2>7. QED
    BY <2>4, <2>5, <2>6
<1>2. QED
  BY <1>1, RecordInvariant, PTL

(***************************************************************************)
(* Every cause of incompleteness stays listed in the combined coverage, in *)
(* whichever stage it was found (combine, stage_outcome).                  *)
(***************************************************************************)
THEOREM CausesListed == Spec => []CausesStayListed
<1>1. RecordInv => CausesStayListed
  <2> SUFFICES ASSUME RecordInv, record # None
               PROVE  LET recount == StageReason(CombinedCoverage(stages)) IN
                      /\ (record.reason = None) <=> (recount = None)
                      /\ (record.reason = EvaluatorError) <=> (recount = EvaluatorError)
    BY DEF CausesStayListed
  <2>1. Counted(stages) /\ Reported(stages) /\ record = Combined(stages)
    BY RecordIsCounted, RecordIsCombined
  <2>2. record.reason = CombinedReason(stages)
    BY <2>1 DEF Combined
  <2>3. QED
    BY <2>1, <2>2, ReasonIsAStages, RecountedReason
<1>2. QED
  BY <1>1, RecordInvariant, PTL

\* Under a passing record every stage missed nothing, and no evaluation of it
\* is unknown, failed, or decided nothing.
LEMMA PassedStage ==
    ASSUME RecordInv, record # None, record.code = 0, NEW s \in DOMAIN stages
    PROVE  /\ ~Missed(stages[s].coverage)
           /\ \A a \in DOMAIN stages[s].results :
                 stages[s].results[a] \in {"pass", "not_applicable"}
<1>1. stages[s].coverage \in CoverageOf /\ stages[s].code \in StageCode
  BY DEF RecordInv, RecordTypeOK
<1>2. stages[s].code = 0
  <2>1. 11 <= Rank(stages[s].code)
    BY RecordIsCombined, RankOf
  <2>2. QED
    BY <1>1, <2>1, RankOf DEF StageCode
<1>3. Leading(StageCodes(stages[s].coverage)) = 0
  BY <1>2 DEF RecordInv, Recomputed
<1>4. /\ ~Missed(stages[s].coverage)
      /\ \A st \in {"not_evaluated", "error", "unknown", "fail"} :
            stages[s].coverage.counts[st] = 0
  BY <1>1, <1>3, PassHasNoOther
<1>5. \A st \in {"not_evaluated", "error", "unknown", "fail"} :
         CountOf(stages[s].results, st) = 0
  <2>1. stages[s].coverage.counts = [st \in Status |-> CountOf(stages[s].results, st)]
    BY DEF RecordInv, Recomputed
  <2>2. QED
    BY <1>4, <2>1 DEF Status
<1>6. IsFiniteSet(DOMAIN stages[s].results)
  BY DEF RecordInv, Recomputed
<1>7. ASSUME NEW a \in DOMAIN stages[s].results
      PROVE  stages[s].results[a] \in {"pass", "not_applicable"}
  <2>1. stages[s].results[a] \notin {"not_evaluated", "error", "unknown", "fail"}
    BY <1>5, <1>6, CountIsNat
  <2>2. stages[s].results[a] \in Status
    BY DEF RecordInv, Recomputed
  <2>3. QED
    BY <2>1, <2>2 DEF Status
<1>8. QED
  BY <1>4, <1>7

\* Under a passing record a built-in check passed.
LEMMA PassedBuiltIn ==
    ASSUME RecordInv, record # None, record.code = 0,
           NEW s \in DOMAIN stages, NEW b \in AlwaysEvaluated(change.activity, s)
    PROVE  /\ ~Missed(stages[s].coverage)
           /\ stages[s].results[b] \in OwedStatus(change, b)
           /\ stages[s].results[b] \notin {"unknown", "fail"}
<1>1. /\ b \in DOMAIN stages[s].results
      /\ stages[s].results[b] \in OwedStatus(change, b) \cup Undecided
  BY DEF RecordInv, BuiltInsKept
<1>2. /\ ~Missed(stages[s].coverage)
      /\ stages[s].results[b] \in {"pass", "not_applicable"}
  BY <1>1, PassedStage
<1>3. QED
  BY <1>1, <1>2 DEF Undecided

\* A passing record deployed what was checked and read the state after it.
LEMMA PassedDeployment ==
    ASSUME RecordInv, record # None, record.code = 0, change.deployment # None
    PROVE  change.deployment.asChecked /\ change.deployment.stateRead
<1>1. "post_deploy" \in DOMAIN stages /\ "post_deploy" \in StagesOf(change.activity)
  BY DEF RecordInv, RecordTypeOK, Reads
<1>2. change \in Change
  BY DEF RecordInv, RecordTypeOK
<1>3. PICK b : b \in AlwaysEvaluated(change.activity, "post_deploy")
               /\ b \in {AppliedPlan, ReportedImage}
  <2>1. change.activity \in {"iac_change", "image_deploy"}
    BY <1>1, <1>2 DEF StagesOf, Change, Activity
  <2>2. QED
    BY <2>1 DEF AlwaysEvaluated
<1>4. /\ ~Missed(stages["post_deploy"].coverage)
      /\ stages["post_deploy"].results[b] \in OwedStatus(change, b)
      /\ stages["post_deploy"].results[b] \notin {"unknown", "fail"}
  BY <1>1, <1>3, PassedBuiltIn
<1>5. OwedStatus(change, b) = {IF change.deployment.asChecked THEN "pass" ELSE "fail"}
  BY <1>3
     DEF OwedStatus, CarriedOutOwes, CommitOwes, BuildCommit, NoDrift,
             RunningImage, AppliedPlan, ReportedImage, SignedProvenance
<1>6. change.deployment.asChecked
  BY <1>4, <1>5
<1>7. "state_not_read" \notin stages["post_deploy"].coverage.gaps
  BY <1>4 DEF Missed
<1>8. change.deployment.stateRead
  BY <1>7 DEF RecordInv, Reads
<1>9. QED
  BY <1>6, <1>8

\* A passing record read back what was deployed, if it read back at all.
LEMMA PassedCheck ==
    ASSUME RecordInv, record # None, record.code = 0, change.check # None
    PROVE  change.check = "pass"
<1>1. "post_verify" \in DOMAIN stages /\ "post_verify" \in StagesOf(change.activity)
  BY DEF RecordInv, RecordTypeOK, Reads
<1>2. change \in Change
  BY DEF RecordInv, RecordTypeOK
<1>3. PICK b : b \in AlwaysEvaluated(change.activity, "post_verify")
               /\ b \in {NoDrift, RunningImage}
  <2>1. change.activity \in {"iac_change", "image_deploy"}
    BY <1>1, <1>2 DEF StagesOf, Change, Activity
  <2>2. QED
    BY <2>1 DEF AlwaysEvaluated
<1>4. /\ stages["post_verify"].results[b] \in OwedStatus(change, b)
      /\ stages["post_verify"].results[b] \notin {"unknown", "fail"}
  BY <1>1, <1>3, PassedBuiltIn
<1>5. OwedStatus(change, b) = {change.check}
  BY <1>3
     DEF OwedStatus, CarriedOutOwes, CommitOwes, BuildCommit, NoDrift,
             RunningImage, AppliedPlan, ReportedImage, SignedProvenance
<1>6. change.check \in Reading
  BY <1>2 DEF Change
<1>7. QED
  BY <1>4, <1>5, <1>6 DEF Reading

\* A passing build is of a commit its server verified.
LEMMA PassedBuild ==
    ASSUME RecordInv, record # None, record.code = 0,
           change.activity = "image_build"
    PROVE  change.server /\ change.commit
<1>1. "plan" \in DOMAIN stages
  <2>1. DOMAIN stages \subseteq {"plan"} /\ DOMAIN stages # {}
    BY DEF RecordInv, RecordTypeOK, Reads, StagesOf
  <2>2. QED
    BY <2>1
<1>2. BuildCommit \in AlwaysEvaluated(change.activity, "plan")
  BY DEF AlwaysEvaluated
<1>3. /\ stages["plan"].results[BuildCommit] \in OwedStatus(change, BuildCommit)
      /\ stages["plan"].results[BuildCommit] \notin {"unknown", "fail"}
  BY <1>1, <1>2, PassedBuiltIn
<1>4. OwedStatus(change, BuildCommit) =
         IF change.server /\ change.commit THEN {"pass", "fail", "unknown"}
         ELSE {"unknown"}
  BY DEF OwedStatus, CarriedOutOwes, CommitOwes, BuildCommit, NoDrift,
             RunningImage, AppliedPlan, ReportedImage, SignedProvenance
<1>5. QED
  BY <1>3, <1>4

(***************************************************************************)
(* A record's pass says what was carried out, for every set of assertions  *)
(* a project may add and every count a writer may claim.                   *)
(***************************************************************************)
THEOREM PassCarriedOut == Spec => []PassMeansCarriedOut
<1>1. ASSUME RecordInv PROVE PassMeansCarriedOut
  <2> SUFFICES ASSUME record # None, record.code = 0
               PROVE  /\ change.deployment # None =>
                            change.deployment.asChecked /\ change.deployment.stateRead
                      /\ change.check \in {"pass", None}
                      /\ change.activity = "image_build" =>
                            change.server /\ change.commit
                      /\ Complete /\ change.activity # "image_build" =>
                            /\ change.deployment # None
                            /\ change.check = None =>
                                  "post_verify" \in DOMAIN scope.left
    BY DEF PassMeansCarriedOut
  <2>1. ASSUME Complete, change.activity # "image_build"
        PROVE  /\ change.deployment # None
               /\ change.check = None => "post_verify" \in DOMAIN scope.left
    <3>1. {"post_deploy", "post_verify"} \subseteq StagesOf(change.activity)
      BY <1>1, <2>1
         DEF RecordInv, RecordTypeOK, Change, Activity, StagesOf, Stage
    <3>2. DOMAIN stages = StagesOf(change.activity) \ DOMAIN scope.left
      BY <1>1, <2>1 DEF RecordInv, Reads, Complete
    <3>3. "post_deploy" \notin DOMAIN scope.left
      BY <1>1 DEF RecordInv, Reads
    <3>4. QED
      BY <1>1, <3>1, <3>2, <3>3 DEF RecordInv, Reads
  <2>2. QED
    BY <1>1, <2>1, PassedDeployment, PassedCheck, PassedBuild
<1>2. QED
  BY <1>1, RecordInvariant, PTL

(***************************************************************************)
(* No stage of a passing record is empty, owes an evaluation or found      *)
(* against the change, whatever the other stages counted.                  *)
(***************************************************************************)
THEOREM NothingLeftOut == Spec => []PassLeavesNothingOut
<1>1. ASSUME RecordInv PROVE PassLeavesNothingOut
  <2> SUFFICES ASSUME record # None, record.code = 0, NEW s \in DOMAIN stages
               PROVE  LET at == stages[s] IN
                      /\ at.coverage.subjects > 0
                      /\ DOMAIN at.results # {}
                      /\ Cardinality(DOMAIN at.results) = at.coverage.owed
                      /\ at.coverage.owed <= at.coverage.evaluated
                      /\ \A a \in DOMAIN at.results :
                            at.results[a] \in {"pass", "not_applicable"}
    BY DEF PassLeavesNothingOut
  <2> DEFINE at == stages[s]
  <2>1. /\ ~Missed(at.coverage)
        /\ \A a \in DOMAIN at.results : at.results[a] \in {"pass", "not_applicable"}
    BY <1>1, PassedStage
  <2>2. /\ ~at.coverage.truncated /\ at.coverage.owed # 0
        /\ at.coverage.subjects # 0 /\ at.coverage.subjects \in Nat
        /\ at.coverage.owed <= at.coverage.evaluated
    BY <1>1, <2>1 DEF RecordInv, RecordTypeOK, CoverageOf, Missed
  <2>3. at.coverage.owed = Cardinality(DOMAIN at.results)
    BY <1>1, <2>2 DEF RecordInv, Recomputed
  <2>4. DOMAIN at.results # {}
    BY <2>2, <2>3, FS_EmptySet
  <2>5. QED
    BY <2>1, <2>2, <2>3, <2>4
<1>2. QED
  BY <1>1, RecordInvariant, PTL

(***************************************************************************)
(* A state that was not read after the apply is never made good.           *)
(***************************************************************************)
THEOREM UnreadStaysOpen == Spec => []UnreadStateStaysOpen
<1>1. ASSUME RecordInv PROVE UnreadStateStaysOpen
  <2> SUFFICES ASSUME change.deployment # None, ~change.deployment.stateRead
               PROVE  /\ record.code = 6
                      /\ record.reason # None
                      /\ Complete => "post_verify" \in DOMAIN scope.left
    BY DEF UnreadStateStaysOpen
  <2>1. /\ "post_deploy" \in DOMAIN stages /\ record # None
        /\ "state_not_read" \in stages["post_deploy"].coverage.gaps
    BY <1>1 DEF RecordInv, RecordTypeOK, Reads
  <2> DEFINE at == stages["post_deploy"]
  <2>2. /\ at.coverage \in CoverageOf
        /\ at.code = Leading(StageCodes(at.coverage))
        /\ at.reason = StageReason(at.coverage)
    BY <1>1, <2>1 DEF RecordInv, RecordTypeOK, Recomputed
  <2>3. record.code = 6
    <3>1. 6 \in StageCodes(at.coverage)
      BY <2>1 DEF StageCodes, StageCode, Missed
    <3>2. Rank(at.code) <= 7
      BY <2>2, <3>1, OutcomeOfCoverage, RankOf
    <3>3. Rank(record.code) <= Rank(at.code) /\ record.code \in StageCode
      BY <1>1, <2>1, RecordIsCombined DEF Reported
    <3>4. at.code \in StageCode
      BY <2>2, OutcomeOfCoverage
    <3>5. QED
      BY <3>2, <3>3, <3>4, RankOf, RankTells DEF StageCode
  <2>4. record.reason # None
    <3>1. at.reason # None
      BY <2>1, <2>2, CoverageAssumption DEF StageReason, Reason, EvaluatorError
    <3>2. Incomplete(stages) # {}
      BY <2>1, <3>1 DEF Incomplete
    <3>3. QED
      BY <1>1, <2>1, <3>2, RecordIsCombined, ReasonIsAStages DEF Combined
  <2>5. ASSUME Complete PROVE "post_verify" \in DOMAIN scope.left
    <3>1. "post_verify" \in StagesOf(change.activity)
      BY <1>1, <2>1
         DEF RecordInv, RecordTypeOK, Reads, Change, Activity, StagesOf, Stage
    <3>2. "post_verify" \notin DOMAIN stages
      BY <1>1 DEF RecordInv, Reads
    <3>3. QED
      BY <1>1, <2>5, <3>1, <3>2 DEF RecordInv, Reads, Complete
  <2>6. QED
    BY <2>3, <2>4, <2>5
<1>2. QED
  BY <1>1, RecordInvariant, PTL

(***************************************************************************)
(* The record's verdict as the ladder climbs it down.                      *)
(***************************************************************************)
\* Every report adds one stage with an outcome and combines them.
LEMMA ReportAdds ==
    ASSUME RecordInv, Next
    PROVE  \E s \in Stage : \E new :
              /\ s \notin DOMAIN stages
              /\ new.code \in StageCode /\ new.reason \in Reason \cup {None}
              /\ record' = Combined(With(stages, s, new))
<1>1. \E s, c : \E gaps \in SUBSET Gap : Add(s, c, gaps)
  <2>1. CASE ReportPlan
    BY <2>1, PlanGapsAreGaps DEF ReportPlan
  <2>2. CASE ReportPreDeploy
    BY <2>2, PlanGapsAreGaps DEF ReportPreDeploy
  <2>3. CASE ReportPostDeploy
    <3>1. PICK d \in Deployment, gaps \in PlanGaps("post_deploy") :
             Add("post_deploy", [change EXCEPT !.deployment = d],
                 gaps \cup {g \in {"state_not_read"} : ~d.stateRead})
      BY <2>3 DEF ReportPostDeploy
    <3>2. gaps \cup {g \in {"state_not_read"} : ~d.stateRead} \in SUBSET Gap
      BY PlanGapsAreGaps DEF Gap
    <3>3. QED
      BY <3>1, <3>2
  <2>4. CASE ReportPostVerify
    BY <2>4, PlanGapsAreGaps DEF ReportPostVerify
  <2>5. QED
    BY <2>1, <2>2, <2>3, <2>4 DEF Next
<1>2. PICK s, c : \E gaps \in SUBSET Gap : Add(s, c, gaps)
  BY <1>1
<1>3. PICK gaps \in SUBSET Gap : Add(s, c, gaps)
  BY <1>2
<1>4. s \in scope.expected /\ s \notin DOMAIN stages
  BY <1>3, AddStep
<1>5. PICK new : Brought(new, s, c, gaps) /\ record' = Combined(With(stages, s, new))
  BY <1>3, AddStep
<1>6. s \in Stage
  BY <1>4 DEF RecordInv, RecordTypeOK
<1>7. QED
  BY <1>4, <1>5, <1>6 DEF Brought

\* A first stage's outcome is the record's.
LEMMA OneStageCombined ==
    ASSUME NEW f, DOMAIN f = {}, NEW s \in Stage, NEW new,
           new.code \in StageCode, new.reason \in Reason \cup {None}
    PROVE  /\ Combined(With(f, s, new)).code = new.code
           /\ Combined(With(f, s, new)).reason = new.reason
<1> DEFINE g == With(f, s, new)
<1>1. Reported(g)
  BY WithReported
<1>2. DOMAIN g = {s} /\ g[s] = new
  BY DEF With
<1>3. Winner(g) = s
  BY <1>1, <1>2, WinnerWins
<1>4. CombinedReason(g) = new.reason
  <2>1. CASE CombinedReason(g) = None
    BY <1>1, <1>2, <2>1, ReasonIsAStages DEF Incomplete
  <2>2. CASE CombinedReason(g) # None
    BY <1>1, <1>2, <2>2, ReasonIsAStages
  <2>3. QED
    BY <2>1, <2>2
<1> HIDE DEF g
<1>5. Combined(g).code = new.code /\ Combined(g).reason = new.reason
  BY <1>2, <1>3, <1>4 DEF Combined
<1>6. QED
  BY <1>5 DEF g

\* A report folds its stage's outcome into the record's.
LEMMA ReportFolds ==
    ASSUME RecordInv, Next
    PROVE  \E code \in StageCode, reason \in Reason \cup {None} :
              /\ record' \in Outcome
              /\ record = None => record'.code = code /\ record'.reason = reason
              /\ record # None =>
                    /\ record'.code = Leading({record.code, code})
                    /\ record'.reason \in Ladder!FoldedReason(record.reason, reason)
<1>0. PICK s \in Stage : \E new :
         /\ s \notin DOMAIN stages
         /\ new.code \in StageCode /\ new.reason \in Reason \cup {None}
         /\ record' = Combined(With(stages, s, new))
  BY ReportAdds
<1>1. PICK new :
         /\ s \notin DOMAIN stages
         /\ new.code \in StageCode /\ new.reason \in Reason \cup {None}
         /\ record' = Combined(With(stages, s, new))
  BY <1>0
<1>2. record' \in Outcome
  <2>1. DOMAIN stages = {} \/ Reported(stages)
    BY DEF RecordInv, RecordTypeOK, Reported
  <2>2. Reported(With(stages, s, new))
    BY <1>1, <2>1, WithReported
  <2> DEFINE g == With(stages, s, new)
  <2>3. Winner(g) \in DOMAIN g /\ CombinedReason(g) \in Reason \cup {None}
    BY <2>2, WinnerWins, ReasonIsAStages DEF Reported
  <2>4. g[Winner(g)].code \in StageCode /\ Winner(g) \in Stage
    BY <2>2, <2>3 DEF Reported
  <2> HIDE DEF g
  <2>5. Combined(g) \in Outcome
    BY <2>3, <2>4 DEF Combined, Outcome
  <2>6. QED
    BY <1>1, <2>5 DEF g
<1>3. CASE record = None
  <2>1. DOMAIN stages = {}
    BY <1>3 DEF RecordInv, RecordTypeOK
  <2>2. record'.code = new.code /\ record'.reason = new.reason
    BY <1>1, <2>1, OneStageCombined
  <2>3. QED
    BY <1>1, <1>2, <1>3, <2>2
<1>4. CASE record # None
  <2>1. Reported(stages) /\ record = Combined(stages)
    BY <1>4, RecordIsCombined
  <2>2. record'.code = Leading({record.code, new.code})
    BY <1>1, <2>1, CodeFolds
  <2>3. record.reason = CombinedReason(stages)
        /\ record'.reason = CombinedReason(With(stages, s, new))
    BY <1>1, <2>1 DEF Combined
  <2>4. record'.reason \in Ladder!FoldedReason(record.reason, new.reason)
    BY <1>1, <2>1, <2>3, ReasonFolds
  <2>5. QED
    BY <1>1, <1>2, <1>4, <2>2, <2>4
<1>5. QED
  BY <1>3, <1>4

(***************************************************************************)
(* No report improves the record, however its stages are ordered and       *)
(* whatever they count.                                                    *)
(***************************************************************************)
THEOREM NothingCured == Spec => NeverCured
<1> DEFINE Worse ==
        record # None =>
           /\ Rank(record'.code) <= Rank(record.code)
           /\ record.reason # None => record'.reason # None
           /\ record.reason = EvaluatorError => record'.reason = EvaluatorError
<1>1. RecordInv /\ [Next]_vars => [Worse]_vars
  <2>1. CASE UNCHANGED vars
    BY <2>1
  <2>2. ASSUME RecordInv, Next, record # None PROVE Worse
    <3>1. PICK code \in StageCode, reason \in Reason \cup {None} :
             /\ record'.code = Leading({record.code, code})
             /\ record'.reason \in Ladder!FoldedReason(record.reason, reason)
      BY <2>2, ReportFolds
    <3>2. record.code \in StageCode
      BY <2>2 DEF RecordInv, RecordTypeOK, Outcome
    <3>3. Rank(record'.code) <= Rank(record.code)
      <4>1. {record.code, code} \in SUBSET StageCode /\ {record.code, code} # {}
        BY <3>2
      <4>2. QED
        BY <3>1, <4>1, LeadingLeads
    <3>4. /\ record.reason # None => record'.reason # None
          /\ record.reason = EvaluatorError => record'.reason = EvaluatorError
      <4>1. EvaluatorError # None /\ Ladder!EvaluatorError = EvaluatorError
        BY CoverageAssumption DEF Reason, EvaluatorError, Ladder!EvaluatorError
      <4>2. QED
        BY <3>1, <4>1 DEF Ladder!FoldedReason
    <3>5. QED
      BY <3>3, <3>4
  <2>3. QED
    BY <2>1, <2>2
<1>2. QED
  BY <1>1, RecordInvariant, PTL DEF Spec, NeverCured

\* What the ladder means by its words is what the coverage means by them.
LEMMA LadderWords ==
    /\ Ladder!StageCode = StageCode /\ Ladder!Reason = Reason
    /\ \A codes : Ladder!Leading(codes) = Leading(codes)
<1>1. Ladder!StageCode = StageCode
  BY DEF Ladder!StageCode, StageCode
<1>2. Ladder!Reason = Reason
  BY DEF Ladder!Reason, Reason, Ladder!EvaluatorError, EvaluatorError
<1>3. \A c : Ladder!Rank(c) = Rank(c)
  BY DEF Ladder!Rank, Rank, Ladder!VerdictPrecedence, VerdictPrecedence
<1>4. \A codes : Ladder!Leading(codes) = Leading(codes)
  BY <1>3 DEF Ladder!Leading, Leading
<1>5. QED
  BY <1>1, <1>2, <1>4

(***************************************************************************)
(* A record implements the ladder: each report folds its stage into the    *)
(* verdict so far, and combining all the stages again (combine) gives no   *)
(* other verdict.                                                          *)
(***************************************************************************)
THEOREM RecordImplementsLadder == Spec => ImplementsLadder
<1> DEFINE shown == IF record = None THEN None
                    ELSE [code |-> record.code, reason |-> record.reason]
<1>1. Init => Ladder!Init
  BY DEF Init, Ladder!Init
<1>2. RecordInv /\ [Next]_vars => [Ladder!Next]_shown
  <2>1. CASE UNCHANGED vars
    BY <2>1 DEF vars
  <2>2. ASSUME RecordInv, Next PROVE Ladder!Next
    <3>1. PICK code \in StageCode, reason \in Reason \cup {None} :
             /\ record' \in Outcome
             /\ record = None => record'.code = code /\ record'.reason = reason
             /\ record # None =>
                   /\ record'.code = Leading({record.code, code})
                   /\ record'.reason \in Ladder!FoldedReason(record.reason, reason)
      BY <2>2, ReportFolds
    <3>2. record' # None
      BY <3>1, CoverageAssumption DEF Outcome
    <3>3. shown' = [code |-> record'.code, reason |-> record'.reason]
      BY <3>2
    <3>4. CASE record = None
      <4>1. shown = None /\ shown' = [code |-> code, reason |-> reason]
        BY <3>1, <3>3, <3>4
      <4>2. QED
        BY <4>1, LadderWords DEF Ladder!Next, Ladder!Fold
    <3>5. CASE record # None
      <4>1. record.code \in StageCode /\ record.reason \in Reason \cup {None}
        BY <2>2, <3>5 DEF RecordInv, RecordTypeOK, Outcome
      <4>2. shown # None /\ shown = [code |-> record.code, reason |-> record.reason]
        BY <3>5, <4>1, CoverageAssumption
      <4>3. shown.code = record.code /\ shown.reason = record.reason
        BY <4>2
      <4>4. shown' = [code   |-> Ladder!Leading({shown.code, code}),
                      reason |-> record'.reason]
        BY <3>1, <3>3, <3>5, <4>3, LadderWords
      <4>5. record'.reason \in Ladder!FoldedReason(shown.reason, reason)
        BY <3>1, <3>5, <4>3
      <4>6. QED
        BY <4>2, <4>4, <4>5, LadderWords DEF Ladder!Next, Ladder!Fold
    <3>6. QED
      BY <3>4, <3>5
  <2>3. QED
    BY <2>1, <2>2
<1>3. QED
  BY <1>1, <1>2, RecordInvariant, PTL DEF Spec, ImplementsLadder, Ladder!Spec
=============================================================================
