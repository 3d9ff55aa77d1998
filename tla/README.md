# Verification of iltero-schemas

`iltero-schemas` is the contract package of a change assurance system: a Python
library that defines the documents a pipeline writes about a change (which
assertions were owed, what was evaluated, what was deployed, what was read back)
and the rules every reader holds them to. The package keeps no server and no
database. What changes over time are the documents themselves as their stages
report, the trusted key file as releases are made, and the bundles and caches
that outlive what they were checked against. These modules are about that.

Paths below are those of the repository, with the package at
`src/iltero_schemas/`.

## 1. Inventory

| Component | State it keeps | Operations | Hard part |
|---|---|---|---|
| **Trusted bundle key file** (`trust/keys.py`) | the key file shipped in each release: status, dates and reason of every key | parse, `can_sign`, `can_verify` | a file is compared only with its neighbour's; history must hold over all of them |
| **Release rules** (`scripts/check_release.py`, `.github/workflows/`) | commits, `main`, tags, published packages | check of a change, merge, tag push, check of a tag, approval and publication | checks go stale; tags arrive in any order; workflows of different tags run together |
| **Coverage and verdict** (`models/coverage.py`) | counts of a stage, of a record | `stage_outcome`, `combine` | precedence of verdicts and of reasons; sums that hide a gap; order independence |
| **Change Assurance Record** (`models/car.py`, `models/stages.py`) | scope, stages, top level | a stage reports; a reader checks structure and integrity | what a pass means after partial failure; stages left out; two readers |
| **Change types** (`change_types/`) | the activity's own part: plan, build, deployment, readings | per-activity rules called from the record's | rules split between general and per-activity code |
| **Built-in assertions** (`assertions/`) | none | a table, and the policies' text | undecided checks |
| **Deployment of an infrastructure change** (`models/iac/`) | changes applied, their outcome, readings | validation of an apply's log and state | lost log lines, unread state, readings dated in whole seconds |
| **Resource identities** (`models/iac/resource_identities.py`, `models/providers/`) | resolved and unresolved resources | validation against the apply | what left the state |
| **Image deployment and build documents** (`models/image/`) | rollout, containers read, attestation, scans | `running_image_status`, attestation outcome, scan coverage | reading a workload while it rolls out |
| **Assurance events, facts, approvals** (`models/event.py`, `models/server_facts.py`, ...) | one event per evaluation | validation | which status may have which reason; approvals that count at a moment |
| **Bundles** (`bundle/`, `models/bundle.py`) | descriptor, tarball, signature | build, describe, check | key status between build and check |
| **Assertion language and compiler** (`ast/`, `compiler/`) | none | parse, emit | parse limits; three-valued meaning |
| **Units file, verification report, installed identity** (`models/units_file.py`, `models/verification.py`, `distribution.py`) | dependencies; results; a cached digest | validation, topological check; folding results; hashing | cycles; precedence; cache that outlives files |
| **Bindings, profiles, contexts, fields, canonical form, pinned evaluator, vectors** | none | loading tables, validation, encoding | no state of their own |

How they interact: the release process decides which **key file** a published
package carries; a **bundle** is checked against that file. A **record** embeds
an activity's **change**, its **stages** and one **event** per evaluation; the
record's reader (`CAR`'s validators) calls `check_structure`, which calls the
**change type**'s `check_record`, then `integrity_problems`, which recomputes
every stage's outcome with **coverage**'s `stage_outcome`, asks the change type
what its **built-in** checks owe, and compares the top level with `combine`.
There are no callbacks, threads or messages inside the package. Concurrency is
around it: contributors, maintainers and workflow runs around a release, and a
pipeline whose jobs report stages of one record.

## 2. What is modelled

### Release family

| Module | Models | State and actions |
|---|---|---|
| `KeyFile` | `trust/keys.py` (what `parse_bundle_keys` accepts) and `history_problems`, `_key_problems`, `newest_release` of `check_release.py` | none: operators `Parses`, `HistoryKept`, `KeysOK`, ... |
| `TrustChain` | the promise of the release rules | `chain`, each accepted version's file; `Accept` |
| `ReleaseProcess` | `check_release.py` as the two workflows call it, over a git history | `commits`, `main`, `checked`, `tags`, `published`; one action per thing an actor does: `OpenChange`, `CheckChange` (CI, `--keys BASE`), `MergeChange`, `FastForward`, `PushTag`, `VerifyTag` (release workflow), `DeleteTag`, `Publish` |
| `Bundle` | `bundle/build.py`, `bundle/check.py`, `models/bundle.py`, over `TrustChain` | `chain`, `package` (what each release ships besides keys), `stored`, `answer`; `Release`, `Sign`, `Answer` (the server may mix the parts of two bundles, write documents another way, or use a signature's other form); whether a tool of a release accepts an answer is `Passes` |
| `Distribution` | `distribution.py`: `installed_identity` | `disk`, `info`, `call`, `identity`; one action per read of the code (`Find`, `ReadDirectUrl`, `ReadRecord`, `List`, `ReadFile`, `Finish`), `Restart`, and `WriteFile`, `WriteInfo` by anyone, at any moment |

Git and GitHub are not in the repository: commits with ancestor sets, a three-way
merge field by field, and merging by merge commit, squash or fast-forward are
modelled from how the scripts and workflows use them, and marked external.
`CheckChange` and `MergeChange` are separate steps on purpose: the check is
computed on the merge result of its moment, and main may move before the merge.
`VerifyTag` may be taken again on a refused tag (a rerun). `Publish` is a later
step (the maintainer's approval), and several tags may wait for it at once.

Abstractions: a key's digest follows from its public key; a file's other bytes
are its `form`; `series` is the pair (major, minor) in its order; an unparsable
file is refused wherever it would be read, because the package that the checks
run from parses its own file on import. An accepted tag is never deleted or moved
(GitHub's tag protection, and PyPI takes a version once). In `Bundle` and
everywhere after it a digest *is* what it is taken over: two contents have one
digest only when they are equal. Archives, base64 and size limits are left out.

`TidyTags` is an assumption on the maintainers, not on the code: no tag is pushed
while another is unaccepted. The passing runs and the theorems of the release
family state it (`TidyTags = TRUE`); the run `release_untidy` drops it and shows
why it is needed (section 6).

### Record family

| Module | Models | State and actions |
|---|---|---|
| `Coverage` | `models/coverage.py` | none: `StageOutcome`, `Combined`, `CombinedCoverage`, `Combinable`, ... |
| `VerdictLadder` | the promise of the combination rule: a fold | `verdict`; `Fold` |
| `ChangeRecord` | a `CAR` that grows as its stages report, for all three activities | `change`, `scope`, `stages`, `record`; `ReportPlan`, `ReportPreDeploy`, `ReportPostDeploy`, `ReportPostVerify` |
| `AssuranceEvent` | `models/event.py`, `models/context.py`, `profiles/stage.py`, `models/provenance.py`, and the rules of `models/stages.py` on events | `run`, `stages`, `events`; `ReportStage` (an honest writer), `ClaimStage` (anything a document has room for) |
| `VerificationReport` | `models/verification.py`, over `ChangeRecord` | the record's variables, `over`, `read` (what pre-deploy was given); `StageReports`, `RunEnds` |

A report is one step: the writer adds the stage with its events and its part of
the change, recomputes the top level, and the record is one the strict reader
reads. So the rules of `check_structure`, of the activity's `check_record` and of
`integrity_problems` are guards of `Add` and of the actions that call it.
`StagesOf`, `ProjectMayLeaveOut` and `AlwaysEvaluated` put the three tables
`IAC_CHANGE`, `IMAGE_BUILD` and `IMAGE_DEPLOY` side by side.

Abstractions, and what they leave out:

- One subject per assertion. The counts that no event confirms are free inputs
  (`Tallies`): subjects evaluated, assertions evaluated, placeholders, and, for a
  stage cut short, owed assertions without events. The code ties them to nothing
  else, so a writer may give any.
- A coverage keeps only the gaps that weigh on a verdict or its reason. Identity
  and count gaps, `plan_not_applyable`, sampling, the set's origin and digests are
  left out: no verdict, reason or guard kept here reads them.
- The reading after a deployment is its result (`Reading`) here; how it is reached
  is `DriftCheck`'s and `ImageReading`'s.
- Stages report in any order the reader allows: the first expected stage first,
  `post_verify` after `post_deploy`, `pre_deploy` perhaps last. A stage is not
  reported twice: the contract has no rule for replacing one.
- `AssuranceEvent` has one event per stage; limits, executors, detail texts and
  observations are left out. `VerificationReport` leaves out a server run none of
  whose stages had an evaluator.

### The parts of a change

| Module | Models | State and actions |
|---|---|---|
| `IacApply` | `models/iac/deployment.py`, `models/iac/markers.py`, `models/iac/tools/`: the document of an apply and every rule on it | `document`; `Read`, by a reader who has nothing else |
| `ApplyRun` | the apply itself and the honest document about it, from what the comments of `models/iac` say of the tool | `plan`, `fate`, `log`; operations in replacement order that fail or stop anywhere, messages that get lost |
| `IacIdentities` | `models/iac/resource_identities.py`, and `_check_identity` of `change_types/iac/change.py` | `identity`, beside an apply; any identities may be written |
| `DriftCheck` | `models/iac/drift_check.py`, and `_check_drift_check` | `now`, `apply`, `observed`, `differs`, `readings`, `check`; `Tick`, `EndApply`, `ObservePostDeploy`, `StartReading`, `ReadResource`, `EndReading`, `Change`, `Report`; times in three precisions |
| `ImageReading` | `models/image/deploy.py`, `models/image/kubernetes.py`, `owed` status of `change_types/image/deploy.py` | a workload, its controller, its pods; `ChangeSpec`, `WriteStatus`, `CreatePod`, `MovePod`, and the three requests of a reading, `ReadWorkload`, `ListPods` and the workload again |
| `ImageBuild` | `change_types/image/build.py`, `models/image/buildx.py`, `build_reports.py`, `attestation.py`, and the platforms of `naming.py` | `pushed`, `files` the job ever left, `outcomes` of the server, `build`; `Push`, `Sign`, `ScanPlatform`, `Send`, `WriteRecord` |
| `ChangeApproval` | `canonical/change.py`, `models/server_facts.py`, `change_types/bindings.py`, `ILT.CHANGE.PRODUCTION_APPROVED` | `planned`, `approvals`, `inputs`, `records`; `Plan`, `Approve`, `Evaluate`, `RecordChange` in any order |

Terraform, Kubernetes, Buildx and the server are not in the repository; they are
modelled from what the package's comments and tests say they do, and marked
external. The contract's own rules are not.

- In an image reading the contract does not compare the two reads of a workload
  (the docs say so); the properties that need it say that both reads agree. That an
  honest reading is accepted (`RefusedOnlyWhenItMoved`) needs one thing more of a
  finished stateful set: that its counts show no other pod (section 6, finding 5).
- A record of a build claims fields of three independent groups. The rules tie
  each group to the image and none to another, so a claim lies about one group at
  a time; an honest record varies in all of them at once.
- An approval is bound to its environment only through the change's digest:
  no rule compares the environment an evaluation read with the record's. So the
  run fixes the environment, and the tool may carry a digest, an evaluation or an
  approval of an earlier plan over to a later one.
- An honest document of an apply has a start time if any message shows an
  operation ran. If the log lost *every* operation message while the state shows
  that one ran, `deployment.py:285` leaves no document to write; `TruthAccepted`
  assumes that this does not happen (`TimeKept`).

### The assertion language

| Module | Models | State and actions |
|---|---|---|
| `Runtime` | `compiler/runtime.rego`: JSON values, markers, comparison, three-valued combinators | none |
| `Evaluation` | `compiler/emit.py`, `ast/scope.py`, `ast/nodes.py`, the shape `ast/parse.py` gives an expression: what an assertion answers over an input | `subject`, `hidden`, `input`, `answer` to every assertion; `Reveal` one fact |
| `Composition` | the results any expression can have, beside those over a better informed input | `made`, a set of pairs; one action per combinator |

`Eval(facts)` is one function over `Places`, the pairs of an expression and an item
it may be asked of, and the result at a place is read from those of its parts
(`Result`), as a compiled module calls a function per expression and per `where`. So
`Evaluation` declares no recursive operator and can be proved about. What the parser
guarantees is an assumption on its constants: an expression has one of the five
shapes (`Parsed`), its parts nest less, and it nests no deeper than `MaxDepth`
(`MAX_DEPTH` of `ast/parse.py`, and one more for the guard that the emitter joins to
a `when`). An input is a function of the facts that are hidden: learning a fact may
put anything in the place of a marker and changes nothing else (`InputsAssumption`).
`Hidden` builds inputs, places and depths for TLC from documents with named holes.

### Instances

Components that share no state are checked side by side: `MCBundle` (`TrustChain`,
`Bundle`, `AssuranceEvent`), `MCIac` (an apply and its identities; a reader of any
document), `MCLanguage` (`Evaluation`; `Composition`) and `MCReleaseParts`
(`DriftCheck`, `ImageBuild`, `ChangeApproval`, `Distribution`, `ImageReading`). Each
starts with the others where they begin, and only one of them steps in a behaviour;
nothing is lost, for none reads another's variables.

## 3. Runs

| Run | Module / cfg | Checks | States | Bounds, and why they are enough |
|---|---|---|---|---|
| `release` | `MCRelease` / `MCRelease.cfg` | `FreshMergeKeepsHistory`, `ImplementsTrustChain` | 38,632 | 3 commits, 4 versions, 5 trees: the file kept, moved forward, moved back, lost, laid out anew |
| `release_long` | `MCReleaseLong.cfg` | `PublishedKeysMoveForward`, `ReleasesInHistory` | 121,101 | 4 commits: two changes on branches that each pass their check and merge cleanly, squashes, tags on any of them |
| `release_untidy` | `MCReleaseUntidy.cfg` | `PublishedKeysMoveForward`, **violated** | - | 3 commits, `TidyTags = FALSE` |
| `bundle` | `MCBundle` | `ChainMovesForward`, `CheckedIsWhatWasSigned`, `OneSigningOneBundle`, `SignedIsAccepted`; `LocalRunNamesNothingOfTheServer`, `VerdictsAreComputed`, `HonestRecordAccepted` | 989,918 | chains of one key in 4 versions, every file after every file; signing with 2 keys, 3 versions (a patch and a series), 2 compilers, 2 minimum versions, 2 assertions, 2 bundles; runs of up to two honest stages, or one stage of any claim |
| `record` | `MCChangeRecord` / `MCRecord.cfg` | `PassMeansCarriedOut`, `PassLeavesNothingOut`, `UnreadStateStaysOpen`, `CausesStayListed`, `NeverBetterThanRecount`, `NeverCured`, `ImplementsLadder` | 353,449 | all activities, scopes and orders; the built-in assertions and one more, in every status; tallies with a placeholder, with one not evaluated, with a stage cut short |
| `record_plan_gap` | `MCRecordPlanGap.cfg` | `PlanGapOnlyInPlan`, **violated** | - | no assertion but the built-in ones |
| `report_gap` | `MCVerificationReport` / `MCReportGap.cfg` | `EveryPropertyHasAResult`, **violated** | - | no assertion but the built-in ones |
| `iac` | `MCIac` | `LeavingIsKnown`, `NothingLostNothingUnknown`, `CountedMeansMade`, `UnreadClaimsNothingOfTheState`; `TruthAccepted`; `RemovedIsTrue`, `TrueIdentityFits` | 155,846 | every kind of change at one address, beside another's and up to two deposed objects; two lost messages; any one-change document with a deposed object for the reader |
| `release_parts` | `MCReleaseParts` | `CarefulIsAccepted`, `LatestReadingIsAfter`, `SteadyDriftListed`; `PassIsOfTheKeptAttestation`, `FilesDescribeTheImage`, `HonestBuildAccepted`; `PassMeansApproved`; `DigestMeansUntouched`; `ShippedAssertionAgrees`, `RefusedOnlyWhenItMoved`, `PassIsOfTheTemplateRead` | 2,439,512 | two seconds and a part, in fine units; 5 kinds of build, two of them pushed, four pushes, attestations, scans and answers; two approvals, two units, contents, runs; two releases of one and two files, a cached file, an edited `RECORD`; three pod templates, a workload of every kind that starts with a pod of one of them, two generations, two pods |
| `language` | `MCLanguage` | `UnknownIsExplained`, `ScopeIsRespected`, `AnswersStand`; `DecidedStands` | 1,108 | the two shipped approval assertions and every pair of eight expressions, four facts to reveal; two arguments and elements: enough for one to outweigh another |
| `marker_in_list` | `MCMarkerInList` | `PredicateThatReachesAMarkerIsUnknown`, **violated** | - | one resource, one redacted attribute |
| `finished_rollout` | `MCImageReading` / `MCFinishedRollout.cfg` | `FinishedCountsNoOtherPod`, **violated** | - | one stateful set, three generations, so that it is set to a second template and back; one or two pods |

`MaxReplaced = 2` stands for `MAX_SUBSTITUTED_INPUTS` (256): with one placeholder
per stage both a combination that fits and one that is refused are reached. One
assertion besides the built-in ones is enough for a stage to have a status its
built-in check does not have; an assertion is evaluated by one stage only, so it
may appear in any stage but in one of them. The language's states are few and each
is large: a state evaluates every assertion over an input, and `made` holds every pair
of results reached.

What the properties say, and what would break them:

- `PublishedKeysMoveForward`: across every two published releases no key is lost,
  moved back or rewritten, and the file differs only across series. It is broken
  by a stale change check alone, or by comparing with any earlier release instead
  of the newest.
- `FreshMergeKeepsHistory`: the early check is worth its place; a merge whose
  check still holds leaves main with keys that keep every accepted release's.
- `ReleasesInHistory`, `ImplementsTrustChain`: the accepted releases are one
  chain, whatever branches, merges and tags there were.
- `CheckedIsWhatWasSigned`, `OneSigningOneBundle`: a tool that accepts an answer
  evaluates what a signer signed, whole, whatever the server mixed up.
  `SignedIsAccepted`: what a signer signed is refused only for a reason the two
  releases really differ in.
- `PassMeansCarriedOut`, `UnreadStateStaysOpen`: relate the verdict, reached over
  up to four stages, to what was done; an unread state is never made good.
- `PassLeavesNothingOut`: a passing record has no empty stage and none that left out
  what it owed, whatever the other stages counted; it is broken by reading the
  verdict from the stages' sums, in which one stage's surplus hides another's lack.
- `NeverBetterThanRecount`, `CausesStayListed`: relate the verdict and reason,
  which come from the stages' own outcomes, to the combined counts, from which
  they are not read.
- `NeverCured`, `ImplementsLadder`: no report improves a record, and combining all
  the stages again is the same as folding in the one that reported.
- `LocalRunNamesNothingOfTheServer`, `VerdictsAreComputed`, `HonestRecordAccepted`:
  what a stage of any claims still cannot say, and that the rules refuse no
  truthful one.
- `TruthAccepted`, `TrueIdentityFits`, `CarefulIsAccepted`, `HonestBuildAccepted`:
  the rules, written one by one, together never refuse a true document. These are
  the properties that many rules of one document are most likely to break, and a
  test of one rule cannot see.
- `RemovedIsTrue`, `NothingLostNothingUnknown`, `CountedMeansMade`,
  `UnreadClaimsNothingOfTheState`, `LeavingIsKnown`: what an accepted document says
  of an apply, whoever wrote it.
- `LatestReadingIsAfter`, `SteadyDriftListed`: a drift check's conclusion is of the
  time after the apply, at every precision times are written in.
- `PassIsOfTheTemplateRead`, `RefusedOnlyWhenItMoved`, `ShippedAssertionAgrees`: a
  rollout read while it moves. A pass whose two reads agree leaves no live pod of
  another template; an honest reading whose two reads agree is refused only of a
  workload that counts as finished while its counts show another pod.
- `PassIsOfTheKeptAttestation`, `FilesDescribeTheImage`: a build's answer and files
  are of the image the record names, however often the job built and signed.
- `PassMeansApproved`: no approval of an earlier plan, another unit, environment or
  run counts.
- `DigestMeansUntouched`: a digest is a release's exactly when its files are.
- `AnswersStand`, `DecidedStands`: an answer, or any result, given without a
  fact is the answer given with it.

Every property has a mutant: a change of one definition, the kind a slip in that
code would make (a dropped guard, a swapped order, a missing case), under which the
same run finds the property violated. The mutants are in `PROJECT.json`, their
definitions beside those they replace.

No run assumes fairness and no liveness is claimed: nothing in the code makes a
contributor open a change, a maintainer approve, a pipeline report its next stage,
a pod become ready or a call of a library end; the package has no scheduler, no
queue and no retry, and all of its callers may stop at any time. For the same
reason the runs do not check for deadlock: commits, steps and times are bounded,
and a record ends when its stages have reported, or stays as it is.

## 4. Proofs

| Theorem | Module | For every value of the constants |
|---|---|---|
| `ChainForward` | `BundleProofs` | `ChainMovesForward` (and types) in every chain |
| `SignedAccepted`, `CheckedWasSigned`, `OneSigning` | `BundleProofs` | `SignedIsAccepted`, `CheckedIsWhatWasSigned`, `OneSigningOneBundle`: any keys, releases, packages, documents and number of bundles |
| `ReleaseTypeCorrect` | `ReleaseProofs` | `ReleaseTypeOK` |
| `ReleaseInvariant` | `ReleaseProofs` | `ReleaseInv`, if tags are tidy |
| `PublishedForward`, `ReleaseHistory`, `FreshMergesKeepHistory`, `ProcessImplementsChain` | `ReleaseProofs` | `PublishedKeysMoveForward`, `ReleasesInHistory`, `FreshMergeKeepsHistory`, `ImplementsTrustChain`, if tags are tidy |
| `RecordInvariant`, `RecordTypeCorrect` | `RecordProofs` | `RecordInv`, `RecordTypeOK` |
| `PassCarriedOut`, `NothingLeftOut`, `UnreadStaysOpen`, `NothingCured`, `RecordImplementsLadder` | `RecordProofs` | `PassMeansCarriedOut`, `PassLeavesNothingOut`, `UnreadStateStaysOpen`, `NeverCured`, `ImplementsLadder` |
| `NotBetterThanRecount`, `CausesListed` | `RecordProofs` | `NeverBetterThanRecount`, `CausesStayListed`: any counts of any stages |
| `HonestAccepted`, `LocalNamesNothing`, `VerdictsComputed` | `EventProofs` | `HonestRecordAccepted`, `LocalRunNamesNothingOfTheServer`, `VerdictsAreComputed`: any claims a stage has room for |
| `LatestAfter`, `CarefulAccepted`, `SteadyListed` | `EventProofs` | `LatestReadingIsAfter`, `CarefulIsAccepted`, `SteadyDriftListed`: any clock, units in a second, interval and resources |
| `TruthRead`, `RemovedAreTrue`, `TrueIdentityRead` | `IacProofs` | `TruthAccepted`, `RemovedIsTrue`, `TrueIdentityFits`: any plan, apply, lost messages and alleged identities |
| `LeavingAlwaysKnown`, `NothingLeftUnknown`, `CountsMeanMade`, `UnreadStaysSilent` | `IacProofs` | `LeavingIsKnown`, `NothingLostNothingUnknown`, `CountedMeansMade`, `UnreadClaimsNothingOfTheState`: any documents |
| `PassKeepsAttestation`, `FilesOfTheImage`, `HonestBuild` | `DeliveryProofs` | `PassIsOfTheKeptAttestation`, `FilesDescribeTheImage`, `HonestBuildAccepted`: any builds, and any number of pushes, scans and answers |
| `ChangesApproved` | `DeliveryProofs` | `PassMeansApproved`: any contents, units, environments, runs and number of approvals |
| `UntouchedDigest` | `DeliveryProofs` | `DigestMeansUntouched`: any releases, files and `RECORD`s |
| `RefusedIfItMoved`, `PassOfTheTemplate`, `ShippedAgrees` | `AnswerProofs` | `RefusedOnlyWhenItMoved`, `PassIsOfTheTemplateRead`, `ShippedAssertionAgrees`: any templates, images, accepted builds, replicas, pods and changes of the workload |
| `UnknownAnswersExplained`, `ScopeAlwaysRespected` | `AnswerProofs` | `UnknownIsExplained`, `ScopeIsRespected`: any assertions that parse, any inputs, hidden facts, selectors and resources |
| `AnswersNeverChange` | `AnswerProofs` | `AnswersStand`, for assertions no predicate of which reads a value that holds a marker inside it (`OperandsAreWhole`) |
| `ResultsStand` | `AnswerProofs` | `DecidedStands`: any operators, values, paths, numbers of arguments and elements |

Arguments:

- `KeyFileProofs` shows that `HistoryKept` and the version rule are transitive
  over files that parse (a status cannot come back, a written field stays
  written). `ChainForward` then needs only the newest earlier release.
- `ReleaseInv` strengthens `PublishedKeysMoveForward` with what the check of a tag
  relies on and does not itself establish: histories are closed under ancestry
  (`HistoriesClosed`), accepted tags stay on main as main moves (`AcceptedOnMain`),
  at most one tag is unaccepted, so the tags on main other than the one checked are
  accepted (`OneUnaccepted`), and what is published is what was accepted
  (`PublishedAreAccepted`). Without `OneUnaccepted` the step of `VerifyTag` fails,
  at the very place `release_untidy` shows.
- `RecordInv` adds to the types that the top level is the stages combined, a stage's
  code its counts' and its counts its evaluations' (`Recomputed`), that the change
  says what the stages brought (`Reads`), and that each built-in check found what the
  change says or decided nothing (`BuiltInsKept`). `PassMeansCarriedOut` follows: a
  passing record has no `not_evaluated`, `error` or `fail` counted in any stage, so
  each built-in check of a reported stage passed. So does `PassLeavesNothingOut`: a
  passing record's stages all pass (`PassedStage`), and one that missed nothing was
  not cut short, so it owed exactly what it evaluated.
- `NothingCured` and `RecordImplementsLadder` rest on one lemma: the winner, the
  reason and the code of the stages with one more are the fold of the new stage
  into the old ones (`ReportFolds`), from the uniqueness of ranks and places.
- `NotBetterThanRecount` and `CausesListed` compare the record with the sums over its
  stages. A sum of naturals is positive only if a part is, and below another sum only
  if a part of it is (`SumOfParts`); so every code the combined counts call for, some
  stage's own call for (`RecountedCodes`), and the winner stands at least as high. A
  record has four stages at most, so the sum is written out and needs no fold.
- `BundleInv`: every descriptor the server keeps was built and signed under the
  files of some release (`StoredWereSigned`), every answer is put together from two
  of them (`AnswerIsOfStored`), and the chain moves forward. The last part is what
  makes the theorems about bundles more than injectivity: the tool that checks may be
  of a later release than the signer's, and only because a key's entry is never
  rewritten is the public key it finds the one that was signed with. A digest stands
  for its contents, so a file list that a tool accepts names the signed files; that a
  signature returned in its other form still counts needs that the low form is one.
- `EventProofs` about evaluations: acceptance of every truthful record is inductive as
  soon as the events' evaluators are known (`RunInv`), but its step is long. What an
  honest writer may report is split by who gave the verdict (`ByProgram`, `ByScanner`,
  `ByNothing`); for each the event's rules, then the stage's, are shown to hold. The
  other two theorems follow from the rules alone: an accepted event's profile decides
  what it may name.
- `DriftInv` keeps the clock, the apply, the observation and the readings in order
  (`InOrder`, `ReadingsOK`), follows what has differed ever since the apply ended
  through every reading that began later (`SteadySeen`), and for a check that was made
  that its readings were done and began after both (`CheckedReadings`). The properties
  speak of times as they are written, truncated to seconds or milliseconds; that
  truncation is monotone, and that the two precisions of one moment are less than a
  second apart, is proved for any units from the laws of `\div` (`MultiplesApart` and
  the lemmas around it).
- `JobInv` says of each file and each answer whose it is, and of a record that is
  written over which of them it was. A file is never lost, so `OfOneImage` stays
  true; but a push after the record would add images, and `FilesDescribeTheImage`
  speaks of the record's own. So the invariant has the record's input beside it
  (`OverItsInput`), and the theorem reads the image's files back from it.
- The `RunInv` of `IacProofs`: operations happen in replacement order, each only after
  those before it are done; the log tells only what happened, and all that ended if it
  lost nothing (`LogIsOfTheRun`); a document is one of the two truthful ones of an apply
  that has ended. `TruthRead` then holds each rule of an apply against the truth,
  change by change (what a truthful change, a truthful deposed object and the truthful
  counts are). `RemovedAreTrue` adds `IdentityInv`: an identity that was read was
  written beside such a document and held against it.
- `ReadingInv` is about a workload that moves while it is read. What two equal reads
  say is only true *between* them if it could not have changed and changed back: so,
  while the spec's generation stands, a status that has caught up and counts no other
  pod means that every active pod is of the spec's template (`SettledNow`), that stays
  so (`BeforeHolds`), and so the pods listed after the first read are of it
  (`ListedHolds`). The generation only grows, so equal generations mean that nothing
  was set in between.
- `ShippedAgrees` evaluates the shipped assertion symbolically. A path of a fixed length
  unfolds the recursive function that resolves it, name by name (`ResolveOne`,
  `ResolveTwo`, `ResolveThree`); a finite set that an input lists is found again, whole
  (`SequenceOf`), so `exists` over the list is a quantifier over the set (`ExistsOver`).
  Each of the assertion's five parts then has a status in terms of the reading
  (`RolloutParts`, `TemplatePart`, `ContainerParts`), and `Agreement` holds the two
  orders against each other in which "false" and "unknown" win. `ReadingInv` says that
  a reading's lists are finite.
- `CompositionInv`: every pair made so far *stands* (typed, and decided on the left
  means the same on the right). One lemma per combinator shows it kept; that a
  combination of any number of results stands needs no induction, since each
  combinator is a quantifier over its arguments.
- `EvaluationInv`: the answers are those of the input, and the input is the subject's
  with `hidden` hidden. The rest is about `Eval`. That it satisfies its own equation at
  every place (`EvalUnfolds`) is not free: a recursive function is *some* function with
  that equation if there is one. One is built level by level up to `MaxDepth`, since a
  result reads only places below its own (`ResultLocal`); the levels that could not be
  built would have a least (`LeastOf`). `ByDepth` is the same argument for a set of
  places, and replaces induction over expressions in what follows:
  - every result is decided or blames an operand its place reads (`EvalTyped`), one
    that explains it (`EvalExplained`). A path leads to a value of the input or stops
    for a reason it has there (`ResolveFinds`), name by name;
  - results over two inputs, at places whose items differ only by what a marker stood
    for, stand (`EvalStands`): a path that leads to a value leads to one of the same
    shape in the better informed input (`ResolveInformed`), the same one when it holds
    no marker, and the combinators' lemmas do the rest. `OperandsAreWhole` is needed
    there and nowhere else; finding 3 is what happens without it;
  - a guard's result is unfolded from the selectors down to the two predicates on a
    resource (`ScopeDecides`, `SelectorDecides`, `ResourceDecides`).
- `ApprovalInv`: every input is *grounded*, its approvals are among those the
  server holds, which only grow, and its digest is its own content's. A digest is
  injective (it stands for its content), so what an approval's digest equals, the
  approver saw.
- `DistInv` follows a call: unless something was written since it began, what it
  found is the metadata that is there (`FoundIsSo`), and the entries it has read
  are on disk as `RECORD` says (`ReadIsSo`). At `Finish` nothing is unread and
  nothing unlisted, so the disk is the release's.
- `ReaderInv`: a reader reads only what the rules accept; the four theorems then
  are consequences of the rules alone. The step that is not plain is
  `UnknownOperations`: operations can be unknown only with the outcome.

Assumptions, all of which TLC evaluates on the instances:

- `KeyFileAssumption`, `ChainAssumption`, `ReleaseAssumption`, `CoverageAssumption`,
  `RecordAssumption`, `SizesAssumption`, `DistributionAssumption`, `BundleAssumption`,
  `DocumentsAreApplies`: what the constants are. None is none of the values it stands
  beside; the package's own assertion names are not a project's; an assertion's id is
  not the name of a bundle's own file; a release has files and none of them is
  bytecode.
- `UnitsAssumption`: a second is a whole number of milliseconds, a millisecond a whole
  number of units, the least interval is not zero, resources are finitely many.
- `PlansArePlans`, `AbsentIsNoPart`: a plan has finitely many changes, each a change
  Terraform plans; an absent part of an identity is not one of the parts.
- `ExpressionsAssumption`: what the parser and the emitter guarantee of assertions (their
  shape, that parts nest less, a bound on nesting), and that `Places` has every pair
  an evaluation may ask for.
- `InputsAssumption`: a value's parts are values; what replaces a value when a fact
  becomes known has its shape, unless it was a marker; an input that hides nothing
  holds no marker.
- `OperandsAreWhole(Places)`, a hypothesis of `AnswersNeverChange` alone: the two
  approval assertions that the package ships and the others of `MCLanguage` satisfy it,
  and TLC evaluates it there.
- `CloudsSuffice`: each address can have a cloud resource of its own. Without it no
  true identity would exist to be read.
- `ImageAssumption`: a pod template has at least one container (`template_containers`
  has `min_length=1`, as Kubernetes does) and finitely many, and a debugging container
  is named unlike any of them, as Kubernetes requires; a build has finitely many
  platform digests, and no digest is the marker of one that was not reported.
- `TidyTags = TRUE`, where said.

`ReleaseInv`, `RecordInv`, `BundleInv`, `DriftInv`, `JobInv`, `IacProofs`' `RunInv`,
`ReadingInv` and `EvaluationInv` were checked by TLC before they were proved, and are no longer run.

Every invariant and every action property of the passing runs is a theorem. Only
model-checked are the violations (a counterexample is its own proof) and that the
assumptions have instances.

No liveness is stated, so none is left unproved.

## 5. Not modelled, and why

- **Units file** (`models/units_file.py`): a list read once in deploy order, in
  which a unit may depend only on units before it. No cycle to find, no state.
- **Bindings and policy sources**, **pinned evaluator**: tables of a release.
- **Shared field types**, **encodings** (RFC 8785 with its bound on integers,
  timestamps, base64, tar, DER), the text of the emitted policies, the grammar that
  `ast/parse.py` reads, naming rules of resource types and images: strings.
- **Conformance vectors and their scripts**: data, files and downloads.
- **The evidence register and redaction** of a record: lists of paths, sizes and
  digests compared for equality, in one pass.
- **A reader that skips the integrity checks**: it is outside the package;
  `models/car.py` says what it must do then. `ChangeRecord` has the strict reader.
- **An identity kept while files change** (`distribution.py:153`): the code means the
  answer to be kept for the life of the process. `Distribution` lets files change at
  any moment; `DigestMeansUntouched` is about the moment the answer is given.
- **Placeholder limits** (`models/coverage.py:355`): the record's limit is the same
  as a stage's, so stages that are each valid may not combine. It is a guard of
  every report and both sides of it are reached; no doc says otherwise.

## 6. Findings

1. **A refused tag counts as a release** (`release_untidy`).
   `newest_release` (`scripts/check_release.py:118-125`) takes every `vX.Y.Z` tag in
   main's history, published or not. Its comment says "A tag that never reached
   ``on`` was never released"; but a tag that did reach main need not have been
   released either: its workflow may have refused it (a mistyped version; a tag on a
   branch that is merged later). The next release is then compared with that tag's
   keys, and a key can be missing between two published releases, against
   `trust/keys.py:18-19` ("Keys are never removed from the file, only moved
   forward"). Deleting a refused tag before pushing the next one (`TidyTags`)
   avoids it. `pending_key_problems` compares with tags on the change's own head in
   the same way.
2. **A plan-flag gap outside the plan stage** (`record_plan_gap`).
   `docs/01-document-formats.md:755-756`, about every record: "A plan-flag gap in any
   other stage is refused." Only the rules of `iac_change`
   (`change_types/iac/change.py:167-169`) refuse it; an `image_deploy` record, which
   has no plan stage, is read with one and becomes incomplete with reason
   `plan_not_complete`.

3. **A redacted element of a list decides a predicate** (`marker_in_list`).
   `compare("contains")` (`compiler/runtime.rego:126`) looks for its operand among
   the elements of a list, where a redaction marker is an object like any other.
   `docs/01-document-formats.md:303` says of both markers "A predicate that reaches
   either is `unknown`". Over a list one of whose elements is hidden the predicate is
   false, its negation true, although the hidden element may be the one looked for;
   `exists` over the same list is unknown.
4. **A property without a result** (`report_gap`). `PROPERTY_RESULTS`
   (`models/verification.py:61`) has `stage_not_reported` for
   `runtime_verification` and `stage_completeness`, and no such result for
   `approval_identity` and `exceptions`. A run that ended before its pre-deploy
   stage reported has none of theirs, against `docs/01-document-formats.md:1755`
   ("Otherwise each property has one of the results a verifier gives it").
5. **A finished stateful set with another pod** (`finished_rollout`).
   `StatefulSetRollout.complete_by_counts` (`models/image/kubernetes.py:107`) compares
   the updated and available replicas with the desired ones and the two revisions with
   each other, and does not read `replicas`, which the document carries
   (`models/image/kubernetes.py:98`). A stateful set that is set to a second template
   and back, to fewer pods, counts as finished while a pod of the second template is
   live, against `models/image/kubernetes.py:53` ("Whether the counts show every pod
   the workload calls for on its current template, and no other."). An honest reading
   that lists both pods is then refused.

## 7. Plan

Done: releases, key files and bundles; records, events and reports; an apply, its
identities and its drift check; readings of a deployed image; builds; approvals; the
installed package; the assertion language's meaning.

Left, most important first:

| What | Where it would go |
|---|---|
| The verification report's reading of a record (`VerificationReport` over `RecordInv`) | `RecordProofs` |
| Several events per stage, and redacted ones, in one record with its counts | `AssuranceEvent` over `ChangeRecord` |
| Exceptions and earlier evaluations among the server's facts, and the times they were true at | `ChangeApproval` |
| The limits of a parse (`ast/parse.py`): depth, nodes, references | `Parse`, beside `Evaluation` |
