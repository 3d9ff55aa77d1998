----------------------------- MODULE ImageBuild -----------------------------
(***************************************************************************)
(* A build run of one unit (change_types/image/build.py): a job builds and *)
(* pushes images, signs attestations of them and scans them, the tool      *)
(* sends the server an attestation and has the build evaluated, and its    *)
(* record names the image and the files that describe it.                  *)
(*                                                                         *)
(* A job may build and sign more than once, and a file may be left from an *)
(* earlier attempt: what the tool reads first and last need not be of one  *)
(* build. The record may name any files the job ever left, and claim       *)
(* anything of them; readers have the kept files and the evaluation input. *)
(* A digest stands for its content. An optional field is a set of at most  *)
(* one value.                                                              *)
(***************************************************************************)
EXTENDS Integers, FiniteSets

VARIABLES
    job,      \* whether the server opened its run, and the run's attempt
    pushed,   \* the builds the job made: each an image, and its commit
    files,    \* every file the job ever left
    outcomes, \* what the server answered about the attestations sent
    build     \* the record, once it is written

buildVars == <<job, pushed, files, outcomes, build>>

(***************************************************************************)
(* Images and the files that describe them.                                *)
(***************************************************************************)
Commits   == {"main", "other"}
Tags      == {"v1", "v2"}
Platforms == {"amd64", "arm64"}

\* An image's digest: the index's for several platforms, or the only one.
ImageDigests == [commit : Commits, part : {"index", "single"}]

PlatformDigestsOf(image) ==
    IF image.part = "index"
    THEN {[commit |-> image.commit, part |-> platform] :
              platform \in Platforms}
    ELSE {}

PlatformImages(image) ==
    IF image.part = "index" THEN PlatformDigestsOf(image) ELSE {image}

\* What Buildx writes of a push. A local directory's commit is not in it.
Metadata(image, tag, commits) ==
    [kind |-> "metadata", image |-> image, tag |-> tag, commit |-> commits]

Index(image) == [kind |-> "index", image |-> image]

\* A signed statement about the images named, and whose job signed it.
Attestation(image, signer, sound) ==
    [kind |-> "attestation", image |-> image, signer |-> signer,
     sound |-> sound]

\* A report, whose own text names the image it scanned, or does not.
Scan(image, named) == [kind |-> "scan", image |-> image, named |-> named]

\* As the pipeline's redaction leaves a file.
RedactedFile(file) == [kind |-> "redacted", of |-> file]

(***************************************************************************)
(* What the server finds when it checks an attestation, and the input.     *)
(***************************************************************************)
JobIdentity == [commit |-> "main", attempt |-> job.attempt]

\* Its signature holds, it is provenance, and it names the image.
Verifiable(attestation, image) ==
    attestation.sound /\ attestation.image = image

\* The server may refuse another run's, or leave the comparison to the
\* assertion.
ServerAnswers(attestation, image) ==
    {[outcome |-> o, attestation |-> attestation, image |-> image] :
        o \in IF ~Verifiable(attestation, image) THEN {"refused"}
              ELSE IF attestation.signer = JobIdentity THEN {"verified"}
              ELSE {"verified", "refused"}}

NotSent == [outcome |-> "not_sent"]
OutcomeMarker  == [outcome |-> "marker"]

\* ILT.IMAGE.SIGNED_PROVENANCE_MATCHES_RUN.
SignedProvenance(input) ==
    IF input.attestation = OutcomeMarker
    THEN <<"unknown", "server_facts_unavailable">>
    ELSE IF /\ input.attestation.outcome = "verified"
            /\ input.attestation.image = input.image
            /\ input.source = {input.attestation.attestation.signer}
    THEN <<"pass", "none">>
    ELSE IF /\ input.attestation.outcome = "verified"
            /\ input.attestation.image = input.image /\ input.source = {}
    THEN <<"unknown", "server_facts_unavailable">>
    ELSE <<"fail", "none">>

\* ILT.IMAGE.BUILD_COMMIT_MATCHES_VERIFIED_COMMIT: the commit is read first.
BuildCommitMatches(input) ==
    IF input.commit = {} THEN <<"unknown", "not_reported_by_tool">>
    ELSE IF input.source = {} THEN <<"unknown", "server_facts_unavailable">>
    ELSE IF input.commit = {s.commit : s \in input.source}
    THEN <<"pass", "none">> ELSE <<"fail", "none">>

(***************************************************************************)
(* The record's rules.                                                     *)
(***************************************************************************)
SentToServer(b) == b.attestation # {} /\ b.sent

CheckScansNameTheirPlatform(b) ==
    b.platform_digests # {} => b.image \notin {r.image : r \in b.reports}

PlatformsComeFromTheIndex(b) ==
    /\ b.image \notin b.platform_digests
    /\ \A r \in b.reports : r.image \in {b.image} \cup b.platform_digests
    /\ CheckScansNameTheirPlatform(b)
    /\ (b.index = {}) <=> (b.platform_digests = {})

\* Each file is of the type its role needs, the raw index is the image's, and
\* the metadata file and the attestation are kept as they were given.
EvidenceOK(b) ==
    /\ \A i \in b.index : i = Index(b.image)
    /\ \A f \in b.metadata \cup b.attestation : f.kind # "redacted"
    /\ b.tag \cup b.commit # {} <=> b.metadata # {}

NeverAnswered(answer, reason) ==
    \/ answer[1] \in {"not_evaluated", "error", "not_applicable"}
    \/ answer = <<"unknown", reason>>

FactsMissedFirst(b) ==  \* mutant: a local run's reason before a missing commit
    /\ ~job.server =>
           /\ ~SentToServer(b)
           /\ NeverAnswered(b.provenance, "server_facts_unavailable")
           /\ NeverAnswered(b.carried_out, "server_facts_unavailable")
    /\ ~SentToServer(b) => b.provenance[1] # "pass"
    /\ (b.commit = {} /\ job.server)
           => NeverAnswered(b.carried_out, "not_reported_by_tool")

FactsSourceOK(b) ==
    /\ ~job.server =>
           /\ ~SentToServer(b)
           /\ NeverAnswered(b.provenance, "server_facts_unavailable")
           /\ b.provenance[1] # "not_applicable"
    /\ ~SentToServer(b) => b.provenance[1] # "pass"
    /\ b.commit = {} => NeverAnswered(b.carried_out, "not_reported_by_tool")
    /\ (b.commit # {} /\ ~job.server)
           => NeverAnswered(b.carried_out, "server_facts_unavailable")

BuildAccepted(b) ==
    PlatformsComeFromTheIndex(b) /\ EvidenceOK(b) /\ FactsSourceOK(b)

(***************************************************************************)
(* What a reader checks against the files and the input.                   *)
(***************************************************************************)
AnyImagesMetadata(b) ==  \* mutant: the image the file names is not compared
    \A m \in b.metadata :
        (\A tag \in b.tag : m.tag = tag) /\ m.commit = b.commit

CheckBuildMetadata(b) ==
    \A m \in b.metadata :
        /\ m.image = b.image
        /\ \A tag \in b.tag : m.tag = tag
        /\ m.commit = b.commit

CheckPlatforms(b) ==
    \A i \in b.index : b.platform_digests = PlatformDigestsOf(i.image)

SentAndAnswered(b, outcome) ==  \* mutant: whichever file was checked
    SentToServer(b) <=> outcome # NotSent

CheckAttestationOutcome(b, outcome) ==
    /\ SentToServer(b) <=> outcome # NotSent
    /\ outcome # NotSent => b.attestation = {outcome.attestation}

PlatformsScanned(b) ==
    {r.image : r \in {x \in b.reports : x.named}}
        \cap (IF b.platform_digests = {} THEN {b.image}
              ELSE b.platform_digests)

(***************************************************************************)
(* A job.                                                                  *)
(***************************************************************************)
\* The run's second attempt: the first may have left an attestation.
BuildInit ==
    /\ job \in [server : BOOLEAN, attempt : {2}]
    /\ pushed = {} /\ outcomes = {} /\ build = {}
    /\ files \in
           {{}} \cup {{Attestation(image,
                                   [commit |-> "main", attempt |-> 1], TRUE)} :
                          image \in ImageDigests}

\* Built from a Git context, which Buildx names, or a local directory.
Builds == [image : ImageDigests, tag : Tags, git : BOOLEAN]

Push(b) ==
    /\ build = {} /\ pushed' = pushed \cup {b}
    /\ files' = files
           \cup {Metadata(b.image, b.tag,
                          IF b.git THEN {b.image.commit} ELSE {})}
           \cup (IF b.image.part = "index" THEN {Index(b.image)} ELSE {})
    /\ UNCHANGED <<job, outcomes, build>>

Images == {p.image : p \in pushed}
Of(kind) == {f \in files : f.kind = kind}

\* A file of the job's own: signed, of an image or one of its platforms, or
\* not a sound attestation of it; or a scan of what one platform runs.
Leave(file) ==
    /\ build = {} /\ files' = files \cup {file}
    /\ UNCHANGED <<job, pushed, outcomes, build>>

Sign ==
    \E image \in Images, sound \in BOOLEAN :
        \E about \in {image} \cup PlatformDigestsOf(image) :
            Leave(Attestation(about, JobIdentity, sound))

ScanPlatform ==
    \E image \in Images, named \in BOOLEAN :
        \E platform \in PlatformImages(image) : Leave(Scan(platform, named))

Send ==
    /\ job.server /\ build = {}
    /\ \E a \in Of("attestation"), image \in Images :
           \E answer \in ServerAnswers(a, image) :
               outcomes' = outcomes \cup {answer}
    /\ UNCHANGED <<job, pushed, files, build>>

(***************************************************************************)
(* What a record may say.                                                  *)
(***************************************************************************)
\* The input's server facts: a server run's may hold any of them, or none.
Sources == {{}} \cup (IF job.server THEN {{JobIdentity}} ELSE {})
Answers == {OutcomeMarker} \cup (IF job.server THEN outcomes \cup {NotSent} ELSE {})

AtMostOne(S) == {{}} \cup {{x} : x \in S}

\* The fields that tell of the platforms, of the push and of the attestation.
OfPlatforms(index, platform_digests, reports) ==
    [index |-> index, platform_digests |-> platform_digests,
     reports |-> reports]

OfPush(metadata, tag, commit) ==
    [metadata |-> metadata, tag |-> tag, commit |-> commit]

OfAttestation(attestation, sent) ==
    [attestation |-> attestation, sent |-> sent]

NoPlatforms   == OfPlatforms({}, {}, {})
NoPush        == OfPush({}, {}, {})
NoAttestation == OfAttestation({}, FALSE)

\* Whether it was written of one image's own files.
ItsOwnFiles == "its own files"
AnyFiles    == "any files"

Record(image, platforms, push, attested, from) ==
    [image |-> image, index |-> platforms.index,
     platform_digests |-> platforms.platform_digests,
     reports |-> platforms.reports, metadata |-> push.metadata,
     tag |-> push.tag, commit |-> push.commit,
     attestation |-> attested.attestation, sent |-> attested.sent,
     from |-> from]

\* The record with the evaluations of its build, made over an input.
InputOf(b, attestation, source) ==
    [image |-> b.image, commit |-> b.commit, source |-> source,
     attestation |-> attestation]

Evaluated(b, attestation, source) ==
    LET input == InputOf(b, attestation, source)
    IN  [image |-> b.image, index |-> b.index,
         platform_digests |-> b.platform_digests, reports |-> b.reports,
         metadata |-> b.metadata, tag |-> b.tag, commit |-> b.commit,
         attestation |-> b.attestation, sent |-> b.sent,
         from |-> b.from, input |-> input,
         provenance |-> SignedProvenance(input),
         carried_out |-> BuildCommitMatches(input)]

\* A scan is tied to an image by its own text, or only by the pipeline.
TiedTo(images) ==
    {f \in Of("scan") : f.named /\ f.image \in images} \cup
    {Scan(image, FALSE) :
        image \in {i \in images : \E f \in Of("scan") : ~f.named}}

\* Files of the image itself. The server checked what it was sent for it.
HonestPlatforms(image, reports) ==
    OfPlatforms(Of("index") \cap {Index(image)}, PlatformDigestsOf(image),
                reports)

HonestPush(metadata) ==
    OfPush(metadata, {m.tag : m \in metadata},
           UNION {m.commit : m \in metadata})

WasSent(attestation, image) ==
    \E o \in outcomes : attestation = {o.attestation} /\ o.image = image

HonestFiles(image) ==
    {Record(image, HonestPlatforms(image, reports), HonestPush(metadata),
            OfAttestation(a, WasSent(a, image)), ItsOwnFiles) :
        a \in AtMostOne(Of("attestation")),
        metadata \in AtMostOne({m \in Of("metadata") : m.image = image}),
        reports \in AtMostOne(TiedTo(PlatformImages(image)))}

\* The server's answer about the attestation sent, unless it gives a marker.
HonestAnswers(b) ==
    {OutcomeMarker} \cup
    (IF ~job.server THEN {}
     ELSE IF ~SentToServer(b) THEN {NotSent}
     ELSE {o \in outcomes : b.attestation = {o.attestation}
                            /\ o.image = b.image})

\* Any of the three groups of fields, each bound only to the image.
Kept(kind) == Of(kind) \cup {RedactedFile(f) : f \in Of(kind)}

AttestationClaims ==
    {Record(image, NoPlatforms, NoPush, OfAttestation(a, sent), AnyFiles) :
        image \in Images, sent \in BOOLEAN,
        a \in AtMostOne(Kept("attestation"))}

CommitClaims ==
    {Record(image, NoPlatforms, OfPush(metadata, tag, commit),
            NoAttestation, AnyFiles) :
        image \in Images, metadata \in {{m} : m \in Kept("metadata")},
        tag \in AtMostOne(Tags), commit \in AtMostOne(Commits)}

ScanClaims ==
    {Record(image, OfPlatforms(index, digests, reports), NoPush,
            NoAttestation, AnyFiles) :
        image \in Images, index \in AtMostOne(Of("index")),
        digests \in SUBSET UNION {PlatformDigestsOf(i) : i \in Images},
        reports \in AtMostOne(TiedTo(UNION {{i} \cup PlatformDigestsOf(i) :
                                               i \in Images}))}

WriteRecord ==
    /\ build = {}
    /\ \/ \E image \in Images, source \in Sources :
              \E b \in HonestFiles(image) :
                  \E attestation \in HonestAnswers(b) :
                      build' = {Evaluated(b, attestation, source)}
       \/ \E b \in AttestationClaims \cup CommitClaims \cup ScanClaims,
             attestation \in Answers, source \in Sources :
              /\ build' = {Evaluated(b, attestation, source)}
              /\ \A written \in build' : BuildAccepted(written)
    /\ UNCHANGED <<job, pushed, files, outcomes>>

JobNext(builds) ==
    \/ \E b \in builds : Push(b)
    \/ Sign \/ ScanPlatform \/ Send \/ WriteRecord

JobSpec == BuildInit /\ [][JobNext(Builds)]_buildVars

(***************************************************************************)
(* Properties.                                                             *)
(***************************************************************************)
CheckedFiles(b) ==
    /\ BuildAccepted(b) /\ CheckBuildMetadata(b) /\ CheckPlatforms(b)
    /\ b.input.attestation # OutcomeMarker
           => CheckAttestationOutcome(b, b.input.attestation)

\* Signed provenance passes only for the attestation the record keeps, and
\* only if it verifies, names this image, and this attempt of the run signed
\* it: not one that an earlier attempt left, that is about a platform image
\* or an image pushed before, or that was signed again after it was sent
\* (check_attestation_outcome, _check_facts_source).
PassIsOfTheKeptAttestation ==
    \A b \in build :
        (CheckedFiles(b) /\ b.provenance[1] = "pass") =>
            /\ job.server
            /\ \E a \in b.attestation \cap files :
                   Verifiable(a, b.image) /\ a.signer = JobIdentity

\* The commit, tag and platforms a checked record names are the image's own
\* although the job pushed several: the commit passes only if this image was
\* pushed from the verified commit, under the tag named; and a platform
\* counts as scanned only if a scan that names it was made, those left to
\* scan being all the other platforms (check_build_metadata, scan_coverage).
FilesDescribeTheImage ==
    \A b \in build :
        CheckedFiles(b) =>
            /\ b.metadata # {} =>
                   \E p \in pushed :
                       /\ p.image = b.image /\ b.tag \subseteq {p.tag}
                       /\ b.carried_out[1] = "pass"
                              => p.git /\ p.image.commit = JobIdentity.commit
            /\ PlatformsScanned(b) \subseteq
                   {f.image : f \in {g \in Of("scan") : g.named}}
            /\ b.index # {} =>
                   PlatformImages(b.image) = b.platform_digests

\* A record of one image's own files, with the evaluations of its build, is
\* accepted and passes every check, whatever the server gave: the reason an
\* answer is unknown for is the one the rules expect (_check_facts_source,
\* which the assertions' compiled programs must agree with).
HonestBuildAccepted == 
    \A b \in build : b.from = ItsOwnFiles => CheckedFiles(b)
=============================================================================
