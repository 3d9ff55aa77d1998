--------------------------- MODULE DeliveryProofs ---------------------------
(***************************************************************************)
(* What a release or a production change rests on: the build of an image   *)
(* and the files that describe it, the approval of a change, and the       *)
(* identity of the installed package. For any builds, files, answers,      *)
(* approvals, plans and releases, in any order.                            *)
(***************************************************************************)
EXTENDS ImageBuild, ChangeApproval, Distribution, TLAPS

(***************************************************************************)
(* Image builds. The files a record names need not be of one build, nor of *)
(* its image; the invariant keeps, for each file and answer, whose it is,  *)
(* and of a record, which of them it was written over. Nothing is left or  *)
(* answered once the record is written, or it could lose what it names.    *)
(***************************************************************************)
\* A file the job left: of a push, or an attestation, or a scan of an image.
IsLeft(f) ==
    \/ \E p \in pushed :
           f = Metadata(p.image, p.tag,
                        IF p.git THEN {p.image.commit} ELSE {})
    \/ \E p \in pushed : p.image.part = "index" /\ f = Index(p.image)
    \/ f.kind = "attestation"
    \/ f.kind = "scan"

\* An answer of the server's about an attestation that was left.
IsAnswer(o) ==
    \E a \in Of("attestation"), image \in Images : o \in ServerAnswers(a, image)

\* A record's evaluations are those of its input, which was the server's.
OverItsInput(b) ==
    /\ b.input = InputOf(b, b.input.attestation, b.input.source)
    /\ b.input.source \in Sources
    /\ b.input.attestation \in Answers
    /\ b.provenance = SignedProvenance(b.input)
    /\ b.carried_out = BuildCommitMatches(b.input)

\* The metadata a record names, redacted or not, and every report that names
\* what it scanned, are files that were left.
NamesFiles(b) ==
    /\ b.metadata \subseteq Kept("metadata")
    /\ \A r \in b.reports : r.named => r \in Of("scan")

\* A record of one image's own files, as HonestFiles makes it.
OfOneImage(b) ==
    /\ b.image \in Images
    /\ b.index = Of("index") \cap {Index(b.image)}
    /\ b.platform_digests = PlatformDigestsOf(b.image)
    /\ b.reports \subseteq TiedTo(PlatformImages(b.image))
    /\ b.metadata \in AtMostOne({m \in Of("metadata") : m.image = b.image})
    /\ b.tag = {m.tag : m \in b.metadata}
    /\ b.commit = UNION {m.commit : m \in b.metadata}
    /\ b.attestation \in AtMostOne(Of("attestation"))
    /\ b.sent <=> \E o \in outcomes :
                      b.attestation = {o.attestation} /\ o.image = b.image
    /\ b.input.attestation \in HonestAnswers(b)

IsWritten(b) ==
    /\ OverItsInput(b)
    /\ NamesFiles(b)
    /\ b.from = ItsOwnFiles => OfOneImage(b)

JobInv ==
    /\ pushed \subseteq Builds
    /\ \A f \in files : IsLeft(f)
    /\ \A p \in pushed : p.image.part = "index" => Index(p.image) \in files
    /\ outcomes # {} => job.server
    /\ \A o \in outcomes : IsAnswer(o)
    /\ \A b \in build : IsWritten(b)

\* What a record that is written reads.
LEMMA EvaluatedReads ==
    ASSUME NEW c, NEW attestation, NEW source, NEW b,
           b = Evaluated(c, attestation, source)
    PROVE  /\ b.image = c.image /\ b.index = c.index
           /\ b.platform_digests = c.platform_digests
           /\ b.reports = c.reports /\ b.metadata = c.metadata
           /\ b.tag = c.tag /\ b.commit = c.commit
           /\ b.attestation = c.attestation
           /\ b.sent = c.sent
           /\ b.from = c.from
           /\ b.input = InputOf(c, attestation, source)
           /\ b.provenance = SignedProvenance(b.input)
           /\ b.carried_out = BuildCommitMatches(b.input)
  BY DEF Evaluated

LEMMA RecordReads ==
    ASSUME NEW image, NEW platforms, NEW push, NEW attested, NEW from, NEW c,
           c = Record(image, platforms, push, attested, from)
    PROVE  /\ c.image = image /\ c.index = platforms.index
           /\ c.platform_digests = platforms.platform_digests
           /\ c.reports = platforms.reports /\ c.metadata = push.metadata
           /\ c.tag = push.tag /\ c.commit = push.commit
           /\ c.attestation = attested.attestation
           /\ c.sent = attested.sent
           /\ c.from = from
  BY DEF Record

LEMMA NothingBuilt == BuildInit => JobInv
  BY DEF BuildInit, JobInv, IsLeft, Attestation

\* While what a record was written of stays, it stays such a record.
LEMMA SameWritten ==
    ASSUME UNCHANGED <<job, pushed, files, outcomes>>, NEW b, IsWritten(b)
    PROVE  IsWritten(b)'
  <1>1. UNCHANGED Sources /\ UNCHANGED Answers /\ UNCHANGED Images
    BY DEF Sources, Answers, Images, JobIdentity
  <1>2. \A kind : UNCHANGED Of(kind)
    BY DEF Of
  <1>3. \A S : UNCHANGED TiedTo(S)
    BY <1>2 DEF TiedTo
  <1>4. UNCHANGED HonestAnswers(b)
    BY DEF HonestAnswers
  <1>5. OverItsInput(b)'
    BY <1>1 DEF IsWritten, OverItsInput
  <1>6. NamesFiles(b)'
    BY <1>2 DEF IsWritten, NamesFiles, Kept
  <1>7. OfOneImage(b)' <=> OfOneImage(b)
    BY <1>1, <1>2, <1>3, <1>4 DEF OfOneImage
  <1> QED
    BY <1>5, <1>6, <1>7 DEF IsWritten

\* What was left and answered stays so, while only more is pushed and left.
LEMMA LeftStays ==
    ASSUME JobInv, pushed \subseteq pushed', files \subseteq files'
    PROVE  /\ \A f \in files : IsLeft(f)'
           /\ job' = job => \A o \in outcomes : IsAnswer(o)'
  <1>1. \A f \in files : IsLeft(f)'
    <2> SUFFICES ASSUME NEW f \in files
                 PROVE  IsLeft(f)'
      OBVIOUS
    <2>1. IsLeft(f)
      BY DEF JobInv
    <2> QED
      BY <2>1 DEF IsLeft
  <1>2. ASSUME job' = job, NEW o \in outcomes
        PROVE  IsAnswer(o)'
    <2>1. PICK a \in Of("attestation"), image \in Images :
              o \in ServerAnswers(a, image)
      BY DEF JobInv, IsAnswer
    <2>2. a \in Of("attestation")' /\ image \in Images'
      BY DEF Of, Images
    <2>3. ServerAnswers(a, image)' = ServerAnswers(a, image)
      BY <1>2 DEF ServerAnswers, Verifiable, JobIdentity
    <2> QED
      BY <2>1, <2>2, <2>3 DEF IsAnswer
  <1> QED
    BY <1>1, <1>2

\* A build is pushed, and Buildx describes it.
LEMMA PushKeeps ==
    ASSUME JobInv, NEW b \in Builds, Push(b)
    PROVE  JobInv'
  <1> DEFINE Described == Metadata(b.image, b.tag,
                                   IF b.git THEN {b.image.commit} ELSE {})
             Indexed == IF b.image.part = "index" THEN {Index(b.image)} ELSE {}
  <1>1. /\ files' = files \cup {Described} \cup Indexed
        /\ pushed' = pushed \cup {b}
        /\ build' = build /\ build = {} /\ outcomes' = outcomes /\ job' = job
    BY DEF Push
  <1> HIDE DEF Described
  <1>2. IsLeft(Described)'
    BY <1>1 DEF IsLeft, Described
  <1>3. \A f \in Indexed : IsLeft(f)'
    BY <1>1 DEF IsLeft
  <1> HIDE DEF Indexed
  <1>4. /\ \A f \in files : IsLeft(f)'
        /\ \A o \in outcomes : IsAnswer(o)'
    BY <1>1, LeftStays
  <1>5. \A f \in files' : IsLeft(f)'
    BY <1>1, <1>2, <1>3, <1>4
  <1>6. \A p \in pushed' : p.image.part = "index" => Index(p.image) \in files'
    BY <1>1 DEF Indexed, JobInv
  <1> QED
    BY <1>1, <1>4, <1>5, <1>6 DEF JobInv

\* A file of the job's own is left.
LEMMA LeaveKeeps ==
    ASSUME JobInv, NEW file, Leave(file),
           file.kind \in {"attestation", "scan"}
    PROVE  JobInv'
  <1>1. /\ files' = files \cup {file}
        /\ pushed' = pushed
        /\ build' = build /\ build = {} /\ outcomes' = outcomes /\ job' = job
    BY DEF Leave
  <1>2. IsLeft(file)'
    BY DEF IsLeft
  <1>3. /\ \A f \in files : IsLeft(f)'
        /\ \A o \in outcomes : IsAnswer(o)'
    BY <1>1, LeftStays
  <1>4. \A f \in files' : IsLeft(f)'
    BY <1>1, <1>2, <1>3
  <1> QED
    BY <1>1, <1>3, <1>4 DEF JobInv

\* The server answers about an attestation.
LEMMA SendKeeps ==
    ASSUME JobInv, Send
    PROVE  JobInv'
  <1>1. PICK a \in Of("attestation"), image \in Images :
            \E answer \in ServerAnswers(a, image) :
                outcomes' = outcomes \cup {answer}
    BY DEF Send
  <1>2. PICK answer \in ServerAnswers(a, image) :
            outcomes' = outcomes \cup {answer}
    BY <1>1
  <1>3. /\ job.server /\ build = {}
        /\ UNCHANGED <<job, pushed, files, build>>
    BY DEF Send
  <1>4. IsAnswer(answer)
    BY <1>2 DEF IsAnswer
  <1>5. \A o : IsAnswer(o)' <=> IsAnswer(o)
    BY <1>3 DEF IsAnswer, Of, Images, ServerAnswers, Verifiable, JobIdentity
  <1>6. \A o \in outcomes' : IsAnswer(o)'
    BY <1>2, <1>4, <1>5 DEF JobInv
  <1>7. \A f \in files' : IsLeft(f)'
    BY <1>3 DEF JobInv, IsLeft
  <1> QED
    BY <1>3, <1>6, <1>7 DEF JobInv

\* What is evaluated over an answer and a source there are is so.
LEMMA EvaluatedOverInput ==
    ASSUME NEW c, NEW attestation \in Answers, NEW source \in Sources, NEW b,
           b = Evaluated(c, attestation, source)
    PROVE  OverItsInput(b)
  <1>1. /\ b.image = c.image /\ b.commit = c.commit
        /\ b.input = InputOf(c, attestation, source)
        /\ b.provenance = SignedProvenance(b.input)
        /\ b.carried_out = BuildCommitMatches(b.input)
    BY EvaluatedReads
  <1>2. b.input.attestation = attestation /\ b.input.source = source
    BY <1>1 DEF InputOf
  <1>3. b.input = InputOf(b, attestation, source)
    BY <1>1 DEF InputOf
  <1> QED
    BY <1>1, <1>2, <1>3 DEF OverItsInput

\* A scan that names what it scanned is tied to an image by being a file.
LEMMA TiedIsLeft ==
    ASSUME NEW images, NEW r \in TiedTo(images)
    PROVE  r.named => r \in Of("scan")
  BY DEF TiedTo, Scan

\* A record of the image's own files is of one image.
LEMMA HonestOfOneImage ==
    ASSUME JobInv, NEW image \in Images, NEW c \in HonestFiles(image),
           NEW attestation \in HonestAnswers(c), NEW source \in Sources,
           NEW b, b = Evaluated(c, attestation, source)
    PROVE  IsWritten(b)
  <1>1. PICK a \in AtMostOne(Of("attestation")),
             metadata \in AtMostOne({m \in Of("metadata") : m.image = image}),
             reports \in AtMostOne(TiedTo(PlatformImages(image))) :
            c = Record(image, HonestPlatforms(image, reports),
                       HonestPush(metadata), OfAttestation(a, WasSent(a, image)), ItsOwnFiles)
    BY DEF HonestFiles
  <1>2. /\ c.image = image
        /\ c.index = Of("index") \cap {Index(image)}
        /\ c.platform_digests = PlatformDigestsOf(image)
        /\ c.reports = reports
    BY <1>1, RecordReads DEF HonestPlatforms, OfPlatforms
  <1>3. /\ c.metadata = metadata
        /\ c.tag = {m.tag : m \in metadata}
        /\ c.commit = UNION {m.commit : m \in metadata}
    BY <1>1, RecordReads DEF HonestPush, OfPush
  <1>4. /\ c.attestation = a
        /\ c.sent <=> \E o \in outcomes : a = {o.attestation} /\ o.image = image
    BY <1>1, RecordReads DEF OfAttestation, WasSent
  <1>5. /\ b.image = image /\ b.index = c.index
        /\ b.platform_digests = c.platform_digests /\ b.reports = c.reports
        /\ b.metadata = c.metadata /\ b.tag = c.tag /\ b.commit = c.commit
        /\ b.attestation = c.attestation /\ b.sent = c.sent
    BY <1>2, EvaluatedReads
  <1>13. b.input.attestation = attestation
    <2>1. b.input = InputOf(c, attestation, source)
      BY EvaluatedReads
    <2> QED
      BY <2>1 DEF InputOf
  <1>6. attestation \in Answers
    BY DEF HonestAnswers, Answers
  <1>7. OverItsInput(b)
    BY <1>6, EvaluatedOverInput
  <1>8. HonestAnswers(b) = HonestAnswers(c)
    BY <1>2, <1>5 DEF HonestAnswers, SentToServer
  <1>9. reports \subseteq TiedTo(PlatformImages(image))
    BY DEF AtMostOne
  <1>10. metadata \subseteq Of("metadata")
    BY DEF AtMostOne
  <1>11. NamesFiles(b)
    <2>1. b.metadata \subseteq Kept("metadata")
      BY <1>3, <1>5, <1>10 DEF Kept
    <2>2. \A r \in b.reports : r.named => r \in Of("scan")
      BY <1>2, <1>5, <1>9, TiedIsLeft
    <2> QED
      BY <2>1, <2>2 DEF NamesFiles
  <1>12. OfOneImage(b)
    BY <1>2, <1>3, <1>4, <1>5, <1>8, <1>9, <1>13 DEF OfOneImage
  <1> QED
    BY <1>7, <1>11, <1>12 DEF IsWritten

\* A record that claims what it likes still names files.
LEMMA ClaimNamesFiles ==
    ASSUME NEW c \in AttestationClaims \cup CommitClaims \cup ScanClaims,
           NEW attestation \in Answers, NEW source \in Sources,
           NEW b, b = Evaluated(c, attestation, source)
    PROVE  IsWritten(b)
  <1>1. OverItsInput(b)
    BY EvaluatedOverInput
  <1>2. b.metadata = c.metadata /\ b.reports = c.reports
        /\ b.from = c.from
    BY EvaluatedReads
  <1>3. CASE c \in AttestationClaims
    <2>1. PICK image \in Images, sent \in BOOLEAN,
               a \in AtMostOne(Kept("attestation")) :
              c = Record(image, NoPlatforms, NoPush, OfAttestation(a, sent),
                         AnyFiles)
      BY <1>3 DEF AttestationClaims
    <2>2. c.metadata = {} /\ c.reports = {} /\ c.from = AnyFiles
      BY <2>1, RecordReads DEF NoPlatforms, NoPush, OfPlatforms, OfPush
    <2> QED
      BY <1>1, <1>2, <2>2 DEF IsWritten, NamesFiles, ItsOwnFiles, AnyFiles
  <1>4. CASE c \in CommitClaims
    <2>1. PICK image \in Images, metadata \in {{m} : m \in Kept("metadata")},
               tag \in AtMostOne(Tags), commit \in AtMostOne(Commits) :
              c = Record(image, NoPlatforms,
                         OfPush(metadata, tag, commit), NoAttestation, AnyFiles)
      BY <1>4 DEF CommitClaims
    <2>2. /\ c.metadata = metadata
          /\ c.reports = {} /\ c.from = AnyFiles
      BY <2>1, RecordReads DEF NoPlatforms, OfPlatforms, OfPush
    <2> QED
      BY <1>1, <1>2, <2>2 DEF IsWritten, NamesFiles, ItsOwnFiles, AnyFiles
  <1>5. CASE c \in ScanClaims
    <2> DEFINE Every == UNION {{i} \cup PlatformDigestsOf(i) : i \in Images}
    <2>1. PICK reports \in AtMostOne(TiedTo(Every)) :
              \E image, index, digests :
                  c = Record(image, OfPlatforms(index, digests, reports),
                             NoPush, NoAttestation, AnyFiles)
      BY <1>5 DEF ScanClaims
    <2> HIDE DEF Every
    <2>2. c.metadata = {} /\ c.reports = reports /\ c.from = AnyFiles
      BY <2>1, RecordReads DEF NoPush, OfPush, OfPlatforms
    <2>3. \A r \in reports : r \in TiedTo(Every)
      BY DEF AtMostOne
    <2>4. \A r \in b.reports : r.named => r \in Of("scan")
      BY <1>2, <2>2, <2>3, TiedIsLeft
    <2> QED
      BY <1>1, <1>2, <2>2, <2>4 DEF IsWritten, NamesFiles, ItsOwnFiles, AnyFiles
  <1> QED
    BY <1>3, <1>4, <1>5

\* A record is written.
LEMMA WriteKeeps ==
    ASSUME JobInv, WriteRecord
    PROVE  JobInv'
  <1>1. UNCHANGED <<job, pushed, files, outcomes>>
    BY DEF WriteRecord
  <1>2. \A b \in build' : IsWritten(b)
    BY HonestOfOneImage, ClaimNamesFiles DEF WriteRecord
  <1>3. \A b \in build' : IsWritten(b)'
    BY <1>1, <1>2, SameWritten
  <1>4. \A f \in files' : IsLeft(f)'
    BY <1>1 DEF JobInv, IsLeft
  <1>5. \A o \in outcomes' : IsAnswer(o)'
    <2>1. \A o : IsAnswer(o)' <=> IsAnswer(o)
      BY <1>1 DEF IsAnswer, Of, Images, ServerAnswers, Verifiable, JobIdentity
    <2> QED
      BY <1>1, <2>1 DEF JobInv
  <1> QED
    BY <1>1, <1>3, <1>4, <1>5 DEF JobInv

LEMMA JobKeepsInv ==
    JobSpec => []JobInv
  <1>1. JobInv /\ [JobNext(Builds)]_buildVars => JobInv'
    <2> SUFFICES ASSUME JobInv, [JobNext(Builds)]_buildVars
                 PROVE  JobInv'
      OBVIOUS
    <2>1. CASE \E b \in Builds : Push(b)
      BY <2>1, PushKeeps
    <2>2. CASE Sign
      BY <2>2, LeaveKeeps DEF Sign, Attestation
    <2>3. CASE ScanPlatform
      BY <2>3, LeaveKeeps DEF ScanPlatform, Scan
    <2>4. CASE Send
      BY <2>4, SendKeeps
    <2>5. CASE WriteRecord
      BY <2>5, WriteKeeps
    <2>6. CASE UNCHANGED buildVars
      <3>1. UNCHANGED <<job, pushed, files, outcomes>> /\ UNCHANGED build
        BY <2>6 DEF buildVars
      <3>2. \A b \in build' : IsWritten(b)'
        BY <3>1, SameWritten DEF JobInv
      <3>3. \A f \in files' : IsLeft(f)'
        BY <3>1 DEF JobInv, IsLeft
      <3>4. \A o : IsAnswer(o)' <=> IsAnswer(o)
        BY <3>1 DEF IsAnswer, Of, Images, ServerAnswers, Verifiable, JobIdentity
      <3> QED
        BY <3>1, <3>2, <3>3, <3>4 DEF JobInv
    <2> QED
      BY <2>1, <2>2, <2>3, <2>4, <2>5, <2>6 DEF JobNext
  <1> QED
    BY <1>1, NothingBuilt, PTL DEF JobSpec

\* What the server may have answered with "verified".
LEMMA VerifiedAnswer ==
    ASSUME JobInv, NEW o \in outcomes, o.outcome = "verified"
    PROVE  o.attestation \in files /\ Verifiable(o.attestation, o.image)
  <1>1. PICK a \in Of("attestation"), image \in Images :
            o \in ServerAnswers(a, image)
    BY DEF JobInv, IsAnswer
  <1>2. o.attestation = a /\ o.image = image
    BY <1>1 DEF ServerAnswers
  <1>3. Verifiable(a, image)
    BY <1>1 DEF ServerAnswers
  <1> QED
    BY <1>2, <1>3 DEF Of

\* What a pass of the provenance assertion is made over.
LEMMA ProvenancePassed ==
    ASSUME NEW input, SignedProvenance(input)[1] = "pass"
    PROVE  /\ input.attestation # OutcomeMarker
           /\ input.attestation.outcome = "verified"
           /\ input.attestation.image = input.image
           /\ input.source = {input.attestation.attestation.signer}
  BY DEF SignedProvenance

\* Passes are of the attestation the record keeps, and that one verifies.
LEMMA PassKept ==
    ASSUME JobInv, NEW b \in build, CheckedFiles(b), b.provenance[1] = "pass"
    PROVE  /\ job.server
           /\ \E a \in b.attestation \cap files :
                  Verifiable(a, b.image) /\ a.signer = JobIdentity
  <1> DEFINE o == b.input.attestation
  <1>1. /\ b.input = InputOf(b, o, b.input.source)
        /\ b.input.source \in Sources
        /\ o \in Answers
        /\ b.provenance = SignedProvenance(b.input)
    BY DEF JobInv, IsWritten, OverItsInput
  <1>2. b.input.image = b.image
    BY <1>1 DEF InputOf
  <1>3. /\ o # OutcomeMarker /\ o.outcome = "verified" /\ o.image = b.image
        /\ b.input.source = {o.attestation.signer}
    BY <1>1, <1>2, ProvenancePassed
  <1>4. o # NotSent
    BY <1>3 DEF NotSent
  <1>5. o \in outcomes
    BY <1>1, <1>3, <1>4 DEF Answers
  <1>6. b.attestation = {o.attestation}
    BY <1>3, <1>4 DEF CheckedFiles, CheckAttestationOutcome
  <1>7. job.server /\ o.attestation.signer = JobIdentity
    BY <1>1, <1>3 DEF Sources
  <1>8. o.attestation \in files /\ Verifiable(o.attestation, b.image)
    BY <1>3, <1>5, VerifiedAnswer
  <1> QED
    BY <1>6, <1>7, <1>8

\* Signed provenance passes only for the attestation the record keeps, and
\* only if it verifies, names this image, and this attempt of the run signed
\* it (check_attestation_outcome, _check_facts_source).
THEOREM PassKeepsAttestation == JobSpec => []PassIsOfTheKeptAttestation
  <1>1. JobInv => PassIsOfTheKeptAttestation
    BY PassKept DEF PassIsOfTheKeptAttestation
  <1> QED
    BY <1>1, JobKeepsInv, PTL

\* The metadata file of a record whose files were kept is of a push.
LEMMA MetadataIsOfPush ==
    ASSUME JobInv, NEW b \in build, CheckedFiles(b), NEW m \in b.metadata
    PROVE  \E p \in pushed :
               /\ m.image = p.image /\ m.tag = p.tag
               /\ m.commit = IF p.git THEN {p.image.commit} ELSE {}
  <1>1. m \in Kept("metadata") /\ m.kind # "redacted"
    BY DEF JobInv, IsWritten, NamesFiles, CheckedFiles, BuildAccepted,
           EvidenceOK
  <1>2. m \in files /\ m.kind = "metadata"
    BY <1>1 DEF Kept, Of, RedactedFile
  <1>3. IsLeft(m)
    BY <1>2 DEF JobInv
  <1>4. PICK p \in pushed :
            m = Metadata(p.image, p.tag,
                         IF p.git THEN {p.image.commit} ELSE {})
    BY <1>2, <1>3 DEF IsLeft, Index
  <1>5. m.image = p.image /\ m.tag = p.tag
    BY <1>4 DEF Metadata
  <1>6. m.commit = IF p.git THEN {p.image.commit} ELSE {}
    BY <1>4 DEF Metadata
  <1> QED
    BY <1>5, <1>6

\* Over which commit and which run the commit's assertion passes.
LEMMA CommitPassed ==
    ASSUME NEW input, BuildCommitMatches(input)[1] = "pass"
    PROVE  /\ input.commit # {} /\ input.source # {}
           /\ input.commit = {s.commit : s \in input.source}
  BY DEF BuildCommitMatches

LEMMA FilesDescribe ==
    ASSUME JobInv, NEW b \in build, CheckedFiles(b)
    PROVE  /\ b.metadata # {} =>
                  \E p \in pushed :
                      /\ p.image = b.image /\ b.tag \subseteq {p.tag}
                      /\ b.carried_out[1] = "pass"
                             => p.git /\ p.image.commit = JobIdentity.commit
           /\ PlatformsScanned(b) \subseteq
                  {f.image : f \in {g \in Of("scan") : g.named}}
           /\ b.index # {} => PlatformImages(b.image) = b.platform_digests
  <1>1. ASSUME b.metadata # {}
        PROVE  \E p \in pushed :
                   /\ p.image = b.image /\ b.tag \subseteq {p.tag}
                   /\ b.carried_out[1] = "pass"
                          => p.git /\ p.image.commit = JobIdentity.commit
    <2>1. PICK m \in b.metadata : TRUE
      BY <1>1
    <2>2. PICK p \in pushed :
              /\ m.image = p.image /\ m.tag = p.tag
              /\ m.commit = IF p.git THEN {p.image.commit} ELSE {}
      BY MetadataIsOfPush
    <2>3. /\ m.image = b.image /\ \A tag \in b.tag : m.tag = tag
          /\ m.commit = b.commit
      BY DEF CheckedFiles, CheckBuildMetadata
    <2>4. ASSUME b.carried_out[1] = "pass"
          PROVE  p.git /\ p.image.commit = JobIdentity.commit
      <3>1. /\ b.input = InputOf(b, b.input.attestation, b.input.source)
            /\ b.input.source \in Sources
            /\ b.carried_out = BuildCommitMatches(b.input)
        BY DEF JobInv, IsWritten, OverItsInput
      <3>2. b.input.commit = b.commit
        BY <3>1 DEF InputOf
      <3>3. /\ b.commit # {} /\ b.input.source # {}
            /\ b.commit = {s.commit : s \in b.input.source}
        BY <2>4, <3>1, <3>2, CommitPassed
      <3>4. b.input.source = {JobIdentity}
        BY <3>1, <3>3 DEF Sources
      <3>5. b.commit = {JobIdentity.commit}
        BY <3>3, <3>4
      <3> QED
        BY <2>2, <2>3, <3>3, <3>5
    <2> QED
      BY <2>2, <2>3, <2>4
  <1>2. PlatformsScanned(b) \subseteq
            {f.image : f \in {g \in Of("scan") : g.named}}
    BY DEF PlatformsScanned, JobInv, IsWritten, NamesFiles
  <1>3. ASSUME b.index # {}
        PROVE  PlatformImages(b.image) = b.platform_digests
    <2>1. PICK i \in b.index : i = Index(b.image)
      BY <1>3 DEF CheckedFiles, BuildAccepted, EvidenceOK
    <2>2. b.platform_digests = PlatformDigestsOf(b.image)
      BY <2>1 DEF CheckedFiles, CheckPlatforms, Index
    <2>3. b.platform_digests # {}
      BY <1>3 DEF CheckedFiles, BuildAccepted, PlatformsComeFromTheIndex
    <2> QED
      BY <2>2, <2>3 DEF PlatformDigestsOf, PlatformImages
  <1> QED
    BY <1>1, <1>2, <1>3

\* The commit, tag and platforms a checked record names are the image's own,
\* however many the job pushed (check_build_metadata, scan_coverage).
THEOREM FilesOfTheImage == JobSpec => []FilesDescribeTheImage
  <1>1. JobInv => FilesDescribeTheImage
    BY FilesDescribe DEF FilesDescribeTheImage
  <1> QED
    BY <1>1, JobKeepsInv, PTL

\* A platform is none of an image's parts.
LEMMA PlatformsAreOthers ==
    ASSUME NEW image \in ImageDigests
    PROVE  /\ image \notin PlatformDigestsOf(image)
           /\ PlatformDigestsOf(image) = {} <=> image.part # "index"
           /\ image.part = "index" => image \notin PlatformImages(image)
           /\ PlatformImages(image) \subseteq {image} \cup PlatformDigestsOf(image)
  <1>1. image.part \in {"index", "single"}
    BY DEF ImageDigests
  <1>2. \A i \in PlatformDigestsOf(image) : i.part \in Platforms
    BY DEF PlatformDigestsOf
  <1>3. image \notin PlatformDigestsOf(image)
    BY <1>1, <1>2 DEF Platforms
  <1>4. image.part = "index" => PlatformDigestsOf(image) # {}
    <2>1. "amd64" \in Platforms
      BY DEF Platforms
    <2> QED
      BY <2>1 DEF PlatformDigestsOf
  <1>5. image.part # "index" => PlatformDigestsOf(image) = {}
    BY DEF PlatformDigestsOf
  <1>6. image.part = "index" => PlatformImages(image) = PlatformDigestsOf(image)
    BY DEF PlatformImages
  <1>7. image.part # "index" => PlatformImages(image) = {image}
    BY DEF PlatformImages
  <1> QED
    BY <1>3, <1>4, <1>5, <1>6, <1>7

LEMMA TiedImages ==
    ASSUME NEW images, NEW r \in TiedTo(images)
    PROVE  r.image \in images
  BY DEF TiedTo, Scan

\* The record's own rules about platforms hold of one image's files.
LEMMA HonestPlatformsOK ==
    ASSUME JobInv, NEW b \in build, OfOneImage(b)
    PROVE  PlatformsComeFromTheIndex(b) /\ CheckPlatforms(b)
  <1>1. b.image \in ImageDigests
    BY DEF OfOneImage, JobInv, Images, Builds
  <1>2. \A r \in b.reports : r.image \in PlatformImages(b.image)
    BY TiedImages DEF OfOneImage
  <1>3. \A i \in b.index : i = Index(b.image)
    BY DEF OfOneImage
  <1>4. (b.index = {}) <=> b.image.part # "index"
    <2>1. ASSUME b.image.part = "index"
          PROVE  b.index # {}
      <3>1. Index(b.image) \in files
        BY <2>1 DEF OfOneImage, JobInv, Images
      <3>2. Index(b.image) \in Of("index")
        BY <3>1 DEF Of, Index
      <3> QED
        BY <3>2 DEF OfOneImage
    <2>2. ASSUME b.index # {}
          PROVE  b.image.part = "index"
      <3>1. Index(b.image) \in files
        BY <2>2 DEF OfOneImage, Of
      <3>2. IsLeft(Index(b.image))
        BY <3>1 DEF JobInv
      <3>3. PICK p \in pushed : p.image.part = "index"
                                /\ Index(b.image) = Index(p.image)
        BY <3>2 DEF IsLeft, Index, Metadata
      <3>4. b.image = p.image
        BY <3>3 DEF Index
      <3> QED
        BY <3>3, <3>4
    <2> QED
      BY <2>1, <2>2
  <1>5. b.platform_digests = PlatformDigestsOf(b.image)
    BY DEF OfOneImage
  <1>6. CheckScansNameTheirPlatform(b)
    BY <1>1, <1>2, <1>5, PlatformsAreOthers DEF CheckScansNameTheirPlatform
  <1>7. CheckPlatforms(b)
    BY <1>3, <1>5 DEF CheckPlatforms, Index
  <1> QED
    BY <1>1, <1>2, <1>4, <1>5, <1>6, <1>7, PlatformsAreOthers
       DEF PlatformsComeFromTheIndex

\* So do those about its evidence.
LEMMA HonestEvidenceOK ==
    ASSUME JobInv, NEW b \in build, OfOneImage(b)
    PROVE  EvidenceOK(b) /\ CheckBuildMetadata(b)
  <1>1. \A i \in b.index : i = Index(b.image)
    BY DEF OfOneImage
  <1>2. \A f \in b.metadata : f \in Of("metadata") /\ f.image = b.image
    BY DEF OfOneImage, AtMostOne
  <1>3. \A f \in b.attestation : f \in Of("attestation")
    BY DEF OfOneImage, AtMostOne
  <1>4. \A f \in b.metadata \cup b.attestation : f.kind # "redacted"
    BY <1>2, <1>3 DEF Of
  <1>5. CASE b.metadata = {}
    <2>1. b.tag = {} /\ b.commit = {}
      BY <1>5 DEF OfOneImage
    <2> QED
      BY <1>1, <1>4, <1>5, <2>1 DEF EvidenceOK, CheckBuildMetadata
  <1>6. CASE b.metadata # {}
    <2>1. PICK m : b.metadata = {m}
      BY <1>6 DEF OfOneImage, AtMostOne
    <2>2. b.tag = {m.tag} /\ b.commit = m.commit
      BY <2>1 DEF OfOneImage
    <2> QED
      BY <1>1, <1>2, <1>4, <2>1, <2>2 DEF EvidenceOK, CheckBuildMetadata
  <1> QED
    BY <1>5, <1>6

\* And those about what each evaluation was made over.
LEMMA HonestSourceOK ==
    ASSUME JobInv, NEW b \in build, OfOneImage(b), OverItsInput(b)
    PROVE  FactsSourceOK(b)
  <1> DEFINE o == b.input.attestation
  <1>1. /\ b.input = InputOf(b, o, b.input.source)
        /\ b.input.source \in Sources
        /\ b.provenance = SignedProvenance(b.input)
        /\ b.carried_out = BuildCommitMatches(b.input)
        /\ o \in HonestAnswers(b)
    BY DEF OverItsInput, OfOneImage
  <1>2. b.input.commit = b.commit
    BY <1>1 DEF InputOf
  <1>3. ~job.server => ~SentToServer(b)
    BY DEF OfOneImage, SentToServer, JobInv
  <1>4. ~SentToServer(b) => o = OutcomeMarker \/ o = NotSent
    BY <1>1 DEF HonestAnswers
  <1>5. o = OutcomeMarker => b.provenance = <<"unknown", "server_facts_unavailable">>
    BY <1>1 DEF SignedProvenance
  <1>6. o = NotSent => b.provenance = <<"fail", "none">>
    BY <1>1 DEF SignedProvenance, NotSent, OutcomeMarker
  <1>7. ~SentToServer(b) => b.provenance[1] # "pass"
    BY <1>4, <1>5, <1>6
  <1>8. ~job.server => o = OutcomeMarker /\ b.input.source = {}
    BY <1>1 DEF HonestAnswers, Sources
  <1>9. b.commit = {} =>
            b.carried_out = <<"unknown", "not_reported_by_tool">>
    BY <1>1, <1>2 DEF BuildCommitMatches
  <1>10. (b.commit # {} /\ ~job.server) =>
             b.carried_out = <<"unknown", "server_facts_unavailable">>
    BY <1>1, <1>2, <1>8 DEF BuildCommitMatches
  <1>11. ~job.server => b.provenance = <<"unknown", "server_facts_unavailable">>
    BY <1>5, <1>8
  <1> QED
    BY <1>3, <1>7, <1>9, <1>10, <1>11 DEF FactsSourceOK, NeverAnswered

\* And the reader's check of what the server answered.
LEMMA HonestOutcomeOK ==
    ASSUME JobInv, NEW b \in build, OfOneImage(b),
           b.input.attestation # OutcomeMarker
    PROVE  CheckAttestationOutcome(b, b.input.attestation)
  <1> DEFINE o == b.input.attestation
  <1>1. o \in HonestAnswers(b)
    BY DEF OfOneImage
  <1>2. CASE o = NotSent
    <2>1. ~SentToServer(b)
      <3> SUFFICES ASSUME SentToServer(b)
                   PROVE  FALSE
        OBVIOUS
      <3>1. NotSent \in outcomes
        BY <1>1, <1>2 DEF HonestAnswers, OutcomeMarker, NotSent
      <3>2. PICK a \in Of("attestation"), image \in Images :
                NotSent \in ServerAnswers(a, image)
        BY <3>1 DEF JobInv, IsAnswer
      <3>3. NotSent.outcome \in {"verified", "refused"}
        BY <3>2 DEF ServerAnswers
      <3> QED
        BY <3>3 DEF NotSent
    <2> QED
      BY <1>2, <2>1 DEF CheckAttestationOutcome
  <1>3. CASE o # NotSent
    <2>1. SentToServer(b) /\ b.attestation = {o.attestation}
      BY <1>1, <1>3 DEF HonestAnswers
    <2> QED
      BY <1>3, <2>1 DEF CheckAttestationOutcome
  <1> QED
    BY <1>2, <1>3

\* A record of one image's own files, with the evaluations of its build, is
\* accepted and passes every check, whatever the server gave
\* (_check_facts_source, with which the compiled assertions agree).
THEOREM HonestBuild == JobSpec => []HonestBuildAccepted
  <1>1. ASSUME JobInv, NEW b \in build, b.from = ItsOwnFiles
        PROVE  CheckedFiles(b)
    <2>1. OfOneImage(b) /\ OverItsInput(b)
      BY <1>1 DEF JobInv, IsWritten
    <2> QED
      BY <1>1, <2>1, HonestPlatformsOK, HonestEvidenceOK, HonestSourceOK,
         HonestOutcomeOK DEF CheckedFiles, BuildAccepted
  <1>2. JobInv => HonestBuildAccepted
    BY <1>1 DEF HonestBuildAccepted
  <1> QED
    BY <1>2, JobKeepsInv, PTL

(***************************************************************************)
(* Change approvals.                                                       *)
(***************************************************************************)
\* What an evaluation was given: approvals the server held, and the digest of
\* the content it read.
Grounded(input) ==
    /\ input.approvals \subseteq approvals
    /\ input.digest = DigestOf(input.content)

\* Every evaluation and every record's is grounded, and a record's answer is
\* that of the assertion over its input. Approvals only grow, and a run is one
\* run for good; without either, an answer could outlive what it was about.
ApprovalInv ==
    /\ approvals \subseteq Approval
    /\ \A input \in inputs : Grounded(input)
    /\ \A record \in records :
           /\ Grounded(record.event.input)
           /\ record.event.status = ProductionApproved(record.event.input)

\* A grounded input stays grounded while the run stays the run and approvals
\* grow; so does what the assertion answers over it.
LEMMA GroundedStays ==
    ASSUME UNCHANGED thisRun, approvals \subseteq approvals',
           NEW input, Grounded(input)
    PROVE  /\ Grounded(input)'
           /\ ProductionApproved(input)' = ProductionApproved(input)
  <1>1. DigestOf(input.content)' = DigestOf(input.content)
    BY DEF DigestOf, ChangeTo, ChangeDigest
  <1>2. Grounded(input)'
    BY <1>1 DEF Grounded
  <1>3. ProductionApproved(input)' = ProductionApproved(input)
    BY DEF ProductionApproved, ApprovesChange, ApprovesRun, ChangeDigest
  <1> QED
    BY <1>2, <1>3

\* The invariant holds before anything is planned.
LEMMA ApprovalInitInv == ApprovalInit => ApprovalInv
  BY DEF ApprovalInit, ApprovalInv

\* Every step of a run keeps the invariant.
LEMMA ApprovalStepInv ==
    ApprovalInv /\ [ApprovalNext]_approvalVars => ApprovalInv'
  <1> SUFFICES ASSUME ApprovalInv, [ApprovalNext]_approvalVars
               PROVE  ApprovalInv'
    OBVIOUS
  <1>1. ASSUME UNCHANGED <<inputs, records, thisRun>>,
               approvals \subseteq approvals', approvals' \subseteq Approval
        PROVE  ApprovalInv'
    BY <1>1, GroundedStays DEF ApprovalInv
  <1>2. CASE Plan
    BY <1>1, <1>2 DEF Plan, ApprovalInv
  <1>3. CASE Approve(Approval)
    BY <1>1, <1>3 DEF Approve, ApprovalInv
  <1>4. CASE Evaluate
    <2>1. UNCHANGED <<thisRun, approvals, records>>
      BY <1>4 DEF Evaluate
    <2>2. PICK content \in planned, before \in Contents, served \in BOOLEAN :
              /\ InputAccepted(Input(content, DigestOf(before), served))
              /\ inputs' = {Input(content, DigestOf(before), served)}
      BY <1>4 DEF Evaluate
    <2> DEFINE input == Input(content, DigestOf(before), served)
    <2>3. Grounded(input)
      BY <2>2 DEF Grounded, Input, InputAccepted
    <2> QED
      BY <2>1, <2>2, <2>3, GroundedStays DEF ApprovalInv
  <1>5. CASE RecordChange
    <2>1. UNCHANGED <<thisRun, approvals, inputs>>
      BY <1>5 DEF RecordChange
    <2>2. PICK content \in planned, before \in Contents, input \in inputs :
              \E listed \in SUBSET input.approvals :
                  records' =
                      {[content |-> content, digest |-> DigestOf(before),
                        approvals |-> listed,
                        event |-> [input |-> input,
                                   status |-> ProductionApproved(input)]]}
      BY <1>5 DEF RecordChange
    <2>3. Grounded(input)
      BY DEF ApprovalInv
    <2>4. \A record \in records' :
              /\ record.event.input = input
              /\ record.event.status = ProductionApproved(input)
      BY <2>2
    <2> QED
      BY <2>1, <2>3, <2>4, GroundedStays DEF ApprovalInv
  <1>6. CASE UNCHANGED approvalVars
    BY <1>1, <1>6 DEF approvalVars, ApprovalInv
  <1> QED
    BY <1>2, <1>3, <1>4, <1>5, <1>6 DEF ApprovalNext

\* Whoever verifies roles and gave a grounded answer is whom the rule asks
\* for: a reviewer of this very change, or someone who approved this run.
LEMMA ApprovedIsSanctioned == ApprovalInv => PassMeansApproved
  <1> SUFFICES ASSUME ApprovalInv, NEW record \in records,
                      ChangeAccepted(record), record.event.status = "pass"
               PROVE  Sanctioned(record) /\ thisRun.environment = "production"
    BY DEF PassMeansApproved
  <1> DEFINE input == record.event.input
  <1>1. Grounded(input) /\ ProductionApproved(input) = "pass"
    BY DEF ApprovalInv
  <1>2. /\ thisRun.environment = "production"
        /\ \E a \in input.approvals :
               \/ ApprovesChange(a, input.digest)
               \/ ApprovesRun(a, thisRun.id)
    BY <1>1 DEF ProductionApproved
  <1>3. PICK a \in input.approvals :
            ApprovesChange(a, input.digest) \/ ApprovesRun(a, thisRun.id)
    BY <1>2
  <1>4. a \in approvals /\ a \in Approval
    BY <1>1 DEF Grounded, ApprovalInv
  <1>5. input.digest = ChangeTo(record.content)
    BY <1>1 DEF Grounded, ChangeAccepted, DigestOf, ChangeDigest
  <1>6. CASE ApprovesChange(a, input.digest)
    <2>1. a.method = "iltero_review"
      BY <1>4, <1>6 DEF Approval, ApprovesChange
    <2> QED
      BY <1>2, <1>4, <1>5, <1>6, <2>1
      DEF ApprovesChange, ChangeDigest, Sanctioned
  <1>7. CASE ApprovesRun(a, thisRun.id)
    <2>1. a.subject \in Subjects
      BY <1>4 DEF Approval
    <2>2. a.subject = [kind |-> "run", of |-> thisRun.id]
      BY <1>7, <2>1 DEF Subjects, ApprovesRun
    <2> QED
      BY <1>2, <1>4, <2>2 DEF Sanctioned
  <1> QED
    BY <1>3, <1>6, <1>7

\* A production change whose accepted record says it was approved was,
\* whatever was planned, approved or read in between
\* (assertions/ILT.CHANGE.PRODUCTION_APPROVED.yaml, canonical/change.py).
THEOREM ChangesApproved == ApprovalSpec => []PassMeansApproved
  <1>1. ApprovalSpec => []ApprovalInv
    BY ApprovalInitInv, ApprovalStepInv, PTL DEF ApprovalSpec
  <1> QED
    BY <1>1, ApprovedIsSanctioned, PTL

(***************************************************************************)
(* The installed package: an undisturbed look answers with the digest a    *)
(* release printed exactly when that release's files are there, for any    *)
(* files, releases and contents of RECORD, read in any order.              *)
(***************************************************************************)
Records == {RecordOf(release) : release \in Releases} \cup OtherRecords

\* What a call may hold at each of its steps.
Calls ==
    {Idle}
    \cup [at : {"found", "wheel"}, version : Releases]
    \cup [at : {"record"}, version : Releases, record : Records]
    \cup [at : {"check"}, version : Releases, record : Records,
          present : SUBSET Paths,
          unread : SUBSET UNION {Entries(record) : record \in Records}]

\* Unless someone wrote, what the call found so far is still so.
FoundIsSo ==
    (call # Idle /\ ~written) =>
        \E m \in info :
            /\ info = {m} /\ m.version = call.version
            /\ call.at # "found" => ~m.editable
            /\ call.at \in {"record", "check"} => call.record = m.record

\* Of the rows it has to read, those it has read match, unless someone wrote.
ReadIsSo ==
    call.at = "check" =>
        /\ call.unread \subseteq Entries(call.record)
        /\ ~written =>
               /\ call.present = Present
               /\ \A entry \in Entries(call.record) \ call.unread :
                      disk[entry[1]] = entry[2]

DistInv ==
    /\ info \in {{}} \cup {{m} : m \in Installations}
    /\ call \in Calls
    /\ call # Idle => identity = {}
    /\ FoundIsSo
    /\ ReadIsSo

\* The call's steps are told apart by their name.
LEMMA CallSteps ==
    ASSUME call \in Calls
    PROVE  /\ call = Idle <=> call.at = "idle"
           /\ call.at \in {"found", "wheel"} =>
                  call \in [at : {"found", "wheel"}, version : Releases]
           /\ call.at = "record" =>
                  call \in [at : {"record"}, version : Releases,
                            record : Records]
           /\ call.at = "check" =>
                  call \in [at : {"check"}, version : Releases,
                            record : Records, present : SUBSET Paths,
                            unread : SUBSET UNION {Entries(record) :
                                                      record \in Records}]
  BY DEF Calls, Idle

\* Nothing has been found when the process begins.
LEMMA DistInitInv == DistInit => DistInv
  <1> SUFFICES ASSUME DistInit PROVE DistInv
    OBVIOUS
  <1>1. call = Idle /\ call.at = "idle"
    BY DEF DistInit, Idle
  <1> QED
    BY <1>1 DEF DistInit, DistInv, Calls, FoundIsSo, ReadIsSo

\* Writers disturb nothing but what a call that they interrupt found.
LEMMA WritingKeepsInv ==
    ASSUME DistInv, UNCHANGED <<call, identity>>, Wrote,
           info' \in {{}} \cup {{m} : m \in Installations}
    PROVE  DistInv'
  <1>1. call = Idle => call.at = "idle"
    BY DEF Idle
  <1>2. (call # Idle /\ ~written)' = FALSE
    BY DEF Wrote
  <1>3. FoundIsSo'
    BY <1>2 DEF FoundIsSo
  <1>4. ReadIsSo'
    BY <1>1, <1>2 DEF ReadIsSo, DistInv, Idle
  <1> QED
    BY <1>3, <1>4 DEF DistInv, Calls

\* A call that ends leaves nothing to keep.
LEMMA EndingKeepsInv ==
    ASSUME DistInv, call' = Idle, UNCHANGED info
    PROVE  DistInv'
  <1>1. call'.at = "idle"
    BY DEF Idle
  <1> QED
    BY <1>1 DEF DistInv, Calls, FoundIsSo, ReadIsSo

\* Each step of a call finds one thing more and forgets none.
LEMMA DistStepInv == DistInv /\ [DistNext]_distVars => DistInv'
  <1> SUFFICES ASSUME DistInv, [DistNext]_distVars PROVE DistInv'
    OBVIOUS
  <1> USE CallSteps
  <1>0. call \in Calls
    BY DEF DistInv
  <1>1. CASE NoPackage
    BY <1>1 DEF NoPackage, DistInv, FoundIsSo, ReadIsSo, Idle
  <1>2. CASE Find
    <2>1. PICK found \in info :
              /\ call = Idle /\ identity = {}
              /\ call' = [at |-> "found", version |-> found.version]
      BY <1>2 DEF Find, Begun
    <2>2. UNCHANGED <<info, identity>>
      BY <1>2 DEF Find
    <2>3. info = {found} /\ found.version \in Releases
      BY <2>1 DEF DistInv, Installations
    <2>4. call' \in Calls
      BY <2>1, <2>3 DEF Calls
    <2> QED
      BY <2>1, <2>2, <2>3, <2>4 DEF DistInv, FoundIsSo, ReadIsSo
  <1>3. CASE ReadDirectUrl
    <2>1. CASE call' = Idle
      BY <1>3, <2>1, EndingKeepsInv DEF ReadDirectUrl, Answered
    <2>2. CASE call' # Idle
      <3>1. /\ call.at = "found" /\ call' = [call EXCEPT !.at = "wheel"]
            /\ ~\E m \in FoundInfo : m.editable
            /\ UNCHANGED <<disk, info, identity, written>>
        BY <1>3, <2>2 DEF ReadDirectUrl, Answered
      <3>2. /\ call \in [at : {"found", "wheel"}, version : Releases]
            /\ call # Idle
        BY <1>0, <3>1
      <3>3. /\ call' \in [at : {"found", "wheel"}, version : Releases]
            /\ call'.at = "wheel" /\ call'.version = call.version
        BY <3>1, <3>2
      <3>4. FoundIsSo'
        BY <3>1, <3>2, <3>3 DEF FoundIsSo, FoundInfo, DistInv
      <3> QED
        BY <3>1, <3>2, <3>3, <3>4 DEF DistInv, ReadIsSo, Calls
    <2> QED
      BY <2>1, <2>2
  <1>4. CASE ReadRecord
    <2>1. CASE call' = Idle
      BY <1>4, <2>1, EndingKeepsInv DEF ReadRecord, Refused
    <2>2. CASE call' # Idle
      <3>1. /\ call.at = "wheel" /\ UNCHANGED <<disk, info, identity, written>>
            /\ \E m \in FoundInfo :
                   call' = [at |-> "record", version |-> call.version,
                            record |-> m.record]
        BY <1>4, <2>2 DEF ReadRecord, Refused
      <3>2. PICK m \in info :
                call' = [at |-> "record", version |-> call.version,
                         record |-> m.record]
        BY <3>1 DEF FoundInfo
      <3>3. info = {m} /\ m.record \in Records
        BY <3>2 DEF DistInv, Installations, Records
      <3>4. call # Idle /\ call.version \in Releases
        BY <1>0, <3>1
      <3>5. FoundIsSo'
        BY <3>1, <3>2, <3>3, <3>4 DEF FoundIsSo, DistInv
      <3> QED
        BY <3>1, <3>2, <3>3, <3>4, <3>5 DEF DistInv, ReadIsSo, Calls
    <2> QED
      BY <2>1, <2>2
  <1>5. CASE List
    <2>1. CASE call' = Idle
      BY <1>5, <2>1, EndingKeepsInv DEF List, Refused
    <2>2. CASE call' # Idle
      <3>1. /\ call.at = "record" /\ UNCHANGED <<disk, info, identity, written>>
            /\ call' = [at |-> "check", version |-> call.version,
                        record |-> call.record, present |-> Present,
                        unread |-> Entries(call.record)]
        BY <1>5, <2>2 DEF List, Refused
      <3>2. /\ call # Idle /\ call.version \in Releases
            /\ call.record \in Records
        BY <1>0, <3>1
      <3>3. Present \subseteq Paths /\ Present' = Present
        BY <3>1 DEF Present
      <3>4. call' \in Calls
        BY <3>1, <3>2, <3>3 DEF Calls
      <3>5. FoundIsSo'
        BY <3>1, <3>2 DEF FoundIsSo, DistInv
      <3>6. ReadIsSo'
        BY <3>1, <3>3 DEF ReadIsSo
      <3> QED
        BY <3>1, <3>2, <3>4, <3>5, <3>6 DEF DistInv
    <2> QED
      BY <2>1, <2>2
  <1>6. CASE ReadFile
    <2>1. CASE call' = Idle
      BY <1>6, <2>1, EndingKeepsInv DEF ReadFile, Refused
    <2>2. CASE call' # Idle
      <3>1. call.at = "check" /\ UNCHANGED <<disk, info, identity, written>>
        BY <1>6, <2>2 DEF ReadFile, Refused
      <3>2. PICK entry \in call.unread :
                /\ disk[entry[1]] = entry[2]
                /\ call' = [call EXCEPT !.unread = @ \ {entry}]
        BY <1>6, <2>2 DEF ReadFile, Refused
      <3>3. /\ call \in [at : {"check"}, version : Releases,
                         record : Records, present : SUBSET Paths,
                         unread : SUBSET UNION {Entries(record) :
                                                   record \in Records}]
            /\ call # Idle
        BY <1>0, <3>1
      <3>4. /\ call'.at = "check" /\ call'.version = call.version
            /\ call'.record = call.record /\ call'.present = call.present
            /\ call'.unread = call.unread \ {entry} /\ call' \in Calls
        BY <3>2, <3>3 DEF Calls
      <3>5. FoundIsSo'
        BY <3>1, <3>3, <3>4 DEF FoundIsSo, DistInv
      <3>6. ReadIsSo'
        BY <3>1, <3>2, <3>4 DEF ReadIsSo, DistInv, Present
      <3> QED
        BY <3>1, <3>3, <3>4, <3>5, <3>6 DEF DistInv
    <2> QED
      BY <2>1, <2>2
  <1>7. CASE Finish
    BY <1>7, EndingKeepsInv DEF Finish, Refused, Answered
  <1>8. CASE Restart
    BY <1>8, EndingKeepsInv DEF Restart
  <1>9. CASE WriteFile
    BY <1>9, WritingKeepsInv DEF WriteFile, DistInv
  <1>10. CASE WriteInfo
    BY <1>10, WritingKeepsInv DEF WriteInfo
  <1>11. CASE UNCHANGED distVars
    BY <1>11 DEF distVars, DistInv, FoundIsSo, ReadIsSo, Present
  <1> QED
    BY <1>1, <1>2, <1>3, <1>4, <1>5, <1>6, <1>7, <1>8, <1>9, <1>10, <1>11
    DEF DistNext

\* A release's rows are its files, each with what it shipped in it.
LEMMA ReleaseRows ==
    ASSUME NEW release \in Releases
    PROVE  /\ WheelDigest(release) =
                  {<<path, Shipped[release][path]>> :
                       path \in DOMAIN Shipped[release]}
           /\ WheelDigest(release) # {}
           /\ DOMAIN Shipped[release] \subseteq Modules
           /\ Modules \cap Bytecode = {}
  <1>1. /\ DOMAIN Shipped[release] \subseteq Modules
        /\ DOMAIN Shipped[release] # {}
        /\ Modules \cap Bytecode = {}
        /\ \A path \in DOMAIN Shipped[release] :
               path \notin Bytecode /\ Shipped[release][path] # NoHash
    BY DistributionAssumption
  <1>2. /\ DOMAIN RecordOf(release) = DOMAIN Shipped[release] \cup Bytecode
        /\ \A path \in DOMAIN Shipped[release] :
               RecordOf(release)[path] = Shipped[release][path]
    BY <1>1 DEF RecordOf
  <1>3. WheelDigest(release) =
            {<<path, Shipped[release][path]>> :
                 path \in DOMAIN Shipped[release]}
    BY <1>1, <1>2 DEF WheelDigest, Entries, Counts
  <1> QED
    BY <1>1, <1>3

\* When a call ends undisturbed before it answers as a wheel, no release's
\* files are all there and no others.
LEMMA RefusedIsDisturbed ==
    ASSUME DistInv, NEW release \in Releases, InstalledFrom(release),
           call # Idle, ~written, [DistNext]_distVars, call' = Idle
    PROVE  identity' = {IdentityOf(release, "wheel", WheelDigest(release))}
  <1>1. PICK m \in info :
            /\ info = {m} /\ m.version = call.version
            /\ call.at # "found" => ~m.editable
            /\ call.at \in {"record", "check"} => call.record = m.record
    BY DEF DistInv, FoundIsSo
  <1>2. /\ m.version = release /\ ~m.editable
        /\ Entries(m.record) = WheelDigest(release)
        /\ FoundInfo = {m}
    BY <1>1 DEF InstalledFrom, FoundInfo
  <1>3. \A path \in Modules :
            disk[path] = IF path \in DOMAIN Shipped[release]
                         THEN Shipped[release][path] ELSE Absent
    BY DEF InstalledFrom
  <1>4. CASE ReadDirectUrl
    BY <1>2, <1>4 DEF ReadDirectUrl, Idle
  <1>5. CASE ReadRecord
    BY <1>2, <1>5 DEF ReadRecord, Idle
  <1>6. CASE List
    BY <1>1, <1>2, <1>6, ReleaseRows DEF List, Idle
  <1>7. CASE ReadFile
    <2>1. call.at = "check" /\ call.unread \subseteq WheelDigest(release)
      BY <1>1, <1>2, <1>7 DEF ReadFile, DistInv, ReadIsSo
    <2>2. \A entry \in WheelDigest(release) : disk[entry[1]] = entry[2]
      BY <1>3, ReleaseRows
    <2> QED
      BY <1>7, <2>1, <2>2 DEF ReadFile, Idle
  <1>8. CASE Finish
    <2>1. /\ call.at = "check" /\ call.present = Present
          /\ Entries(call.record) = WheelDigest(release)
      BY <1>1, <1>2, <1>8 DEF Finish, DistInv, ReadIsSo
    <2>2. \A path \in Present :
              Counts(path) => path \in {entry[1] : entry \in WheelDigest(release)}
      <3> SUFFICES ASSUME NEW path \in Present, Counts(path)
                   PROVE  path \in {entry[1] : entry \in WheelDigest(release)}
        OBVIOUS
      <3>1. path \in DOMAIN Shipped[release]
        BY <1>3 DEF Present, Paths, Counts
      <3>2. <<path, Shipped[release][path]>> \in WheelDigest(release)
        BY <3>1, ReleaseRows
      <3> QED
        BY <3>2
    <2>3. Unlisted(call.record, call.present) = {}
      BY <2>1, <2>2 DEF Unlisted
    <2> QED
      BY <1>1, <1>2, <1>8, <2>1, <2>3 DEF Finish, Answered
  <1>9. ~(\/ NoPackage \/ Find \/ Restart \/ WriteFile \/ WriteInfo
          \/ UNCHANGED distVars)
    BY DEF NoPackage, Find, Begun, Restart, WriteFile, WriteInfo, distVars
  <1> QED
    BY <1>4, <1>5, <1>6, <1>7, <1>8, <1>9 DEF DistNext

\* A digest a release printed is answered by the last step alone, and only of
\* that release's own files.
LEMMA AnsweredIsInstalled ==
    ASSUME DistInv, NEW release \in Releases,
           call # Idle, ~written, [DistNext]_distVars, call' = Idle,
           identity' = {IdentityOf(release, "wheel", WheelDigest(release))}
    PROVE  InstalledFrom(release)
  <1>1. identity = {}
    BY DEF DistInv
  <1>2. ~Refused
    BY <1>1 DEF Refused
  <1>3. ~ReadDirectUrl
    <2>1. ReadDirectUrl =>
              \/ identity' = {IdentityOf(call.version, "editable", {})}
              \/ identity' = identity
      BY DEF ReadDirectUrl, Answered
    <2>2. IdentityOf(call.version, "editable", {}) #
              IdentityOf(release, "wheel", WheelDigest(release))
      BY DEF IdentityOf
    <2> QED
      BY <1>1, <2>1, <2>2
  <1>4. ~(NoPackage \/ Find \/ Restart \/ WriteFile \/ WriteInfo
          \/ UNCHANGED distVars)
    BY DEF NoPackage, Find, Begun, Restart, WriteFile, WriteInfo, distVars
  <1>5. ~(ReadRecord \/ List \/ ReadFile)
    BY <1>2 DEF ReadRecord, List, ReadFile, Idle
  <1>6. Finish
    BY <1>3, <1>4, <1>5 DEF DistNext
  <1>7. /\ call.at = "check" /\ call.unread = {}
        /\ Unlisted(call.record, call.present) = {}
        /\ identity' =
               {IdentityOf(call.version, "wheel", Entries(call.record))}
    BY <1>2, <1>6 DEF Finish, Answered
  <1>8. call.version = release /\ Entries(call.record) = WheelDigest(release)
    <2>1. IdentityOf(call.version, "wheel", Entries(call.record)) =
              IdentityOf(release, "wheel", WheelDigest(release))
      BY <1>7
    <2> QED
      BY <2>1 DEF IdentityOf
  <1>9. PICK m \in info :
            /\ info = {m} /\ m.version = release /\ ~m.editable
            /\ Entries(m.record) = WheelDigest(release)
    BY <1>7, <1>8 DEF DistInv, FoundIsSo
  <1>10. /\ call.present = Present
         /\ \A entry \in WheelDigest(release) : disk[entry[1]] = entry[2]
    BY <1>7, <1>8 DEF DistInv, ReadIsSo
  <1>11. ASSUME NEW path \in DOMAIN Shipped[release]
         PROVE  disk[path] = Shipped[release][path]
    <2>1. <<path, Shipped[release][path]>> \in WheelDigest(release)
      BY ReleaseRows
    <2> QED
      BY <1>10, <2>1
  <1>12. ASSUME NEW path \in Modules, path \notin DOMAIN Shipped[release]
         PROVE  disk[path] = Absent
    <2>1. path \notin {entry[1] : entry \in Entries(call.record)}
      BY <1>8, <1>12, ReleaseRows
    <2>2. path \notin Present
      BY <1>7, <1>10, <2>1, ReleaseRows DEF Unlisted, Counts
    <2> QED
      BY <2>2 DEF Present, Paths
  <1> QED
    BY <1>9, <1>11, <1>12 DEF InstalledFrom

\* Unless someone wrote while the process looked, it answers with the digest
\* a release printed exactly when that release's files, and no others, are
\* the package's (distribution.py _check, identity_of, wheel_digest).
THEOREM UntouchedDigest == DistSpec => DigestMeansUntouched
  <1>1. DistSpec => []DistInv
    BY DistInitInv, DistStepInv, PTL DEF DistSpec
  <1>2. DistInv /\ [DistNext]_distVars =>
            [call # Idle /\ call' = Idle /\ ~written
             => \A release \in Releases :
                    (identity' =
                        {IdentityOf(release, "wheel", WheelDigest(release))})
                    <=> InstalledFrom(release)]_distVars
    BY RefusedIsDisturbed, AnsweredIsInstalled
  <1> QED
    BY <1>1, <1>2, PTL DEF DistSpec, DigestMeansUntouched
=============================================================================
