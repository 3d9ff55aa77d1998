---------------------------- MODULE ImageReading ----------------------------
(***************************************************************************)
(* The reading of a workload after an image was deployed to it             *)
(* (models/image/deploy.py, models/image/kubernetes.py), and the status    *)
(* its built-in assertion owes (change_types/image/deploy.py).             *)
(*                                                                         *)
(* A reading is put together from three requests: the workload, with its   *)
(* pod template and the counts of its status; its pods; and the workload   *)
(* again.  Between them the spec may change, the controller may act on it, *)
(* pods come, start, stop and go, and the status follows when the          *)
(* controller next writes it.  The cluster is not in the repository: it is *)
(* modelled from what its fields are documented to say.                    *)
(*                                                                         *)
(* A container is listed once for each pod, where a document groups the    *)
(* pods that ran it alike.  The evidence files' names, the order of        *)
(* entries and the sizes of lists are left out; a repository is the        *)
(* deployed one or another.                                                *)
(***************************************************************************)
EXTENDS Runtime, FiniteSets

CONSTANTS
    Unread,
    Kind,           \* of the workload: "deployment", "stateful_set", "daemon_set"
    PodTemplates,   \* by revision: containers by name
    Image,          \* the digest the change deploys
    AcceptedBuilds, \* the platform digests an accepted build may have, and
                    \* Unread for no accepted build
    Replicas,       \* the numbers of pods a spec may ask for
    MaxGeneration,  \* bound on the changes of the spec
    MaxPods         \* bound on the pods ever created

Revision == DOMAIN PodTemplates
NoRevision == "no revision"  \* while a status names none
Unreported == "not_reported_by_tool"

ASSUME ImageAssumption ==
    /\ Kind \subseteq {"deployment", "stateful_set", "daemon_set"}
    /\ \A r \in Revision : \A n \in DOMAIN PodTemplates[r] :
          /\ PodTemplates[r][n].role \in {"app", "init", "sidecar"}
          /\ PodTemplates[r][n].deployed \in BOOLEAN
    /\ NoRevision \notin Revision
    \* A pod has a container, and a debugging one is named unlike any of them.
    /\ \A r \in Revision : DOMAIN PodTemplates[r] # {} /\ "debug" \notin DOMAIN PodTemplates[r]
    /\ \A r \in Revision : IsFiniteSet(DOMAIN PodTemplates[r])
    /\ \A build \in AcceptedBuilds \ {Unread} :
          /\ Image \notin build  \* check_platform_digests
          /\ IsFiniteSet(build) /\ Unreported \notin build
    /\ Image # Unreported
    /\ Replicas \subseteq Nat

VARIABLES
    kind,
    spec,     \* the workload's revision, number of pods and generation
    status,   \* what its controller last wrote: whose generation, and counts
    pods,     \* the pods it ever created, those that are gone at "gone"
    before,   \* the workload read before the pods were listed
    listed,   \* the pods listed
    reading   \* the reading, once the workload was read again

world == <<kind, spec, status, pods>>
readingVars == <<world, before, listed, reading>>

-----------------------------------------------------------------------------
(* The rollout, as a reading carries it.                                   *)

\* A rollout that is paused, partitioned or left to deletions is held.
CompleteByCounts(rollout, held) ==
    /\ ~held
    /\ rollout.updated = rollout.desired
    /\ rollout.available = rollout.desired
    /\ rollout.kind = "deployment" => rollout.replicas = rollout.updated
    /\ rollout.kind = "stateful_set" =>
          /\ rollout.updateRevision # NoRevision
          /\ rollout.currentRevision = rollout.updateRevision
    /\ rollout.kind = "daemon_set" => rollout.misscheduled = 0

\* Mutant: counts of an earlier generation show the rollout finished.
CompleteAtAnyGeneration(rollout, held) == CompleteByCounts(rollout, held)

Complete(rollout, held) ==
    /\ rollout.observed >= rollout.generation
    /\ CompleteByCounts(rollout, held)

ExpectedLivePods(rollout) == rollout.desired

-----------------------------------------------------------------------------
(* A reading, and the rules a reader holds it to.                          *)

OfPod(r, pod) == {c \in r.containers : c.pod = pod}
LivePods(r) == {c.pod : c \in {d \in r.containers : d.state = "live"}}
Compared(r) == {c.name : c \in {d \in r.template : d.compared}}

PodsAreOne(r) ==
    /\ \A c \in r.containers : c.name \in Compared(r) => c.compared
    /\ \A c, d \in r.containers :
          c.pod = d.pod =>
             /\ c.state = d.state /\ c.revision = d.revision
             /\ c.name = d.name => c = d

\* Mutant: the pods of a rollout that has not finished are held to it too.
EveryRollout(r) ==
    \A pod \in LivePods(r), t \in r.template :
       \E c \in OfPod(r, pod) : c.name = t.name /\ c.role = t.role

FinishedRollout(r) ==
    r.complete =>
        LET revisions == {c.revision : c \in {d \in r.containers : d.state = "live"}} IN
        /\ \A pod \in LivePods(r), t \in r.template :
              \E c \in OfPod(r, pod) : c.name = t.name /\ c.role = t.role
        /\ Cardinality(revisions) <= 1
        /\ r.rollout.kind = "stateful_set" => revisions \subseteq {r.rollout.updateRevision}

CheckCompared(r) ==
    /\ \A t \in r.template : t.deployed => t.compared
    /\ \A c \in r.containers : c.deployed => c.compared

Accepts(r) ==
    /\ r.rollout.kind = r.workload
    /\ r.complete = Complete(r.rollout, r.held)
    /\ r.expected = ExpectedLivePods(r.rollout)
    /\ PodsAreOne(r)
    /\ r.live = Cardinality(LivePods(r))
    /\ FinishedRollout(r)
    /\ r.owners <=> r.workload = "deployment"
    /\ CheckCompared(r)

-----------------------------------------------------------------------------
(* The status the built-in assertion owes, and the assertion itself.       *)

\* Mutant: a digest that is not known decides before one that differs.
UnknownFirst(r, build) ==
    LET live == {c \in r.containers : c.state = "live" /\ c.compared}
        digests == {c.digest : c \in live} \ {Unreported, Image}
    IN  IF \/ \E c \in live : c.digest = Unreported
           \/ build = Unread /\ digests # {}
        THEN "unknown"
        ELSE IF \/ ~r.complete
                \/ r.live # r.expected
                \/ Compared(r) = {}
                \/ live = {}
                \/ build # Unread /\ digests \ build # {}
        THEN "fail"
        ELSE "pass"

RunningImageStatus(r, build) ==
    LET live == {c \in r.containers : c.state = "live" /\ c.compared}
        digests == {c.digest : c \in live} \ {Unreported, Image}
    IN  IF \/ ~r.complete
           \/ r.live # r.expected
           \/ Compared(r) = {}
           \/ live = {}
           \/ build # Unread /\ digests \ build # {}
        THEN "fail"
        ELSE IF \/ \E c \in live : c.digest = Unreported
                \/ build = Unread /\ digests # {}
        THEN "unknown"
        ELSE "pass"

\* The evaluation input of the post-verify stage, as far as it is read here.
Digest(d) == IF d = Unreported THEN Marker(d) ELSE <<"string", d>>
Listed(values) == Array(SetToSeq(values))
TemplateObject(t) == Object([name |-> <<"string", t.name>>, compared |-> Boolean(t.compared)])
ContainerObject(c) ==
    Object([pod |-> Number(c.pod), name |-> <<"string", c.name>>,
            pod_state |-> <<"string", c.state>>, compared |-> Boolean(c.compared),
            digest |-> Digest(c.digest)])

DriftCheckObject(r) ==
    Object([rollout |-> Object([complete |-> Boolean(r.complete),
                                expected_live_pods |-> Number(r.expected)]),
            live_pods_read |-> Number(r.live),
            template_containers |-> Listed({TemplateObject(t) : t \in r.template}),
            containers_read |-> Listed({ContainerObject(c) : c \in r.containers})])
ChangeObject(build) ==
    Object([image |-> Object([digest |-> Digest(Image)]),
            build |-> IF build = Unread THEN Null
                      ELSE Object([platform_digests |-> Listed({Digest(d) : d \in build})])])
ReadingInput(r, build) ==
    Object([drift_check |-> DriftCheckObject(r), change |-> ChangeObject(build)])

\* What ILT.IMAGE.RUNNING_IMAGE_MATCHES_DEPLOYED_IMAGE asks of a container.
Item(c, field) == LookupItem(c, <<"item", field>>)
IsCompared(c) == Predicate("equal", Item(c, "compared"), Literal(Boolean(TRUE)))
IsLive(c) == Predicate("equal", Item(c, "pod_state"), Literal(<<"string", "live">>))
IsLiveAndCompared(c) == AllOf(<<IsLive(c), IsCompared(c)>>)
RunsAnother(c, image, platforms) ==
    AllOf(<<IsLive(c), IsCompared(c),
            Predicate("not_equal", Item(c, "digest"), image),
            Predicate("not_in", Item(c, "digest"), platforms)>>)

\* The assertion, as it is shipped.
ShippedAssertion(input) ==
    LET given(path) == Lookup(input, path)
        templates == given(<<"drift_check", "template_containers">>)
        containers == given(<<"drift_check", "containers_read">>)
        image == given(<<"change", "image", "digest">>)
        platforms == given(<<"change", "build", "platform_digests">>)
        asked(collection) == DOMAIN Elements(collection)
        check ==
            AllOf(<<Predicate("equal", given(<<"drift_check", "rollout", "complete">>),
                              Literal(Boolean(TRUE))),
                    Predicate("equal", given(<<"drift_check", "live_pods_read">>),
                              given(<<"drift_check", "rollout", "expected_live_pods">>)),
                    ExistsOf(templates,
                        [i \in asked(templates) |-> IsCompared(Elements(templates)[i])]),
                    ExistsOf(containers,
                        [i \in asked(containers) |-> IsLiveAndCompared(Elements(containers)[i])]),
                    NotOf(ExistsOf(containers,
                        [i \in asked(containers) |->
                            RunsAnother(Elements(containers)[i], image, platforms)]))>>)
    IN  AnswerOf(True, check)

-----------------------------------------------------------------------------
(* The cluster.                                                            *)

Active == {p \in DOMAIN pods : pods[p].phase \in {"starting", "running"}}
Listable == {p \in DOMAIN pods : pods[p].phase # "gone"}

Pod(revision, phase) == [revision |-> revision, phase |-> phase]

ReadingInit ==
    /\ kind \in Kind
    /\ spec \in [revision : Revision, desired : Replicas, generation : {1}]
    /\ status = [observed |-> 0, revision |-> NoRevision, desired |-> 0, replicas |-> 0,
                 updated |-> 0, available |-> 0,
                 currentRevision |-> NoRevision]
    /\ pods = << >>
    /\ before = Unread /\ listed = Unread /\ reading = Unread

\* Bound: the pods are followed until they are listed; of what they do after
\* that a reading shows nothing but the workload's next status.
Followed == listed = Unread

ChangeSpec(revision, desired) ==
    /\ spec.generation < MaxGeneration
    /\ spec' = [revision |-> revision, desired |-> desired, generation |-> spec.generation + 1]
    /\ UNCHANGED <<kind, status, pods, before, listed, reading>>

\* The controller writes the status from the spec and the pods it sees.  A
\* stateful set's current revision becomes the update revision when every
\* pod is on it and available.
WriteStatus ==
    LET ofRevision == {p \in Active : pods[p].revision = spec.revision}
        ready == {p \in Active : pods[p].phase = "running"}
        all == ofRevision = Active /\ ready = Active
    IN
    /\ status' = [observed |-> spec.generation, revision |-> spec.revision,
                  desired |-> spec.desired, replicas |-> Cardinality(Active),
                  updated |-> Cardinality(ofRevision),
                  available |-> Cardinality(ready),
                  currentRevision |-> IF all \/ status.currentRevision = NoRevision
                                      THEN spec.revision ELSE status.currentRevision]
    /\ UNCHANGED <<kind, spec, pods, before, listed, reading>>

\* The controller creates pods of the spec it last acted on, a deployment
\* one more than it needs while it rolls out.
CreatePod ==
    /\ Followed
    /\ status.observed > 0
    /\ Len(pods) < MaxPods
    /\ Cardinality(Active) <
          status.desired + (IF kind = "deployment" /\ \E p \in Active : pods[p].revision # status.revision
                            THEN 1 ELSE 0)
    /\ pods' = Append(pods, Pod(status.revision, "starting"))
    /\ UNCHANGED <<kind, spec, status, before, listed, reading>>

\* A pod starts, is deleted by its controller or anybody else, stops of
\* itself, or is gone.
Moves ==
    {<<"starting", "running">>, <<"starting", "terminating">>, <<"running", "terminating">>,
     <<"running", "finished">>, <<"terminating", "gone">>, <<"finished", "gone">>}

MovePod(p, phase) ==
    /\ Followed
    /\ <<pods[p].phase, phase>> \in Moves
    /\ pods' = [pods EXCEPT ![p] = Pod(pods[p].revision, phase)]
    /\ UNCHANGED <<kind, spec, status, before, listed, reading>>

-----------------------------------------------------------------------------
(* The pipeline's reading.                                                 *)

\* A daemon set's status counts the nodes it should run on.
Workload ==
    [revision |-> spec.revision,
     rollout |-> [kind |-> kind, generation |-> spec.generation,
                  observed |-> status.observed,
                  desired |-> IF kind = "daemon_set" THEN status.desired ELSE spec.desired,
                  replicas |-> status.replicas, updated |-> status.updated,
                  available |-> status.available,
                  misscheduled |-> IF status.replicas > status.desired
                                   THEN status.replicas - status.desired ELSE 0,
                  currentRevision |-> status.currentRevision,
                  updateRevision |-> status.revision]]

ReadWorkload ==
    /\ before = Unread
    /\ before' = Workload
    /\ UNCHANGED <<world, listed, reading>>

ListPods ==
    /\ before # Unread /\ listed = Unread
    /\ listed' = [p \in Listable |-> pods[p]]
    /\ UNCHANGED <<world, before, reading>>

StateOf(phase) == IF phase \in {"starting", "running"} THEN "live" ELSE phase

\* Somebody may have added a debugging container of the deployed repository.
Debugging == [role |-> "ephemeral", deployed |-> TRUE, image |-> "debug"]
ContainersOf(pod, debugged) ==
    DOMAIN PodTemplates[pod.revision] \cup {n \in {"debug"} : debugged}
Declared(pod, name) ==
    IF name = "debug" THEN Debugging ELSE PodTemplates[pod.revision][name]

\* The runtime of the pod's node reports the image or its platform's image.
RunningDigest(pod, image, ofPlatform) ==
    IF pod.phase = "starting" THEN Unreported
    ELSE IF ofPlatform /\ image = Image THEN "platform" ELSE image

\* What else a reading may meet, one at a time: the rollout is held, being
\* paused, partitioned or left to deletions; the first pod is debugged; its
\* node reports the platform's image.
Circumstance == {"none", "held", "debugged", "platform"}

ReadTemplate(template, name) ==
    [name |-> name, role |-> template[name].role,
     deployed |-> template[name].deployed, compared |-> template[name].deployed]

ReadContainer(template, p, name, circumstance) ==
    LET pod == listed[p]
        declared == Declared(pod, name)
    IN  [pod |-> p, name |-> name, role |-> declared.role, deployed |-> declared.deployed,
         compared |-> declared.deployed \/ (name \in DOMAIN template /\ template[name].deployed),
         digest |-> RunningDigest(pod, declared.image, p = 1 /\ circumstance = "platform"),
         state |-> StateOf(pod.phase), revision |-> pod.revision]

\* An honest reading: the workload as one of the two requests returned it,
\* and the pods as they were listed.
ReadingOf(workload, circumstance) ==
    LET template == PodTemplates[workload.revision]
        held == circumstance = "held"
    IN  [workload |-> kind, rollout |-> workload.rollout, held |-> held,
         complete |-> Complete(workload.rollout, held),
         expected |-> ExpectedLivePods(workload.rollout),
         template |-> {ReadTemplate(template, n) : n \in DOMAIN template},
         containers |->
            UNION {{ReadContainer(template, p, n, circumstance) :
                       n \in ContainersOf(listed[p], p = 1 /\ circumstance = "debugged")} :
                      p \in DOMAIN listed},
         live |-> Cardinality({p \in DOMAIN listed : StateOf(listed[p].phase) = "live"}),
         owners |-> kind = "deployment",
         revision |-> workload.revision,  \* not in the document: what the properties compare
         agreed |-> before = Workload]

ReadAgain(workload, circumstance) ==
    /\ listed # Unread /\ reading = Unread
    /\ reading' = ReadingOf(workload, circumstance)
    /\ UNCHANGED <<world, before, listed>>

ReadingNext ==
    \/ /\ reading = Unread
       /\ \/ \E revision \in Revision, desired \in Replicas : ChangeSpec(revision, desired)
          \/ WriteStatus
          \/ CreatePod
          \/ \E p \in DOMAIN pods, move \in Moves : MovePod(p, move[2])
    \/ ReadWorkload
    \/ ListPods
    \/ /\ listed # Unread
       /\ \E workload \in {before, Workload}, circumstance \in Circumstance :
             ReadAgain(workload, circumstance)

ReadingSpec == ReadingInit /\ [][ReadingNext]_readingVars

-----------------------------------------------------------------------------
(* Properties.                                                             *)

\* The status the record's rule recomputes in Python is the one the shipped
\* assertion, compiled and evaluated over the same reading, gives: with and
\* without an accepted build, and with digests the cluster did not report.
ShippedAssertionAgrees ==
    reading # Unread =>
        \A build \in AcceptedBuilds :
            ShippedAssertion(ReadingInput(reading, build)) = RunningImageStatus(reading, build)

\* Counts that show a rollout finished count no pod but those of the current
\* template (_Rollout.complete_by_counts says so).  They may: a stateful set
\* that is set back to the revision it was leaving has it as its current
\* revision and its update revision at once, while a pod of the revision in
\* between is still counted among its replicas.
CountsNoOtherPod(r) == r.complete => r.rollout.replicas = r.rollout.updated
FinishedCountsNoOtherPod == reading # Unread => CountsNoOtherPod(reading)

\* An honest reading is refused only when the workload moved while it was
\* read, or its counts are such a set's: when both reads of the workload
\* agree, whatever its pods did meanwhile, the reader accepts it.
RefusedOnlyWhenItMoved ==
    reading # Unread /\ reading.agreed /\ CountsNoOtherPod(reading) => Accepts(reading)

\* When both reads agree, a pass is of the template that was read: no live
\* pod is left over from another, however late the status follows the spec.
PassIsOfTheTemplateRead ==
    reading # Unread /\ reading.agreed /\ Accepts(reading)
    /\ (\E build \in AcceptedBuilds : RunningImageStatus(reading, build) = "pass") =>
        \A c \in reading.containers : c.state = "live" => c.revision = reading.revision
=============================================================================
