---------------------------- MODULE Distribution ----------------------------
(***************************************************************************)
(* Which published package a process says it checks with (distribution.py, *)
(* installed_identity): it finds the installed distribution, reads its     *)
(* metadata, lists the package's files, hashes them one by one, and keeps  *)
(* the answer for as long as it runs.                                      *)
(*                                                                         *)
(* Meanwhile anyone may write any file: an installer that replaces one     *)
(* release by another in several steps, an editor, an interpreter that     *)
(* caches bytecode. A digest stands for the rows of RECORD it is over, and *)
(* a hash for the content it is of.                                        *)
(***************************************************************************)
CONSTANTS
    Modules,      \* the package's own files, over all releases
    Bytecode,     \* files an interpreter caches beside them
    FileContents, \* what a file may hold
    Shipped,      \* each release's files and what it shipped in them
    OtherRecords  \* what a RECORD may say besides what a release's says

VARIABLES
    disk,     \* what is under the package directory: path to content
    info,     \* the installed metadata, at most one directory of it
    call,     \* what the call under way has found so far
    identity, \* the answer the process keeps, once it has one
    written   \* whether anyone wrote since that call began

distVars == <<disk, info, call, identity, written>>

Paths  == Modules \cup Bytecode
Absent == "absent"
NoHash == "no hash"

(***************************************************************************)
(* Releases, and what RECORD says of their files.                          *)
(***************************************************************************)
Releases == DOMAIN Shipped

\* A release has files, and none that is bytecode. RECORD has the package's
\* rows, no row twice.
ASSUME DistributionAssumption ==
    /\ Modules \cap Bytecode = {}
    /\ {Absent, NoHash} \cap FileContents = {}
    /\ \A record \in OtherRecords : DOMAIN record \subseteq Modules \cup Bytecode
    /\ \A release \in Releases :
           /\ DOMAIN Shipped[release] \subseteq Modules
           /\ DOMAIN Shipped[release] # {}
           /\ \A path \in DOMAIN Shipped[release] :
                  Shipped[release][path] \in FileContents

\* Bytecode is listed without a hash.
RecordOf(release) ==
    [p \in DOMAIN Shipped[release] \cup Bytecode |->
        IF p \in Bytecode THEN NoHash ELSE Shipped[release][p]]

Counts(path) == path \notin Bytecode

Entries(record) ==
    {entry \in {<<path, record[path]>> : path \in DOMAIN record} :
        Counts(entry[1]) /\ entry[2] # NoHash}

\* The digest of a built wheel, once its files were checked.
WheelDigest(release) == Entries(RecordOf(release))

Unlisted(record, present) ==
    {path \in present : Counts(path)} \ {entry[1] : entry \in Entries(record)}

(***************************************************************************)
(* A call, and the answer of the process.                                  *)
(***************************************************************************)
Idle == [at |-> "idle"]

IdentityOf(version, install, digest) ==
    [version |-> version, install |-> install, digest |-> digest]

Begun(step) == call = Idle /\ identity = {} /\ call' = step

\* A package that runs from a checkout with no metadata has no identity.
NoPackage ==
    /\ call = Idle /\ identity = {} /\ info = {}
    /\ identity' = {IdentityOf("none", "none", {})}
    /\ UNCHANGED <<disk, info, call, written>>

Find ==
    /\ \E found \in info :
           Begun([at |-> "found", version |-> found.version])
    /\ written' = FALSE
    /\ UNCHANGED <<disk, info, identity>>

\* A file of the metadata is of the directory that was found, if that is
\* still there.
FoundInfo == {m \in info : m.version = call.version}

Answered(answer) ==
    /\ call' = Idle /\ identity' = {answer}
    /\ UNCHANGED <<disk, info, written>>

\* The call ends with ContractIntegrityError, and nothing is kept.
Refused == call' = Idle /\ UNCHANGED <<disk, info, identity, written>>

ReadDirectUrl ==
    /\ call.at = "found"
    /\ IF \E m \in FoundInfo : m.editable
       THEN Answered(IdentityOf(call.version, "editable", {}))
       ELSE /\ call' = [call EXCEPT !.at = "wheel"]
            /\ UNCHANGED <<disk, info, identity, written>>

\* An editable install has no rows of its own files.
ReadRecord ==
    /\ call.at = "wheel"
    /\ IF FoundInfo = {} THEN Refused
       ELSE /\ \E m \in FoundInfo :
                   call' = [at |-> "record", version |-> call.version,
                            record |-> m.record]
            /\ UNCHANGED <<disk, info, identity, written>>

Present == {path \in Paths : disk[path] # Absent}

\* The directory is listed before any file is read, and the rows next.
List ==
    /\ call.at = "record"
    /\ IF Entries(call.record) = {} THEN Refused
       ELSE /\ call' = [at |-> "check", version |-> call.version,
                        record |-> call.record, present |-> Present,
                        unread |-> Entries(call.record)]
            /\ UNCHANGED <<disk, info, identity, written>>

ReadFile ==
    /\ call.at = "check"
    /\ \E entry \in call.unread :
           IF disk[entry[1]] # entry[2] THEN Refused
           ELSE /\ call' = [call EXCEPT !.unread = @ \ {entry}]
                /\ UNCHANGED <<disk, info, identity, written>>

FinishAnyFiles ==  \* mutant: files RECORD does not list are let be
    /\ call.at = "check" /\ call.unread = {}
    /\ IF FoundInfo = {} THEN Refused
       ELSE Answered(IdentityOf(call.version, "wheel", Entries(call.record)))

\* The version is read last.
Finish ==
    /\ call.at = "check" /\ call.unread = {}
    /\ IF Unlisted(call.record, call.present) # {} \/ FoundInfo = {}
       THEN Refused
       ELSE Answered(IdentityOf(call.version, "wheel", Entries(call.record)))

Restart ==
    /\ call = Idle /\ identity # {} /\ identity' = {}
    /\ UNCHANGED <<disk, info, call, written>>

(***************************************************************************)
(* Installers, editors and interpreters.                                   *)
(***************************************************************************)
Installations ==
    [version : Releases, editable : BOOLEAN,
     record : {RecordOf(r) : r \in Releases} \cup OtherRecords]

\* What is written while no call is under way is there when one begins.
Wrote == written' = (call # Idle)

WriteFile ==
    /\ \E path \in Paths, content \in FileContents \cup {Absent} :
           disk' = [disk EXCEPT ![path] = content]
    /\ Wrote
    /\ UNCHANGED <<info, call, identity>>

WriteInfo ==
    /\ info' \in {{}} \cup {{m} : m \in Installations}
    /\ Wrote
    /\ UNCHANGED <<disk, call, identity>>

\* The metadata names the release and its files, and these are what it
\* shipped.
InstalledFrom(release) ==
    /\ \E m \in info :
           /\ m.version = release /\ ~m.editable
           /\ Entries(m.record) = WheelDigest(release)
    /\ \A path \in Modules :
           disk[path] = IF path \in DOMAIN Shipped[release]
                         THEN Shipped[release][path] ELSE Absent

DistInit ==
    /\ disk \in [Paths -> FileContents \cup {Absent}]
    /\ info \in {{}} \cup {{m} : m \in Installations}
    /\ \E release \in Releases : InstalledFrom(release)
    /\ call = Idle /\ identity = {} /\ written = FALSE

DistNext ==
    \/ NoPackage \/ Find \/ ReadDirectUrl \/ ReadRecord \/ List
    \/ ReadFile \/ Finish \/ Restart
    \/ WriteFile \/ WriteInfo

DistSpec == DistInit /\ [][DistNext]_distVars

(***************************************************************************)
(* A property.                                                             *)
(***************************************************************************)

\* Unless someone wrote while the process looked, it answers with the digest
\* a release printed exactly when that release's files, and no others, are
\* the package's: a file that was edited, removed or added is never passed
\* over, and neither bytecode nor the installer is a reason to refuse
\* (distribution.py _check, identity_of, wheel_digest). Files written during
\* the call or after it are not seen.
DigestMeansUntouched ==
    [][call # Idle /\ call' = Idle /\ ~written
       => \A release \in Releases :
              (identity' = {IdentityOf(release, "wheel", WheelDigest(release))})
              <=> InstalledFrom(release)]_distVars
=============================================================================
