--------------------------- MODULE ReleaseProcess ---------------------------
(***************************************************************************)
(* How a trusted key file reaches a published release: changes are opened  *)
(* against main, checked by continuous integration (check_release.py       *)
(* --keys BASE), merged, and released by pushing a version tag, which      *)
(* starts a workflow that checks the tag (check_release.py TAG             *)
(* origin/main) and publishes after a maintainer's approval.               *)
(*                                                                         *)
(* Contributors, maintainers and workflow runs act in any order.  A check  *)
(* may be stale when its change is merged; a tag may be pushed on any      *)
(* commit, under any name; several releases may be under way at once.      *)
(***************************************************************************)
EXTENDS KeyFile, Sequences, FiniteSets

CONSTANTS
    Trees,      \* the working trees a change may bring
    FirstTree,  \* the tree of the first commit
    Versions,   \* the version tags that may be pushed
    MaxCommits, \* bound on the number of commits
    TidyTags    \* TRUE when no tag is pushed beside an unaccepted one

VARIABLES
    commits,    \* sequence of commits: the tree and the ancestors' indexes
    main,       \* index of the commit main points to
    checked,    \* heads of changes whose check passed, at some time
    tags,       \* by version, the tagged commit and its workflow's state
    published   \* by version, the trust file the published package carries

vars == <<commits, main, checked, tags, published>>

Tree == [version : Version, dated : BOOLEAN, file : TrustFile, reader : Nat]
\* `reader` stands for the other files under trust/; `dated` says whether the
\* changelog has a dated section for `version`.

ASSUME ReleaseAssumption ==
    /\ Trees \subseteq Tree
    /\ FirstTree \in Tree
    /\ Versions \subseteq Version
    /\ MaxCommits \in Nat \ {0}
    /\ TidyTags \in BOOLEAN

Anc(c) == commits[c].anc
TreeOf(c) == commits[c].tree
FileOf(v) == TreeOf(tags[v].commit).file

Accepted == {v \in DOMAIN tags : tags[v].state = "accepted"}

\* The plain version tags among the commits of a history, in `newest_release`.
TagsOn(history) == {v \in DOMAIN tags : tags[v].commit \in history}

(***************************************************************************)
(* Git's three-way merge of two commits, key by key for the trust file.    *)
(***************************************************************************)
MergeBase(a, b) ==
    CHOOSE c \in Anc(a) \cap Anc(b) : \A d \in Anc(a) \cap Anc(b) : d <= c

Clean(base, ours, theirs) == base = ours \/ base = theirs \/ ours = theirs
Pick3(base, ours, theirs) == IF theirs = base THEN ours ELSE theirs

MergeClean(a, b) ==
    LET o == TreeOf(MergeBase(a, b))
        x == TreeOf(a)
        y == TreeOf(b)
    IN  /\ Clean(o.version, x.version, y.version)
        /\ Clean(o.dated, x.dated, y.dated)
        /\ Clean(o.reader, x.reader, y.reader)
        /\ Clean(o.file.form, x.file.form, y.file.form)
        /\ \A id \in KeyIds :
               Clean(o.file.keys[id], x.file.keys[id], y.file.keys[id])

Merged(a, b) ==
    LET o == TreeOf(MergeBase(a, b))
        x == TreeOf(a)
        y == TreeOf(b)
    IN  [version |-> Pick3(o.version, x.version, y.version),
         dated   |-> Pick3(o.dated, x.dated, y.dated),
         reader  |-> Pick3(o.reader, x.reader, y.reader),
         file    |->
            [form |-> Pick3(o.file.form, x.file.form, y.file.form),
             keys |-> [id \in KeyIds |->
                Pick3(o.file.keys[id], x.file.keys[id], y.file.keys[id])]]]

(***************************************************************************)
(* The check of a change, on the tree its merge into main would give.      *)
(***************************************************************************)
PendingWithAny(tree, history) ==  \* mutant: any earlier release will do
    \/ TagsOn(history) = {}
    \/ \E p \in TagsOn(history) : KeysOK(FileOf(p), tree.file, p, tree.version)

PendingKeysOK(tree, history) ==
    \/ TagsOn(history) = {}
    \/ \E p \in TagsOn(history) :
          /\ Newest(p, TagsOn(history))
          /\ KeysOK(FileOf(p), tree.file, p, tree.version)

VersionBumpOK(tree, base) ==
    LET before == TreeOf(base) IN
    /\ ~Higher(before.version, tree.version)
    /\ \/ TagsOn(Anc(base)) = {}
       \/ tree.file = before.file /\ tree.reader = before.reader
       \/ tree.version # before.version

ChangeOK(h) ==
    /\ MergeClean(main, h)
    /\ Parses(Merged(main, h).file)
    /\ PendingKeysOK(Merged(main, h), Anc(main) \cup Anc(h))
    /\ VersionBumpOK(Merged(main, h), main)

(***************************************************************************)
(* The check of a release tag against main.                                *)
(***************************************************************************)
\* A commit of main whose tree names the tag's version.
Ready(v) ==
    /\ Parses(TreeOf(tags[v].commit).file)
    /\ TreeOf(tags[v].commit).version = v
    /\ TreeOf(tags[v].commit).dated
    /\ tags[v].commit \in Anc(main)

FollowsUnchecked(v, p) ==  \* mutant: the keys were checked with the change
    Higher(v, p) /\ tags[p].commit \in Anc(tags[v].commit)

FollowsBeside(v, p) ==  \* mutant: the earlier release may be elsewhere
    Higher(v, p) /\ KeysOK(FileOf(p), FileOf(v), p, v)

Follows(v, p) ==
    /\ Higher(v, p)
    /\ tags[p].commit \in Anc(tags[v].commit)
    /\ KeysOK(FileOf(p), FileOf(v), p, v)

ReleaseOK(v) ==
    LET earlier == TagsOn(Anc(main)) \ {v}
    IN  /\ Ready(v)
        /\ \/ earlier = {}
           \/ \E p \in earlier : Newest(p, earlier) /\ Follows(v, p)

-----------------------------------------------------------------------------
Init ==
    /\ commits = << [tree |-> FirstTree, anc |-> {1}] >>
    /\ main = 1
    /\ checked = {}
    /\ tags = << >>
    /\ published = << >>

\* A contributor commits a tree on top of any commit, or merges main into it
\* and settles the tree by hand.
OpenChange(parent, withMain, tree) ==
    /\ Len(commits) < MaxCommits
    /\ commits' = Append(commits,
           [tree |-> tree,
            anc |-> Anc(parent) \cup {Len(commits) + 1}
                       \cup (IF withMain THEN Anc(main) ELSE {})])
    /\ UNCHANGED <<main, checked, tags, published>>

\* Continuous integration passes a change against the main of this moment.
CheckChange(h) ==
    /\ h \notin Anc(main) \cup checked
    /\ ChangeOK(h)
    /\ checked' = checked \cup {h}
    /\ UNCHANGED <<commits, main, tags, published>>

\* A checked change is merged: main may have moved since the check.  A merge
\* commit keeps the change's history, a squash leaves it out.
MergeChange(h, squash) ==
    /\ Len(commits) < MaxCommits
    /\ h \in checked
    /\ h \notin Anc(main)
    /\ MergeClean(main, h)
    /\ commits' = Append(commits,
           [tree |-> Merged(main, h),
            anc |-> Anc(main) \cup {Len(commits) + 1}
                       \cup (IF squash THEN {} ELSE Anc(h))])
    /\ main' = Len(commits) + 1
    /\ checked' = checked \ {h}
    /\ UNCHANGED <<tags, published>>

\* A checked change that starts at main's own commit becomes main as it is.
FastForward(h) ==
    /\ h \in checked
    /\ h # main /\ main \in Anc(h)
    /\ main' = h
    /\ checked' = checked \ {h}
    /\ UNCHANGED <<commits, tags, published>>

\* A maintainer pushes a tag, on any commit.
PushTag(v, c) ==
    /\ v \notin DOMAIN tags
    /\ TidyTags => Accepted = DOMAIN tags
    /\ tags' = [u \in DOMAIN tags \cup {v} |->
                   IF u = v THEN [commit |-> c, state |-> "pushed"]
                   ELSE tags[u]]
    /\ UNCHANGED <<commits, main, checked, published>>

\* The workflow of a tag, first run or a rerun of a refused one, decides.
VerifyTag(v) ==
    /\ tags[v].state # "accepted"
    /\ tags' = [tags EXCEPT ![v].state =
                   IF ReleaseOK(v) THEN "accepted" ELSE "refused"]
    /\ UNCHANGED <<commits, main, checked, published>>

\* A refused tag is taken back.
DeleteTag(v) ==
    /\ tags[v].state = "refused"
    /\ tags' = [u \in DOMAIN tags \ {v} |-> tags[u]]
    /\ UNCHANGED <<commits, main, checked, published>>

Publish(v) ==
    /\ v \in Accepted
    /\ v \notin DOMAIN published
    /\ published' = [u \in DOMAIN published \cup {v} |->
                        IF u = v THEN FileOf(v) ELSE published[u]]
    /\ UNCHANGED <<commits, main, checked, tags>>

Commits == 1 .. Len(commits)

Next ==
    \/ \E parent \in Commits, withMain \in BOOLEAN, tree \in Trees :
          OpenChange(parent, withMain, tree)
    \/ \E h \in Commits : CheckChange(h) \/ FastForward(h)
    \/ \E h \in Commits, squash \in BOOLEAN : MergeChange(h, squash)
    \/ \E v \in Versions, c \in Commits : PushTag(v, c)
    \/ \E v \in DOMAIN tags : VerifyTag(v) \/ DeleteTag(v) \/ Publish(v)

Spec == Init /\ [][Next]_vars

TC == INSTANCE TrustChain
          WITH chain <- [v \in Accepted |-> commits[tags[v].commit].tree.file]

-----------------------------------------------------------------------------
Commit == [tree : Tree, anc : SUBSET Nat]
Tag == [commit : Nat, state : {"pushed", "refused", "accepted"}]

ReleaseTypeOK ==
    /\ commits \in Seq(Commit)
    /\ main \in Commits
    /\ checked \subseteq Commits
    /\ DOMAIN tags \subseteq Versions
    /\ \A v \in DOMAIN tags : tags[v] \in Tag /\ tags[v].commit \in Commits
    /\ DOMAIN published \subseteq Versions
    /\ \A v \in DOMAIN published : published[v] \in TrustFile

(***************************************************************************)
(* Across every two published releases, however many lie between them, no  *)
(* key was removed, no status moved back, nothing written was rewritten    *)
(* (check_release.py, history_problems), and the key file's bytes differ   *)
(* only across a major or minor version.                                   *)
(***************************************************************************)
PublishedKeysMoveForward ==
    \A u, v \in DOMAIN published : Higher(v, u) =>
        /\ HistoryKept(published[u], published[v])
        /\ RaisedForChange(published[u], published[v], u, v)

(***************************************************************************)
(* The accepted releases are the chain the release rules promise: every    *)
(* step of the process accepts one release as TrustChain would, or leaves  *)
(* the accepted releases as they are.                                      *)
(***************************************************************************)
ImplementsTrustChain == TC!Spec

(***************************************************************************)
(* Every lower accepted release is in the history of every higher one, so  *)
(* no release leaves out a change that an earlier one shipped.             *)
(***************************************************************************)
ReleasesInHistory ==
    \A u, v \in Accepted :
        Higher(v, u) => tags[u].commit \in Anc(tags[v].commit)

(***************************************************************************)
(* The inductive invariant behind these: histories are closed under        *)
(* ancestry; at most one tag is not accepted, so the earlier tags a        *)
(* release is compared with are all accepted and all on main; and what is  *)
(* published is what was accepted.                                         *)
(***************************************************************************)
HistoriesClosed ==
    \A c \in Commits :
        /\ c \in Anc(c) /\ Anc(c) \subseteq 1 .. c
        /\ \A d \in Anc(c) : Anc(d) \subseteq Anc(c)

AcceptedOnMain == \A v \in Accepted : tags[v].commit \in Anc(main)

OneUnaccepted == \A u, v \in DOMAIN tags \ Accepted : u = v

AcceptedMoveForward ==
    \A u, v \in Accepted : Higher(v, u) =>
        /\ HistoryKept(FileOf(u), FileOf(v))
        /\ RaisedForChange(FileOf(u), FileOf(v), u, v)

PublishedAreAccepted ==
    \A v \in DOMAIN published : v \in Accepted /\ published[v] = FileOf(v)

ReleaseInv ==
    /\ ReleaseTypeOK /\ HistoriesClosed
    /\ AcceptedOnMain /\ OneUnaccepted
    /\ AcceptedMoveForward /\ ReleasesInHistory
    /\ PublishedAreAccepted

(***************************************************************************)
(* The early check is worth its place (ci.yml, "refused here, before       *)
(* review, not at release"): a change merged while its check still holds,  *)
(* with no unaccepted tag about, leaves main with keys that keep the       *)
(* history of every accepted release; and a version above all of them is   *)
(* one that carries main's keys, in a new series where they changed.       *)
(***************************************************************************)
FreshMerge(h) ==
    /\ Accepted = DOMAIN tags
    /\ ChangeOK(h)
    /\ FastForward(h) \/ \E squash \in BOOLEAN : MergeChange(h, squash)

CarriesAccepted(tree) ==
    \A v \in Accepted :
        /\ HistoryKept(FileOf(v), tree.file)
        /\ (\A u \in Accepted : Higher(tree.version, u)) =>
               RaisedForChange(FileOf(v), tree.file, v, tree.version)

FreshMergeKeepsHistory ==
    [][\A h \in Commits : FreshMerge(h) => CarriesAccepted(commits'[main'].tree)]_vars
=============================================================================
