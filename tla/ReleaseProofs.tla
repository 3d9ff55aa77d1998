--------------------------- MODULE ReleaseProofs ---------------------------
(***************************************************************************)
(* The release process keeps the trusted keys moving forward, for every    *)
(* set of keys, trees and versions, when tags are kept tidy: no tag is     *)
(* pushed beside one that is not accepted.                                 *)
(***************************************************************************)
EXTENDS ReleaseProcess, KeyFileProofs

(***************************************************************************)
(* Types.                                                                  *)
(***************************************************************************)
\* A commit holds a tree, and its ancestors are natural numbers.
LEMMA AncType ==
    ASSUME ReleaseTypeOK, NEW c \in Commits
    PROVE  Anc(c) \in SUBSET Nat /\ TreeOf(c) \in Tree
  <1>1. commits[c] \in Commit
    BY DEF ReleaseTypeOK, Commits
  <1>2. QED
    BY <1>1 DEF Anc, TreeOf, Commit

\* A three-way merge takes each value from one of the two sides.
LEMMA MergedType ==
    ASSUME NEW a \in Commits, NEW b \in Commits, ReleaseTypeOK
    PROVE  Merged(a, b) \in Tree
  <1>1. TreeOf(a) \in Tree /\ TreeOf(b) \in Tree
    BY AncType
  <1> DEFINE o == TreeOf(MergeBase(a, b))
             x == TreeOf(a)
             y == TreeOf(b)
             keys == [id \in KeyIds |->
                 Pick3(o.file.keys[id], x.file.keys[id], y.file.keys[id])]
             file == [form |-> Pick3(o.file.form, x.file.form, y.file.form),
                      keys |-> keys]
  <1>2. x.file \in TrustFile /\ y.file \in TrustFile
    BY <1>1 DEF Tree
  <1>3. keys \in [KeyIds -> BundleKey \cup {None}]
    BY <1>2 DEF TrustFile, Pick3
  <1>4. file \in TrustFile
    BY <1>2, <1>3 DEF TrustFile, Pick3
  <1>5. /\ Pick3(o.version, x.version, y.version) \in Version
        /\ Pick3(o.dated, x.dated, y.dated) \in BOOLEAN
        /\ Pick3(o.reader, x.reader, y.reader) \in Nat
    BY <1>1 DEF Tree, Pick3
  <1>6. QED
    BY <1>4, <1>5 DEF Merged, Tree

\* Appending a commit leaves the earlier ones as they are.
LEMMA AppendCommit ==
    ASSUME ReleaseTypeOK, NEW t \in Tree, NEW h \in SUBSET Nat,
           commits' = Append(commits, [tree |-> t, anc |-> h])
    PROVE  /\ commits' \in Seq(Commit)
           /\ Commits' = Commits \cup {Len(commits) + 1}
           /\ Len(commits) \in Nat /\ Len(commits) + 1 \notin Commits
           /\ \A c \in Commits : commits'[c] = commits[c]
           /\ commits'[Len(commits) + 1] = [tree |-> t, anc |-> h]
  <1>1. commits \in Seq(Commit) /\ [tree |-> t, anc |-> h] \in Commit
    BY DEF ReleaseTypeOK, Commit
  <1>2. QED
    BY <1>1 DEF Commits

\* The process starts in, and keeps to, states of its type.
LEMMA TypeStep == ReleaseTypeOK /\ [Next]_vars => ReleaseTypeOK'
  <1> SUFFICES ASSUME ReleaseTypeOK, [Next]_vars PROVE ReleaseTypeOK'
    OBVIOUS
  <1>1. ASSUME NEW parent \in Commits, NEW withMain \in BOOLEAN,
               NEW tree \in Trees, OpenChange(parent, withMain, tree)
        PROVE  ReleaseTypeOK'
    <2> DEFINE h == Anc(parent) \cup {Len(commits) + 1}
                       \cup (IF withMain THEN Anc(main) ELSE {})
    <2>1. h \in SUBSET Nat /\ tree \in Tree
      BY AncType, ReleaseAssumption DEF ReleaseTypeOK
    <2>2. commits' = Append(commits, [tree |-> tree, anc |-> h])
      BY <1>1 DEF OpenChange
    <2>3. commits' \in Seq(Commit) /\ Commits \subseteq Commits'
      BY <2>1, <2>2, AppendCommit
    <2>4. QED
      BY <1>1, <2>3 DEF OpenChange, ReleaseTypeOK
  <1>2. ASSUME NEW c \in Commits, CheckChange(c) PROVE ReleaseTypeOK'
    BY <1>2 DEF CheckChange, ReleaseTypeOK, Commits
  <1>3. ASSUME NEW c \in Commits, FastForward(c) PROVE ReleaseTypeOK'
    BY <1>3 DEF FastForward, ReleaseTypeOK, Commits
  <1>4. ASSUME NEW c \in Commits, NEW squash \in BOOLEAN, MergeChange(c, squash)
        PROVE  ReleaseTypeOK'
    <2> DEFINE h == Anc(main) \cup {Len(commits) + 1}
                       \cup (IF squash THEN {} ELSE Anc(c))
    <2>1. h \in SUBSET Nat /\ Merged(main, c) \in Tree
      BY AncType, MergedType DEF ReleaseTypeOK
    <2>2. commits' = Append(commits, [tree |-> Merged(main, c), anc |-> h])
      BY <1>4 DEF MergeChange
    <2>3. /\ commits' \in Seq(Commit) /\ Commits \subseteq Commits'
          /\ Len(commits) + 1 \in Commits'
      BY <2>1, <2>2, AppendCommit
    <2>4. QED
      BY <1>4, <2>3 DEF MergeChange, ReleaseTypeOK
  <1>5. ASSUME NEW v \in Versions, NEW c \in Commits, PushTag(v, c)
        PROVE  ReleaseTypeOK'
    BY <1>5 DEF PushTag, ReleaseTypeOK, Commits, Tag
  <1>6. ASSUME NEW v \in DOMAIN tags, VerifyTag(v) PROVE ReleaseTypeOK'
    BY <1>6 DEF VerifyTag, ReleaseTypeOK, Commits, Tag
  <1>7. ASSUME NEW v \in DOMAIN tags, DeleteTag(v) PROVE ReleaseTypeOK'
    BY <1>7 DEF DeleteTag, ReleaseTypeOK, Commits
  <1>8. ASSUME NEW v \in DOMAIN tags, Publish(v) PROVE ReleaseTypeOK'
    <2>1. FileOf(v) \in TrustFile
      BY AncType DEF ReleaseTypeOK, FileOf, Tree
    <2>2. QED
      BY <1>8, <2>1 DEF Publish, ReleaseTypeOK, Commits
  <1>9. CASE UNCHANGED vars
    BY <1>9 DEF vars, ReleaseTypeOK, Commits
  <1>10. QED
    BY <1>1, <1>2, <1>3, <1>4, <1>5, <1>6, <1>7, <1>8, <1>9 DEF Next

(***************************************************************************)
(* The inductive step, by what a step changes.                             *)
(***************************************************************************)
USE DEF Accepted

\* A commit's ancestors are commits.
LEMMA AncInCommits ==
    ASSUME ReleaseTypeOK, HistoriesClosed
    PROVE  \A c \in Commits : Anc(c) \subseteq Commits
  BY DEF ReleaseTypeOK, HistoriesClosed, Commits

\* A step that adds a commit above closed histories, and leaves main where it
\* was or moves it up, keeps the invariant.
LEMMA GrowKeepsInv ==
    ASSUME ReleaseInv, ReleaseTypeOK', UNCHANGED <<tags, published>>,
           NEW t \in Tree, NEW h,
           h \subseteq Commits \cup {Len(commits) + 1}, Len(commits) + 1 \in h,
           \A d \in h \ {Len(commits) + 1} : Anc(d) \subseteq h,
           commits' = Append(commits, [tree |-> t, anc |-> h]),
           Anc(main) \subseteq Anc(main)'
    PROVE  ReleaseInv'
  <1> DEFINE n == Len(commits) + 1
  <1>1. ReleaseTypeOK /\ h \in SUBSET Nat
    BY DEF ReleaseInv, ReleaseTypeOK, Commits
  <1>2. /\ Commits' = Commits \cup {n} /\ n \notin Commits
        /\ \A c \in Commits : commits'[c] = commits[c]
        /\ commits'[n] = [tree |-> t, anc |-> h]
    BY <1>1, AppendCommit
  <1>3. \A c \in Commits : Anc(c)' = Anc(c) /\ TreeOf(c)' = TreeOf(c)
    BY <1>2 DEF Anc, TreeOf
  <1>4. \A v \in DOMAIN tags : tags[v].commit \in Commits /\ FileOf(v)' = FileOf(v)
    BY <1>1, <1>2 DEF ReleaseTypeOK, FileOf, TreeOf
  <1>5. HistoriesClosed'
    <2>1. ASSUME NEW c \in Commits'
          PROVE  (/\ c \in Anc(c) /\ Anc(c) \subseteq 1 .. c
                  /\ \A d \in Anc(c) : Anc(d) \subseteq Anc(c))'
      <3>1. CASE c \in Commits
        <4>1. /\ c \in Anc(c) /\ Anc(c) \subseteq 1 .. c
              /\ \A d \in Anc(c) : Anc(d) \subseteq Anc(c)
          BY <3>1 DEF ReleaseInv, HistoriesClosed
        <4>2. Anc(c) \subseteq Commits
          BY <1>1, <3>1, AncInCommits DEF ReleaseInv
        <4>3. Anc(c)' = Anc(c) /\ \A d \in Anc(c) : Anc(d)' = Anc(d)
          BY <1>3, <3>1, <4>2
        <4>4. QED
          BY <4>1, <4>3
      <3>2. CASE c = n
        <4>1. Anc(c)' = h
          BY <1>2, <3>2 DEF Anc
        <4>2. \A d \in h : Anc(d)' \subseteq h
          <5> SUFFICES ASSUME NEW d \in h PROVE Anc(d)' \subseteq h
            OBVIOUS
          <5>1. CASE d = n
            BY <3>2, <4>1, <5>1
          <5>2. CASE d # n
            BY <1>3, <5>2
          <5>3. QED
            BY <5>1, <5>2
        <4>3. h \subseteq 1 .. n
          BY <1>1 DEF ReleaseTypeOK, Commits
        <4>4. QED
          BY <3>2, <4>1, <4>2, <4>3
      <3>3. QED
        BY <1>2, <3>1, <3>2
    <2>2. QED
      BY <2>1 DEF HistoriesClosed
  <1>6. AcceptedOnMain' /\ OneUnaccepted'
    BY DEF ReleaseInv, AcceptedOnMain, OneUnaccepted
  <1>7. AcceptedMoveForward'
    BY <1>4 DEF ReleaseInv, AcceptedMoveForward
  <1>8. ReleasesInHistory'
    BY <1>3, <1>4 DEF ReleaseInv, ReleasesInHistory
  <1>9. PublishedAreAccepted'
    BY <1>4 DEF ReleaseInv, PublishedAreAccepted
  <1>10. QED
    BY <1>5, <1>6, <1>7, <1>8, <1>9 DEF ReleaseInv

\* Opening a change and merging one add such a commit.
LEMMA OpenKeepsInv ==
    ASSUME ReleaseInv, ReleaseTypeOK', NEW parent \in Commits,
           NEW withMain \in BOOLEAN, NEW tree \in Trees,
           OpenChange(parent, withMain, tree)
    PROVE  ReleaseInv'
  <1> DEFINE h == Anc(parent) \cup {Len(commits) + 1}
                     \cup (IF withMain THEN Anc(main) ELSE {})
  <1>1. /\ tree \in Tree /\ main \in Commits /\ ReleaseTypeOK
        /\ \A c \in Commits : Anc(c) \subseteq Commits
        /\ \A c \in Commits : \A d \in Anc(c) : Anc(d) \subseteq Anc(c)
    BY ReleaseAssumption, AncInCommits DEF ReleaseInv, ReleaseTypeOK, HistoriesClosed
  <1>2. /\ h \subseteq Commits \cup {Len(commits) + 1}
        /\ Len(commits) + 1 \in h
        /\ \A d \in h \ {Len(commits) + 1} : Anc(d) \subseteq h
    BY <1>1
  <1>3. commits' = Append(commits, [tree |-> tree, anc |-> h]) /\ main' = main
    BY DEF OpenChange
  <1>4. Anc(main)' = Anc(main)
    BY <1>1, <1>3 DEF ReleaseTypeOK, Commits, Anc
  <1>5. QED
    BY <1>1, <1>2, <1>3, <1>4, GrowKeepsInv DEF OpenChange

LEMMA MergeKeepsInv ==
    ASSUME ReleaseInv, ReleaseTypeOK', NEW c \in Commits,
           NEW squash \in BOOLEAN, MergeChange(c, squash)
    PROVE  ReleaseInv'
  <1> DEFINE h == Anc(main) \cup {Len(commits) + 1}
                     \cup (IF squash THEN {} ELSE Anc(c))
             t == Merged(main, c)
  <1>1. /\ main \in Commits /\ ReleaseTypeOK
        /\ \A d \in Commits : Anc(d) \subseteq Commits
        /\ \A d \in Commits : \A e \in Anc(d) : Anc(e) \subseteq Anc(d)
    BY AncInCommits DEF ReleaseInv, ReleaseTypeOK, HistoriesClosed
  <1>2. /\ h \subseteq Commits \cup {Len(commits) + 1}
        /\ Len(commits) + 1 \in h
        /\ \A d \in h \ {Len(commits) + 1} : Anc(d) \subseteq h
    BY <1>1
  <1>3. t \in Tree /\ h \in SUBSET Nat
    BY <1>1, MergedType, AncType
  <1>4. /\ commits' = Append(commits, [tree |-> t, anc |-> h])
        /\ main' = Len(commits) + 1
    BY DEF MergeChange
  <1>5. Anc(main) \subseteq Anc(main)'
    <2>1. commits'[Len(commits) + 1] = [tree |-> t, anc |-> h]
      BY <1>1, <1>3, <1>4, AppendCommit
    <2>2. Anc(main)' = h
      BY <1>4, <2>1 DEF Anc
    <2>3. QED
      BY <2>2
  <1> HIDE DEF h, t
  <1>6. QED
    BY <1>2, <1>3, <1>4, <1>5, GrowKeepsInv DEF MergeChange

LEMMA FastForwardKeepsInv ==
    ASSUME ReleaseInv, ReleaseTypeOK', NEW c \in Commits, FastForward(c)
    PROVE  ReleaseInv'
  <1>1. Anc(main) \subseteq Anc(c)
    BY DEF FastForward, ReleaseInv, HistoriesClosed
  <1>2. HistoriesClosed' /\ AcceptedOnMain'
    BY <1>1 DEF FastForward, ReleaseInv, HistoriesClosed, AcceptedOnMain, Anc, Commits
  <1>3. OneUnaccepted' /\ AcceptedMoveForward' /\ ReleasesInHistory'
    BY DEF FastForward, ReleaseInv, OneUnaccepted, AcceptedMoveForward,
           ReleasesInHistory, FileOf, TreeOf, Anc
  <1>4. PublishedAreAccepted'
    BY DEF FastForward, ReleaseInv, PublishedAreAccepted, FileOf, TreeOf
  <1>5. QED
    BY <1>2, <1>3, <1>4 DEF ReleaseInv

\* A step that changes nothing but tags, and keeps every accepted one as it is
\* without accepting another, keeps the accepted releases.
LEMMA SameAcceptedKeepsInv ==
    ASSUME ReleaseInv, ReleaseTypeOK', UNCHANGED <<commits, main, published>>,
           Accepted' = Accepted, \A v \in Accepted : tags'[v] = tags[v],
           OneUnaccepted'
    PROVE  ReleaseInv'
  <1>1. \A v \in Accepted : FileOf(v)' = FileOf(v)
    BY DEF FileOf, TreeOf
  <1>2. HistoriesClosed' /\ AcceptedOnMain'
    BY DEF ReleaseInv, HistoriesClosed, AcceptedOnMain, Anc, Commits
  <1>3. AcceptedMoveForward' /\ PublishedAreAccepted'
    BY <1>1 DEF ReleaseInv, AcceptedMoveForward, PublishedAreAccepted
  <1>4. ReleasesInHistory'
    BY DEF ReleaseInv, ReleasesInHistory, Anc
  <1>5. QED
    BY <1>2, <1>3, <1>4 DEF ReleaseInv

LEMMA PushKeepsInv ==
    ASSUME TidyTags = TRUE, ReleaseInv, ReleaseTypeOK',
           NEW v \in Versions, NEW c \in Commits, PushTag(v, c)
    PROVE  ReleaseInv'
  <1>1. Accepted = DOMAIN tags /\ v \notin DOMAIN tags
    BY DEF PushTag
  <1>2. /\ DOMAIN tags' = DOMAIN tags \cup {v}
        /\ tags'[v].state = "pushed"
        /\ \A u \in DOMAIN tags : tags'[u] = tags[u]
    BY <1>1 DEF PushTag
  <1>3. Accepted' = Accepted /\ OneUnaccepted'
    BY <1>1, <1>2 DEF OneUnaccepted
  <1>4. QED
    BY <1>2, <1>3, SameAcceptedKeepsInv DEF PushTag

LEMMA DeleteKeepsInv ==
    ASSUME ReleaseInv, ReleaseTypeOK', NEW v \in DOMAIN tags, DeleteTag(v)
    PROVE  ReleaseInv'
  <1>1. /\ DOMAIN tags' = DOMAIN tags \ {v}
        /\ \A u \in DOMAIN tags \ {v} : tags'[u] = tags[u]
        /\ v \notin Accepted
    BY DEF DeleteTag
  <1>2. Accepted' = Accepted /\ OneUnaccepted'
    BY <1>1 DEF ReleaseInv, OneUnaccepted
  <1>3. QED
    BY <1>1, <1>2, SameAcceptedKeepsInv DEF DeleteTag

\* The release check carries the keys of every accepted release over to the
\* one it accepts, and finds every accepted release in its history.
LEMMA ReleaseCarriesAll ==
    ASSUME ReleaseInv, NEW v \in DOMAIN tags, v \notin Accepted, ReleaseOK(v),
           NEW u \in Accepted
    PROVE  /\ Higher(v, u)
           /\ HistoryKept(FileOf(u), FileOf(v))
           /\ RaisedForChange(FileOf(u), FileOf(v), u, v)
           /\ tags[u].commit \in Anc(tags[v].commit)
  <1> DEFINE earlier == TagsOn(Anc(main)) \ {v}
  <1>1. earlier = Accepted
    BY DEF ReleaseInv, AcceptedOnMain, OneUnaccepted, TagsOn
  <1>2. Accepted \subseteq Version /\ v \in Version
    BY ReleaseAssumption DEF ReleaseInv, ReleaseTypeOK
  <1>3. PICK p \in Accepted :
            /\ Newest(p, Accepted)
            /\ Higher(v, p)
            /\ tags[p].commit \in Anc(tags[v].commit)
            /\ KeysOK(FileOf(p), FileOf(v), p, v)
    BY <1>1 DEF ReleaseOK, Ready, Follows
  <1>4. HistoryKept(FileOf(p), FileOf(v)) /\ RaisedForChange(FileOf(p), FileOf(v), p, v)
    BY <1>3 DEF KeysOK
  <1>5. CASE u = p
    BY <1>3, <1>4, <1>5
  <1>6. CASE u # p
    <2>1. Higher(p, u)
      BY <1>3, <1>6 DEF Newest
    <2>2. /\ HistoryKept(FileOf(u), FileOf(p))
          /\ RaisedForChange(FileOf(u), FileOf(p), u, p)
          /\ tags[u].commit \in Anc(tags[p].commit)
      BY <2>1 DEF ReleaseInv, AcceptedMoveForward, ReleasesInHistory
    <2>3. Higher(v, u)
      BY <1>2, <1>3, <2>1, HigherComposes
    <2>4. HistoryKept(FileOf(u), FileOf(v))
      BY <1>4, <2>2, HistoryComposes
    <2>5. RaisedForChange(FileOf(u), FileOf(v), u, v)
      BY <1>2, <1>3, <1>4, <2>1, <2>2, RaiseComposes
    <2>6. tags[v].commit \in Commits
      BY DEF ReleaseInv, ReleaseTypeOK
    <2>7. tags[u].commit \in Anc(tags[v].commit)
      BY <1>3, <2>2, <2>6 DEF ReleaseInv, HistoriesClosed
    <2>8. QED
      BY <2>3, <2>4, <2>5, <2>7
  <1>7. QED
    BY <1>5, <1>6

LEMMA VerifyKeepsInv ==
    ASSUME ReleaseInv, ReleaseTypeOK', NEW v \in DOMAIN tags, VerifyTag(v)
    PROVE  ReleaseInv'
  <1>1. /\ v \notin Accepted
        /\ DOMAIN tags' = DOMAIN tags
        /\ \A u \in DOMAIN tags : u # v => tags'[u] = tags[u]
    BY DEF VerifyTag
  <1>2. CASE ~ReleaseOK(v)
    <2>1. tags'[v].state = "refused"
      BY <1>2 DEF VerifyTag, ReleaseInv, ReleaseTypeOK, Tag
    <2>2. Accepted' = Accepted /\ OneUnaccepted'
      BY <1>1, <2>1 DEF ReleaseInv, OneUnaccepted
    <2>3. QED
      BY <1>1, <2>2, SameAcceptedKeepsInv DEF VerifyTag
  <1>3. CASE ReleaseOK(v)
    <2>1. tags'[v].state = "accepted" /\ \A u \in DOMAIN tags : tags'[u].commit = tags[u].commit
      BY <1>1, <1>3 DEF VerifyTag, ReleaseInv, ReleaseTypeOK, Tag
    <2>2. Accepted' = Accepted \cup {v}
      BY <1>1, <2>1
    <2>3. /\ \A u \in DOMAIN tags : FileOf(u)' = FileOf(u)
          /\ \A c : Anc(c)' = Anc(c)
          /\ commits' = commits /\ main' = main /\ published' = published
      BY <2>1 DEF FileOf, TreeOf, Anc, VerifyTag
    <2>4. \A u \in Accepted :
              /\ Higher(v, u)
              /\ HistoryKept(FileOf(u), FileOf(v))
              /\ RaisedForChange(FileOf(u), FileOf(v), u, v)
              /\ tags[u].commit \in Anc(tags[v].commit)
      BY <1>1, <1>3, ReleaseCarriesAll
    <2>5. Accepted \subseteq Version /\ v \in Version
      BY ReleaseAssumption DEF ReleaseInv, ReleaseTypeOK
    <2>6. AcceptedMoveForward' /\ ReleasesInHistory'
      <3> SUFFICES ASSUME NEW u \in Accepted', NEW w \in Accepted', Higher(w, u)
                   PROVE  /\ HistoryKept(FileOf(u), FileOf(w))
                          /\ RaisedForChange(FileOf(u), FileOf(w), u, w)
                          /\ tags[u].commit \in Anc(tags[w].commit)
        BY <2>1, <2>2, <2>3 DEF AcceptedMoveForward, ReleasesInHistory
      <3>1. CASE u \in Accepted /\ w \in Accepted
        BY <3>1 DEF ReleaseInv, AcceptedMoveForward, ReleasesInHistory
      <3>2. CASE u \in Accepted /\ w = v
        BY <2>4, <3>2
      <3>3. CASE u = v
        BY <2>2, <2>4, <2>5, <3>3, HigherTotal, HigherIrreflexive
      <3>4. QED
        BY <2>2, <3>1, <3>2, <3>3
    <2>7. OneUnaccepted'
      BY <1>1, <2>2 DEF ReleaseInv, OneUnaccepted
    <2>8. AcceptedOnMain'
      BY <1>3, <2>1, <2>2, <2>3 DEF ReleaseInv, AcceptedOnMain, ReleaseOK, Ready, Follows
    <2>9. HistoriesClosed'
      BY <2>3 DEF ReleaseInv, HistoriesClosed, Commits
    <2>10. PublishedAreAccepted'
      BY <2>2, <2>3 DEF ReleaseInv, PublishedAreAccepted
    <2>11. QED
      BY <2>6, <2>7, <2>8, <2>9, <2>10 DEF ReleaseInv
  <1>4. QED
    BY <1>2, <1>3

LEMMA PublishKeepsInv ==
    ASSUME ReleaseInv, ReleaseTypeOK', NEW v \in DOMAIN tags, Publish(v)
    PROVE  ReleaseInv'
  <1>1. /\ \A c : Anc(c)' = Anc(c)
        /\ \A u : FileOf(u)' = FileOf(u)
        /\ tags' = tags /\ commits' = commits /\ main' = main
    BY DEF Publish, Anc, FileOf, TreeOf
  <1>2. HistoriesClosed' /\ AcceptedOnMain' /\ OneUnaccepted'
    BY <1>1 DEF ReleaseInv, HistoriesClosed, AcceptedOnMain, OneUnaccepted, Commits
  <1>3. AcceptedMoveForward' /\ ReleasesInHistory'
    BY <1>1 DEF ReleaseInv, AcceptedMoveForward, ReleasesInHistory
  <1>4. PublishedAreAccepted'
    BY <1>1 DEF Publish, ReleaseInv, PublishedAreAccepted
  <1>5. QED
    BY <1>2, <1>3, <1>4 DEF ReleaseInv

\* A step that changes nothing keeps the invariant, and so does a check of a
\* change, which only records that it passed.
LEMMA IdleKeepsInv ==
    ASSUME ReleaseInv, ReleaseTypeOK', UNCHANGED <<commits, main, tags, published>>
    PROVE  ReleaseInv'
  BY DEF ReleaseInv, HistoriesClosed, AcceptedOnMain, OneUnaccepted,
         AcceptedMoveForward, ReleasesInHistory, PublishedAreAccepted,
         FileOf, TreeOf, Anc, Commits

LEMMA InitInv == Init => ReleaseInv
  <1> SUFFICES ASSUME Init PROVE ReleaseInv
    OBVIOUS
  <1>1. ReleaseTypeOK
    BY ReleaseAssumption DEF Init, ReleaseTypeOK, Commits, Commit
  <1>2. HistoriesClosed
    BY DEF Init, HistoriesClosed, Commits, Anc
  <1>3. QED
    BY <1>1, <1>2 DEF Init, ReleaseInv, AcceptedOnMain, OneUnaccepted,
       AcceptedMoveForward, ReleasesInHistory, PublishedAreAccepted

LEMMA InvStep ==
    ASSUME TidyTags = TRUE
    PROVE  ReleaseInv /\ [Next]_vars => ReleaseInv'
  <1> SUFFICES ASSUME ReleaseInv, [Next]_vars PROVE ReleaseInv'
    OBVIOUS
  <1>1. ReleaseTypeOK'
    BY TypeStep DEF ReleaseInv
  <1>2. ASSUME NEW c \in Commits, CheckChange(c) PROVE ReleaseInv'
    BY <1>1, <1>2, IdleKeepsInv DEF CheckChange
  <1>3. CASE UNCHANGED vars
    BY <1>1, <1>3, IdleKeepsInv DEF vars
  <1>4. QED
    BY <1>1, <1>2, <1>3, OpenKeepsInv, MergeKeepsInv, FastForwardKeepsInv,
       PushKeepsInv, DeleteKeepsInv, VerifyKeepsInv, PublishKeepsInv DEF Next

(***************************************************************************)
(* The state always has its type, tidy or not.                             *)
(***************************************************************************)
THEOREM ReleaseTypeCorrect == Spec => []ReleaseTypeOK
  <1>1. Init => ReleaseTypeOK
    BY InitInv DEF ReleaseInv
  <1>2. QED
    BY <1>1, TypeStep, PTL DEF Spec

(***************************************************************************)
(* With tidy tags the inductive invariant holds throughout.                *)
(***************************************************************************)
THEOREM ReleaseInvariant ==
    ASSUME TidyTags = TRUE PROVE Spec => []ReleaseInv
  <1>1. ReleaseInv /\ [Next]_vars => ReleaseInv'
    BY InvStep
  <1>2. QED
    BY <1>1, InitInv, PTL DEF Spec

(***************************************************************************)
(* Published keys only move forward, between every two published releases. *)
(***************************************************************************)
THEOREM PublishedForward ==
    ASSUME TidyTags = TRUE PROVE Spec => []PublishedKeysMoveForward
  <1>1. ReleaseInv => PublishedKeysMoveForward
    BY DEF ReleaseInv, PublishedAreAccepted, AcceptedMoveForward,
           PublishedKeysMoveForward
  <1>2. QED
    BY <1>1, ReleaseInvariant, PTL

(***************************************************************************)
(* Every accepted release has every lower accepted one in its history.     *)
(***************************************************************************)
THEOREM ReleaseHistory ==
    ASSUME TidyTags = TRUE PROVE Spec => []ReleasesInHistory
  <1>1. ReleaseInv => ReleasesInHistory
    BY DEF ReleaseInv
  <1>2. QED
    BY <1>1, ReleaseInvariant, PTL

(***************************************************************************)
(* A change merged while its check still holds keeps the history of every  *)
(* accepted release, though the check compared it with the newest only.    *)
(***************************************************************************)
\* What a fresh check says of the tree it read, about every accepted release.
LEMMA PendingCarriesAll ==
    ASSUME ReleaseInv, Accepted = DOMAIN tags, NEW h \in Commits, ChangeOK(h)
    PROVE  CarriesAccepted(Merged(main, h))
  <1> DEFINE tree == Merged(main, h)
  <1> SUFFICES ASSUME NEW u \in Accepted
               PROVE  /\ HistoryKept(FileOf(u), tree.file)
                      /\ (\A v \in Accepted : Higher(tree.version, v)) =>
                             RaisedForChange(FileOf(u), tree.file, u, tree.version)
    BY DEF CarriesAccepted
  <1>1. TagsOn(Anc(main) \cup Anc(h)) = Accepted
    BY DEF ReleaseInv, AcceptedOnMain, TagsOn
  <1>2. PICK p \in Accepted :
            Newest(p, Accepted) /\ KeysOK(FileOf(p), tree.file, p, tree.version)
    BY <1>1 DEF ChangeOK, PendingKeysOK
  <1>3. /\ HistoryKept(FileOf(p), tree.file)
        /\ RaisedForChange(FileOf(p), tree.file, p, tree.version)
    BY <1>2 DEF KeysOK
  <1>4. CASE u = p
    BY <1>3, <1>4
  <1>5. CASE u # p
    <2>1. Higher(p, u)
      BY <1>2, <1>5 DEF Newest
    <2>2. /\ HistoryKept(FileOf(u), FileOf(p))
          /\ RaisedForChange(FileOf(u), FileOf(p), u, p)
      BY <2>1 DEF ReleaseInv, AcceptedMoveForward
    <2>3. HistoryKept(FileOf(u), tree.file)
      BY <1>3, <2>2, HistoryComposes
    <2>4. u \in Version /\ p \in Version /\ tree.version \in Version
      <3>1. main \in Commits /\ ReleaseTypeOK
        BY DEF ReleaseInv, ReleaseTypeOK
      <3>2. tree \in Tree
        BY <3>1, MergedType
      <3>3. QED
        BY <3>1, <3>2, ReleaseAssumption DEF ReleaseTypeOK, Tree
    <2>5. Higher(tree.version, p) => RaisedForChange(FileOf(u), tree.file, u, tree.version)
      BY <1>3, <2>1, <2>2, <2>4, RaiseComposes
    <2>6. QED
      BY <1>2, <2>3, <2>5
  <1>6. QED
    BY <1>4, <1>5

\* A fast-forward brings the very tree its check read.
LEMMA MergedAbove ==
    ASSUME ReleaseInv, NEW h \in Commits, main \in Anc(h)
    PROVE  Merged(main, h) = TreeOf(h)
  <1>1. main \in Commits /\ ReleaseTypeOK
    BY DEF ReleaseInv, ReleaseTypeOK
  <1>2. /\ Anc(main) \cap Anc(h) = Anc(main) /\ main \in Anc(main)
        /\ Anc(main) \subseteq 1 .. main /\ main \in Nat
    BY <1>1 DEF ReleaseInv, HistoriesClosed, Commits
  <1>3. MergeBase(main, h) = main
    BY <1>2 DEF MergeBase
  <1>4. TreeOf(h) \in Tree
    BY <1>1, AncType
  <1> DEFINE x == TreeOf(main)
             y == TreeOf(h)
  <1>5. \A p, q : Pick3(p, p, q) = q
    BY DEF Pick3
  <1>6. [id \in KeyIds |-> y.file.keys[id]] = y.file.keys
    BY <1>4 DEF Tree, TrustFile
  <1>7. Merged(main, h) =
            [version |-> y.version, dated |-> y.dated, reader |-> y.reader,
             file |-> [form |-> y.file.form,
                       keys |-> [id \in KeyIds |-> y.file.keys[id]]]]
    BY <1>3, <1>5 DEF Merged
  <1>8. [form |-> y.file.form, keys |-> y.file.keys] = y.file
    BY <1>4 DEF Tree, TrustFile
  <1>9. [version |-> y.version, dated |-> y.dated, reader |-> y.reader,
         file |-> y.file] = y
    BY <1>4 DEF Tree
  <1>10. QED
    BY <1>6, <1>7, <1>8, <1>9

(***************************************************************************)
(* Merging a change whose check still holds is safe for the key history.   *)
(***************************************************************************)
THEOREM FreshMergesKeepHistory ==
    ASSUME TidyTags = TRUE PROVE Spec => FreshMergeKeepsHistory
  <1>1. ASSUME ReleaseInv, NEW h \in Commits, FreshMerge(h)
        PROVE  CarriesAccepted(commits'[main'].tree)
    <2>1. CarriesAccepted(Merged(main, h))
      BY <1>1, PendingCarriesAll DEF FreshMerge
    <2>2. CASE FastForward(h)
      BY <1>1, <2>1, <2>2, MergedAbove DEF FastForward, TreeOf
    <2>3. ASSUME NEW squash \in BOOLEAN, MergeChange(h, squash)
          PROVE  commits'[main'].tree = Merged(main, h)
      BY <1>1, <2>3 DEF MergeChange, ReleaseInv, ReleaseTypeOK
    <2>4. QED
      BY <1>1, <2>1, <2>2, <2>3 DEF FreshMerge
  <1>2. ReleaseInv => [\A h \in Commits : FreshMerge(h) =>
                           CarriesAccepted(commits'[main'].tree)]_vars
    BY <1>1
  <1>3. QED
    BY <1>2, ReleaseInvariant, PTL DEF FreshMergeKeepsHistory

(***************************************************************************)
(* The process implements the chain the release rules promise.             *)
(***************************************************************************)
Chain == [v \in Accepted |-> commits[tags[v].commit].tree.file]

\* The chain's rules, read through the instance, are the process's own.
LEMMA SameRules ==
    /\ TC!TrustFile = TrustFile
    /\ \A v, w : TC!Higher(v, w) <=> Higher(v, w)
    /\ \A v, S : TC!Newest(v, S) <=> Newest(v, S)
    /\ \A f, g, v, w : TC!KeysOK(f, g, v, w) <=> KeysOK(f, g, v, w)
  <1>1. TC!TrustFile = TrustFile
    BY DEF TC!TrustFile, TrustFile, TC!BundleKey, BundleKey, TC!Status, Status
  <1>2. \A v, w : TC!Higher(v, w) <=> Higher(v, w)
    BY DEF TC!Higher, Higher
  <1>3. \A v, S : TC!Newest(v, S) <=> Newest(v, S)
    BY <1>2 DEF TC!Newest, Newest
  <1>4. \A f : TC!Parses(f) <=> Parses(f)
    BY DEF TC!Parses, Parses, TC!Listed, Listed, TC!StatusDates, StatusDates
  <1>5. \A f, g : TC!HistoryKept(f, g) <=> HistoryKept(f, g)
    BY DEF TC!HistoryKept, HistoryKept, TC!Listed, Listed,
           TC!KeyMovedForward, KeyMovedForward, TC!WrittenOnce, WrittenOnce,
           TC!Forward, Forward
  <1>6. \A f, g, v, w : TC!RaisedForChange(f, g, v, w) <=> RaisedForChange(f, g, v, w)
    BY DEF TC!RaisedForChange, RaisedForChange
  <1>7. QED
    BY <1>1, <1>2, <1>3, <1>4, <1>5, <1>6 DEF TC!KeysOK, KeysOK

\* Steps other than an accepting one leave the chain as it is.
LEMMA ChainStutters ==
    ASSUME ReleaseInv, Accepted' = Accepted,
           \A v \in Accepted : tags'[v] = tags[v],
           \A c \in Commits : commits'[c] = commits[c]
    PROVE  Chain' = Chain
  <1>1. \A v \in Accepted : tags[v].commit \in Commits
    BY DEF ReleaseInv, ReleaseTypeOK
  <1>2. QED
    BY <1>1 DEF Chain

\* Appending a commit leaves the earlier ones as they are, whatever it is.
LEMMA AppendKeeps ==
    ASSUME ReleaseTypeOK, NEW e, commits' = Append(commits, e)
    PROVE  \A c \in Commits : commits'[c] = commits[c]
  BY DEF ReleaseTypeOK, Commits

\* An accepting step is a step of the chain.
LEMMA AcceptingStep ==
    ASSUME ReleaseInv, NEW v \in DOMAIN tags, VerifyTag(v), ReleaseOK(v)
    PROVE  TC!Next
  <1>1. /\ v \notin Accepted
        /\ DOMAIN tags' = DOMAIN tags
        /\ \A u \in DOMAIN tags : u # v => tags'[u] = tags[u]
        /\ tags'[v].state = "accepted" /\ tags'[v].commit = tags[v].commit
        /\ commits' = commits
    BY DEF VerifyTag, ReleaseInv, ReleaseTypeOK, Tag
  <1>2. Accepted' = Accepted \cup {v}
    BY <1>1
  <1>3. /\ \A u \in Accepted : Chain[u] = FileOf(u)
        /\ DOMAIN Chain = Accepted
    BY DEF Chain, FileOf, TreeOf
  <1>4. Chain' = [u \in DOMAIN Chain \cup {v} |->
                      IF u = v THEN FileOf(v) ELSE Chain[u]]
    <2>1. Chain' = [u \in Accepted \cup {v} |-> commits[tags'[u].commit].tree.file]
      BY <1>1, <1>2 DEF Chain
    <2>2. \A u \in Accepted \cup {v} :
              commits[tags'[u].commit].tree.file
                  = IF u = v THEN FileOf(v) ELSE Chain[u]
      BY <1>1, <1>3 DEF FileOf, TreeOf
    <2>3. QED
      BY <1>3, <2>1, <2>2
  <1>5. FileOf(v) \in TrustFile /\ v \in Versions
    <2>1. tags[v].commit \in Commits /\ v \in Versions /\ ReleaseTypeOK
      BY DEF ReleaseInv, ReleaseTypeOK
    <2>2. TreeOf(tags[v].commit) \in Tree
      BY <2>1, AncType
    <2>3. QED
      BY <2>1, <2>2 DEF FileOf, Tree
  <1>6. \A u \in DOMAIN Chain : Higher(v, u)
    BY <1>1, <1>3, ReleaseCarriesAll
  <1>7. \/ DOMAIN Chain = {}
        \/ \E p \in DOMAIN Chain :
               Newest(p, DOMAIN Chain) /\ KeysOK(Chain[p], FileOf(v), p, v)
    <2>1. TagsOn(Anc(main)) \ {v} = Accepted
      BY <1>1 DEF ReleaseInv, AcceptedOnMain, OneUnaccepted, TagsOn
    <2>2. \/ Accepted = {}
          \/ \E p \in Accepted : Newest(p, Accepted) /\ KeysOK(FileOf(p), FileOf(v), p, v)
      BY <2>1 DEF ReleaseOK, Ready, Follows
    <2>3. QED
      BY <1>3, <2>2
  <1>8. /\ v \notin DOMAIN Chain /\ v \in DOMAIN Chain'
        /\ Chain'[v] = FileOf(v)
    BY <1>1, <1>3, <1>4
  <1>9. TC!Accept(v, Chain'[v])
    BY <1>4, <1>6, <1>7, <1>8, SameRules DEF TC!Accept, Chain
  <1>10. QED
    BY <1>5, <1>8, <1>9, SameRules DEF TC!Next, Chain

\* The refinement's step, action by action.
LEMMA ChainStep ==
    ASSUME TidyTags = TRUE, ReleaseInv, [Next]_vars
    PROVE  TC!Next \/ Chain' = Chain
  <1>1. ReleaseTypeOK
    BY DEF ReleaseInv
  <1>2. ASSUME NEW parent \in Commits, NEW withMain \in BOOLEAN,
               NEW tree \in Trees, OpenChange(parent, withMain, tree)
        PROVE  Chain' = Chain
    BY <1>1, <1>2, AppendKeeps, ChainStutters DEF OpenChange
  <1>3. ASSUME NEW h \in Commits, CheckChange(h) \/ FastForward(h)
        PROVE  Chain' = Chain
    BY <1>3 DEF CheckChange, FastForward, Chain
  <1>4. ASSUME NEW h \in Commits, NEW squash \in BOOLEAN, MergeChange(h, squash)
        PROVE  Chain' = Chain
    BY <1>1, <1>4, AppendKeeps, ChainStutters DEF MergeChange
  <1>5. ASSUME NEW v \in Versions, NEW c \in Commits, PushTag(v, c)
        PROVE  Chain' = Chain
    <2>1. /\ Accepted = DOMAIN tags /\ v \notin DOMAIN tags
          /\ DOMAIN tags' = DOMAIN tags \cup {v}
          /\ tags'[v].state = "pushed" /\ commits' = commits
          /\ \A u \in DOMAIN tags : tags'[u] = tags[u]
      BY <1>5 DEF PushTag
    <2>2. QED
      BY <2>1, ChainStutters
  <1>6. ASSUME NEW v \in DOMAIN tags, VerifyTag(v)
        PROVE  TC!Next \/ Chain' = Chain
    <2>1. CASE ReleaseOK(v)
      BY <1>6, <2>1, AcceptingStep
    <2>2. CASE ~ReleaseOK(v)
      <3>1. /\ v \notin Accepted /\ DOMAIN tags' = DOMAIN tags
            /\ tags'[v].state = "refused" /\ commits' = commits
            /\ \A u \in DOMAIN tags : u # v => tags'[u] = tags[u]
        BY <1>1, <1>6, <2>2 DEF VerifyTag, ReleaseTypeOK, Tag
      <3>2. Accepted' = Accepted
        BY <3>1
      <3>3. QED
        BY <3>1, <3>2, ChainStutters
    <2>3. QED
      BY <2>1, <2>2
  <1>7. ASSUME NEW v \in DOMAIN tags, DeleteTag(v) PROVE Chain' = Chain
    <2>1. /\ v \notin Accepted /\ DOMAIN tags' = DOMAIN tags \ {v}
          /\ commits' = commits
          /\ \A u \in DOMAIN tags \ {v} : tags'[u] = tags[u]
      BY <1>7 DEF DeleteTag
    <2>2. QED
      BY <2>1, ChainStutters
  <1>8. ASSUME NEW v \in DOMAIN tags, Publish(v) PROVE Chain' = Chain
    BY <1>8 DEF Publish, Chain
  <1>9. CASE UNCHANGED vars
    BY <1>9 DEF vars, Chain
  <1>10. QED
    BY <1>2, <1>3, <1>4, <1>5, <1>6, <1>7, <1>8, <1>9 DEF Next

THEOREM ProcessImplementsChain ==
    ASSUME TidyTags = TRUE PROVE Spec => ImplementsTrustChain
  <1>1. Init => TC!Init
    BY DEF Init, TC!Init
  <1>2. ReleaseInv /\ [Next]_vars => [TC!Next]_Chain
    BY ChainStep
  <1>3. QED
    BY <1>1, <1>2, ReleaseInvariant, PTL DEF Spec, ImplementsTrustChain, TC!Spec, Chain
=============================================================================
