--------------------------- MODULE KeyFileProofs ---------------------------
(***************************************************************************)
(* Lemmas about the key history and about versions, for every value of the *)
(* constants: the history rule composes, so keeping it between neighbours  *)
(* keeps it between any two releases.                                      *)
(***************************************************************************)
EXTENDS KeyFile, TLAPS

\* A key that moves forward twice has moved forward.
LEMMA KeyForwardComposes ==
    ASSUME NEW a, NEW b, NEW c, KeyMovedForward(a, b), KeyMovedForward(b, c)
    PROVE  KeyMovedForward(a, c)
  <1>1. a.status # c.status => <<a.status, c.status>> \in Forward
    BY DEF KeyMovedForward, Forward
  <1>2. /\ WrittenOnce(a.retired_at, c.retired_at)
        /\ WrittenOnce(a.revoked_at, c.revoked_at)
        /\ WrittenOnce(a.revocation_reason, c.revocation_reason)
    BY DEF KeyMovedForward, WrittenOnce
  <1>3. QED
    BY <1>1, <1>2 DEF KeyMovedForward

\* The same file keeps its own history.
LEMMA HistoryOfItself ==
    ASSUME NEW file PROVE HistoryKept(file, file)
  BY DEF HistoryKept, Listed, KeyMovedForward, WrittenOnce

\* Keeping the history composes, for every key of the first file.
LEMMA HistoryComposes ==
    ASSUME NEW f, NEW g, NEW h, HistoryKept(f, g), HistoryKept(g, h)
    PROVE  HistoryKept(f, h)
  <1> SUFFICES ASSUME NEW id \in Listed(f)
               PROVE  h.keys[id] # None /\ KeyMovedForward(f.keys[id], h.keys[id])
    BY DEF HistoryKept
  <1>1. g.keys[id] # None /\ KeyMovedForward(f.keys[id], g.keys[id])
    BY DEF HistoryKept
  <1>2. h.keys[id] # None /\ KeyMovedForward(g.keys[id], h.keys[id])
    BY <1>1 DEF HistoryKept, Listed
  <1>3. QED
    BY <1>1, <1>2, KeyForwardComposes

\* Versions are ordered: higher is transitive, and of two, one is higher.
LEMMA HigherComposes ==
    ASSUME NEW u \in Version, NEW v \in Version, NEW w \in Version,
           Higher(w, v), Higher(v, u)
    PROVE  Higher(w, u)
  BY DEF Version, Higher

LEMMA HigherTotal ==
    ASSUME NEW u \in Version, NEW v \in Version, u # v
    PROVE  (Higher(u, v) \/ Higher(v, u)) /\ ~(Higher(u, v) /\ Higher(v, u))
  BY DEF Version, Higher

LEMMA HigherIrreflexive ==
    ASSUME NEW u \in Version PROVE ~Higher(u, u)
  BY DEF Version, Higher

\* The raise of the series composes over three files in version order.
LEMMA RaiseComposes ==
    ASSUME NEW f, NEW g, NEW h,
           NEW u \in Version, NEW v \in Version, NEW w \in Version,
           Higher(v, u), Higher(w, v),
           RaisedForChange(f, g, u, v), RaisedForChange(g, h, v, w)
    PROVE  RaisedForChange(f, h, u, w)
  BY DEF RaisedForChange, Higher, Version
=============================================================================
