----------------------------- MODULE MCRelease -----------------------------
(***************************************************************************)
(* A small instance of ReleaseProcess: one or two keys, four versions in   *)
(* three series, and the working trees in which the trust file stays,      *)
(* moves forward, moves back, loses a key or only changes its layout.      *)
(***************************************************************************)
EXTENDS ReleaseProcess

V(series, patch) == [series |-> series, patch |-> patch]

Active(public, from) ==
    [public_key |-> public, status |-> "active", valid_from |-> from,
     retired_at |-> None, revoked_at |-> None, revocation_reason |-> None]
Retired(public, from, at) ==
    [Active(public, from) EXCEPT !.status = "retired", !.retired_at = at]
Revoked(key, at, reason) ==
    [key EXCEPT !.status = "revoked", !.revoked_at = at,
                !.revocation_reason = reason]

OneKeyId == {"k1"}
File(key) == [keys |-> [id \in KeyIds |-> key], form |-> "plain"]
TreeWith(version, file) ==
    [version |-> version, dated |-> TRUE, file |-> file, reader |-> 0]

a == File(Active("p1", 1))
r == File(Retired("p1", 1, 1))
x == File(Revoked(Active("p1", 1), 1, "lost"))
gone == File(None)
laidOut == [a EXCEPT !.form = "wide"]

MCVersions == {V(1, 0), V(1, 1), V(2, 0), V(3, 0)}
MCFirstTree == TreeWith(V(1, 0), a)
MCTrees ==
    {TreeWith(V(1, 1), laidOut), TreeWith(V(2, 0), r), TreeWith(V(3, 0), a),
     [TreeWith(V(2, 0), gone) EXCEPT !.dated = FALSE],
     TreeWith(V(3, 0), gone)}

\* Changes that drop the key, for the run with tags left in place.
MCDroppingTrees == {TreeWith(V(2, 0), gone), TreeWith(V(3, 0), gone)}
MCSeriesVersions == {V(1, 0), V(2, 0), V(3, 0)}

MCLateVersions == {V(2, 0), V(3, 0)}

\* Changes that can meet in a clean merge, and changes in two series, for
\* the run with stale checks and about the order of the releases.
MCLongTrees ==
    {TreeWith(V(3, 0), laidOut), TreeWith(V(3, 0), r), TreeWith(V(2, 0), r)}
=============================================================================
