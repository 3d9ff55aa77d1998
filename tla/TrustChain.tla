----------------------------- MODULE TrustChain -----------------------------
(***************************************************************************)
(* What the release rules promise (scripts/check_release.py, lines 3-13):  *)
(* the accepted releases form one chain, each higher than every earlier    *)
(* one, whose trusted keys keep the history of the newest earlier one.     *)
(* `chain` gives each accepted version its trust file.                     *)
(***************************************************************************)
EXTENDS KeyFile

CONSTANT Versions  \* the versions a release may have

ASSUME ChainAssumption == Versions \subseteq Version

VARIABLE chain

Init == chain = << >>

Accept(v, file) ==
    /\ \A u \in DOMAIN chain : Higher(v, u)
    /\ \/ DOMAIN chain = {}
       \/ \E p \in DOMAIN chain :
              /\ Newest(p, DOMAIN chain)
              /\ KeysOK(chain[p], file, p, v)
    /\ chain' = [u \in DOMAIN chain \cup {v} |->
                    IF u = v THEN file ELSE chain[u]]

\* The file is read off the next state, so that TLC can check a step of a
\* process against this specification without trying every file.
Next ==
    \E v \in Versions :
        /\ v \notin DOMAIN chain /\ v \in DOMAIN chain'
        /\ chain'[v] \in TrustFile
        /\ Accept(v, chain'[v])

Spec == Init /\ [][Next]_chain

ChainTypeOK ==
    /\ DOMAIN chain \subseteq Versions
    /\ \A v \in DOMAIN chain : chain[v] \in TrustFile

(***************************************************************************)
(* Every two releases, not only neighbours: a later one removes no key an  *)
(* earlier one lists, moves its status only forward and never changes what *)
(* was written about it; and within one major.minor series the file's      *)
(* bytes are the same, so a tool pinned to a series has one set of keys.   *)
(***************************************************************************)
ChainMovesForward ==
    \A u, v \in DOMAIN chain : Higher(v, u) =>
        /\ HistoryKept(chain[u], chain[v])
        /\ RaisedForChange(chain[u], chain[v], u, v)
=============================================================================
