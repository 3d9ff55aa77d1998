------------------------------ MODULE MCBundle ------------------------------
(***************************************************************************)
(* Small instances of TrustChain, of Bundle over it, and of                *)
(* AssuranceEvent, side by side.                                           *)
(* While nothing was signed, every file of one key, in two layouts and     *)
(* with two dates, may be offered to each version in any order. Signers    *)
(* and the server act over chains of the two-key files below, and of       *)
(* three versions. A run has up to two stages of one event each, or one    *)
(* stage that claims anything.                                             *)
(***************************************************************************)
EXTENDS Bundle, AssuranceEvent

V(series, patch) == [series |-> series, patch |-> patch]
MCVersions == {V(1, 0), V(1, 1), V(2, 0), V(2, 1)}

Key(publicKey, status, retired, revoked) ==
    [public_key |-> publicKey, status |-> status, valid_from |-> 1,
     retired_at |-> retired, revoked_at |-> revoked,
     revocation_reason |-> IF revoked = None THEN None ELSE "lost"]

Active(publicKey)  == Key(publicKey, "active", None, None)
Retired(publicKey) == Key(publicKey, "retired", 1, None)
Revoked(publicKey) == Key(publicKey, "revoked", None, 1)

TwoKeyFiles ==
    {[keys |-> [id \in KeyIds |-> IF id = "k1" THEN first ELSE second],
      form |-> "plain"] :
        first \in {Active("p1"), Retired("p1"), Revoked("p1"), Active("p2")},
        second \in {None, Active("p2")}}

OneKeyFiles ==
    {[keys |-> [id \in KeyIds |-> IF id = "k1" THEN key ELSE None],
      form |-> form] :
        key \in {k \in BundleKey : k.public_key = "p1"} \cup {None},
        form \in Forms}

OldPackage == [compiler |-> 1, capabilities |-> "a1"]

SignVersions == {V(1, 0), V(2, 0), V(2, 1)}

\* The chain is one that signers and the server act over.
TwoKeyChain ==
    \A v \in DOMAIN chain : v \in SignVersions /\ chain[v] \in TwoKeyFiles

\* One or both assertions, each written plainly; one may say something else.
SignedSources ==
    {[id \in {"A"} |-> source] : source \in {s \in Source : s.text = "plain"}}
    \cup {[id \in Ids |-> [body |-> 1, text |-> "plain"]]}

MCBundleNext ==
    \/ /\ stored = {}
       /\ \E v \in Versions, file \in OneKeyFiles :
              Release(v, file, OldPackage)
    \/ /\ TwoKeyChain /\ answer = None
       /\ \/ \E v \in SignVersions, file \in TwoKeyFiles,
                pack \in Package : Release(v, file, pack)
          \/ \E v \in DOMAIN chain, keyId \in KeyIds,
                sources \in SignedSources, minimum \in Minimums :
                 Sign(v, keyId, sources, minimum)
    \/ answer = None /\ Answer

Claims ==
    [at \in {<<p.activity, p.stage>> : p \in Profiles} |->
        EventClaims(at[1], at[2])]

MCRunNext ==
    \E stage \in RunStages :
        \/ Cardinality(DOMAIN stages) < 2 /\ honest /\ ReportStage(stage)
        \/ /\ stages = << >>
           /\ run.environment # "none" \/ run.activity = "image_build"
           /\ <<run.activity, stage>> \in DOMAIN Claims
           /\ ClaimStage(stage, Claims[<<run.activity, stage>>])

\* The run beside which nothing but bundles happens.
OtherRun == [opened |-> "local", activity |-> "image_build",
             environment |-> "none"]

MCInit == BundleInit /\ RunInit

MCNext ==
    \/ run = OtherRun /\ stages = << >> /\ MCBundleNext /\ UNCHANGED runVars
    \/ chain = << >> /\ MCRunNext /\ UNCHANGED <<chain, bundleVars>>

MCSpec == MCInit /\ [][MCNext]_<<chain, bundleVars, runVars>>
=============================================================================
