--------------------------- MODULE IacIdentities ---------------------------
(***************************************************************************)
(* The identities of a unit's resources after an apply                     *)
(* (models/iac/resource_identities.py), beside the deployment they were    *)
(* read after (IacChange._check_identity in change_types/iac/change.py).   *)
(*                                                                         *)
(* An address is tied to the cloud resource it created when a resolver     *)
(* supports its type, and listed as unresolved otherwise.  What left the   *)
(* state is listed apart, with how it left.  The writer of identities need *)
(* not be the writer of the deployment, nor be right: the reader compares  *)
(* the two.                                                                *)
(*                                                                         *)
(* A cloud resource is a model value; the naming rule of each type, the    *)
(* resolvers' versions and the reason a resource is unresolved are left    *)
(* out.                                                                    *)
(***************************************************************************)
EXTENDS ApplyRun

CONSTANTS
    Clouds,    \* the cloud resources an identity may name
    Supported  \* those of a type a resolver supports

Removals == {"deleted", "forgotten"}

\* What left the state, by a resolver's answer, and without one.
RemovedParts    == [cloud : Clouds, removal : Removals]
RemovedLists    == UNION {[A -> RemovedParts] : A \in SUBSET Addresses}
UnresolvedLists == UNION {[A -> Removals] : A \in SUBSET Addresses}

\* An absent part is none of the parts; and an address has a cloud resource
\* of its own.
ASSUME AbsentIsNoPart ==
    None \notin Nat /\ None \notin {"applied", "another"}
    /\ None \notin RemovedLists /\ None \notin UnresolvedLists

ASSUME CloudsSuffice ==
    \E f \in [Addresses -> Clouds] :
        \A x, y \in Addresses : f[x] = f[y] => x = y

VARIABLE identity  \* the identities read beside the document, if any

ivars == <<vars, identity>>

\* An identity record has where it was read from, whether from the state the
\* deployment names and from which plan, and ties addresses to cloud
\* resources.  The parts on what left are None when no plan was read.

RemovedResolved(i) == IF i.removed = None THEN {} ELSE DOMAIN i.removed
RemovedUnresolved(i) == IF i.removedUnresolved = None THEN {} ELSE DOMAIN i.removedUnresolved

OneListEach(resolved, unresolved) == resolved \cap unresolved = {}

OneEntryPerCloudIdentity(cloudOf) ==
    \A a, b \in DOMAIN cloudOf : cloudOf[a] = cloudOf[b] => a = b

\* Mutant: what was destroyed and made again under its name is refused.
HoldsTogetherAcross(i) ==
    /\ OneListEach(DOMAIN i.resolved, i.unresolved)
    /\ OneListEach({i.resolved[a] : a \in DOMAIN i.resolved},
                   {i.removed[a].cloud : a \in RemovedResolved(i)})

HoldsTogether(i) ==
    /\ i.readFrom = "refresh_plan" => i.plan = None
    /\ OneListEach(DOMAIN i.resolved, i.unresolved)
    /\ OneEntryPerCloudIdentity(i.resolved)
    /\ i.removed # None <=> i.plan # None
    /\ i.removedUnresolved # None <=> i.plan # None
    /\ i.deposedDeleted # None <=> i.plan # None
    /\ OneListEach(RemovedResolved(i), RemovedUnresolved(i))
    /\ OneEntryPerCloudIdentity([a \in RemovedResolved(i) |-> i.removed[a].cloud])
    /\ \A a \in DOMAIN i.resolved : i.resolved[a] \in Supported
    /\ \A a \in RemovedResolved(i) : i.removed[a].cloud \in Supported

\* left_the_state of the identities, and of the deployment's changes.
ListedAsLeft(i) ==
    {<<a, i.removed[a].removal>> : a \in RemovedResolved(i)}
    \cup {<<a, i.removedUnresolved[a]>> : a \in RemovedUnresolved(i)}

LeftIn(apply) ==
    {<<a, Removal(apply.changes[a])>> :
       a \in {x \in DOMAIN apply.changes : LeftTheState(apply.changes[x])}}

\* Mutant: the identities' list is only looked up among what left.
CheckListed(i, apply) ==
    /\ apply.read
    /\ i.readFrom = "state_file"
    /\ i.plan = "applied"
    /\ i.ofState
    /\ ListedAsLeft(i) \subseteq LeftIn(apply)
    /\ i.deposedDeleted = Cardinality(DeposedIn(apply, {"applied"}))

CheckIdentity(i, apply) ==
    /\ apply.read
    /\ i.readFrom = "state_file"
    /\ i.plan = "applied"
    /\ i.ofState
    /\ ListedAsLeft(i) = LeftIn(apply)
    /\ i.deposedDeleted = Cardinality(DeposedIn(apply, {"applied"}))

-----------------------------------------------------------------------------
(* The cloud resource of each address's object, before and after: a        *)
(* replacement made under its old name is the same cloud resource.         *)

CloudOf == CHOOSE f \in [Addresses -> Clouds] : \A x, y \in Addresses : f[x] = f[y] => x = y

InState(a) ==
    \/ StateHoldsNew(a)
    \/ StateHoldsOld(a)

TrueIdentity ==
    LET held == {a \in DOMAIN plan.changes : InState(a)}
        gone == {a \in DOMAIN plan.changes : Had(a) /\ ~StateHoldsOld(a)}
        removal(a) == IF CloudHoldsOld(a) THEN "forgotten" ELSE "deleted"
        known(S) == {a \in S : CloudOf[a] \in Supported}
    IN  [readFrom |-> "state_file", plan |-> "applied", ofState |-> TRUE,
         resolved |-> [a \in known(held) |-> CloudOf[a]],
         unresolved |-> held \ known(held),
         removed |-> [a \in known(gone) |-> [cloud |-> CloudOf[a], removal |-> removal(a)]],
         removedUnresolved |-> [a \in gone \ known(gone) |-> removal(a)],
         deposedDeleted |-> Cardinality({d \in plan.deposed : fate[d] = "done"})]

\* Any identities that say something else of what left the state.
Alleged ==
    {[TrueIdentity EXCEPT !.readFrom = from, !.plan = p, !.ofState = of,
                          !.removed = removed,
                          !.removedUnresolved = unresolved,
                          !.deposedDeleted = n] :
       from \in {"state_file", "refresh_plan"}, p \in {"applied", "another", None},
       of \in BOOLEAN,
       removed \in UNION {[A -> RemovedParts] :
                            A \in SUBSET DOMAIN plan.changes} \cup {None},
       unresolved \in UNION {[A -> Removals] : A \in SUBSET DOMAIN plan.changes}
                      \cup {None},
       n \in (0 .. Cardinality(plan.deposed)) \cup {None}}

IdentInit == RunInit /\ identity = None

ReadIdentity(i) ==
    /\ Written
    /\ identity = None
    /\ HoldsTogether(i)
    /\ CheckIdentity(i, document)
    /\ identity' = i
    /\ UNCHANGED vars

IdentNext ==
    \/ RunNext /\ UNCHANGED identity
    \/ Written /\ identity = None /\ \E i \in Alleged : ReadIdentity(i)

IdentSpec == IdentInit /\ [][IdentNext]_ivars

-----------------------------------------------------------------------------
(* Properties.                                                             *)

\* A true deployment says exactly what left the state and how, and beside it
\* no identities can hide or invent any of it: each object that left is
\* listed once, nothing else is, and as many deposed objects as are gone.
RemovedIsTrue ==
    LeftIsTrue /\ (identity # None =>
        /\ ListedAsLeft(identity) =
              {<<a, IF CloudHoldsOld(a) THEN "forgotten" ELSE "deleted">> :
                 a \in {x \in DOMAIN plan.changes : Had(x) /\ ~StateHoldsOld(x)}}
        /\ RemovedResolved(identity) \cap RemovedUnresolved(identity) = {}
        /\ identity.deposedDeleted =
              Cardinality({d \in plan.deposed : fate[d] = "done"}))

\* The true identities are always read beside the true deployment, whether
\* it failed half way or a replacement's old object went before its new one
\* came.
TrueIdentityFits ==
    Written /\ document.read =>
        HoldsTogether(TrueIdentity) /\ CheckIdentity(TrueIdentity, document)
=============================================================================
