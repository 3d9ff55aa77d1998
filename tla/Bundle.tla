------------------------------- MODULE Bundle -------------------------------
(***************************************************************************)
(* Signed assertion bundles: building and signing one (bundle/build.py),   *)
(* the descriptor it is served as (models/bundle.py) and the check a tool  *)
(* makes before it evaluates one (bundle/check.py).                        *)
(*                                                                         *)
(* Signers and tools each hold one release of the package: the keys it     *)
(* trusts (TrustChain) and the compiler it builds with. None of them has   *)
(* to hold the newest one, so a bundle signed under one release is checked *)
(* under others, earlier and later. Between them a server keeps what was   *)
(* signed and may mix up the parts of two answers.                         *)
(*                                                                         *)
(* A digest stands for what it is taken over: two contents have one digest *)
(* only when they are equal. A source is what it says (`body`) and how it  *)
(* is written (`text`: comments, spacing), which no digest covers.         *)
(***************************************************************************)
EXTENDS TrustChain, FiniteSets

CONSTANTS
    Ids,        \* assertion ids
    Bodies,     \* what a document may say under one id
    Texts,      \* how a document may be written
    Minimums,   \* oldest tool versions a bundle may ask for
    Compilers,  \* compiler versions
    Allowlists, \* allowlists of evaluator functions
    MaxSigned   \* bound: descriptors the server keeps

ASSUME BundleAssumption ==
    /\ None \notin Ids
    /\ Ids \cap {".manifest", ".signatures.json"} = {}
    /\ MaxSigned \in Nat

VARIABLES
    package,  \* for each release, the compiler and allowlist it ships
    stored,   \* the descriptors the server keeps, as they were signed
    answer    \* what the server answered last, or None

bundleVars == <<package, stored, answer>>

Package == [compiler : Compilers, capabilities : Allowlists]

(***************************************************************************)
(* A bundle's files. A descriptor lists each id once and in order, so its  *)
(* sources are a function of the id.                                       *)
(***************************************************************************)
Source == [body : Bodies, text : Texts]

\* What a signer may be asked to sign: at least one assertion.
Documents == UNION {[ids -> Source] : ids \in (SUBSET Ids) \ {{}}}

\* What compile() makes of a source: the same module for the same document.
Compile(pack, id, source) ==
    [id |-> id, body |-> source.body, compiler |-> pack.compiler]

\* An assertion's document digest, source digest and compiled digest.
RecordOf(pack, id, source) ==
    [digest |-> source.body, source_digest |-> source.body,
     compiled_digest |-> Compile(pack, id, source)]

Records(pack, sources) ==
    [id \in DOMAIN sources |-> RecordOf(pack, id, sources[id])]

\* Every assertion by its document, the set a run owes.
DocumentsOf(records) == [id \in DOMAIN records |-> records[id].digest]

MetadataWithoutMinimum(pack, sources, minimum) ==  \* mutant: not signed
    [compiler |-> pack.compiler, capabilities |-> pack.capabilities,
     assertions |-> Records(pack, sources)]

Metadata(pack, sources, minimum) ==
    [compiler |-> pack.compiler, capabilities |-> pack.capabilities,
     minimum |-> minimum,
     assertion_set |-> DocumentsOf(Records(pack, sources)),
     assertions |-> Records(pack, sources)]

UnsignedFiles(pack, sources, minimum) ==
    [name \in DOMAIN sources \cup {".manifest"} |->
        IF name = ".manifest" THEN Metadata(pack, sources, minimum)
        ELSE Compile(pack, name, sources[name])]

(***************************************************************************)
(* Signing. An ES256 signature (r, s) stays valid with s replaced by the   *)
(* curve order minus s; `low` says that s is the smaller of the two.       *)
(***************************************************************************)
SigningInput(files, keyId) == [keyid |-> keyId, files |-> files]

Signatures(publicKey, input) ==
    [by : {publicKey}, over : {input}, low : BOOLEAN]

Verifies(signature, publicKey, signed) ==
    signature.by = publicKey /\ signature.over = signed

AsReturned(signature) == signature  \* mutant: the form the signer returned

InForm(signature, low) ==
    [by |-> signature.by, over |-> signature.over, low |-> low]

Normalized(signature) == InForm(signature, TRUE)

WithSignature(files, signatureFile) ==
    [name \in DOMAIN files \cup {".signatures.json"} |->
        IF name = ".signatures.json" THEN signatureFile ELSE files[name]]

Descriptor(pack, sources, minimum, keyId, signature) ==
    LET files   == UnsignedFiles(pack, sources, minimum)
        tarball == WithSignature(files,
                       [signed |-> SigningInput(files, keyId),
                        signature |-> Normalized(signature)])
    IN  [key_id |-> keyId, compiler |-> pack.compiler,
         capabilities |-> pack.capabilities, minimum |-> minimum,
         sources |-> sources, described |-> Records(pack, sources),
         content_digest |-> Metadata(pack, sources, minimum),
         assertion_set_digest |-> DocumentsOf(Records(pack, sources)),
         tarball |-> tarball, tarball_digest |-> tarball]

(***************************************************************************)
(* What a package makes of a descriptor, under the keys of its release.    *)
(***************************************************************************)
CanSign(key) == key # None /\ key.status = "active"

CanVerify(key) == key # None /\ key.status # "revoked"

\* The descriptor is read: its digests are those of what they name.
DigestsMatch(d) ==
    /\ d.assertion_set_digest = DocumentsOf(d.described)
    /\ d.tarball_digest = d.tarball

SignatureOf(d) == d.tarball[".signatures.json"]

EitherForm(file) == TRUE  \* mutant: both forms of a signature are accepted

\* `.signatures.json` is exactly the one this package writes.
WrittenOneWay(file) == file.signature.low

\* The descriptor and its tarball are what this package builds.
BuiltHere(pack, d) ==
    LET rebuilt == UnsignedFiles(pack, d.sources, d.minimum)
    IN  /\ d.compiler = pack.compiler
        /\ d.capabilities = pack.capabilities
        /\ d.described = Records(pack, d.sources)
        /\ d.content_digest = Metadata(pack, d.sources, d.minimum)
        /\ DOMAIN d.tarball = DOMAIN rebuilt \cup {".signatures.json"}
        /\ \A name \in DOMAIN rebuilt : d.tarball[name] = rebuilt[name]
        /\ WrittenOneWay(SignatureOf(d))
        /\ SignatureOf(d).signed =
               SigningInput(rebuilt, d.key_id)

\* check_descriptor, and the signature check a tool makes after it.
Passes(v, d) ==
    LET key  == chain[v].keys[d.key_id]
        file == SignatureOf(d)
    IN  /\ DigestsMatch(d)
        /\ CanVerify(key)
        /\ BuiltHere(package[v], d)
        /\ Verifies(file.signature, key.public_key, file.signed)

(***************************************************************************)
(* A release is accepted; a signer signs under the release it holds; the   *)
(* server answers.                                                         *)
(***************************************************************************)
BundleInit ==
    /\ Init
    /\ package = << >> /\ stored = {} /\ answer = None

Release(v, file, pack) ==
    /\ v \notin DOMAIN chain
    /\ Accept(v, file)
    /\ package' = [u \in DOMAIN chain \cup {v} |->
                      IF u = v THEN pack ELSE package[u]]
    /\ UNCHANGED <<stored, answer>>

Sign(v, keyId, sources, minimum) ==
    /\ v \in DOMAIN chain
    /\ Cardinality(stored) < MaxSigned
    /\ CanSign(chain[v].keys[keyId])
    /\ LET input == SigningInput(UnsignedFiles(package[v], sources, minimum),
                                 keyId)
       IN  \E signature \in Signatures(chain[v].keys[keyId].public_key,
                                       input) :
               stored' = stored \cup
                   {Descriptor(package[v], sources, minimum, keyId,
                               signature)}
    /\ UNCHANGED <<chain, package, answer>>

\* An answer whose tarball is another one, under its own digest.
Repacked(d, tarball) ==
    [d EXCEPT !.tarball = tarball, !.tarball_digest = tarball]

\* Two answers mixed up: a field of one, its documents, its tarball or only
\* its signature, in the other.
Mixed(d, e) ==
    {[d EXCEPT ![field] = e[field]] : field \in DOMAIN d} \cup
    {[d EXCEPT !.sources = e.sources, !.described = e.described,
               !.assertion_set_digest = e.assertion_set_digest],
     Repacked(d, e.tarball),
     Repacked(d, WithSignature(d.tarball, SignatureOf(e)))}

\* The same documents written another way.
Rewritten(d) ==
    {[d EXCEPT !.sources[id].text = text] :
        id \in DOMAIN d.sources, text \in Texts}

\* The other form of the signature, which verifies just as well.
OtherForm(d) ==
    {Repacked(d, WithSignature(d.tarball,
                     [signed |-> SignatureOf(d).signed,
                      signature |->
                          InForm(SignatureOf(d).signature, FALSE)]))}

Answer ==
    /\ \E d \in stored, e \in stored :
           answer' \in Mixed(d, e) \cup Rewritten(d) \cup OtherForm(d)
    /\ UNCHANGED <<chain, package, stored>>

BundleNext ==
    \/ \E v \in Versions, file \in TrustFile, pack \in Package :
           Release(v, file, pack)
    \/ \E v \in Versions, keyId \in KeyIds, minimum \in Minimums :
           \E sources \in Documents :
               Sign(v, keyId, sources, minimum)
    \/ Answer

BundleSpec == BundleInit /\ [][BundleNext]_<<chain, bundleVars>>

(***************************************************************************)
(* A tool that checks an answer evaluates what a signer signed: the same   *)
(* documents under the same key, compiled by the same compiler to the same *)
(* files, for the same oldest tool. Mixing up two answers, or serving the  *)
(* documents written another way, changes nothing a tool would accept.     *)
(* (bundle/check.py 19-21: "every module it evaluates is one it compiled   *)
(* itself from the sources it was given, signed by a key the trust set     *)
(* names".)                                                                *)
(***************************************************************************)
CheckedIsWhatWasSigned ==
    answer # None =>
        \A v \in DOMAIN chain : Passes(v, answer) =>
            \E d \in stored :
                /\ d.key_id = answer.key_id
                /\ d.minimum = answer.minimum
                /\ d.tarball = answer.tarball
                /\ d.described = answer.described
                /\ \A name \in DOMAIN answer.sources :
                       answer.tarball[name] =
                           Compile(package[v], name, answer.sources[name])

(***************************************************************************)
(* One signing gives one bundle: an accepted answer whose signature comes  *)
(* from a signing the server kept holds, byte for byte, the files of that  *)
(* signing, although a signature has two valid forms. (bundle/build.py     *)
(* 55-57.)                                                                 *)
(***************************************************************************)
OneSigningOneBundle ==
    answer # None =>
        \A v \in DOMAIN chain, d \in stored :
            (/\ Passes(v, answer)
             /\ Normalized(SignatureOf(answer).signature) =
                    Normalized(SignatureOf(d).signature))
            => answer.tarball = d.tarball

(***************************************************************************)
(* What was signed is accepted, whichever form the signer returned, by     *)
(* every release that builds alike and has not revoked the key, the ones   *)
(* that retired it included. (bundle/build.py 228-231; trust/keys.py 13.)  *)
(***************************************************************************)
SignedIsAccepted ==
    \A d \in stored, v \in DOMAIN chain :
        (/\ package[v].compiler = d.compiler
         /\ package[v].capabilities = d.capabilities
         /\ chain[v].keys[d.key_id] # None
         /\ chain[v].keys[d.key_id].status # "revoked")
        => Passes(v, d)
=============================================================================
