---------------------------- MODULE BundleProofs ----------------------------
(***************************************************************************)
(* The chain of accepted releases moves forward between every two of its   *)
(* members.  The release rule compares a release with the newest earlier   *)
(* one only; the history rule composes (KeyFileProofs), so by induction    *)
(* the pairs already in the chain carry it to every earlier release.       *)
(*                                                                         *)
(* Over such a chain, what a tool accepts is what was signed, one signing  *)
(* is one bundle, and what was signed is accepted.                         *)
(***************************************************************************)
EXTENDS Bundle, KeyFileProofs

\* A file accepted after the newest release keeps the history of every one.
LEMMA NewestCarriesAll ==
    ASSUME NEW S, S \subseteq Version, NEW f,
           \A u, w \in S : Higher(w, u) =>
               HistoryKept(f[u], f[w]) /\ RaisedForChange(f[u], f[w], u, w),
           NEW v \in Version, \A u \in S : Higher(v, u),
           NEW file, NEW p \in S, Newest(p, S), KeysOK(f[p], file, p, v),
           NEW u \in S
    PROVE  HistoryKept(f[u], file) /\ RaisedForChange(f[u], file, u, v)
  <1>1. HistoryKept(f[p], file) /\ RaisedForChange(f[p], file, p, v)
    BY DEF KeysOK
  <1>2. CASE u = p
    BY <1>1, <1>2
  <1>3. CASE u # p
    <2>1. Higher(p, u) /\ Higher(v, p)
      BY <1>3 DEF Newest
    <2>2. HistoryKept(f[u], f[p]) /\ RaisedForChange(f[u], f[p], u, p)
      BY <2>1
    <2>3. HistoryKept(f[u], file)
      BY <1>1, <2>2, HistoryComposes
    <2>4. RaisedForChange(f[u], file, u, v)
      BY <1>1, <2>1, <2>2, RaiseComposes
    <2>5. QED
      BY <2>3, <2>4
  <1>4. QED
    BY <1>2, <1>3

\* Accepting a release keeps the chain's type and its forward movement.
LEMMA AcceptKeepsChain ==
    ASSUME ChainTypeOK, ChainMovesForward,
           NEW v \in Versions, NEW file \in TrustFile, Accept(v, file)
    PROVE  ChainTypeOK' /\ ChainMovesForward'
  <1>1. v \in Version /\ DOMAIN chain \subseteq Version
    BY ChainAssumption DEF ChainTypeOK
  <1>2. v \notin DOMAIN chain
    BY <1>1, HigherIrreflexive DEF Accept
  <1>3. /\ DOMAIN chain' = DOMAIN chain \cup {v}
        /\ chain'[v] = file
        /\ \A u \in DOMAIN chain : chain'[u] = chain[u]
    BY <1>2 DEF Accept
  <1>4. ChainTypeOK'
    BY <1>3 DEF ChainTypeOK
  <1>5. ASSUME NEW u \in DOMAIN chain', NEW w \in DOMAIN chain', Higher(w, u)
        PROVE  /\ HistoryKept(chain'[u], chain'[w])
               /\ RaisedForChange(chain'[u], chain'[w], u, w)
    <2>1. CASE u \in DOMAIN chain /\ w \in DOMAIN chain
      BY <1>3, <1>5, <2>1 DEF ChainMovesForward
    <2>2. CASE u \in DOMAIN chain /\ w = v
      <3>1. PICK p \in DOMAIN chain :
                Newest(p, DOMAIN chain) /\ KeysOK(chain[p], file, p, v)
        BY <2>2 DEF Accept
      <3>2. \A t \in DOMAIN chain : Higher(v, t)
        BY DEF Accept
      <3>3. HistoryKept(chain[u], file) /\ RaisedForChange(chain[u], file, u, v)
        BY <1>1, <2>2, <3>1, <3>2, NewestCarriesAll DEF ChainMovesForward
      <3>4. QED
        BY <1>3, <2>2, <3>3
    <2>3. CASE u = v
      <3>1. w # v
        BY <1>1, <1>5, <2>3, HigherIrreflexive
      <3>2. Higher(v, w)
        BY <1>3, <3>1 DEF Accept
      <3>3. QED
        BY <1>1, <1>3, <1>5, <2>3, <3>1, <3>2, HigherTotal
    <2>4. QED
      BY <1>3, <2>1, <2>2, <2>3
  <1>6. QED
    BY <1>4, <1>5 DEF ChainMovesForward

(***************************************************************************)
(* The accepted releases move forward: no later one removes a key, moves a *)
(* status back or rewrites a date, whatever lies between the two.          *)
(***************************************************************************)
THEOREM ChainForward == Spec => [](ChainTypeOK /\ ChainMovesForward)
  <1>1. Init => ChainTypeOK /\ ChainMovesForward
    BY DEF Init, ChainTypeOK, ChainMovesForward
  <1>2. ChainTypeOK /\ ChainMovesForward /\ [Next]_chain
            => (ChainTypeOK /\ ChainMovesForward)'
    <2> SUFFICES ASSUME ChainTypeOK, ChainMovesForward, [Next]_chain
                 PROVE  (ChainTypeOK /\ ChainMovesForward)'
      OBVIOUS
    <2>1. CASE Next
      BY <2>1, AcceptKeepsChain DEF Next
    <2>2. CASE UNCHANGED chain
      BY <2>2 DEF ChainTypeOK, ChainMovesForward
    <2>3. QED
      BY <2>1, <2>2
  <1>3. QED
    BY <1>1, <1>2, PTL DEF Spec

(***************************************************************************)
(* Bundles.  Every descriptor the server keeps was built and signed by     *)
(* some release of the chain, and every answer is put together from two of *)
(* them.  The chain only grows, so both stay true.                         *)
(***************************************************************************)
BundleTypeOK ==
    /\ ChainTypeOK
    /\ DOMAIN package = DOMAIN chain
    /\ \A v \in DOMAIN chain : package[v] \in Package

\* d is what signing these documents under release v's files gives.
SignedUnder(d, v, keyId, sources, minimum) ==
    /\ chain[v].keys[keyId] # None
    /\ \E signature \in
           Signatures(chain[v].keys[keyId].public_key,
                      SigningInput(UnsignedFiles(package[v], sources, minimum),
                                   keyId)) :
           d = Descriptor(package[v], sources, minimum, keyId, signature)

WasSigned(d) ==
    \E v \in DOMAIN chain, keyId \in KeyIds, minimum \in Minimums :
        \E sources \in Documents : SignedUnder(d, v, keyId, sources, minimum)

StoredWereSigned == \A d \in stored : WasSigned(d)

AnswerIsOfStored ==
    answer # None => \E d \in stored, e \in stored :
        answer \in Mixed(d, e) \cup Rewritten(d) \cup OtherForm(d)

BundleInv ==
    /\ BundleTypeOK
    /\ ChainMovesForward
    /\ StoredWereSigned
    /\ AnswerIsOfStored

LEMMA BundleInitOK == BundleInit => BundleInv
  BY DEF BundleInit, Init, BundleInv, BundleTypeOK, ChainTypeOK,
         ChainMovesForward, StoredWereSigned, AnswerIsOfStored

\* A descriptor stays signed while releases are only added.
LEMMA SignedStaysSigned ==
    ASSUME NEW d, WasSigned(d), DOMAIN chain \subseteq DOMAIN chain',
           \A v \in DOMAIN chain : chain'[v] = chain[v]
                                   /\ package'[v] = package[v]
    PROVE  WasSigned(d)'
  <1>1. PICK v \in DOMAIN chain, keyId \in KeyIds, minimum \in Minimums :
            \E sources \in Documents : SignedUnder(d, v, keyId, sources, minimum)
    BY DEF WasSigned
  <1>2. PICK sources \in Documents : SignedUnder(d, v, keyId, sources, minimum)
    BY <1>1
  <1>3. SignedUnder(d, v, keyId, sources, minimum)'
    BY <1>2 DEF SignedUnder
  <1>4. QED
    BY <1>3 DEF WasSigned

LEMMA ReleaseKeepsInv ==
    ASSUME BundleInv, NEW v \in Versions, NEW file \in TrustFile,
           NEW pack \in Package, Release(v, file, pack)
    PROVE  BundleInv'
  <1>1. ChainTypeOK' /\ ChainMovesForward'
    BY AcceptKeepsChain DEF Release, BundleInv, BundleTypeOK
  <1>2. /\ DOMAIN chain' = DOMAIN chain \cup {v}
        /\ DOMAIN package' = DOMAIN chain \cup {v}
        /\ package'[v] = pack
        /\ \A u \in DOMAIN chain : chain'[u] = chain[u]
                                   /\ package'[u] = package[u]
    BY DEF Release, Accept
  <1>3. BundleTypeOK'
    BY <1>1, <1>2 DEF BundleInv, BundleTypeOK
  <1>4. StoredWereSigned'
    <2> SUFFICES ASSUME NEW d \in stored PROVE WasSigned(d)'
      BY DEF StoredWereSigned, Release
    <2>1. WasSigned(d)
      BY DEF BundleInv, StoredWereSigned
    <2>2. QED
      BY <1>2, <2>1, SignedStaysSigned
  <1>5. AnswerIsOfStored'
    BY DEF Release, BundleInv, AnswerIsOfStored
  <1>6. QED
    BY <1>1, <1>3, <1>4, <1>5 DEF BundleInv

LEMMA SignKeepsInv ==
    ASSUME BundleInv, NEW v \in Versions, NEW keyId \in KeyIds,
           NEW minimum \in Minimums, NEW sources \in Documents,
           Sign(v, keyId, sources, minimum)
    PROVE  BundleInv'
  <1>1. UNCHANGED <<chain, package, answer>> /\ v \in DOMAIN chain
    BY DEF Sign
  <1>2. BundleTypeOK' /\ ChainMovesForward'
    BY <1>1 DEF BundleInv, BundleTypeOK, ChainTypeOK, ChainMovesForward
  <1>3. PICK signature \in
            Signatures(chain[v].keys[keyId].public_key,
                       SigningInput(UnsignedFiles(package[v], sources, minimum),
                                    keyId)) :
            stored' = stored \cup {Descriptor(package[v], sources, minimum,
                                              keyId, signature)}
    BY DEF Sign
  <1> DEFINE new == Descriptor(package[v], sources, minimum, keyId, signature)
  <1>4. chain[v].keys[keyId] # None
    BY DEF Sign, CanSign
  <1>5. SignedUnder(new, v, keyId, sources, minimum)
    BY <1>4 DEF SignedUnder
  <1>6. WasSigned(new)
    BY <1>1, <1>5 DEF WasSigned
  <1>7. \A d \in stored' : WasSigned(d)
    BY <1>3, <1>6 DEF BundleInv, StoredWereSigned
  <1>8. StoredWereSigned'
    <2> SUFFICES ASSUME NEW d \in stored' PROVE WasSigned(d)'
      BY DEF StoredWereSigned
    <2>1. QED
      BY <1>1, <1>7, SignedStaysSigned
  <1>9. AnswerIsOfStored'
    BY <1>1, <1>3 DEF BundleInv, AnswerIsOfStored
  <1>10. QED
    BY <1>2, <1>8, <1>9 DEF BundleInv

LEMMA AnswerKeepsInv ==
    ASSUME BundleInv, Answer PROVE BundleInv'
  <1>1. UNCHANGED <<chain, package, stored>>
    BY DEF Answer
  <1>2. BundleTypeOK' /\ ChainMovesForward'
    BY <1>1 DEF BundleInv, BundleTypeOK, ChainTypeOK, ChainMovesForward
  <1>3. StoredWereSigned'
    BY <1>1, SignedStaysSigned DEF BundleInv, StoredWereSigned
  <1>4. AnswerIsOfStored'
    BY <1>1 DEF Answer, AnswerIsOfStored
  <1>5. QED
    BY <1>2, <1>3, <1>4 DEF BundleInv

LEMMA BundleInvariance == BundleSpec => []BundleInv
  <1>1. BundleInv /\ [BundleNext]_<<chain, bundleVars>> => BundleInv'
    <2> SUFFICES ASSUME BundleInv, [BundleNext]_<<chain, bundleVars>>
                 PROVE  BundleInv'
      OBVIOUS
    <2>1. ASSUME NEW v \in Versions, NEW file \in TrustFile,
                 NEW pack \in Package, Release(v, file, pack)
          PROVE  BundleInv'
      BY <2>1, ReleaseKeepsInv
    <2>2. ASSUME NEW v \in Versions, NEW keyId \in KeyIds,
                 NEW minimum \in Minimums, NEW sources \in Documents,
                 Sign(v, keyId, sources, minimum)
          PROVE  BundleInv'
      BY <2>2, SignKeepsInv
    <2>3. CASE Answer
      BY <2>3, AnswerKeepsInv
    <2>4. CASE UNCHANGED <<chain, bundleVars>>
      <3>1. UNCHANGED <<chain, package, stored, answer>>
        BY <2>4 DEF bundleVars
      <3>2. StoredWereSigned'
        BY <3>1, SignedStaysSigned DEF BundleInv, StoredWereSigned
      <3>3. QED
        BY <3>1, <3>2 DEF BundleInv, BundleTypeOK, ChainTypeOK,
                          ChainMovesForward, AnswerIsOfStored
    <2>5. QED
      BY <2>1, <2>2, <2>3, <2>4 DEF BundleNext
  <1>2. QED
    BY <1>1, BundleInitOK, PTL DEF BundleSpec

(***************************************************************************)
(* What a signed descriptor holds.                                         *)
(***************************************************************************)
LEMMA FilesOfDocuments ==
    ASSUME NEW pack, NEW sources, DOMAIN sources \subseteq Ids, NEW minimum
    PROVE  LET files == UnsignedFiles(pack, sources, minimum)
           IN  /\ DOMAIN files = DOMAIN sources \cup {".manifest"}
               /\ files[".manifest"] = Metadata(pack, sources, minimum)
               /\ \A name \in DOMAIN sources :
                      files[name] = Compile(pack, name, sources[name])
               /\ ".signatures.json" \notin DOMAIN files
  <1>1. ".manifest" \notin Ids /\ ".signatures.json" \notin Ids
    BY BundleAssumption
  <1>2. QED
    BY <1>1 DEF UnsignedFiles

\* The low form of a signature over an input.
LowForm(publicKey, input) == [by |-> publicKey, over |-> input, low |-> TRUE]

LEMMA NormalizedIsLow ==
    ASSUME NEW publicKey, NEW input, NEW signature \in Signatures(publicKey, input)
    PROVE  Normalized(signature) = LowForm(publicKey, input)
  BY DEF Normalized, InForm, Signatures, LowForm

\* The files of a descriptor, its signature file, and its other fields.
Holds(d, pack, sources, minimum, keyId, publicKey) ==
    LET files == UnsignedFiles(pack, sources, minimum)
        input == SigningInput(files, keyId)
    IN  /\ d.key_id = keyId /\ d.minimum = minimum
        /\ d.compiler = pack.compiler
        /\ d.capabilities = pack.capabilities
        /\ d.sources = sources
        /\ d.described = Records(pack, sources)
        /\ d.content_digest = Metadata(pack, sources, minimum)
        /\ d.assertion_set_digest = DocumentsOf(Records(pack, sources))
        /\ d.tarball_digest = d.tarball
        /\ d.tarball = WithSignature(files, SignatureOf(d))
        /\ DOMAIN d.tarball = DOMAIN files \cup {".signatures.json"}
        /\ \A name \in DOMAIN files : d.tarball[name] = files[name]
        /\ SignatureOf(d) =
               [signed |-> input, signature |-> LowForm(publicKey, input)]

LEMMA DescriptorHolds ==
    ASSUME NEW pack, NEW sources \in Documents, NEW minimum, NEW keyId,
           NEW publicKey,
           NEW signature \in
               Signatures(publicKey,
                   SigningInput(UnsignedFiles(pack, sources, minimum), keyId)),
           NEW d, d = Descriptor(pack, sources, minimum, keyId, signature)
    PROVE  Holds(d, pack, sources, minimum, keyId, publicKey)
  <1> DEFINE files == UnsignedFiles(pack, sources, minimum)
             input == SigningInput(files, keyId)
             file  == [signed |-> input, signature |-> LowForm(publicKey, input)]
  <1>1. ".signatures.json" \notin DOMAIN files
    BY FilesOfDocuments DEF Documents
  <1>2. Normalized(signature) = LowForm(publicKey, input)
    BY NormalizedIsLow
  <1>3. d.tarball = WithSignature(files, file)
    BY <1>2 DEF Descriptor
  <1>4. /\ d.key_id = keyId /\ d.minimum = minimum
        /\ d.compiler = pack.compiler
        /\ d.capabilities = pack.capabilities
        /\ d.sources = sources
        /\ d.described = Records(pack, sources)
        /\ d.content_digest = Metadata(pack, sources, minimum)
        /\ d.assertion_set_digest = DocumentsOf(Records(pack, sources))
        /\ d.tarball_digest = d.tarball
    BY DEF Descriptor
  <1> HIDE DEF files, file
  <1>5. /\ DOMAIN d.tarball = DOMAIN files \cup {".signatures.json"}
        /\ SignatureOf(d) = file
        /\ \A name \in DOMAIN files : d.tarball[name] = files[name]
    BY <1>1, <1>3 DEF WithSignature, SignatureOf
  <1>6. QED
    BY <1>3, <1>4, <1>5 DEF Holds, files, file

\* What a stored descriptor holds, of some release of the chain.
LEMMA SignedHolds ==
    ASSUME NEW d, WasSigned(d)
    PROVE  \E u \in DOMAIN chain, keyId \in KeyIds, minimum \in Minimums :
               \E sources \in Documents :
                   /\ chain[u].keys[keyId] # None
                   /\ Holds(d, package[u], sources, minimum, keyId,
                            chain[u].keys[keyId].public_key)
  <1>1. PICK u \in DOMAIN chain, keyId \in KeyIds, minimum \in Minimums :
            \E sources \in Documents : SignedUnder(d, u, keyId, sources, minimum)
    BY DEF WasSigned
  <1>2. PICK sources \in Documents : SignedUnder(d, u, keyId, sources, minimum)
    BY <1>1
  <1>3. Holds(d, package[u], sources, minimum, keyId,
              chain[u].keys[keyId].public_key)
    BY <1>2, DescriptorHolds DEF SignedUnder
  <1>4. QED
    BY <1>2, <1>3 DEF SignedUnder

\* The release a descriptor was signed under finds it in order.
LEMMA SignedPasses ==
    ASSUME NEW d, NEW pack, NEW sources, NEW minimum, NEW keyId, NEW publicKey,
           Holds(d, pack, sources, minimum, keyId, publicKey)
    PROVE  /\ DigestsMatch(d)
           /\ BuiltHere(pack, d)
           /\ Verifies(SignatureOf(d).signature, publicKey,
                       SignatureOf(d).signed)
  <1>1. DigestsMatch(d)
    BY DEF DigestsMatch, Holds
  <1>2. BuiltHere(pack, d)
    <2>1. d.sources = sources /\ d.minimum = minimum /\ d.key_id = keyId
      BY DEF Holds
    <2>2. WrittenOneWay(SignatureOf(d))
      BY DEF WrittenOneWay, Holds, LowForm
    <2>3. SignatureOf(d).signed =
              SigningInput(UnsignedFiles(pack, sources, minimum), keyId)
      BY DEF Holds
    <2>4. QED
      BY <2>1, <2>2, <2>3 DEF BuiltHere, Holds
  <1>3. QED
    BY <1>1, <1>2 DEF Verifies, Holds, LowForm

(***************************************************************************)
(* Of any two releases of the chain that list a key, both give it the same *)
(* public key.                                                             *)
(***************************************************************************)
LEMMA OnePublicKey ==
    ASSUME ChainTypeOK, ChainMovesForward,
           NEW u \in DOMAIN chain, NEW v \in DOMAIN chain, NEW keyId \in KeyIds,
           chain[u].keys[keyId] # None, chain[v].keys[keyId] # None
    PROVE  chain[u].keys[keyId].public_key = chain[v].keys[keyId].public_key
  <1>1. u \in Version /\ v \in Version
    BY ChainAssumption DEF ChainTypeOK
  <1>2. CASE Higher(v, u)
    <2>1. HistoryKept(chain[u], chain[v])
      BY <1>2 DEF ChainMovesForward
    <2>2. QED
      BY <2>1 DEF HistoryKept, Listed, KeyMovedForward
  <1>3. CASE Higher(u, v)
    <2>1. HistoryKept(chain[v], chain[u])
      BY <1>3 DEF ChainMovesForward
    <2>2. QED
      BY <2>1 DEF HistoryKept, Listed, KeyMovedForward
  <1>4. CASE u = v
    BY <1>4
  <1>5. QED
    BY <1>1, <1>2, <1>3, <1>4, HigherTotal

(***************************************************************************)
(* What was signed is accepted by every release that builds alike and has  *)
(* not revoked the key, whichever release signed it and whichever form of  *)
(* the signature the signer returned.                                      *)
(***************************************************************************)
THEOREM SignedAccepted == BundleSpec => []SignedIsAccepted
  <1>1. ASSUME BundleInv, NEW d \in stored, NEW v \in DOMAIN chain,
               package[v].compiler = d.compiler,
               package[v].capabilities = d.capabilities,
               chain[v].keys[d.key_id] # None,
               chain[v].keys[d.key_id].status # "revoked"
        PROVE  Passes(v, d)
    <2>1. WasSigned(d)
      BY <1>1 DEF BundleInv, StoredWereSigned
    <2>2. PICK u \in DOMAIN chain, keyId \in KeyIds, minimum \in Minimums :
              \E sources \in Documents :
                  /\ chain[u].keys[keyId] # None
                  /\ Holds(d, package[u], sources, minimum, keyId,
                           chain[u].keys[keyId].public_key)
      BY <2>1, SignedHolds
    <2>3. PICK sources \in Documents :
              Holds(d, package[u], sources, minimum, keyId,
                    chain[u].keys[keyId].public_key)
      BY <2>2
    <2>5. d.key_id = keyId /\ d.compiler = package[u].compiler
          /\ d.capabilities = package[u].capabilities
      BY <2>3 DEF Holds
    <2>6. package[v] = package[u]
      BY <1>1, <2>5 DEF BundleInv, BundleTypeOK, Package
    <2>7. chain[v].keys[d.key_id].public_key = chain[u].keys[keyId].public_key
      BY <1>1, <2>2, <2>5, OnePublicKey DEF BundleInv, BundleTypeOK
    <2>8. /\ DigestsMatch(d) /\ BuiltHere(package[v], d)
          /\ Verifies(SignatureOf(d).signature,
                      chain[u].keys[keyId].public_key, SignatureOf(d).signed)
      BY <2>3, <2>6, SignedPasses
    <2>9. CanVerify(chain[v].keys[d.key_id])
      BY <1>1 DEF CanVerify
    <2>10. QED
      BY <2>7, <2>8, <2>9 DEF Passes
  <1>2. BundleInv => SignedIsAccepted
    BY <1>1 DEF SignedIsAccepted
  <1>3. QED
    BY <1>2, BundleInvariance, PTL

(***************************************************************************)
(* What an answer can be: its tarball is one that was signed, or one with  *)
(* the signature file of another, or one whose signature is in its other   *)
(* form; its documents are, but for how they are written, ones that were   *)
(* signed.                                                                 *)
(***************************************************************************)
Fields == {"key_id", "compiler", "capabilities", "minimum", "sources",
           "described", "content_digest", "assertion_set_digest", "tarball",
           "tarball_digest"}

LEMMA SignedFields ==
    ASSUME NEW d, WasSigned(d) PROVE DOMAIN d = Fields
  BY DEF WasSigned, SignedUnder, Descriptor, Fields

MixedParts(a, d, e) ==
    /\ DOMAIN a.sources \in {DOMAIN d.sources, DOMAIN e.sources}
    /\ \/ a.tarball \in {d.tarball, e.tarball}
       \/ a.tarball = WithSignature(d.tarball, SignatureOf(e))
       \/ \E file : /\ a.tarball = WithSignature(d.tarball, file)
                    /\ file.signature.low = FALSE

LEMMA RepackedParts ==
    ASSUME NEW d, DOMAIN d = Fields, NEW tarball
    PROVE  /\ Repacked(d, tarball).tarball = tarball
           /\ Repacked(d, tarball).sources = d.sources
  BY Zenon DEF Repacked, Fields

LEMMA AnswerParts ==
    ASSUME NEW d, NEW e, DOMAIN d = Fields, DOMAIN e = Fields,
           NEW a \in Mixed(d, e) \cup Rewritten(d) \cup OtherForm(d)
    PROVE  MixedParts(a, d, e)
  <1>1. ASSUME NEW field \in DOMAIN d, a = [d EXCEPT ![field] = e[field]]
        PROVE  MixedParts(a, d, e)
    <2>1. a.sources = d.sources \/ a.sources = e.sources
      BY <1>1 DEF Fields
    <2>2. a.tarball = d.tarball \/ a.tarball = e.tarball
      BY <1>1 DEF Fields
    <2>3. QED
      BY <2>1, <2>2 DEF MixedParts
  <1>2. ASSUME a = [d EXCEPT !.sources = e.sources,
                             !.described = e.described,
                             !.assertion_set_digest = e.assertion_set_digest]
        PROVE  MixedParts(a, d, e)
    <2>1. a.sources = e.sources
      BY <1>2, Zenon DEF Fields
    <2>2. a.tarball = d.tarball
      BY <1>2, Zenon DEF Fields
    <2>3. QED
      BY <2>1, <2>2 DEF MixedParts
  <1>3. ASSUME a = Repacked(d, e.tarball) PROVE MixedParts(a, d, e)
    BY <1>3, RepackedParts DEF MixedParts
  <1>4. ASSUME a = Repacked(d, WithSignature(d.tarball, SignatureOf(e)))
        PROVE  MixedParts(a, d, e)
    BY <1>4, RepackedParts DEF MixedParts
  <1>5. ASSUME NEW id \in DOMAIN d.sources, NEW text \in Texts,
               a = [d EXCEPT !.sources[id].text = text]
        PROVE  MixedParts(a, d, e)
    <2>1. DOMAIN a.sources = DOMAIN d.sources
      BY <1>5, Zenon DEF Fields
    <2>2. a.tarball = d.tarball
      BY <1>5, Zenon DEF Fields
    <2>3. QED
      BY <2>1, <2>2 DEF MixedParts
  <1>6. CASE a \in OtherForm(d)
    <2> DEFINE file == [signed |-> SignatureOf(d).signed,
                        signature |-> InForm(SignatureOf(d).signature, FALSE)]
    <2>1. a = Repacked(d, WithSignature(d.tarball, file))
      BY <1>6 DEF OtherForm
    <2>2. file.signature.low = FALSE
      BY DEF InForm
    <2>3. /\ a.tarball = WithSignature(d.tarball, file)
          /\ a.sources = d.sources
      BY <2>1, RepackedParts
    <2> HIDE DEF file
    <2>4. QED
      BY <2>2, <2>3 DEF MixedParts
  <1>7. QED
    BY <1>1, <1>2, <1>3, <1>4, <1>5, <1>6 DEF Mixed, Rewritten

\* A stored descriptor: its fields, and what was signed.
LEMMA StoredHolds ==
    ASSUME BundleInv, NEW d \in stored
    PROVE  /\ DOMAIN d = Fields
           /\ \E u \in DOMAIN chain, keyId \in KeyIds, minimum \in Minimums :
                  \E sources \in Documents :
                      Holds(d, package[u], sources, minimum, keyId,
                            chain[u].keys[keyId].public_key)
  <1>1. WasSigned(d)
    BY DEF BundleInv, StoredWereSigned
  <1>2. DOMAIN d = Fields
    BY <1>1, SignedFields
  <1>3. QED
    BY <1>1, <1>2, SignedHolds

\* Equal signing inputs are of equal files under one key.
LEMMA OneInput ==
    ASSUME NEW files1, NEW files2, NEW keyId1, NEW keyId2,
           SigningInput(files1, keyId1) = SigningInput(files2, keyId2)
    PROVE  files1 = files2 /\ keyId1 = keyId2
  BY DEF SigningInput

\* The metadata gives the oldest tool and the documents' digests.
LEMMA OneMetadata ==
    ASSUME NEW pack1, NEW sources1, NEW minimum1,
           NEW pack2, NEW sources2, NEW minimum2,
           Metadata(pack1, sources1, minimum1) =
               Metadata(pack2, sources2, minimum2)
    PROVE  minimum1 = minimum2 /\ Records(pack1, sources1) =
                                      Records(pack2, sources2)
  BY DEF Metadata

\* A function is known by its domain and its values.
LEMMA SameFunction ==
    ASSUME NEW f, NEW g, f = [x \in DOMAIN f |-> f[x]],
           g = [x \in DOMAIN g |-> g[x]], DOMAIN f = DOMAIN g,
           \A x \in DOMAIN f : f[x] = g[x]
    PROVE  f = g
  OBVIOUS

LEMMA WithSignatureHolds ==
    ASSUME NEW files, NEW file, NEW t, t = WithSignature(files, file)
    PROVE  /\ t = [x \in DOMAIN t |-> t[x]]
           /\ t[".signatures.json"] = file
  BY DEF WithSignature

\* The signature file of an accepted answer is the one of a stored
\* descriptor, and its tarball is a function.
LEMMA AcceptedSignature ==
    ASSUME BundleInv, answer # None, NEW v \in DOMAIN chain, Passes(v, answer)
    PROVE  /\ DOMAIN answer.sources \subseteq Ids
           /\ answer.tarball = [x \in DOMAIN answer.tarball |->
                                   answer.tarball[x]]
           /\ \E s \in stored : SignatureOf(answer) = SignatureOf(s)
  <1>1. PICK d \in stored, e \in stored :
            answer \in Mixed(d, e) \cup Rewritten(d) \cup OtherForm(d)
    BY DEF BundleInv, AnswerIsOfStored
  <1>2. DOMAIN d = Fields /\ DOMAIN e = Fields
    BY StoredHolds
  <1>3. MixedParts(answer, d, e)
    BY <1>1, <1>2, AnswerParts
  <1>4. \A s \in stored : /\ DOMAIN s.sources \subseteq Ids
                          /\ s.tarball = [x \in DOMAIN s.tarball |->
                                             s.tarball[x]]
    <2> TAKE s \in stored
    <2>1. PICK u \in DOMAIN chain, keyId \in KeyIds, minimum \in Minimums :
              \E sources \in Documents :
                  Holds(s, package[u], sources, minimum, keyId,
                        chain[u].keys[keyId].public_key)
      BY StoredHolds
    <2>2. PICK sources \in Documents :
              Holds(s, package[u], sources, minimum, keyId,
                    chain[u].keys[keyId].public_key)
      BY <2>1
    <2>3. s.sources = sources /\ DOMAIN sources \subseteq Ids
      BY <2>2 DEF Holds, Documents
    <2>4. s.tarball = WithSignature(UnsignedFiles(package[u], sources, minimum),
                                    SignatureOf(s))
      BY <2>2 DEF Holds
    <2>5. QED
      BY <2>3, <2>4, WithSignatureHolds
  <1>5. DOMAIN answer.sources \subseteq Ids
    BY <1>3, <1>4 DEF MixedParts
  <1>6. SignatureOf(answer).signature.low
    BY DEF Passes, BuiltHere, WrittenOneWay
  <1>7. CASE answer.tarball \in {d.tarball, e.tarball}
    BY <1>4, <1>5, <1>7 DEF SignatureOf
  <1>8. CASE answer.tarball = WithSignature(d.tarball, SignatureOf(e))
    BY <1>5, <1>8, WithSignatureHolds DEF SignatureOf
  <1>9. ASSUME NEW file, answer.tarball = WithSignature(d.tarball, file),
               file.signature.low = FALSE
        PROVE  FALSE
    <2>1. SignatureOf(answer) = file
      BY <1>9, WithSignatureHolds DEF SignatureOf
    <2>2. QED
      BY <1>6, <1>9, <2>1
  <1>10. QED
    BY <1>3, <1>7, <1>8, <1>9 DEF MixedParts

\* An accepted answer holds what some stored descriptor holds.
LEMMA AcceptedWasSigned ==
    ASSUME BundleInv, answer # None, NEW v \in DOMAIN chain, Passes(v, answer)
    PROVE  /\ DOMAIN answer.sources \subseteq Ids
           /\ \E s \in stored :
                  /\ SignatureOf(answer) = SignatureOf(s)
                  /\ s.key_id = answer.key_id
                  /\ s.minimum = answer.minimum
                  /\ s.tarball = answer.tarball
                  /\ s.described = answer.described
  <1>1. PICK s \in stored : SignatureOf(answer) = SignatureOf(s)
    BY AcceptedSignature
  <1>2. /\ DOMAIN answer.sources \subseteq Ids
        /\ answer.tarball = [x \in DOMAIN answer.tarball |-> answer.tarball[x]]
    BY AcceptedSignature
  <1>3. PICK u \in DOMAIN chain, keyId \in KeyIds, minimum \in Minimums :
            \E sources \in Documents :
                Holds(s, package[u], sources, minimum, keyId,
                      chain[u].keys[keyId].public_key)
    BY StoredHolds
  <1>4. PICK sources \in Documents :
            Holds(s, package[u], sources, minimum, keyId,
                  chain[u].keys[keyId].public_key)
    BY <1>3
  <1> DEFINE rebuilt == UnsignedFiles(package[v], answer.sources, answer.minimum)
             files   == UnsignedFiles(package[u], sources, minimum)
  <1>5. BuiltHere(package[v], answer)
    BY DEF Passes
  <1>6. SigningInput(rebuilt, answer.key_id) = SigningInput(files, keyId)
    BY <1>1, <1>4, <1>5 DEF BuiltHere, Holds
  <1>7. DOMAIN sources \subseteq Ids
    BY DEF Documents
  <1>8. /\ rebuilt = files /\ answer.key_id = keyId /\ answer.minimum = minimum
        /\ Records(package[v], answer.sources) = Records(package[u], sources)
    <2>1. rebuilt = files /\ answer.key_id = keyId
      BY <1>6, OneInput
    <2>2. /\ files[".manifest"] = Metadata(package[u], sources, minimum)
          /\ rebuilt[".manifest"] =
                 Metadata(package[v], answer.sources, answer.minimum)
      BY <1>2, <1>7, BundleAssumption DEF UnsignedFiles
    <2>3. Metadata(package[v], answer.sources, answer.minimum) =
              Metadata(package[u], sources, minimum)
      BY <2>1, <2>2
    <2>4. QED
      BY <2>1, <2>3, OneMetadata
  <1> HIDE DEF rebuilt, files
  <1>9. /\ s.key_id = keyId /\ s.minimum = minimum
        /\ s.described = Records(package[u], sources)
        /\ answer.described = Records(package[v], answer.sources)
    BY <1>4, <1>5 DEF Holds, BuiltHere
  <1>10. /\ DOMAIN s.tarball = DOMAIN files \cup {".signatures.json"}
         /\ \A name \in DOMAIN files : s.tarball[name] = files[name]
         /\ s.tarball = WithSignature(files, SignatureOf(s))
    BY <1>4 DEF Holds, files
  <1>11. /\ DOMAIN answer.tarball = DOMAIN files \cup {".signatures.json"}
         /\ \A name \in DOMAIN files : answer.tarball[name] = files[name]
    BY <1>5, <1>8 DEF BuiltHere, rebuilt
  <1>12. answer.tarball[".signatures.json"] = s.tarball[".signatures.json"]
    BY <1>1 DEF SignatureOf
  <1>13. s.tarball = [x \in DOMAIN s.tarball |-> s.tarball[x]]
    BY <1>10, WithSignatureHolds
  <1>14. s.tarball = answer.tarball
    BY <1>2, <1>10, <1>11, <1>12, <1>13, SameFunction
  <1>15. QED
    BY <1>1, <1>2, <1>8, <1>9, <1>14

(***************************************************************************)
(* An accepted answer is what a signer signed: the same key, documents,    *)
(* oldest tool and files, each file compiled from the documents it gives.  *)
(***************************************************************************)
THEOREM CheckedWasSigned == BundleSpec => []CheckedIsWhatWasSigned
  <1>1. ASSUME BundleInv, answer # None, NEW v \in DOMAIN chain,
               Passes(v, answer)
        PROVE  \E d \in stored :
                   /\ d.key_id = answer.key_id
                   /\ d.minimum = answer.minimum
                   /\ d.tarball = answer.tarball
                   /\ d.described = answer.described
                   /\ \A name \in DOMAIN answer.sources :
                          answer.tarball[name] =
                              Compile(package[v], name, answer.sources[name])
    <2> DEFINE rebuilt == UnsignedFiles(package[v], answer.sources,
                                        answer.minimum)
    <2>1. DOMAIN answer.sources \subseteq Ids
      BY <1>1, AcceptedWasSigned
    <2>2. /\ DOMAIN answer.sources \subseteq DOMAIN rebuilt
          /\ \A name \in DOMAIN answer.sources :
                 rebuilt[name] =
                     Compile(package[v], name, answer.sources[name])
      BY <2>1, BundleAssumption DEF UnsignedFiles
    <2>3. \A name \in DOMAIN rebuilt : answer.tarball[name] = rebuilt[name]
      BY <1>1 DEF Passes, BuiltHere
    <2>4. \A name \in DOMAIN answer.sources :
              answer.tarball[name] =
                  Compile(package[v], name, answer.sources[name])
      BY <2>2, <2>3
    <2>5. QED
      BY <1>1, <2>4, AcceptedWasSigned
  <1>2. BundleInv => CheckedIsWhatWasSigned
    BY <1>1 DEF CheckedIsWhatWasSigned
  <1>3. QED
    BY <1>2, BundleInvariance, PTL

(***************************************************************************)
(* One signing is one bundle: an accepted answer whose signature is of a   *)
(* stored descriptor's signing has that descriptor's tarball.              *)
(***************************************************************************)
THEOREM OneSigning == BundleSpec => []OneSigningOneBundle
  <1>1. ASSUME BundleInv, answer # None, NEW v \in DOMAIN chain,
               NEW d \in stored, Passes(v, answer),
               Normalized(SignatureOf(answer).signature) =
                   Normalized(SignatureOf(d).signature)
        PROVE  answer.tarball = d.tarball
    <2>1. PICK s \in stored : /\ SignatureOf(answer) = SignatureOf(s)
                              /\ s.tarball = answer.tarball
      BY <1>1, AcceptedWasSigned
    <2>2. PICK u \in DOMAIN chain, keyId \in KeyIds, minimum \in Minimums :
              \E sources \in Documents :
                  Holds(s, package[u], sources, minimum, keyId,
                        chain[u].keys[keyId].public_key)
      BY <1>1, StoredHolds
    <2>3. PICK sources \in Documents :
              Holds(s, package[u], sources, minimum, keyId,
                    chain[u].keys[keyId].public_key)
      BY <2>2
    <2>4. PICK w \in DOMAIN chain, key2 \in KeyIds, minimum2 \in Minimums :
              \E sources2 \in Documents :
                  Holds(d, package[w], sources2, minimum2, key2,
                        chain[w].keys[key2].public_key)
      BY <1>1, StoredHolds
    <2>5. PICK sources2 \in Documents :
              Holds(d, package[w], sources2, minimum2, key2,
                    chain[w].keys[key2].public_key)
      BY <2>4
    <2> DEFINE files  == UnsignedFiles(package[u], sources, minimum)
               files2 == UnsignedFiles(package[w], sources2, minimum2)
               p      == chain[u].keys[keyId].public_key
               p2     == chain[w].keys[key2].public_key
    <2>6. /\ SignatureOf(s) =
                 [signed |-> SigningInput(files, keyId),
                  signature |-> LowForm(p, SigningInput(files, keyId))]
          /\ SignatureOf(d) =
                 [signed |-> SigningInput(files2, key2),
                  signature |-> LowForm(p2, SigningInput(files2, key2))]
          /\ s.tarball = WithSignature(files, SignatureOf(s))
          /\ d.tarball = WithSignature(files2, SignatureOf(d))
      BY <2>3, <2>5 DEF Holds
    <2> HIDE DEF files, files2, p, p2
    <2>7. Normalized(LowForm(p, SigningInput(files, keyId))) =
              Normalized(LowForm(p2, SigningInput(files2, key2)))
      BY <1>1, <2>1, <2>6
    <2>8. p = p2 /\ SigningInput(files, keyId) = SigningInput(files2, key2)
      BY <2>7 DEF Normalized, InForm, LowForm
    <2>9. files = files2 /\ SignatureOf(s) = SignatureOf(d)
      BY <2>6, <2>8 DEF SigningInput
    <2>10. QED
      BY <2>1, <2>6, <2>9
  <1>2. BundleInv => OneSigningOneBundle
    BY <1>1 DEF OneSigningOneBundle
  <1>3. QED
    BY <1>2, BundleInvariance, PTL
=============================================================================
