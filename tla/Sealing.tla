------------------------------- MODULE Sealing -------------------------------
(***************************************************************************)
(* A bundle from the staging folder to an open session: what a capture     *)
(* seals, what a storage may give back, and which keys open it.            *)
(*                                                                         *)
(* A document is a value, and its digest is the document: digests do not   *)
(* collide.  An archive is a sequence of named documents, in name order.   *)
(* The stream around it may be cut, its header may be damaged, and the     *)
(* documents of an archive that is not encrypted may be changed.           *)
(***************************************************************************)
EXTENDS Naturals, Sequences, FiniteSets, SequencesExt

CONSTANTS
  RealmFiles,    \* names of the files the export wrote
  Versions,      \* what a file may hold, all of one size
  Longer,        \* and something of another size
  Identity,      \* age identities, each of which is its recipient too
  Passphrase,
  HeaderHolds,   \* the stanzas that fit in the 4096 bytes verifyHeader reads
  MaxRecipients, \* bound: recipients of one bundle
  MaxCandidates, \* bound: keys an open may try on its own
  MaxHarm,       \* bound: things that go wrong with the bytes
  MaxOpens       \* bound: opens

VARIABLES
  enc,        \* the encryption asked for: [mode, to], to a sequence of keys
  staging,    \* staging[n]: the file in the staging folder
  leaves,     \* leaves[n]: what Stage hashed and recorded (Builder.artifacts)
  stage,      \* "staging", "described", "sealed", "readBack", "stored", "refused"
  archive,    \* the archive that was written, and is stored
  readable,   \* how many of its documents can still be read
  header,     \* the header of the sealed stream is whole
  request,    \* what an open has to try: [passphrase, identities, candidates]
  session,    \* [state: "closed", "failed" or "open", contents: the working files, ok: the verdict]
  unlocked,   \* the candidate that opened it, or ""
  remembered, \* the keys the application keeps for later opens
  harm,
  opens       \* how many opens were asked for

vars == <<enc, staging, leaves, stage, archive, readable, header, request, session, unlocked,
          remembered, harm, opens>>

Documents == {"manifest.json", "dependencies.json", "provenance.json"}
Uncovered == {"integrity.json", "envelope.json"}
Names == RealmFiles \cup Documents \cup Uncovered

\* The order of the archive: the names of PortCloak's documents come before realm/.
NameOrder ==
  <<"dependencies.json", "envelope.json", "integrity.json", "manifest.json", "provenance.json">>
    \o SetToSeq(RealmFiles)

Doc(n, c) == [name |-> n, content |-> c]
Described(n) == <<"document", n>>
File(v) == <<"file", v>>
Changed == <<"changed">>
Closed == [state |-> "closed", contents |-> <<>>, ok |-> FALSE]
NoRequest == [passphrase |-> "", identities |-> {}, candidates |-> <<>>]

\* SealedLeaves: the record cannot hold its own digest, nor the envelope's.  The others
\* keep their places.
SealedLeaves(docs) == [i \in {j \in DOMAIN docs : docs[j].name \notin Uncovered} |-> docs[i]]

Members(docs) == {docs[i] : i \in DOMAIN docs}

\* The root folds name, digest and size of every leaf: a bag of leaves.
RootOf(docs) == [d \in Members(docs) |-> Cardinality({i \in DOMAIN docs : docs[i] = d})]

NewIntegrityTree(docs) == [root |-> RootOf(docs), artifacts |-> Members(docs)]
NoTree == [root |-> <<>>, artifacts |-> {}]

\* The archive, or the leaves, of what is staged: its names in order.
Artifacts(of) ==
  [i \in {j \in DOMAIN NameOrder : NameOrder[j] \in DOMAIN of} |-> Doc(NameOrder[i], of[NameOrder[i]])]

WithDoc(f, n, c) == [m \in DOMAIN f \cup {n} |-> IF m = n THEN c ELSE f[m]]

TypeOK ==
  /\ enc.mode \in {"", "passphrase", "recipients"}
  /\ DOMAIN leaves \subseteq Names /\ DOMAIN staging = DOMAIN leaves
  /\ stage \in {"staging", "described", "sealed", "readBack", "stored", "refused"}
  /\ readable \in 0..Len(archive) /\ header \in BOOLEAN
  /\ remembered \subseteq Identity \cup Passphrase /\ harm \in 0..MaxHarm

Encryptions ==
  {[mode |-> "", to |-> <<>>]}
    \cup [mode : {"passphrase"}, to : {<<p>> : p \in Passphrase}]
    \cup [mode : {"recipients"}, to : BoundedSeq(Identity, MaxRecipients) \ {<<>>}]

Starts(how) ==
  /\ enc = how
  /\ staging = <<>> /\ leaves = <<>> /\ stage = "staging"
  /\ archive = <<>> /\ readable = 0 /\ header = TRUE
  /\ request = NoRequest /\ session = Closed /\ unlocked = ""
  /\ remembered = {} /\ harm = 0 /\ opens = 0

Init == \E how \in Encryptions : Starts(how)

Harm == harm < MaxHarm /\ harm' = harm + 1
OpenSame == UNCHANGED <<request, session, unlocked, remembered, opens>>
-----------------------------------------------------------------------------
(* The capture.                                                            *)

\* A file of the export is staged; staged again, it replaces what was recorded.
Stage(n, v) ==
  /\ stage = "staging" /\ n \in RealmFiles
  /\ staging' = WithDoc(staging, n, File(v)) /\ leaves' = WithDoc(leaves, n, File(v))
  /\ UNCHANGED <<enc, stage, archive, readable, header, harm>> /\ OpenSame

\* A staged file changes on the disk before it is sealed, and perhaps its size.
Spoil(n, v) ==
  /\ stage \in {"staging", "described"} /\ n \in DOMAIN staging \cap RealmFiles
  /\ staging[n] # File(v) /\ Harm
  /\ staging' = [staging EXCEPT ![n] = File(v)]
  /\ UNCHANGED <<enc, leaves, stage, archive, readable, header>> /\ OpenSame

WithDocuments(f) ==
  [n \in DOMAIN f \cup Documents |-> IF n \in Documents THEN Described(n) ELSE f[n]]

\* Mutant: the tree that goes in is the one the provenance was given.
TreeBeforeProvenance(f) ==
  LET staged == DOMAIN WithDocuments(f) \ {"provenance.json"}
  IN  NewIntegrityTree(SealedLeaves(Artifacts([n \in staged |-> WithDocuments(f)[n]])))

\* The tree is taken again once the provenance, which names its root, is staged.
TreeOf(f) == NewIntegrityTree(SealedLeaves(Artifacts(WithDocuments(f))))

\* seal stages the documents of the inventory, the tree, and the envelope, which
\* repeats the root.
WithRecords(f, tree) ==
  WithDoc(WithDoc(WithDocuments(f), "integrity.json", <<"tree", tree>>),
          "envelope.json", <<"envelope", tree.root>>)

Describe ==
  /\ stage = "staging" /\ DOMAIN staging = RealmFiles
  /\ leaves' = WithRecords(leaves, TreeOf(leaves)) /\ staging' = WithRecords(staging, TreeOf(leaves))
  /\ stage' = "described"
  /\ UNCHANGED <<enc, archive, readable, header, harm>> /\ OpenSame

KeptItsSize(n) == staging[n] = File(Longer) => leaves[n] = File(Longer)

\* Builder.Seal copies the files of the staging folder.  A file that changed size
\* stops it; one that kept its size goes in as it is.
Seal ==
  /\ stage = "described"
  /\ IF \A n \in DOMAIN staging : KeptItsSize(n)
     THEN archive' = Artifacts(staging) /\ readable' = Len(archive') /\ stage' = "sealed"
     ELSE stage' = "refused" /\ UNCHANGED <<archive, readable>>
  /\ UNCHANGED <<enc, staging, leaves, header, harm>> /\ OpenSame

\* verifyHeader counts the stanzas it sees at the start of the stream.
SeenStanzas == IF Len(enc.to) < HeaderHolds THEN Len(enc.to) ELSE HeaderHolds

VerifyDecryptable ==
  CASE enc.mode = "" -> TRUE
    [] enc.mode = "passphrase" -> header
    [] enc.mode = "recipients" -> header /\ SeenStanzas >= Len(enc.to)

\* The bundle is read back, and kept or removed.
ReadBack ==
  /\ stage = "sealed"
  /\ stage' = IF VerifyDecryptable THEN "readBack" ELSE "refused"
  /\ UNCHANGED <<enc, staging, leaves, archive, readable, header, harm>> /\ OpenSame

\* The upload compares the digest of what it sent with that of what was sealed.
Upload ==
  /\ stage = "readBack"
  /\ stage' = IF readable = Len(archive) /\ header THEN "stored" ELSE "refused"
  /\ UNCHANGED <<enc, staging, leaves, archive, readable, header, harm>> /\ OpenSame
-----------------------------------------------------------------------------
(* What happens to the bytes.                                              *)

OnItsWay == stage \in {"sealed", "stored"} /\ session = Closed
Still == UNCHANGED <<enc, staging, leaves, stage>> /\ OpenSame

\* The stream is cut, or damaged, after some of the documents.
Cut == OnItsWay /\ Harm /\ readable' \in 0..(readable - 1) /\ UNCHANGED <<archive, header>> /\ Still

HeaderHarmed == OnItsWay /\ header /\ Harm /\ header' = FALSE
                /\ UNCHANGED <<archive, readable>> /\ Still

\* An envelope may still be one when it has changed; of the others none need be.
ChangesOf(n) == {Changed} \cup (IF n = "envelope.json" THEN {<<"envelope">>} ELSE {})

\* A document of an archive in the clear is changed, dropped or added.  (Encryption
\* is authenticated: a change there ends the stream, which is a Cut.)
Edit ==
  /\ OnItsWay /\ stage = "stored" /\ enc.mode = "" /\ Harm
  /\ \/ \E i \in DOMAIN archive : \E c \in ChangesOf(archive[i].name) :
          archive' = ReplaceAt(archive, i, Doc(archive[i].name, c))
     \/ \E i \in DOMAIN archive : archive' = RemoveAt(archive, i)
     \/ \E n \in RealmFiles \cup {"realm/more"} : archive' = Append(archive, Doc(n, Changed))
  /\ readable' = Len(archive')
  /\ UNCHANGED header /\ Still
-----------------------------------------------------------------------------
(* The open.                                                               *)

\* age.Decrypt: a key of the mode the bundle has, that it was sealed to.
Fits(keys) == header /\ enc.mode # "" /\ keys \cap ToSet(enc.to) # {}

PositionOf(n) == CHOOSE i \in DOMAIN archive : archive[i].name = n
Holds(n) == \E i \in DOMAIN archive : archive[i].name = n
ReadableEnvelope ==
  Holds("envelope.json") /\ PositionOf("envelope.json") <= readable
    /\ archive[PositionOf("envelope.json")].content # Changed

\* ReadEnvelopeOnly with the keys of one attempt, {} for none.
Opens(keys) == (IF keys = {} THEN enc.mode = "" /\ header ELSE Fits(keys)) /\ ReadableEnvelope

\* candidatesInTryOrder: identities cost nothing to try.
TriedBefore(i, j) ==
  LET isIdentity(x) == request.candidates[x] \in Identity
  IN  IF isIdentity(i) = isIdentity(j) THEN i < j ELSE isIdentity(i)

\* unseal: nothing, what was typed, then the candidates one by one.
Typed == {{}} \cup (IF request.passphrase # "" THEN {{request.passphrase}} ELSE {})
              \cup (IF request.identities # {} THEN {request.identities} ELSE {})
OpensAsTyped == \E keys \in Typed : Opens(keys)
Opening == {i \in DOMAIN request.candidates : Opens({request.candidates[i]})}
Unsealed == OpensAsTyped \/ Opening # {}
FirstToOpen == CHOOSE i \in Opening : \A j \in Opening : ~TriedBefore(j, i)
UnlockedBy == IF OpensAsTyped THEN "" ELSE request.candidates[FirstToOpen]

\* Mutant: a leaf the bundle does not hold is passed over.
VerifyWhatIsThere(tree, observed) ==
  Members(observed) \subseteq tree.artifacts

\* IntegrityTree.Verify: the last document of a name is the one that is compared.
Verify(tree, observed) ==
  LET isLast(i) == \A j \in DOMAIN observed : observed[j].name = observed[i].name => j <= i
      seen == {observed[i] : i \in {j \in DOMAIN observed : isLast(j)}}
  IN  seen = tree.artifacts /\ RootOf(observed) = tree.root

\* loadDocuments: no integrity record is an empty tree, a broken one an error.
Tree == IF Holds("integrity.json") THEN archive[PositionOf("integrity.json")].content[2] ELSE NoTree

\* snapshot.Open extracts the whole archive, reads the records and verifies.
Extracts ==
  /\ readable = Len(archive)
  /\ Holds("integrity.json") => archive[PositionOf("integrity.json")].content # Changed
  /\ Holds("manifest.json") /\ archive[PositionOf("manifest.json")].content # Changed

\* The operator types keys, and the application adds those it holds.
Ask(p, ids, stored) ==
  /\ stage = "stored" /\ request = NoRequest /\ opens < MaxOpens
  /\ request' = [passphrase |-> p, identities |-> ids,
                 candidates |-> stored \o SetToSeq(remembered \ ToSet(stored))]
  /\ opens' = opens + 1
  /\ UNCHANGED <<enc, staging, leaves, stage, archive, readable, header, session, unlocked, remembered, harm>>

\* rememberKey: an open that needed no candidate keeps what was typed.
Kept == IF UnlockedBy # "" THEN {} ELSE request.identities \cup ({request.passphrase} \ {""})

Open ==
  /\ request # NoRequest /\ session = Closed
  /\ IF Unsealed /\ Extracts
     THEN /\ session' = [state |-> "open", contents |-> SealedLeaves(archive),
                         ok |-> Verify(Tree, SealedLeaves(archive))]
          /\ unlocked' = UnlockedBy /\ remembered' = remembered \cup Kept
     ELSE session' = [Closed EXCEPT !.state = "failed"] /\ UNCHANGED <<unlocked, remembered>>
  /\ UNCHANGED <<enc, staging, leaves, stage, archive, readable, header, request, harm, opens>>

\* A file of the working folder changes while the session is open.
Wear ==
  /\ session.state = "open" /\ Harm
  /\ \E i \in DOMAIN session.contents :
       session' = [session EXCEPT !.contents[i].content = Changed]
  /\ UNCHANGED <<enc, staging, leaves, stage, archive, readable, header, request, unlocked, remembered, opens>>

\* VerifyReport: the verdict of the open is repeated.
VerifyReport == session.ok

Close ==
  /\ session # Closed
  /\ session' = Closed /\ request' = NoRequest /\ unlocked' = ""
  /\ UNCHANGED <<enc, staging, leaves, stage, archive, readable, header, remembered, harm, opens>>

Next ==
  \/ \E n \in RealmFiles, v \in Versions : Stage(n, v)
  \/ \E n \in RealmFiles, v \in Versions \cup {Longer} : Spoil(n, v)
  \/ Describe \/ Seal \/ ReadBack \/ Upload
  \/ Cut \/ HeaderHarmed \/ Edit
  \/ \E p \in Passphrase \cup {""}, ids \in SUBSET Identity,
        stored \in BoundedSeq(Identity \cup Passphrase, MaxCandidates) : Ask(p, ids, stored)
  \/ Open \/ Wear \/ Close

Spec == Init /\ [][Next]_vars
-----------------------------------------------------------------------------
(* What is checked.                                                        *)

OpensNow == session = Closed /\ session' # Closed
Intact == harm = 0
GivenKeys == request.identities \cup ({request.passphrase} \ {""}) \cup ToSet(request.candidates)

\* A bundle that opens with a verdict of OK holds what was staged for it, all of
\* it, once, and nothing else (Builder.Seal, snapshot.Open, IntegrityTree.Verify).
OkIsWhatWasSealedStep ==
  OpensNow /\ session'.state = "open" /\ session'.ok =>
    LET given == session'.contents
    IN  /\ Members(given) = {Doc(n, leaves[n]) : n \in RealmFiles \cup Documents}
        /\ \A i, j \in DOMAIN given : given[i].name = given[j].name => i = j
OkIsWhatWasSealed == [][OkIsWhatWasSealedStep]_vars

\* A bundle nothing happened to opens, and is OK, with any of its keys, typed or
\* held; the key that is named fits, and none was needed if none is named (unseal).
UndamagedOpensStep ==
  OpensNow /\ Intact /\ (enc.mode = "" \/ GivenKeys \cap ToSet(enc.to) # {}) =>
    /\ session'.state = "open" /\ session'.ok
    /\ unlocked' # "" => unlocked' \in ToSet(enc.to) \cap ToSet(request.candidates)
    /\ unlocked' = "" => enc.mode = "" \/ \E keys \in Typed : Fits(keys)
UndamagedOpens == [][UndamagedOpensStep]_vars
-----------------------------------------------------------------------------
(* What the sources say and the code does not keep: see the README.        *)

\* "the strongest available check is that the header parses and names the expected
\* number of recipients" (crypto.go): only the first 4096 bytes are counted.
SealedIsAccepted == stage = "refused" => harm > 0

\* "Both are still covered - by the .sha256 sidecar over the sealed bundle, and by
\* the AEAD tag" (packer.go): no open reads the sidecar.
EnvelopeIsCovered ==
  session.state = "open" /\ session.ok =>
    \A i \in DOMAIN archive : archive[i].name \in Uncovered => archive[i].content = leaves[archive[i].name]

\* "wrong key and no key are different problems" (session.go, unopenableMessage): a
\* damaged bundle is reported as one no key opened.
FailsForWantOfAKey ==
  session.state = "failed" /\ ~Unsealed => enc.mode # "" /\ GivenKeys \cap ToSet(enc.to) = {}

\* "VerifyReport recomputes the integrity tree for an open snapshot" (verify.go).
ReportIsFresh == session.state = "open" => VerifyReport = Verify(Tree, session.contents)

\* "rememberKey keeps a key that has just proven itself against a real bundle"
\* (keys_controller.go): a bundle in the clear proves whatever was typed.
RememberedHasProven == remembered \subseteq ToSet(enc.to)

\* "it is the first document in the archive" (session.go, unseal).
EnvelopeIsFirst == stage = "stored" /\ Intact => archive[1].name = "envelope.json"
=============================================================================
