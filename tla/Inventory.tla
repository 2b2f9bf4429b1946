------------------------------ MODULE Inventory ------------------------------
(***************************************************************************)
(* The inventory of a captured realm: which secrets it carries, what the   *)
(* Admin API can confirm of them, the verdict a reader is shown, and the   *)
(* reveal of one secret later on.                                          *)
(*                                                                         *)
(* The realm is the places a secret may sit (slots), each with what the    *)
(* export put there.  Two key providers may have one name, and a name may  *)
(* hold the bracket the ledger's locations are written with.               *)
(***************************************************************************)
EXTENDS Naturals, Sequences, FiniteSets, FiniteSetsExt, TLC

CONSTANTS
  Client,
  Public,      \* those of them that have no secret
  Bracketable, \* clients and key providers whose name may hold a "]"
  MaxOdd,      \* bound: what of a realm is unlike the rest
  MaxReveals   \* bound: reveals

VARIABLES
  realm,      \* realm[s]: "real", "" for nothing, "masked" or "odd" (no placeholder IsMasked knows)
  keys,       \* keys[k]: [type, active, name] of a key provider
  higher,     \* the key provider of the higher priority
  bracket,    \* the one whose name does, or ""
  step,       \* "exported", "reached", "verified", "scanned", "built"
  verified,   \* source.SecretVerification
  live,       \* the clients the server had when asked
  flagged,    \* the locations VerifySecrets returned
  found,      \* the dependencies the scan returned
  scanned,    \* source.DependencyScan = "completed"
  manifest,   \* [ledger, dependencies, continuity, status], once it is built
  allowed,    \* the preference that lets a secret be revealed
  shown,      \* the value on the screen: [at, value], or Nothing
  log         \* the locations of the audit log's reveals

vars == <<realm, keys, higher, bracket, step, verified, live, flagged, found, scanned, manifest,
          allowed, shown, log>>

KeyProvider == {"k1", "k2"}   \* in the order of the realm file
Slot ==
  {"client-secret", "registration-token"} \X (Client \ Public)
    \cup {"key-private"} \X KeyProvider
    \cup {<<"ldap-bind", "ldap">>, <<"idp-secret", "idp">>, <<"smtp", "realm">>,
          <<"authcfg", "otp">>, <<"realm-attribute", "realm">>}

Kind(s) == s[1]
IsMasked(v) == v = "masked"
Nothing == [at |-> <<>>, value |-> ""]
Unbuilt == [ledger |-> <<>>, dependencies |-> {}, continuity |-> FALSE, status |-> <<>>]

OwnerName(s) == IF Kind(s) = "key-private" THEN keys[s[2]].name ELSE s[2]

\* Where the ledger says a secret is: a component goes by its name and its field.
Location(s) ==
  IF Kind(s) = "key-private" THEN <<Kind(s), OwnerName(s), keys[s[2]].type>> ELSE s

\* buildSecretLedger: a confidential client is listed whatever it holds, the rest
\* only when there is something.
Listed == {s \in Slot : Kind(s) = "client-secret" \/ realm[s] # ""}

Entry(s, masked) ==
  [carried |-> realm[s] # "" /\ ~IsMasked(realm[s]) /\ Location(s) \notin masked,
   masked |-> IsMasked(realm[s]) \/ Location(s) \in masked]

\* The ledger, with the locations a verification flagged.
Ledger(masked) == [s \in Listed |-> Entry(s, masked)]

TypeOK ==
  /\ realm \in [Slot -> {"real", "", "masked", "odd"}]
  /\ step \in {"exported", "reached", "verified", "scanned", "built"}
  /\ verified \in {"skipped", "passed", "partial"} /\ scanned \in BOOLEAN
  /\ flagged \subseteq {Location(s) : s \in Slot} /\ live \subseteq Client
  /\ found \subseteq {"theme", "provider"} /\ Len(log) <= MaxReveals

\* The theme and the provider of its own that the realm refers to.
Needs == {"theme", "provider"}

KeyShapes == [type : {"RSA", "HMAC", "keystore"}, active : BOOLEAN]
Standard == [type |-> "RSA", active |-> TRUE]

Starts(secrets, shapes, names, first, odd) ==
  /\ realm = secrets
  /\ keys = [k \in KeyProvider |-> [type |-> shapes[k].type, active |-> shapes[k].active, name |-> names[k]]]
  /\ higher = first /\ bracket = odd
  /\ step = "exported" /\ verified = "skipped" /\ live = {} /\ flagged = {}
  /\ found = {} /\ scanned = FALSE /\ manifest = Unbuilt
  /\ allowed = TRUE /\ shown = Nothing /\ log = <<>>

\* A realm that is ordinary but for a few things: what a slot holds, what a key is,
\* which of the keys comes first, a name that two of them have, a bracket in one.
Init ==
  \E n \in 0..MaxOdd :
    \E odd \in kSubset(n, Slot), shapes \in [KeyProvider -> KeyShapes], b \in Bracketable \cup {""},
       first \in KeyProvider, second \in KeyProvider :
      /\ Cardinality({k \in KeyProvider : shapes[k] # Standard}) + Cardinality({b} \ {""})
           + Cardinality({first} \ {"k1"}) + Cardinality({second} \ {"k2"}) <= MaxOdd - n
      /\ \E what \in [odd -> {"", "masked", "odd"}] :
           Starts([s \in Slot |-> IF s \in odd THEN what[s] ELSE "real"], shapes,
                  [k \in KeyProvider |-> IF k = "k1" THEN "k1" ELSE second], first, b)

Capture == <<realm, keys, higher, bracket>>
Viewing == <<allowed, shown, log>>
-----------------------------------------------------------------------------
(* The capture: the Admin API is optional, and so is each of its answers.  *)

\* Client.Check: a token is asked for, once.
Reachable == step = "exported" /\ step' = "reached"
             /\ UNCHANGED <<Capture, verified, live, flagged, found, scanned, manifest, Viewing>>

Unreachable == step = "exported" /\ step' = "scanned"
               /\ UNCHANGED <<Capture, verified, live, flagged, found, scanned, manifest, Viewing>>

\* bracketed cuts a name at its first "]".
Parsed(c) == IF c = bracket THEN "cut" ELSE c

\* Mutant: a secret that was not carried is no finding.
FlagsTheMasked(onServer) ==
  LET ledger == Ledger({})
      clients == {s \in Listed : Kind(s) = "client-secret" /\ ledger[s].masked}
  IN  {Location(s) : s \in clients}

\* What VerifySecrets flags: clients without a real secret or not on the server,
\* and keys without theirs.
Flags(onServer) ==
  LET ledger == Ledger({})
      clients == {s \in Listed : /\ Kind(s) = "client-secret"
                                 /\ ~ledger[s].carried \/ Parsed(s[2]) \notin onServer}
      private == {s \in Listed : Kind(s) = "key-private" /\ ledger[s].masked}
  IN  {Location(s) : s \in clients \cup private}

VerifySecrets(onServer) ==
  /\ step = "reached" /\ step' = "verified"
  /\ live' = onServer /\ flagged' = Flags(onServer)
  /\ verified' = IF Flags(onServer) = {} THEN "passed" ELSE "partial"
  /\ UNCHANGED <<Capture, found, scanned, manifest, Viewing>>

\* It was not asked for, or the server did not answer.
VerifyNothing ==
  /\ step = "reached" /\ step' = "verified"
  /\ UNCHANGED <<Capture, verified, live, flagged, found, scanned, manifest, Viewing>>

\* The server says which themes it has, and perhaps which providers: no answer about
\* those is an answer of none.
DetectDependencies(named) ==
  /\ step = "verified" /\ step' = "scanned"
  /\ found' = Needs \ ({"provider"} \ named) /\ scanned' = TRUE
  /\ UNCHANGED <<Capture, verified, live, flagged, manifest, Viewing>>

DetectNothing ==
  /\ step = "verified" /\ step' = "scanned"
  /\ UNCHANGED <<Capture, verified, live, flagged, found, scanned, manifest, Viewing>>
-----------------------------------------------------------------------------
(* The manifest.                                                           *)

Rank(k) == IF keys[k].type = "RSA" THEN 3 ELSE IF keys[k].type = "keystore" THEN 2 ELSE 1

\* A over B for ActiveSigningKey.
Outranks(a, b) == Rank(a) > Rank(b) \/ (Rank(a) = Rank(b) /\ a = higher)

ActiveKeys == {k \in KeyProvider : keys[k].active}
ActiveSigningKey == CHOOSE k \in ActiveKeys : \A o \in ActiveKeys \ {k} : Outranks(k, o)

\* privateMaterialPresent looks for a key, a secret, or the password of a keystore.
PrivateCarried(k) == realm[<<"key-private", k>>] # "" /\ ~IsMasked(realm[<<"key-private", k>>])

TokenContinuity == ActiveKeys # {} /\ PrivateCarried(ActiveSigningKey)

CategoryOf(kind) ==
  CASE kind = "client-secret" -> "Clients"
    [] kind = "key-private" -> "Key providers"
    [] kind = "ldap-bind" -> "User federation"
    [] kind = "idp-secret" -> "Identity providers"
    [] kind = "smtp" -> "SMTP"
    [] OTHER -> "Authentication flows"

MaskedIn(ledger) == {s \in DOMAIN ledger : ledger[s].masked}

Categories == {CategoryOf(Kind(s)) : s \in Slot}
                \cup {"Secret verification", "Token continuity", "External dependency detection"}

\* buildCompleteness: the status of each category that may be other than captured.
Completeness(ledger, continuity) ==
  LET degraded == {CategoryOf(Kind(s)) : s \in MaskedIn(ledger)}
      unchecked == (IF verified = "skipped" THEN {"Secret verification"} ELSE {})
                     \cup (IF scanned THEN {} ELSE {"External dependency detection"})
      partial == degraded
                   \cup (IF degraded # {} THEN {"Secret verification"} ELSE {})
                   \cup (IF continuity THEN {} ELSE {"Token continuity"})
  IN  [c \in Categories |->
         IF c \in unchecked THEN "notChecked" ELSE IF c \in partial THEN "partial" ELSE "captured"]

\* Recompute: only what is partial or missing tells against a snapshot, and nothing
\* is ever reported missing.
Verdict(status) == IF \E c \in DOMAIN status : status[c] = "partial" THEN "Partial" ELSE "Complete"

\* buildDependencies: the keystores of the realm file are added to what a scan found.
Dependencies ==
  IF scanned THEN found \cup {keys[k].name : k \in {j \in KeyProvider : keys[j].type = "keystore"}} ELSE {}

Build ==
  /\ step = "scanned" /\ step' = "built"
  /\ manifest' = [ledger |-> Ledger(flagged), dependencies |-> Dependencies,
                  continuity |-> TokenContinuity, status |-> Completeness(Ledger(flagged), TokenContinuity)]
  /\ UNCHANGED <<Capture, verified, live, flagged, found, scanned, Viewing>>
-----------------------------------------------------------------------------
(* The reveal.                                                             *)

\* The first entry, and the first place of the realm, of a location.
FirstAt(at) == LET here == {s \in Listed : Location(s) = at}
               IN  IF <<"key-private", "k1">> \in here THEN <<"key-private", "k1">> ELSE CHOOSE s \in here : TRUE

Revealable(s) == manifest.ledger[s].carried /\ ~manifest.ledger[s].masked

\* lookupSecret takes the location apart again.
Resolves(s) == OwnerName(s) # bracket

MayShow(s) == allowed /\ Revealable(s) /\ Resolves(s) /\ realm[s] # ""

\* A row of the ledger is asked for.  The record is written before the value is
\* shown, and without one nothing is.
Reveal(row, recorded) ==
  /\ step = "built" /\ row \in Listed /\ Len(log) < MaxReveals
  /\ LET s == FirstAt(Location(row))
     IN  IF MayShow(s) /\ recorded
         THEN shown' = [at |-> Location(row), value |-> realm[s]] /\ log' = Append(log, Location(row))
         ELSE shown' = Nothing /\ UNCHANGED log
  /\ UNCHANGED <<Capture, step, verified, live, flagged, found, scanned, manifest, allowed>>

\* The preference is changed.
Allow == step = "built" /\ allowed' = ~allowed
         /\ UNCHANGED <<Capture, step, verified, live, flagged, found, scanned, manifest, shown, log>>

Next ==
  \/ Reachable \/ Unreachable \/ VerifyNothing \/ DetectNothing \/ Build \/ Allow
  \/ \E onServer \in SUBSET (Client \ Public) : VerifySecrets(onServer)
  \/ \E named \in SUBSET {"provider"} : DetectDependencies(named)
  \/ \E row \in Slot, recorded \in BOOLEAN : Reveal(row, recorded)

Spec == Init /\ [][Next]_vars
-----------------------------------------------------------------------------
(* What is checked.                                                        *)

Built == step = "built"
IsComplete == Built /\ Verdict(manifest.status) = "Complete"

\* A manifest that says Complete lists no placeholder, has the material of the key
\* tokens are signed with, and, if the secrets were verified, has one of every client
\* and found every client on the server (VerifySecrets, buildCompleteness, Recompute).
CompleteIsWhole ==
  IsComplete =>
    /\ \A s \in Slot : realm[s] # "masked"
    /\ \E k \in ActiveKeys : /\ \A o \in ActiveKeys \ {k} : Outranks(k, o)
                            /\ realm[<<"key-private", k>>] # ""
    /\ verified # "skipped" => \A c \in Client \ Public : c \in live /\ realm[<<"client-secret", c>>] # ""
-----------------------------------------------------------------------------
(* What the sources say and the code does not keep: see the README.        *)

\* "An unrecognised shape is reported as could not verify by the caller rather than
\* assumed good" (build.go:24): it is listed as carried.
UnrecognisedIsNotCarried == IsComplete => \A s \in Slot : realm[s] # "odd"

\* "Masked records that the source exported a placeholder rather than a real value"
\* (model.go:143): so does a client that is not on the server.
MaskedIsMasked == Built => \A s \in MaskedIn(manifest.ledger) : IsMasked(realm[s])

\* "Every carried secret was confirmed to be a real value" (capture.go:734): only
\* clients and keys are looked at.
PassedMeansNoneMasked == Built /\ verified = "passed" => MaskedIn(manifest.ledger) = {}

\* A secret that is not carried leaves the verdict at Complete when nobody verified.
CompleteMeansCarried == IsComplete => \A s \in Listed : manifest.ledger[s].carried

\* "offering Reveal on it would promise something that cannot be delivered"
\* (secrets.go:30): a name with a bracket in it is not found again.
OfferedIsDelivered == Built => \A s \in Listed : Revealable(s) => Resolves(s)

\* The row that is asked for is the one that is shown: two key providers may have
\* one name, and the location holds no more than that.
RevealIsOfTheEntry ==
  [][\A row \in Slot, r \in BOOLEAN : Reveal(row, r) /\ shown' # Nothing => FirstAt(Location(row)) = row]_vars

\* "PrivateCarried is the token-continuity signal" (model.go:165): the password of a
\* keystore passes for the keys in it.
ContinuityHasTheKey == Built /\ manifest.continuity => keys[ActiveSigningKey].type # "keystore"

\* A keystore is "detectable from the realm alone, without any Admin API at all"
\* (build.go:567): it is reported only after a scan.
KeystoreIsAlwaysReported ==
  Built => \A k \in KeyProvider : keys[k].type = "keystore" => keys[k].name \in manifest.dependencies

\* DependencyScanRan "distinguishes scanned and found nothing from did not scan"
\* (build.go:54): a call about providers that fails counts as scanned.
FoundNothingIsNothing == Built /\ scanned => Needs \subseteq manifest.dependencies
=============================================================================
