----------------------------- MODULE ConfigDoc -----------------------------
(***************************************************************************)
(* What config.yaml holds and what one edit makes of it: the pure part of  *)
(* the configuration store.                                                *)
(*                                                                         *)
(* A document is a function from a class of entries (a list of the file)   *)
(* to the sequence of its entries.  An entry keeps its name, its kind, the *)
(* fields that are filled in, its three keychain handles, the definition   *)
(* its last test was of, and whether it is the default storage.  For a key *)
(* the fields hold its public half.                                        *)
(*                                                                         *)
(* Sources: engine/config/model.go, crud.go, keys.go, validate.go,         *)
(* readiness.go, credentials.go.                                           *)
(***************************************************************************)
EXTENDS Naturals, SequencesExt

Class == {"environments", "storage", "keys"}

\* No handle, and no test recorded.
Blank == <<>>
Never == {}

Entry(name, kind, fields) ==
  [name |-> name, kind |-> kind, fields |-> fields, ref |-> Blank, admin |-> Blank,
   jump |-> Blank, probe |-> Never, default |-> FALSE]

\* The file a first start writes.
EmptyDoc == [c \in Class |-> <<>>]

Names(doc, c) == {doc[c][i].name : i \in DOMAIN doc[c]}
IndexOf(doc, c, n) == CHOOSE i \in DOMAIN doc[c] :
  doc[c][i].name = n /\ \A j \in 1 .. (i - 1) : doc[c][j].name # n
Named(doc, c, n) == doc[c][IndexOf(doc, c, n)]

\* DefaultStorage: the one a new capture pre-selects, if there is one.
DefaultStorage(doc) == {i \in DOMAIN doc["storage"] : doc["storage"][i].default}

\* Identities: the keys a capture can seal to without unlocking anything.
Identities(doc) == SelectSeq(doc["keys"], LAMBDA k : k.kind = "identity")
-----------------------------------------------------------------------------
(***************************************************************************)
(* Names and handles.  A name is a sequence of words.  A handle says what  *)
(* the secret is for, the kind of the entry, and its name with the case,   *)
(* the spaces and the punctuation taken out: two names can have one slug.  *)
(* An SSH environment and an SSH storage of one name have one handle.      *)
(***************************************************************************)
NoName == <<>>
Slug(name) == IF name = <<"Prod">> THEN <<"prod">> ELSE name
Handle(use, kind, name) == <<use, kind, name>>
ValidHandle(h) == Len(h) = 3 /\ h[3] # NoName

SuggestHandle(kind, name) == Handle("connect", kind, Slug(name))
SuggestStorageHandle(kind, name) == Handle("connect", kind, Slug(name))
SuggestKeyHandle(kind, name) == Handle("key", kind, Slug(name))

\* The Admin API's credential is filed under the environment's name as it is.
AdminHandle(e) == Handle("admin", e.kind, e.name)

\* The handles an entry refers to.
Refs(e) == {e.ref, e.admin, e.jump} \ {Blank}
-----------------------------------------------------------------------------
(***************************************************************************)
(* Validation: the fields each kind needs, and the fields of other kinds   *)
(* it refuses to carry.                                                    *)
(***************************************************************************)
Needs == [local      |-> {"serverFolder"},
          ssh        |-> {"host", "user", "serverFolder"},
          docker     |-> {"container"},
          kubernetes |-> {"namespace", "workload"}]
Refuses == [local      |-> {"host", "namespace", "container", "context", "workload", "dockerEndpoint"},
            ssh        |-> {"namespace", "container", "context", "workload", "dockerEndpoint"},
            docker     |-> {"host", "namespace", "context", "workload", "serverFolder"},
            kubernetes |-> {"host", "container", "serverFolder", "dockerEndpoint"}]
StorageNeeds == [disk  |-> {"folder"}, ssh |-> {"host", "user", "folder"},
                 s3    |-> {"bucket"}, azure |-> {"container"}]
StorageRefuses == [disk  |-> {"host", "bucket", "container", "endpoint"},
                   ssh   |-> {"bucket", "container", "endpoint"},
                   s3    |-> {"folder", "container"},
                   azure |-> {"folder", "bucket"}]

ValidRefs(e) == \A h \in Refs(e) \ {e.jump} : ValidHandle(h)

ValidEnvironment(e) ==
  /\ e.name # NoName /\ e.kind \in DOMAIN Needs
  /\ Needs[e.kind] \subseteq e.fields
  /\ e.fields \cap Refuses[e.kind] = {}
  /\ "relativeKcPath" \notin e.fields
  /\ e.kind = "ssh" => {"unknownAuth", "jumpHostWithoutHost"} \cap e.fields = {}
  /\ e.kind = "docker" => "unknownRuntime" \notin e.fields
  /\ e.kind = "kubernetes" => "bareWorkload" \notin e.fields
  /\ ValidRefs(e)

ValidStorage(e) ==
  /\ e.name # NoName /\ e.kind \in DOMAIN StorageNeeds
  /\ StorageNeeds[e.kind] \subseteq e.fields
  /\ e.fields \cap StorageRefuses[e.kind] = {}
  /\ e.kind = "ssh" => "unknownAuth" \notin e.fields
  /\ e.kind = "s3" => {"region", "endpoint"} \cap e.fields # {} /\ "smallParts" \notin e.fields
  /\ e.kind = "azure" => {"account", "endpoint"} \cap e.fields # {}
  /\ ValidRefs(e)

ValidKey(k) ==
  /\ k.name # NoName
  /\ \/ k.kind = "identity" /\ k.fields # {}
     \/ k.kind = "passphrase" /\ k.fields = {}
  /\ k.ref # Blank /\ ValidHandle(k.ref)

ValidEntry(c, e) ==
  CASE c = "environments" -> ValidEnvironment(e)
    [] c = "storage"      -> ValidStorage(e)
    [] c = "keys"         -> ValidKey(e)

\* Validate: every entry is right, names are unique in a list, one storage at most is the default.
Validate(doc) ==
  /\ \A c \in Class : /\ \A i \in DOMAIN doc[c] : ValidEntry(c, doc[c][i])
                      /\ \A i, j \in DOMAIN doc[c] : doc[c][i].name = doc[c][j].name => i = j
  /\ \A i, j \in DefaultStorage(doc) : i = j
-----------------------------------------------------------------------------
\* EnvironmentReadiness: only what a definition may leave empty and no adapter can default.
EnvironmentReady(e) ==
  e.kind = "ssh" =>
    /\ {"auth.key", "auth.agent", "auth.password"} \cap e.fields # {}
    /\ {"auth.key", "auth.password"} \cap e.fields # {} => e.ref # Blank
    /\ {"jumpHost.key", "jumpHost.password"} \cap e.fields # {} => e.jump # Blank

StorageReady(e) ==
  CASE e.kind = "disk" -> TRUE
    [] e.kind = "ssh"  -> /\ {"auth.key", "auth.agent", "auth.password"} \cap e.fields # {}
                          /\ "auth.agent" \notin e.fields => e.ref # Blank
    [] OTHER           -> e.ref # Blank
-----------------------------------------------------------------------------
(***************************************************************************)
(* The edits.  Each has a guard of its own, under which the function it is *)
(* given returns an error and nothing is saved.                            *)
(***************************************************************************)
CanAdd(doc, c, e) == e.name \notin Names(doc, c)
CanSave(doc, c, orig, e) == orig \in Names(doc, c) /\ (e.name # orig => CanAdd(doc, c, e))

\* What a test established, for the entry it was recorded on: only the default flag is no part of it.
Definition(e) == [e EXCEPT !.probe = Never, !.default = FALSE]

(***************************************************************************)
(* ReachabilityChanged compares two printed values.  A jump host is a      *)
(* pointer inside the value and prints as its address, so an entry that    *)
(* has one always counts as changed.                                       *)
(***************************************************************************)
ReachabilityChanged(a, b) ==
  Definition(a) # Definition(b) \/ "jumpHost" \in a.fields \cup b.fields

\* The stamp an edited entry keeps.
Stamped(prev, e) ==
  [e EXCEPT !.probe = IF ReachabilityChanged(prev, e) THEN Never
                      ELSE IF @ = Never THEN prev.probe ELSE @]

\* makeDefaultExclusive.
OnlyDefault(list, n) == [i \in DOMAIN list |-> [list[i] EXCEPT !.default = list[i].name = n]]

AddEnvironment(doc, e) == [doc EXCEPT !["environments"] = Append(@, e)]
AddKey(doc, k) == [doc EXCEPT !["keys"] = Append(@, k)]
AddStorage(doc, s) ==
  LET list == Append(doc["storage"], s)
  IN  [doc EXCEPT !["storage"] =
        IF s.default \/ Len(list) = 1 THEN OnlyDefault(list, s.name) ELSE list]

SaveEnvironment(doc, orig, e) ==
  LET i == IndexOf(doc, "environments", orig)
  IN  [doc EXCEPT !["environments"][i] = Stamped(@, e)]
SaveKey(doc, orig, k) ==
  [doc EXCEPT !["keys"][IndexOf(doc, "keys", orig)] = k]
SaveStorage(doc, orig, s) ==
  LET i == IndexOf(doc, "storage", orig)
      list == [doc["storage"] EXCEPT ![i] = Stamped(@, s)]
  IN  [doc EXCEPT !["storage"] = IF s.default THEN OnlyDefault(list, s.name) ELSE list]

\* uniqueName: the first "<name> copy" that is free.
UniqueName(doc, c, n) ==
  LET Copy(k) == n \o <<"copy">> \o (IF k = 1 THEN <<>> ELSE <<ToString(k)>>)
  IN  Copy(CHOOSE k \in 1 .. (Len(doc[c]) + 1) :
             /\ Copy(k) \notin Names(doc, c)
             /\ \A j \in 1 .. (k - 1) : Copy(j) \in Names(doc, c))

\* A duplicate prompts for its own credentials, and has never been tested.
Uncredentialed(e, n) ==
  [e EXCEPT !.name = n, !.ref = Blank, !.jump = Blank, !.probe = Never, !.default = FALSE]
DuplicateEnvironment(doc, n) ==
  LET new == UniqueName(doc, "environments", n)
  IN  AddEnvironment(doc, [Uncredentialed(Named(doc, "environments", n), new) EXCEPT !.admin = Blank])
DuplicateStorage(doc, n) ==
  LET new == UniqueName(doc, "storage", n)
  IN  [doc EXCEPT !["storage"] = Append(@, Uncredentialed(Named(doc, "storage", n), new))]

\* A storage cannot be deleted while it is the default one of several.
CanDeleteStorage(doc, n) == Named(doc, "storage", n).default => Len(doc["storage"]) = 1

DeleteEnvironment(doc, n) ==
  [doc EXCEPT !["environments"] = RemoveAt(@, IndexOf(doc, "environments", n))]
DeleteStorage(doc, n) == [doc EXCEPT !["storage"] = RemoveAt(@, IndexOf(doc, "storage", n))]
DeleteKey(doc, n) == [doc EXCEPT !["keys"] = RemoveAt(@, IndexOf(doc, "keys", n))]

\* The handles a delete goes on to forget: for storage, not the jump host's.
ForgottenRefs(c, e) == IF c = "environments" THEN Refs(e) ELSE {e.ref} \ {Blank}

SetDefaultStorage(doc, n) == [doc EXCEPT !["storage"] = OnlyDefault(@, n)]

\* RecordEnvironmentProbe and RecordStorageProbe find the entry by its name alone.
RecordEnvironmentProbe(doc, n, def) ==
  [doc EXCEPT !["environments"][IndexOf(doc, "environments", n)].probe = {def}]
RecordStorageProbe(doc, n, def) ==
  [doc EXCEPT !["storage"][IndexOf(doc, "storage", n)].probe = {def}]
-----------------------------------------------------------------------------
\* CheckCredentials: the handles of the document the keychain cannot answer.
Missing(doc, keychain) ==
  LET Asked(c, e) == IF c = "environments" THEN Refs(e) ELSE {e.ref} \ {Blank}
  IN  UNION {UNION {Asked(c, doc[c][i]) : i \in DOMAIN doc[c]} : c \in {"environments", "storage"}}
        \ DOMAIN keychain
=============================================================================
