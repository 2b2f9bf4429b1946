---------------------------- MODULE ConfigStore ----------------------------
(***************************************************************************)
(* The configuration as it is edited: config.yaml and the keychain, shared *)
(* by every process on the machine, and each process's copy of the file.   *)
(*                                                                         *)
(* A window and a command may run at once.  Each reads the file when it    *)
(* starts and when it is told to reload, applies every edit to the copy it *)
(* holds, and writes that copy out whole.  A call of a screen touches the  *)
(* keychain and the file in an order of its own, and may fail, or its      *)
(* process be killed, between any two steps.  A test of a definition runs  *)
(* beside the calls for as long as the host takes to answer.               *)
(*                                                                         *)
(* Sources: engine/config/store.go, crud.go, keys.go,                      *)
(* app/config_controller.go, app/keys_controller.go.                       *)
(***************************************************************************)
EXTENDS ConfigDoc

CONSTANTS
  Proc,       \* the processes: a window, a command
  MaxCalls,   \* bound: the calls a behaviour makes of the screen it is about
  MaxKeyCalls, \* the same bound when that is the screen of the keys
  MaxUpsets   \* bound: its tests, jobs, crashes, reloads and edits by hand

VARIABLES
  screen,    \* the list a behaviour edits: the lists share nothing but the save
  file,      \* config.yaml: its document, and whether it can be read as YAML
  keychain,  \* the secret behind each handle that has one
  mem,       \* mem[p]: the document process p holds
  up,        \* the processes running
  call,      \* call[p]: the call p's operator is waiting for
  test,      \* test[p]: the definition p is testing, if any
  used,      \* the entries an unfinished job names
  calls,     \* how many calls have been made; also numbers the secrets typed
  upsets     \* how many tests, jobs, crashes, reloads and edits by hand there were

configVars == <<file, keychain, mem, up, call, test, used, calls, upsets>>
vars == <<screen, configVars>>

Name == {<<"prod">>, <<"stage">>}
Idle == [pc |-> "idle"]
Bound == IF screen = "keys" THEN MaxKeyCalls ELSE MaxCalls

TypeOK ==
  /\ DOMAIN file = {"doc", "readable"} /\ file.readable \in BOOLEAN
  /\ \A h \in DOMAIN keychain : ValidHandle(h) /\ keychain[h] \in 1 .. Bound
  /\ DOMAIN mem = Proc /\ up \subseteq Proc
  /\ \A p \in Proc : call[p].pc \in {"idle", "keychain", "update", "write", "forget"}
  /\ \A p \in Proc : (call[p] # Idle \/ test[p] # {}) => p \in up
  /\ used \subseteq Name /\ calls \in 0 .. Bound /\ upsets \in 0 .. MaxUpsets

\* A first start has written the file, and nothing has been defined yet.
Clean ==
  /\ file = [doc |-> EmptyDoc, readable |-> TRUE]
  /\ keychain = <<>>
  /\ mem = [p \in Proc |-> EmptyDoc]
  /\ up = Proc
  /\ call = [p \in Proc |-> Idle]
  /\ test = [p \in Proc |-> {}]
  /\ used = {} /\ calls = 0 /\ upsets = 0

Init == screen \in Class /\ Clean
-----------------------------------------------------------------------------
(***************************************************************************)
(* What an operator may type: a kind with the fields it needs or, when the *)
(* kind was changed and nothing else, with those of another.               *)
(***************************************************************************)
Draft == CASE screen = "environments" ->
                {<<"ssh", Needs.ssh>>, <<"docker", Needs.ssh>>}
           [] screen = "storage" ->
                {<<"disk", StorageNeeds.disk>>, <<"s3", StorageNeeds.disk>>}
           [] OTHER -> {}

\* A typed secret goes to the entry's handle, and one is made up where there is none.
WithRef(e) ==
  [e EXCEPT !.ref = IF @ # Blank THEN @
                    ELSE IF screen = "environments" THEN SuggestHandle(e.kind, e.name)
                    ELSE SuggestStorageHandle(e.kind, e.name)]

(***************************************************************************)
(* A call that has been made: what it does, the entry it names, the one it *)
(* brings, and the handle it first stores a secret behind, if any.  "next" *)
(* is the document it is about to write, "forget" the handles it drops     *)
(* from the keychain once that is written.                                 *)
(***************************************************************************)
Begin(p, op, orig, e, handle) ==
  /\ p \in up /\ call[p] = Idle /\ calls < Bound
  /\ calls' = calls + 1
  /\ call' = [call EXCEPT ![p] =
       [pc |-> IF handle = Blank THEN "update" ELSE "keychain", op |-> op, orig |-> orig,
        entry |-> e, handle |-> handle, secret |-> calls', next |-> EmptyDoc, forget |-> {}]]
  /\ UNCHANGED <<screen, file, keychain, mem, up, test, used, upsets>>

Nothing == Entry(NoName, "", {})
Listed(p) == Names(mem[p], screen)

\* SaveEnvironment and SaveStorage with an empty original name.
AddNew(p, n, d, typed) ==
  LET e == Entry(n, d[1], d[2])
  IN  IF typed THEN Begin(p, "add", NoName, WithRef(e), WithRef(e).ref)
      ELSE Begin(p, "add", NoName, e, Blank)

\* SaveEnvironment and SaveStorage of an entry the screen shows.
SaveOld(p, orig, n, d, typed) ==
  /\ orig \in Listed(p)
  /\ LET e == [Named(mem[p], screen, orig) EXCEPT !.name = n, !.kind = d[1], !.fields = d[2]]
     IN  IF typed THEN Begin(p, "save", orig, WithRef(e), WithRef(e).ref)
         ELSE Begin(p, "save", orig, e, Blank)

(***************************************************************************)
(* SaveAdminCredential works on the copy of the environment it took before *)
(* it goes to the keychain, and saves that copy whole.                     *)
(***************************************************************************)
SaveAdminCredential(p, n) ==
  /\ screen = "environments" /\ n \in Listed(p)
  /\ LET e == Named(mem[p], screen, n)
         h == IF e.admin = Blank THEN AdminHandle(e) ELSE e.admin
     IN  Begin(p, "save", n, [e EXCEPT !.admin = h], h)

Duplicate(p, n) ==
  /\ screen # "keys" /\ n \in Listed(p) /\ Begin(p, "duplicate", n, Nothing, Blank)
MakeDefault(p, n) ==
  /\ screen = "storage" /\ n \in Listed(p) /\ Begin(p, "default", n, Nothing, Blank)

\* What an unfinished job names is not deleted; that is asked before the store is held.
Delete(p, n) ==
  /\ n \in Listed(p) \ used /\ Begin(p, "delete", n, Nothing, Blank)

(***************************************************************************)
(* store, under Generate, ImportIdentity and SavePassphrase: new material  *)
(* under a name.  A key that has the name is replaced and its handle kept. *)
(* The public half of an identity is derived from its secret.              *)
(***************************************************************************)
StoreKey(p, n, kind) ==
  /\ screen = "keys"
  /\ LET old == n \in Listed(p)
         ref == IF old THEN Named(mem[p], "keys", n).ref ELSE SuggestKeyHandle(kind, n)
         new == Entry(n, kind, IF kind = "identity" THEN {calls + 1} ELSE {})
     IN  Begin(p, IF old THEN "save" ELSE "add", n, [new EXCEPT !.ref = ref], ref)

\* Rename changes the name and leaves the handle as it is.
Rename(p, orig, n) ==
  /\ screen = "keys" /\ orig \in Listed(p)
  /\ Begin(p, "save", orig, [Named(mem[p], "keys", orig) EXCEPT !.name = n], Blank)
-----------------------------------------------------------------------------
\* A call returns, with or without an error.
Return(p) == call' = [call EXCEPT ![p] = Idle]

\* Creds.Set: the secret goes first.
SetSecret(p) ==
  /\ call[p].pc = "keychain"
  /\ keychain' = [h \in {call[p].handle} \cup DOMAIN keychain |->
                    IF h = call[p].handle THEN call[p].secret ELSE keychain[h]]
  /\ call' = [call EXCEPT ![p].pc = "update"]
  /\ UNCHANGED <<screen, file, mem, up, test, used, calls, upsets>>
SetSecretFails(p) ==
  /\ call[p].pc = "keychain" /\ Return(p)
  /\ UNCHANGED <<screen, file, keychain, mem, up, test, used, calls, upsets>>

\* The edit is refused before it is made: a name that is gone, or taken, or the default storage.
Allowed(doc, c) ==
  /\ c.op = "add" => CanAdd(doc, screen, c.entry)
  /\ c.op = "save" => CanSave(doc, screen, c.orig, c.entry)
  /\ c.op \notin {"add", "save"} => c.orig \in Names(doc, screen)
  /\ c.op = "delete" /\ screen = "storage" => CanDeleteStorage(doc, c.orig)

EditedEnvironments(doc, c) ==
  IF c.op = "add" THEN AddEnvironment(doc, c.entry)
  ELSE IF c.op = "save" THEN SaveEnvironment(doc, c.orig, c.entry)
  ELSE IF c.op = "duplicate" THEN DuplicateEnvironment(doc, c.orig)
  ELSE DeleteEnvironment(doc, c.orig)
EditedStorage(doc, c) ==
  IF c.op = "add" THEN AddStorage(doc, c.entry)
  ELSE IF c.op = "save" THEN SaveStorage(doc, c.orig, c.entry)
  ELSE IF c.op = "duplicate" THEN DuplicateStorage(doc, c.orig)
  ELSE IF c.op = "delete" THEN DeleteStorage(doc, c.orig)
  ELSE SetDefaultStorage(doc, c.orig)
EditedKeys(doc, c) ==
  IF c.op = "add" THEN AddKey(doc, c.entry)
  ELSE IF c.op = "save" THEN SaveKey(doc, c.orig, c.entry)
  ELSE DeleteKey(doc, c.orig)
Edited(doc, c) ==
  IF screen = "environments" THEN EditedEnvironments(doc, c)
  ELSE IF screen = "storage" THEN EditedStorage(doc, c)
  ELSE EditedKeys(doc, c)

\* Mutant: the lists of the copy an edit is made on are those of the document in memory.
SharedClone(doc, c) ==
  IF c.op = "save" THEN Edited(doc, c) ELSE doc

(***************************************************************************)
(* cloneConfig: an edit is made on a copy of the document, but the copy    *)
(* shares its list of keys with the original.  What an edit does in place, *)
(* it does to the document in memory at once: a replaced key, or the keys  *)
(* after a deleted one moved up, with the last of them left twice.         *)
(***************************************************************************)
Clone(doc, c) ==
  IF screen = "keys" /\ c.op = "save" THEN SaveKey(doc, c.orig, c.entry)
  ELSE IF screen = "keys" /\ c.op = "delete"
       THEN [doc EXCEPT !["keys"] = Append(DeleteKey(doc, c.orig)["keys"], Last(@))]
  ELSE doc

\* The handles a delete reads off the entry, to forget them when it is gone.
Dropped(doc, c) ==
  IF c.op = "delete" THEN ForgottenRefs(screen, Named(doc, screen, c.orig)) ELSE {}

\* Update: the edit is made and holds up to validation; the new file is written beside the old one.
Update(p) ==
  /\ call[p].pc = "update" /\ Allowed(mem[p], call[p])
  /\ Validate(Edited(mem[p], call[p]))
  /\ mem' = [mem EXCEPT ![p] = Clone(@, call[p])]
  /\ call' = [call EXCEPT ![p].pc = "write", ![p].next = Edited(mem[p], call[p]),
                          ![p].forget = Dropped(mem[p], call[p])]
  /\ UNCHANGED <<screen, file, keychain, up, test, used, calls, upsets>>

\* The edit is refused, or what it makes is invalid.
UpdateRefused(p) ==
  /\ call[p].pc = "update" /\ Return(p)
  /\ \/ ~Allowed(mem[p], call[p]) /\ UNCHANGED mem
     \/ /\ Allowed(mem[p], call[p]) /\ ~Validate(Edited(mem[p], call[p]))
        /\ mem' = [mem EXCEPT ![p] = Clone(@, call[p])]
  /\ UNCHANGED <<screen, file, keychain, up, test, used, calls, upsets>>

\* writeFileAtomic renames the new file over the old one, and the copy becomes the document.
Replace(p) ==
  /\ call[p].pc = "write"
  /\ file' = [doc |-> call[p].next, readable |-> TRUE]
  /\ mem' = [mem EXCEPT ![p] = call[p].next]
  /\ IF call[p].forget = {} THEN Return(p) ELSE call' = [call EXCEPT ![p].pc = "forget"]
  /\ UNCHANGED <<screen, keychain, up, test, used, calls, upsets>>

\* Mutant: a failed save goes on to clean the keychain.
WriteFailsForgets(p) ==
  /\ call[p].pc = "write"
  /\ IF call[p].forget = {} THEN Return(p) ELSE call' = [call EXCEPT ![p].pc = "forget"]
  /\ UNCHANGED <<screen, file, keychain, mem, up, test, used, calls, upsets>>

\* No room for the new file, or it cannot take the old one's place.
WriteFails(p) ==
  /\ call[p].pc = "write" /\ Return(p)
  /\ UNCHANGED <<screen, file, keychain, mem, up, test, used, calls, upsets>>

\* The keychain is cleaned after the write, and whether it could be is not asked.
Forget(p) ==
  /\ call[p].pc = "forget" /\ Return(p)
  /\ \/ keychain' = [h \in DOMAIN keychain \ call[p].forget |-> keychain[h]]
     \/ UNCHANGED keychain
  /\ UNCHANGED <<screen, file, mem, up, test, used, calls, upsets>>
-----------------------------------------------------------------------------
Upset == upsets < MaxUpsets /\ upsets' = upsets + 1

\* TestEnvironment and TestStorage, and the tests of a draft the editor has not saved.
TestBegin(p, e) ==
  /\ Upset
  /\ p \in up /\ test[p] = {} /\ screen # "keys"
  /\ test' = [test EXCEPT ![p] = {e}]
  /\ UNCHANGED <<screen, file, keychain, mem, up, call, used, calls>>

\* The host did not answer, or nothing of the name is saved: nothing is recorded.
TestEnd(p) ==
  /\ test[p] # {} /\ test' = [test EXCEPT ![p] = {}]
  /\ UNCHANGED <<screen, file, keychain, mem, up, call, used, calls, upsets>>

\* RecordEnvironmentProbe, RecordStorageProbe: an edit of its own, once no other holds the store.
TestRecorded(p) ==
  /\ call[p].pc # "write"
  /\ \E e \in test[p] :
       /\ e.name \in Listed(p)
       /\ mem' = [mem EXCEPT ![p] = IF screen = "environments"
                                    THEN RecordEnvironmentProbe(@, e.name, Definition(e))
                                    ELSE RecordStorageProbe(@, e.name, Definition(e))]
       /\ file' = [doc |-> mem'[p], readable |-> TRUE]
  /\ test' = [test EXCEPT ![p] = {}]
  /\ UNCHANGED <<screen, keychain, up, call, used, calls, upsets>>
-----------------------------------------------------------------------------
\* Load: a file that cannot be read, or that does not validate, is an error and not a document.
Load(p, otherwise) ==
  mem' = [mem EXCEPT ![p] = IF file.readable /\ Validate(file.doc) THEN file.doc ELSE otherwise]

\* Open: the process comes up whether the file could be read or not, and says so.
Open(p) ==
  /\ p \notin up /\ up' = up \cup {p} /\ Load(p, EmptyDoc)
  /\ UNCHANGED <<screen, file, keychain, call, test, used, calls, upsets>>
Reload(p) ==
  /\ Upset
  /\ p \in up /\ call[p] = Idle /\ Load(p, mem[p])
  /\ UNCHANGED <<screen, file, keychain, up, call, test, used, calls>>

\* A process ends or is killed: what it was doing goes with it.
Crash(p) ==
  /\ Upset
  /\ p \in up /\ up' = up \ {p}
  /\ mem' = [mem EXCEPT ![p] = EmptyDoc]
  /\ call' = [call EXCEPT ![p] = Idle] /\ test' = [test EXCEPT ![p] = {}]
  /\ UNCHANGED <<screen, file, keychain, used, calls>>

\* A capture or a restore of this process names an entry until it ends.
JobBegins(p, n) ==
  /\ Upset /\ screen # "keys" /\ p \in up /\ n \in Listed(p) \ used
  /\ used' = used \cup {n}
  /\ UNCHANGED <<screen, file, keychain, mem, up, call, test, calls>>
JobEnds ==
  /\ used # {} /\ used' = {}
  /\ UNCHANGED <<screen, file, keychain, mem, up, call, test, calls, upsets>>

\* The file is edited by hand, into something that is not YAML, and back.
HandEdit ==
  /\ Upset
  /\ file' = [file EXCEPT !.readable = ~@]
  /\ UNCHANGED <<screen, keychain, mem, up, call, test, used, calls>>

EditEntries(p) ==
  \E n \in Name :
    \/ \E d \in Draft, typed \in BOOLEAN :
         AddNew(p, n, d, typed) \/ \E orig \in Listed(p) : SaveOld(p, orig, n, d, typed)
    \/ SaveAdminCredential(p, n) \/ Duplicate(p, n) \/ MakeDefault(p, n) \/ Delete(p, n)
EditKeys(p) ==
  \E n \in Name : \/ \E kind \in {"identity", "passphrase"} : StoreKey(p, n, kind)
                  \/ \E orig \in Listed(p) : Rename(p, orig, n)
Test(p) ==
  \/ \E i \in DOMAIN mem[p][screen] : TestBegin(p, mem[p][screen][i])
  \/ \E n \in Name, d \in Draft : TestBegin(p, Entry(n, d[1], d[2]))
  \/ TestEnd(p) \/ TestRecorded(p)
CallStep(p) ==
  \/ SetSecret(p) \/ SetSecretFails(p) \/ Update(p) \/ UpdateRefused(p)
  \/ Replace(p) \/ WriteFails(p) \/ Forget(p)

Next ==
  \/ \E p \in Proc : EditEntries(p) \/ EditKeys(p) \/ CallStep(p) \/ Test(p)
                     \/ Open(p) \/ Reload(p) \/ Crash(p) \/ \E n \in Name : JobBegins(p, n)
  \/ JobEnds \/ HandEdit

Spec == Init /\ [][Next]_vars
-----------------------------------------------------------------------------
(***************************************************************************)
(* What a process holds of the environments and the storage definitions is *)
(* what it last read or saved: an edit that is refused, that makes an      *)
(* invalid document or cannot be written leaves no trace in memory for a   *)
(* later save to write.                                                    *)
(***************************************************************************)
LeavesNoTrace ==
  \A p \in up \cap up' : \A c \in {"environments", "storage"} :
    mem'[p][c] # mem[p][c] => mem'[p][c] = file'.doc[c]
FailedEditsLeaveNoTrace == [][LeavesNoTrace]_vars

(***************************************************************************)
(* A secret leaves the keychain only when a delete has saved a document    *)
(* without the entry: "a failed save never leaves an entry pointing at a   *)
(* secret that is gone."  The screen of the keys is not held to it.        *)
(***************************************************************************)
Forgotten == DOMAIN keychain \ DOMAIN keychain'
ForgetsWhatIsGone ==
  screen # "keys" => \A h \in Forgotten :
    \E p \in up : call[p].pc = "forget" /\ h \in call[p].forget /\ call[p].orig \notin Listed(p)
ForgottenWhenGone == [][ForgetsWhatIsGone]_vars
-----------------------------------------------------------------------------
(***************************************************************************)
(* What the sources say and the code does not keep: see the README.        *)
(***************************************************************************)
Quiet == \A p \in Proc : call[p] = Idle

(***************************************************************************)
(* An identity's two halves belong together: "there is no way to store a   *)
(* pair whose two halves do not match" (keys_controller.go:162).           *)
(***************************************************************************)
PairsMatch ==
  Quiet => \A i \in DOMAIN file.doc["keys"] :
             LET k == file.doc["keys"][i]
             IN  k.kind = "identity" /\ k.ref \in DOMAIN keychain => keychain[k.ref] \in k.fields

\* "A failed save never leaves an entry pointing at a secret that is gone" (keys.go:139): for the keys.
ForgottenKeyIsGone ==
  [][screen = "keys" => \A h \in Forgotten : \A i \in DOMAIN file.doc["keys"] :
                          file.doc["keys"][i].ref # h]_vars

\* A test's result is never stamped on "a definition that differs from it" (config_controller.go:396).
StampIsOfTheEntry ==
  screen # "keys" => \A i \in DOMAIN file.doc[screen] :
    LET e == file.doc[screen][i] IN e.probe \in {Never, {Definition(e)}}

\* An entry in use by a job "cannot be deleted yet" (crud.go:23).
EntryInUseStays ==
  [][\A n \in used \cap used' \cap Names(file.doc, screen) : n \in Names(file'.doc, screen)
       \/ \E p \in Proc : call[p] # Idle /\ call[p].op # "delete"]_vars

\* What one process saved is still there when another saves something else.
NobodysEntryIsLost ==
  [][file'.doc # file.doc => \A n \in Names(file.doc, screen) \ Names(file'.doc, screen) :
       \E p \in Proc : call[p] # Idle /\ call[p].orig = n]_vars

\* "Nothing is written if the result would be invalid, so a bad edit cannot destroy a good file"
\* (store.go:131): nor is a file that could not be read replaced by what was read instead of it.
UnreadIsKept == [][~file.readable => UNCHANGED file \/ file'.doc = file.doc]_vars

\* A secret in the keychain is behind an entry, and an entry that was given a secret has one.
NoSecretIsStranded ==
  Quiet => \A h \in DOMAIN keychain : \E c \in Class : \E i \in DOMAIN file.doc[c] : h \in Refs(file.doc[c][i])
NothingIsMissing == Quiet => Missing(file.doc, keychain) = {}
=============================================================================
