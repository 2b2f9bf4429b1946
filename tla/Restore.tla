------------------------------- MODULE Restore -------------------------------
(***************************************************************************)
(* One restore, from the plan its operator sees to the job's last record.  *)
(*                                                                         *)
(* A front end plans the restore and asks for the realm's name if it sees  *)
(* that an existing realm would be overwritten; the engine's goroutine     *)
(* opens and verifies the snapshot, looks at the destination again,        *)
(* prepares a place to run kc.sh import, imports, tears the place down and *)
(* says what it wrote.  The destination is not PortCloak's: realms appear  *)
(* there and its Admin API comes and goes.                                 *)
(*                                                                         *)
(* Sources: engine/orchestrator/restore.go and capture.go (teardown),      *)
(* app/restore_controller.go, cli/restore.go, and of the window            *)
(* frontend/src/pages/snapshots/restore.                                   *)
(***************************************************************************)
CONSTANTS
  Front,    \* the front ends a restore is started from
  Api,      \* the states the destination's Admin API may be in
  Strategy  \* the strategies an operator may choose

VARIABLES
  front, strategy,  \* how this restore is asked for
  sealed,     \* the stored snapshot is as it was sealed
  api,        \* the Admin API: not configured, not answering or answering
  exists,     \* the realm exists on the destination
  pc,         \* what happens next
  typed,      \* the operator has typed the realm's name
  confirm,    \* the request confirms the overwrite
  seen,       \* what the guard found on the destination, or "unread"
  job,        \* the state in the job's record
  cancelled,  \* the job's context has been cancelled
  clone,      \* the execution context: "none", "up" or "gone"
  key,        \* what teardown is given: the key of a context, or of none
  spent,      \* the key of no context has been used by an earlier job
  started,    \* applyImport's note that it began to write
  importing,  \* an import process is alive
  dest,       \* what has been written: "nothing", "some" or "all"
  replaced,   \* a realm that existed has been overwritten
  result,     \* how applyImport ended
  ledger      \* what the job's ledger and audit record say

asked == <<front, strategy, sealed>>
outside == <<api, exists>>
request == <<typed, confirm, seen>>
import == <<started, importing, dest, replaced>>
context == <<clone, key, spent>>
vars == <<asked, outside, pc, request, job, cancelled, context, import, result, ledger>>

Failure == {"failed", "interrupted", "cancelled"}
Before == {"open", "verify", "guard"}
Within == {"prepare", "push", "import", "await", "teardown", "settle", "validate"}
Pc == {"plan", "ask", "queue", "ended"} \cup Before \cup Within
Said == {"nothing was written", "some may be written", "created", "merged", "left behind"}

TypeOK ==
  /\ front \in Front /\ strategy \in Strategy /\ sealed \in BOOLEAN
  /\ api \in Api /\ exists \in BOOLEAN
  /\ pc \in Pc
  /\ typed \in BOOLEAN /\ confirm \in BOOLEAN
  /\ seen \in {"unread", "exists", "absent"}
  /\ job \in Failure \cup {"none", "queued", "running", "completed"}
  /\ cancelled \in BOOLEAN
  /\ clone \in {"none", "up", "gone"}
  /\ key \in {"nothing", "context"} /\ spent \in BOOLEAN
  /\ started \in BOOLEAN /\ importing \in BOOLEAN
  /\ dest \in {"nothing", "some", "all"}
  /\ replaced \in BOOLEAN
  /\ result \in Failure \cup {"", "ok"}
  /\ ledger \subseteq Said

Init ==
  /\ front \in Front /\ strategy \in Strategy /\ sealed \in BOOLEAN
  /\ api \in Api /\ exists \in BOOLEAN
  /\ pc = "plan"
  /\ typed = FALSE /\ confirm = FALSE /\ seen = "unread"
  /\ job = "none" /\ cancelled = FALSE
  /\ clone = "none" /\ key = "nothing" /\ spent \in BOOLEAN
  /\ started = FALSE /\ importing = FALSE /\ dest = "nothing" /\ replaced = FALSE
  /\ result = ""
  /\ ledger = {}
-----------------------------------------------------------------------------
Goto(from, to) == pc = from /\ pc' = to

\* What a read of the destination realm may find: it answers with the truth if
\* the API is up, and may fail even then.
Reads == {"unread"} \cup (IF api = "up" THEN {IF exists THEN "exists" ELSE "absent"} ELSE {})

\* The errors a step may end in; a cancelled context is one of them.
Errors == IF cancelled THEN Failure ELSE Failure \ {"cancelled"}

\* Plan: a snapshot that failed verification goes no further.  The name is
\* asked for when the dry run has seen that an overwrite would replace a realm.
Plan ==
  /\ pc = "plan"
  /\ \E read \in Reads :
       pc' = CASE ~sealed -> "ended"
               [] sealed /\ strategy = "overwrite" /\ read = "exists" -> "ask"
               [] OTHER -> "queue"
  /\ UNCHANGED <<asked, outside, request, job, cancelled, context, import, result, ledger>>

\* The operator types the name, or leaves.
Ask ==
  /\ pc = "ask"
  /\ \/ typed' = TRUE /\ pc' = "queue"
     \/ typed' = FALSE /\ pc' = "ended"
  /\ UNCHANGED <<asked, outside, confirm, seen, job, cancelled, context, import, result, ledger>>

\* Apply and Restore.  The window sends what was typed, the command the name.
Queue ==
  /\ Goto("queue", "open")
  /\ confirm' = (typed \/ front = "command")
  /\ job' = "queued"
  /\ UNCHANGED <<asked, outside, typed, seen, cancelled, context, import, result, ledger>>

\* The stored object may have been damaged since it was planned from.
Damage ==
  /\ pc \in {"queue", "open"} /\ sealed
  /\ sealed' = FALSE
  /\ UNCHANGED <<front, strategy, outside, pc, request, job, cancelled, context, import, result, ledger>>

\* fail, before anything is written.
FailEarly ==
  /\ job' \in Errors
  /\ pc' = "ended"
  /\ UNCHANGED <<asked, outside, request, cancelled, context, import, result, ledger>>

\* The goroutine starts, and inspect.Open fetches and unseals the snapshot.
Open ==
  /\ Goto("open", "verify")
  /\ job' = "running"
  /\ UNCHANGED <<asked, outside, request, cancelled, context, import, result, ledger>>

OpenFails == pc = "open" /\ FailEarly

\* Mutant: a snapshot that does not verify is only remarked upon.
VerifyRemarks ==
  /\ Goto("verify", "guard")
  /\ UNCHANGED <<asked, outside, request, job, cancelled, context, import, result, ledger>>

Verify ==
  /\ Goto("verify", "guard")
  /\ sealed
  /\ UNCHANGED <<asked, outside, request, job, cancelled, context, import, result, ledger>>

VerifyFails == pc = "verify" /\ ~sealed /\ FailEarly

\* Mutant: the destination is looked at and nothing is asked.
GuardTrusts ==
  /\ Goto("guard", IF strategy = "merge" THEN "import" ELSE "prepare")
  /\ seen' \in Reads
  /\ UNCHANGED <<asked, outside, typed, confirm, job, cancelled, context, import, result, ledger>>

\* The confirmation is enforced when the destination can be read.
Guard ==
  /\ Goto("guard", IF strategy = "merge" THEN "import" ELSE "prepare")
  /\ seen' \in Reads
  /\ strategy = "overwrite" /\ seen' = "exists" => confirm
  /\ UNCHANGED <<asked, outside, typed, confirm, job, cancelled, context, import, result, ledger>>

GuardFails ==
  /\ pc = "guard" /\ strategy = "overwrite" /\ ~confirm
  /\ "exists" \in Reads
  /\ FailEarly
-----------------------------------------------------------------------------
\* applyImport returns: an offline import's deferred teardown runs first.
Return(r) ==
  /\ result' = r
  /\ pc' = IF strategy = "merge" THEN "settle" ELSE "teardown"

\* Probe, Prepare: a clone, or the host itself, which has none.
Prepare ==
  /\ Goto("prepare", "push")
  /\ clone' \in {"none", "up"}
  /\ key' = "context"
  /\ UNCHANGED <<spent, asked, outside, request, job, cancelled, import, result, ledger>>

\* The executor or the probe fails, with no teardown to run.
ProbeFails ==
  /\ Goto("prepare", "settle")
  /\ result' \in Errors
  /\ UNCHANGED <<asked, outside, request, job, cancelled, context, import, ledger>>

\* Prepare may fail before it has created the clone and after.
PrepareFails ==
  /\ pc = "prepare"
  /\ \E r \in Errors : Return(r)
  /\ clone' \in {"none", "up"}
  /\ UNCHANGED <<key, spent, asked, outside, request, job, cancelled, import, ledger>>

\* The artifacts are pushed and the command is built.
Push ==
  /\ Goto("push", "import")
  /\ UNCHANGED <<asked, outside, request, job, cancelled, context, import, result, ledger>>

\* A file cannot be read or sent; a merge needs an API and the realm's file.
PushFails ==
  /\ \/ pc = "push"
     \/ pc = "import" /\ strategy = "merge"
  /\ \E r \in Errors : Return(r)
  /\ UNCHANGED <<asked, outside, request, job, cancelled, context, import, ledger>>

\* Mutant: the import is noted as started once it has come back.
ImportUnnoted ==
  /\ Goto("import", "await")
  /\ strategy = "merge" => api # "none"
  /\ importing' = TRUE
  /\ UNCHANGED <<asked, outside, request, job, cancelled, context, started, dest, replaced, result, ledger>>

\* Run, or PartialImport: first the note, then the import.
Import ==
  /\ Goto("import", "await")
  /\ strategy = "merge" => api # "none"
  /\ started' = TRUE
  /\ importing' = TRUE
  /\ UNCHANGED <<asked, outside, request, job, cancelled, context, dest, replaced, result, ledger>>

\* The import process writes; it is not transactional.  A merge is into a realm
\* that exists.
Write ==
  /\ importing /\ dest = "nothing"
  /\ strategy = "merge" => exists
  /\ dest' = "some"
  /\ replaced' = (exists /\ strategy = "overwrite")
  /\ exists' = TRUE
  /\ UNCHANGED <<asked, api, pc, request, job, cancelled, context, started, importing, result, ledger>>

ImportEnds ==
  /\ pc = "await" /\ dest = "some"
  /\ Return("ok")
  /\ dest' = "all"
  /\ importing' = FALSE
  /\ UNCHANGED <<asked, outside, request, job, cancelled, context, started, replaced, ledger>>


\* The import fails, or the connection to it is lost and it goes on.
ImportFails ==
  /\ pc = "await"
  /\ \E r \in Errors : Return(r)
  /\ importing' \in BOOLEAN
  /\ UNCHANGED <<asked, outside, request, job, cancelled, context, started, dest, replaced, ledger>>

\* An import cut off from its caller ends by itself in the end.
ImportDies ==
  /\ importing /\ pc # "await"
  /\ importing' = FALSE
  /\ UNCHANGED <<asked, outside, pc, request, job, cancelled, context, started, dest, replaced, result, ledger>>

\* teardown remembers the contexts it has dealt with, and every Prepare that
\* failed hands it the same one: none.
Spent == key = "nothing" /\ spent

TeardownSkipped ==
  /\ Goto("teardown", "settle")
  /\ Spent
  /\ UNCHANGED <<asked, outside, request, job, cancelled, context, import, result, ledger>>

\* The deferred teardown, under a context of its own: destroying the clone
\* ends whatever runs in it.
Teardown ==
  /\ Goto("teardown", "settle")
  /\ ~Spent
  /\ clone' = IF clone = "up" THEN "gone" ELSE clone
  /\ spent' = (spent \/ key = "nothing")
  /\ importing' = (importing /\ clone # "up")
  /\ UNCHANGED <<key, asked, outside, request, job, cancelled, started, dest, replaced, result, ledger>>

TeardownFails ==
  /\ Goto("teardown", "settle")
  /\ ~Spent
  /\ spent' = (spent \/ key = "nothing")
  /\ ledger' = ledger \cup {"left behind"}
  /\ UNCHANGED <<key, clone, asked, outside, request, job, cancelled, import, result>>

\* appliedState.describe, of an import that succeeded and of one that did not.
Describe ==
  IF result = "ok" THEN IF strategy = "merge" THEN "merged" ELSE "created"
  ELSE IF ~started THEN "nothing was written" ELSE "some may be written"

\* runRestore records what the destination holds and fails the job.
Settle ==
  /\ pc = "settle"
  /\ IF result = "ok" THEN pc' = "validate" /\ UNCHANGED <<job, ledger>>
                      ELSE /\ pc' = "ended"
                           /\ job' = result
                           /\ ledger' = ledger \cup {Describe}
  /\ UNCHANGED <<asked, outside, request, cancelled, context, import, result>>

\* Validation reads the realm back, or abstains; the job is complete either way.
Validate ==
  /\ Goto("validate", "ended")
  /\ job' = "completed"
  /\ ledger' = ledger \cup {Describe}
  /\ UNCHANGED <<asked, outside, request, cancelled, context, import, result>>
-----------------------------------------------------------------------------
\* Cancel finds a job that is tracked.
Cancel ==
  /\ job \in {"queued", "running"} /\ ~cancelled
  /\ cancelled' = TRUE
  /\ UNCHANGED <<asked, outside, pc, request, job, context, import, result, ledger>>

\* Somebody creates the realm on the destination; its API comes and goes.
Elsewhere ==
  /\ pc # "ended"
  /\ \/ exists' = TRUE /\ UNCHANGED api
     \/ UNCHANGED exists /\ api # "none" /\ api' \in Api \ {"none"}
  /\ UNCHANGED <<asked, pc, request, job, cancelled, context, import, result, ledger>>

\* Every step of the goroutine but the ends of a running import.
Step ==
  \/ Open \/ OpenFails \/ Verify \/ VerifyFails \/ Guard \/ GuardFails
  \/ Prepare \/ ProbeFails \/ PrepareFails \/ Push \/ PushFails \/ Import
  \/ TeardownSkipped \/ Teardown \/ TeardownFails \/ Settle \/ Validate

Next ==
  \/ Plan \/ Ask \/ Queue \/ Damage \/ Step
  \/ Write \/ ImportEnds \/ ImportFails \/ ImportDies
  \/ Cancel \/ Elsewhere

Spec == Init /\ [][Next]_vars
-----------------------------------------------------------------------------
(***************************************************************************)
(* restore.go: verification gates the restore.  Nothing is written from a  *)
(* snapshot that is not as it was sealed when it was opened.               *)
(***************************************************************************)
WritesOnlyVerified == importing \/ dest # "nothing" => sealed

(***************************************************************************)
(* restore.go, appliedState: a restore that says nothing was written has   *)
(* written nothing, and nothing of it is left that still could.            *)
(***************************************************************************)
NothingMeansNothing ==
  "nothing was written" \in ledger => dest = "nothing" /\ ~importing

(***************************************************************************)
(* restore.go:302: from the window, a realm the guard has found on the     *)
(* destination is replaced only if the operator has typed its name.  (The  *)
(* command confirms on the operator's behalf, see CommandTypes.)           *)
(***************************************************************************)
Confirmed   == replaced /\ seen = "exists" => typed
SeenIsTyped == front = "window" => Confirmed
-----------------------------------------------------------------------------
(* What the sources say and the code does not keep: see the README. *)

(***************************************************************************)
(* spec/usecases/05-restore.md, UC-R4 A1: to overwrite a realm that exists *)
(* "requires typing the realm name to confirm".                            *)
(***************************************************************************)
OverwriteIsTyped == replaced => typed

(***************************************************************************)
(* cli/restore.go:29: the command too "takes the realm's own name typed    *)
(* back".                                                                  *)
(***************************************************************************)
CommandTypes == front = "command" => Confirmed

(***************************************************************************)
(* restore.go:487 says appliedState is "what was actually written": an     *)
(* import that replaced a realm is not reported as having only created.    *)
(***************************************************************************)
ReplacedIsReported == replaced => "created" \notin ledger
=============================================================================
