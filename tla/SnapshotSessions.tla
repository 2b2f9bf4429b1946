-------------------------- MODULE SnapshotSessions --------------------------
(***************************************************************************)
(* The sessions on one snapshot: the inspector opening, reading and        *)
(* closing it, restores reading it to import it, and the housekeeping that *)
(* clears local working data.                                              *)
(*                                                                         *)
(* A session's decrypted files live in work/open-<snapshot>, its index in  *)
(* index/<snapshot>.sqlite: names taken from the snapshot, so every        *)
(* session on it has the same ones.                                        *)
(*                                                                         *)
(* Sources: engine/inspect/session.go, engine/snapshot/reader.go,          *)
(* engine/inspect/index/index.go, app/engine.go, app/inspect_controller.go,*)
(* app/settings_controller.go, engine/orchestrator/restore.go.             *)
(***************************************************************************)
CONSTANTS
  Inspection,  \* the inspector's calls of Open
  Restoration, \* the restores, each with a session of its own
  Nobody
Session == Inspection \cup Restoration

VARIABLES
  stage,      \* stage[s]: how far session s has got
  bundle,     \* who last truncated the sealed download, and is it whole
  contents,   \* how much of the snapshot is extracted: "none", "some", "all"
  intact,     \* the sessions whose extraction has lost no file so far
  registered, \* the session the inspector reads, or Nobody
  idx,        \* idx[s]: the index of session s
  indexFile,  \* is there an index file on disk
  pushed,     \* what restores have pushed to their destinations
  purge       \* the sweep's decision: "idle", "keep" or "sweep" this snapshot

dirVars == <<bundle, contents, intact>>
vars == <<stage, bundle, contents, intact, registered, idx, indexFile, pushed, purge>>

Opening == {"fetching", "unsealing", "extracting"}
Stage == Opening \cup {"new", "opened", "held", "displaced", "closing", "closed", "failed"}
NoBundle == [by |-> Nobody, whole |-> FALSE]

TypeOK ==
  /\ stage \in [Session -> Stage]
  /\ bundle \in [by : Session \cup {Nobody}, whole : BOOLEAN]
  /\ contents \in {"none", "some", "all"}
  /\ intact \subseteq Session
  /\ registered \in Inspection \cup {Nobody}
  /\ idx \in [Session -> {"none", "building", "built"}]
  /\ indexFile \in BOOLEAN
  /\ pushed \subseteq {"whole", "partial"}
  /\ purge \in {"idle", "keep", "sweep"}

Init ==
  /\ stage = [s \in Session |-> "new"]
  /\ bundle = NoBundle
  /\ contents = "none"
  /\ intact = {}
  /\ registered = Nobody
  /\ idx = [s \in Session |-> "none"]
  /\ indexFile = FALSE
  /\ pushed = {}
  /\ purge = "idle"
-----------------------------------------------------------------------------
Goto(s, from, to) == stage[s] = from /\ stage' = [stage EXCEPT ![s] = to]

Extracting == {s \in Session : stage[s] = "extracting"}

\* Every file of the snapshot is there and nobody is rewriting one.
Readable == contents = "all" /\ Extracting = {}

RemoveDir == bundle' = NoBundle /\ contents' = "none" /\ intact' = {}

\* Open creates the directory and truncates the sealed download.
Fetch(s) ==
  /\ Goto(s, "new", "fetching")
  /\ bundle' = [by |-> s, whole |-> FALSE]
  /\ UNCHANGED <<contents, intact, registered, idx, indexFile, pushed, purge>>

\* The download ends; the file is whole unless another has truncated it since
\* or it was removed from under the writer.
Fetched(s) ==
  /\ Goto(s, "fetching", "unsealing")
  /\ bundle' = IF bundle.by = s THEN [bundle EXCEPT !.whole = TRUE] ELSE bundle
  /\ UNCHANGED <<contents, intact, registered, idx, indexFile, pushed, purge>>

\* A key opens the download, and extraction begins: each file is truncated as
\* it is reached, so what was there is no longer to be relied on.
Unseal(s) ==
  /\ Goto(s, "unsealing", "extracting")
  /\ bundle.whole
  /\ contents' = IF contents = "none" THEN "some" ELSE contents
  /\ intact' = intact \cup {s}
  /\ UNCHANGED <<bundle, registered, idx, indexFile, pushed, purge>>

\* Extraction ends, the documents are read back and the download is removed.
\* Files lost on the way do not show, if another session has put the documents
\* back: what is verified is the stream.
Opened(s) ==
  /\ Goto(s, "extracting", "opened")
  /\ s \in intact \/ contents # "none"
  /\ contents' = IF s \in intact THEN "all" ELSE contents
  /\ intact' = intact \ {s}
  /\ bundle' = NoBundle
  /\ UNCHANGED <<registered, idx, indexFile, pushed, purge>>

\* Mutant: a failed open returns without its deferred clean-up.
OpenFailsUntidily(s) ==
  /\ stage[s] \in Opening
  /\ stage' = [stage EXCEPT ![s] = "failed"]
  /\ intact' = intact \ {s}
  /\ UNCHANGED <<bundle, contents, registered, idx, indexFile, pushed, purge>>

\* Any step of Open may fail; the whole directory goes, whoever else uses it.
OpenFails(s) ==
  /\ stage[s] \in Opening
  /\ stage' = [stage EXCEPT ![s] = "failed"]
  /\ RemoveDir
  /\ UNCHANGED <<registered, idx, indexFile, pushed, purge>>

\* Mutant: the displaced session is forgotten rather than closed.
RegisterOver(s) ==
  /\ s \in Inspection
  /\ Goto(s, "opened", "held")
  /\ registered' = s
  /\ UNCHANGED <<bundle, contents, intact, idx, indexFile, pushed, purge>>

\* putSession registers the new session and then closes the one it displaces.
Register(s) ==
  /\ s \in Inspection /\ stage[s] = "opened"
  /\ registered' = s
  /\ stage' = [t \in Session |-> CASE t = s -> "held"
                                  [] t = registered -> "displaced"
                                  [] OTHER -> stage[t]]
  /\ UNCHANGED <<bundle, contents, intact, idx, indexFile, pushed, purge>>

\* InspectController.Close and Engine.Close take the session out of the map.
Drop(s) ==
  /\ registered = s
  /\ registered' = Nobody
  /\ Goto(s, "held", "displaced")
  /\ UNCHANGED <<bundle, contents, intact, idx, indexFile, pushed, purge>>

\* Session.Close marks the session and closes the index it has at that moment.
Shut(s) ==
  /\ \/ Goto(s, "displaced", "closing")
     \/ s \in Restoration /\ Goto(s, "opened", "closing")
  /\ idx' = [idx EXCEPT ![s] = IF @ = "built" THEN "none" ELSE @]
  /\ indexFile' = (indexFile /\ idx[s] # "built")
  /\ UNCHANGED <<bundle, contents, intact, registered, pushed, purge>>

\* ... and removes the contents and the whole working directory.
Wipe(s) ==
  /\ Goto(s, "closing", "closed")
  /\ RemoveDir
  /\ UNCHANGED <<registered, idx, indexFile, pushed, purge>>
-----------------------------------------------------------------------------
\* Users looks the session up and starts the index of a large realm, which
\* truncates the file of any other.
Index(s) ==
  /\ registered = s /\ idx[s] = "none"
  /\ idx' = [idx EXCEPT ![s] = "building"]
  /\ indexFile' = TRUE
  /\ UNCHANGED <<stage, bundle, contents, intact, registered, pushed, purge>>

\* The build ends and sets the session's index, closed in the meantime or not.
Indexed(s) ==
  /\ idx[s] = "building"
  /\ idx' = [idx EXCEPT ![s] = "built"]
  /\ UNCHANGED <<stage, bundle, contents, intact, registered, indexFile, pushed, purge>>

\* A build that fails or is cancelled removes the file.
IndexFails(s) ==
  /\ idx[s] = "building"
  /\ idx' = [idx EXCEPT ![s] = "none"]
  /\ indexFile' = FALSE
  /\ UNCHANGED <<stage, bundle, contents, intact, registered, pushed, purge>>

\* A restore pushes the extracted files it has verified, or fails to find one.
Push(s) ==
  /\ s \in Restoration /\ stage[s] = "opened"
  /\ contents # "none"
  /\ pushed' = pushed \cup {IF Readable THEN "whole" ELSE "partial"}
  /\ UNCHANGED <<stage, bundle, contents, intact, registered, idx, indexFile, purge>>

\* Purge asks which snapshots are open, and sweeps the indexes of the others.
PurgeBegin ==
  /\ purge = "idle"
  /\ purge' = IF registered = Nobody THEN "sweep" ELSE "keep"
  /\ indexFile' = (indexFile /\ registered # Nobody)
  /\ UNCHANGED <<stage, bundle, contents, intact, registered, idx, pushed>>

\* It then sweeps the working directories of those it had not seen open.
PurgeEnd ==
  /\ purge # "idle"
  /\ purge' = "idle"
  /\ IF purge = "sweep" THEN RemoveDir ELSE UNCHANGED dirVars
  /\ UNCHANGED <<stage, registered, idx, indexFile, pushed>>
-----------------------------------------------------------------------------
Opens(s) == Fetched(s) \/ Unseal(s) \/ Opened(s) \/ OpenFails(s) \/ Register(s)
Close(s) == Shut(s) \/ Wipe(s)

Next ==
  \/ \E s \in Session : \/ Fetch(s) \/ Opens(s) \/ Drop(s) \/ Close(s) \/ Push(s)
                        \/ Index(s) \/ Indexed(s) \/ IndexFails(s)
  \/ PurgeBegin \/ PurgeEnd

Spec == Init /\ [][Next]_vars
-----------------------------------------------------------------------------
Ended == {"new", "closed", "failed"}

(***************************************************************************)
(* session.go: once every session on a snapshot has been closed or failed  *)
(* to open, none of its decrypted files are left, in whatever order the    *)
(* opens, closes, restores and purges overlapped.                          *)
(***************************************************************************)
NothingDecryptedLeft ==
  (\A s \in Session : stage[s] \in Ended) => contents = "none" /\ bundle = NoBundle
-----------------------------------------------------------------------------
(* What the sources say and the code does not keep: see the README. *)

(***************************************************************************)
(* session.go:59 says a session "owns a working directory": the one the    *)
(* inspector reads has its files, once every other session has ended.      *)
(***************************************************************************)
OwnsItsFiles ==
  registered # Nobody /\ (\A s \in Session \ {registered} : stage[s] \in Ended)
    => contents = "all"

(***************************************************************************)
(* inspect_controller.go:454 confirms of a close that the index and every  *)
(* decrypted file "have been removed from this machine".                   *)
(***************************************************************************)
NoIndexLeft ==
  (\A s \in Session : stage[s] \in Ended /\ idx[s] # "building") => ~indexFile

(***************************************************************************)
(* restore_controller.go:78 says a snapshot that cannot be proven intact   *)
(* is never written to a target: a restore pushes what it has verified.    *)
(***************************************************************************)
PushesWhatWasVerified == "partial" \notin pushed
=============================================================================
