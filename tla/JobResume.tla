----------------------------- MODULE JobResume -----------------------------
(***************************************************************************)
(* What becomes of one capture job once its artifacts are out: sealed,     *)
(* uploaded, interrupted, resumed, discarded, purged, and adopted by the   *)
(* next process after a crash.                                             *)
(*                                                                         *)
(* The job's record is a file.  Every goroutine that runs the job holds a  *)
(* copy of it and saves that copy whole, and the operator's calls each     *)
(* load the file afresh: nothing orders them but the state they read.  A   *)
(* save that fails is only logged, a file that cannot be removed stays,    *)
(* and a request to the storage may never come back.                       *)
(*                                                                         *)
(* Sources: engine/orchestrator/capture.go and resume.go,                  *)
(* app/jobs_controller.go and settings_controller.go, app/engine.go,       *)
(* engine/config/jobs.go, and the Put of each of engine/store/.            *)
(***************************************************************************)
EXTENDS FiniteSets

CONSTANTS
  Call,      \* the Resume calls an operator makes for the job
  Backends   \* the storages to consider, of "disk", "s3", "azure", "sftp"

ASSUME BackendsAssumption == Backends \subseteq {"disk", "s3", "azure", "sftp"}

VARIABLES
  backend,    \* the storage the job goes to
  process,    \* "down", "adopted" (halfway through its startup sweep), "up"
  swept,      \* TRUE when this process, or none since the crash, swept
  rec,        \* the state in the job's record on disk; "none" without one
  cp,         \* what the record's checkpoint names: nothing, the sealed
              \* bundle, or the bundle and the key it is uploaded to
  bundle,     \* TRUE while the sealed bundle is on this machine
  stored,     \* the objects of the snapshot that are whole under their keys
  capture,    \* where the capture goroutine has got to
  mine,       \* the state in that goroutine's copy of the record
  call,       \* call[c]: where a Resume call and its goroutine have got to
  copy,       \* copy[c]: the checkpoint in that goroutine's copy
  hung,       \* the calls whose storage has stopped answering
  overlapped, \* TRUE once two Resume calls were uploading at the same time
  again,      \* the calls that started the capture again, as a new job
  discard     \* where a Discard has got to

disk == <<rec, cp, bundle, stored>>
runs == <<backend, hung, overlapped>>
vars == <<process, swept, disk, capture, mine, call, copy, again, discard, runs>>

Objects  == {"bundle", "manifest", "digest"}
Terminal == {"completed", "failed", "cancelled"}
Settled  == Terminal \cup {"interrupted"}
Stopped  == Settled \ {"completed"}        \* what fail makes of an error

TypeOK ==
  /\ process \in {"down", "adopted", "up"} /\ swept \in BOOLEAN
  /\ rec \in Settled \cup {"none", "running"}
  /\ cp \in {"none", "sealed", "upload"}
  /\ bundle \in BOOLEAN /\ stored \subseteq Objects
  /\ capture \in {"collect", "teardown", "seal", "upload", "clean", "returned"}
  /\ mine \in Settled \cup {"running"}
  /\ call \in [Call -> {"idle", "planned", "open", "put", "sidecars", "unlink",
                        "complete", "returned"}]
  /\ copy \in [Call -> {"none", "sealed", "upload"}]
  /\ again \subseteq Call /\ hung \subseteq Call
  /\ backend \in Backends /\ overlapped \in BOOLEAN
  /\ discard \in {"idle", "checked", "removed", "done"}

\* A capture has begun: its realm is being collected.  The first save of its
\* record may have failed.
Init ==
  /\ process = "up" /\ swept = TRUE
  /\ rec \in {"running", "none"} /\ cp = "none" /\ bundle = FALSE /\ stored = {}
  /\ capture = "collect" /\ mine = "running"
  /\ call = [c \in Call |-> "idle"] /\ copy = [c \in Call |-> "none"]
  /\ again = {} /\ discard = "idle"
  /\ backend \in Backends /\ hung = {} /\ overlapped = FALSE
-----------------------------------------------------------------------------
Up == process = "up"

\* saveJob: a save that fails leaves the record as it was.
Save(state, checkpoint) ==
  \/ rec' = state /\ cp' = checkpoint
  \/ UNCHANGED <<rec, cp>>

\* os.Remove of the sealed bundle; a failure is ignored.
Unlink == bundle' \in {bundle, FALSE}

Capture(from, to) == Up /\ capture = from /\ capture' = to

\* collect succeeds, or records its failure and leaves teardown to come.
Collect ==
  /\ Capture("collect", "teardown")
  /\ \E s \in Stopped \cup {"running"} :
       mine' = s /\ Save(s, "none")
  /\ UNCHANGED <<process, swept, bundle, stored, call, copy, again, discard, runs>>

\* teardown saves every job of the batch, one that has failed included.
Teardown ==
  /\ Capture("teardown", IF mine = "running" THEN "seal" ELSE "returned")
  /\ Save(mine, "none")
  /\ UNCHANGED <<process, swept, bundle, stored, mine, call, copy, again, discard, runs>>

Seal ==
  /\ \/ Capture("seal", "upload") /\ bundle' = TRUE /\ Save("running", "sealed")
     \/ /\ Capture("seal", "returned") /\ UNCHANGED bundle
        /\ \E s \in Stopped : Save(s, "none")
  /\ UNCHANGED <<process, swept, stored, mine, call, copy, again, discard, runs>>

\* The bundle, the manifest, the digest; a failure saves the checkpoint, which
\* names the key from here on, unless the bundle could not even be opened.
Upload ==
  /\ \/ /\ Up /\ capture = "upload" /\ stored # Objects
        /\ stored' = IF "bundle" \notin stored THEN stored \cup {"bundle"}
                     ELSE IF "manifest" \notin stored THEN stored \cup {"manifest"}
                     ELSE Objects
        /\ UNCHANGED <<capture, rec, cp>>
     \/ /\ Capture("upload", "clean") /\ stored = Objects
        /\ Save("running", "none") /\ UNCHANGED stored
     \/ /\ Capture("upload", "returned") /\ stored # Objects
        /\ \/ \E s \in Stopped \cup {"running"} : Save(s, "upload")
           \/ stored = {} /\ Save("failed", "sealed")
        /\ UNCHANGED stored
  /\ UNCHANGED <<process, swept, bundle, mine, call, copy, again, discard, runs>>

Complete ==
  /\ Capture("clean", "returned")
  /\ Unlink /\ Save("completed", "none")
  /\ UNCHANGED <<process, swept, stored, mine, call, copy, again, discard, runs>>
-----------------------------------------------------------------------------
\* PlanResume reads the record and looks for the bundle.
Plan == IF rec # "interrupted" THEN "unavailable"
        ELSE IF cp # "none" /\ bundle THEN "upload" ELSE "restart"

Uploading(c) == call[c] \notin {"idle", "returned"}

\* Resume: another upload in a goroutine of its own ...
ResumeUpload(c) ==
  /\ Up /\ call[c] = "idle" /\ Plan = "upload"
  /\ call' = [call EXCEPT ![c] = "planned"]
  /\ copy' = [copy EXCEPT ![c] = cp]
  /\ overlapped' = (overlapped \/ \E d \in Call \ {c} : Uploading(d))
  /\ UNCHANGED <<process, swept, disk, capture, mine, again, discard, backend, hung>>

\* ... or a new job; the old record stays as it is.
ResumeRestart(c) ==
  /\ Up /\ call[c] = "idle" /\ Plan = "restart"
  /\ call' = [call EXCEPT ![c] = "returned"]
  /\ again' = again \cup {c}
  /\ UNCHANGED <<process, swept, disk, capture, mine, copy, discard, runs>>

Run(c, from, to) ==
  /\ Up /\ call[c] = from /\ c \notin hung
  /\ call' = [call EXCEPT ![c] = to]

\* The storage stops answering: no request of an upload has a deadline.
Hang(c) ==
  /\ Up /\ call[c] \in {"put", "sidecars"} /\ c \notin hung
  /\ hung' = hung \cup {c}
  /\ UNCHANGED <<process, swept, disk, capture, mine, call, copy, again, discard, backend, overlapped>>

\* runResumeUpload saves its copy as running,
ResumeBegin(c) ==
  /\ Run(c, "planned", "open")
  /\ Save("running", copy[c])
  /\ UNCHANGED <<process, swept, bundle, stored, capture, mine, copy, again, discard, runs>>

\* Mutant: a bundle that is not there counts as uploaded.
ResumeOpenMissing(c) ==
  /\ Run(c, "open", IF bundle THEN "put" ELSE "unlink")
  /\ UNCHANGED <<process, swept, disk, capture, mine, copy, again, discard, runs>>

\* Mutant: a resume waits for its bundle to come back.
ResumeOpenWaits(c) ==
  /\ bundle /\ Run(c, "open", "put")
  /\ UNCHANGED <<process, swept, disk, capture, mine, copy, again, discard, runs>>

\* opens the storage, then the bundle, or fails,
ResumeOpen(c) ==
  /\ \/ bundle /\ Run(c, "open", "put") /\ UNCHANGED <<rec, cp>>
     \/ /\ Run(c, "open", "returned")
        /\ \E s \in {"interrupted", "failed"} : Save(s, copy[c])
  /\ UNCHANGED <<process, swept, bundle, stored, capture, mine, copy, again, discard, runs>>

\* Put removes the object that is under its key before it is done (sftp), or
\* when it fails (azure).
Removing == {"azure", "sftp"}

\* Two Puts of one key write one temporary file.
Sharing  == {"disk", "sftp"}

\* The bundle goes under the checkpoint's key.  A checkpoint saved by seal has
\* none, and what is put under the empty key is not the bundle; a folder on
\* disk has no such name.
PutWorks(c) ==
  /\ copy[c] = "sealed" => backend # "disk"
  /\ stored' \in
       IF copy[c] = "sealed" THEN {stored}
       ELSE {stored \cup {"bundle"}} \cup
            (IF backend \in Sharing /\ \E d \in Call \ {c} : call[d] = "put"
             THEN {stored \ {"bundle"}} ELSE {})

\* An error can come after the object is in place, except on disk.
PutFails(c) ==
  stored' \in
    IF copy[c] = "sealed" THEN {stored}
    ELSE {stored} \cup (IF backend = "disk" THEN {} ELSE {stored \cup {"bundle"}})
                  \cup (IF backend \in Removing THEN {stored \ {"bundle"}} ELSE {})

\* Mutant: a failed upload takes the bundle with it.
ResumePutUnlinks(c) ==
  /\ \/ Run(c, "put", "sidecars") /\ PutWorks(c) /\ UNCHANGED <<rec, cp, bundle>>
     \/ /\ Run(c, "put", "returned") /\ PutFails(c)
        /\ Save("interrupted", copy[c]) /\ bundle' = FALSE
  /\ UNCHANGED <<process, swept, capture, mine, copy, again, discard, runs>>

\* uploads it, or fails, or is cancelled, and saves its copy twice,
ResumePut(c) ==
  /\ \/ Run(c, "put", "sidecars") /\ PutWorks(c) /\ UNCHANGED <<rec, cp>>
     \/ /\ Run(c, "put", "returned") /\ PutFails(c)
        /\ \E s \in Stopped \cup {"running"} : Save(s, copy[c])
  /\ UNCHANGED <<process, swept, bundle, capture, mine, copy, again, discard, runs>>

\* rewrites the sidecars, whose failure is only logged,
ResumeSidecars(c) ==
  /\ Run(c, "sidecars", "unlink")
  /\ stored' \in
       IF copy[c] = "sealed" THEN {stored}
       ELSE {stored, stored \cup {"digest"}, stored \cup {"digest", "manifest"}} \cup
            (IF backend \in Removing
             THEN {stored \ {"digest"}, (stored \cup {"digest"}) \ {"manifest"}} ELSE {})
  /\ UNCHANGED <<process, swept, rec, cp, bundle, capture, mine, copy, again, discard, runs>>

\* removes the bundle, and only then
ResumeUnlink(c) ==
  /\ Run(c, "unlink", "complete")
  /\ Unlink
  /\ UNCHANGED <<process, swept, rec, cp, stored, capture, mine, copy, again, discard, runs>>

\* saves the job as completed.
ResumeComplete(c) ==
  /\ Run(c, "complete", "returned")
  /\ Save("completed", "none")
  /\ UNCHANGED <<process, swept, bundle, stored, capture, mine, copy, again, discard, runs>>
-----------------------------------------------------------------------------
\* Discard loads the record and refuses a job that is running,
DiscardCheck ==
  /\ Up /\ discard = "idle" /\ rec \in Settled
  /\ discard' = "checked"
  /\ UNCHANGED <<process, swept, disk, capture, mine, call, copy, again, runs>>

\* removes the bundle and the working directory,
DiscardFiles ==
  /\ Up /\ discard = "checked" /\ discard' = "removed"
  /\ Unlink
  /\ UNCHANGED <<process, swept, rec, cp, stored, capture, mine, call, copy, again, runs>>

\* and deletes the record, or says it could not.
DiscardRecord ==
  /\ Up /\ discard = "removed" /\ discard' = "done"
  /\ Save("none", "none")
  /\ UNCHANGED <<process, swept, bundle, stored, capture, mine, call, copy, again, runs>>

\* Purge sweeps the working directories of all but the unfinished jobs,
PurgeFiles ==
  /\ Up /\ rec \notin {"running", "interrupted"}
  /\ Unlink
  /\ UNCHANGED <<process, swept, rec, cp, stored, capture, mine, call, copy, again, discard, runs>>

\* and deletes the records of the terminal ones.
Purge ==
  /\ Up /\ rec \in Terminal
  /\ Save("none", "none")
  /\ UNCHANGED <<process, swept, bundle, stored, capture, mine, call, copy, again, discard, runs>>
-----------------------------------------------------------------------------
\* The process dies, and with it every goroutine and call.
Crash ==
  /\ process # "down" /\ process' = "down" /\ swept' = FALSE
  /\ capture' = "returned"
  /\ call' = [c \in Call |-> IF call[c] = "idle" THEN "idle" ELSE "returned"]
  /\ discard' = IF discard = "idle" THEN "idle" ELSE "done"
  /\ UNCHANGED <<disk, mine, copy, again, runs>>

\* The next process has the folder to itself: AdoptRunning first, whose save
\* may fail,
Adopt ==
  /\ process = "down" /\ process' = "adopted"
  /\ rec' \in {IF rec = "running" THEN "interrupted" ELSE rec, rec}
  /\ UNCHANGED <<swept, cp, bundle, stored, capture, mine, call, copy, again, discard, runs>>

\* then SweepWorkDirs, which may fail to remove the directory.
SweepWork ==
  /\ process = "adopted" /\ process' = "up" /\ swept' = TRUE
  /\ Unlink
  /\ UNCHANGED <<rec, cp, stored, capture, mine, call, copy, again, discard, runs>>

\* Another PortCloak is using the folder, so the sweep is skipped.
StartBeside ==
  /\ process = "down" /\ process' = "up"
  /\ UNCHANGED <<swept, disk, capture, mine, call, copy, again, discard, runs>>
-----------------------------------------------------------------------------
CaptureStep == Collect \/ Teardown \/ Seal \/ Upload \/ Complete
ResumeStep(c) == \/ ResumeBegin(c) \/ ResumeOpen(c) \/ ResumePut(c)
                 \/ ResumeSidecars(c) \/ ResumeUnlink(c) \/ ResumeComplete(c)
Next ==
  \/ CaptureStep
  \/ \E c \in Call : ResumeUpload(c) \/ ResumeRestart(c) \/ ResumeStep(c) \/ Hang(c)
  \/ DiscardCheck \/ DiscardFiles \/ DiscardRecord \/ PurgeFiles \/ Purge
  \/ Crash \/ Adopt \/ SweepWork \/ StartBeside

(***************************************************************************)
(* A goroutine keeps running; a request of its own may hang for ever.      *)
(***************************************************************************)
Spec     == Init /\ [][Next]_vars
LiveSpec == Spec /\ \A c \in Call : WF_vars(ResumeStep(c))
-----------------------------------------------------------------------------
(***************************************************************************)
(* The two promises below need more than the code sees to: that no two     *)
(* calls upload the job at the same time, unless to S3, where each upload  *)
(* is one of its own; and that no upload starts from the checkpoint seal   *)
(* saved, which has no key, unless to disk, which refuses it.  Without     *)
(* either they fail: AlwaysStored and AlwaysKept, below.                   *)
(***************************************************************************)
OneAtATime == backend # "s3" => ~overlapped
Keyed      == backend # "disk" => \A c \in Call : copy[c] # "sealed"

(***************************************************************************)
(* 05-resilience.md 5.1: never a bundle that looks complete but isn't.  A  *)
(* record that says completed has its bundle in storage, whichever run, or *)
(* however many of them one after the other, wrote it.                     *)
(***************************************************************************)
CompletedHasBundle ==
  OneAtATime /\ Keyed /\ rec = "completed" => "bundle" \in stored

(***************************************************************************)
(* capture.go:744-746: the sealed bundle is kept until the upload          *)
(* succeeds.  It leaves this machine only once it is in storage, by a      *)
(* Discard or a Purge, or by the startup sweep.                            *)
(***************************************************************************)
BundleIsKept ==
  [][OneAtATime /\ Keyed /\ bundle /\ ~bundle' =>
       "bundle" \in stored \/ DiscardFiles \/ PurgeFiles \/ SweepWork]_vars

(***************************************************************************)
(* A resumed upload ends, unless its storage stops answering: it           *)
(* completes, fails, or can be resumed again.                              *)
(***************************************************************************)
ResumedSettles ==
  \A c \in Call : call[c] = "planned" ~> call[c] = "returned" \/ c \in hung
-----------------------------------------------------------------------------
(* What the sources say and the code does not keep: see the README. *)

(***************************************************************************)
(* README.md:127: "resuming works across an application restart".  A job   *)
(* whose bundle was sealed, and which nobody has discarded, resumes as an  *)
(* upload: its export is not run again.                                    *)
(***************************************************************************)
ResumesAcrossRestart ==
  [][\A c \in Call : ResumeRestart(c) /\ discard = "idle" => cp = "none"]_vars

(***************************************************************************)
(* 05-resilience.md 5.1 and capture.go:744-746 of every run: also of two   *)
(* that upload at once, where one's failed Put takes the other's object,   *)
(* and of one that starts from a checkpoint without a key.                 *)
(***************************************************************************)
AlwaysStored == rec = "completed" => "bundle" \in stored
AlwaysKept ==
  [][bundle /\ ~bundle' => "bundle" \in stored \/ DiscardFiles \/ PurgeFiles \/ SweepWork]_vars

(***************************************************************************)
(* jobs.go:38: a terminal job "will not move again on its own".            *)
(***************************************************************************)
CompletedStays == [][rec = "completed" => rec' \in {"completed", "none"}]_vars

(***************************************************************************)
(* jobs_controller.go:258-259: after a discard nothing of the job is left: *)
(* its record does not come back.                                          *)
(***************************************************************************)
DiscardedStaysGone == [][discard = "done" /\ rec = "none" => rec' = "none"]_vars
=============================================================================
