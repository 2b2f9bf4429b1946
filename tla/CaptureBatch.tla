---------------------------- MODULE CaptureBatch ----------------------------
(***************************************************************************)
(* A capture: internal/engine/orchestrator/capture.go, the clone executor  *)
(* it drives (target/clone, target/docker, target/k8s, reliable), and the  *)
(* front end that waits for it (cli/wait.go, or the window).               *)
(*                                                                         *)
(* A batch captures several realms of one environment.  It probes, then    *)
(* prepares one ephemeral clone, collects every realm from it, destroys    *)
(* the clone, and only then seals and uploads each realm's bundle.  Each   *)
(* realm is a job: the batch's goroutine holds one copy of it, and saves   *)
(* it to a record on disk, which a failure of the save leaves as it was    *)
(* (saveJob logs the failure and goes on).  The clone runs in somebody     *)
(* else's cluster with the production database credentials in it.          *)
(***************************************************************************)
EXTENDS Integers

CONSTANTS
  Batch,      \* the batches started in one run of the process
  Realms,     \* how many realms each batch captures: realms 1..Realms
  Unsaved,    \* the realms of a batch whose record a save may fail to write
  Fronts      \* the front ends: "watching" is the window, which only looks
              \* on, "waiting" a pcloak command that waits for its jobs

ASSUME BatchAssumption ==
  /\ Realms \in Nat \ {0} /\ Unsaved \subseteq 1 .. Realms
  /\ Fronts \subseteq {"watching", "waiting"}
  /\ "empty" \notin Batch     \* the execution context of a failed Prepare

Job     == Batch \X (1 .. Realms)
Jobs(b) == {b} \X (1 .. Realms)

VARIABLES
  front,      \* the front end: "watching"; or "waiting", "cancelling", "left";
              \* "dead" when the process was killed
  pc,         \* pc[b]: where runCaptureBatch has got to
  at,         \* at[b]: the realm the current loop is at
  cancelled,  \* the batches whose context has been cancelled
  keys,       \* Orchestrator.tornDown: the execution contexts torn down
  recorded,   \* the batches whose executor recorded the clone it created
  destroyed,  \* the batches whose executor has asked for its destruction
  cluster,    \* the batches that have a clone in the cluster
  rec,        \* rec[j]: the state of the job, in the goroutine's copy of it
  named,      \* the jobs that name the clone, in that copy
  ledger,     \* the jobs that say the clone was left behind, in that copy
  checkpoint, \* the jobs that name their sealed bundle, in that copy
  disk,       \* disk[j]: the job's record on disk
  collected,  \* the jobs whose artifacts are staged on this machine
  bundle,     \* the jobs with a sealed bundle on this machine
  stored,     \* stored[j]: the objects of the snapshot that reached storage
  hung        \* the batches that wait for a call that never returns

pod   == <<keys, recorded, destroyed, cluster>>
job   == <<rec, named, ledger, checkpoint, disk>>
local == <<collected, bundle, stored>>
vars  == <<front, pc, at, cancelled, pod, job, local, hung>>

Objects  == {"bundle", "manifest", "digest"}
Terminal == {"completed", "failed", "cancelled"}
Settled  == Terminal \cup {"interrupted"}
States   == Settled \cup {"none", "queued", "running"}
Record   == [state : States, named : BOOLEAN, left : BOOLEAN, sealed : BOOLEAN]

TypeOK ==
  /\ front \in Fronts \cup {"cancelling", "left", "dead"}
  /\ pc \in [Batch -> {"idle", "init", "probe", "prepare", "await", "next",
                       "collect", "teardown", "unprepared", "package",
                       "upload", "clean", "returned"}]
  /\ at \in [Batch -> 1 .. Realms + 1]
  /\ cancelled \subseteq Batch
  /\ keys \subseteq Batch \cup {"empty"}
  /\ recorded \subseteq Batch /\ destroyed \subseteq Batch /\ cluster \subseteq Batch
  /\ rec \in [Job -> States] /\ disk \in [Job -> Record]
  /\ named \subseteq Job /\ ledger \subseteq Job
  /\ collected \subseteq Job /\ bundle \subseteq Job /\ checkpoint \subseteq Job
  /\ stored \in [Job -> SUBSET Objects]
  /\ hung \subseteq Batch

Init ==
  /\ front \in Fronts
  /\ pc = [b \in Batch |-> "idle"]
  /\ at = [b \in Batch |-> 1]
  /\ cancelled = {}
  /\ keys = {} /\ recorded = {} /\ destroyed = {} /\ cluster = {}
  /\ rec = [j \in Job |-> "none"]
  /\ named = {} /\ ledger = {}
  /\ collected = {} /\ bundle = {} /\ checkpoint = {}
  /\ stored = [j \in Job |-> {}]
  /\ disk = [j \in Job |-> [state |-> "none", named |-> FALSE, left |-> FALSE,
                            sealed |-> FALSE]]
  /\ hung = {}
-----------------------------------------------------------------------------
Alive    == front \notin {"left", "dead"}
Waits    == front \in {"waiting", "cancelling"}
At(b, s) == Alive /\ pc[b] = s /\ b \notin hung
Goto(b, s) == pc' = [pc EXCEPT ![b] = s]
Current(b) == <<b, at[b]>>
Set(js, s) == rec' = [j \in Job |-> IF j \in js THEN s ELSE rec[j]]

\* The record a save writes: the whole of the goroutine's copy.
Now(j) == [state |-> rec[j], named |-> j \in named, left |-> j \in ledger,
           sealed |-> j \in checkpoint]

\* saveJob, for the jobs js.  A step saves when it announces its phase and again
\* with its outcome: the record gets the outcome, or what the job was before, or
\* neither, and nobody is told.
Save(js) ==
  \E wrote \in [Job -> {"outcome", "announcement", "nothing"}] :
    /\ \A j \in Job \ js : wrote[j] = "nothing"
    /\ \A j \in js : j[2] \notin Unsaved => wrote[j] = "outcome"
    /\ disk' = [j \in Job |-> CASE wrote[j] = "outcome" -> Now(j)'
                              [] wrote[j] = "announcement" -> Now(j)
                              [] wrote[j] = "nothing" -> disk[j]]

\* What a step that saves nothing of the job leaves alone.
Unedited == UNCHANGED <<named, ledger, checkpoint>>

\* fail, and failAll: a retryable error leaves the job interrupted, another
\* one failed; a cancelled context leaves it cancelled.
Fail(js, outcomes) == \E s \in outcomes : Set(js, s)
Errors(b) == {"interrupted", "failed"} \cup
             (IF b \in cancelled THEN {"cancelled"} ELSE {})

\* Capture: every job's record is saved before the batch detaches.
Capture(b) ==
  /\ At(b, "idle") /\ Goto(b, "init")
  /\ Set(Jobs(b), "queued") /\ Unedited /\ Save(Jobs(b))
  /\ UNCHANGED <<front, at, cancelled, pod, local, hung>>

\* The goroutine starts: its jobs become cancellable, the factories answer.
Track(b) ==
  /\ At(b, "init")
  /\ \/ Goto(b, "probe") /\ UNCHANGED rec
     \/ Goto(b, "returned") /\ Fail(Jobs(b), Errors(b))
  /\ Unedited /\ Save(Jobs(b))
  /\ UNCHANGED <<front, at, cancelled, pod, local, hung>>

Probe(b) ==
  /\ At(b, "probe")
  /\ \/ Goto(b, "prepare") /\ UNCHANGED rec
     \/ Goto(b, "returned") /\ Fail(Jobs(b), Errors(b))
  /\ Unedited /\ Save(Jobs(b))
  /\ UNCHANGED <<front, at, cancelled, pod, local, hung>>

\* Prepare creates the clone and records it before waiting for it, or fails
\* with nothing recorded; a container that would not start is removed, unless
\* that fails too, which nobody is told.
Create(b) ==
  /\ At(b, "prepare") /\ Unedited
  /\ \/ /\ Goto(b, "await")
        /\ recorded' = recorded \cup {b} /\ cluster' = cluster \cup {b}
        /\ UNCHANGED <<rec, disk>>
     \/ /\ Goto(b, "unprepared") /\ Fail(Jobs(b), Errors(b)) /\ Save(Jobs(b))
        /\ cluster' \in {cluster, cluster \cup {b}}
        /\ UNCHANGED recorded
  /\ UNCHANGED <<front, at, cancelled, keys, destroyed, local, hung>>

\* The clone comes up, or Prepare fails with an empty execution context.
Await(b) ==
  /\ At(b, "await")
  /\ \/ Goto(b, "next") /\ UNCHANGED rec
     \/ Goto(b, "unprepared") /\ Fail(Jobs(b), Errors(b))
  /\ Unedited /\ Save(Jobs(b))
  /\ UNCHANGED <<front, at, cancelled, pod, local, hung>>

\* Mutant: a cancelled batch drops the realms it has not reached.
NextRealmDrops(b) ==
  /\ At(b, "next")
  /\ IF at[b] <= Realms /\ b \notin cancelled
       THEN /\ Goto(b, "collect")
            /\ Set({Current(b)}, "running")
            /\ named' = named \cup {Current(b)}
            /\ UNCHANGED at
       ELSE /\ Goto(b, "teardown")
            /\ at' = [at EXCEPT ![b] = 1]
            /\ UNCHANGED <<named, rec>>
  /\ UNCHANGED <<front, cancelled, pod, ledger, checkpoint, local, hung>>
  /\ Save(Jobs(b))

\* Mutant: a cancelled batch fails every realm, the collected ones too.
NextRealmFailsAll(b) ==
  /\ At(b, "next")
  /\ IF at[b] <= Realms /\ b \notin cancelled
       THEN /\ Goto(b, "collect")
            /\ Set({Current(b)}, "running")
            /\ named' = named \cup {Current(b)}
            /\ UNCHANGED at
       ELSE /\ Goto(b, "teardown")
            /\ Set(IF at[b] <= Realms THEN Jobs(b) ELSE {}, "cancelled")
            /\ at' = [at EXCEPT ![b] = 1]
            /\ UNCHANGED named
  /\ UNCHANGED <<front, cancelled, pod, ledger, checkpoint, local, hung>>
  /\ Save(IF at[b] <= Realms /\ b \notin cancelled THEN {Current(b)} ELSE Jobs(b))

\* The head of the collection loop: the remaining realms of a cancelled batch
\* fail fast; otherwise the next one is marked running, with the clone named.
NextRealm(b) ==
  /\ At(b, "next")
  /\ IF at[b] <= Realms /\ b \notin cancelled
       THEN /\ Goto(b, "collect")
            /\ Set({Current(b)}, "running")
            /\ named' = named \cup {Current(b)}
            /\ UNCHANGED at
       ELSE /\ Goto(b, "teardown")
            /\ Set({b} \X (at[b] .. Realms), "cancelled")
            /\ at' = [at EXCEPT ![b] = 1]
            /\ UNCHANGED named
  /\ UNCHANGED <<front, cancelled, pod, ledger, checkpoint, local, hung>>
  /\ Save(IF at[b] <= Realms /\ b \notin cancelled
             THEN {Current(b)} ELSE {b} \X (at[b] .. Realms))

\* Mutant: a clone that could not be destroyed is not recorded as left behind.
DestroyQuietly(b) ==
  \/ b \notin recorded /\ UNCHANGED <<destroyed, cluster, ledger>>
  \/ /\ b \in recorded /\ destroyed' = destroyed \cup {b}
     /\ cluster' \in {cluster, cluster \ {b}}
     /\ UNCHANGED ledger

\* The executor's teardown.  It does nothing without a recorded clone.  Once
\* asked, Destroy removes the clone or fails, having removed it or not; behind
\* an open breaker it is not asked at all.  A failure goes into the ledger.
DestroyClone(b) ==
  \/ b \notin recorded /\ UNCHANGED <<destroyed, cluster, ledger>>
  \/ /\ b \in recorded
     /\ destroyed' = destroyed \cup {b}
     /\ cluster' = cluster \ {b}
     /\ ledger' \in {ledger, ledger \cup Jobs(b)}
  \/ /\ b \in recorded
     /\ destroyed' \in {destroyed, destroyed \cup {b}}
     /\ ledger' = ledger \cup Jobs(b)
     /\ UNCHANGED cluster

\* collect: export, fetch and manifest, all against the clone.
Collect(b) ==
  /\ At(b, "collect") /\ Goto(b, "next")
  /\ at' = [at EXCEPT ![b] = @ + 1]
  /\ \/ collected' = collected \cup {Current(b)} /\ UNCHANGED rec
     \/ Fail({Current(b)}, Errors(b)) /\ UNCHANGED collected
  /\ Unedited /\ Save({Current(b)})
  /\ UNCHANGED <<front, cancelled, pod, bundle, stored, hung>>

\* Orchestrator.teardown: once for each execution context.  Every job is saved,
\* naming the clone of the context: a Prepare that failed returned none.
Once(b, key) ==
  /\ keys' = keys \cup {key}
  /\ IF key \in keys THEN UNCHANGED <<destroyed, cluster, job>>
       ELSE /\ DestroyClone(b)
            /\ named' = IF key = b /\ ledger' = ledger THEN named \cup Jobs(b) ELSE named
            /\ UNCHANGED <<rec, checkpoint>> /\ Save(Jobs(b))

\* Teardown before packaging: the context names the batch's own directory.
Teardown(b) ==
  /\ At(b, "teardown") /\ Goto(b, "package")
  /\ Once(b, b)
  /\ UNCHANGED <<front, at, cancelled, recorded, local, hung>>

\* The deferred teardown after a Prepare that failed: the context is empty.
\* (After a Prepare that succeeded it finds its key taken, and is left out.)
DeferredTeardown(b) ==
  /\ At(b, "unprepared") /\ Goto(b, "returned")
  /\ Once(b, "empty")
  /\ UNCHANGED <<front, at, cancelled, recorded, local, hung>>

\* The packaging loop: realms that were not collected are skipped.
NextBundle(b) ==
  /\ At(b, "package")
  /\ Current(b) \notin collected
  /\ IF at[b] > Realms THEN Goto(b, "returned") /\ UNCHANGED at
                       ELSE at' = [at EXCEPT ![b] = @ + 1] /\ UNCHANGED pc
  /\ UNCHANGED <<front, cancelled, pod, job, local, hung>>

\* seal: the bundle is written, synced and opened again with its own key, and
\* the job names it.  Packaging and upload do not listen to a cancel.
Seal(b) ==
  /\ At(b, "package") /\ Current(b) \in collected
  /\ collected' = collected \ {Current(b)}
  /\ \/ /\ Goto(b, "upload")
        /\ bundle' = bundle \cup {Current(b)}
        /\ checkpoint' = checkpoint \cup {Current(b)}
        /\ UNCHANGED <<rec, at>>
     \/ /\ Fail({Current(b)}, {"interrupted", "failed"})
        /\ at' = [at EXCEPT ![b] = @ + 1]
        /\ UNCHANGED <<pc, bundle, checkpoint>>
  /\ UNCHANGED <<front, cancelled, pod, named, ledger, stored, hung>>
  /\ Save({Current(b)})

\* upload: the bundle, then the two sidecars.
Put(b) ==
  /\ At(b, "upload") /\ stored[Current(b)] # Objects /\ Unedited
  /\ \/ /\ \E o \in Objects :
             /\ (o # "bundle" => "bundle" \in stored[Current(b)])
             /\ o = "digest" => "manifest" \in stored[Current(b)]
             /\ stored' = [stored EXCEPT ![Current(b)] = @ \cup {o}]
        /\ UNCHANGED <<pc, rec, at, disk>>
     \/ /\ Goto(b, "package") /\ Fail({Current(b)}, {"interrupted", "failed"})
        /\ at' = [at EXCEPT ![b] = @ + 1] /\ Save({Current(b)})
        /\ UNCHANGED stored
  /\ UNCHANGED <<front, cancelled, pod, collected, bundle, hung>>

\* Mutant: the local copy goes before the record stops naming it.
UploadedUnlinkFirst(b) ==
  /\ At(b, "upload") /\ stored[Current(b)] = Objects /\ Goto(b, "clean")
  /\ bundle' = bundle \ {Current(b)}
  /\ UNCHANGED <<front, at, cancelled, pod, job, collected, stored, hung>>

\* The job gets the storage key and loses its checkpoint ...
Uploaded(b) ==
  /\ At(b, "upload") /\ stored[Current(b)] = Objects /\ Goto(b, "clean")
  /\ checkpoint' = checkpoint \ {Current(b)}
  /\ UNCHANGED <<front, at, cancelled, pod, rec, named, ledger, local, hung>>
  /\ Save({Current(b)})

\* ... then the local copy is removed, saved or not, and the job completes.  A
\* removal that fails is passed over.
Complete(b) ==
  /\ At(b, "clean") /\ Goto(b, "package")
  /\ bundle' \in {bundle, bundle \ {Current(b)}}
  /\ Set({Current(b)}, "completed") /\ Unedited /\ Save({Current(b)})
  /\ at' = [at EXCEPT ![b] = @ + 1]
  /\ UNCHANGED <<front, cancelled, pod, collected, stored, hung>>

\* A call to the environment, or to the storage, that never returns: nothing
\* sets a deadline on the probe, the export or the upload, and what has one, or
\* listens to the cancel, still waits for the other side to close its channel.
Remote == {"probe", "prepare", "await", "collect", "teardown", "unprepared", "upload"}

Hang(b) ==
  /\ Alive /\ pc[b] \in Remote /\ b \notin hung
  /\ hung' = hung \cup {b}
  /\ UNCHANGED <<front, pc, at, cancelled, pod, job, local>>
-----------------------------------------------------------------------------
Tracked(b) == pc[b] \notin {"idle", "init", "returned"}

\* Cancel finds the jobs of a batch that is being run and cancels its context.
Cancel(b) ==
  /\ front = "watching" /\ Tracked(b) /\ b \notin cancelled
  /\ cancelled' = cancelled \cup {b}
  /\ UNCHANGED <<front, pc, at, pod, job, local, hung>>

\* A command: the first signal, or the time limit, cancels every job.
Signal ==
  /\ front = "waiting" /\ \A b \in Batch : pc[b] # "idle"
  /\ front' = "cancelling"
  /\ cancelled' = cancelled \cup {b \in Batch : Tracked(b)}
  /\ UNCHANGED <<pc, at, pod, job, local, hung>>

\* Every record on disk is terminal: the wait is over, the command exits.
WaitOver ==
  /\ Waits
  /\ \A j \in Job : disk[j].state \in Terminal
  /\ front' = "left"
  /\ UNCHANGED <<pc, at, cancelled, pod, job, local, hung>>

\* A second signal, or the end of the grace period: the command exits, naming
\* the clones that the records name.
Abandon ==
  /\ front = "cancelling" /\ ~\A j \in Job : disk[j].state \in Terminal
  /\ front' = "left"
  /\ UNCHANGED <<pc, at, cancelled, pod, job, local, hung>>

\* The process is killed.
Crash ==
  /\ Alive /\ front' = "dead"
  /\ UNCHANGED <<pc, at, cancelled, pod, job, local, hung>>
-----------------------------------------------------------------------------
Step(b) ==
  \/ Track(b) \/ Probe(b) \/ Create(b) \/ Await(b) \/ NextRealm(b) \/ Collect(b)
  \/ Teardown(b) \/ DeferredTeardown(b) \/ NextBundle(b) \/ Seal(b) \/ Put(b)
  \/ Uploaded(b) \/ Complete(b)

Next == \/ \E b \in Batch : Capture(b) \/ Step(b) \/ Hang(b) \/ Cancel(b)
        \/ Signal \/ WaitOver \/ Abandon \/ Crash

(***************************************************************************)
(* A goroutine that is not blocked runs: a step is taken unless its batch  *)
(* hangs.  A waiting command looks at its records on a ticker.             *)
(***************************************************************************)
Spec     == Init /\ [][Next]_vars
LiveSpec == /\ Spec
            /\ \A b \in Batch : WF_vars(Capture(b)) /\ WF_vars(Step(b))
            /\ WF_vars(WaitOver)
-----------------------------------------------------------------------------
LeftBehind(b) == Jobs(b) \subseteq ledger

\* The job's last save failed: its record on disk is an older one.
Behind(j) == disk[j] # Now(j)

(***************************************************************************)
(* capture.go:236-238: nothing stays parked in the operator's cluster      *)
(* while bundles are packaged and uploaded, or every job of the batch says *)
(* so.                                                                     *)
(***************************************************************************)
NothingParkedWhileUploading ==
  \A b \in Batch : pc[b] \in {"package", "upload", "clean"} =>
    (b \in cluster => LeftBehind(b))

(***************************************************************************)
(* A job that is completed, in its record or for its goroutine, has its    *)
(* snapshot in storage with both sidecars.                                 *)
(***************************************************************************)
CompletedIsStored ==
  \A j \in Job : "completed" \in {rec[j], disk[j].state} => stored[j] = Objects

(***************************************************************************)
(* jobs.go:59-60 and capture.go:744-746: what a checkpoint records is      *)
(* durable.  At every moment, a crash included, the bundle a record on     *)
(* disk names is there, unless all of the snapshot is stored and the save  *)
(* that said so failed; and of a snapshot that is partly in storage the    *)
(* bundle is there, and is named unless a save failed.                     *)
(***************************************************************************)
CheckpointIsDurable ==
  \A j \in Job :
    /\ disk[j].sealed => j \in bundle \/ (stored[j] = Objects /\ Behind(j))
    /\ stored[j] \notin {{}, Objects} => j \in bundle /\ (disk[j].sealed \/ Behind(j))

(***************************************************************************)
(* One snapshot holds one realm: a realm that was collected is packaged    *)
(* whatever became of the others, so it never ends cancelled or waiting,   *)
(* and no record says that it did.                                         *)
(***************************************************************************)
CollectedIsNotLost ==
  \A b \in Batch : \A j \in Jobs(b) :
    /\ j \in collected => rec[j] = "running" /\ disk[j].state \notin Settled
    /\ pc[b] = "returned" => rec[j] \in Settled

(***************************************************************************)
(* A job that was queued settles, and its record says so unless the last   *)
(* save failed: in every run in which the process lives and no call of its *)
(* batch hangs, whatever fails, is cancelled or settles first.             *)
(***************************************************************************)
EveryJobSettles ==
  \A b \in Batch : \A j \in Jobs(b) :
    rec[j] = "queued" ~>
      \/ ~Alive \/ b \in hung
      \/ pc[b] = "returned" /\ (disk[j].state \in Settled \/ Behind(j))

(***************************************************************************)
(* wait.go, beginCancel: a signal cancels every job and the command goes   *)
(* on waiting until they have stopped.  Unless a call hangs, they stop,    *)
(* and the wait is over by itself, before the end of the grace period; or  *)
(* a record will never be terminal: of a job that was interrupted by a     *)
(* retryable error (see WaitEnds), or whose last save failed.              *)
(***************************************************************************)
CancelEndsTheWait ==
  front = "cancelling" ~>
    \/ ~Alive \/ hung # {}
    \/ /\ \A b \in Batch : pc[b] = "returned"
       /\ \E j \in Job : disk[j].state = "interrupted" \/ Behind(j)
-----------------------------------------------------------------------------
(* What the sources say and the code does not keep: see the README. *)

(***************************************************************************)
(* capture.go:192-198: teardown covers every exit path, "including a       *)
(* Prepare that failed", and "the executor tears down whatever it          *)
(* recorded".                                                              *)
(***************************************************************************)
RecordedIsTornDown ==
  \A b \in Batch : pc[b] = "returned" /\ b \in recorded =>
    b \in destroyed \/ LeftBehind(b)

(***************************************************************************)
(* wait.go:60-67: cancelling is not abandoning, the clone "is destroyed by *)
(* the job's own teardown", and the command waits for that: when the wait  *)
(* is over no clone is left that nobody was told of.                       *)
(***************************************************************************)
WaitsForTeardown ==
  [][WaitOver => \A b \in recorded : b \in destroyed \/ LeftBehind(b)]_vars

(***************************************************************************)
(* wait.go:153-156: a command that leaves without waiting for teardown     *)
(* names what is left behind; "a clone holding production credentials, and *)
(* nothing on screen naming it" must not happen.                           *)
(***************************************************************************)
AbandonNamesTheClone ==
  [][Abandon => \A b \in cluster \cap recorded : \E j \in Jobs(b) : disk[j].named]_vars

(***************************************************************************)
(* wait.go:208-215: a run that ended with interrupted jobs has an exit     *)
(* code of its own, so a command whose jobs have all settled exits.        *)
(***************************************************************************)
WaitEnds ==
  (\A j \in Job : disk[j].state \in Settled) ~> ~Alive

(***************************************************************************)
(* orchestrator.go:143-145: "Cancel stops a running job", through the      *)
(* whole stack: no job of a cancelled batch completes after the cancel.    *)
(***************************************************************************)
CancelStops ==
  [][\A b \in cancelled : \A j \in Jobs(b) :
       rec'[j] = "completed" => rec[j] = "completed"]_vars
=============================================================================
